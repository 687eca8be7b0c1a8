----------------------- MODULE NativeWebSocketProofs -----------------------
(***************************************************************************)
(* What holds of a WebSocket on the native transport for every bound and   *)
(* every choice of TLS.                                                    *)
(***************************************************************************)
EXTENDS NativeWebSocket, SequenceTheorems, FiniteSetTheorems, WellFoundedInduction, TLAPS

Upcalls == {"_onNativeMessage", "_onNativeClose", "_onNativeBackpressure",
            "_onNativeTransportError", "_onNativeClosed", "writeCallback"}
Names == NativeMethods \cup Upcalls \cup
         {"release", "activated", "opened", "_finishNativeWrite", "_fail", "terminate",
          "_finalizeClose", "user", "uncaught"}
Whys == {"none", "nobufs", "cancelled", "handshake", "async", "sync", "error", "ok"}
Steps == [at : Names, on : Nat, why : Whys]

\* n new steps lie on the stack, in place of the first d.
Moves(n, d) ==
    /\ stack' \in Seq(Steps) /\ Len(stack') = n + Len(stack) - d
    /\ \A k \in n+1..Len(stack') : k - n + d \in DOMAIN stack /\ stack'[k] = stack[k - n + d]
    /\ \A k \in d+1..Len(stack) : k - d + n \in DOMAIN stack' /\ stack'[k - d + n] = stack[k]

\* A stack that is a sequence laid on another, or on its tail.
LEMMA ConcatMoves ==
    ASSUME NEW S, NEW p \in Seq(S), NEW s \in Seq(S), NEW d \in {0, 1}, d <= Len(s),
           NEW t, t = p \o (IF d = 1 THEN Tail(s) ELSE s)
    PROVE  /\ t \in Seq(S) /\ Len(t) = Len(p) + Len(s) - d
           /\ \A k \in 1..Len(p) : k \in DOMAIN t /\ t[k] = p[k]
           /\ \A k \in Len(p)+1..Len(t) : k - Len(p) + d \in DOMAIN s /\ t[k] = s[k - Len(p) + d]
           /\ \A k \in d+1..Len(s) : k - d + Len(p) \in DOMAIN t /\ t[k - d + Len(p)] = s[k]
<1>1. PICK r : r = IF d = 1 THEN Tail(s) ELSE s  OBVIOUS
<1>2. /\ r \in Seq(S) /\ Len(r) = Len(s) - d
      /\ \A k \in 1..Len(r) : r[k] = s[k + d]
  <2>1. CASE d = 0  BY <1>1, <2>1
  <2>2. CASE d = 1  BY <1>1, <2>2, HeadTailProperties
  <2> QED BY <2>1, <2>2
<1>3. t = p \o r  BY <1>1
<1>4. /\ t \in Seq(S) /\ Len(t) = Len(p) + Len(r)
      /\ \A k \in 1..Len(p) + Len(r) : t[k] = IF k <= Len(p) THEN p[k] ELSE r[k - Len(p)]
  <2>1. /\ p \o r \in Seq(S) /\ Len(p \o r) = Len(p) + Len(r)
        /\ \A k \in 1..Len(p) + Len(r) : (p \o r)[k] = IF k <= Len(p) THEN p[k] ELSE r[k - Len(p)]
    BY ZenonT(30), <1>2, ConcatProperties
  <2>2. QED BY <1>3, <2>1
<1>5. Len(p) \in Nat /\ Len(s) \in Nat /\ Len(r) \in Nat /\ DOMAIN t = 1..Len(t) /\ DOMAIN s = 1..Len(s)
  BY <1>2, <1>4, LenProperties
<1>6. \A k \in 1..Len(p) : k \in DOMAIN t /\ t[k] = p[k]
  BY <1>4, <1>5
<1>7. \A k \in Len(p)+1..Len(t) : k - Len(p) + d \in DOMAIN s /\ t[k] = s[k - Len(p) + d]
  BY <1>2, <1>4, <1>5
<1>8. \A k \in d+1..Len(s) : k - d + Len(p) \in DOMAIN t /\ t[k - d + Len(p)] = s[k]
  BY SMTT(30), <1>2, <1>4, <1>5
<1>9. QED BY <1>2, <1>4, <1>6, <1>7, <1>8

\* What Continue puts is on top, in place of the step in progress.
LEMMA ContinueMoves ==
    ASSUME stack \in Seq(Steps), stack # <<>>, NEW p \in Seq(Steps), Continue(p)
    PROVE  Moves(Len(p), 1) /\ \A k \in 1..Len(p) : k \in DOMAIN stack' /\ stack'[k] = p[k]
<1>1. 1 <= Len(stack)  BY EmptySeq, LenProperties
<1>2. stack' = p \o (IF 1 = 1 THEN Tail(stack) ELSE stack)  BY DEF Continue
<1>3. PICK s, t : s = stack /\ t = stack'  OBVIOUS
<1>4. QED BY <1>1, <1>2, <1>3, ConcatMoves DEF Moves

\* What Call puts is on top of all that was there.
LEMMA CallMoves ==
    ASSUME stack \in Seq(Steps), NEW p \in Seq(Steps), Call(p)
    PROVE  Moves(Len(p), 0) /\ \A k \in 1..Len(p) : k \in DOMAIN stack' /\ stack'[k] = p[k]
<1>1. 0 <= Len(stack)  BY LenProperties
<1>2. stack' = p \o (IF 0 = 1 THEN Tail(stack) ELSE stack)  BY DEF Call
<1>4. QED BY <1>1, <1>2, ConcatMoves DEF Moves

StackTyped == stack \in Seq(Steps)

Drops == Moves(0, 1)
Puts1(a) == Moves(1, 1) /\ 1 \in DOMAIN stack' /\ stack'[1] = a
Puts2(a, b) == Moves(2, 1) /\ {1, 2} \subseteq DOMAIN stack' /\ stack'[1] = a /\ stack'[2] = b
Puts3(a, b, c) ==
    /\ Moves(3, 1) /\ {1, 2, 3} \subseteq DOMAIN stack'
    /\ stack'[1] = a /\ stack'[2] = b /\ stack'[3] = c
Covers1(a) == Moves(1, 0) /\ 1 \in DOMAIN stack' /\ stack'[1] = a
Covers2(a, b) == Moves(2, 0) /\ {1, 2} \subseteq DOMAIN stack' /\ stack'[1] = a /\ stack'[2] = b

\* The step in progress, by index.
LEMMA TopFacts ==
    ASSUME StackTyped, stack # <<>>
    PROVE  /\ Len(stack) >= 1 /\ Len(stack) \in Nat /\ 1 \in DOMAIN stack
           /\ Head(stack) = stack[1] /\ stack[1] \in Steps
  BY EmptySeq, LenProperties, HeadTailProperties, ElementOfSeq DEF StackTyped

\* A step that ends and leaves nothing.
LEMMA Continue0 ==
    ASSUME StackTyped, stack # <<>>, Continue(<<>>)
    PROVE  Drops
  BY ContinueMoves, EmptySeq DEF StackTyped, Drops

\* A step that becomes another one.
LEMMA Continue1 ==
    ASSUME StackTyped, stack # <<>>, NEW a \in Steps, Continue(<<a>>)
    PROVE  Puts1(a)
<1>1. PICK p : p = <<a>>  OBVIOUS
<1>2. p \in Seq(Steps) /\ Len(p) = 1 /\ p[1] = a  BY <1>1
<1>3. Continue(p)  BY <1>1
<1>4. Moves(Len(p), 1) /\ \A k \in 1..Len(p) : k \in DOMAIN stack' /\ stack'[k] = p[k]
  BY <1>2, <1>3, ContinueMoves DEF StackTyped
<1>5. QED BY <1>2, <1>4 DEF Puts1

\* A step that becomes two.
LEMMA Continue2 ==
    ASSUME StackTyped, stack # <<>>, NEW a \in Steps, NEW b \in Steps, Continue(<<a, b>>)
    PROVE  Puts2(a, b)
<1>1. PICK p : p = <<a, b>>  OBVIOUS
<1>2. p \in Seq(Steps) /\ Len(p) = 2 /\ p[1] = a /\ p[2] = b  BY <1>1
<1>3. Continue(p)  BY <1>1
<1>4. Moves(Len(p), 1) /\ \A k \in 1..Len(p) : k \in DOMAIN stack' /\ stack'[k] = p[k]
  BY <1>2, <1>3, ContinueMoves DEF StackTyped
<1>5. QED BY <1>2, <1>4 DEF Puts2

\* A step that becomes three.
LEMMA Continue3 ==
    ASSUME StackTyped, stack # <<>>, NEW a \in Steps, NEW b \in Steps, NEW c \in Steps,
           Continue(<<a, b, c>>)
    PROVE  Puts3(a, b, c)
<1>1. PICK p : p = <<a, b, c>>  OBVIOUS
<1>2. p \in Seq(Steps) /\ Len(p) = 3 /\ p[1] = a /\ p[2] = b /\ p[3] = c  BY <1>1
<1>3. Continue(p)  BY <1>1
<1>4. Moves(Len(p), 1) /\ \A k \in 1..Len(p) : k \in DOMAIN stack' /\ stack'[k] = p[k]
  BY <1>2, <1>3, ContinueMoves DEF StackTyped
<1>5. QED BY <1>2, <1>4 DEF Puts3

\* One step on top of all others.
LEMMA Call1 ==
    ASSUME StackTyped, NEW a \in Steps, Call(<<a>>)
    PROVE  Covers1(a)
<1>1. PICK p : p = <<a>>  OBVIOUS
<1>2. p \in Seq(Steps) /\ Len(p) = 1 /\ p[1] = a  BY <1>1
<1>3. Call(p)  BY <1>1
<1>4. Moves(Len(p), 0) /\ \A k \in 1..Len(p) : k \in DOMAIN stack' /\ stack'[k] = p[k]
  BY <1>2, <1>3, CallMoves DEF StackTyped
<1>5. QED BY <1>2, <1>4 DEF Covers1

\* Two steps on top of all others.
LEMMA Call2 ==
    ASSUME StackTyped, NEW a \in Steps, NEW b \in Steps, Call(<<a, b>>)
    PROVE  Covers2(a, b)
<1>1. PICK p : p = <<a, b>>  OBVIOUS
<1>2. p \in Seq(Steps) /\ Len(p) = 2 /\ p[1] = a /\ p[2] = b  BY <1>1
<1>3. Call(p)  BY <1>1
<1>4. Moves(Len(p), 0) /\ \A k \in 1..Len(p) : k \in DOMAIN stack' /\ stack'[k] = p[k]
  BY <1>2, <1>3, CallMoves DEF StackTyped
<1>5. QED BY <1>2, <1>4 DEF Covers2

\* The fields of what Step makes.
LEMMA StepFields ==
    ASSUME NEW name, NEW on, NEW why
    PROVE  /\ At(name) = [at |-> name, on |-> 0, why |-> "none"]
           /\ CloseNow(why) = [at |-> "closeNow", on |-> 0, why |-> why]
           /\ Step(name, on, why) = [at |-> name, on |-> on, why |-> why]
           /\ name \in Names => At(name) \in Steps
           /\ why \in Whys => CloseNow(why) \in Steps
           /\ name \in Names /\ on \in Nat /\ why \in Whys => Step(name, on, why) \in Steps
  BY DEF At, CloseNow, Step, Steps, Names, NativeMethods, Whys

\* The concatenation of two steps.
LEMMA OneAndOne ==
    ASSUME NEW S, NEW a \in S, NEW b \in S
    PROVE  <<a>> \o <<b>> = <<a, b>>
<1>1. PICK s, t : s = <<a>> /\ t = <<b>>  OBVIOUS
<1>2. PICK u : u = s \o t  OBVIOUS
<1>3. s \in Seq(S) /\ t \in Seq(S) /\ <<a, b>> \in Seq(S)  BY <1>1
<1>4. u \in Seq(S) /\ Len(u) = 2 /\ u[1] = a /\ u[2] = b
  BY <1>1, <1>2, <1>3, ConcatProperties
<1>5. u = <<a, b>>  BY <1>3, <1>4, SeqEqual
<1>6. QED BY <1>1, <1>2, <1>5

\* The concatenation of three steps.
LEMMA TwoAndOne ==
    ASSUME NEW S, NEW a \in S, NEW b \in S, NEW c \in S
    PROVE  <<a, b>> \o <<c>> = <<a, b, c>>
<1>1. PICK s, t : s = <<a, b>> /\ t = <<c>>  OBVIOUS
<1>2. PICK u : u = s \o t  OBVIOUS
<1>3. s \in Seq(S) /\ t \in Seq(S) /\ <<a, b, c>> \in Seq(S)  BY <1>1
<1>4. u \in Seq(S) /\ Len(u) = 3 /\ u[1] = a /\ u[2] = b /\ u[3] = c
  BY <1>1, <1>2, <1>3, ConcatProperties
<1>5. u = <<a, b, c>>  BY <1>3, <1>4, SeqEqual
<1>6. QED BY <1>1, <1>2, <1>5

\* Nothing before or behind.
LEMMA WithEmpty ==
    ASSUME NEW S, NEW s \in Seq(S)
    PROVE  s \o <<>> = s /\ <<>> \o s = s
  BY ConcatEmptySeq

Outcomes == {"pending", "sent", "cancelled", "nobufs", "handshake", "refused"}
Requests == [kind : Kinds, left : Nat, deferred : BOOLEAN, outcome : Outcomes]
Answers == [request : Nat, result : {"ok", "error", "nobufs"}]

TypeInv ==
    /\ StackTyped
    /\ active \in BOOLEAN /\ closing \in BOOLEAN
    /\ poll \in {"none", "open", "closing", "closed"} /\ interest \subseteq {"READABLE", "WRITABLE"}
    /\ destroyRequested \in BOOLEAN /\ frees \in Nat
    /\ parserClosing \in BOOLEAN /\ closeSent \in BOOLEAN /\ graceful \in BOOLEAN
    /\ reads \in 0..MaxReads
    /\ requests \in Seq(Requests) /\ queue \in Seq(Nat) /\ flushing \in BOOLEAN
    /\ output \in BOOLEAN /\ committed \in Nat /\ blockedOnRead \in BOOLEAN
    /\ shutdownPending \in BOOLEAN /\ shutdownGenerated \in BOOLEAN
    /\ readyState \in {"CONNECTING", "OPEN", "CLOSING", "CLOSED"}
    /\ nodeSocket \in {"open", "scheduled", "released"}
    /\ upgradePending \in BOOLEAN /\ nativeActive \in BOOLEAN /\ given \in BOOLEAN
    /\ closeTimer \in {"off", "armed", "fired"} /\ closeCode \in {1000, 1006}
    /\ socketError \in BOOLEAN /\ answers \in Seq(Answers)

\* updatePoll() puts nothing.
LEMMA UpdatePollMoves == ASSUME TypeInv, UpdatePoll PROVE Drops
  BY Continue0 DEF TypeInv, UpdatePoll, Return, Top

\* What submit() comes back with.
Back(i, status) == Step("_finishNativeWrite", i, status)

\* The return to JavaScript, with the status of an owned kind or another's.
LEMMA ReturnedMoves ==
    ASSUME TypeInv, stack # <<>>, NEW i \in Nat, NEW status \in Whys, Continue(Returned(i, status))
    PROVE  IF requests[i].kind \in Owned THEN Drops ELSE Puts1(Back(i, status))
<1>1. Back(i, status) \in Steps  BY StepFields DEF Back, Names
<1>2. CASE requests[i].kind \in Owned
  BY <1>2, Continue0 DEF TypeInv, Returned
<1>3. CASE requests[i].kind \notin Owned
  BY <1>1, <1>3, Continue1 DEF TypeInv, Returned, Back
<1>4. QED BY <1>2, <1>3

\* submit() tells of the backpressure, and closes without buffers, before it returns.
LEMMA BackpressureMoves ==
    ASSUME TypeInv, stack # <<>>, NEW i \in Nat, Continue(Backpressure \o Returned(i, "async"))
    PROVE  IF requests[i].kind \in Owned
             THEN Puts2(At("_onNativeBackpressure"), CloseNow("nobufs"))
             ELSE Puts3(At("_onNativeBackpressure"), CloseNow("nobufs"), Back(i, "async"))
<1>1. /\ Back(i, "async") \in Steps /\ At("_onNativeBackpressure") \in Steps
      /\ CloseNow("nobufs") \in Steps
  BY StepFields DEF Back, Names, Upcalls, Whys
<1>2. CASE requests[i].kind \in Owned
  <2>1. Backpressure \o Returned(i, "async") = <<At("_onNativeBackpressure"), CloseNow("nobufs")>>
    BY <1>1, <1>2, WithEmpty DEF Backpressure, Returned
  <2>2. Continue(<<At("_onNativeBackpressure"), CloseNow("nobufs")>>)  BY <2>1
  <2>3. QED BY <1>1, <1>2, <2>2, Continue2 DEF TypeInv
<1>3. CASE requests[i].kind \notin Owned
  <2>1. Backpressure \o Returned(i, "async")
        = <<At("_onNativeBackpressure"), CloseNow("nobufs"), Back(i, "async")>>
    BY <1>1, <1>3, TwoAndOne DEF Backpressure, Returned, Back
  <2>2. Continue(<<At("_onNativeBackpressure"), CloseNow("nobufs"), Back(i, "async")>>)  BY <2>1
  <2>3. QED BY <1>1, <1>3, <2>2, Continue3 DEF TypeInv
<1>4. QED BY <1>2, <1>3

\* flushWrites() goes on with a write, or with the shutdown.
LEMMA FlushWritesMoves ==
    ASSUME TypeInv, FlushWrites
    PROVE  \/ Drops /\ UNCHANGED flushing
           \/ ~flushing /\ ~closing /\ active /\ flushing' /\ output' = FALSE /\ Puts1(At("writing"))
           \/ ~closing /\ active /\ output /\ UNCHANGED <<flushing, output>> /\ Puts1(At("fail"))
<1>1. At("writing") \in Steps /\ At("fail") \in Steps
  BY StepFields DEF Names, NativeMethods
<1>2. QED BY <1>1, Continue0, Continue1 DEF TypeInv, FlushWrites, Drained, StillBlocked, Return, Top

\* Steps of submit().
LEMMA BehindOthersMoves ==
    ASSUME TypeInv, NEW i \in Nat, SubmitBehindOthers(i)
    PROVE  LET owned == requests'[i].kind \in Owned IN
           IF backpressureExceeded'
             THEN IF owned THEN Puts2(At("_onNativeBackpressure"), CloseNow("nobufs"))
                  ELSE Puts3(At("_onNativeBackpressure"), CloseNow("nobufs"), Back(i, "async"))
             ELSE IF owned THEN Drops ELSE Puts1(Back(i, "async"))
<1>1. requests'[i].kind = requests[i].kind
  BY DEF SubmitBehindOthers, Defer, TypeInv, Requests
<1>2. stack # <<>> /\ "async" \in Whys  BY DEF SubmitBehindOthers, Top, Whys
<1>3. CASE backpressureExceeded'
  BY <1>1, <1>2, <1>3, BackpressureMoves DEF SubmitBehindOthers
<1>4. CASE ~backpressureExceeded'
  BY <1>1, <1>2, <1>4, ReturnedMoves DEF SubmitBehindOthers
<1>5. QED BY <1>3, <1>4

\* submit() to an idle socket writes first.
LEMMA SubmitIdleMoves ==
    ASSUME TypeInv, NEW i \in Nat, SubmitIdle(i)
    PROVE  Puts2(At("flushWrites"), Step("submitted", i, "none"))
<1>1. At("flushWrites") \in Steps /\ Step("submitted", i, "none") \in Steps
  BY StepFields DEF Names, NativeMethods, Whys
<1>2. QED BY <1>1, Continue2 DEF TypeInv, SubmitIdle, Top

\* submit() after that write goes back.
LEMMA SubmittedMoves ==
    ASSUME TypeInv, NEW i \in Nat, Submitted(i)
    PROVE  LET owned == requests[i].kind \in Owned IN
           \/ closing /\ requests' = requests /\ (IF owned THEN Drops ELSE Puts1(Back(i, "error")))
           \/ /\ ~closing /\ Contains(queue, i) /\ requests' = Defer(i) /\ backpressureExceeded
              /\ IF owned THEN Puts2(At("_onNativeBackpressure"), CloseNow("nobufs"))
                 ELSE Puts3(At("_onNativeBackpressure"), CloseNow("nobufs"), Back(i, "async"))
           \/ /\ ~closing /\ Contains(queue, i) /\ requests' = Defer(i) /\ ~backpressureExceeded
              /\ updatePoll
              /\ IF owned THEN Drops ELSE Puts1(Back(i, "async"))
           \/ /\ ~closing /\ ~Contains(queue, i) /\ requests' = requests
              /\ IF owned THEN Drops ELSE Puts1(Back(i, "sync"))
<1>1. stack # <<>> /\ {"async", "sync", "error"} \subseteq Whys  BY DEF Submitted, Top, Whys
<1>2. CASE closing
  BY <1>1, <1>2, ReturnedMoves DEF Submitted
<1>3. CASE ~closing /\ Contains(queue, i) /\ backpressureExceeded
  BY <1>1, <1>3, BackpressureMoves DEF Submitted
<1>4. CASE ~closing /\ Contains(queue, i) /\ ~backpressureExceeded
  BY <1>1, <1>4, ReturnedMoves DEF Submitted
<1>5. CASE ~closing /\ ~Contains(queue, i)
  BY <1>1, <1>5, ReturnedMoves DEF Submitted
<1>6. QED BY <1>2, <1>3, <1>4, <1>5

\* The request that a flush is about.
First == Head(queue)

\* A write that ends in a callback, in another write, or in none.
LEMMA WroteMoves ==
    ASSUME TypeInv, queue # <<>>, NEW n, Wrote(n)
    PROVE  \/ /\ requests[First].left = n /\ HasCallback(First)
              /\ Covers1(Step("writeCallback", First, "ok"))
           \/ ~(requests[First].left = n /\ HasCallback(First)) /\ UNCHANGED stack
<1>1. First \in Nat  BY HeadTailProperties DEF TypeInv, First
<1>2. Step("writeCallback", First, "ok") \in Steps
  BY <1>1, StepFields DEF Names, Upcalls, Whys
<1>3. QED BY <1>2, Call1 DEF TypeInv, Wrote, First

Sending(n) ==
    /\ queue # <<>> /\ ~closing /\ Wrote(n) /\ n \in Nat
    /\ n \in 1..requests[First].left \/ (n = committed /\ committed > 0)
    /\ IF Tls THEN output' = FALSE ELSE UNCHANGED output
    /\ IF Tls /\ committed > 0 THEN n = committed /\ committed' = 0 ELSE UNCHANGED committed
Stopping == UNCHANGED <<requests, queue, pendingBytes>> /\ flushing' = FALSE

\* Where a step of flushWrites() leads.
LEMMA WritingMoves ==
    ASSUME TypeInv, Writing
    PROVE  \/ \E n \in Nat : Sending(n)
           \/ Stopping /\ Drops
           \/ Stopping /\ ~closing /\ queue # <<>> /\ Puts1(At("fail"))
           \/ Stopping /\ queue = <<>> /\ Puts1(At("performTLSShutdown"))
<1>1. /\ stack # <<>> /\ StackTyped /\ At("fail") \in Steps /\ At("performTLSShutdown") \in Steps
  BY ZenonT(30), StepFields DEF TypeInv, Writing, Top, Names, NativeMethods
<1>2. CASE queue = <<>> \/ closing
  BY <1>1, <1>2, Continue0, Continue1 DEF Writing, Stopping, writeTCP, writeTLS
<1>3. CASE queue # <<>> /\ ~closing /\ writeTCP
  <2>1. CASE WouldBlock
    BY <1>1, <2>1, Continue0 DEF WouldBlock, Return, Stopping
  <2>2. CASE WriteError
    BY <1>1, <1>3, <2>2, Continue1 DEF WriteError, Stopping
  <2>3. CASE \E n \in 1..requests[First].left : Wrote(n)
    BY <1>3, <2>3 DEF Sending, writeTCP
  <2>4. QED BY <1>3, <2>1, <2>2, <2>3 DEF writeTCP, First
<1>4. CASE queue # <<>> /\ ~closing /\ writeTLS
  <2>1. CASE WouldBlock
    BY <1>1, <2>1, Continue0 DEF WouldBlock, Return, Stopping
  <2>2. CASE WriteError
    BY <1>1, <1>4, <2>2, Continue1 DEF WriteError, Stopping
  <2>3. CASE committed > 0 /\ Drained /\ Wrote(committed) /\ committed' = 0
    BY <1>4, <2>3 DEF Sending, Drained, writeTLS, TypeInv
  <2>4. CASE committed = 0 /\ UNCHANGED committed /\ Drained
             /\ \E n \in 1..requests[First].left : Wrote(n)
    BY <1>4, <2>4 DEF Sending, Drained, writeTLS, TypeInv
  <2>5. QED BY <1>4, <2>1, <2>2, <2>3, <2>4 DEF writeTLS, First
<1>5. QED BY <1>2, <1>3, <1>4 DEF Writing

\* The events of a read, with the peer's Close or without.
Events1(n) == \A k \in 1..n : stack'[k] \in {At("message"), At("pong")}
LastEvents(n) ==
    /\ n >= 1 /\ stack'[n].at = "peerClose" /\ stack'[n].why = "none" /\ stack'[n].on \in {1000, 1006}
    /\ ~closeSent => n >= 2 /\ stack'[n-1] = At("reply")
    /\ \A k \in 1..n-1 : \/ stack'[k] \in {At("message"), At("pong")}
                         \/ k = n - 1 /\ ~closeSent /\ stack'[k] = At("reply")

\* The steps of the messages and pongs that were read are steps.
LEMMA EventStepsType ==
    ASSUME NEW body \in Bodies
    PROVE  /\ EventSteps(body) \in Seq(Steps) /\ Len(EventSteps(body)) = Len(body)
           /\ \A k \in 1..Len(body) : EventSteps(body)[k] \in {At("message"), At("pong")}
<1>1. body \in Seq({"message", "pong"})  BY TransportAssumption
<1>2. At("message") \in Steps /\ At("pong") \in Steps
  BY StepFields DEF Names, NativeMethods
<1>3. /\ DOMAIN body = 1..Len(body) /\ Len(body) \in Nat
      /\ \A k \in 1..Len(body) : body[k] \in {"message", "pong"}
  BY <1>1, LenProperties, ElementOfSeq
<1>4. PICK s : s = [k \in 1..Len(body) |-> At(body[k])]  OBVIOUS
<1>5. \A k \in 1..Len(body) : s[k] \in {At("message"), At("pong")}  BY <1>3, <1>4
<1>6. s \in Seq(Steps) /\ Len(s) = Len(body)
  BY <1>2, <1>3, <1>4, <1>5, IsASeq
<1>7. EventSteps(body) = s  BY <1>3, <1>4 DEF EventSteps
<1>8. QED BY <1>5, <1>6, <1>7

\* And so are they with a last one.
LEMMA EventsThen ==
    ASSUME NEW S, NEW a \in Seq(S), NEW c \in Seq(S), Len(c) \in {1, 2}
    PROVE  /\ a \o c \in Seq(S) /\ Len(a \o c) = Len(a) + Len(c) /\ Len(a) \in Nat
           /\ (a \o c)[Len(a) + Len(c)] = c[Len(c)]
           /\ Len(c) = 2 => (a \o c)[Len(a) + 1] = c[1]
           /\ \A k \in 1..Len(a) : (a \o c)[k] = a[k]
<1>1. /\ a \o c \in Seq(S) /\ Len(a \o c) = Len(a) + Len(c) /\ Len(a) \in Nat
      /\ \A k \in 1..Len(a) + Len(c) : (a \o c)[k] = IF k <= Len(a) THEN a[k] ELSE c[k - Len(a)]
  BY ConcatProperties, LenProperties
<1>2. PICK p, m, n : p = a \o c /\ m = Len(a) /\ n = Len(c)  OBVIOUS
<1>3. \A k \in 1..m + n : p[k] = IF k <= m THEN a[k] ELSE c[k - m]  BY <1>1, <1>2
<1>4. m \in Nat /\ n \in {1, 2}  BY <1>1, <1>2
<1>5. p[m + n] = c[n] /\ (n = 2 => p[m + 1] = c[1]) /\ \A k \in 1..m : p[k] = a[k]
  BY <1>3, <1>4
<1>6. QED BY <1>1, <1>2, <1>5

\* The steps of a read that ends in the peer's Close.
LEMMA CloseEventsType ==
    ASSUME NEW code \in {1000, 1006}
    PROVE  LET c == CloseEvents(code) IN
           /\ c \in Seq(Steps) /\ Len(c) \in {1, 2}
           /\ c[Len(c)] = Step("peerClose", code, "none")
           /\ IF closeSent THEN Len(c) = 1 ELSE Len(c) = 2 /\ c[1] = At("reply")
<1>0. code \in Nat  OBVIOUS
<1>1. PICK a, b : a = At("reply") /\ b = Step("peerClose", code, "none")  OBVIOUS
<1>2. a \in Steps /\ b \in Steps
  <2>1. "reply" \in Names /\ "peerClose" \in Names /\ "none" \in Whys
    BY DEF Names, NativeMethods, Whys
  <2>2. At("reply") \in Steps  BY <2>1, StepFields
  <2>3. Step("peerClose", code, "none") \in Steps  BY <1>0, <2>1, StepFields
  <2>4. QED BY <1>1, <2>2, <2>3
<1>3. CASE closeSent
  <2>1. CloseEvents(code) = <<b>>
    BY <1>1, <1>2, <1>3, WithEmpty DEF CloseEvents
  <2>2. QED BY <1>1, <1>2, <1>3, <2>1
<1>4. CASE ~closeSent
  <2>1. CloseEvents(code) = <<a>> \o <<b>>
    BY <1>1, <1>4 DEF CloseEvents
  <2>4. <<a>> \o <<b>> = <<a, b>>  BY <1>2, OneAndOne
  <2>5. PICK s, t : s = <<a>> \o <<b>> /\ t = <<a, b>>  BY ZenonT(30)
  <2>3. CloseEvents(code) = <<a, b>>
    <3>1. CloseEvents(code) = s  BY <2>1, <2>5
    <3>2. s = t  BY <2>4, <2>5
    <3>3. QED BY ONLY ZenonT(30), <3>1, <3>2, <2>5
  <2>2. QED BY <1>1, <1>2, <1>4, <2>3
<1>5. QED BY <1>3, <1>4

Below(d) == IF d = 1 THEN Tail(stack) ELSE stack

\* The steps p put in place of the d topmost ones, and that they then are the topmost.
Placed(p, d) == stack' = p \o Below(d)
OnTop(p, d) == Moves(Len(p), d) /\ Len(p) \in Nat /\ \A k \in 1..Len(p) : stack'[k] = p[k]

\* Such steps on top.
LEMMA EventsMove ==
    ASSUME StackTyped, stack # <<>>, NEW d \in {0, 1}, NEW p \in Seq(Steps), Placed(p, d)
    PROVE  OnTop(p, d)
<1>1. stack' = p \o Below(d)  BY DEF Placed
<1>2. Len(p) \in Nat  BY LenProperties
<1>3. CASE d = 1
  <2>1. Continue(p)  BY <1>1, <1>3 DEF Below, Continue
  <2>2. QED BY <1>2, <1>3, <2>1, ContinueMoves DEF StackTyped, OnTop
<1>4. CASE d = 0
  <2>1. Call(p)  BY <1>1, <1>4 DEF Below, Call
  <2>2. QED BY <1>2, <1>4, <2>1, CallMoves DEF StackTyped, OnTop
<1>5. QED BY <1>3, <1>4

\* consume() puts the events it parsed.
LEMMA ConsumeMoves ==
    ASSUME TypeInv, NEW d \in {0, 1}, stack # <<>>, NEW rest,
           rest = Below(d), Consume(rest)
    PROVE  \E n \in Nat :
             /\ Moves(n, d)
             /\ \/ UNCHANGED <<parserClosing, closeSent>> /\ Events1(n)
                \/ ~parserClosing /\ parserClosing' /\ closeSent' /\ LastEvents(n)
<1>1. StackTyped /\ rest \in Seq(Steps)
  <2>1. Tail(stack) \in Seq(Steps)  BY HeadTailProperties DEF TypeInv, StackTyped
  <2>2. QED BY <2>1 DEF TypeInv, StackTyped, Below
<1>2. ASSUME NEW body \in Inputs
      PROVE  /\ EventSteps(body) \in Seq(Steps)
             /\ \A k \in 1..Len(EventSteps(body)) : EventSteps(body)[k] \in {At("message"), At("pong")}
  <2>1. CASE body \in Bodies  BY <2>1, EventStepsType
  <2>2. CASE body = <<>>
    BY <2>2, EmptySeq DEF EventSteps
  <2>3. QED BY <1>2, <2>1, <2>2 DEF Inputs
<1>3. ASSUME NEW body \in Inputs, stack' = EventSteps(body) \o rest,
             UNCHANGED <<parserClosing, closeSent>>
      PROVE  \E n \in Nat : Moves(n, d) /\ Events1(n)
  <2>1. PICK p : p = EventSteps(body)  OBVIOUS
  <2>2. p \in Seq(Steps) /\ \A k \in 1..Len(p) : p[k] \in {At("message"), At("pong")}
    BY <1>2, <2>1
  <2>3. Placed(p, d)  BY <1>3, <2>1 DEF Placed
  <2>4. Moves(Len(p), d) /\ Len(p) \in Nat /\ \A k \in 1..Len(p) : stack'[k] = p[k]
    <3>1. OnTop(p, d)  BY <1>1, <2>2, <2>3, EventsMove
    <3>2. QED BY <3>1 DEF OnTop
  <2>5. QED BY <2>2, <2>4 DEF Events1
<1>4. ASSUME NEW body \in Inputs, NEW code \in {1000, 1006}, 
             stack' = EventSteps(body) \o CloseEvents(code) \o rest
      PROVE  \E n \in Nat : Moves(n, d) /\ LastEvents(n)
  <2>1. PICK a, c : a = EventSteps(body) /\ c = CloseEvents(code)  OBVIOUS
  <2>2. a \in Seq(Steps) /\ \A k \in 1..Len(a) : a[k] \in {At("message"), At("pong")}
    BY <1>2, <2>1
  <2>3. /\ c \in Seq(Steps) /\ Len(c) \in {1, 2} /\ c[Len(c)] = Step("peerClose", code, "none")
        /\ IF closeSent THEN Len(c) = 1 ELSE Len(c) = 2 /\ c[1] = At("reply")
    BY <2>1, CloseEventsType
  <2>4a. PICK p : p = a \o c  BY ZenonT(30)
  <2>4b. PICK m : m = Len(a)  BY ZenonT(30)
  <2>4c. PICK n : n = Len(c)  OBVIOUS
  <2>4. p = a \o c /\ m = Len(a) /\ n = Len(c)  BY <2>4a, <2>4b, <2>4c
  <2>5. /\ p \in Seq(Steps) /\ Len(p) = m + n /\ m \in Nat /\ p[m + n] = c[n]
        /\ n = 2 => p[m + 1] = c[1]
        /\ \A k \in 1..m : p[k] = a[k]
    BY <2>2, <2>3, <2>4, EventsThen
  <2>6. Placed(p, d)
    <3>1. (a \o c) \o rest = a \o (c \o rest)
      BY <1>1, <2>2, <2>3, ConcatAssociative
    <3>2. stack' = a \o c \o rest  BY <1>4, <2>1
    <3>3. QED BY <2>4, <3>1, <3>2 DEF Placed
  <2>7. Moves(Len(p), d) /\ Len(p) \in Nat /\ \A k \in 1..Len(p) : stack'[k] = p[k]
    <3>1. p \in Seq(Steps) /\ StackTyped /\ d \in {0, 1}  BY <1>1, <2>5
    <3>2. OnTop(p, d)  BY ONLY <2>6, <3>1, EventsMove, stack # <<>>
    <3>3. QED BY <3>2 DEF OnTop
  <2>8. n \in {1, 2} /\ n = Len(c) /\ m = Len(a)  BY <2>3, <2>4
  <2>9. /\ m + n >= 1 /\ stack'[m + n] = Step("peerClose", code, "none")
        /\ ~closeSent => n = 2 /\ stack'[m + 1] = At("reply")
        /\ closeSent => n = 1
        /\ \A k \in 1..m : stack'[k] \in {At("message"), At("pong")}
    <3>1. /\ m \in Nat /\ Len(p) = m + n /\ m + n \in 1..Len(p)
          /\ n = 2 => m + 1 \in 1..Len(p)
          /\ \A k \in 1..m : k \in 1..Len(p)
      BY <2>5, <2>8
    <3>2. stack'[m + n] = c[n]  BY <2>5, <2>7, <3>1
    <3>3. n = 2 => stack'[m + 1] = c[1]  BY <2>5, <2>7, <3>1
    <3>4. \A k \in 1..m : stack'[k] = a[k]  BY <2>5, <2>7, <3>1
    <3>5. \A k \in 1..m : stack'[k] \in {At("message"), At("pong")}  BY <2>2, <2>8, <3>4
    <3>6. /\ m + n >= 1
          /\ c[n] = Step("peerClose", code, "none")
          /\ ~closeSent => n = 2 /\ c[1] = At("reply")
          /\ closeSent => n = 1
      BY <2>3, <2>8, <3>1
    <3>7. QED BY <3>2, <3>3, <3>5, <3>6
  <2>10. Step("peerClose", code, "none").at = "peerClose" /\ Step("peerClose", code, "none").on = code
         /\ Step("peerClose", code, "none").why = "none"
    BY DEF Step
  <2>11. LastEvents(m + n)
    <3>1. PICK q : q = m + n  OBVIOUS
    <3>2. q >= 1 /\ q \in Nat /\ stack'[q] = Step("peerClose", code, "none")
      BY <2>5, <2>8, <2>9, <3>1
    <3>3. ~closeSent => q >= 2 /\ q - 1 = m + 1 /\ stack'[q-1] = At("reply")
      <4> SUFFICES ASSUME ~closeSent PROVE q >= 2 /\ q - 1 = m + 1 /\ stack'[q-1] = At("reply")
        OBVIOUS
      <4>1. n = 2 /\ m \in Nat /\ stack'[m + 1] = At("reply")  BY <2>5, <2>9
      <4>2. q >= 2 /\ q - 1 = m + 1  BY ONLY <4>1, <3>1
      <4>3. QED BY ONLY <4>1, <4>2
    <3>4. \A k \in 1..q-1 : k \in 1..m \/ (k = q - 1 /\ ~closeSent)
      <4>1. m \in Nat /\ n \in {1, 2} /\ q = m + n /\ (closeSent => n = 1)
        BY <2>5, <2>8, <2>9, <3>1
      <4>2. CASE n = 1  BY ONLY <4>1, <4>2
      <4>3. CASE n = 2  BY ONLY <4>1, <4>3
      <4>4. QED BY <4>1, <4>2, <4>3
    <3>5. LastEvents(q)
      BY <2>9, <2>10, <3>2, <3>3, <3>4 DEF LastEvents
    <3>6. QED BY <3>1, <3>5
  <2>12. QED BY <2>5, <2>7, <2>8, <2>11
<1>5. QED
  <2>1. PICK body \in Inputs :
          \/ stack' = EventSteps(body) \o rest /\ UNCHANGED <<parserClosing, closeSent>>
          \/ /\ ~parserClosing /\ parserClosing' = TRUE /\ closeSent' = TRUE
             /\ \E code \in {1000, 1006} : stack' = EventSteps(body) \o CloseEvents(code) \o rest
    BY SMTT(30) DEF Consume
  <2>2. QED BY <2>1, <1>3, <1>4

\* The head of the upgrade is parsed as what a socket reads.
LEMMA FeedMoves ==
    ASSUME TypeInv, Feed
    PROVE  IF writable THEN Consume(Tail(stack)) ELSE Drops
  BY Continue0 DEF TypeInv, Feed, Return, Top

\* A read puts the events it brought.
LEMMA ReceiveMoves ==
    ASSUME TypeInv, Receive
    PROVE  \/ ~Tls /\ Consume(Tail(stack))
           \/ /\ UNCHANGED <<handleVars, writeVars, tlsVars, peerVars>>
              /\ \/ Drops \/ Puts1(CloseNow("cancelled")) \/ Puts1(At("fail"))
                 \/ Tls /\ Puts1(At("processMemoryBIO"))
<1>1. /\ CloseNow("cancelled") \in Steps /\ At("fail") \in Steps
      /\ At("processMemoryBIO") \in Steps /\ stack # <<>> /\ StackTyped
  BY ZenonT(30), StepFields DEF Names, NativeMethods, Whys, TypeInv, Receive, Top
<1>2. QED BY <1>1, Continue0, Continue1 DEF Receive, Return

\* processMemoryBIO() reads and then flushes.
LEMMA ProcessMemoryBIOMoves ==
    ASSUME TypeInv, ProcessMemoryBIO
    PROVE  \/ closing /\ Drops
           \/ ~closing /\ Puts1(At("flushOutput"))
           \/ ~closing /\ Puts2(At("SSL_read"), At("flushOutput"))
<1>1. /\ At("SSL_read") \in Steps /\ At("flushOutput") \in Steps /\ stack # <<>> /\ StackTyped
  BY ZenonT(30), StepFields DEF Names, NativeMethods, TypeInv, ProcessMemoryBIO, Top
<1>2. CASE closing  BY <1>1, <1>2, Continue0 DEF ProcessMemoryBIO
<1>3. CASE ~closing /\ Running("SSL_read")  BY <1>1, <1>3, Continue1 DEF ProcessMemoryBIO
<1>4. CASE ~closing /\ ~Running("SSL_read")  BY <1>1, <1>4, Continue2 DEF ProcessMemoryBIO
<1>5. QED BY <1>2, <1>3, <1>4

\* A record brings events and is read on.
LEMMA ReadTLSMoves ==
    ASSUME TypeInv, ReadTLS
    PROVE  \/ ~closing /\ Consume(stack)
           \/ /\ UNCHANGED <<handleVars, writeVars, tlsVars, peerVars>>
              /\ \/ Drops
                 \/ ~closing /\ (Puts1(CloseNow("cancelled")) \/ Puts1(At("fail")))
<1>1. /\ CloseNow("cancelled") \in Steps /\ At("fail") \in Steps /\ stack # <<>> /\ StackTyped
  BY ZenonT(30), StepFields DEF Names, NativeMethods, Whys, TypeInv, ReadTLS, Top
<1>2. QED BY <1>1, Continue0, Continue1 DEF ReadTLS, Return

\* flushOutput() is over, or fails.
LEMMA FlushOutputMoves ==
    ASSUME TypeInv, FlushOutput
    PROVE  \/ closing /\ Drops /\ UNCHANGED output
           \/ ~closing /\ Drops /\ output' \in BOOLEAN
           \/ ~closing /\ Puts1(At("fail")) /\ UNCHANGED output
<1>1. At("fail") \in Steps /\ stack # <<>> /\ StackTyped
  BY ZenonT(30), StepFields DEF Names, NativeMethods, TypeInv, FlushOutput, Top
<1>2. QED BY <1>1, Continue0, Continue1 DEF FlushOutput, Return

\* What an event of the parser leads to.
LEMMA DispatchMoves ==
    ASSUME TypeInv, Dispatch
    PROVE  \/ /\ Head(stack).at \in {"message", "pong", "reply", "peerClose", "peerClosed"} /\ closing
              /\ Drops /\ UNCHANGED <<requests, graceful>>
           \/ /\ Head(stack).at = "message" /\ ~closing
              /\ Puts1(At("_onNativeMessage")) /\ UNCHANGED <<requests, graceful>>
           \/ /\ Head(stack).at \in Owned /\ ~closing
              /\ requests' = NewRequest(Head(stack).at, 1)
              /\ Puts1(Step("submit", NextRequest, "none")) /\ UNCHANGED graceful
           \/ /\ Head(stack).at = "peerClose" /\ ~closing
              /\ Puts2(Step("_onNativeClose", Head(stack).on, "none"), At("peerClosed"))
              /\ UNCHANGED <<requests, graceful>>
           \/ /\ Head(stack).at = "peerClosed" /\ ~closing /\ graceful' = TRUE
              /\ Puts1(At("performTLSShutdown")) /\ UNCHANGED requests
<1>1. stack # <<>> /\ StackTyped  BY DEF Dispatch, TypeInv
<1>2. NextRequest \in Nat /\ Head(stack).on \in Nat
  BY <1>1, TopFacts, LenProperties DEF NextRequest, TypeInv, Steps
<1>3. /\ At("_onNativeMessage") \in Steps /\ At("peerClosed") \in Steps
      /\ At("performTLSShutdown") \in Steps
      /\ Step("submit", NextRequest, "none") \in Steps
      /\ Step("_onNativeClose", Head(stack).on, "none") \in Steps
  BY <1>2, StepFields DEF Names, NativeMethods, Upcalls, Whys
<1>4. QED BY <1>1, <1>3, Continue0, Continue1, Continue2 DEF Dispatch, Return, Top

\* Where performTLSShutdown() leads.
LEMMA PerformTLSShutdownMoves ==
    ASSUME TypeInv, PerformTLSShutdown
    PROVE  \/ Drops /\ UNCHANGED tlsVars
                /\ ~(ShutdownDue /\ (Top("shutdownIfPending") => shutdownPending))
           \/ ShutdownDue /\ ~Tls /\ Puts1(CloseNow("handshake")) /\ UNCHANGED tlsVars
           \/ /\ ShutdownDue /\ Tls /\ UNCHANGED <<committed, blockedOnRead>>
              /\ \/ /\ output' = FALSE /\ shutdownPending' = FALSE /\ shutdownGenerated' = TRUE
                    /\ Puts1(CloseNow("handshake"))
                 \/ /\ output' = TRUE /\ shutdownPending' = TRUE /\ Drops
                    /\ shutdownGenerated' \in {shutdownGenerated, TRUE}
                 \/ /\ Puts1(At("fail")) \/ Puts1(CloseNow("cancelled"))
                    /\ UNCHANGED <<output, shutdownPending, shutdownGenerated>>
<1>1. /\ At("fail") \in Steps /\ CloseNow("handshake") \in Steps /\ CloseNow("cancelled") \in Steps
      /\ stack # <<>> /\ StackTyped
  BY ZenonT(30), StepFields DEF Names, NativeMethods, Whys, TypeInv, PerformTLSShutdown, Top
<1>2. QED BY <1>1, Continue0, Continue1 DEF PerformTLSShutdown, Return, Drained

\* closeNow() cancels the writes once.
LEMMA BeginCloseMoves ==
    ASSUME TypeInv, BeginClose
    PROVE  IF closing THEN Drops ELSE Puts1(Step("cancelWrites", 0, Head(stack).why))
<1>1. stack # <<>> /\ StackTyped  BY DEF BeginClose, Top, TypeInv
<1>2. Head(stack).why \in Whys  BY <1>1, TopFacts DEF Steps
<1>3. Step("cancelWrites", 0, Head(stack).why) \in Steps
  BY <1>2, StepFields DEF Names, NativeMethods
<1>4. QED BY <1>1, <1>3, Continue0, Continue1 DEF BeginClose

\* cancelWrites() calls back for one request at a time.
LEMMA CancelWriteMoves ==
    ASSUME TypeInv, CancelWrite
    PROVE  IF HasCallback(First)
             THEN Covers1(Step("writeCallback", First,
                               IF Head(stack).why = "nobufs" THEN "nobufs" ELSE "error"))
             ELSE UNCHANGED stack
<1>1. First \in Nat  BY HeadTailProperties DEF TypeInv, First, CancelWrite
<1>2. /\ Step("writeCallback", First, "nobufs") \in Steps
      /\ Step("writeCallback", First, "error") \in Steps
  BY <1>1, StepFields DEF Names, Upcalls, Whys
<1>3. QED BY <1>2, Call1 DEF TypeInv, CancelWrite, First

\* closeNow() is over.
LEMMA ClosedMoves == ASSUME TypeInv, Closed PROVE Drops
  BY Continue0 DEF TypeInv, Closed, Return, Top

\* fail() tells JavaScript, and closes.
LEMMA FailMoves ==
    ASSUME TypeInv, Fail
    PROVE  IF closing THEN Drops
           ELSE Puts2(At("_onNativeTransportError"), CloseNow("cancelled"))
<1>1. /\ At("_onNativeTransportError") \in Steps /\ CloseNow("cancelled") \in Steps
      /\ stack # <<>> /\ StackTyped
  BY ZenonT(30), StepFields DEF Names, Upcalls, Whys, TypeInv, Fail, Top
<1>2. CASE closing  BY <1>1, <1>2, Continue0 DEF Fail
<1>3. CASE ~closing  BY <1>1, <1>3, Continue2 DEF Fail
<1>4. QED BY <1>2, <1>3

\* requestDestroy() closes, and destroys what is active.
LEMMA RequestDestroyMoves ==
    ASSUME TypeInv, RequestDestroy
    PROVE  IF ~active THEN Drops
           ELSE IF closing THEN Puts1(At("destroy"))
           ELSE Puts2(CloseNow("cancelled"), At("destroy"))
<1>1. /\ At("destroy") \in Steps /\ CloseNow("cancelled") \in Steps
      /\ stack # <<>> /\ StackTyped
  BY ZenonT(30), StepFields DEF Names, NativeMethods, Whys, TypeInv, RequestDestroy, Top
<1>2. CASE ~active  BY <1>1, <1>2, Continue0 DEF RequestDestroy, Return
<1>3. CASE active /\ closing
  <2>1. <<>> \o <<At("destroy")>> = <<At("destroy")>>  BY <1>1, WithEmpty
  <2>2. Continue(<<At("destroy")>>)  BY <1>3, <2>1 DEF RequestDestroy
  <2>3. QED BY <1>1, <1>3, <2>2, Continue1
<1>4. CASE active /\ ~closing
  <2>1. <<CloseNow("cancelled")>> \o <<At("destroy")>> = <<CloseNow("cancelled"), At("destroy")>>
    BY <1>1, OneAndOne
  <2>2. Continue(<<CloseNow("cancelled"), At("destroy")>>)  BY <1>4, <2>1 DEF RequestDestroy
  <2>3. QED BY <1>1, <1>4, <2>2, Continue2
<1>5. QED BY <1>2, <1>3, <1>4 DEF TypeInv

\* destroy() is over.
LEMMA DestroyMoves == ASSUME TypeInv, Destroy PROVE Drops
  BY Continue0 DEF TypeInv, Destroy, Return, Top

\* release() is over.
LEMMA ReleaseMoves == ASSUME TypeInv, Release PROVE Drops
  BY Continue0 DEF TypeInv, Release, Return, Top

\* An error of the poll fails the transport.
LEMMA OnPollErrorMoves == ASSUME TypeInv, OnPollError PROVE Covers1(At("fail"))
  BY ZenonT(30), StepFields, Call1 DEF TypeInv, OnPollError, Names, NativeMethods

\* The close callback tells JavaScript before it releases.
LEMMA OnPollClosedMoves ==
    ASSUME TypeInv, OnPollClosed PROVE Covers2(At("_onNativeClosed"), At("release"))
<1>1. At("_onNativeClosed") \in Steps /\ At("release") \in Steps
  BY StepFields DEF Names, Upcalls
<1>2. QED BY <1>1, Call2 DEF TypeInv, OnPollClosed

PollSteps == {At("readAvailable"), At("flushWrites"), At("shutdownIfPending"), At("updatePoll")}
             \cup (IF Tls THEN {At("processMemoryBIO")} ELSE {})

\* onPoll() reads, writes, shuts down and updates the poll, as far as it gets.
LEMMA OnPollMoves ==
    ASSUME TypeInv, OnPoll
    PROVE  \E n \in Nat : /\ Moves(n, 0) /\ n >= 1 /\ stack'[n] = At("updatePoll")
                          /\ \A k \in 1..n : stack'[k] \in PollSteps
<1>0. PollSteps \subseteq Steps
  <2>1. {"readAvailable", "flushWrites", "shutdownIfPending", "processMemoryBIO", "updatePoll"}
        \subseteq Names
    BY DEF Names, NativeMethods
  <2>2. QED BY <2>1, StepFields DEF PollSteps
<1>1. PICK a, b : /\ a \in Seq(PollSteps) /\ b \in Seq(PollSteps)
                  /\ Call(a \o b \o <<At("updatePoll")>>)
  <2>1. PICK events \in SUBSET interest : 
      Call((IF "READABLE" \in events
                 THEN <<At("readAvailable")>> \o (IF blockedOnRead THEN <<At("flushWrites")>> ELSE <<>>)
                 ELSE <<>>)
                \o (IF "WRITABLE" \in events
                    THEN <<At("shutdownIfPending")>>
                         \o (IF Tls THEN <<At("processMemoryBIO")>> ELSE <<>>)
                         \o <<At("flushWrites"), At("shutdownIfPending")>>
                    ELSE <<>>)
                \o <<At("updatePoll")>>)
    BY DEF OnPoll
  <2>2. PICK r, f, s, m, g : /\ r = <<At("readAvailable")>> /\ f = <<At("flushWrites")>>
                             /\ s = <<At("shutdownIfPending")>> /\ m = <<At("processMemoryBIO")>>
                             /\ g = <<At("flushWrites"), At("shutdownIfPending")>>
    OBVIOUS
  <2>3. /\ r \in Seq(PollSteps) /\ f \in Seq(PollSteps) /\ s \in Seq(PollSteps)
        /\ g \in Seq(PollSteps)
    BY <2>2 DEF PollSteps
  <2>c. Tls => m \in Seq(PollSteps)
    <3> SUFFICES ASSUME Tls PROVE m \in Seq(PollSteps)  OBVIOUS
    <3>1. At("processMemoryBIO") \in PollSteps  BY DEF PollSteps
    <3>2. QED BY <2>2, <3>1
  <2>4. PICK ff, mm : /\ ff = (IF blockedOnRead THEN f ELSE <<>>) /\ ff \in Seq(PollSteps)
                      /\ mm = (IF Tls THEN m ELSE <<>>) /\ mm \in Seq(PollSteps)
    BY <2>3, <2>c, EmptySeq
  <2>5. r \o ff \in Seq(PollSteps) /\ s \o mm \o g \in Seq(PollSteps)
    BY <2>3, <2>4, ConcatProperties
  <2>6. PICK a, b : /\ a = (IF "READABLE" \in events THEN r \o ff ELSE <<>>) /\ a \in Seq(PollSteps)
                    /\ b = (IF "WRITABLE" \in events THEN s \o mm \o g ELSE <<>>)
                    /\ b \in Seq(PollSteps)
    BY <2>5, EmptySeq
  <2>7. Call(a \o b \o <<At("updatePoll")>>)  BY <2>1, <2>2, <2>4, <2>6, Zenon
  <2>8. QED BY <2>6, <2>7
<1>2. PICK p, u, q : p = a \o b /\ u = <<At("updatePoll")>> /\ q = p \o u  OBVIOUS
<1>3. p \in Seq(PollSteps) /\ u \in Seq(PollSteps) /\ Len(u) = 1 /\ u[1] = At("updatePoll")
  BY <1>1, <1>2, ConcatProperties DEF PollSteps
<1>4. /\ q \in Seq(PollSteps) /\ Len(q) = Len(p) + 1 /\ Len(p) \in Nat
      /\ q[Len(p) + 1] = At("updatePoll")
  BY <1>2, <1>3, EventsThen
<1>5. Call(q)  BY <1>1, <1>2, Zenon
<1>6. q \in Seq(Steps)
  BY <1>0, <1>4
<1>7. Moves(Len(q), 0) /\ \A k \in 1..Len(q) : stack'[k] = q[k]
  BY <1>5, <1>6, CallMoves DEF TypeInv, StackTyped
<1>8. \A k \in 1..Len(q) : q[k] \in PollSteps  BY <1>4, LenProperties, ElementOfSeq
<1>9. QED BY <1>4, <1>7, <1>8

\* The concatenation of four steps.
LEMMA OneAndThree ==
    ASSUME NEW S, NEW a \in S, NEW b \in S, NEW c \in S, NEW d \in S
    PROVE  <<a>> \o <<b, c, d>> = <<a, b, c, d>>
<1>1. PICK s, t : s = <<a>> /\ t = <<b, c, d>>  OBVIOUS
<1>2. PICK u : u = s \o t  OBVIOUS
<1>3. s \in Seq(S) /\ t \in Seq(S) /\ <<a, b, c, d>> \in Seq(S)  BY <1>1
<1>4. u \in Seq(S) /\ Len(u) = 4 /\ u[1] = a /\ u[2] = b /\ u[3] = c /\ u[4] = d
  BY <1>1, <1>2, <1>3, ConcatProperties
<1>5. u = <<a, b, c, d>>  BY <1>3, <1>4, SeqEqual
<1>6. QED BY <1>1, <1>2, <1>5

Puts4(a, b, c, d) ==
    /\ Moves(4, 1) /\ {1, 2, 3, 4} \subseteq DOMAIN stack'
    /\ stack'[1] = a /\ stack'[2] = b /\ stack'[3] = c /\ stack'[4] = d

\* A step that becomes four.
LEMMA Continue4 ==
    ASSUME StackTyped, stack # <<>>, NEW a \in Steps, NEW b \in Steps, NEW c \in Steps,
           NEW d \in Steps, Continue(<<a, b, c, d>>)
    PROVE  Puts4(a, b, c, d)
<1>1. PICK p : p = <<a, b, c, d>>  OBVIOUS
<1>2. p \in Seq(Steps) /\ Len(p) = 4 /\ p[1] = a /\ p[2] = b /\ p[3] = c /\ p[4] = d  BY <1>1
<1>3. Continue(p)  BY <1>1
<1>4. Moves(Len(p), 1) /\ \A k \in 1..Len(p) : k \in DOMAIN stack' /\ stack'[k] = p[k]
  BY <1>2, <1>3, ContinueMoves DEF StackTyped
<1>5. QED BY <1>2, <1>4 DEF Puts4

\* activate() starts the transport, or what comes of its failure.
LEMMA ActivateMoves ==
    ASSUME TypeInv, Activate
    PROVE  IF active \/ closing THEN Puts1(At("activated"))
           ELSE IF Tls THEN Puts4(At("processMemoryBIO"), At("flushWrites"), At("updatePoll"),
                                  At("activated"))
           ELSE Puts3(At("flushWrites"), At("updatePoll"), At("activated"))
<1>1. /\ At("processMemoryBIO") \in Steps /\ At("flushWrites") \in Steps
      /\ At("updatePoll") \in Steps /\ At("activated") \in Steps
  <2>1. {"flushWrites", "processMemoryBIO", "updatePoll", "activated"} \subseteq Names
    BY DEF Names, NativeMethods
  <2>2. QED BY <2>1, StepFields
<1>2. stack # <<>> /\ StackTyped  BY DEF TypeInv, Activate, Top
<1>3. CASE active \/ closing  BY <1>1, <1>2, <1>3, Continue1 DEF Activate
<1>4. CASE ~(active \/ closing) /\ Tls
  <2>1. <<At("processMemoryBIO")>> \o <<At("flushWrites"), At("updatePoll"), At("activated")>>
        = <<At("processMemoryBIO"), At("flushWrites"), At("updatePoll"), At("activated")>>
    BY <1>1, OneAndThree
  <2>2. Continue(<<At("processMemoryBIO"), At("flushWrites"), At("updatePoll"), At("activated")>>)
    BY <1>4, <2>1 DEF Activate
  <2>3. QED BY <1>1, <1>2, <1>4, <2>2, Continue4
<1>5. CASE ~(active \/ closing) /\ ~Tls
  <2>1. PICK p : p = <<At("flushWrites"), At("updatePoll"), At("activated")>>  OBVIOUS
  <2>2. p \in Seq(Steps)  BY <1>1, <2>1
  <2>3. Continue(<<>> \o p)  BY <1>5, <2>1 DEF Activate
  <2>4. Continue(p)  BY <2>2, <2>3, WithEmpty
  <2>5. QED BY <1>1, <1>2, <1>5, <2>1, <2>4, Continue3
<1>6. QED BY <1>3, <1>4, <1>5

\* The steps of JavaScript that the actions put are steps.
LEMMA ScriptSteps ==
    /\ At("activate") \in Steps /\ At("_finalizeClose") \in Steps /\ At("_fail") \in Steps
    /\ At("opened") \in Steps /\ At("user") \in Steps /\ At("uncaught") \in Steps
    /\ At("terminate") \in Steps /\ At("feed") \in Steps /\ At("requestDestroy") \in Steps
    /\ CloseNow("cancelled") \in Steps
<1>1. {"activate", "_finalizeClose", "_fail", "opened", "user", "uncaught", "terminate", "feed",
       "requestDestroy"} \subseteq Names
  BY DEF Names, NativeMethods
<1>2. "cancelled" \in Whys  BY DEF Whys
<1>3. QED BY <1>1, <1>2, StepFields

\* The close of node's socket finalizes what has no transport.
LEMMA NodeSocketClosedMoves ==
    ASSUME TypeInv, NodeSocketClosed
    PROVE  \/ UNCHANGED stack /\ nodeSocket' = "scheduled"
           \/ /\ nodeSocket' = "released"
              /\ IF upgradePending /\ readyState = "CONNECTING" THEN Covers1(At("activate"))
                 ELSE Covers1(At("_finalizeClose"))
  BY ScriptSteps, Call1 DEF TypeInv, NodeSocketClosed

\* What was scheduled after the upgrade goes on, or finalizes.
LEMMA RunScheduledMoves ==
    ASSUME TypeInv, RunScheduled
    PROVE  IF StillPending THEN Covers1(At("activate")) ELSE Covers1(At("_finalizeClose"))
  BY ScriptSteps, Call1 DEF TypeInv, RunScheduled

\* JavaScript after activate().
LEMMA ActivatedMoves ==
    ASSUME TypeInv, Activated
    PROVE  \/ Puts1(At("_fail")) /\ UNCHANGED requests
           \/ /\ ~closing /\ requests' = NewRequest("response", 1)
              /\ Puts2(Step("submit", NextRequest, "none"), At("opened"))
<1>1. NextRequest \in Nat  BY LenProperties DEF NextRequest, TypeInv
<1>2. Step("submit", NextRequest, "none") \in Steps
  BY <1>1, StepFields DEF Names, NativeMethods, Whys
<1>3. QED BY <1>2, ScriptSteps, Continue1, Continue2 DEF TypeInv, Activated, Top

\* The 'open' event, and the head that came with the upgrade.
LEMMA OpenedMoves ==
    ASSUME TypeInv, Opened
    PROVE  IF ~upgradePending THEN Drops /\ UNCHANGED <<readyState, upgradePending, given>>
           ELSE Puts1(At("user")) \/ Puts2(At("user"), At("feed"))
  BY ScriptSteps, Continue0, Continue1, Continue2 DEF TypeInv, Opened, Return, Top

\* An upgrade that is given up.
LEMMA AbortUpgradeMoves ==
    ASSUME TypeInv, AbortUpgrade
    PROVE  IF nodeSocket = "open" THEN Covers1(CloseNow("cancelled"))
           ELSE Covers2(CloseNow("cancelled"), At("_finalizeClose"))
  BY ZenonT(30), ScriptSteps, Call1, Call2 DEF TypeInv, AbortUpgrade

\* Application code that runs when it can.
Runs == IF given THEN Puts1(At("user")) ELSE Drops

\* Application code runs only when it can do something.
LEMMA UserMoves == ASSUME TypeInv, stack # <<>>, Continue(User) PROVE Runs
<1>1. CASE given  BY <1>1, ScriptSteps, Continue1 DEF TypeInv, User, Runs
<1>2. CASE ~given  BY <1>2, Continue0 DEF TypeInv, User, Runs
<1>3. QED BY <1>1, <1>2

\* What JavaScript does on a call of the transport.
LEMMA FromNativeMoves ==
    ASSUME TypeInv, FromNative
    PROVE  \/ /\ Head(stack).at = "_onNativeMessage" /\ (Drops \/ (given /\ Puts1(At("user"))))
              /\ UNCHANGED <<readyState, closeTimer, closeCode, socketError, answers>>
           \/ /\ Head(stack).at = "_onNativeClose" /\ Drops
              /\ IF readyState = "CLOSED" THEN UNCHANGED <<readyState, closeTimer, closeCode>>
                 ELSE closeCode' = Head(stack).on /\ Closing /\ StartCloseTimeout
              /\ UNCHANGED <<socketError, answers>>
           \/ /\ Head(stack).at = "_onNativeBackpressure" /\ Drops
              /\ Closing /\ UNCHANGED <<closeTimer, closeCode, socketError, answers>>
           \/ /\ Head(stack).at = "_onNativeTransportError"
              /\ IF socketError \/ readyState = "CLOSED" THEN Drops
                 ELSE IF given THEN Puts1(At("user")) ELSE Puts1(At("uncaught"))
              /\ socketError' = (socketError \/ readyState # "CLOSED")
              /\ Closing /\ UNCHANGED <<closeTimer, closeCode, answers>>
           \/ /\ Head(stack).at = "_onNativeClosed" /\ Puts1(At("_finalizeClose"))
              /\ UNCHANGED <<readyState, closeTimer, closeCode, socketError, answers>>
           \/ /\ Head(stack).at = "writeCallback" /\ Answer(Head(stack).on, Head(stack).why)
              /\ Runs
              /\ UNCHANGED <<readyState, closeTimer, closeCode, socketError>>
<1>1. stack # <<>> /\ StackTyped  BY DEF FromNative, TypeInv
<1>2. CASE Top("_onNativeMessage")
  <2>0. /\ Head(stack).at = "_onNativeMessage"
        /\ Continue(IF readyState = "OPEN" THEN User ELSE <<>>)
        /\ UNCHANGED <<readyState, closeTimer, closeCode, socketError, answers>>
    BY <1>2 DEF FromNative, Top
  <2>1. CASE readyState = "OPEN" /\ given
    BY <1>1, <1>2, <2>1, ScriptSteps, Continue1 DEF FromNative, Top, User
  <2>2. CASE readyState = "OPEN" /\ ~given
    <3>1. Continue(<<>>)  BY <2>0, <2>2 DEF User
    <3>2. Drops  BY <1>1, <3>1, Continue0
    <3>3. QED BY <2>0, <3>2
  <2>3. CASE readyState # "OPEN"
    <3>1. Continue(<<>>)  BY <2>0, <2>3
    <3>2. Drops  BY <1>1, <3>1, Continue0
    <3>3. QED BY <2>0, <3>2
  <2>4. QED BY <2>1, <2>2, <2>3
<1>3. CASE Top("_onNativeClose")
  BY <1>1, <1>3, Continue0 DEF FromNative, Top, Return
<1>4. CASE Top("_onNativeBackpressure")
  BY <1>1, <1>4, Continue0 DEF FromNative, Top, Return
<1>5. CASE Top("_onNativeTransportError")
  <2>1. CASE socketError \/ readyState = "CLOSED"
    BY <1>1, <1>5, <2>1, Continue0 DEF FromNative, Top
  <2>2. CASE ~(socketError \/ readyState = "CLOSED") /\ given
    BY <1>1, <1>5, <2>2, ScriptSteps, Continue1 DEF FromNative, Top, EmitError
  <2>3. CASE ~(socketError \/ readyState = "CLOSED") /\ ~given
    BY <1>1, <1>5, <2>3, ScriptSteps, Continue1 DEF FromNative, Top, EmitError
  <2>4. QED BY <2>1, <2>2, <2>3
<1>6. CASE Top("_onNativeClosed")
  BY <1>1, <1>6, ScriptSteps, Continue1 DEF FromNative, Top
<1>7. CASE Top("writeCallback")
  BY <1>1, <1>7, UserMoves DEF FromNative, Top
<1>8. QED BY <1>2, <1>3, <1>4, <1>5, <1>6, <1>7 DEF FromNative

\* A failed write of JavaScript's own fails the WebSocket.
LEMMA FinishNativeWriteMoves ==
    ASSUME TypeInv, FinishNativeWrite
    PROVE  IF Head(stack).why = "error" /\ requests[Head(stack).on].kind # "close"
             THEN Puts1(At("_fail")) ELSE Drops
<1>1. stack # <<>> /\ StackTyped  BY DEF FinishNativeWrite, Top, TypeInv
<1>2. CASE Head(stack).why = "error" /\ requests[Head(stack).on].kind # "close"
  BY <1>1, <1>2, ScriptSteps, Continue1 DEF FinishNativeWrite
<1>3. CASE ~(Head(stack).why = "error" /\ requests[Head(stack).on].kind # "close")
  BY <1>1, <1>3, Continue0 DEF FinishNativeWrite
<1>4. QED BY <1>2, <1>3

\* _fail() tells the application and terminates.
LEMMA FailWebSocketMoves ==
    ASSUME TypeInv, FailWebSocket
    PROVE  IF readyState = "CLOSED" THEN Drops
           ELSE IF socketError THEN Puts1(At("terminate"))
           ELSE IF given THEN Puts2(At("user"), At("terminate"))
           ELSE Puts2(At("uncaught"), At("terminate"))
<1>1. stack # <<>> /\ StackTyped  BY DEF FailWebSocket, Top, TypeInv
<1>2. CASE readyState = "CLOSED"  BY <1>1, <1>2, Continue0 DEF FailWebSocket
<1>3. CASE readyState # "CLOSED" /\ socketError
  <2>1. <<>> \o <<At("terminate")>> = <<At("terminate")>>  BY ScriptSteps, WithEmpty
  <2>2. Continue(<<At("terminate")>>)  BY <1>3, <2>1 DEF FailWebSocket
  <2>3. QED BY <1>1, <1>3, <2>2, ScriptSteps, Continue1
<1>4. CASE readyState # "CLOSED" /\ ~socketError /\ given
  <2>1. <<At("user")>> \o <<At("terminate")>> = <<At("user"), At("terminate")>>
    BY ScriptSteps, OneAndOne
  <2>2. Continue(<<At("user"), At("terminate")>>)  BY <1>4, <2>1 DEF FailWebSocket, EmitError
  <2>3. QED BY <1>1, <1>4, <2>2, ScriptSteps, Continue2
<1>5. CASE readyState # "CLOSED" /\ ~socketError /\ ~given
  <2>1. <<At("uncaught")>> \o <<At("terminate")>> = <<At("uncaught"), At("terminate")>>
    BY ScriptSteps, OneAndOne
  <2>2. Continue(<<At("uncaught"), At("terminate")>>)  BY <1>5, <2>1 DEF FailWebSocket, EmitError
  <2>3. QED BY <1>1, <1>5, <2>2, ScriptSteps, Continue2
<1>6. QED BY <1>2, <1>3, <1>4, <1>5

\* terminate() asks for the transport's end, or finalizes.
LEMMA TerminateMoves ==
    ASSUME TypeInv, Terminate
    PROVE  IF readyState = "CLOSED" THEN Drops
           ELSE IF nativeActive THEN Puts1(CloseNow("cancelled"))
           ELSE Puts2(CloseNow("cancelled"), At("_finalizeClose"))
<1>1. stack # <<>> /\ StackTyped  BY DEF Terminate, Top, TypeInv
<1>2. CASE readyState = "CLOSED"  BY <1>1, <1>2, Continue0 DEF Terminate
<1>3. CASE readyState # "CLOSED" /\ nativeActive
  <2>1. <<CloseNow("cancelled")>> \o <<>> = <<CloseNow("cancelled")>>  BY ScriptSteps, WithEmpty
  <2>2. Continue(<<CloseNow("cancelled")>>)  BY <1>3, <2>1 DEF Terminate
  <2>3. QED BY <1>1, <1>3, <2>2, ScriptSteps, Continue1
<1>4. CASE readyState # "CLOSED" /\ ~nativeActive
  <2>1. <<CloseNow("cancelled")>> \o <<At("_finalizeClose")>>
        = <<CloseNow("cancelled"), At("_finalizeClose")>>
    BY ScriptSteps, OneAndOne
  <2>2. Continue(<<CloseNow("cancelled"), At("_finalizeClose")>>)  BY <1>4, <2>1 DEF Terminate
  <2>3. QED BY <1>1, <1>4, <2>2, ScriptSteps, Continue2
<1>5. QED BY <1>2, <1>3, <1>4

\* _finalizeClose() tells the application and destroys.
LEMMA FinalizeCloseMoves ==
    ASSUME TypeInv, FinalizeClose
    PROVE  IF readyState = "CLOSED" THEN Drops
           ELSE IF given THEN Puts2(At("requestDestroy"), At("user"))
           ELSE Puts1(At("requestDestroy"))
<1>1. stack # <<>> /\ StackTyped  BY DEF FinalizeClose, Top, TypeInv
<1>2. CASE readyState = "CLOSED"  BY <1>1, <1>2, Continue0 DEF FinalizeClose, Return
<1>3. CASE readyState # "CLOSED" /\ given
  <2>1. <<At("requestDestroy")>> \o <<At("user")>> = <<At("requestDestroy"), At("user")>>
    BY ScriptSteps, OneAndOne
  <2>2. Continue(<<At("requestDestroy"), At("user")>>)  BY <1>3, <2>1 DEF FinalizeClose, User
  <2>3. QED BY <1>1, <1>3, <2>2, ScriptSteps, Continue2
<1>4. CASE readyState # "CLOSED" /\ ~given
  <2>1. <<At("requestDestroy")>> \o <<>> = <<At("requestDestroy")>>  BY ScriptSteps, WithEmpty
  <2>2. Continue(<<At("requestDestroy")>>)  BY <1>4, <2>1 DEF FinalizeClose, User
  <2>3. QED BY <1>1, <1>4, <2>2, ScriptSteps, Continue1
<1>5. QED BY <1>2, <1>3, <1>4

\* The close timer terminates.
LEMMA CloseTimeoutMoves ==
    ASSUME TypeInv, CloseTimeout PROVE Covers1(CloseNow("cancelled"))
  BY ScriptSteps, Call1 DEF TypeInv, CloseTimeout

\* send() submits, or goes back at once.
LEMMA SendMoves ==
    ASSUME TypeInv, Send
    PROVE  \E size \in Sizes :
        IF writable
          THEN requests' = NewRequest("app", size) /\ Covers1(Step("submit", NextRequest, "none"))
          ELSE /\ requests' = Append(requests, [kind |-> "app", left |-> size, deferred |-> FALSE,
                                               outcome |-> "refused"])
               /\ Covers1(Step("_finishNativeWrite", NextRequest, "error"))
<1>1. NextRequest \in Nat  BY LenProperties DEF NextRequest, TypeInv
<1>2. /\ Step("submit", NextRequest, "none") \in Steps
      /\ Step("_finishNativeWrite", NextRequest, "error") \in Steps
  <2>1. /\ "submit" \in Names /\ "_finishNativeWrite" \in Names
        /\ "none" \in Whys /\ "error" \in Whys
    BY DEF Names, NativeMethods, Whys
  <2>2. QED BY <1>1, <2>1, StepFields
<1>3. QED BY ZenonT(30), <1>2, Call1 DEF TypeInv, Send

\* close() submits a Close, or terminates.
LEMMA CloseMoves ==
    ASSUME TypeInv, Close
    PROVE  \/ /\ MayWriteClose /\ closeSent' = TRUE /\ requests' = NewRequest("close", 1)
              /\ Covers1(Step("submit", NextRequest, "none"))
           \/ /\ ~MayWriteClose /\ UNCHANGED <<closeSent, requests>>
              /\ IF writable THEN UNCHANGED stack ELSE Covers1(CloseNow("cancelled"))
<1>1. NextRequest \in Nat  BY LenProperties DEF NextRequest, TypeInv
<1>2. Step("submit", NextRequest, "none") \in Steps
  BY <1>1, StepFields DEF Names, NativeMethods, Whys
<1>3. QED BY <1>2, ScriptSteps, Call1 DEF TypeInv, Close

\* terminate(), called by the application.
LEMMA UserTerminateMoves ==
    ASSUME TypeInv, UserTerminate PROVE Covers1(At("terminate"))
  BY ScriptSteps, Call1 DEF TypeInv, UserTerminate

\* Application code is over.
LEMMA UserReturnsMoves == ASSUME TypeInv, UserReturns PROVE Drops
  BY Continue0 DEF TypeInv, UserReturns, Return, Top

\* A request is added, or the i-th becomes r.
Adds(r) ==
    /\ requests' \in Seq(Requests) /\ Len(requests') = Len(requests) + 1
    /\ Len(requests) + 1 \in DOMAIN requests' /\ requests'[Len(requests) + 1] = r
    /\ \A i \in DOMAIN requests : i \in DOMAIN requests' /\ requests'[i] = requests[i]
    /\ \A i \in DOMAIN requests' : i \in DOMAIN requests \/ i = Len(requests) + 1
Edits(i, r) ==
    /\ requests' \in Seq(Requests) /\ Len(requests') = Len(requests)
    /\ DOMAIN requests' = DOMAIN requests
    /\ i \in DOMAIN requests /\ requests'[i] = r
    /\ \A j \in DOMAIN requests : j # i => requests'[j] = requests[j]

\* The i-th request goes behind the queue, or the first one leaves it.
Queues(i) ==
    /\ queue' \in Seq(Nat) /\ Len(queue') = Len(queue) + 1
    /\ Len(queue) + 1 \in DOMAIN queue' /\ queue'[Len(queue) + 1] = i
    /\ \A k \in DOMAIN queue : k \in DOMAIN queue' /\ queue'[k] = queue[k]
    /\ \A k \in DOMAIN queue' : k \in DOMAIN queue \/ k = Len(queue) + 1
Dequeues ==
    /\ queue' \in Seq(Nat) /\ Len(queue') = Len(queue) - 1
    /\ \A k \in DOMAIN queue' : k + 1 \in DOMAIN queue /\ queue'[k] = queue[k + 1]
    /\ \A k \in DOMAIN queue : k > 1 => k - 1 \in DOMAIN queue' /\ queue'[k - 1] = queue[k]

\* A request that is appended.
LEMMA AddsRequest ==
    ASSUME requests \in Seq(Requests), NEW r \in Requests, requests' = Append(requests, r)
    PROVE  Adds(r)
<1>1. /\ requests' \in Seq(Requests) /\ Len(requests') = Len(requests) + 1
      /\ \A i \in 1..Len(requests) : requests'[i] = requests[i]
      /\ requests'[Len(requests) + 1] = r
  BY AppendProperties
<1>2. /\ DOMAIN requests = 1..Len(requests) /\ DOMAIN requests' = 1..Len(requests')
      /\ Len(requests) \in Nat
  BY <1>1, LenProperties
<1>3. QED BY <1>1, <1>2 DEF Adds

\* A request that is changed.
LEMMA EditsRequest ==
    ASSUME requests \in Seq(Requests), NEW i \in DOMAIN requests, NEW r \in Requests,
           requests' = [requests EXCEPT ![i] = r]
    PROVE  Edits(i, r)
<1>1. requests' \in Seq(Requests) /\ Len(requests') = Len(requests)
  BY ExceptSeq
<1>3. QED BY <1>1 DEF Edits

NewOne(kind, size) == [kind |-> kind, left |-> size, deferred |-> FALSE, outcome |-> "pending"]

\* What NewRequest appends.
LEMMA AddsNew ==
    ASSUME requests \in Seq(Requests), NEW kind \in Kinds, NEW size \in Nat,
           requests' = NewRequest(kind, size)
    PROVE  Adds(NewOne(kind, size)) /\ NewOne(kind, size) \in Requests
<1>1. NewOne(kind, size) \in Requests  BY DEF NewOne, Requests, Outcomes
<1>2. QED BY <1>1, AddsRequest DEF NewRequest, NewOne

Deferred(r) == [r EXCEPT !.deferred = TRUE]

\* defer() changes one request.
LEMMA DeferEdits ==
    ASSUME requests \in Seq(Requests), NEW i \in DOMAIN requests, requests' = Defer(i)
    PROVE  Edits(i, Deferred(requests[i])) /\ Deferred(requests[i]) \in Requests
<1>1. requests[i] \in Requests  BY ElementOfSeq, LenProperties
<1>2. Deferred(requests[i]) \in Requests  BY <1>1 DEF Deferred, Requests
<1>3. requests' = [requests EXCEPT ![i] = Deferred(requests[i])]  BY DEF Defer, Deferred
<1>4. QED BY <1>2, <1>3, EditsRequest

WrittenBy(r, n) == [r EXCEPT !.left = r.left - n, !.outcome = IF r.left = n THEN "sent" ELSE r.outcome]
EndedBy(r, why) == [r EXCEPT !.outcome = why]

\* A write takes bytes off the first request.
LEMMA WroteEdits ==
    ASSUME requests \in Seq(Requests), First \in DOMAIN requests,
           NEW n \in Nat, n <= requests[First].left, Wrote(n)
    PROVE  /\ Edits(First, WrittenBy(requests[First], n))
           /\ WrittenBy(requests[First], n) \in Requests
<1>1. requests[First] \in Requests  BY ElementOfSeq, LenProperties
<1>2. WrittenBy(requests[First], n) \in Requests
  <2>1. PICK r : r = requests[First]  OBVIOUS
  <2>2. /\ r.kind \in Kinds /\ r.left \in Nat /\ r.deferred \in BOOLEAN /\ r.outcome \in Outcomes
        /\ r = [kind |-> r.kind, left |-> r.left, deferred |-> r.deferred, outcome |-> r.outcome]
    BY <1>1, <2>1 DEF Requests
  <2>3. PICK l, o : l = r.left - n /\ o = IF r.left = n THEN "sent" ELSE r.outcome  OBVIOUS
  <2>4. l \in Nat /\ o \in Outcomes  BY <2>1, <2>2, <2>3 DEF Outcomes
  <2>5. WrittenBy(r, n) = [kind |-> r.kind, left |-> l, deferred |-> r.deferred, outcome |-> o]
    <3>1. WrittenBy(r, n) = [r EXCEPT !.left = l, !.outcome = o]  BY <2>3 DEF WrittenBy
    <3>2. QED BY ONLY <2>2, <3>1
  <2>6. WrittenBy(r, n) \in Requests  BY <2>2, <2>4, <2>5 DEF Requests
  <2>7. QED BY <2>1, <2>6
<1>3. requests' = [requests EXCEPT ![First] = WrittenBy(requests[First], n)]
  BY <1>1 DEF Wrote, WrittenBy, First, Requests
<1>4. QED BY <1>2, <1>3, EditsRequest

\* A cancelled request has its outcome.
LEMMA CancelEdits ==
    ASSUME requests \in Seq(Requests), First \in DOMAIN requests, Head(stack).why \in Outcomes,
           CancelWrite
    PROVE  /\ Edits(First, EndedBy(requests[First], Head(stack).why))
           /\ EndedBy(requests[First], Head(stack).why) \in Requests
<1>1. requests[First] \in Requests  BY ElementOfSeq, LenProperties
<1>2. EndedBy(requests[First], Head(stack).why) \in Requests
  BY <1>1 DEF EndedBy, Requests
<1>3. requests' = [requests EXCEPT ![First] = EndedBy(requests[First], Head(stack).why)]
  BY <1>1 DEF CancelWrite, EndedBy, First, Requests
<1>4. QED BY <1>2, <1>3, EditsRequest

\* What is put behind the queue.
LEMMA EnqueueQueues ==
    ASSUME queue \in Seq(Nat), NEW i \in Nat, queue' = Append(queue, i) PROVE Queues(i)
<1>1. /\ queue' \in Seq(Nat) /\ Len(queue') = Len(queue) + 1
      /\ \A k \in 1..Len(queue) : queue'[k] = queue[k]
      /\ queue'[Len(queue) + 1] = i
  BY AppendProperties
<1>2. /\ DOMAIN queue = 1..Len(queue) /\ DOMAIN queue' = 1..Len(queue') /\ Len(queue) \in Nat
  BY <1>1, LenProperties
<1>3. QED BY <1>1, <1>2 DEF Queues

\* What leaves the queue.
LEMMA TailDequeues ==
    ASSUME queue \in Seq(Nat), queue # <<>>, queue' = Tail(queue) PROVE Dequeues
<1>1. /\ queue' \in Seq(Nat) /\ Len(queue') = Len(queue) - 1
      /\ \A k \in 1..Len(queue') : queue'[k] = queue[k + 1]
  BY HeadTailProperties
<1>2. /\ DOMAIN queue = 1..Len(queue) /\ DOMAIN queue' = 1..Len(queue')
      /\ Len(queue) \in Nat /\ Len(queue') \in Nat
  BY <1>1, LenProperties
<1>3. \A k \in DOMAIN queue' : k + 1 \in DOMAIN queue /\ queue'[k] = queue[k + 1]
  BY <1>1, <1>2
<1>4. \A k \in DOMAIN queue : k > 1 => k - 1 \in DOMAIN queue' /\ queue'[k - 1] = queue[k]
  <2> SUFFICES ASSUME NEW k \in DOMAIN queue, k > 1
               PROVE  k - 1 \in DOMAIN queue' /\ queue'[k - 1] = queue[k]
    OBVIOUS
  <2>1. k - 1 \in 1..Len(queue') /\ (k - 1) + 1 = k  BY <1>1, <1>2
  <2>2. queue'[k - 1] = queue[(k - 1) + 1]  BY <1>1, <2>1
  <2>3. QED BY <1>2, <2>1, <2>2
<1>5. QED BY <1>1, <1>3, <1>4 DEF Dequeues

RequestSteps == {"submit", "submitted", "_finishNativeWrite", "writeCallback"}
CodeSteps == {"peerClose", "_onNativeClose"}
CloseSteps == {"closeNow", "cancelWrites"}
TLSSteps == {"processMemoryBIO", "SSL_read", "flushOutput"}

\* What a step may be about, with n requests made; c: the transport is closing.
Form(s, n, c) ==
    /\ s.at \in RequestSteps => s.on \in 1..n
    /\ s.at \in CodeSteps => s.on \in {1000, 1006}
    /\ s.at \notin RequestSteps \cup CodeSteps => s.on = 0
    /\ s.at = "writeCallback" => s.why \in {"ok", "nobufs", "error"}
    /\ s.at = "_finishNativeWrite" => s.why \in {"async", "sync", "error"}
    /\ s.at \in CloseSteps => s.why \in {"nobufs", "cancelled", "handshake"}
    /\ s.at \notin {"writeCallback", "_finishNativeWrite"} \cup CloseSteps => s.why = "none"
    /\ s.at = "cancelWrites" => c
    /\ s.at \in TLSSteps => Tls
Formed == \A k \in DOMAIN stack : Form(stack[k], Len(requests), closing)

Grows == /\ Len(requests) \in Nat /\ Len(requests') \in Nat /\ Len(requests') >= Len(requests)
         /\ closing => closing'

\* More requests spoil no step.
LEMMA FormGrows ==
    ASSUME NEW s, NEW n \in Nat, NEW m \in Nat, m >= n, NEW c, NEW d, c => d, Form(s, n, c)
    PROVE  Form(s, m, d)
  BY DEF Form

\* A step that is about nothing in particular.
LEMMA FormAt ==
    ASSUME NEW n, NEW c,
           NEW name \in Names \ (RequestSteps \cup CodeSteps \cup CloseSteps \cup TLSSteps)
    PROVE  Form(At(name), n, c)
  BY DEF Form, At, Step, RequestSteps, CodeSteps, CloseSteps

\* A step of OpenSSL's.
LEMMA FormTLS ==
    ASSUME NEW n, NEW c, Tls, NEW name \in TLSSteps
    PROVE  Form(At(name), n, c)
  BY DEF Form, At, Step, RequestSteps, CodeSteps, CloseSteps, TLSSteps

\* A step about a request.
LEMMA FormRequests ==
    ASSUME NEW n, NEW c, NEW i \in 1..n
    PROVE  /\ Form(Step("submit", i, "none"), n, c) /\ Form(Step("submitted", i, "none"), n, c)
           /\ \A why \in {"async", "sync", "error"} : Form(Back(i, why), n, c)
           /\ Form(Step("_finishNativeWrite", i, "error"), n, c)
           /\ \A why \in {"ok", "nobufs", "error"} : Form(Step("writeCallback", i, why), n, c)
  BY DEF Form, Back, Step, RequestSteps, CodeSteps, CloseSteps, TLSSteps

\* A step of closeNow() once closing.
LEMMA FormCloses ==
    ASSUME NEW n, NEW c, NEW why \in {"nobufs", "cancelled", "handshake"}
    PROVE  Form(CloseNow(why), n, c) /\ (c => Form(Step("cancelWrites", 0, why), n, c))
  BY DEF Form, CloseNow, Step, RequestSteps, CodeSteps, CloseSteps, TLSSteps

\* A step about the peer's Close.
LEMMA FormCodes ==
    ASSUME NEW n, NEW c, NEW code \in {1000, 1006}
    PROVE  Form(Step("peerClose", code, "none"), n, c) /\ Form(Step("_onNativeClose", code, "none"), n, c)
  BY DEF Form, Step, RequestSteps, CodeSteps, CloseSteps, TLSSteps

\* Steps that stay keep their form.
LEMMA FormedKeeps ==
    ASSUME Formed, StackTyped, Grows, NEW n \in Nat, NEW d \in {0, 1}, Moves(n, d),
           \A k \in 1..n : Form(stack'[k], Len(requests'), closing')
    PROVE  Formed' /\ StackTyped'
<1>1. stack' \in Seq(Steps) /\ DOMAIN stack' = 1..Len(stack') /\ Len(stack') \in Nat
  BY LenProperties DEF Moves
<1>2. ASSUME NEW k \in DOMAIN stack' PROVE Form(stack'[k], Len(requests'), closing')
  <2>1. CASE k \in 1..n  BY <2>1
  <2>2. CASE k \in n+1..Len(stack')
    <3>1. k - n + d \in DOMAIN stack /\ stack'[k] = stack[k - n + d]  BY <2>2 DEF Moves
    <3>2. Form(stack'[k], Len(requests), closing)  BY <3>1 DEF Formed
    <3>3. QED BY <3>2, FormGrows DEF Grows
  <2>3. QED BY <1>1, <2>1, <2>2
<1>3. QED BY <1>1, <1>2 DEF Formed, StackTyped

\* On an unchanged stack.
LEMMA FormedSame ==
    ASSUME Formed, StackTyped, Grows, UNCHANGED stack PROVE Formed' /\ StackTyped'
  BY FormGrows DEF Formed, StackTyped, Grows

\* When one goes.
LEMMA FormedDrops ==
    ASSUME Formed, StackTyped, Grows, Drops PROVE Formed' /\ StackTyped'
<1>1. \A k \in 1..0 : Form(stack'[k], Len(requests'), closing')  OBVIOUS
<1>2. QED BY <1>1, FormedKeeps DEF Drops

\* When one takes its place.
LEMMA FormedPuts1 ==
    ASSUME Formed, StackTyped, Grows, NEW a, Form(a, Len(requests'), closing'),
           Puts1(a) \/ Covers1(a)
    PROVE  Formed' /\ StackTyped'
<1>1. \A k \in 1..1 : Form(stack'[k], Len(requests'), closing')  BY DEF Puts1, Covers1
<1>2. QED BY <1>1, FormedKeeps DEF Puts1, Covers1

\* When two do.
LEMMA FormedPuts2 ==
    ASSUME Formed, StackTyped, Grows, NEW a, NEW b, Form(a, Len(requests'), closing'),
           Form(b, Len(requests'), closing'), Puts2(a, b) \/ Covers2(a, b)
    PROVE  Formed' /\ StackTyped'
<1>1. \A k \in 1..2 : Form(stack'[k], Len(requests'), closing')  BY DEF Puts2, Covers2
<1>2. QED BY <1>1, FormedKeeps DEF Puts2, Covers2

\* When three do.
LEMMA FormedPuts3 ==
    ASSUME Formed, StackTyped, Grows, NEW a, NEW b, NEW c, Form(a, Len(requests'), closing'),
           Form(b, Len(requests'), closing'), Form(c, Len(requests'), closing'), Puts3(a, b, c)
    PROVE  Formed' /\ StackTyped'
<1>1. \A k \in 1..3 : Form(stack'[k], Len(requests'), closing')  BY DEF Puts3
<1>2. QED BY <1>1, FormedKeeps DEF Puts3

\* When four do.
LEMMA FormedPuts4 ==
    ASSUME Formed, StackTyped, Grows, NEW a, NEW b, NEW c, NEW d,
           Form(a, Len(requests'), closing'), Form(b, Len(requests'), closing'),
           Form(c, Len(requests'), closing'), Form(d, Len(requests'), closing'),
           Puts4(a, b, c, d)
    PROVE  Formed' /\ StackTyped'
<1>1. \A k \in 1..4 : Form(stack'[k], Len(requests'), closing')  BY DEF Puts4
<1>2. QED BY <1>1, FormedKeeps DEF Puts4

HandleTypes ==
    /\ active \in BOOLEAN /\ closing \in BOOLEAN
    /\ poll \in {"none", "open", "closing", "closed"} /\ interest \subseteq {"READABLE", "WRITABLE"}
    /\ destroyRequested \in BOOLEAN /\ frees \in Nat
PeerTypes ==
    /\ parserClosing \in BOOLEAN /\ closeSent \in BOOLEAN /\ graceful \in BOOLEAN
    /\ reads \in 0..MaxReads
FlowTypes ==
    /\ flushing \in BOOLEAN /\ output \in BOOLEAN /\ blockedOnRead \in BOOLEAN
    /\ shutdownPending \in BOOLEAN /\ shutdownGenerated \in BOOLEAN
NativeTypes == HandleTypes /\ PeerTypes /\ FlowTypes
ScriptTypes ==
    /\ readyState \in {"CONNECTING", "OPEN", "CLOSING", "CLOSED"}
    /\ nodeSocket \in {"open", "scheduled", "released"}
    /\ upgradePending \in BOOLEAN /\ nativeActive \in BOOLEAN /\ given \in BOOLEAN
    /\ closeTimer \in {"off", "armed", "fired"} /\ closeCode \in {1000, 1006}
    /\ socketError \in BOOLEAN

\* The native steps, each of which leaves JavaScript's state alone.
NativeNext == NativeStep \/ OnPoll \/ OnPollError \/ OnPollClosed
ScriptNext ==
    \/ Activated \/ Opened \/ FromNative \/ FinishNativeWrite \/ FailWebSocket \/ Terminate
    \/ FinalizeClose \/ UserReturns \/ NodeSocketClosed \/ RunScheduled \/ CloseTimeout
    \/ AbortUpgrade \/ Send \/ Close \/ UserTerminate

\* A step is the transport's or JavaScript's.
LEMMA NextNames == ASSUME Next PROVE (NativeNext /\ UNCHANGED jsVars) \/ ScriptNext
  BY DEF Next, Proceed, Loop, NativeNext, ScriptNext

\* The transport's variables keep their types.
LEMMA NativeTypesNext ==
    ASSUME TypeInv, NativeNext PROVE NativeTypes' /\ (closing => closing')
<1> DEFINE HandleNext == HandleTypes' /\ (closing => closing')
<1>0. HandleTypes /\ PeerTypes /\ FlowTypes  BY DEF TypeInv, HandleTypes, PeerTypes, FlowTypes
<1>h. ASSUME UNCHANGED handleVars PROVE HandleNext
  <2>1. UNCHANGED <<active, closing, poll, interest, destroyRequested, frees>>  BY <1>h DEF handleVars
  <2>2. QED BY <1>0, <2>1 DEF HandleTypes
<1>p. ASSUME UNCHANGED peerVars PROVE PeerTypes'
  <2>1. UNCHANGED <<parserClosing, closeSent, graceful, reads>>  BY <1>p DEF peerVars
  <2>2. QED BY <1>0, <2>1 DEF PeerTypes
<1>f. ASSUME UNCHANGED <<writeVars, tlsVars>> PROVE FlowTypes'
  <2>1. UNCHANGED <<flushing, output, blockedOnRead, shutdownPending, shutdownGenerated>>
    BY <1>f DEF writeVars, tlsVars
  <2>2. QED BY <1>0, <2>1 DEF FlowTypes
<1>k. ASSUME UNCHANGED <<handleVars, peerVars, writeVars, tlsVars>>
      PROVE  HandleNext /\ PeerTypes' /\ FlowTypes'
  BY <1>h, <1>p, <1>f, <1>k
<1>q. ASSUME HandleNext, PeerTypes', FlowTypes' PROVE NativeTypes' /\ (closing => closing')
  BY <1>q DEF NativeTypes
<1> HIDE DEF HandleNext
<1>a. ASSUME updatePoll PROVE interest' \subseteq {"READABLE", "WRITABLE"}
  BY <1>0, <1>a DEF updatePoll, Events, HandleTypes
<1>n. ASSUME UNCHANGED <<active, closing, poll, destroyRequested, frees>>,
             interest' \subseteq {"READABLE", "WRITABLE"}
      PROVE  HandleNext
  BY <1>0, <1>n DEF HandleNext, HandleTypes
<1>r. ASSUME UNCHANGED <<active, closing, poll, interest>>, destroyRequested' \in BOOLEAN, frees' \in Nat
      PROVE  HandleNext
  BY <1>0, <1>r DEF HandleNext, HandleTypes
<1>1. CASE UpdatePoll
  <2>1. HandleNext  BY <1>a, <1>n, <1>1 DEF UpdatePoll
  <2>2. PeerTypes'  BY <1>p, <1>1 DEF UpdatePoll
  <2>3. FlowTypes'  BY <1>f, <1>1 DEF UpdatePoll
  <2>4. QED BY <1>q, <2>1, <2>2, <2>3
<1>2. CASE Submit
  <2>0. /\ UNCHANGED <<active, closing, poll, destroyRequested, frees, peerVars, tlsVars, flushing>>
        /\ UNCHANGED interest \/ updatePoll
    BY <1>2 DEF Submit, SubmitBehindOthers, SubmitIdle, Submitted, Enqueue
  <2>1. HandleNext
    <3>1. interest' \subseteq {"READABLE", "WRITABLE"}  BY <1>0, <1>a, <2>0 DEF HandleTypes
    <3>2. QED BY <1>n, <2>0, <3>1
  <2>2. PeerTypes'  BY <1>p, <2>0
  <2>3. FlowTypes'  BY <1>0, <2>0 DEF FlowTypes, tlsVars
  <2>4. QED BY <1>q, <2>1, <2>2, <2>3
<1>3. CASE FlushWrites
  <2>1. HandleNext  BY <1>h, <1>3 DEF FlushWrites
  <2>2. PeerTypes'  BY <1>p, <1>3 DEF FlushWrites
  <2>3. FlowTypes'  BY <1>0, <1>3 DEF FlushWrites, FlowTypes, Drained, StillBlocked
  <2>4. QED BY <1>q, <2>1, <2>2, <2>3
<1>4. CASE Writing
  <2>1. HandleNext  BY <1>h, <1>4 DEF Writing
  <2>2. PeerTypes'  BY <1>p, <1>4 DEF Writing
  <2>3. FlowTypes'
    BY <1>0, <1>4 DEF Writing, FlowTypes, writeTCP, writeTLS, Wrote, WouldBlock, WriteError, Drained,
       StillBlocked
  <2>4. QED BY <1>q, <2>1, <2>2, <2>3
<1>5. ASSUME NEW rest, Consume(rest) PROVE NativeTypes' /\ (closing => closing')
  <2>1. HandleNext  BY <1>h, <1>5 DEF Consume
  <2>2. PeerTypes'
    <3>1. reads' \in 0..MaxReads  BY <1>0, <1>5, TransportAssumption DEF Consume, PeerTypes
    <3>2. PICK body \in Inputs :
            \/ stack' = EventSteps(body) \o rest /\ UNCHANGED <<parserClosing, closeSent>>
            \/ parserClosing' = TRUE /\ closeSent' = TRUE
      BY <1>5 DEF Consume
    <3>4. graceful' = graceful  BY <1>5 DEF Consume
    <3>3. QED BY <1>0, <3>1, <3>2, <3>4 DEF PeerTypes
  <2>3. FlowTypes'  BY <1>f, <1>5 DEF Consume
  <2>4. QED BY <1>q, <2>1, <2>2, <2>3
<1>6. CASE Feed
  <2>1. CASE writable  BY <1>5, <1>6, <2>1 DEF Feed
  <2>2. CASE ~writable  BY <1>k, <1>q, <1>6, <2>2 DEF Feed
  <2>3. QED BY <2>1, <2>2
<1>7. CASE Receive
  <2>1. CASE Consume(Tail(stack))  BY <1>5, <2>1
  <2>2. CASE UNCHANGED <<handleVars, writeVars, tlsVars, peerVars>>  BY <1>k, <1>q, <2>2
  <2>3. QED BY <1>7, <2>1, <2>2 DEF Receive
<1>8. CASE ReadTLS
  <2>1. CASE Consume(stack)  BY <1>5, <2>1
  <2>2. CASE UNCHANGED <<handleVars, writeVars, tlsVars, peerVars>>  BY <1>k, <1>q, <2>2
  <2>3. QED BY <1>8, <2>1, <2>2 DEF ReadTLS
<1>9. CASE ProcessMemoryBIO  BY <1>k, <1>q, <1>9 DEF ProcessMemoryBIO
<1>10. CASE Fail  BY <1>k, <1>q, <1>10 DEF Fail
<1>11. CASE OnPollError  BY <1>k, <1>q, <1>11 DEF OnPollError
<1>12. CASE FlushOutput
  <2>1. HandleNext  BY <1>h, <1>12 DEF FlushOutput
  <2>2. PeerTypes'  BY <1>p, <1>12 DEF FlushOutput
  <2>3. FlowTypes'  BY <1>0, <1>12 DEF FlushOutput, FlowTypes, writeVars
  <2>4. QED BY <1>q, <2>1, <2>2, <2>3
<1>13. CASE Dispatch
  <2>1. HandleNext  BY <1>h, <1>13 DEF Dispatch
  <2>2. PeerTypes'  BY <1>0, <1>13 DEF Dispatch, PeerTypes
  <2>3. FlowTypes'
    <3>1. UNCHANGED <<flushing, tlsVars>>  BY <1>13 DEF Dispatch
    <3>2. QED BY <1>0, <3>1 DEF FlowTypes, tlsVars
  <2>4. QED BY <1>q, <2>1, <2>2, <2>3
<1>14. CASE PerformTLSShutdown
  <2>1. HandleNext  BY <1>h, <1>14 DEF PerformTLSShutdown
  <2>2. PeerTypes'  BY <1>p, <1>14 DEF PerformTLSShutdown
  <2>3. FlowTypes'
    <3>1. flushing' = flushing /\ output' \in {output, TRUE, FALSE}
      BY <1>14 DEF PerformTLSShutdown, Drained, writeVars, tlsVars
    <3>2. blockedOnRead' = blockedOnRead /\ shutdownPending' \in {shutdownPending, TRUE, FALSE}
      BY <1>14 DEF PerformTLSShutdown, Drained, tlsVars
    <3>3. shutdownGenerated' \in {shutdownGenerated, TRUE}
      BY <1>14 DEF PerformTLSShutdown, Drained, tlsVars
    <3>4. QED BY <1>0, <3>1, <3>2, <3>3 DEF FlowTypes
  <2>4. QED BY <1>q, <2>1, <2>2, <2>3
<1>15. CASE BeginClose
  <2>1. HandleNext  BY <1>0, <1>15 DEF BeginClose, HandleNext, HandleTypes
  <2>2. PeerTypes'  BY <1>p, <1>15 DEF BeginClose
  <2>3. FlowTypes'  BY <1>f, <1>15 DEF BeginClose
  <2>4. QED BY <1>q, <2>1, <2>2, <2>3
<1>16. CASE Destroy
  <2>1. HandleNext
    <3>1. destroyRequested' \in BOOLEAN /\ frees' \in Nat  BY <1>0, <1>16 DEF Destroy, HandleTypes
    <3>2. QED BY <1>r, <1>16, <3>1 DEF Destroy
  <2>2. PeerTypes'  BY <1>p, <1>16 DEF Destroy
  <2>3. FlowTypes'  BY <1>f, <1>16 DEF Destroy
  <2>4. QED BY <1>q, <2>1, <2>2, <2>3
<1>17. CASE Release
  <2>1. HandleNext
    <3>1. destroyRequested' \in BOOLEAN /\ frees' \in Nat  BY <1>0, <1>17 DEF Release, HandleTypes
    <3>2. QED BY <1>r, <1>17, <3>1 DEF Release
  <2>2. PeerTypes'  BY <1>p, <1>17 DEF Release
  <2>3. FlowTypes'  BY <1>f, <1>17 DEF Release
  <2>4. QED BY <1>q, <2>1, <2>2, <2>3
<1>18. CASE RequestDestroy
  <2>1. HandleNext
    <3>1. destroyRequested' \in BOOLEAN /\ frees' \in Nat  BY <1>0, <1>18 DEF RequestDestroy, HandleTypes
    <3>2. QED BY <1>r, <1>18, <3>1 DEF RequestDestroy
  <2>2. PeerTypes'  BY <1>p, <1>18 DEF RequestDestroy
  <2>3. FlowTypes'  BY <1>f, <1>18 DEF RequestDestroy
  <2>4. QED BY <1>q, <2>1, <2>2, <2>3
<1>19. CASE CancelWrite
  <2>1. HandleNext  BY <1>h, <1>19 DEF CancelWrite
  <2>2. PeerTypes'  BY <1>p, <1>19 DEF CancelWrite
  <2>3. FlowTypes'
    <3>1. UNCHANGED <<flushing, tlsVars>>  BY <1>19 DEF CancelWrite
    <3>2. QED BY <1>0, <3>1 DEF FlowTypes, tlsVars
  <2>4. QED BY <1>q, <2>1, <2>2, <2>3
<1>20. CASE Closed
  <2>1. HandleNext  BY <1>0, <1>20 DEF Closed, HandleNext, HandleTypes
  <2>2. PeerTypes'  BY <1>p, <1>20 DEF Closed
  <2>3. FlowTypes'  BY <1>0, <1>20 DEF Closed, FlowTypes, writeVars
  <2>4. QED BY <1>q, <2>1, <2>2, <2>3
<1>21. CASE Activate
  <2>1. HandleNext  BY <1>0, <1>21 DEF Activate, HandleNext, HandleTypes
  <2>2. PeerTypes'  BY <1>p, <1>21 DEF Activate
  <2>3. FlowTypes'  BY <1>f, <1>21 DEF Activate
  <2>4. QED BY <1>q, <2>1, <2>2, <2>3
<1>22. CASE OnPollClosed
  <2>1. HandleNext  BY <1>0, <1>22 DEF OnPollClosed, HandleNext, HandleTypes
  <2>2. PeerTypes'  BY <1>p, <1>22 DEF OnPollClosed
  <2>3. FlowTypes'  BY <1>f, <1>22 DEF OnPollClosed
  <2>4. QED BY <1>q, <2>1, <2>2, <2>3
<1>23. CASE OnPoll
  <2>1. HandleNext  BY <1>h, <1>23 DEF OnPoll
  <2>2. PeerTypes'  BY <1>p, <1>23 DEF OnPoll
  <2>3. FlowTypes'  BY <1>0, <1>23 DEF OnPoll, FlowTypes, writeVars
  <2>4. QED BY <1>q, <2>1, <2>2, <2>3
<1>24. QED
  BY <1>1, <1>2, <1>3, <1>4, <1>6, <1>7, <1>8, <1>9, <1>10, <1>11, <1>12, <1>13, <1>14, <1>15, <1>16, <1>17, <1>18, <1>19, <1>20, <1>21, <1>22, <1>23
     DEF NativeNext, NativeStep

\* What no script step changes.
ScriptLeaves ==
    /\ UNCHANGED <<handleVars, parserClosing, graceful, reads, tlsVars, queue, pendingBytes, flushing>>
    /\ closeSent' \in {closeSent, TRUE}

\* JavaScript's variables keep theirs.
LEMMA ScriptTypesNext ==
    ASSUME TypeInv, Formed, ScriptNext PROVE ScriptTypes' /\ ScriptLeaves
<1>0. ScriptTypes  BY DEF TypeInv, ScriptTypes
<1>1. CASE Activated
  BY <1>0, <1>1 DEF Activated, ScriptTypes, ScriptLeaves, Closing, StartCloseTimeout,
     peerVars, writeVars, jsVars, TypeInv
<1>2. CASE Opened
  <2>1. readyState' \in {"CONNECTING", "OPEN", "CLOSING", "CLOSED"}  BY <1>0, <1>2 DEF Opened, ScriptTypes
  <2>2. upgradePending' \in BOOLEAN  BY ZenonT(30), <1>0, <1>2 DEF Opened, ScriptTypes
  <2>3. given' \in BOOLEAN  BY ZenonT(30), <1>0, <1>2 DEF Opened, ScriptTypes
  <2>4. UNCHANGED <<nodeSocket, nativeActive, closeTimer, closeCode, socketError>>  BY <1>2 DEF Opened
  <2>5. ScriptLeaves
    BY <1>2 DEF Opened, ScriptLeaves, peerVars, writeVars
  <2>6. QED BY <1>0, <2>1, <2>2, <2>3, <2>4, <2>5 DEF ScriptTypes
<1>3. CASE NodeSocketClosed
  BY <1>0, <1>3 DEF NodeSocketClosed, ScriptTypes, ScriptLeaves, Closing, StartCloseTimeout,
     peerVars, writeVars, jsVars
<1>4. CASE RunScheduled
  BY <1>0, <1>4 DEF RunScheduled, ScriptTypes, ScriptLeaves, Closing, StartCloseTimeout,
     peerVars, writeVars, jsVars
<1>5. CASE AbortUpgrade
  <2>1. readyState' \in {"CONNECTING", "OPEN", "CLOSING", "CLOSED"}  BY <1>0, <1>5 DEF AbortUpgrade, ScriptTypes
  <2>2. upgradePending' \in BOOLEAN  BY ZenonT(30), <1>0, <1>5 DEF AbortUpgrade, ScriptTypes
  <2>3. UNCHANGED <<nodeSocket, nativeActive, given, closeTimer, closeCode, socketError>>  BY <1>5 DEF AbortUpgrade
  <2>4. ScriptLeaves
    BY <1>5 DEF AbortUpgrade, ScriptLeaves, peerVars, writeVars
  <2>5. QED BY <1>0, <2>1, <2>2, <2>3, <2>4 DEF ScriptTypes
<1>6. CASE FinishNativeWrite
  BY <1>0, <1>6 DEF FinishNativeWrite, ScriptTypes, ScriptLeaves, Closing, StartCloseTimeout,
     peerVars, writeVars, jsVars
<1>7. CASE FailWebSocket
  BY <1>0, <1>7 DEF FailWebSocket, ScriptTypes, ScriptLeaves, Closing, StartCloseTimeout,
     peerVars, writeVars, jsVars
<1>8. CASE Terminate
  <2>1. readyState' \in {"CONNECTING", "OPEN", "CLOSING", "CLOSED"}  BY <1>0, <1>8 DEF Terminate, ScriptTypes
  <2>2. upgradePending' \in BOOLEAN  BY ZenonT(30), <1>0, <1>8 DEF Terminate, ScriptTypes
  <2>3. UNCHANGED <<nodeSocket, nativeActive, given, closeTimer, closeCode, socketError>>  BY <1>8 DEF Terminate
  <2>4. ScriptLeaves
    BY <1>8 DEF Terminate, ScriptLeaves, peerVars, writeVars
  <2>5. QED BY <1>0, <2>1, <2>2, <2>3, <2>4 DEF ScriptTypes
<1>9. CASE UserReturns
  BY <1>0, <1>9 DEF UserReturns, ScriptTypes, ScriptLeaves, Closing, StartCloseTimeout,
     peerVars, writeVars, jsVars
<1>10. CASE FinalizeClose
  <2>1. readyState' \in {"CONNECTING", "OPEN", "CLOSING", "CLOSED"}  BY <1>0, <1>10 DEF FinalizeClose, ScriptTypes
  <2>2. upgradePending' \in BOOLEAN  BY ZenonT(30), <1>0, <1>10 DEF FinalizeClose, ScriptTypes
  <2>3. nativeActive' \in BOOLEAN  BY ZenonT(30), <1>0, <1>10 DEF FinalizeClose, ScriptTypes
  <2>4. closeTimer' \in {"off", "armed", "fired"}  BY <1>0, <1>10 DEF FinalizeClose, ScriptTypes
  <2>5. UNCHANGED <<nodeSocket, given, closeCode, socketError>>  BY <1>10 DEF FinalizeClose
  <2>6. ScriptLeaves
    BY <1>10 DEF FinalizeClose, ScriptLeaves, peerVars, writeVars
  <2>7. QED BY <1>0, <2>1, <2>2, <2>3, <2>4, <2>5, <2>6 DEF ScriptTypes
<1>11. CASE CloseTimeout
  BY <1>0, <1>11 DEF CloseTimeout, ScriptTypes, ScriptLeaves, Closing, StartCloseTimeout,
     peerVars, writeVars, jsVars
<1>12. CASE UserTerminate
  BY <1>0, <1>12 DEF UserTerminate, ScriptTypes, ScriptLeaves, Closing, StartCloseTimeout,
     peerVars, writeVars, jsVars
<1>13. CASE Send
  BY <1>0, <1>13 DEF Send, ScriptTypes, ScriptLeaves, Closing, StartCloseTimeout,
     peerVars, writeVars, jsVars
<1>14. CASE Close
  <2>1. readyState' \in {"CONNECTING", "OPEN", "CLOSING", "CLOSED"}  BY <1>0, <1>14 DEF Close, ScriptTypes
  <2>2. closeTimer' \in {"off", "armed", "fired"}  BY <1>0, <1>14 DEF Close, ScriptTypes, StartCloseTimeout
  <2>3. UNCHANGED <<upgradePending, nodeSocket, nativeActive, given, closeCode, socketError>>  BY <1>14 DEF Close
  <2>4. ScriptLeaves
    BY <1>14 DEF Close, ScriptLeaves, peerVars, writeVars
  <2>5. QED BY <1>0, <2>1, <2>2, <2>3, <2>4 DEF ScriptTypes
<1>15. CASE FromNative
  <2>1. Top("_onNativeClose") => Head(stack).on \in {1000, 1006}
    <3> SUFFICES ASSUME Top("_onNativeClose") PROVE Head(stack).on \in {1000, 1006}  OBVIOUS
    <3>1. 1 \in DOMAIN stack /\ Head(stack) = stack[1] /\ stack[1].at = "_onNativeClose"
      BY TopFacts DEF TypeInv, Top
    <3>2. QED BY <3>1 DEF Formed, Form, CodeSteps
  <2>2. /\ UNCHANGED <<handleVars, peerVars, writeVars, tlsVars, upgradePending, nodeSocket,
                        nativeActive, given>>
        /\ readyState' \in {"CONNECTING", "OPEN", "CLOSING", "CLOSED"}
    BY <1>0, <1>15 DEF FromNative, Closing, ScriptTypes
  <2>3. closeTimer' \in {"off", "armed", "fired"} /\ closeCode' \in {1000, 1006}
    BY <1>0, <1>15, <2>1 DEF FromNative, StartCloseTimeout, ScriptTypes
  <2>4. socketError' \in BOOLEAN  BY ZenonT(30), <1>0, <1>15 DEF FromNative, ScriptTypes
  <2>5. QED BY <1>0, <2>2, <2>3, <2>4 DEF ScriptTypes, ScriptLeaves, peerVars, writeVars
<1>16. QED
  BY <1>1, <1>2, <1>3, <1>4, <1>5, <1>6, <1>7, <1>8, <1>9, <1>10, <1>11, <1>12, <1>13, <1>14, <1>15
     DEF ScriptNext

Refers == \A k \in DOMAIN queue : queue[k] \in DOMAIN requests
Committed == committed > 0 /\ ~closing => queue # <<>> /\ committed <= requests[First].left
\* A plain socket has neither committed bytes nor ciphertext.
PlainTCP == ~Tls => committed = 0 /\ ~output
BaseInv == TypeInv /\ Formed /\ Refers /\ Committed /\ PlainTCP

\* The steps that neither make, move nor end a request, nor answer one.
QuietNative ==
    \/ UpdatePoll \/ FlushWrites \/ Feed \/ Receive \/ ProcessMemoryBIO \/ ReadTLS \/ FlushOutput
    \/ PerformTLSShutdown \/ BeginClose \/ Fail \/ RequestDestroy \/ Destroy \/ Release
    \/ Activate \/ OnPoll \/ OnPollError \/ OnPollClosed
QuietScript ==
    \/ Opened \/ FailWebSocket \/ Terminate \/ FinalizeClose \/ UserReturns \/ NodeSocketClosed
    \/ RunScheduled \/ CloseTimeout \/ AbortUpgrade \/ UserTerminate
Quiet == UNCHANGED <<requests, queue, pendingBytes, committed>>

\* Which native steps leave requests and queue alone.
LEMMA NativeQuiet == ASSUME QuietNative PROVE Quiet
<1>1. CASE UpdatePoll  BY <1>1 DEF UpdatePoll, Quiet, writeVars, tlsVars
<1>2. CASE FlushWrites  BY <1>2 DEF FlushWrites, Quiet, writeVars, tlsVars
<1>3. CASE Feed  BY <1>3 DEF Feed, Consume, Quiet, writeVars, tlsVars
<1>4. CASE Receive  BY <1>4 DEF Receive, Consume, Quiet, writeVars, tlsVars
<1>5. CASE ProcessMemoryBIO  BY <1>5 DEF ProcessMemoryBIO, Quiet, writeVars, tlsVars
<1>6. CASE ReadTLS  BY <1>6 DEF ReadTLS, Consume, Quiet, writeVars, tlsVars
<1>7. CASE FlushOutput  BY <1>7 DEF FlushOutput, Quiet, writeVars, tlsVars
<1>8. CASE PerformTLSShutdown  BY <1>8 DEF PerformTLSShutdown, Quiet, writeVars, tlsVars
<1>9. CASE BeginClose  BY <1>9 DEF BeginClose, Quiet, writeVars, tlsVars
<1>10. CASE Fail  BY <1>10 DEF Fail, Quiet, writeVars, tlsVars
<1>11. CASE RequestDestroy  BY <1>11 DEF RequestDestroy, Quiet, writeVars, tlsVars
<1>12. CASE Destroy  BY <1>12 DEF Destroy, Quiet, writeVars, tlsVars
<1>13. CASE Release  BY <1>13 DEF Release, Quiet, writeVars, tlsVars
<1>14. CASE Activate  BY <1>14 DEF Activate, Quiet, writeVars, tlsVars
<1>15. CASE OnPoll  BY <1>15 DEF OnPoll, Quiet, writeVars, tlsVars
<1>16. CASE OnPollError  BY <1>16 DEF OnPollError, Quiet, writeVars, tlsVars
<1>17. CASE OnPollClosed  BY <1>17 DEF OnPollClosed, Quiet, writeVars, tlsVars
<1>18. QED
  BY <1>1, <1>2, <1>3, <1>4, <1>5, <1>6, <1>7, <1>8, <1>9, <1>10, <1>11, <1>12, <1>13, <1>14, <1>15, <1>16, <1>17
     DEF QuietNative

\* Which steps of JavaScript do.
LEMMA ScriptQuiet == ASSUME QuietScript PROVE Quiet /\ UNCHANGED answers
<1>1. CASE Opened  BY <1>1 DEF Opened, Quiet, writeVars, tlsVars, jsVars
<1>2. CASE FailWebSocket  BY <1>2 DEF FailWebSocket, Quiet, writeVars, tlsVars, jsVars
<1>3. CASE Terminate  BY <1>3 DEF Terminate, Quiet, writeVars, tlsVars, jsVars
<1>4. CASE FinalizeClose  BY <1>4 DEF FinalizeClose, Quiet, writeVars, tlsVars, jsVars
<1>5. CASE UserReturns  BY <1>5 DEF UserReturns, Quiet, writeVars, tlsVars, jsVars
<1>6. CASE NodeSocketClosed  BY <1>6 DEF NodeSocketClosed, Quiet, writeVars, tlsVars, jsVars
<1>7. CASE RunScheduled  BY <1>7 DEF RunScheduled, Quiet, writeVars, tlsVars, jsVars
<1>8. CASE CloseTimeout  BY <1>8 DEF CloseTimeout, Quiet, writeVars, tlsVars, jsVars
<1>9. CASE AbortUpgrade  BY <1>9 DEF AbortUpgrade, Quiet, writeVars, tlsVars, jsVars
<1>10. CASE UserTerminate  BY <1>10 DEF UserTerminate, Quiet, writeVars, tlsVars, jsVars
<1>11. QED
  BY <1>1, <1>2, <1>3, <1>4, <1>5, <1>6, <1>7, <1>8, <1>9, <1>10
     DEF QuietScript

\* What lies in the queue, by index.
LEMMA QueueFacts ==
    ASSUME BaseInv, queue # <<>>
    PROVE  /\ 1 \in DOMAIN queue /\ First = queue[1] /\ First \in DOMAIN requests /\ First \in Nat
           /\ requests[First] \in Requests
           /\ DOMAIN queue = 1..Len(queue) /\ DOMAIN requests = 1..Len(requests)
           /\ Len(queue) \in Nat /\ Len(queue) >= 1 /\ Len(requests) \in Nat
<1>1. /\ queue \in Seq(Nat) /\ requests \in Seq(Requests)  BY DEF BaseInv, TypeInv
<1>2. /\ Len(queue) \in Nat /\ Len(queue) >= 1 /\ DOMAIN queue = 1..Len(queue)
      /\ First = queue[1]
  BY <1>1, EmptySeq, LenProperties, HeadTailProperties DEF First
<1>3. Len(requests) \in Nat /\ DOMAIN requests = 1..Len(requests)  BY <1>1, LenProperties
<1>4. First \in DOMAIN requests  BY <1>2 DEF BaseInv, Refers
<1>5. requests[First] \in Requests  BY <1>1, <1>3, <1>4, ElementOfSeq
<1>6. QED BY <1>2, <1>3, <1>4, <1>5

\* What the step in progress is about.
LEMMA TopOn ==
    ASSUME BaseInv, stack # <<>>
    PROVE  /\ Head(stack).at \in RequestSteps => Head(stack).on \in DOMAIN requests
           /\ Head(stack).on \in Nat
           /\ Form(Head(stack), Len(requests), closing)
           /\ Head(stack) \in Steps /\ Head(stack) = stack[1] /\ 1 \in DOMAIN stack
           /\ DOMAIN requests = 1..Len(requests) /\ Len(requests) \in Nat
<1>1. 1 \in DOMAIN stack /\ Head(stack) = stack[1] /\ Head(stack) \in Steps
  BY TopFacts DEF BaseInv, TypeInv
<1>2. Form(Head(stack), Len(requests), closing)  BY <1>1 DEF BaseInv, Formed
<1>3. DOMAIN requests = 1..Len(requests) /\ Len(requests) \in Nat
  BY LenProperties DEF BaseInv, TypeInv
<1>4. Head(stack).on \in Nat  BY <1>1 DEF Steps
<1>5. QED BY <1>1, <1>2, <1>3, <1>4 DEF Form

\* What the steps that touch requests do to them.
LEMMA BehindOthersData ==
    ASSUME BaseInv, NEW i, i = Head(stack).on, SubmitBehindOthers(i)
    PROVE  /\ i \in DOMAIN requests /\ i \in Nat /\ Queues(i)
           /\ Edits(i, Deferred(requests[i])) /\ Deferred(requests[i]) \in Requests
           /\ requests[i] \in Requests
           /\ pendingBytes' = pendingBytes + requests[i].left /\ UNCHANGED flushing
<1>1. stack # <<>> /\ Head(stack).at \in RequestSteps
  BY DEF SubmitBehindOthers, Top, RequestSteps
<1>2. i \in DOMAIN requests /\ i \in Nat  BY <1>1, TopOn
<1>3. requests \in Seq(Requests) /\ queue \in Seq(Nat)  BY DEF BaseInv, TypeInv
<1>4. Queues(i)  BY <1>2, <1>3, EnqueueQueues DEF SubmitBehindOthers, Enqueue
<1>5. requests' = Defer(i) /\ pendingBytes' = pendingBytes + requests[i].left /\ UNCHANGED flushing
  BY DEF SubmitBehindOthers, Enqueue
<1>6. Edits(i, Deferred(requests[i])) /\ Deferred(requests[i]) \in Requests
  BY <1>2, <1>3, <1>5, DeferEdits
<1>7. requests[i] \in Requests  BY <1>2, <1>3, ElementOfSeq, LenProperties
<1>8. QED BY <1>2, <1>4, <1>5, <1>6, <1>7

\* submit() to an idle socket enqueues, to write at once.
LEMMA SubmitIdleData ==
    ASSUME BaseInv, NEW i, i = Head(stack).on, SubmitIdle(i)
    PROVE  /\ i \in DOMAIN requests /\ i \in Nat /\ Queues(i) /\ requests[i] \in Requests
           /\ UNCHANGED requests /\ queue = <<>> /\ ~flushing
           /\ pendingBytes' = pendingBytes + requests[i].left /\ UNCHANGED flushing
<1>1. stack # <<>> /\ Head(stack).at \in RequestSteps
  BY DEF SubmitIdle, Top, RequestSteps
<1>2. i \in DOMAIN requests /\ i \in Nat  BY <1>1, TopOn
<1>3. requests \in Seq(Requests) /\ queue \in Seq(Nat)  BY DEF BaseInv, TypeInv
<1>4. Queues(i)  BY <1>2, <1>3, EnqueueQueues DEF SubmitIdle, Enqueue
<1>5. /\ UNCHANGED requests /\ queue = <<>> /\ ~flushing
      /\ pendingBytes' = pendingBytes + requests[i].left /\ UNCHANGED flushing
  BY DEF SubmitIdle, Enqueue
<1>7. requests[i] \in Requests  BY <1>2, <1>3, ElementOfSeq, LenProperties
<1>8. QED BY <1>2, <1>4, <1>5, <1>7

\* submit() after the write defers what is left.
LEMMA SubmittedData ==
    ASSUME BaseInv, NEW i, i = Head(stack).on, Submitted(i)
    PROVE  /\ i \in DOMAIN requests /\ i \in Nat /\ requests[i] \in Requests
           /\ UNCHANGED <<queue, pendingBytes, flushing>>
           /\ \/ (closing \/ ~Contains(queue, i)) /\ UNCHANGED requests
              \/ /\ ~closing /\ Contains(queue, i)
                 /\ Edits(i, Deferred(requests[i])) /\ Deferred(requests[i]) \in Requests
<1>1. stack # <<>> /\ Head(stack).at \in RequestSteps
  BY DEF Submitted, Top, RequestSteps
<1>2. i \in DOMAIN requests /\ i \in Nat  BY <1>1, TopOn
<1>3. requests \in Seq(Requests) /\ queue \in Seq(Nat)  BY DEF BaseInv, TypeInv
<1>4. \/ (closing \/ ~Contains(queue, i)) /\ UNCHANGED requests
      \/ ~closing /\ Contains(queue, i) /\ requests' = Defer(i)
  BY DEF Submitted
<1>5. UNCHANGED <<queue, pendingBytes, flushing>>  BY DEF Submitted
<1>6. requests' = Defer(i) => Edits(i, Deferred(requests[i])) /\ Deferred(requests[i]) \in Requests
  BY <1>2, <1>3, DeferEdits
<1>7. requests[i] \in Requests  BY <1>2, <1>3, ElementOfSeq, LenProperties
<1>8. QED BY <1>2, <1>4, <1>5, <1>6, <1>7

\* A write takes bytes off the first request, and it off the queue when none are left.
LEMMA SendingData ==
    ASSUME BaseInv, NEW n \in Nat, Sending(n)
    PROVE  /\ First \in DOMAIN requests /\ First = queue[1] /\ 1 \in DOMAIN queue
           /\ requests[First] \in Requests /\ n <= requests[First].left /\ n >= 1
           /\ Edits(First, WrittenBy(requests[First], n)) /\ WrittenBy(requests[First], n) \in Requests
           /\ IF requests[First].left = n THEN Dequeues ELSE UNCHANGED queue
           /\ pendingBytes' = pendingBytes - n /\ UNCHANGED flushing
<1>1. queue # <<>>  BY DEF Sending
<1>2. First \in DOMAIN requests /\ First = queue[1] /\ 1 \in DOMAIN queue /\ requests[First] \in Requests
  BY <1>1, QueueFacts
<1>3. requests \in Seq(Requests) /\ queue \in Seq(Nat)  BY DEF BaseInv, TypeInv
<1>4. n <= requests[First].left /\ n >= 1
  <2>1. committed > 0 => committed <= requests[First].left
    BY DEF Sending, BaseInv, Committed
  <2>2. requests[First].left \in Nat /\ committed \in Nat  BY <1>2 DEF Requests, BaseInv, TypeInv
  <2>3. n \in 1..requests[First].left \/ (n = committed /\ committed > 0)  BY DEF Sending
  <2>4. QED BY <2>1, <2>2, <2>3
<1>5. Wrote(n)  BY DEF Sending
<1>6. Edits(First, WrittenBy(requests[First], n)) /\ WrittenBy(requests[First], n) \in Requests
  BY <1>2, <1>3, <1>4, <1>5, WroteEdits
<1>7. /\ pendingBytes' = pendingBytes - n /\ UNCHANGED flushing
      /\ queue' = IF requests[First].left = n THEN Tail(queue) ELSE queue
  BY <1>5 DEF Wrote, First
<1>8. IF requests[First].left = n THEN Dequeues ELSE UNCHANGED queue
  BY <1>1, <1>3, <1>7, TailDequeues
<1>9. QED BY <1>2, <1>4, <1>6, <1>7, <1>8

\* cancelWrites() takes the first request off the queue.
LEMMA CancelWriteData ==
    ASSUME BaseInv, CancelWrite
    PROVE  /\ First \in DOMAIN requests /\ First = queue[1] /\ 1 \in DOMAIN queue
           /\ requests[First] \in Requests /\ Head(stack).why \in {"nobufs", "cancelled", "handshake"}
           /\ Edits(First, EndedBy(requests[First], Head(stack).why))
           /\ EndedBy(requests[First], Head(stack).why) \in Requests
           /\ Dequeues /\ pendingBytes' = pendingBytes - requests[First].left /\ UNCHANGED flushing
           /\ closing
<1>1. queue # <<>> /\ stack # <<>> /\ Head(stack).at = "cancelWrites"  BY DEF CancelWrite, Top
<1>2. First \in DOMAIN requests /\ First = queue[1] /\ 1 \in DOMAIN queue /\ requests[First] \in Requests
  BY <1>1, QueueFacts
<1>3. requests \in Seq(Requests) /\ queue \in Seq(Nat)  BY DEF BaseInv, TypeInv
<1>4. Head(stack).why \in {"nobufs", "cancelled", "handshake"} /\ closing
  BY <1>1, TopOn DEF Form, CloseSteps
<1>5. /\ Edits(First, EndedBy(requests[First], Head(stack).why))
      /\ EndedBy(requests[First], Head(stack).why) \in Requests
  BY <1>2, <1>3, <1>4, CancelEdits DEF Outcomes
<1>6. /\ queue' = Tail(queue) /\ pendingBytes' = pendingBytes - requests[First].left
      /\ UNCHANGED flushing
  BY DEF CancelWrite, handleVars, First
<1>7. Dequeues  BY <1>1, <1>3, <1>6, TailDequeues
<1>8. QED BY <1>2, <1>4, <1>5, <1>6, <1>7

\* The peer's Ping and Close may make a request.
LEMMA DispatchData ==
    ASSUME BaseInv, Dispatch
    PROVE  /\ UNCHANGED <<queue, pendingBytes, flushing, committed>>
           /\ \/ UNCHANGED requests
              \/ /\ Head(stack).at \in Owned /\ ~closing /\ Adds(NewOne(Head(stack).at, 1))
                 /\ NewOne(Head(stack).at, 1) \in Requests
<1>1. UNCHANGED <<queue, pendingBytes, flushing, committed>>  BY DEF Dispatch, tlsVars
<1>2. \/ UNCHANGED requests
      \/ Head(stack).at \in Owned /\ ~closing /\ requests' = NewRequest(Head(stack).at, 1)
  BY DEF Dispatch
<1>3. requests \in Seq(Requests)  BY DEF BaseInv, TypeInv
<1>4. Head(stack).at \in Owned => Head(stack).at \in Kinds  BY DEF Kinds
<1>5. QED BY <1>1, <1>2, <1>3, <1>4, AddsNew

\* The writes given before the upgrade was over make requests.
LEMMA ActivatedData ==
    ASSUME BaseInv, Activated
    PROVE  /\ UNCHANGED <<queue, pendingBytes, flushing, committed, answers>>
           /\ \/ UNCHANGED requests
              \/ ~closing /\ Adds(NewOne("response", 1)) /\ NewOne("response", 1) \in Requests
<1>1. UNCHANGED <<queue, pendingBytes, flushing, committed, answers>>  BY DEF Activated, tlsVars
<1>2. UNCHANGED requests \/ (~closing /\ requests' = NewRequest("response", 1))  BY DEF Activated
<1>3. requests \in Seq(Requests) /\ "response" \in Kinds  BY DEF BaseInv, TypeInv, Kinds
<1>4. QED BY <1>1, <1>2, <1>3, AddsNew

Refused(size) == [kind |-> "app", left |-> size, deferred |-> FALSE, outcome |-> "refused"]

\* send() makes a request or is refused.
LEMMA SendData ==
    ASSUME BaseInv, Send
    PROVE  /\ UNCHANGED <<queue, pendingBytes, flushing, committed, answers>>
           /\ \E size \in Nat \ {0} :
                IF writable
                  THEN /\ Adds(NewOne("app", size)) /\ NewOne("app", size) \in Requests
                       /\ Covers1(Step("submit", NextRequest, "none"))
                  ELSE /\ Adds(Refused(size)) /\ Refused(size) \in Requests
                       /\ Covers1(Step("_finishNativeWrite", NextRequest, "error"))
<1>1. UNCHANGED <<queue, pendingBytes, flushing, committed, answers>>  BY DEF Send, tlsVars, jsVars
<1>2. requests \in Seq(Requests) /\ "app" \in Kinds  BY DEF BaseInv, TypeInv, Kinds
<1>3. PICK size \in Sizes :
        IF writable
          THEN requests' = NewRequest("app", size) /\ Covers1(Step("submit", NextRequest, "none"))
          ELSE /\ requests' = Append(requests, [kind |-> "app", left |-> size, deferred |-> FALSE,
                                               outcome |-> "refused"])
               /\ Covers1(Step("_finishNativeWrite", NextRequest, "error"))
  BY SendMoves DEF BaseInv
<1>4. size \in Nat \ {0}  BY WebSocketAssumption
<1>5. CASE writable  BY <1>1, <1>2, <1>3, <1>4, <1>5, AddsNew
<1>6. CASE ~writable
  <2>1. Refused(size) \in Requests  BY <1>2, <1>4 DEF Refused, Requests, Outcomes
  <2>2. requests' = Append(requests, Refused(size))  BY <1>3, <1>6 DEF Refused
  <2>3. Adds(Refused(size))  BY <1>2, <2>1, <2>2, AddsRequest
  <2>4. QED BY <1>1, <1>3, <1>4, <1>6, <2>1, <2>3
<1>7. QED BY <1>5, <1>6

\* close() may make a request.
LEMMA CloseData ==
    ASSUME BaseInv, Close
    PROVE  /\ UNCHANGED <<queue, pendingBytes, flushing, committed, answers>>
           /\ \/ /\ MayWriteClose /\ Adds(NewOne("close", 1)) /\ NewOne("close", 1) \in Requests
                 /\ closeSent' = TRUE
              \/ ~MayWriteClose /\ UNCHANGED <<requests, closeSent>>
<1>1. UNCHANGED <<queue, pendingBytes, flushing, committed, answers>>  BY DEF Close, tlsVars
<1>2. requests \in Seq(Requests) /\ "close" \in Kinds  BY DEF BaseInv, TypeInv, Kinds
<1>3. \/ MayWriteClose /\ closeSent' = TRUE /\ requests' = NewRequest("close", 1)
      \/ ~MayWriteClose /\ UNCHANGED <<requests, closeSent>>
  BY DEF Close
<1>4. QED BY <1>1, <1>2, <1>3, AddsNew

\* A step that answers a request answers it with a request's number.
LEMMA AnswersData ==
    ASSUME BaseInv, FromNative \/ FinishNativeWrite
    PROVE  UNCHANGED <<requests, queue, pendingBytes, flushing, committed>>
  BY DEF FromNative, FinishNativeWrite, writeVars, tlsVars

\* The forms of the steps without conditions.
LEMMA FormAts ==
    ASSUME NEW n, NEW c
    PROVE  /\ Form(At("updatePoll"), n, c) /\ Form(At("flushWrites"), n, c)
           /\ Form(At("writing"), n, c) /\ Form(At("feed"), n, c)
           /\ Form(At("readAvailable"), n, c) /\ Form(At("message"), n, c)
           /\ Form(At("pong"), n, c) /\ Form(At("reply"), n, c) /\ Form(At("peerClosed"), n, c)
           /\ Form(At("performTLSShutdown"), n, c) /\ Form(At("shutdownIfPending"), n, c)
           /\ Form(At("fail"), n, c) /\ Form(At("requestDestroy"), n, c)
           /\ Form(At("destroy"), n, c) /\ Form(At("activate"), n, c)
           /\ Form(At("_onNativeMessage"), n, c) /\ Form(At("_onNativeBackpressure"), n, c)
           /\ Form(At("_onNativeTransportError"), n, c) /\ Form(At("_onNativeClosed"), n, c)
           /\ Form(At("release"), n, c) /\ Form(At("activated"), n, c)
           /\ Form(At("opened"), n, c) /\ Form(At("_fail"), n, c)
           /\ Form(At("terminate"), n, c) /\ Form(At("_finalizeClose"), n, c)
           /\ Form(At("user"), n, c) /\ Form(At("uncaught"), n, c)
<1>1. {"updatePoll", "flushWrites", "writing", "feed", "readAvailable", "message", "pong", "reply", "peerClosed", "performTLSShutdown", "shutdownIfPending", "fail", "requestDestroy", "destroy", "activate", "_onNativeMessage", "_onNativeBackpressure", "_onNativeTransportError", "_onNativeClosed", "release", "activated", "opened", "_fail", "terminate", "_finalizeClose", "user", "uncaught"}
      \subseteq Names \ (RequestSteps \cup CodeSteps \cup CloseSteps \cup TLSSteps)
  BY DEF Names, NativeMethods, Upcalls, RequestSteps, CodeSteps, CloseSteps, TLSSteps
<1>2. \A name \in {"updatePoll", "flushWrites", "writing", "feed", "readAvailable", "message", "pong", "reply", "peerClosed", "performTLSShutdown", "shutdownIfPending", "fail", "requestDestroy", "destroy", "activate", "_onNativeMessage", "_onNativeBackpressure", "_onNativeTransportError", "_onNativeClosed", "release", "activated", "opened", "_fail", "terminate", "_finalizeClose", "user", "uncaught"} :
        Form(At(name), n, c)
  BY <1>1, FormAt
<1>3. QED BY ONLY <1>2

\* No step takes a request back.
LEMMA GrowsNext == ASSUME BaseInv, Next, requests' \in Seq(Requests), Len(requests') >= Len(requests)
                   PROVE  Grows
<1>1. Len(requests) \in Nat /\ Len(requests') \in Nat  BY LenProperties DEF BaseInv, TypeInv
<1>2. closing => closing'
  BY NextNames, NativeTypesNext, ScriptTypesNext DEF BaseInv, ScriptLeaves, handleVars
<1>3. QED BY <1>1, <1>2 DEF Grows

\* The requests after a step.
RequestsGrow == requests' \in Seq(Requests) /\ Len(requests') >= Len(requests)

\* Each kind of change keeps the requests a sequence.
LEMMA RequestsGrows ==
    ASSUME BaseInv
    PROVE  /\ UNCHANGED requests => RequestsGrow
           /\ \A r : Adds(r) => RequestsGrow
           /\ \A i, r : Edits(i, r) => RequestsGrow
<1>1. requests \in Seq(Requests) /\ Len(requests) \in Nat  BY LenProperties DEF BaseInv, TypeInv
<1>2. QED BY <1>1 DEF RequestsGrow, Adds, Edits

\* The requests after a step.
LEMMA RequestsNext == ASSUME BaseInv, Next PROVE RequestsGrow
<1>1. CASE QuietNative \/ QuietScript
  BY <1>1, NativeQuiet, ScriptQuiet, RequestsGrows DEF Quiet
<1>2. CASE Submit
  <2>1. PICK i : i = Head(stack).on /\ (SubmitBehindOthers(i) \/ SubmitIdle(i) \/ Submitted(i))
    BY <1>2 DEF Submit
  <2>2. CASE SubmitBehindOthers(i)  BY <2>1, <2>2, BehindOthersData, RequestsGrows
  <2>3. CASE SubmitIdle(i)  BY <2>1, <2>3, SubmitIdleData, RequestsGrows
  <2>4. CASE Submitted(i)  BY <2>1, <2>4, SubmittedData, RequestsGrows
  <2>5. QED BY <2>1, <2>2, <2>3, <2>4
<1>3. CASE Writing
  <2>1. CASE \E n \in Nat : Sending(n)  BY <2>1, SendingData, RequestsGrows
  <2>2. CASE Stopping  BY <2>2, RequestsGrows DEF Stopping
  <2>3. QED BY <1>3, <2>1, <2>2, WritingMoves DEF BaseInv
<1>4. CASE Dispatch  BY <1>4, DispatchData, RequestsGrows
<1>5. CASE CancelWrite  BY <1>5, CancelWriteData, RequestsGrows
<1>6. CASE Closed  BY <1>6, RequestsGrows DEF Closed, writeVars
<1>7. CASE Activated  BY <1>7, ActivatedData, RequestsGrows
<1>8. CASE FromNative \/ FinishNativeWrite  BY <1>8, AnswersData, RequestsGrows
<1>9. CASE Send  BY <1>9, SendData, RequestsGrows
<1>10. CASE Close  BY <1>10, CloseData, RequestsGrows
<1>11. QED
  BY <1>1, <1>2, <1>3, <1>4, <1>5, <1>6, <1>7, <1>8, <1>9, <1>10, NextNames
     DEF NativeNext, NativeStep, ScriptNext, QuietNative, QuietScript

Kept == Formed' /\ StackTyped'

\* What is put on the stack keeps it well formed.
LEMMA KeptPuts ==
    ASSUME Formed, StackTyped, Grows
    PROVE  /\ UNCHANGED stack => Kept
           /\ Drops => Kept
           /\ \A a : Puts1(a) /\ Form(a, Len(requests'), closing') => Kept
           /\ \A a : Covers1(a) /\ Form(a, Len(requests'), closing') => Kept
           /\ \A a, b : Puts2(a, b) /\ Form(a, Len(requests'), closing')
                          /\ Form(b, Len(requests'), closing') => Kept
           /\ \A a, b : Covers2(a, b) /\ Form(a, Len(requests'), closing')
                          /\ Form(b, Len(requests'), closing') => Kept
           /\ \A a, b, c : Puts3(a, b, c) /\ Form(a, Len(requests'), closing')
                             /\ Form(b, Len(requests'), closing')
                             /\ Form(c, Len(requests'), closing') => Kept
           /\ \A a, b, c, d : Puts4(a, b, c, d) /\ Form(a, Len(requests'), closing')
                             /\ Form(b, Len(requests'), closing')
                             /\ Form(c, Len(requests'), closing')
                             /\ Form(d, Len(requests'), closing') => Kept
<1>1. UNCHANGED stack => Kept  BY FormedSame DEF Kept
<1>2. Drops => Kept  BY FormedDrops DEF Kept
<1>3. \A a : Puts1(a) /\ Form(a, Len(requests'), closing') => Kept  BY FormedPuts1 DEF Kept
<1>4. \A a : Covers1(a) /\ Form(a, Len(requests'), closing') => Kept  BY FormedPuts1 DEF Kept
<1>5. \A a, b : Puts2(a, b) /\ Form(a, Len(requests'), closing')
                  /\ Form(b, Len(requests'), closing') => Kept
  BY FormedPuts2 DEF Kept
<1>6. \A a, b : Covers2(a, b) /\ Form(a, Len(requests'), closing')
                  /\ Form(b, Len(requests'), closing') => Kept
  BY FormedPuts2 DEF Kept
<1>7. \A a, b, c : Puts3(a, b, c) /\ Form(a, Len(requests'), closing')
                     /\ Form(b, Len(requests'), closing')
                     /\ Form(c, Len(requests'), closing') => Kept
  BY FormedPuts3 DEF Kept
<1>8. \A a, b, c, d : Puts4(a, b, c, d) /\ Form(a, Len(requests'), closing')
                     /\ Form(b, Len(requests'), closing')
                     /\ Form(c, Len(requests'), closing')
                     /\ Form(d, Len(requests'), closing') => Kept
  BY FormedPuts4 DEF Kept
<1>9. QED BY <1>1, <1>2, <1>3, <1>4, <1>5, <1>6, <1>7, <1>8

\* So do the events of a read.
LEMMA ConsumeKept ==
    ASSUME BaseInv, Grows, NEW d \in {0, 1}, stack # <<>>, NEW rest, rest = Below(d), Consume(rest)
    PROVE  Kept
<1>1. PICK n \in Nat :
        /\ Moves(n, d)
        /\ \/ UNCHANGED <<parserClosing, closeSent>> /\ Events1(n)
           \/ ~parserClosing /\ parserClosing' /\ closeSent' /\ LastEvents(n)
  BY ConsumeMoves DEF BaseInv
<1>2. /\ Form(At("message"), Len(requests'), closing') /\ Form(At("pong"), Len(requests'), closing')
      /\ Form(At("reply"), Len(requests'), closing')
  BY FormAts
<1>3. ASSUME Events1(n), NEW k \in 1..n PROVE Form(stack'[k], Len(requests'), closing')
  BY <1>2, <1>3 DEF Events1
<1>4. ASSUME LastEvents(n), NEW k \in 1..n PROVE Form(stack'[k], Len(requests'), closing')
  <2>1. CASE k = n
    BY <1>4, <2>1 DEF LastEvents, Form, RequestSteps, CodeSteps, CloseSteps, TLSSteps
  <2>2. CASE k \in 1..n-1
    <3>1. stack'[k] \in {At("message"), At("pong"), At("reply")}
      BY <1>4, <2>2 DEF LastEvents
    <3>2. QED BY <1>2, <3>1
  <2>3. QED BY <2>1, <2>2
<1>5. QED BY <1>1, <1>3, <1>4, FormedKeeps DEF Kept, BaseInv, TypeInv

\* Each native step keeps the stack well formed.
LEMMA NativeStackNext ==
    ASSUME BaseInv, Grows, NativeNext PROVE Kept
<1> DEFINE n == Len(requests')  c == closing'
<1>a. TypeInv /\ Formed /\ StackTyped  BY DEF BaseInv, TypeInv
<1>b. Head(stack).why \in {"nobufs", "cancelled", "handshake"} /\ Top("closeNow")
        => Form(Step("cancelWrites", 0, Head(stack).why), n, TRUE)
  BY FormCloses
<1>c. \A why \in {"nobufs", "cancelled", "handshake"} : Form(CloseNow(why), n, c)
  BY FormCloses
<1>d. \A i \in DOMAIN requests : i \in 1..n
  BY LenProperties DEF Grows, BaseInv, TypeInv
<1>1. CASE UpdatePoll  BY <1>1, <1>a, UpdatePollMoves, KeptPuts
<1>2. CASE Submit
  <2>1. PICK i : i = Head(stack).on /\ (SubmitBehindOthers(i) \/ SubmitIdle(i) \/ Submitted(i))
    BY <1>2 DEF Submit
  <2>2. CASE SubmitBehindOthers(i)
    <3>1. i \in 1..n /\ i \in Nat  BY <1>d, <2>1, <2>2, BehindOthersData
    <3>2. Form(Back(i, "async"), n, c)  BY <3>1, FormRequests
    <3>3. QED BY <1>a, <1>c, <2>2, <3>1, <3>2, BehindOthersMoves, KeptPuts, FormAts
  <2>3. CASE SubmitIdle(i)
    <3>1. i \in 1..n /\ i \in Nat  BY <1>d, <2>1, <2>3, SubmitIdleData
    <3>2. Form(Step("submitted", i, "none"), n, c)  BY <3>1, FormRequests
    <3>3. QED BY <1>a, <2>3, <3>1, <3>2, SubmitIdleMoves, KeptPuts, FormAts
  <2>4. CASE Submitted(i)
    <3>1. i \in 1..n /\ i \in Nat  BY <1>d, <2>1, <2>4, SubmittedData
    <3>2. Form(Back(i, "async"), n, c) /\ Form(Back(i, "sync"), n, c) /\ Form(Back(i, "error"), n, c)
      BY <3>1, FormRequests
    <3>3. QED BY <1>a, <1>c, <2>4, <3>1, <3>2, SubmittedMoves, KeptPuts, FormAts
  <2>5. QED BY <2>1, <2>2, <2>3, <2>4
<1>3. CASE FlushWrites  BY <1>3, <1>a, FlushWritesMoves, KeptPuts, FormAts
<1>4. CASE Writing
  <2>1. ASSUME NEW m \in Nat, Sending(m) PROVE Kept
    <3>1. First \in 1..n  BY <1>d, <2>1, SendingData
    <3>2. Form(Step("writeCallback", First, "ok"), n, c)  BY <3>1, FormRequests
    <3>3. queue # <<>> /\ Wrote(m)  BY <2>1 DEF Sending
    <3>4. QED BY <1>a, <3>2, <3>3, WroteMoves, KeptPuts
  <2>2. QED BY <1>4, <1>a, <2>1, WritingMoves, KeptPuts, FormAts
<1>5. CASE Feed
  <2>1. stack # <<>> /\ Tail(stack) = Below(1)  BY <1>5 DEF Feed, Top, Below
  <2>2. QED BY <1>5, <1>a, <2>1, FeedMoves, KeptPuts, ConsumeKept
<1>6. CASE Receive
  <2>1. stack # <<>> /\ Tail(stack) = Below(1)  BY <1>6 DEF Receive, Top, Below
  <2>2. QED BY <1>6, <1>a, <1>c, <2>1, ReceiveMoves, KeptPuts, ConsumeKept, FormAts, FormTLS DEF TLSSteps
<1>7. CASE ProcessMemoryBIO
  <2>1. Tls  BY <1>7, TopOn DEF ProcessMemoryBIO, Top, Form, TLSSteps
  <2>2. Form(At("SSL_read"), n, c) /\ Form(At("flushOutput"), n, c)
    BY <2>1, FormTLS DEF TLSSteps
  <2>3. QED BY <1>7, <1>a, <2>2, ProcessMemoryBIOMoves, KeptPuts
<1>8. CASE ReadTLS
  <2>1. stack # <<>> /\ stack = Below(0)  BY <1>8 DEF ReadTLS, Top, Below
  <2>2. QED BY <1>8, <1>a, <1>c, <2>1, ReadTLSMoves, KeptPuts, ConsumeKept, FormAts
<1>9. CASE FlushOutput  BY <1>9, <1>a, FlushOutputMoves, KeptPuts, FormAts
<1>10. CASE Dispatch
  <2>1. stack # <<>>  BY <1>10 DEF Dispatch
  <2>2. Head(stack).at = "peerClose" => Form(Step("_onNativeClose", Head(stack).on, "none"), n, c)
    <3>1. Head(stack).at = "peerClose" => Head(stack).on \in {1000, 1006}
      BY <2>1, TopOn DEF Form, CodeSteps
    <3>2. QED BY <3>1, FormCodes
  <2>3. requests' = NewRequest(Head(stack).at, 1) /\ Head(stack).at \in Owned
          => Form(Step("submit", NextRequest, "none"), n, c)
    <3> SUFFICES ASSUME requests' = NewRequest(Head(stack).at, 1), Head(stack).at \in Owned
                 PROVE  Form(Step("submit", NextRequest, "none"), n, c)
      OBVIOUS
    <3>1. Adds(NewOne(Head(stack).at, 1))  BY <1>a, AddsNew DEF TypeInv, Kinds
    <3>2. NextRequest \in 1..n  BY <3>1 DEF Adds, Grows, NextRequest
    <3>3. QED BY <3>2, FormRequests
  <2>4. /\ Form(At("_onNativeMessage"), n, c) /\ Form(At("peerClosed"), n, c)
        /\ Form(At("performTLSShutdown"), n, c)
    BY FormAts
  <2>5. \/ Drops \/ Puts1(At("_onNativeMessage")) \/ Puts1(At("performTLSShutdown"))
        \/ /\ Head(stack).at = "peerClose"
           /\ Puts2(Step("_onNativeClose", Head(stack).on, "none"), At("peerClosed"))
        \/ /\ requests' = NewRequest(Head(stack).at, 1) /\ Head(stack).at \in Owned
           /\ Puts1(Step("submit", NextRequest, "none"))
    BY <1>10, <1>a, DispatchMoves
  <2>6. QED BY <1>a, <2>2, <2>3, <2>4, <2>5, KeptPuts
<1>11. CASE PerformTLSShutdown  BY <1>11, <1>a, <1>c, PerformTLSShutdownMoves, KeptPuts, FormAts
<1>12. CASE BeginClose
  <2>1. Head(stack).why \in {"nobufs", "cancelled", "handshake"}
    BY <1>12, TopOn DEF BeginClose, Top, Form, CloseSteps
  <2>2. c  BY <1>12 DEF BeginClose
  <2>3. Form(Step("cancelWrites", 0, Head(stack).why), n, c)  BY <2>1, <2>2, FormCloses
  <2>4. QED BY <1>12, <1>a, <2>3, BeginCloseMoves, KeptPuts
<1>13. CASE CancelWrite
  <2>1. First \in 1..n  BY <1>13, <1>d, CancelWriteData
  <2>2. /\ Form(Step("writeCallback", First, "nobufs"), n, c)
        /\ Form(Step("writeCallback", First, "error"), n, c)
    BY <2>1, FormRequests
  <2>3. QED BY <1>13, <1>a, <2>2, CancelWriteMoves, KeptPuts
<1>14. CASE Closed  BY <1>14, <1>a, ClosedMoves, KeptPuts
<1>15. CASE Fail  BY <1>15, <1>a, <1>c, FailMoves, KeptPuts, FormAts
<1>16. CASE RequestDestroy  BY <1>16, <1>a, <1>c, RequestDestroyMoves, KeptPuts, FormAts
<1>17. CASE Destroy \/ Release  BY <1>17, <1>a, DestroyMoves, ReleaseMoves, KeptPuts
<1>18. CASE Activate
  <2>1. CASE ~Tls \/ active \/ closing  BY <1>18, <1>a, <2>1, ActivateMoves, KeptPuts, FormAts
  <2>2. CASE Tls /\ ~(active \/ closing)
    <3>1. Form(At("processMemoryBIO"), n, c)  BY <2>2, FormTLS DEF TLSSteps
    <3>2. QED BY <1>18, <1>a, <2>2, <3>1, ActivateMoves, KeptPuts, FormAts
  <2>3. QED BY <2>1, <2>2
<1>19. CASE OnPoll
  <2>1. \A a \in PollSteps : Form(a, n, c)
    <3>1. CASE Tls
      <4>1. Form(At("processMemoryBIO"), n, c)  BY <3>1, FormTLS DEF TLSSteps
      <4>2. QED BY <4>1, FormAts DEF PollSteps
    <3>2. CASE ~Tls  BY <3>2, FormAts DEF PollSteps
    <3>3. QED BY <3>1, <3>2
  <2>2. PICK m \in Nat : /\ Moves(m, 0) /\ m >= 1 /\ stack'[m] = At("updatePoll")
                         /\ \A k \in 1..m : stack'[k] \in PollSteps
    BY <1>19, <1>a, OnPollMoves
  <2>3. \A k \in 1..m : Form(stack'[k], n, c)  BY <2>1, <2>2
  <2>4. QED BY <1>a, <2>2, <2>3, FormedKeeps DEF Kept
<1>20. CASE OnPollError  BY <1>20, <1>a, OnPollErrorMoves, KeptPuts, FormAts
<1>21. CASE OnPollClosed  BY <1>21, <1>a, OnPollClosedMoves, KeptPuts, FormAts
<1>22. QED
  BY <1>1, <1>2, <1>3, <1>4, <1>5, <1>6, <1>7, <1>8, <1>9, <1>10, <1>11, <1>12, <1>13, <1>14,
     <1>15, <1>16, <1>17, <1>18, <1>19, <1>20, <1>21
     DEF NativeNext, NativeStep

\* A step about a request that is new.
LEMMA NewOn ==
    ASSUME BaseInv, Grows, NEW r, Adds(r)
    PROVE  /\ Form(Step("submit", NextRequest, "none"), Len(requests'), closing')
           /\ Form(Step("_finishNativeWrite", NextRequest, "error"), Len(requests'), closing')
<1>1. NextRequest \in 1..Len(requests')  BY DEF Adds, Grows, NextRequest
<1>2. QED BY <1>1, FormRequests

\* Each step of JavaScript keeps the stack well formed.
LEMMA ScriptStackNext ==
    ASSUME BaseInv, Grows, ScriptNext PROVE Kept
<1> DEFINE n == Len(requests')  c == closing'
<1>a. TypeInv /\ Formed /\ StackTyped  BY DEF BaseInv, TypeInv
<1>c. Form(CloseNow("cancelled"), n, c)  BY FormCloses
<1>1. CASE Activated
  <2>1. requests' = NewRequest("response", 1) => Form(Step("submit", NextRequest, "none"), n, c)
    <3>1. "response" \in Kinds /\ 1 \in Nat /\ requests \in Seq(Requests)
      BY <1>a DEF TypeInv, Kinds
    <3>2. requests' = NewRequest("response", 1) => Adds(NewOne("response", 1))
      BY <3>1, AddsNew
    <3>3. QED BY <3>2, NewOn
  <2>2. Form(At("_fail"), n, c) /\ Form(At("opened"), n, c)  BY FormAts
  <2>3. QED BY <1>1, <1>a, <2>1, <2>2, ActivatedMoves, KeptPuts
<1>2. CASE Opened  BY <1>2, <1>a, OpenedMoves, KeptPuts, FormAts
<1>3. CASE FromNative
  <2>1. \/ Drops \/ Puts1(At("user")) \/ Puts1(At("uncaught")) \/ Puts1(At("_finalizeClose"))
    BY <1>3, <1>a, FromNativeMoves DEF Runs
  <2>2. QED BY <1>a, <2>1, KeptPuts, FormAts
<1>4. CASE FinishNativeWrite  BY <1>4, <1>a, FinishNativeWriteMoves, KeptPuts, FormAts
<1>5. CASE FailWebSocket  BY <1>5, <1>a, FailWebSocketMoves, KeptPuts, FormAts
<1>6. CASE Terminate  BY <1>6, <1>a, <1>c, TerminateMoves, KeptPuts, FormAts
<1>7. CASE FinalizeClose  BY <1>7, <1>a, FinalizeCloseMoves, KeptPuts, FormAts
<1>8. CASE UserReturns  BY <1>8, <1>a, UserReturnsMoves, KeptPuts
<1>9. CASE NodeSocketClosed  BY <1>9, <1>a, NodeSocketClosedMoves, KeptPuts, FormAts
<1>10. CASE RunScheduled  BY <1>10, <1>a, RunScheduledMoves, KeptPuts, FormAts
<1>11. CASE CloseTimeout  BY <1>11, <1>a, <1>c, CloseTimeoutMoves, KeptPuts
<1>12. CASE AbortUpgrade  BY <1>12, <1>a, <1>c, AbortUpgradeMoves, KeptPuts, FormAts
<1>13. CASE Send
  <2>1. PICK size \in Nat \ {0} :
                IF writable
                  THEN /\ Adds(NewOne("app", size)) /\ NewOne("app", size) \in Requests
                       /\ Covers1(Step("submit", NextRequest, "none"))
                  ELSE /\ Adds(Refused(size)) /\ Refused(size) \in Requests
                       /\ Covers1(Step("_finishNativeWrite", NextRequest, "error"))
    BY <1>13, SendData
  <2>2. QED BY <1>a, <2>1, NewOn, KeptPuts
<1>14. CASE Close
  <2>1. CASE MayWriteClose
    <3>1. requests' = NewRequest("close", 1) /\ Covers1(Step("submit", NextRequest, "none"))
      BY <1>14, <1>a, <2>1, CloseMoves
    <3>2. Form(Step("submit", NextRequest, "none"), n, c)
      BY ZenonT(30), <1>a, <3>1, AddsNew, NewOn DEF TypeInv, Kinds
    <3>3. QED BY <1>a, <3>1, <3>2, KeptPuts
  <2>2. CASE ~MayWriteClose
    <3>1. UNCHANGED stack \/ Covers1(CloseNow("cancelled"))  BY <1>14, <1>a, <2>2, CloseMoves
    <3>2. QED BY <1>a, <1>c, <3>1, KeptPuts
  <2>3. QED BY <2>1, <2>2
<1>15. CASE UserTerminate  BY <1>15, <1>a, UserTerminateMoves, KeptPuts, FormAts
<1>16. QED
  BY <1>1, <1>2, <1>3, <1>4, <1>5, <1>6, <1>7, <1>8, <1>9, <1>10, <1>11, <1>12, <1>13, <1>14,
     <1>15 DEF ScriptNext

\* Each step does.
LEMMA StackNext == ASSUME BaseInv, Next PROVE Formed' /\ StackTyped' /\ Grows
<1>1. Grows  BY RequestsNext, GrowsNext DEF RequestsGrow
<1>2. Kept  BY <1>1, NextNames, NativeStackNext, ScriptStackNext
<1>3. QED BY <1>1, <1>2 DEF Kept

\* The queue and the committed bytes.
QueueTypes == queue \in Seq(Nat) /\ Refers /\ Committed /\ PlainTCP /\ committed \in Nat

\* The first request after a step that leaves the queue.
LEMMA FirstNext == ASSUME queue' \in Seq(Nat), 1 \in DOMAIN queue'
                   PROVE  queue' # <<>> /\ First' = queue'[1]
  BY HeadTailProperties DEF First

\* An unchanged queue still refers to requests.
LEMMA SameQueue ==
    ASSUME BaseInv, Grows, UNCHANGED <<queue, committed>>,
           \A i \in DOMAIN requests : i \in DOMAIN requests' /\ requests'[i].left = requests[i].left
    PROVE  queue' \in Seq(Nat) /\ Refers' /\ Committed' /\ committed' \in Nat
<1>1. queue' \in Seq(Nat) /\ committed' \in Nat  BY DEF BaseInv, TypeInv
<1>2. Refers'  BY DEF BaseInv, Refers
<1>3. First' = First  BY DEF First
<1>4. Committed'
  <2>1. queue # <<>> => First \in DOMAIN requests  BY QueueFacts
  <2>2. QED BY <1>3, <2>1 DEF BaseInv, Committed, Grows
<1>5. QED BY <1>1, <1>2, <1>4

\* And so when only the transport's end changed.
LEMMA SameRequests ==
    ASSUME BaseInv
    PROVE  /\ UNCHANGED requests =>
                \A i \in DOMAIN requests : i \in DOMAIN requests' /\ requests'[i].left = requests[i].left
           /\ \A r : Adds(r) =>
                \A i \in DOMAIN requests : i \in DOMAIN requests' /\ requests'[i].left = requests[i].left
           /\ \A j : Edits(j, Deferred(requests[j])) /\ requests[j] \in Requests =>
                \A i \in DOMAIN requests : i \in DOMAIN requests' /\ requests'[i].left = requests[i].left
  BY DEF Adds, Edits, Deferred, Requests


\* A write, by what it does to the queue and to the committed bytes.
LEMMA WritingData ==
    ASSUME BaseInv, Writing
    PROVE  /\ ~Tls => UNCHANGED <<output, committed>>
           /\ Stopping => \/ UNCHANGED committed
                          \/ /\ Tls /\ committed = 0 /\ queue # <<>> /\ ~closing
                             /\ committed' \in 1..requests[First].left
<1>1. CASE queue = <<>> \/ closing  BY <1>1 DEF Writing, writeTCP, writeTLS
<1>2. CASE queue # <<>> /\ ~closing /\ writeTCP  BY <1>2 DEF writeTCP
<1>3. CASE queue # <<>> /\ ~closing /\ writeTLS
  <2>1. Tls  BY <1>3 DEF writeTLS
  <2>2. \/ UNCHANGED committed
        \/ committed > 0 /\ Drained /\ Wrote(committed) /\ committed' = 0
        \/ committed = 0 /\ committed' \in 1..requests[First].left
    BY <1>3 DEF writeTLS, First, WriteError
  <2>3. ~(Stopping /\ Wrote(committed) /\ committed > 0)
    <3> SUFFICES ASSUME Stopping, Wrote(committed), committed > 0 PROVE FALSE  OBVIOUS
    <3>1. /\ First \in DOMAIN requests /\ requests[First].left \in Nat /\ committed \in Nat
          /\ committed <= requests[First].left
      BY <1>3, QueueFacts DEF BaseInv, TypeInv, Committed, Requests
    <3>2. Edits(First, WrittenBy(requests[First], committed))
      BY <3>1, WroteEdits DEF BaseInv, TypeInv
    <3>3. requests'[First].left = requests[First].left - committed
      BY <3>1, <3>2, QueueFacts, <1>3 DEF Edits, WrittenBy, Requests
    <3>4. requests' = requests  BY DEF Stopping
    <3>5. QED BY <3>1, <3>3, <3>4
  <2>4. QED BY <1>3, <2>1, <2>2, <2>3
<1>4. QED BY <1>1, <1>2, <1>3 DEF Writing

\* The queue refers to requests and the committed bytes to its first, after any step.
LEMMA QueueNext ==
    ASSUME BaseInv, Next PROVE queue' \in Seq(Nat) /\ Refers' /\ Committed' /\ committed' \in Nat
<1>0. Grows  BY StackNext
<1>a. /\ queue \in Seq(Nat) /\ committed \in Nat /\ Refers /\ Committed /\ closing \in BOOLEAN
      /\ Len(queue) \in Nat /\ DOMAIN queue = 1..Len(queue)
  BY LenProperties DEF BaseInv, TypeInv
<1>1. CASE QuietNative \/ QuietScript
  <2>1. Quiet  BY <1>1, NativeQuiet, ScriptQuiet
  <2>2. QED BY <1>0, <2>1, SameQueue, SameRequests DEF Quiet
<1>2. CASE Submit
  <2>1. PICK i : i = Head(stack).on /\ (SubmitBehindOthers(i) \/ SubmitIdle(i) \/ Submitted(i))
    BY <1>2 DEF Submit
  <2>2. UNCHANGED committed  BY <1>2 DEF Submit, tlsVars
  <2>3. ASSUME Queues(i), i \in DOMAIN requests,
               \A j \in DOMAIN requests : j \in DOMAIN requests' /\ requests'[j].left = requests[j].left
        PROVE  queue' \in Seq(Nat) /\ Refers' /\ Committed'
    <3>1. queue' \in Seq(Nat)  BY <2>3 DEF Queues
    <3>2. Refers'  BY <1>a, <2>3 DEF Refers, Queues
    <3>3. queue # <<>> => 1 \in DOMAIN queue' /\ queue'[1] = First /\ First \in DOMAIN requests
      BY <2>3, QueueFacts DEF Queues
    <3>4. queue # <<>> => First' = First /\ queue' # <<>>  BY <3>1, <3>3, FirstNext
    <3>5. Committed'  BY <1>0, <1>a, <2>2, <2>3, <3>3, <3>4 DEF Committed, Grows
    <3>6. QED BY <3>1, <3>2, <3>5
  <2>4. CASE SubmitBehindOthers(i)
    BY <1>a, <2>1, <2>2, <2>3, <2>4, BehindOthersData, SameRequests
  <2>5. CASE SubmitIdle(i)
    BY <1>a, <2>1, <2>2, <2>3, <2>5, SubmitIdleData, SameRequests
  <2>6. CASE Submitted(i)
    BY <1>0, <2>1, <2>2, <2>6, SubmittedData, SameRequests, SameQueue
  <2>7. QED BY <2>1, <2>4, <2>5, <2>6
<1>3. CASE Writing
  <2>1. ASSUME NEW n \in Nat, Sending(n)
        PROVE  queue' \in Seq(Nat) /\ Refers' /\ Committed' /\ committed' \in Nat
    <3>1. committed' = 0  BY <1>a, <2>1 DEF Sending, BaseInv, PlainTCP
    <3>2. /\ Edits(First, WrittenBy(requests[First], n))
          /\ IF requests[First].left = n THEN Dequeues ELSE UNCHANGED queue
      BY SMTT(30), <2>1, SendingData
    <3>3. queue' \in Seq(Nat)  BY <1>a, <3>2 DEF Dequeues
    <3>4. Refers'  BY <1>a, <3>2 DEF Refers, Edits, Dequeues
    <3>5. QED BY <3>1, <3>3, <3>4 DEF Committed
  <2>2. CASE Stopping
    <3>1. UNCHANGED committed \/ (queue # <<>> /\ committed' \in 1..requests[First].left)
      BY <1>3, <2>2, WritingData
    <3>2. UNCHANGED <<queue, requests, closing, First>>
      BY <1>3, <2>2 DEF Stopping, Writing, handleVars, First
    <3>3. queue # <<>> => requests[First].left \in Nat  BY QueueFacts DEF Requests
    <3>4. QED BY <1>a, <3>1, <3>2, <3>3 DEF Refers, Committed
  <2>3. QED BY <1>3, <2>1, <2>2, WritingMoves DEF BaseInv
<1>4. CASE Dispatch  BY <1>0, <1>4, DispatchData, SameRequests, SameQueue
<1>5. CASE CancelWrite
  <2>1. closing' /\ UNCHANGED committed  BY <1>0, <1>5, CancelWriteData DEF CancelWrite, tlsVars, Grows
  <2>2. Dequeues /\ \E r : Edits(First, r)  BY <1>5, CancelWriteData
  <2>3. Refers' /\ queue' \in Seq(Nat)  BY <1>a, <2>2 DEF Refers, Edits, Dequeues
  <2>4. QED BY <1>a, <2>1, <2>3 DEF Committed
<1>6. CASE Closed
  <2>1. UNCHANGED <<queue, requests>> /\ committed' = 0  BY <1>6 DEF Closed, writeVars
  <2>2. QED BY <1>a, <2>1 DEF Refers, Committed
<1>7. CASE Activated  BY <1>0, <1>7, ActivatedData, SameRequests, SameQueue
<1>8. CASE FromNative \/ FinishNativeWrite  BY <1>0, <1>8, AnswersData, SameRequests, SameQueue
<1>9. CASE Send  BY <1>0, <1>9, SendData, SameRequests, SameQueue
<1>10. CASE Close  BY <1>0, <1>10, CloseData, SameRequests, SameQueue
<1>11. QED
  BY <1>1, <1>2, <1>3, <1>4, <1>5, <1>6, <1>7, <1>8, <1>9, <1>10, NextNames
     DEF NativeNext, NativeStep, ScriptNext, QuietNative, QuietScript

\* A plain socket stays one.
LEMMA PlainNext == ASSUME BaseInv, Next PROVE PlainTCP'
<1> SUFFICES ASSUME ~Tls PROVE committed' = 0 /\ ~output'  BY DEF PlainTCP
<1>0. committed = 0 /\ ~output  BY DEF BaseInv, PlainTCP
<1>1. CASE UpdatePoll  BY <1>0, <1>1 DEF UpdatePoll, tlsVars
<1>2. CASE Submit  BY <1>0, <1>2 DEF Submit, tlsVars
<1>3. CASE FlushWrites  BY <1>0, <1>3 DEF FlushWrites, Drained, StillBlocked, tlsVars
<1>4. CASE Feed  BY <1>0, <1>4 DEF Feed, Consume, tlsVars
<1>5. CASE ProcessMemoryBIO  BY <1>0, <1>5 DEF ProcessMemoryBIO, tlsVars
<1>6. CASE ReadTLS  BY <1>0, <1>6 DEF ReadTLS, Consume, tlsVars
<1>7. CASE Dispatch  BY <1>0, <1>7 DEF Dispatch, tlsVars
<1>8. CASE BeginClose  BY <1>0, <1>8 DEF BeginClose, tlsVars
<1>9. CASE CancelWrite  BY <1>0, <1>9 DEF CancelWrite, tlsVars
<1>10. CASE Closed  BY <1>0, <1>10 DEF Closed, tlsVars
<1>11. CASE Fail  BY <1>0, <1>11 DEF Fail, tlsVars
<1>12. CASE RequestDestroy  BY <1>0, <1>12 DEF RequestDestroy, tlsVars
<1>13. CASE Destroy  BY <1>0, <1>13 DEF Destroy, tlsVars
<1>14. CASE Release  BY <1>0, <1>14 DEF Release, tlsVars
<1>15. CASE Activate  BY <1>0, <1>15 DEF Activate, tlsVars
<1>16. CASE OnPoll  BY <1>0, <1>16 DEF OnPoll, tlsVars
<1>17. CASE OnPollError  BY <1>0, <1>17 DEF OnPollError, tlsVars
<1>18. CASE OnPollClosed  BY <1>0, <1>18 DEF OnPollClosed, tlsVars
<1>19. CASE Writing  BY <1>0, <1>19, WritingData
<1>20. CASE FlushOutput  BY <1>20, TopOn DEF FlushOutput, Top, Form, TLSSteps
<1>21. CASE ScriptNext  BY <1>0, <1>21, ScriptTypesNext DEF ScriptLeaves, tlsVars, BaseInv
<1>22. CASE Receive
  <2>1. Consume(Tail(stack)) \/ UNCHANGED tlsVars  BY <1>22 DEF Receive
  <2>2. UNCHANGED tlsVars  BY <2>1 DEF Consume
  <2>3. QED BY <1>0, <2>2 DEF tlsVars
<1>23. CASE PerformTLSShutdown
  <2>1. UNCHANGED tlsVars  BY <1>23, PerformTLSShutdownMoves DEF BaseInv
  <2>2. QED BY <1>0, <2>1 DEF tlsVars
<1>24. QED
  BY <1>1, <1>2, <1>3, <1>4, <1>5, <1>6, <1>7, <1>8, <1>9, <1>10, <1>11, <1>12, <1>13, <1>14, <1>15, <1>16, <1>17, <1>18, <1>19, <1>20, <1>21, <1>22, <1>23,
     NextNames DEF NativeNext, NativeStep

\* The answers to send().
Answered(i, result) ==
    /\ answers' \in Seq(Answers) /\ Len(answers') = Len(answers) + 1
    /\ Len(answers) + 1 \in DOMAIN answers'
    /\ answers'[Len(answers) + 1] = [request |-> i, result |-> result]
    /\ \A k \in DOMAIN answers : k \in DOMAIN answers' /\ answers'[k] = answers[k]
    /\ \A k \in DOMAIN answers' : k \in DOMAIN answers \/ k = Len(answers) + 1

\* An answer is appended at most.
LEMMA AnswerAnswers ==
    ASSUME answers \in Seq(Answers), NEW i \in Nat, NEW result \in {"ok", "error", "nobufs"},
           Answer(i, result)
    PROVE  Answered(i, result)
<1>1. PICK a : a = [request |-> i, result |-> result]  OBVIOUS
<1>2. a \in Answers  BY <1>1 DEF Answers
<1>3. /\ answers' \in Seq(Answers) /\ Len(answers') = Len(answers) + 1
      /\ \A k \in 1..Len(answers) : answers'[k] = answers[k]
      /\ answers'[Len(answers) + 1] = a
  BY <1>1, <1>2, AppendProperties DEF Answer
<1>4. /\ DOMAIN answers = 1..Len(answers) /\ DOMAIN answers' = 1..Len(answers')
      /\ Len(answers) \in Nat
  BY <1>3, LenProperties
<1>5. QED BY <1>1, <1>3, <1>4 DEF Answered

\* The answers keep their type.
LEMMA AnswersNext ==
    ASSUME BaseInv, Next
    PROVE  \/ UNCHANGED answers
           \/ FromNative /\ Head(stack).at = "writeCallback" /\ Answered(Head(stack).on, Head(stack).why)
           \/ /\ FinishNativeWrite /\ requests[Head(stack).on].kind = "app"
              /\ \/ Head(stack).why = "sync" /\ Answered(Head(stack).on, "ok")
                 \/ Head(stack).why = "error" /\ Answered(Head(stack).on, "error")
<1>1. CASE NativeNext /\ UNCHANGED jsVars  BY <1>1 DEF jsVars
<1>2. CASE QuietScript  BY <1>2, ScriptQuiet
<1>3. CASE Activated \/ Send \/ Close  BY <1>3, ActivatedData, SendData, CloseData
<1>4. CASE FromNative
  <2>1. CASE Head(stack).at = "writeCallback"
    <3>1. Answer(Head(stack).on, Head(stack).why)
      BY <1>4, <2>1, FromNativeMoves DEF BaseInv
    <3>2. Head(stack).on \in Nat /\ Head(stack).why \in {"ok", "nobufs", "error"}
      BY <1>4, <2>1, TopOn DEF FromNative, Form
    <3>3. QED BY <1>4, <2>1, <3>1, <3>2, AnswerAnswers DEF BaseInv, TypeInv
  <2>2. CASE Head(stack).at # "writeCallback"
    BY <1>4, <2>2, FromNativeMoves DEF BaseInv
  <2>3. QED BY <2>1, <2>2
<1>5. CASE FinishNativeWrite
  <2>1. Head(stack).on \in Nat /\ Head(stack).why \in {"async", "sync", "error"}
    BY <1>5, TopOn DEF FinishNativeWrite, Top, Form
  <2>2. CASE requests[Head(stack).on].kind = "app" /\ Head(stack).why = "sync"
    <3>1. Answer(Head(stack).on, "ok")  BY <1>5, <2>2 DEF FinishNativeWrite
    <3>2. QED BY <1>5, <2>1, <2>2, <3>1, AnswerAnswers DEF BaseInv, TypeInv
  <2>3. CASE requests[Head(stack).on].kind = "app" /\ Head(stack).why = "error"
    <3>1. Answer(Head(stack).on, "error")  BY <1>5, <2>3 DEF FinishNativeWrite
    <3>2. QED BY <1>5, <2>1, <2>3, <3>1, AnswerAnswers DEF BaseInv, TypeInv
  <2>4. CASE requests[Head(stack).on].kind # "app" \/ Head(stack).why = "async"
    BY <1>5, <2>4 DEF FinishNativeWrite
  <2>5. QED BY <2>1, <2>2, <2>3, <2>4
<1>6. QED BY <1>1, <1>2, <1>3, <1>4, <1>5, NextNames DEF ScriptNext, QuietScript

\* The types hold at first.
LEMMA BaseInit == ASSUME Init PROVE BaseInv
<1>1. /\ stack = <<>> /\ requests = <<>> /\ queue = <<>> /\ answers = <<>> /\ committed = 0
      /\ output = FALSE
  BY DEF Init, NativeInit
<1>2. NativeTypes
  <2>1. reads = 0 /\ 0 \in 0..MaxReads /\ frees = 0 /\ interest = {}
    BY TransportAssumption DEF Init, NativeInit
  <2>2. /\ active = FALSE /\ closing = FALSE /\ poll = "none" /\ destroyRequested = FALSE
        /\ parserClosing = FALSE /\ closeSent = FALSE /\ graceful = FALSE /\ flushing = FALSE
        /\ output = FALSE /\ blockedOnRead = FALSE /\ shutdownPending = FALSE
        /\ shutdownGenerated = FALSE
    BY DEF Init, NativeInit
  <2>3. QED BY ONLY <2>1, <2>2 DEF NativeTypes, HandleTypes, PeerTypes, FlowTypes
<1>3. ScriptTypes  BY ZenonT(30) DEF Init, ScriptTypes
<1>4. StackTyped /\ requests \in Seq(Requests) /\ queue \in Seq(Nat) /\ answers \in Seq(Answers)
  BY <1>1 DEF StackTyped
<1>5. Formed /\ Refers  BY <1>1 DEF Formed, Refers
<1>6. Committed /\ PlainTCP /\ committed \in Nat  BY <1>1 DEF Committed, PlainTCP
<1>7. QED BY <1>2, <1>3, <1>4, <1>5, <1>6 DEF BaseInv, TypeInv, NativeTypes, HandleTypes, PeerTypes,
     FlowTypes, ScriptTypes

\* And after each step.
LEMMA BaseStep == ASSUME BaseInv, Next PROVE BaseInv'
<1>1. Formed' /\ StackTyped' /\ Grows  BY StackNext
<1>2. requests' \in Seq(Requests)  BY RequestsNext DEF RequestsGrow
<1>3. queue' \in Seq(Nat) /\ Refers' /\ Committed' /\ committed' \in Nat  BY QueueNext
<1>4. answers' \in Seq(Answers)
  BY AnswersNext DEF Answered, BaseInv, TypeInv
<1>5. NativeTypes'
  <2>1. CASE ScriptNext
    <3>1. ScriptLeaves  BY <2>1, ScriptTypesNext DEF BaseInv
    <3>2. closeSent' \in BOOLEAN  BY ZenonT(30), <3>1 DEF ScriptLeaves, BaseInv, TypeInv
    <3>3. NativeTypes
      BY DEF BaseInv, TypeInv, NativeTypes, HandleTypes, PeerTypes, FlowTypes
    <3>4. HandleTypes'  BY <3>1, <3>3 DEF ScriptLeaves, NativeTypes, HandleTypes, handleVars
    <3>5. PeerTypes'  BY <3>1, <3>2, <3>3 DEF ScriptLeaves, NativeTypes, PeerTypes
    <3>6. FlowTypes'  BY <3>1, <3>3 DEF ScriptLeaves, NativeTypes, FlowTypes, tlsVars
    <3>7. QED BY <3>4, <3>5, <3>6 DEF NativeTypes
  <2>2. QED BY <2>1, NextNames, NativeTypesNext DEF BaseInv
<1>6. ScriptTypes'
  <2>1. ScriptTypes  BY DEF BaseInv, TypeInv, ScriptTypes
  <2>2. UNCHANGED jsVars => ScriptTypes'  BY <2>1 DEF ScriptTypes, jsVars
  <2>3. QED BY <2>2, NextNames, ScriptTypesNext DEF BaseInv
<1>7. PlainTCP'  BY PlainNext
<1>8. QED
  BY <1>1, <1>2, <1>3, <1>4, <1>5, <1>6, <1>7 DEF BaseInv, TypeInv, NativeTypes, HandleTypes, PeerTypes,
     FlowTypes, ScriptTypes

\* Steps that run as soon as they lie on the stack.
Immediate == Upcalls \cup {"submit", "requestDestroy", "activate"}
Instant(s) == s.at \in Immediate \/ s.why = "handshake"
Instantly == \A k \in DOMAIN stack : Instant(stack[k]) => k = 1

\* Only new steps can spoil it.
LEMMA InstantlyMoves ==
    ASSUME Instantly, StackTyped, NEW n \in Nat, NEW d \in {0, 1}, Moves(n, d),
           \A k \in 2..n : ~Instant(stack'[k]),
           d = 0 => n = 0 \/ stack = <<>> \/ ~Instant(Head(stack))
    PROVE  Instantly'
<1>1. /\ stack' \in Seq(Steps) /\ DOMAIN stack' = 1..Len(stack') /\ Len(stack') \in Nat
      /\ DOMAIN stack = 1..Len(stack) /\ Len(stack) \in Nat
      /\ Len(stack') = n + Len(stack) - d
  BY LenProperties DEF Moves, StackTyped
<1>2. ASSUME NEW k \in DOMAIN stack', k # 1, Instant(stack'[k]) PROVE FALSE
  <2>1. k \notin 2..n  BY <1>2
  <2>2. k \in n+1..Len(stack') /\ k - n + d \in Nat  BY <1>1, <1>2, <2>1
  <2>3. k - n + d \in DOMAIN stack /\ stack'[k] = stack[k - n + d]
    BY <2>2 DEF Moves
  <2>4. k - n + d = 1  BY <1>2, <2>3 DEF Instantly
  <2>5. d = 0 /\ n # 0 /\ stack # <<>>
    <3>1. stack # <<>>  BY <1>1, <2>3
    <3>2. QED BY <1>1, <1>2, <2>2, <2>4, <3>1
  <2>6. Head(stack) = stack[1]  BY <2>5, TopFacts
  <2>7. QED BY <1>2, <2>3, <2>4, <2>5, <2>6
<1>3. QED BY <1>2 DEF Instantly

\* What is put on the stack, in the order it is put.
LEMMA InstantlyPuts ==
    ASSUME Instantly, StackTyped
    PROVE  /\ UNCHANGED stack => Instantly'
           /\ Drops => Instantly'
           /\ \A a : Puts1(a) => Instantly'
           /\ \A a : Covers1(a) /\ (stack = <<>> \/ ~Instant(Head(stack))) => Instantly'
           /\ \A a, b : Puts2(a, b) /\ ~Instant(b) => Instantly'
           /\ \A a, b : Covers2(a, b) /\ stack = <<>> /\ ~Instant(b) => Instantly'
           /\ \A a, b, c : Puts3(a, b, c) /\ ~Instant(b) /\ ~Instant(c) => Instantly'
           /\ \A a, b, c, d : Puts4(a, b, c, d) /\ ~Instant(b) /\ ~Instant(c) /\ ~Instant(d)
                => Instantly'
<1>1. UNCHANGED stack => Instantly'  BY DEF Instantly
<1>2. Drops => Instantly'
  <2>1. \A k \in 2..0 : ~Instant(stack'[k])  OBVIOUS
  <2>2. QED BY <2>1, InstantlyMoves DEF Drops
<1>3. \A a : Puts1(a) => Instantly'
  <2>1. \A k \in 2..1 : ~Instant(stack'[k])  OBVIOUS
  <2>2. QED BY <2>1, InstantlyMoves DEF Puts1
<1>4. \A a : Covers1(a) /\ (stack = <<>> \/ ~Instant(Head(stack))) => Instantly'
  <2>1. \A k \in 2..1 : ~Instant(stack'[k])  OBVIOUS
  <2>2. QED BY <2>1, InstantlyMoves DEF Covers1
<1>5. \A a, b : Puts2(a, b) /\ ~Instant(b) => Instantly'
  <2> SUFFICES ASSUME NEW a, NEW b, Puts2(a, b), ~Instant(b) PROVE Instantly'  OBVIOUS
  <2>1. \A k \in 2..2 : ~Instant(stack'[k])  BY DEF Puts2
  <2>2. QED BY <2>1, InstantlyMoves DEF Puts2
<1>6. \A a, b : Covers2(a, b) /\ stack = <<>> /\ ~Instant(b) => Instantly'
  <2> SUFFICES ASSUME NEW a, NEW b, Covers2(a, b), stack = <<>>, ~Instant(b) PROVE Instantly'  OBVIOUS
  <2>1. \A k \in 2..2 : ~Instant(stack'[k])  BY DEF Covers2
  <2>2. QED BY <2>1, InstantlyMoves DEF Covers2
<1>7. \A a, b, c : Puts3(a, b, c) /\ ~Instant(b) /\ ~Instant(c) => Instantly'
  <2> SUFFICES ASSUME NEW a, NEW b, NEW c, Puts3(a, b, c), ~Instant(b), ~Instant(c)
               PROVE Instantly'
    OBVIOUS
  <2>1. \A k \in 2..3 : ~Instant(stack'[k])  BY DEF Puts3
  <2>2. QED BY <2>1, InstantlyMoves DEF Puts3
<1>8. \A a, b, c, d : Puts4(a, b, c, d) /\ ~Instant(b) /\ ~Instant(c) /\ ~Instant(d)
        => Instantly'
  <2> SUFFICES ASSUME NEW a, NEW b, NEW c, NEW d, Puts4(a, b, c, d), ~Instant(b), ~Instant(c),
                      ~Instant(d)
               PROVE Instantly'
    OBVIOUS
  <2>1. \A k \in 2..4 : ~Instant(stack'[k])  BY DEF Puts4
  <2>2. QED BY <2>1, InstantlyMoves DEF Puts4
<1>9. QED BY <1>1, <1>2, <1>3, <1>4, <1>5, <1>6, <1>7, <1>8

\* The steps that may wait.
LEMMA NotInstant ==
    /\ \A i : /\ ~Instant(Step("submitted", i, "none")) /\ ~Instant(Back(i, "async"))
              /\ ~Instant(Step("peerClose", i, "none"))
    /\ ~Instant(CloseNow("nobufs")) /\ ~Instant(CloseNow("cancelled"))
    /\ ~Instant(At("flushOutput")) /\ ~Instant(At("peerClosed")) /\ ~Instant(At("destroy"))
    /\ ~Instant(At("release")) /\ ~Instant(At("flushWrites")) /\ ~Instant(At("updatePoll"))
    /\ ~Instant(At("activated")) /\ ~Instant(At("opened")) /\ ~Instant(At("feed"))
    /\ ~Instant(At("terminate")) /\ ~Instant(At("_finalizeClose")) /\ ~Instant(At("user"))
    /\ ~Instant(At("message")) /\ ~Instant(At("pong")) /\ ~Instant(At("reply"))
    /\ ~Instant(At("readAvailable")) /\ ~Instant(At("shutdownIfPending"))
    /\ ~Instant(At("processMemoryBIO"))
  BY DEF Instant, Immediate, Upcalls, Step, At, CloseNow, Back

\* A closing handshake ends a transport that has sent everything.
Handshakes == stack # <<>> /\ Head(stack).why = "handshake" => queue = <<>> /\ graceful

\* What comes to light when the step in progress is over.
LEMMA TopCalm ==
    ASSUME BaseInv, stack # <<>>,
           Head(stack).at \in {"user", "writing", "SSL_read"}
    PROVE  ~Instant(Head(stack))
  BY TopOn DEF Form, Instant, Immediate, Upcalls, CloseSteps

\* The events of a read can wait.
LEMMA ConsumeInstantly ==
    ASSUME BaseInv, Instantly, NEW d \in {0, 1}, stack # <<>>, d = 0 => ~Instant(Head(stack)),
           NEW rest, rest = Below(d), Consume(rest)
    PROVE  Instantly'
<1>1. PICK n \in Nat :
        /\ Moves(n, d)
        /\ \/ UNCHANGED <<parserClosing, closeSent>> /\ Events1(n)
           \/ ~parserClosing /\ parserClosing' /\ closeSent' /\ LastEvents(n)
  BY ConsumeMoves DEF BaseInv
<1>2. ASSUME Events1(n), NEW k \in 1..n PROVE ~Instant(stack'[k])
  BY <1>2, NotInstant DEF Events1
<1>3. ASSUME LastEvents(n), NEW k \in 1..n PROVE ~Instant(stack'[k])
  <2>1. CASE k = n  BY <1>3, <2>1 DEF LastEvents, Instant, Immediate, Upcalls
  <2>2. CASE k \in 1..n-1
    <3>1. stack'[k] \in {At("message"), At("pong"), At("reply")}
      BY <1>3, <2>2 DEF LastEvents
    <3>2. QED BY <3>1, NotInstant
  <2>3. QED BY <2>1, <2>2
<1>4. \A k \in 2..n : ~Instant(stack'[k])  BY <1>1, <1>2, <1>3
<1>5. StackTyped  BY DEF BaseInv, TypeInv
<1>6. QED BY <1>1, <1>4, <1>5, InstantlyMoves

\* No step puts anything on one that runs at once.
LEMMA InstantlyNext ==
    ASSUME BaseInv, Instantly, Handshakes, Next PROVE Instantly'
<1>a. TypeInv /\ StackTyped  BY DEF BaseInv, TypeInv
<1>b. Head(stack).at \in {"user", "writing", "SSL_read"} /\ stack # <<>> => ~Instant(Head(stack))
  BY TopCalm
<1>c. MayAct => stack = <<>> \/ ~Instant(Head(stack))  BY <1>b DEF MayAct, Top
<1>1. CASE UpdatePoll  BY <1>1, <1>a, UpdatePollMoves, InstantlyPuts
<1>2. CASE Submit
  <2>1. PICK i : i = Head(stack).on /\ (SubmitBehindOthers(i) \/ SubmitIdle(i) \/ Submitted(i))
    BY <1>2 DEF Submit
  <2>2. CASE SubmitBehindOthers(i)
    <3>1. i \in Nat  BY <2>1, <2>2, BehindOthersData
    <3>2. QED BY <1>a, <2>2, <3>1, BehindOthersMoves, InstantlyPuts, NotInstant
  <2>3. CASE SubmitIdle(i)
    <3>1. i \in Nat  BY <2>1, <2>3, SubmitIdleData
    <3>2. QED BY <1>a, <2>3, <3>1, SubmitIdleMoves, InstantlyPuts, NotInstant
  <2>4. CASE Submitted(i)
    <3>1. i \in Nat  BY <2>1, <2>4, SubmittedData
    <3>2. QED BY <1>a, <2>4, <3>1, SubmittedMoves, InstantlyPuts, NotInstant
  <2>5. QED BY <2>1, <2>2, <2>3, <2>4
<1>3. CASE FlushWrites  BY <1>3, <1>a, FlushWritesMoves, InstantlyPuts
<1>4. CASE Writing
  <2>1. ASSUME NEW m \in Nat, Sending(m) PROVE Instantly'
    <3>1. queue # <<>> /\ Wrote(m)  BY <2>1 DEF Sending
    <3>2. stack # <<>> /\ ~Instant(Head(stack))  BY <1>4, <1>b DEF Writing, Top
    <3>3. QED BY <1>a, <3>1, <3>2, WroteMoves, InstantlyPuts
  <2>2. QED BY <1>4, <1>a, <2>1, WritingMoves, InstantlyPuts
<1>5. CASE Feed
  <2>1. stack # <<>> /\ Tail(stack) = Below(1)  BY <1>5 DEF Feed, Top, Below
  <2>2. ASSUME Consume(Tail(stack)) PROVE Instantly'
    <3>1. PICK d, rest : d = 1 /\ rest = Tail(stack)  OBVIOUS
    <3>2. d \in {0, 1} /\ (d = 0 => ~Instant(Head(stack))) /\ rest = Below(d) /\ Consume(rest)
      BY <2>1, <2>2, <3>1
    <3>3. QED BY <2>1, <3>2, ConsumeInstantly
  <2>3. QED BY <1>5, <1>a, <2>2, FeedMoves, InstantlyPuts
<1>6. CASE Receive
  <2>1. stack # <<>> /\ Tail(stack) = Below(1)  BY <1>6 DEF Receive, Top, Below
  <2>2. ASSUME Consume(Tail(stack)) PROVE Instantly'
    <3>1. PICK d, rest : d = 1 /\ rest = Tail(stack)  OBVIOUS
    <3>2. d \in {0, 1} /\ (d = 0 => ~Instant(Head(stack))) /\ rest = Below(d) /\ Consume(rest)
      BY <2>1, <2>2, <3>1
    <3>3. QED BY <2>1, <3>2, ConsumeInstantly
  <2>3. QED BY <1>6, <1>a, <2>2, ReceiveMoves, InstantlyPuts
<1>7. CASE ProcessMemoryBIO
  BY <1>7, <1>a, ProcessMemoryBIOMoves, InstantlyPuts, NotInstant
<1>8. CASE ReadTLS
  <2>1. stack # <<>> /\ stack = Below(0) /\ ~Instant(Head(stack))
    BY <1>8, <1>b DEF ReadTLS, Top, Below
  <2>2. QED BY <1>8, <1>a, <2>1, ReadTLSMoves, InstantlyPuts, ConsumeInstantly
<1>9. CASE FlushOutput  BY <1>9, <1>a, FlushOutputMoves, InstantlyPuts
<1>10. CASE Dispatch  BY <1>10, <1>a, DispatchMoves, InstantlyPuts, NotInstant
<1>11. CASE PerformTLSShutdown  BY <1>11, <1>a, PerformTLSShutdownMoves, InstantlyPuts
<1>12. CASE BeginClose  BY <1>12, <1>a, BeginCloseMoves, InstantlyPuts
<1>13. CASE CancelWrite
  <2>1. stack # <<>> /\ Head(stack).at = "cancelWrites" /\ queue # <<>>  BY <1>13 DEF CancelWrite, Top
  <2>2. ~Instant(Head(stack))  BY <2>1 DEF Handshakes, Instant, Immediate, Upcalls
  <2>3. QED BY <1>13, <1>a, <2>2, CancelWriteMoves, InstantlyPuts
<1>14. CASE Closed  BY <1>14, <1>a, ClosedMoves, InstantlyPuts
<1>15. CASE Fail  BY <1>15, <1>a, FailMoves, InstantlyPuts, NotInstant
<1>16. CASE RequestDestroy  BY <1>16, <1>a, RequestDestroyMoves, InstantlyPuts, NotInstant
<1>17. CASE Destroy \/ Release  BY <1>17, <1>a, DestroyMoves, ReleaseMoves, InstantlyPuts
<1>18. CASE Activate  BY <1>18, <1>a, ActivateMoves, InstantlyPuts, NotInstant
<1>19. CASE OnPoll
  <2>1. PICK m \in Nat : /\ Moves(m, 0) /\ m >= 1 /\ stack'[m] = At("updatePoll")
                         /\ \A k \in 1..m : stack'[k] \in PollSteps
    BY <1>19, <1>a, OnPollMoves
  <2>2. \A a \in PollSteps : ~Instant(a)  BY NotInstant DEF PollSteps
  <2>3. \A k \in 2..m : ~Instant(stack'[k])  BY <2>1, <2>2
  <2>4. stack = <<>>  BY <1>19 DEF OnPoll
  <2>5. QED BY <1>a, <2>1, <2>3, <2>4, InstantlyMoves
<1>20. CASE OnPollError  BY <1>20, <1>a, OnPollErrorMoves, InstantlyPuts DEF OnPollError
<1>21. CASE OnPollClosed
  BY <1>21, <1>a, OnPollClosedMoves, InstantlyPuts, NotInstant DEF OnPollClosed
<1>22. CASE Activated  BY <1>22, <1>a, ActivatedMoves, InstantlyPuts, NotInstant
<1>23. CASE Opened  BY <1>23, <1>a, OpenedMoves, InstantlyPuts, NotInstant
<1>24. CASE FromNative
  <2>1. \/ Drops \/ Puts1(At("user")) \/ Puts1(At("uncaught")) \/ Puts1(At("_finalizeClose"))
    BY <1>24, <1>a, FromNativeMoves DEF Runs
  <2>2. QED BY <1>a, <2>1, InstantlyPuts
<1>25. CASE FinishNativeWrite  BY <1>25, <1>a, FinishNativeWriteMoves, InstantlyPuts
<1>26. CASE FailWebSocket  BY <1>26, <1>a, FailWebSocketMoves, InstantlyPuts, NotInstant
<1>27. CASE Terminate  BY <1>27, <1>a, TerminateMoves, InstantlyPuts, NotInstant
<1>28. CASE FinalizeClose  BY <1>28, <1>a, FinalizeCloseMoves, InstantlyPuts, NotInstant
<1>29. CASE UserReturns  BY <1>29, <1>a, UserReturnsMoves, InstantlyPuts
<1>30. CASE NodeSocketClosed
  BY <1>30, <1>a, NodeSocketClosedMoves, InstantlyPuts DEF NodeSocketClosed
<1>31. CASE RunScheduled  BY <1>31, <1>a, RunScheduledMoves, InstantlyPuts DEF RunScheduled
<1>32. CASE CloseTimeout  BY <1>32, <1>a, CloseTimeoutMoves, InstantlyPuts DEF CloseTimeout
<1>33. CASE AbortUpgrade
  BY <1>33, <1>a, AbortUpgradeMoves, InstantlyPuts, NotInstant DEF AbortUpgrade
<1>34. CASE Send  BY <1>34, <1>a, <1>c, SendData, InstantlyPuts DEF Send
<1>35. CASE Close  BY <1>35, <1>a, <1>c, CloseMoves, InstantlyPuts DEF Close
<1>36. CASE UserTerminate  BY <1>36, <1>a, <1>c, UserTerminateMoves, InstantlyPuts DEF UserTerminate
<1>37. QED
  BY <1>1, <1>2, <1>3, <1>4, <1>5, <1>6, <1>7, <1>8, <1>9, <1>10, <1>11, <1>12, <1>13, <1>14,
     <1>15, <1>16, <1>17, <1>18, <1>19, <1>20, <1>21, <1>22, <1>23, <1>24, <1>25, <1>26, <1>27,
     <1>28, <1>29, <1>30, <1>31, <1>32, <1>33, <1>34, <1>35, <1>36, NextNames
     DEF NativeNext, NativeStep, ScriptNext

\* What a step leaves on top of the stack: nothing that runs as soon as it lies there, a call
\* of the owner, a new request, a closing handshake, the request to destroy or to activate.
Calm == stack # <<>> => ~Instant(Head(stack))
Calls == stack # <<>> /\ Head(stack).at \in Upcalls /\ Head(stack).why # "handshake"
Submits ==
    /\ ~closing /\ UNCHANGED <<queue, pendingBytes, flushing, committed, closing, active, answers>>
    /\ \E kind \in Kinds, size \in Nat \ {0} : Adds(NewOne(kind, size))
    /\ stack' # <<>> /\ Head(stack') = Step("submit", NextRequest, "none")
Shakes == stack # <<>> /\ Head(stack).at \in CloseSteps /\ queue = <<>> /\ graceful
TopKinds ==
    \/ Calm' \/ Calls' \/ Submits \/ Shakes'
    \/ FinalizeClose /\ stack' # <<>> /\ Head(stack') = At("requestDestroy")
    \/ /\ NodeSocketClosed \/ RunScheduled
       /\ StillPending /\ stack = <<>>
       /\ stack' # <<>> /\ Head(stack') = At("activate")

\* The step in progress after one that puts some.
LEMMA NewTop ==
    ASSUME StackTyped
    PROVE  /\ \A a : Puts1(a) \/ Covers1(a) => stack' # <<>> /\ Head(stack') = a
           /\ \A a, b : Puts2(a, b) \/ Covers2(a, b) => stack' # <<>> /\ Head(stack') = a
           /\ \A a, b, c : Puts3(a, b, c) => stack' # <<>> /\ Head(stack') = a
           /\ \A a, b, c, d : Puts4(a, b, c, d) => stack' # <<>> /\ Head(stack') = a
<1>1. ASSUME NEW n, NEW d, Moves(n, d), 1 \in DOMAIN stack' PROVE stack' # <<>> /\ Head(stack') = stack'[1]
  <2>1. stack' \in Seq(Steps)  BY <1>1 DEF Moves
  <2>2. stack' # <<>>  BY <1>1
  <2>3. QED BY <2>1, <2>2, HeadTailProperties
<1>2. QED BY <1>1 DEF Puts1, Covers1, Puts2, Covers2, Puts3, Puts4

\* When the step in progress is over.
LEMMA CalmDrops == ASSUME StackTyped, Instantly, stack # <<>>, Drops PROVE Calm'
<1> SUFFICES ASSUME stack' # <<>> PROVE ~Instant(Head(stack'))  BY DEF Calm
<1>1. stack' \in Seq(Steps)  BY DEF Drops, Moves
<1>2. Head(stack') = stack'[1] /\ 1 \in 1..Len(stack')
  BY <1>1, HeadTailProperties, LenProperties, EmptySeq
<1>3. 2 \in DOMAIN stack /\ stack'[1] = stack[2]
  BY <1>2 DEF Drops, Moves
<1>4. QED BY <1>2, <1>3 DEF Instantly

\* When what takes its place can wait.
LEMMA CalmPuts ==
    ASSUME StackTyped
    PROVE  /\ \A a : (Puts1(a) \/ Covers1(a)) /\ ~Instant(a) => Calm'
           /\ \A a, b : (Puts2(a, b) \/ Covers2(a, b)) /\ ~Instant(a) => Calm'
           /\ \A a, b, c : Puts3(a, b, c) /\ ~Instant(a) => Calm'
           /\ \A a, b, c, d : Puts4(a, b, c, d) /\ ~Instant(a) => Calm'
  BY NewTop DEF Calm

\* When it is a call to JavaScript.
LEMMA CallsPuts ==
    ASSUME StackTyped, NEW name \in Upcalls, NEW on, NEW why, why # "handshake"
    PROVE  /\ Puts1(Step(name, on, why)) \/ Covers1(Step(name, on, why)) => Calls'
           /\ \A b : Puts2(Step(name, on, why), b) \/ Covers2(Step(name, on, why), b) => Calls'
           /\ \A b, c : Puts3(Step(name, on, why), b, c) => Calls'
<1>1. Step(name, on, why).at = name /\ Step(name, on, why).why = why  BY DEF Step
<1>2. QED BY <1>1, NewTop DEF Calls

\* When it is what backpressure leads to.
LEMMA Told ==
    ASSUME StackTyped
    PROVE  /\ Puts1(At("_onNativeMessage")) => Calls'
           /\ \A b : Puts2(At("_onNativeTransportError"), b) => Calls'
           /\ \A b : Puts2(At("_onNativeBackpressure"), b) => Calls'
           /\ \A b, c : Puts3(At("_onNativeBackpressure"), b, c) => Calls'
           /\ \A b : Covers2(At("_onNativeClosed"), b) => Calls'
  BY CallsPuts DEF At, Upcalls

\* When it is a new request.
LEMMA SubmitsPuts ==
    ASSUME BaseInv, ~closing, UNCHANGED <<queue, pendingBytes, flushing, committed, closing, active, answers>>,
           NEW kind \in Kinds, NEW size \in Nat \ {0}, Adds(NewOne(kind, size)),
           NEW b,
           \/ Puts1(Step("submit", NextRequest, "none")) \/ Covers1(Step("submit", NextRequest, "none"))
           \/ Puts2(Step("submit", NextRequest, "none"), b)
    PROVE  Submits
<1>1. stack' # <<>> /\ Head(stack') = Step("submit", NextRequest, "none")
  BY NewTop DEF BaseInv, TypeInv
<1>2. QED BY <1>1 DEF Submits

\* When events were read.
LEMMA ConsumeCalm ==
    ASSUME BaseInv, Instantly, NEW d \in {0, 1}, stack # <<>>, d = 0 => ~Instant(Head(stack)),
           NEW rest, rest = Below(d), Consume(rest)
    PROVE  Calm'
<1>1. PICK n \in Nat :
        /\ Moves(n, d)
        /\ \/ UNCHANGED <<parserClosing, closeSent>> /\ Events1(n)
           \/ ~parserClosing /\ parserClosing' /\ closeSent' /\ LastEvents(n)
  BY ConsumeMoves DEF BaseInv
<1>2. ASSUME Events1(n), NEW k \in 1..n PROVE ~Instant(stack'[k])
  BY <1>2, NotInstant DEF Events1
<1>3. ASSUME LastEvents(n), NEW k \in 1..n PROVE ~Instant(stack'[k])
  <2>1. CASE k = n  BY <1>3, <2>1 DEF LastEvents, Instant, Immediate, Upcalls
  <2>2. CASE k \in 1..n-1
    <3>1. stack'[k] \in {At("message"), At("pong"), At("reply")}
      BY <1>3, <2>2 DEF LastEvents
    <3>2. QED BY <3>1, NotInstant
  <2>3. QED BY <2>1, <2>2
<1>4. StackTyped  BY DEF BaseInv, TypeInv
<1>5. CASE n = 0 /\ d = 1  BY <1>1, <1>4, <1>5, CalmDrops DEF Drops
<1>6. CASE n > 0 \/ d = 0
  <2>1. stack' \in Seq(Steps) /\ Len(stack') \in Nat /\ Len(stack) \in Nat
        /\ Len(stack') = n + Len(stack) - d /\ stack \in Seq(Steps)
    BY <1>1, <1>4, LenProperties DEF Moves, StackTyped
  <2>2. stack # <<>> /\ Head(stack) = stack[1] /\ 1 \in DOMAIN stack /\ Len(stack) >= 1
    BY <1>4, TopFacts
  <2>3. CASE n > 0
    <3>1. ~Instant(stack'[1])  BY <1>1, <1>2, <1>3, <2>3
    <3>2. stack' # <<>> => Head(stack') = stack'[1]  BY <2>1, HeadTailProperties
    <3>3. QED BY <3>1, <3>2 DEF Calm
  <2>4. CASE n = 0 /\ d = 0
    <3>1. 1 \in 1..Len(stack')  BY <2>1, <2>2, <2>4
    <3>2. stack'[1] = stack[1]  BY <1>1, <2>4, <3>1 DEF Moves
    <3>3. stack' # <<>> => Head(stack') = stack'[1]  BY <2>1, HeadTailProperties
    <3>4. QED BY <2>2, <2>4, <3>2, <3>3 DEF Calm
  <2>5. QED BY <1>1, <1>6, <2>3, <2>4
<1>7. QED BY <1>1, <1>5, <1>6

\* When the stack is unchanged.
LEMMA SameTop ==
    ASSUME UNCHANGED stack, stack = <<>> \/ ~Instant(Head(stack)) PROVE Calm'
  BY DEF Calm

\* What the step in progress after a step may be.
LEMMA TopNext ==
    ASSUME BaseInv, Instantly, Handshakes, Next PROVE TopKinds
<1>a. TypeInv /\ StackTyped  BY DEF BaseInv, TypeInv
<1>b. Head(stack).at \in {"user", "writing", "SSL_read"} /\ stack # <<>> => ~Instant(Head(stack))
  BY TopCalm
<1>c. MayAct => stack = <<>> \/ ~Instant(Head(stack))  BY <1>b DEF MayAct, Top
<1>d. \A i : Instant(Back(i, "error")) = FALSE /\ Instant(Back(i, "sync")) = FALSE
  BY DEF Instant, Back, Step, Immediate, Upcalls
<1>1. CASE UpdatePoll  BY <1>1, <1>a, UpdatePollMoves, CalmDrops DEF TopKinds, UpdatePoll, Top
<1>2. CASE Submit
  <2>0. stack # <<>>  BY <1>2 DEF Submit
  <2>1. PICK i : i = Head(stack).on /\ (SubmitBehindOthers(i) \/ SubmitIdle(i) \/ Submitted(i))
    BY <1>2 DEF Submit
  <2>2. CASE SubmitBehindOthers(i)
    <3>1. i \in Nat  BY <2>1, <2>2, BehindOthersData
    <3>2. Calm' \/ Calls'
      BY <1>a, <2>0, <2>2, <3>1, BehindOthersMoves, CalmDrops, CalmPuts, Told, NotInstant
    <3>3. QED BY <3>2 DEF TopKinds
  <2>3. CASE SubmitIdle(i)
    <3>1. i \in Nat  BY <2>1, <2>3, SubmitIdleData
    <3>2. QED BY <1>a, <2>3, <3>1, SubmitIdleMoves, CalmPuts, NotInstant DEF TopKinds
  <2>4. CASE Submitted(i)
    <3>1. i \in Nat  BY <2>1, <2>4, SubmittedData
    <3>2. Calm' \/ Calls'
      BY <1>a, <1>d, <2>0, <2>4, <3>1, SubmittedMoves, CalmDrops, CalmPuts, Told, NotInstant
    <3>3. QED BY <3>2 DEF TopKinds
  <2>5. QED BY <2>1, <2>2, <2>3, <2>4
<1>e. /\ ~Instant(At("fail")) /\ ~Instant(At("writing")) /\ ~Instant(At("performTLSShutdown"))
      /\ ~Instant(At("SSL_read")) /\ ~Instant(At("uncaught")) /\ ~Instant(At("_fail"))
  BY DEF Instant, Immediate, Upcalls, At, Step
<1>3. CASE FlushWrites
  BY <1>3, <1>a, <1>e, FlushWritesMoves, CalmDrops, CalmPuts DEF TopKinds, FlushWrites, Top
<1>4. CASE Writing
  <2>0. stack # <<>> /\ ~Instant(Head(stack))  BY <1>4, <1>b DEF Writing, Top
  <2>1. ASSUME NEW m \in Nat, Sending(m) PROVE Calm' \/ Calls'
    <3>1. queue # <<>> /\ Wrote(m)  BY <2>1 DEF Sending
    <3>2. \/ Covers1(Step("writeCallback", First, "ok")) \/ UNCHANGED stack
      BY <1>a, <3>1, WroteMoves
    <3>3. First \in Nat /\ "writeCallback" \in Upcalls  BY <3>1, QueueFacts DEF Upcalls
    <3>4. QED BY <1>a, <2>0, <3>2, <3>3, CallsPuts, SameTop
  <2>2. Calm' \/ Calls'
    BY <1>4, <1>a, <1>e, <2>0, <2>1, WritingMoves, CalmDrops, CalmPuts
  <2>3. QED BY <2>2 DEF TopKinds
<1>f. ASSUME stack # <<>>, Consume(Tail(stack)) PROVE Calm'
  <2>1. PICK d, rest : d = 1 /\ rest = Tail(stack)  OBVIOUS
  <2>2. d \in {0, 1} /\ (d = 0 => ~Instant(Head(stack))) /\ rest = Below(d) /\ Consume(rest)
    BY <1>f, <2>1 DEF Below
  <2>3. QED BY <1>f, <2>2, ConsumeCalm
<1>5. CASE Feed
  <2>1. stack # <<>>  BY <1>5 DEF Feed, Top
  <2>3. QED BY <1>5, <1>a, <1>f, <2>1, FeedMoves, CalmDrops DEF TopKinds
<1>6. CASE Receive
  <2>1. stack # <<>>  BY <1>6 DEF Receive, Top
  <2>2. ~Instant(CloseNow("cancelled")) /\ ~Instant(At("processMemoryBIO"))  BY NotInstant
  <2>3. Calm'  BY <1>6, <1>a, <1>e, <1>f, <2>1, <2>2, ReceiveMoves, CalmDrops, CalmPuts
  <2>4. QED BY <2>3 DEF TopKinds
<1>7. CASE ProcessMemoryBIO
  <2>1. stack # <<>>  BY <1>7 DEF ProcessMemoryBIO, Top
  <2>2. Calm'
    BY <1>7, <1>a, <1>e, <2>1, ProcessMemoryBIOMoves, CalmDrops, CalmPuts, NotInstant
  <2>3. QED BY <2>2 DEF TopKinds
<1>8. CASE ReadTLS
  <2>1. stack # <<>> /\ stack = Below(0) /\ ~Instant(Head(stack))
    BY <1>8, <1>b DEF ReadTLS, Top, Below
  <2>2. Consume(stack) => Calm'  BY <2>1, ConsumeCalm
  <2>3. ~Instant(CloseNow("cancelled"))  BY NotInstant
  <2>4. Calm'  BY <1>8, <1>a, <1>e, <2>1, <2>2, <2>3, ReadTLSMoves, CalmDrops, CalmPuts
  <2>5. QED BY <2>4 DEF TopKinds
<1>9. CASE FlushOutput
  BY <1>9, <1>a, <1>e, FlushOutputMoves, CalmDrops, CalmPuts DEF TopKinds, FlushOutput, Top
<1>10. CASE Dispatch
  <2>0. stack # <<>>  BY <1>10 DEF Dispatch
  <2>1. CASE Drops  BY <1>a, <2>0, <2>1, CalmDrops DEF TopKinds
  <2>2. CASE Puts1(At("_onNativeMessage"))  BY <1>a, <2>2, Told DEF TopKinds
  <2>3. CASE /\ Head(stack).at \in Owned /\ ~closing
             /\ requests' = NewRequest(Head(stack).at, 1)
             /\ Puts1(Step("submit", NextRequest, "none"))
    <3>1. requests \in Seq(Requests) /\ Head(stack).at \in Kinds /\ 1 \in Nat \ {0}
      BY <1>a, <2>3 DEF TypeInv, Kinds
    <3>2. Adds(NewOne(Head(stack).at, 1))  BY <2>3, <3>1, AddsNew
    <3>3. UNCHANGED <<queue, pendingBytes, flushing, committed, closing, active>>
      BY <1>10 DEF Dispatch, handleVars, tlsVars
    <3>4. UNCHANGED answers  BY <1>10, <2>0, AnswersNext, <2>3
          DEF FromNative, FinishNativeWrite, Top, Owned
    <3>5. QED BY <2>3, <3>1, <3>2, <3>3, <3>4, SubmitsPuts DEF TopKinds
  <2>4. CASE Puts2(Step("_onNativeClose", Head(stack).on, "none"), At("peerClosed"))
    BY <1>a, <2>4, CallsPuts DEF TopKinds, Upcalls
  <2>5. CASE Puts1(At("performTLSShutdown"))  BY <1>a, <1>e, <2>5, CalmPuts DEF TopKinds
  <2>6. QED BY <1>10, <1>a, <2>1, <2>2, <2>3, <2>4, <2>5, DispatchMoves
<1>11. CASE PerformTLSShutdown
  <2>0. stack # <<>>  BY <1>11 DEF PerformTLSShutdown, Top
  <2>1. CASE Puts1(CloseNow("handshake")) /\ ShutdownDue
    <3>1. stack' # <<>> /\ Head(stack') = CloseNow("handshake")  BY <1>a, <2>1, NewTop
    <3>2. UNCHANGED <<queue, graceful>>  BY <1>11 DEF PerformTLSShutdown, writeVars, peerVars
    <3>3. queue = <<>> /\ graceful  BY <2>1 DEF ShutdownDue
    <3>4. Shakes'  BY <3>1, <3>2, <3>3 DEF Shakes, CloseNow, Step, CloseSteps
    <3>5. QED BY <3>4 DEF TopKinds
  <2>2. CASE Drops  BY <1>a, <2>0, <2>2, CalmDrops DEF TopKinds
  <2>3. CASE Puts1(At("fail")) \/ Puts1(CloseNow("cancelled"))
    BY <1>a, <1>e, <2>3, CalmPuts, NotInstant DEF TopKinds
  <2>4. QED BY <1>11, <1>a, <2>1, <2>2, <2>3, PerformTLSShutdownMoves
<1>12. CASE BeginClose
  <2>0. stack # <<>> /\ Head(stack).at = "closeNow"  BY <1>12 DEF BeginClose, Top
  <2>1. CASE closing  BY <1>12, <1>a, <2>0, <2>1, BeginCloseMoves, CalmDrops DEF TopKinds
  <2>2. CASE ~closing
    <3>1. Puts1(Step("cancelWrites", 0, Head(stack).why))  BY <1>12, <1>a, <2>2, BeginCloseMoves
    <3>2. CASE Head(stack).why = "handshake"
      <4>1. queue = <<>> /\ graceful  BY <2>0, <3>2 DEF Handshakes
      <4>2. UNCHANGED <<queue, graceful>>  BY <1>12 DEF BeginClose, writeVars, peerVars
      <4>3. stack' # <<>> /\ Head(stack').at = "cancelWrites"  BY <1>a, <3>1, NewTop DEF Step
      <4>4. Shakes'  BY <4>1, <4>2, <4>3 DEF Shakes, CloseSteps
      <4>5. QED BY <4>4 DEF TopKinds
    <3>3. CASE Head(stack).why # "handshake"
      <4>1. ~Instant(Step("cancelWrites", 0, Head(stack).why))
        BY <3>3 DEF Instant, Step, Immediate, Upcalls
      <4>2. QED BY <1>a, <3>1, <4>1, CalmPuts DEF TopKinds
    <3>4. QED BY <3>2, <3>3
  <2>3. QED BY <2>1, <2>2
<1>13. CASE CancelWrite
  <2>1. stack # <<>> /\ Head(stack).at = "cancelWrites" /\ queue # <<>>  BY <1>13 DEF CancelWrite, Top
  <2>2. ~Instant(Head(stack))  BY <2>1 DEF Handshakes, Instant, Immediate, Upcalls
  <2>3. PICK w : w = (IF Head(stack).why = "nobufs" THEN "nobufs" ELSE "error")  OBVIOUS
  <2>4. Covers1(Step("writeCallback", First, w)) \/ UNCHANGED stack
    BY <1>13, <1>a, <2>3, CancelWriteMoves
  <2>5. w # "handshake" /\ "writeCallback" \in Upcalls  BY <2>3 DEF Upcalls
  <2>6. Calls' \/ Calm'  BY <1>a, <2>2, <2>4, <2>5, CallsPuts, SameTop
  <2>7. QED BY <2>6 DEF TopKinds
<1>14. CASE Closed  BY <1>14, <1>a, ClosedMoves, CalmDrops DEF TopKinds, Closed, Top
<1>15. CASE Fail
  <2>1. stack # <<>>  BY <1>15 DEF Fail, Top
  <2>2. Calm' \/ Calls'  BY <1>15, <1>a, <2>1, FailMoves, CalmDrops, Told
  <2>3. QED BY <2>2 DEF TopKinds
<1>16. CASE RequestDestroy
  <2>1. stack # <<>>  BY <1>16 DEF RequestDestroy, Top
  <2>2. Calm'
    BY <1>16, <1>a, <2>1, RequestDestroyMoves, CalmDrops, CalmPuts, NotInstant
  <2>3. QED BY <2>2 DEF TopKinds
<1>17. CASE Destroy \/ Release
  BY <1>17, <1>a, DestroyMoves, ReleaseMoves, CalmDrops DEF TopKinds, Destroy, Release, Top
<1>18. CASE Activate
  <2>2. Calm'  BY <1>18, <1>a, ActivateMoves, CalmPuts, NotInstant
  <2>3. QED BY <2>2 DEF TopKinds
<1>19. CASE OnPoll
  <2>1. PICK m \in Nat : /\ Moves(m, 0) /\ m >= 1 /\ stack'[m] = At("updatePoll")
                         /\ \A k \in 1..m : stack'[k] \in PollSteps
    BY <1>19, <1>a, OnPollMoves
  <2>2. \A a \in PollSteps : ~Instant(a)  BY NotInstant DEF PollSteps
  <2>3. ~Instant(stack'[1])  BY <2>1, <2>2
  <2>4. stack' # <<>> => Head(stack') = stack'[1]
    BY <2>1, HeadTailProperties DEF Moves
  <2>5. QED BY <2>3, <2>4 DEF TopKinds, Calm
<1>20. CASE OnPollError  BY <1>20, <1>a, <1>e, OnPollErrorMoves, CalmPuts DEF TopKinds
<1>21. CASE OnPollClosed  BY <1>21, <1>a, OnPollClosedMoves, Told DEF TopKinds
<1>22. CASE Activated
  <2>1. CASE Puts1(At("_fail"))  BY <1>a, <1>e, <2>1, CalmPuts DEF TopKinds
  <2>2. CASE /\ ~closing /\ requests' = NewRequest("response", 1)
             /\ Puts2(Step("submit", NextRequest, "none"), At("opened"))
    <3>1. requests \in Seq(Requests) /\ "response" \in Kinds /\ 1 \in Nat \ {0}
      BY <1>a DEF TypeInv, Kinds
    <3>2. Adds(NewOne("response", 1))  BY <2>2, <3>1, AddsNew
    <3>3. UNCHANGED <<queue, pendingBytes, flushing, committed, closing, active, answers>>
      BY <1>22 DEF Activated, handleVars, tlsVars
    <3>4. QED BY <2>2, <3>1, <3>2, <3>3, SubmitsPuts DEF TopKinds
  <2>3. QED BY <1>22, <1>a, <2>1, <2>2, ActivatedMoves
<1>23. CASE Opened
  <2>1. stack # <<>>  BY <1>23 DEF Opened, Top
  <2>2. Calm'  BY <1>23, <1>a, <2>1, OpenedMoves, CalmDrops, CalmPuts, NotInstant
  <2>3. QED BY <2>2 DEF TopKinds
<1>24. CASE FromNative
  <2>0. stack # <<>>  BY <1>24 DEF FromNative
  <2>1. \/ Drops \/ Puts1(At("user")) \/ Puts1(At("uncaught")) \/ Puts1(At("_finalizeClose"))
    BY <1>24, <1>a, FromNativeMoves DEF Runs
  <2>2. Calm'  BY <1>a, <1>e, <2>0, <2>1, CalmDrops, CalmPuts, NotInstant
  <2>3. QED BY <2>2 DEF TopKinds
<1>25. CASE FinishNativeWrite
  <2>1. stack # <<>>  BY <1>25 DEF FinishNativeWrite, Top
  <2>2. Calm'  BY <1>25, <1>a, <1>e, <2>1, FinishNativeWriteMoves, CalmDrops, CalmPuts
  <2>3. QED BY <2>2 DEF TopKinds
<1>26. CASE FailWebSocket
  <2>1. stack # <<>>  BY <1>26 DEF FailWebSocket, Top
  <2>2. Calm'  BY <1>26, <1>a, <1>e, <2>1, FailWebSocketMoves, CalmDrops, CalmPuts, NotInstant
  <2>3. QED BY <2>2 DEF TopKinds
<1>27. CASE Terminate
  <2>1. stack # <<>>  BY <1>27 DEF Terminate, Top
  <2>2. Calm'  BY <1>27, <1>a, <2>1, TerminateMoves, CalmDrops, CalmPuts, NotInstant
  <2>3. QED BY <2>2 DEF TopKinds
<1>28. CASE FinalizeClose
  <2>1. stack # <<>>  BY <1>28 DEF FinalizeClose, Top
  <2>2. Calm' \/ (stack' # <<>> /\ Head(stack') = At("requestDestroy"))
    BY <1>28, <1>a, <2>1, FinalizeCloseMoves, CalmDrops, NewTop
  <2>3. QED BY <1>28, <2>2 DEF TopKinds
<1>29. CASE UserReturns  BY <1>29, <1>a, UserReturnsMoves, CalmDrops DEF TopKinds, UserReturns, Top
<1>30. CASE NodeSocketClosed
  <2>1. stack = <<>>  BY <1>30 DEF NodeSocketClosed
  <2>2. CASE UNCHANGED stack  BY <2>1, <2>2, SameTop DEF TopKinds
  <2>3. CASE Covers1(At("activate")) /\ StillPending
    BY <1>30, <1>a, <2>1, <2>3, NewTop DEF TopKinds
  <2>4. CASE Covers1(At("_finalizeClose"))
    BY <1>a, <2>4, CalmPuts, NotInstant DEF TopKinds
  <2>5. QED BY <1>30, <1>a, <2>2, <2>3, <2>4, NodeSocketClosedMoves DEF StillPending
<1>31. CASE RunScheduled
  <2>1. stack = <<>>  BY <1>31 DEF RunScheduled
  <2>3. CASE Covers1(At("activate")) /\ StillPending
    BY <1>31, <1>a, <2>1, <2>3, NewTop DEF TopKinds
  <2>4. CASE Covers1(At("_finalizeClose"))
    BY <1>a, <2>4, CalmPuts, NotInstant DEF TopKinds
  <2>5. QED BY <1>31, <1>a, <2>3, <2>4, RunScheduledMoves
<1>32. CASE CloseTimeout
  <2>1. ~Instant(CloseNow("cancelled"))  BY NotInstant
  <2>2. QED BY <1>32, <1>a, <2>1, CloseTimeoutMoves, CalmPuts DEF TopKinds
<1>33. CASE AbortUpgrade
  <2>1. ~Instant(CloseNow("cancelled"))  BY NotInstant
  <2>2. Calm'  BY <1>33, <1>a, <2>1, AbortUpgradeMoves, CalmPuts
  <2>3. QED BY <2>2 DEF TopKinds
<1>34. CASE Send
  <2>1. PICK size \in Nat \ {0} :
                IF writable
                  THEN /\ Adds(NewOne("app", size)) /\ NewOne("app", size) \in Requests
                       /\ Covers1(Step("submit", NextRequest, "none"))
                  ELSE /\ Adds(Refused(size)) /\ Refused(size) \in Requests
                       /\ Covers1(Step("_finishNativeWrite", NextRequest, "error"))
    BY <1>34, SendData
  <2>2. CASE writable
    <3>1. ~closing /\ "app" \in Kinds  BY <2>2 DEF writable, Kinds
    <3>2. UNCHANGED <<queue, pendingBytes, flushing, committed, closing, active, answers>>
      BY <1>34, SendData DEF Send, handleVars
    <3>3. QED BY <2>1, <2>2, <3>1, <3>2, SubmitsPuts DEF TopKinds
  <2>3. CASE ~writable
    <3>1. ~Instant(Step("_finishNativeWrite", NextRequest, "error"))
      BY DEF Instant, Step, Immediate, Upcalls
    <3>2. QED BY <1>a, <2>1, <2>3, <3>1, CalmPuts DEF TopKinds
  <2>4. QED BY <2>2, <2>3
<1>35. CASE Close
  <2>1. CASE MayWriteClose
    <3>1. requests' = NewRequest("close", 1) /\ Covers1(Step("submit", NextRequest, "none"))
      BY <1>35, <1>a, <2>1, CloseMoves
    <3>2. requests \in Seq(Requests) /\ "close" \in Kinds /\ 1 \in Nat \ {0} /\ ~closing
      BY <1>a, <2>1 DEF TypeInv, Kinds, MayWriteClose, writable
    <3>3. Adds(NewOne("close", 1))  BY <3>1, <3>2, AddsNew
    <3>4. UNCHANGED <<queue, pendingBytes, flushing, committed, closing, active, answers>>
      BY <1>35, CloseData DEF Close, handleVars
    <3>5. QED BY <3>1, <3>2, <3>3, <3>4, SubmitsPuts DEF TopKinds
  <2>2. CASE ~MayWriteClose
    <3>1. UNCHANGED stack \/ Covers1(CloseNow("cancelled"))  BY <1>35, <1>a, <2>2, CloseMoves
    <3>2. ~Instant(CloseNow("cancelled"))  BY NotInstant
    <3>3. stack = <<>> \/ ~Instant(Head(stack))  BY <1>35, <1>c DEF Close
    <3>4. Calm'  BY <1>a, <3>1, <3>2, <3>3, SameTop, CalmPuts
    <3>5. QED BY <3>4 DEF TopKinds
  <2>3. QED BY <2>1, <2>2
<1>36. CASE UserTerminate
  <2>1. ~Instant(At("terminate"))  BY NotInstant
  <2>2. QED BY <1>36, <1>a, <2>1, UserTerminateMoves, CalmPuts DEF TopKinds
<1>37. QED
  BY <1>1, <1>2, <1>3, <1>4, <1>5, <1>6, <1>7, <1>8, <1>9, <1>10, <1>11, <1>12, <1>13, <1>14,
     <1>15, <1>16, <1>17, <1>18, <1>19, <1>20, <1>21, <1>22, <1>23, <1>24, <1>25, <1>26, <1>27,
     <1>28, <1>29, <1>30, <1>31, <1>32, <1>33, <1>34, <1>35, <1>36, NextNames
     DEF NativeNext, NativeStep, ScriptNext

\* A step in progress decides which action is next.
LEMMA SubmitIsNext ==
    ASSUME Next, stack # <<>>, Head(stack).at \in {"submit", "submitted"} PROVE Submit
<1>2. ~(UpdatePoll \/ FlushWrites \/ Writing \/ Feed \/ Receive \/ ProcessMemoryBIO \/ ReadTLS
        \/ FlushOutput \/ PerformTLSShutdown)
  BY DEF Top, UpdatePoll, FlushWrites, Writing, Feed, Receive, ProcessMemoryBIO, ReadTLS,
     FlushOutput, PerformTLSShutdown
<1>3. ~Dispatch  BY DEF Dispatch, Top, Owned
<1>4. ~(BeginClose \/ CancelWrite \/ Closed \/ Fail \/ RequestDestroy \/ Destroy \/ Release
        \/ Activate)
  BY DEF Top, BeginClose, CancelWrite, Closed, Fail, RequestDestroy, Destroy, Release, Activate
<1>5. ~(OnPoll \/ OnPollError \/ OnPollClosed \/ NodeSocketClosed \/ RunScheduled \/ CloseTimeout
        \/ AbortUpgrade)
  BY DEF OnPoll, OnPollError, OnPollClosed, NodeSocketClosed, RunScheduled, CloseTimeout, AbortUpgrade
<1>6. ~(Activated \/ Opened \/ FromNative \/ FinishNativeWrite \/ FailWebSocket \/ Terminate
        \/ FinalizeClose \/ UserReturns)
  BY DEF Top, Activated, Opened, FromNative, FinishNativeWrite, FailWebSocket, Terminate,
     FinalizeClose, UserReturns
<1>7. ~(Send \/ Close \/ UserTerminate)  BY DEF Send, Close, UserTerminate, MayAct, Top
<1>8. QED
  BY <1>2, <1>3, <1>4, <1>5, <1>6, <1>7, NextNames DEF NativeNext, NativeStep, ScriptNext

\* What a step does to the requests and the queue.
Stays == UNCHANGED <<requests, queue, pendingBytes>>
Enters(i) ==
    /\ Top("submit") /\ i = Head(stack).on /\ i \in DOMAIN requests /\ requests[i] \in Requests
    /\ Queues(i) /\ pendingBytes' = pendingBytes + requests[i].left /\ UNCHANGED flushing
    /\ \/ UNCHANGED requests /\ queue = <<>> /\ ~flushing
       \/ Edits(i, Deferred(requests[i])) /\ (queue # <<>> \/ flushing)
Waits(i) ==
    /\ Top("submitted") /\ i = Head(stack).on /\ ~closing /\ Contains(queue, i)
    /\ i \in DOMAIN requests /\ requests[i] \in Requests
    /\ Edits(i, Deferred(requests[i])) /\ UNCHANGED <<queue, pendingBytes>>
Refuses ==
    /\ ~writable /\ UNCHANGED <<queue, pendingBytes>>
    /\ \E size \in Nat \ {0} : Adds(Refused(size))
Changes ==
    \/ Stays \/ Submits \/ Refuses
    \/ \E i \in Nat : Enters(i) \/ Waits(i)
    \/ Writing /\ \E n \in Nat : Sending(n)
    \/ CancelWrite

\* Every step does one of these.
LEMMA ChangesNext == ASSUME BaseInv, Next PROVE Changes
<1>a. TypeInv /\ StackTyped  BY DEF BaseInv, TypeInv
<1>1. CASE QuietNative \/ QuietScript  BY <1>1, NativeQuiet, ScriptQuiet DEF Quiet, Changes, Stays
<1>2. CASE Submit
  <2>1. PICK i : i = Head(stack).on /\ (SubmitBehindOthers(i) \/ SubmitIdle(i) \/ Submitted(i))
    BY <1>2 DEF Submit
  <2>2. CASE SubmitBehindOthers(i)
    <3>1. Enters(i) /\ i \in Nat
      BY <2>1, <2>2, BehindOthersData DEF Enters, SubmitBehindOthers
    <3>2. QED BY <3>1 DEF Changes
  <2>3. CASE SubmitIdle(i)
    <3>1. Enters(i) /\ i \in Nat  BY <2>1, <2>3, SubmitIdleData DEF Enters, SubmitIdle
    <3>2. QED BY <3>1 DEF Changes
  <2>4. CASE Submitted(i)
    <3>1. Top("submitted")  BY <2>4 DEF Submitted
    <3>2. (Waits(i) \/ Stays) /\ i \in Nat  BY <2>1, <2>4, <3>1, SubmittedData DEF Waits, Stays
    <3>3. QED BY <3>2 DEF Changes
  <2>5. QED BY <2>1, <2>2, <2>3, <2>4
<1>3. CASE Writing
  <2>1. (\E n \in Nat : Sending(n)) \/ Stopping  BY <1>a, <1>3, WritingMoves
  <2>2. QED BY <1>3, <2>1 DEF Changes, Stopping, Stays
<1>4. CASE Dispatch
  <2>0. UNCHANGED <<queue, pendingBytes, flushing, committed>>  BY <1>4, DispatchData
  <2>1. CASE UNCHANGED requests  BY <2>0, <2>1 DEF Changes, Stays
  <2>2. CASE requests' # requests
    <3>1. /\ Head(stack).at \in Owned /\ ~closing /\ requests' = NewRequest(Head(stack).at, 1)
          /\ Puts1(Step("submit", NextRequest, "none"))
      BY <1>a, <1>4, <2>2, DispatchMoves
    <3>2. requests \in Seq(Requests) /\ Head(stack).at \in Kinds /\ 1 \in Nat \ {0}
      BY <1>a, <3>1 DEF TypeInv, Kinds
    <3>3. Adds(NewOne(Head(stack).at, 1))  BY <3>1, <3>2, AddsNew
    <3>4. UNCHANGED <<closing, active>>  BY <1>4 DEF Dispatch, handleVars
    <3>5. UNCHANGED answers  BY <1>4, <3>1, AnswersNext
          DEF Dispatch, FromNative, FinishNativeWrite, Top, Owned
    <3>6. QED BY <2>0, <3>1, <3>2, <3>3, <3>4, <3>5, SubmitsPuts DEF Changes
  <2>3. QED BY <2>1, <2>2
<1>5. CASE CancelWrite  BY <1>5 DEF Changes
<1>6. CASE Closed  BY <1>6 DEF Closed, writeVars, Changes, Stays
<1>7. CASE Activated
  <2>0. UNCHANGED <<queue, pendingBytes, flushing, committed, answers>>  BY <1>7, ActivatedData
  <2>1. CASE UNCHANGED requests  BY <2>0, <2>1 DEF Changes, Stays
  <2>2. CASE /\ ~closing /\ requests' = NewRequest("response", 1)
             /\ Puts2(Step("submit", NextRequest, "none"), At("opened"))
    <3>1. requests \in Seq(Requests) /\ "response" \in Kinds /\ 1 \in Nat \ {0}
      BY <1>a DEF TypeInv, Kinds
    <3>2. Adds(NewOne("response", 1))  BY <2>2, <3>1, AddsNew
    <3>3. UNCHANGED <<closing, active>>  BY <1>7 DEF Activated, handleVars
    <3>4. QED BY <2>0, <2>2, <3>1, <3>2, <3>3, SubmitsPuts DEF Changes
  <2>3. QED BY <1>7, <1>a, <2>1, <2>2, ActivatedMoves
<1>8. CASE FromNative \/ FinishNativeWrite  BY <1>8, AnswersData DEF Changes, Stays
<1>9. CASE Send
  <2>1. PICK size \in Nat \ {0} :
                IF writable
                  THEN /\ Adds(NewOne("app", size)) /\ NewOne("app", size) \in Requests
                       /\ Covers1(Step("submit", NextRequest, "none"))
                  ELSE /\ Adds(Refused(size)) /\ Refused(size) \in Requests
                       /\ Covers1(Step("_finishNativeWrite", NextRequest, "error"))
    BY <1>9, SendData
  <2>0. UNCHANGED <<queue, pendingBytes, flushing, committed, answers>>  BY <1>9, SendData
  <2>2. CASE writable
    <3>1. ~closing /\ "app" \in Kinds  BY <2>2 DEF writable, Kinds
    <3>2. UNCHANGED <<closing, active>>  BY <1>9 DEF Send, handleVars
    <3>3. QED BY <2>0, <2>1, <2>2, <3>1, <3>2, SubmitsPuts DEF Changes
  <2>3. CASE ~writable
    <3>1. Refuses  BY <2>0, <2>1, <2>3 DEF Refuses
    <3>2. QED BY <3>1 DEF Changes
  <2>4. QED BY <2>2, <2>3
<1>10. CASE Close
  <2>0. UNCHANGED <<queue, pendingBytes, flushing, committed, answers>>  BY <1>10, CloseData
  <2>1. CASE MayWriteClose
    <3>1. requests' = NewRequest("close", 1) /\ Covers1(Step("submit", NextRequest, "none"))
      BY <1>10, <1>a, <2>1, CloseMoves
    <3>2. requests \in Seq(Requests) /\ "close" \in Kinds /\ 1 \in Nat \ {0} /\ ~closing
      BY <1>a, <2>1 DEF TypeInv, Kinds, MayWriteClose, writable
    <3>3. Adds(NewOne("close", 1))  BY <3>1, <3>2, AddsNew
    <3>4. UNCHANGED <<closing, active>>  BY <1>10 DEF Close, handleVars
    <3>5. QED BY <2>0, <3>1, <3>2, <3>3, <3>4, SubmitsPuts DEF Changes
  <2>2. CASE ~MayWriteClose
    <3>1. UNCHANGED requests  BY <1>10, <2>2, CloseData
    <3>2. QED BY <2>0, <3>1 DEF Changes, Stays
  <2>3. QED BY <2>1, <2>2
<1>11. QED
  BY <1>1, <1>2, <1>3, <1>4, <1>5, <1>6, <1>7, <1>8, <1>9, <1>10, NextNames
     DEF NativeNext, NativeStep, ScriptNext, QuietNative, QuietScript

\* The rest of what was found to hold at the top of the stack.
LEMMA HandshakesNext == ASSUME BaseInv, Instantly, Handshakes, Next PROVE Handshakes'
<1> SUFFICES ASSUME stack' # <<>>, Head(stack').why = "handshake" PROVE queue' = <<>> /\ graceful'
  BY DEF Handshakes
<1>1. ~Calm'  BY DEF Calm, Instant
<1>2. ~Calls'  BY DEF Calls
<1>3. ~Submits  BY DEF Submits, Step
<1>4. Head(stack').at \notin {"requestDestroy", "activate"} \/ Head(stack').why = "handshake"
  OBVIOUS
<1>5. Shakes'
  BY <1>1, <1>2, <1>3, TopNext DEF TopKinds, At, Step
<1>6. QED BY <1>5 DEF Shakes

\* The closing handshake cancels nothing, since the queue is empty when it ends.
HandshakeDropsNothing == \A i \in DOMAIN requests : requests[i].outcome # "handshake"

\* HandshakeDropsNothing holds after every step.
LEMMA NoHandshakeNext ==
    ASSUME BaseInv, Handshakes, HandshakeDropsNothing, Next PROVE HandshakeDropsNothing'
<1> SUFFICES ASSUME NEW i \in DOMAIN requests', requests'[i].outcome = "handshake" PROVE FALSE
  BY DEF HandshakeDropsNothing
<1>0. \A j \in DOMAIN requests : requests[j].outcome # "handshake"  BY DEF HandshakeDropsNothing
<1>1. CASE Stays  BY <1>0, <1>1 DEF Stays
<1>2. CASE Submits
  <2>1. PICK kind \in Kinds, size \in Nat \ {0} : Adds(NewOne(kind, size))  BY <1>2 DEF Submits
  <2>2. QED BY <1>0, <2>1 DEF Adds, NewOne
<1>3. CASE Refuses  BY <1>0, <1>3 DEF Refuses, Adds, Refused
<1>4. ASSUME NEW m \in Nat, Enters(m) \/ Waits(m) PROVE FALSE
  <2>1. m \in DOMAIN requests /\ requests[m] \in Requests
        /\ (UNCHANGED requests \/ Edits(m, Deferred(requests[m])))
    BY <1>4 DEF Enters, Waits
  <2>2. Deferred(requests[m]).outcome = requests[m].outcome  BY <2>1 DEF Deferred, Requests
  <2>3. QED BY <1>0, <2>1, <2>2 DEF Edits
<1>5. ASSUME NEW n \in Nat, Sending(n) PROVE FALSE
  <2>1. First \in DOMAIN requests /\ requests[First] \in Requests /\ Edits(First, WrittenBy(requests[First], n))
    BY <1>5, SendingData
  <2>2. WrittenBy(requests[First], n).outcome \in {"sent", requests[First].outcome}
    BY <2>1 DEF WrittenBy, Requests
  <2>3. QED BY <1>0, <2>1, <2>2 DEF Edits
<1>6. CASE CancelWrite
  <2>1. /\ First \in DOMAIN requests /\ requests[First] \in Requests
        /\ Edits(First, EndedBy(requests[First], Head(stack).why))
    BY <1>6, CancelWriteData
  <2>2. EndedBy(requests[First], Head(stack).why).outcome = Head(stack).why
    BY <2>1 DEF EndedBy, Requests
  <2>3. Head(stack).why # "handshake"  BY <1>6 DEF CancelWrite, Top, Handshakes
  <2>4. QED BY <1>0, <2>1, <2>2, <2>3 DEF Edits
<1>7. QED BY <1>1, <1>2, <1>3, <1>4, <1>5, <1>6, ChangesNext DEF Changes

Queued(i) == \E k \in DOMAIN queue : queue[k] = i
Sorted == \A j, k \in DOMAIN queue : j < k => queue[j] < queue[k]
Sized == \A i \in DOMAIN requests : requests[i].left > 0 \/ requests[i].outcome = "sent"
AtSubmit ==
    stack # <<>> /\ Head(stack).at = "submit" =>
        /\ ~closing /\ Len(requests) \in DOMAIN requests /\ Head(stack).on = Len(requests)
        /\ requests[Len(requests)].outcome = "pending" /\ ~requests[Len(requests)].deferred
        /\ \A k \in DOMAIN queue : queue[k] < Len(requests)
Submitting(i) == stack # <<>> /\ Head(stack).at = "submit" /\ Head(stack).on = i
PendingIsQueued ==
    \A i \in DOMAIN requests : requests[i].outcome = "pending" <=> Queued(i) \/ Submitting(i)
QueueInv == Sorted /\ Sized /\ AtSubmit /\ PendingIsQueued
StackInv == BaseInv /\ Instantly /\ Handshakes

\* The indexes of the requests after each kind of change.
LEMMA RequestIndexes ==
    ASSUME BaseInv
    PROVE  /\ DOMAIN requests = 1..Len(requests) /\ Len(requests) \in Nat
           /\ DOMAIN queue = 1..Len(queue) /\ Len(queue) \in Nat
           /\ \A k \in DOMAIN queue : queue[k] \in DOMAIN requests
           /\ \A i \in DOMAIN requests : requests[i] \in Requests
  BY LenProperties, ElementOfSeq DEF BaseInv, TypeInv, Refers

\* A new step on top is a request's only when the request is new.
LEMMA NewSubmits ==
    ASSUME StackInv, Next, stack' # <<>>, Head(stack').at = "submit" PROVE Submits
<1>1. ~Calm' /\ ~Calls' /\ ~Shakes'
  BY DEF Calm, Instant, Immediate, Calls, Upcalls, Shakes, CloseSteps
<1>2. QED BY <1>1, TopNext DEF TopKinds, StackInv, At, Step

\* A request that is submitted is the last one, behind all others.
LEMMA AtSubmitNext == ASSUME StackInv, Next PROVE AtSubmit'
<1> SUFFICES ASSUME stack' # <<>>, Head(stack').at = "submit"
             PROVE  /\ ~closing' /\ Len(requests') \in DOMAIN requests' /\ Head(stack').on = Len(requests')
                    /\ requests'[Len(requests')].outcome = "pending"
                    /\ ~requests'[Len(requests')].deferred
                    /\ \A k \in DOMAIN queue' : queue'[k] < Len(requests')
  BY DEF AtSubmit
<1>1. Submits  BY NewSubmits
<1>2. PICK kind \in Kinds, size \in Nat \ {0} : Adds(NewOne(kind, size))  BY <1>1 DEF Submits
<1>3. ~closing' /\ UNCHANGED queue /\ Head(stack') = Step("submit", NextRequest, "none")
  BY <1>1 DEF Submits
<1>4. Len(requests') = NextRequest /\ Len(requests') \in DOMAIN requests'
      /\ requests'[Len(requests')] = NewOne(kind, size)
  BY <1>2 DEF Adds, NextRequest
<1>5. \A k \in DOMAIN queue' : queue'[k] < Len(requests')
  BY <1>3, <1>4, RequestIndexes DEF NextRequest, StackInv
<1>6. QED BY <1>3, <1>4, <1>5 DEF NewOne, Step

\* The cases of the three others.
LEMMA EntersTop ==
    ASSUME StackInv, QueueInv, Next, NEW i \in Nat, Enters(i)
    PROVE  /\ i = Len(requests) /\ i \in DOMAIN requests /\ \A k \in DOMAIN queue : queue[k] < i
           /\ requests[i].outcome = "pending" /\ ~requests[i].deferred /\ requests[i].left > 0
           /\ requests[i].left \in Nat /\ ~(\E j : Submitting(j)')
           /\ DOMAIN requests' = DOMAIN requests
           /\ \A j \in DOMAIN requests : /\ requests'[j].outcome = requests[j].outcome
                                         /\ requests'[j].left = requests[j].left
                                         /\ requests'[j].kind = requests[j].kind
<1>1. /\ i = Len(requests) /\ i \in DOMAIN requests /\ \A k \in DOMAIN queue : queue[k] < i
      /\ requests[i].outcome = "pending" /\ ~requests[i].deferred
  BY DEF Enters, Top, QueueInv, AtSubmit
<1>2. requests[i].left > 0 /\ requests[i].left \in Nat
  BY <1>1, RequestIndexes DEF QueueInv, Sized, StackInv, Requests
<1>3. /\ DOMAIN requests' = DOMAIN requests
      /\ \A j \in DOMAIN requests : /\ requests'[j].outcome = requests[j].outcome
                                    /\ requests'[j].left = requests[j].left
                                    /\ requests'[j].kind = requests[j].kind
  <2>1. CASE UNCHANGED requests  BY <2>1
  <2>2. CASE Edits(i, Deferred(requests[i]))
    <3>1. /\ Deferred(requests[i]).outcome = requests[i].outcome
          /\ Deferred(requests[i]).left = requests[i].left
          /\ Deferred(requests[i]).kind = requests[i].kind
      BY <1>1, RequestIndexes DEF Deferred, Requests, StackInv
    <3>2. QED BY <2>2, <3>1 DEF Edits
  <2>3. QED BY <2>1, <2>2 DEF Enters
<1>4. ASSUME NEW j, Submitting(j)' PROVE FALSE
  <2>1. Submits  BY <1>4, NewSubmits DEF Submitting
  <2>2. Len(requests') = Len(requests) + 1 /\ Len(requests) \in Nat
    BY <2>1, RequestIndexes DEF Submits, Adds, StackInv
  <2>3. Len(requests') = Len(requests)  BY DEF Enters, Edits
  <2>4. QED BY <2>2, <2>3
<1>5. QED BY <1>1, <1>2, <1>3, <1>4

\* Only what is submitted enters the queue.
LEMMA SubmitEnters ==
    ASSUME StackInv, Next, stack # <<>>, Head(stack).at = "submit" PROVE \E i \in Nat : Enters(i)
<1>1. Submit  BY SubmitIsNext
<1>2. PICK i : i = Head(stack).on /\ (SubmitBehindOthers(i) \/ SubmitIdle(i) \/ Submitted(i))
  BY <1>1 DEF Submit
<1>3. ~Submitted(i)  BY DEF Submitted, Top
<1>4. CASE SubmitBehindOthers(i)
  <2>1. Enters(i) /\ i \in Nat
    BY <1>2, <1>4, BehindOthersData DEF Enters, SubmitBehindOthers, StackInv
  <2>2. QED BY <2>1
<1>5. CASE SubmitIdle(i)
  <2>1. Enters(i) /\ i \in Nat  BY <1>2, <1>5, SubmitIdleData DEF Enters, SubmitIdle, StackInv
  <2>2. QED BY <2>1
<1>6. QED BY <1>2, <1>3, <1>4, <1>5

\* The queue stays in the order of the requests.
LEMMA SortedNext == ASSUME StackInv, QueueInv, Next PROVE Sorted'
<1>0. Sorted  BY DEF QueueInv
<1>1. CASE UNCHANGED queue  BY <1>0, <1>1 DEF Sorted
<1>2. ASSUME NEW i \in Nat, Enters(i) PROVE Sorted'
  <2>1. Queues(i) /\ \A k \in DOMAIN queue : queue[k] < i  BY <1>2, EntersTop DEF Enters
  <2>2. DOMAIN queue = 1..Len(queue) /\ Len(queue) \in Nat  BY RequestIndexes DEF StackInv
  <2>3. QED BY <1>0, <2>1, <2>2 DEF Sorted, Queues
<1>3. CASE Dequeues
  <2>2. DOMAIN queue = 1..Len(queue) /\ Len(queue) \in Nat  BY RequestIndexes DEF StackInv
  <2>1. DOMAIN queue' = 1..Len(queue')  BY <1>3, LenProperties DEF Dequeues
  <2>3. QED BY SMTT(30), <1>0, <1>3, <2>1, <2>2 DEF Sorted, Dequeues
<1>4. QED
  BY <1>1, <1>2, <1>3, ChangesNext, SendingData, CancelWriteData
     DEF Changes, Stays, Submits, Refuses, Waits, StackInv

\* A request that has nothing left was sent.
LEMMA SizedNext == ASSUME StackInv, QueueInv, Next PROVE Sized'
<1> SUFFICES ASSUME NEW i \in DOMAIN requests', requests'[i].outcome # "sent" PROVE requests'[i].left > 0
  BY DEF Sized
<1>0. \A j \in DOMAIN requests : requests[j].left > 0 \/ requests[j].outcome = "sent"
  BY DEF QueueInv, Sized
<1>1. CASE Stays  BY <1>0, <1>1 DEF Stays
<1>2. CASE Submits
  <2>1. PICK kind \in Kinds, size \in Nat \ {0} : Adds(NewOne(kind, size))  BY <1>2 DEF Submits
  <2>2. QED BY <1>0, <2>1 DEF Adds, NewOne
<1>3. CASE Refuses
  <2>1. PICK size \in Nat \ {0} : Adds(Refused(size))  BY <1>3 DEF Refuses
  <2>2. QED BY <1>0, <2>1 DEF Adds, Refused
<1>4. ASSUME NEW m \in Nat, Enters(m) PROVE requests'[i].left > 0
  BY <1>0, <1>4, EntersTop
<1>5. ASSUME NEW m \in Nat, Waits(m) PROVE requests'[i].left > 0
  <2>1. m \in DOMAIN requests /\ requests[m] \in Requests /\ Edits(m, Deferred(requests[m]))
    BY <1>5 DEF Waits
  <2>2. /\ Deferred(requests[m]).left = requests[m].left
        /\ Deferred(requests[m]).outcome = requests[m].outcome
    BY <2>1 DEF Deferred, Requests
  <2>3. QED BY <1>0, <2>1, <2>2 DEF Edits
<1>6. ASSUME NEW n \in Nat, Sending(n) PROVE requests'[i].left > 0
  <2>1. /\ First \in DOMAIN requests /\ requests[First] \in Requests /\ n <= requests[First].left
        /\ Edits(First, WrittenBy(requests[First], n))
    BY <1>6, SendingData DEF StackInv
  <2>2. CASE i = First
    <3>1. requests'[i] = WrittenBy(requests[First], n)  BY <2>1, <2>2 DEF Edits
    <3>2. requests[First].left # n /\ requests'[i].left = requests[First].left - n
      BY <2>1, <3>1 DEF WrittenBy, Requests
    <3>3. requests[First].left \in Nat  BY <2>1 DEF Requests
    <3>4. QED BY <2>1, <3>2, <3>3
  <2>3. CASE i # First  BY <1>0, <2>1, <2>3 DEF Edits
  <2>4. QED BY <2>2, <2>3
<1>7. CASE CancelWrite
  <2>1. /\ First \in DOMAIN requests /\ requests[First] \in Requests /\ queue # <<>>
        /\ Edits(First, EndedBy(requests[First], Head(stack).why)) /\ 1 \in DOMAIN queue
        /\ First = queue[1]
    BY <1>7, CancelWriteData DEF CancelWrite, StackInv
  <2>2. EndedBy(requests[First], Head(stack).why).left = requests[First].left
    BY <2>1 DEF EndedBy, Requests
  <2>3. requests[First].outcome = "pending"
    BY <2>1 DEF QueueInv, PendingIsQueued, Queued
  <2>4. QED BY <1>0, <2>1, <2>2, <2>3 DEF Edits
<1>8. QED
  BY <1>1, <1>2, <1>3, <1>4, <1>5, <1>6, <1>7, ChangesNext DEF Changes, StackInv

\* A step that leaves a submission alone, by its kind.
LEMMA NotEnters ==
    ASSUME StackInv, Next, UNCHANGED queue \/ Dequeues, NEW i PROVE ~Submitting(i)
<1> SUFFICES ASSUME Submitting(i) PROVE FALSE  OBVIOUS
<1>1. PICK j \in Nat : Enters(j)  BY SubmitEnters DEF Submitting
<1>2. Len(queue') = Len(queue) + 1 /\ Len(queue) \in Nat
  BY <1>1, RequestIndexes DEF Enters, Queues, StackInv
<1>3. QED BY <1>2 DEF Dequeues

\* And one that does not make a request.
LEMMA NotSubmits ==
    ASSUME StackInv, Next, Len(requests') = Len(requests), NEW i PROVE ~Submitting(i)'
<1> SUFFICES ASSUME Submitting(i)' PROVE FALSE  OBVIOUS
<1>1. Submits  BY NewSubmits DEF Submitting
<1>2. Len(requests') = Len(requests) + 1 /\ Len(requests) \in Nat
  BY <1>1, RequestIndexes DEF Submits, Adds, StackInv
<1>3. QED BY <1>2

\* Who is in the queue when the first has left.
LEMMA FirstLeaves ==
    ASSUME StackInv, QueueInv, Dequeues, queue # <<>>
    PROVE  \A i : Queued(i)' <=> Queued(i) /\ i # First
<1>0. DOMAIN queue = 1..Len(queue) /\ Len(queue) \in Nat /\ First = queue[1]
  BY QueueFacts DEF StackInv
<1>1. ASSUME NEW i, Queued(i)' PROVE Queued(i) /\ i # First
  <2>1. PICK k \in DOMAIN queue' : queue'[k] = i  BY <1>1 DEF Queued
  <2>2. k + 1 \in DOMAIN queue /\ queue[k + 1] = i  BY <2>1 DEF Dequeues
  <2>3. k \in Nat /\ k >= 1  BY <2>1, LenProperties DEF Dequeues
  <2>4. queue[1] < queue[k + 1]  BY <1>0, <2>2, <2>3 DEF QueueInv, Sorted
  <2>5. queue[1] \in Nat  BY <1>0, QueueFacts DEF StackInv
  <2>6. QED BY <1>0, <2>2, <2>4, <2>5 DEF Queued
<1>2. ASSUME NEW i, Queued(i), i # First PROVE Queued(i)'
  <2>1. PICK k \in DOMAIN queue : queue[k] = i  BY <1>2 DEF Queued
  <2>2. k > 1  BY <1>0, <1>2, <2>1
  <2>3. QED BY <2>1, <2>2 DEF Dequeues, Queued
<1>3. QED BY <1>1, <1>2

\* The pending requests are those in the queue and the one submitted.
LEMMA PendingNext == ASSUME StackInv, QueueInv, Next PROVE PendingIsQueued'
<1> SUFFICES ASSUME NEW i \in DOMAIN requests'
             PROVE  requests'[i].outcome = "pending" <=> Queued(i)' \/ Submitting(i)'
  BY DEF PendingIsQueued
<1>0. \A j \in DOMAIN requests : requests[j].outcome = "pending" <=> Queued(j) \/ Submitting(j)
  BY DEF QueueInv, PendingIsQueued
<1>a. Len(requests) \in Nat /\ DOMAIN requests = 1..Len(requests)
      /\ \A j \in DOMAIN requests : requests[j] \in Requests
  BY RequestIndexes DEF StackInv
<1>b. UNCHANGED queue => (Queued(i)' <=> Queued(i))  BY DEF Queued
<1>1. CASE Stays
  <2>1. ~Submitting(i) /\ ~Submitting(i)'  BY <1>1, NotEnters, NotSubmits DEF Stays
  <2>2. QED BY <1>0, <1>1, <1>b, <2>1 DEF Stays
<1>2. CASE Submits
  <2>1. PICK kind \in Kinds, size \in Nat \ {0} : Adds(NewOne(kind, size))  BY <1>2 DEF Submits
  <2>2. UNCHANGED queue /\ (Submitting(i)' <=> i = Len(requests) + 1)
    BY <1>2 DEF Submits, Submitting, Step, NextRequest
  <2>3. ~Submitting(i)  BY <2>2, NotEnters
  <2>4. CASE i \in DOMAIN requests
    <3>1. i # Len(requests) + 1  BY <1>a, <2>4
    <3>2. QED BY <1>0, <1>b, <2>1, <2>2, <2>3, <2>4, <3>1 DEF Adds
  <2>5. CASE i = Len(requests) + 1  BY <2>1, <2>2, <2>5 DEF Adds, NewOne
  <2>6. QED BY <2>1, <2>4, <2>5 DEF Adds
<1>3. CASE Refuses
  <2>1. PICK size \in Nat \ {0} : Adds(Refused(size))  BY <1>3 DEF Refuses
  <2>2. UNCHANGED queue  BY <1>3 DEF Refuses
  <2>3. ~Submitting(i)  BY <2>2, NotEnters
  <2>4. ~Submitting(i)'
    <3> SUFFICES ASSUME Submitting(i)' PROVE FALSE  OBVIOUS
    <3>1. PICK kind \in Kinds, s \in Nat \ {0} : Adds(NewOne(kind, s))
      BY NewSubmits DEF Submitting, Submits
    <3>2. QED BY <2>1, <3>1 DEF Adds, NewOne, Refused
  <2>5. CASE i \in DOMAIN requests  BY <1>0, <1>b, <2>1, <2>2, <2>3, <2>4, <2>5 DEF Adds
  <2>6. CASE i = Len(requests) + 1
    <3>1. requests'[i].outcome = "refused"  BY <2>1, <2>6 DEF Adds, Refused
    <3>2. ~Queued(i)  BY <1>a, <2>6, RequestIndexes DEF Queued, StackInv
    <3>3. QED BY <1>b, <2>2, <2>4, <3>1, <3>2
  <2>7. QED BY <2>1, <2>5, <2>6 DEF Adds
<1>4. ASSUME NEW m \in Nat, Enters(m)
      PROVE  requests'[i].outcome = "pending" <=> Queued(i)' \/ Submitting(i)'
  <2>1. /\ m \in DOMAIN requests /\ requests[m].outcome = "pending" /\ ~Submitting(i)'
        /\ DOMAIN requests' = DOMAIN requests
        /\ \A j \in DOMAIN requests : requests'[j].outcome = requests[j].outcome
    BY <1>4, EntersTop
  <2>2. Queued(i)' <=> Queued(i) \/ i = m  BY <1>4 DEF Enters, Queues, Queued
  <2>3. Submitting(i) <=> i = m  BY <1>4 DEF Enters, Submitting, Top
  <2>4. QED BY <1>0, <2>1, <2>2, <2>3
<1>5. ASSUME NEW m \in Nat, Waits(m)
      PROVE  requests'[i].outcome = "pending" <=> Queued(i)' \/ Submitting(i)'
  <2>1. m \in DOMAIN requests /\ requests[m] \in Requests /\ Edits(m, Deferred(requests[m]))
        /\ UNCHANGED queue
    BY <1>5 DEF Waits
  <2>2. Deferred(requests[m]).outcome = requests[m].outcome
    BY <2>1 DEF Deferred, Requests
  <2>3. ~Submitting(i) /\ ~Submitting(i)'  BY <2>1, NotEnters, NotSubmits DEF Edits
  <2>4. QED BY <1>0, <1>b, <2>1, <2>2, <2>3 DEF Edits
<1>6. ASSUME NEW r, Edits(First, r), First \in DOMAIN requests, queue # <<>>, Dequeues, r.outcome # "pending"
      PROVE  requests'[i].outcome = "pending" <=> Queued(i)' \/ Submitting(i)'
  <2>1. ~Submitting(i) /\ ~Submitting(i)'  BY <1>6, NotEnters, NotSubmits DEF Edits
  <2>2. Queued(i)' <=> Queued(i) /\ i # First  BY <1>6, FirstLeaves
  <2>3. QED BY <1>0, <1>6, <2>1, <2>2 DEF Edits
<1>7. ASSUME NEW n \in Nat, Sending(n)
      PROVE  requests'[i].outcome = "pending" <=> Queued(i)' \/ Submitting(i)'
  <2>1. /\ First \in DOMAIN requests /\ requests[First] \in Requests /\ queue # <<>>
        /\ Edits(First, WrittenBy(requests[First], n))
        /\ IF requests[First].left = n THEN Dequeues ELSE UNCHANGED queue
    BY <1>7, SendingData DEF StackInv, Sending
  <2>2. CASE requests[First].left = n
    <3>1. WrittenBy(requests[First], n).outcome = "sent"  BY <2>1, <2>2 DEF WrittenBy, Requests
    <3>2. QED BY <1>6, <2>1, <2>2, <3>1
  <2>3. CASE requests[First].left # n
    <3>1. WrittenBy(requests[First], n).outcome = requests[First].outcome
      BY <2>1, <2>3 DEF WrittenBy, Requests
    <3>2. ~Submitting(i) /\ ~Submitting(i)'  BY <2>1, <2>3, NotEnters, NotSubmits DEF Edits
    <3>3. QED BY <1>0, <1>b, <2>1, <2>3, <3>1, <3>2 DEF Edits
  <2>4. QED BY <2>2, <2>3
<1>8. CASE CancelWrite
  <2>1. /\ First \in DOMAIN requests /\ requests[First] \in Requests /\ queue # <<>> /\ Dequeues
        /\ Edits(First, EndedBy(requests[First], Head(stack).why))
        /\ Head(stack).why # "pending"
    BY <1>8, CancelWriteData DEF CancelWrite, StackInv
  <2>2. EndedBy(requests[First], Head(stack).why).outcome # "pending"
    BY <2>1 DEF EndedBy, Requests
  <2>4. QED BY <1>6, <2>1, <2>2
<1>9. QED
  BY <1>1, <1>2, <1>3, <1>4, <1>5, <1>7, <1>8, ChangesNext DEF Changes, StackInv

\* The queue's invariant is inductive.
LEMMA QueueInvNext == ASSUME StackInv, QueueInv, Next PROVE StackInv' /\ QueueInv'
<1>1. StackInv'  BY BaseStep, InstantlyNext, HandshakesNext DEF StackInv
<1>2. QED BY <1>1, SortedNext, SizedNext, AtSubmitNext, PendingNext DEF QueueInv

\* Induction over a finite set, without an operator: a nonempty set of subsets has a least one.
LEMMA LeastSubset ==
    \A S, F : IsFiniteSet(S) /\ (\A X \in F : X \subseteq S) /\ F # {}
        => \E X \in F : \A Y \in F : Y \subseteq X => Y = X
<1> SUFFICES ASSUME NEW S, NEW F, IsFiniteSet(S), \A X \in F : X \subseteq S, F # {}
             PROVE  \E X \in F : \A Y \in F : Y \subseteq X => Y = X
  OBVIOUS
<1>1. IsWellFoundedOn(StrictSubsetOrdering(S), SUBSET S)
  BY FS_StrictSubsetOrderingWellFounded, FS_FiniteSubsetsOfFinite
<1>2. \E x \in F : \A y \in F : ~(<<y, x>> \in StrictSubsetOrdering(S))
  <2> HIDE DEF StrictSubsetOrdering
  <2> QED BY <1>1, WFMin
<1>3. PICK X \in F : \A y \in F : ~(<<y, X>> \in StrictSubsetOrdering(S))  BY <1>2
<1>4. ASSUME NEW Y \in F, Y \subseteq X PROVE Y = X
  <2>1. <<Y, X>> \notin StrictSubsetOrdering(S)  BY <1>3
  <2>2. <<Y, X>> \in (SUBSET S) \X (SUBSET S)  OBVIOUS
  <2>3. QED BY <2>1, <2>2, <1>4 DEF StrictSubsetOrdering
<1>5. QED BY <1>3, <1>4

\* The recursion by which MapThenSumSet is defined, and a solution of it.
Pick1(s) == CHOOSE y \in s : TRUE
Sums(f, rs, S) ==
    f = [s \in SUBSET S |-> IF s = {} THEN 0 ELSE rs[Pick1(s)].left + f[s \ {Pick1(s)}]]
LeftSum(rs, S) == MapThenSumSet(LAMBDA i : rs[i].left, S)

\* What is chosen is in the set.
LEMMA PickIn == ASSUME NEW s, s # {} PROVE Pick1(s) \in s  BY DEF Pick1

\* A solution of the recursion, unfolded.
LEMMA SumsAt ==
    ASSUME NEW f, NEW rs, NEW S, Sums(f, rs, S), NEW s \in SUBSET S
    PROVE  f[s] = IF s = {} THEN 0 ELSE rs[Pick1(s)].left + f[s \ {Pick1(s)}]
<1> DEFINE e(g, t) == IF t = {} THEN 0 ELSE rs[Pick1(t)].left + g[t \ {Pick1(t)}]
<1>1. f = [t \in SUBSET S |-> e(f, t)]  BY Zenon DEF Sums
<1> HIDE DEF e
<1>2. f[s] = e(f, s)  BY <1>1, Zenon
<1>3. QED BY <1>2 DEF e

\* Two solutions agree.
LEMMA SumsAgree ==
    ASSUME NEW f, NEW g, NEW rs, NEW qs, NEW S, NEW T, Sums(f, rs, S), Sums(g, qs, T),
           NEW U, IsFiniteSet(U), U \subseteq S, U \subseteq T,
           \A i \in U : rs[i].left = qs[i].left
    PROVE  f[U] = g[U]
<1> SUFFICES ASSUME f[U] # g[U] PROVE FALSE  OBVIOUS
<1>1. PICK bad : bad = {s \in SUBSET U : f[s] # g[s]}  OBVIOUS
<1>2. bad # {} /\ \A s \in bad : s \subseteq U  BY <1>1
<1>3. PICK s \in bad : \A t \in bad : t \subseteq s => t = s  BY <1>2, LeastSubset
<1>4. s \in SUBSET U /\ f[s] # g[s]  BY <1>1
<1>a. s \in SUBSET S /\ s \in SUBSET T  BY <1>4
<1>b. f[s] = IF s = {} THEN 0 ELSE rs[Pick1(s)].left + f[s \ {Pick1(s)}]
  BY <1>a, SumsAt
<1>5. g[s] = IF s = {} THEN 0 ELSE qs[Pick1(s)].left + g[s \ {Pick1(s)}]
  BY ONLY Sums(g, qs, T), <1>a, SumsAt
<1>6. s # {}  BY <1>4, <1>b, <1>5
<1>7. Pick1(s) \in s  BY <1>6, PickIn
<1>8. f[s \ {Pick1(s)}] = g[s \ {Pick1(s)}]  BY <1>1, <1>3, <1>4, <1>7
<1>9. rs[Pick1(s)].left = qs[Pick1(s)].left  BY <1>4, <1>7
<1>10. QED BY <1>4, <1>b, <1>5, <1>6, <1>8, <1>9

\* There is a solution, at every finite set.
LEMMA SumsExist ==
    ASSUME NEW rs, NEW S, IsFiniteSet(S) PROVE \E f : Sums(f, rs, S)
<1> SUFFICES ASSUME ~\E f : Sums(f, rs, S) PROVE FALSE  OBVIOUS
<1>1. PICK bad : bad = {X \in SUBSET S : ~\E f : Sums(f, rs, X)}  OBVIOUS
<1>2. bad # {} /\ \A X \in bad : X \subseteq S  BY <1>1
<1>3. PICK X \in bad : \A Y \in bad : Y \subseteq X => Y = X  BY <1>2, LeastSubset
<1>4. X \subseteq S /\ ~\E f : Sums(f, rs, X)  BY <1>1
<1> DEFINE sol(s) == CHOOSE f : Sums(f, rs, s)
           val(s) == sol(s)[s]
           new(s) == IF s = {} THEN 0 ELSE rs[Pick1(s)].left + val(s \ {Pick1(s)})
<1>5. ASSUME NEW s, s \subseteq X, s # X PROVE Sums(sol(s), rs, s)
  <2>1. \E f : Sums(f, rs, s)  BY <1>1, <1>3, <1>4, <1>5
  <2>2. QED BY <2>1
<1>6. ASSUME NEW s, s \subseteq X, s # X PROVE val(s) = new(s)
  <2>1. Sums(sol(s), rs, s)  BY <1>5, <1>6
  <2>2. sol(s)[s] = IF s = {} THEN 0 ELSE rs[Pick1(s)].left + sol(s)[s \ {Pick1(s)}]
    <3> HIDE DEF sol
    <3>1. s \in SUBSET s  OBVIOUS
    <3> QED BY <2>1, <3>1, SumsAt
  <2>3. CASE s = {}  BY <2>2, <2>3
  <2>4. CASE s # {}
    <3>1. PICK x : x = Pick1(s)  OBVIOUS
    <3>2. PICK t : t = s \ {x}  OBVIOUS
    <3>3. x \in s  BY <2>4, <3>1, PickIn
    <3>4. t \subseteq X /\ t # X /\ t \subseteq s  BY <1>6, <3>2, <3>3
    <3>5. Sums(sol(t), rs, t)  BY <1>5, <3>4
    <3>6. IsFiniteSet(t)  BY <1>4, <3>4, FS_Subset
    <3>7. sol(s)[t] = sol(t)[t]
      <4> HIDE DEF sol
      <4> QED BY <2>1, <3>4, <3>5, <3>6, SumsAgree
    <3>8. QED BY <2>2, <2>4, <3>1, <3>2, <3>7
  <2>5. QED BY <2>3, <2>4
<1>7. PICK f : f = [s \in SUBSET X |-> new(s)]  OBVIOUS
<1>8. ASSUME NEW s \in SUBSET X
      PROVE  new(s) = IF s = {} THEN 0 ELSE rs[Pick1(s)].left + f[s \ {Pick1(s)}]
  <2>1. CASE s = {}  BY <2>1
  <2>2. CASE s # {}
    <3>1. PICK t : t = s \ {Pick1(s)}  OBVIOUS
    <3>2. Pick1(s) \in s  BY <2>2, PickIn
    <3>3. t \in SUBSET X /\ t # X  BY <3>1, <3>2
    <3>4. f[t] = new(t)
      <4> HIDE DEF new
      <4> QED BY <1>7, <3>3
    <3>5. val(t) = new(t)  BY <1>6, <3>3
    <3>6. f[t] = val(t)  BY <3>4, <3>5
    <3>7. QED
      <4> HIDE DEF val
      <4> QED BY <2>2, <3>1, <3>6
  <2>3. QED BY <2>1, <2>2
<1>9. Sums(f, rs, X)
  <2> HIDE DEF new
  <2>1. f = [s \in SUBSET X |-> IF s = {} THEN 0 ELSE rs[Pick1(s)].left + f[s \ {Pick1(s)}]]
    BY <1>7, <1>8
  <2>2. QED BY <2>1 DEF Sums
<1>10. QED BY <1>4, <1>9

\* The function that the sum is defined by is a solution.
LEMMA SumSolution ==
    ASSUME NEW rs, NEW S, IsFiniteSet(S)
    PROVE  \E f : Sums(f, rs, S) /\ LeftSum(rs, S) = f[S]
<1>1. PICK f : f = CHOOSE g : Sums(g, rs, S)  OBVIOUS
<1>2. Sums(f, rs, S)  BY <1>1, SumsExist
<1>3. LeftSum(rs, S) = f[S]
  BY <1>1, Zenon DEF LeftSum, MapThenSumSet, MapThenFoldSet, Sums, Pick1
<1>4. QED BY <1>2, <1>3

\* The sum depends only on what is left of the set's requests.
LEMMA LeftSumAgrees ==
    ASSUME NEW rs, NEW qs, NEW S, IsFiniteSet(S), \A i \in S : rs[i].left = qs[i].left
    PROVE  LeftSum(rs, S) = LeftSum(qs, S)
<1>1. PICK f : Sums(f, rs, S) /\ LeftSum(rs, S) = f[S]  BY SumSolution
<1>2. PICK g : Sums(g, qs, S) /\ LeftSum(qs, S) = g[S]  BY SumSolution
<1>3. S \subseteq S /\ f[S] = g[S]  BY <1>1, <1>2, SumsAgree
<1>4. QED BY <1>1, <1>2, <1>3

\* The sum over a set is that of one element and of the others.
LEMMA LeftSumUnfolds ==
    ASSUME NEW rs, NEW S, IsFiniteSet(S)
    PROVE  /\ S = {} => LeftSum(rs, S) = 0
           /\ S # {} => LeftSum(rs, S) = rs[Pick1(S)].left + LeftSum(rs, S \ {Pick1(S)})
<1>1. PICK f : Sums(f, rs, S) /\ LeftSum(rs, S) = f[S]  BY SumSolution
<1>2. S \in SUBSET S  OBVIOUS
<1>3. f[S] = IF S = {} THEN 0 ELSE rs[Pick1(S)].left + f[S \ {Pick1(S)}]
  BY <1>1, <1>2, SumsAt
<1>4. PICK T : T = S \ {Pick1(S)}  OBVIOUS
<1>5. T \subseteq S /\ IsFiniteSet(T)  BY <1>4, FS_Subset
<1>6. PICK g : Sums(g, rs, T) /\ LeftSum(rs, T) = g[T]  BY <1>5, SumSolution
<1>7. f[T] = g[T]
  <2>1. T \subseteq T /\ \A i \in T : rs[i].left = rs[i].left  OBVIOUS
  <2>2. QED BY <1>1, <1>5, <1>6, <2>1, SumsAgree
<1>8. QED BY <1>1, <1>3, <1>4, <1>6, <1>7

\* That one can be any element.
LEMMA LeftSumTakes ==
    ASSUME NEW rs, NEW S, IsFiniteSet(S), \A i \in S : rs[i].left \in Nat
    PROVE  /\ LeftSum(rs, S) \in Nat
           /\ \A x \in S : LeftSum(rs, S) = rs[x].left + LeftSum(rs, S \ {x})
<1> DEFINE good(T) == /\ LeftSum(rs, T) \in Nat
                      /\ \A x \in T : LeftSum(rs, T) = rs[x].left + LeftSum(rs, T \ {x})
<1> SUFFICES ASSUME ~good(S) PROVE FALSE  OBVIOUS
<1>1. PICK bad : bad = {T \in SUBSET S : ~good(T)}  OBVIOUS
<1>2. bad # {} /\ \A T \in bad : T \subseteq S
  <2> HIDE DEF good
  <2> QED BY <1>1
<1>3. PICK T \in bad : \A X \in bad : X \subseteq T => X = T  BY <1>2, LeastSubset
<1>4. T \subseteq S /\ ~good(T) /\ IsFiniteSet(T)
  <2> HIDE DEF good
  <2> QED BY <1>1, FS_Subset
<1>5. ASSUME NEW X, X \subseteq T, X # T PROVE good(X)
  <2> HIDE DEF good
  <2> QED BY <1>1, <1>3, <1>4, <1>5
<1>6. CASE T = {}
  <2>1. LeftSum(rs, T) = 0  BY <1>4, <1>6, LeftSumUnfolds
  <2>2. QED BY <1>4, <1>6, <2>1
<1>7. CASE T # {}
  <2>1. PICK y : y = Pick1(T)  OBVIOUS
  <2>2. y \in T  BY <1>7, <2>1, PickIn
  <2>3. LeftSum(rs, T) = rs[y].left + LeftSum(rs, T \ {y})  BY <1>4, <1>7, <2>1, LeftSumUnfolds
  <2>4. good(T \ {y})  BY <1>5, <2>2
  <2>5. LeftSum(rs, T) \in Nat  BY <1>4, <2>2, <2>3, <2>4
  <2>6. ASSUME NEW x \in T, x # y PROVE LeftSum(rs, T) = rs[x].left + LeftSum(rs, T \ {x})
    <3>1. good(T \ {x})  BY <1>5
    <3>2. PICK a, b, c : /\ a = LeftSum(rs, T \ {y}) /\ b = LeftSum(rs, T \ {x})
                         /\ c = LeftSum(rs, (T \ {y}) \ {x})
      OBVIOUS
    <3>3. (T \ {y}) \ {x} = (T \ {x}) \ {y}  OBVIOUS
    <3>4. x \in T \ {y} /\ y \in T \ {x}  BY <2>2, <2>6
    <3>5. a = rs[x].left + c  BY <2>4, <3>2, <3>4
    <3>6. b = rs[y].left + c  BY <3>1, <3>2, <3>3, <3>4
    <3>7. good((T \ {y}) \ {x})  BY <1>5, <2>2
    <3>8. rs[x].left \in Nat /\ rs[y].left \in Nat /\ c \in Nat  BY <1>4, <2>2, <3>2, <3>7
    <3>9. LeftSum(rs, T) = rs[y].left + a  BY <2>3, <3>2
    <3>10. LeftSum(rs, T) = rs[x].left + b  BY ONLY <3>5, <3>6, <3>8, <3>9
    <3>11. QED BY <3>2, <3>10
  <2>7. QED BY <1>4, <2>3, <2>5, <2>6
<1>8. QED BY <1>6, <1>7

QueueSet == ToSet(queue)
Bytes == pendingBytes = LeftSum(requests, QueueSet)

\* The queue as a set.
LEMMA QueueSetFacts ==
    ASSUME BaseInv
    PROVE  /\ IsFiniteSet(QueueSet) /\ QueueSet \subseteq DOMAIN requests
           /\ \A i : i \in QueueSet <=> Queued(i)
           /\ \A i \in QueueSet : requests[i].left \in Nat
<1>1. \A i : i \in QueueSet <=> Queued(i)  BY DEF QueueSet, ToSet, Queued
<1>2. QueueSet \subseteq DOMAIN requests  BY <1>1, RequestIndexes DEF Queued
<1>3. IsFiniteSet(QueueSet)
  <2>1. Len(requests) \in Int /\ 1 \in Int /\ DOMAIN requests = 1..Len(requests)  BY RequestIndexes
  <2>2. IsFiniteSet(DOMAIN requests)  BY <2>1, FS_Interval
  <2>3. QED BY <1>2, <2>2, FS_Subset
<1>4. \A i \in QueueSet : requests[i].left \in Nat
  BY <1>2, RequestIndexes DEF Requests
<1>5. QED BY <1>1, <1>2, <1>3, <1>4

\* A step that leaves the sum.
LEMMA SameBytes ==
    ASSUME BaseInv, Bytes, UNCHANGED <<queue, pendingBytes>>,
           \A i \in DOMAIN requests : requests'[i].left = requests[i].left
    PROVE  Bytes'
<1>1. QueueSet' = QueueSet  BY DEF QueueSet
<1>2. \A i \in QueueSet : requests[i].left = requests'[i].left  BY QueueSetFacts
<1>3. LeftSum(requests, QueueSet) = LeftSum(requests', QueueSet)
  BY <1>2, QueueSetFacts, LeftSumAgrees
<1>4. QED BY <1>1, <1>3 DEF Bytes

\* The sum when the first request changes or leaves.
LEMMA FirstLeft ==
    ASSUME StackInv, QueueInv, Bytes, queue # <<>>, First \in DOMAIN requests,
           DOMAIN requests' = DOMAIN requests, Dequeues, pendingBytes' = pendingBytes - requests[First].left,
           \A j \in DOMAIN requests : j # First => requests'[j] = requests[j]
    PROVE  Bytes'
<1>1. First \in QueueSet  BY QueueFacts, QueueSetFacts DEF StackInv, Queued
<1>2. QueueSet' = QueueSet \ {First}
  <2>1. \A i : i \in QueueSet <=> Queued(i)  BY QueueSetFacts DEF StackInv
  <2>2. \A i : i \in QueueSet' <=> Queued(i)'  BY DEF QueueSet, ToSet, Queued
  <2>3. QED BY <2>1, <2>2, FirstLeaves
<1>3. PICK T : T = QueueSet \ {First}  OBVIOUS
<1>4. LeftSum(requests, QueueSet) = requests[First].left + LeftSum(requests, T)
  BY <1>1, <1>3, QueueSetFacts, LeftSumTakes DEF StackInv
<1>5. IsFiniteSet(T) /\ T \subseteq DOMAIN requests /\ \A i \in T : requests[i].left \in Nat
  BY <1>3, QueueSetFacts, FS_Subset DEF StackInv
<1>6. LeftSum(requests, T) \in Nat  BY <1>5, LeftSumTakes
<1>7. \A i \in T : requests[i].left = requests'[i].left  BY <1>3, <1>5
<1>8. LeftSum(requests, T) = LeftSum(requests', T)  BY <1>5, <1>7, LeftSumAgrees
<1>9. requests[First].left \in Nat  BY <1>1, QueueSetFacts DEF StackInv
<1>10. pendingBytes' = LeftSum(requests, T)
  BY <1>4, <1>6, <1>9 DEF Bytes
<1>11. QED BY <1>2, <1>3, <1>8, <1>10 DEF Bytes

\* pendingBytes is the sum after every step.
LEMMA BytesNext == ASSUME StackInv, QueueInv, Bytes, Next PROVE Bytes'
<1>0. BaseInv /\ BaseInv'  BY BaseStep DEF StackInv
<1>1. CASE Stays  BY <1>0, <1>1, SameBytes DEF Stays
<1>2. CASE Submits  BY <1>0, <1>2, SameBytes DEF Submits, Adds
<1>3. CASE Refuses  BY <1>0, <1>3, SameBytes DEF Refuses, Adds
<1>4. ASSUME NEW m \in Nat, Waits(m) PROVE Bytes'
  <2>1. m \in DOMAIN requests /\ requests[m] \in Requests /\ Edits(m, Deferred(requests[m]))
        /\ UNCHANGED <<queue, pendingBytes>>
    BY <1>4 DEF Waits
  <2>2. Deferred(requests[m]).left = requests[m].left  BY <2>1 DEF Deferred, Requests
  <2>3. QED BY <1>0, <2>1, <2>2, SameBytes DEF Edits
<1>5. ASSUME NEW m \in Nat, Enters(m) PROVE Bytes'
  <2>1. /\ m \in DOMAIN requests /\ \A k \in DOMAIN queue : queue[k] < m
        /\ \A j \in DOMAIN requests : requests'[j].left = requests[j].left
        /\ requests[m].left \in Nat
    BY <1>5, EntersTop
  <2>2. Queues(m) /\ pendingBytes' = pendingBytes + requests[m].left  BY <1>5 DEF Enters
  <2>3. QueueSet' = QueueSet \cup {m} /\ m \notin QueueSet
    <3>1. \A i : i \in QueueSet <=> Queued(i)  BY <1>0, QueueSetFacts
    <3>2. \A i : i \in QueueSet' <=> Queued(i)'  BY DEF QueueSet, ToSet, Queued
    <3>3. \A i : Queued(i)' <=> Queued(i) \/ i = m  BY <2>2 DEF Queues, Queued
    <3>4. ~Queued(m)  BY <1>5, <2>1 DEF Queued
    <3>5. QED BY <3>1, <3>2, <3>3, <3>4
  <2>4. IsFiniteSet(QueueSet \cup {m})  BY <1>0, QueueSetFacts, FS_AddElement
  <2>5. \A i \in QueueSet \cup {m} : requests[i].left \in Nat /\ requests'[i].left \in Nat
                                   /\ requests'[i].left = requests[i].left
    BY <1>0, <2>1, QueueSetFacts
  <2>6. PICK T : T = QueueSet \cup {m}  OBVIOUS
  <2>7. T \ {m} = QueueSet  BY <2>3, <2>6
  <2>8. LeftSum(requests, T) = requests[m].left + LeftSum(requests, T \ {m})
    BY <2>4, <2>5, <2>6, LeftSumTakes
  <2>9. LeftSum(requests, T) = LeftSum(requests', T)
    BY <2>4, <2>5, <2>6, LeftSumAgrees
  <2>10. LeftSum(requests, QueueSet) \in Nat  BY <1>0, QueueSetFacts, LeftSumTakes
  <2>11. LeftSum(requests', T) = pendingBytes'
    BY <2>1, <2>2, <2>7, <2>8, <2>9, <2>10 DEF Bytes
  <2>12. QED BY <2>3, <2>6, <2>11 DEF Bytes
<1>6. ASSUME NEW n \in Nat, Sending(n) PROVE Bytes'
  <2>1. /\ First \in DOMAIN requests /\ requests[First] \in Requests /\ queue # <<>>
        /\ Edits(First, WrittenBy(requests[First], n)) /\ n <= requests[First].left
        /\ IF requests[First].left = n THEN Dequeues ELSE UNCHANGED queue
        /\ pendingBytes' = pendingBytes - n
    BY <1>6, SendingData DEF StackInv, Sending
  <2>2. CASE requests[First].left = n  BY <2>1, <2>2, FirstLeft DEF Edits
  <2>3. CASE requests[First].left # n
    <3>1. QueueSet' = QueueSet  BY <2>1, <2>3 DEF QueueSet
    <3>2. First \in QueueSet  BY <1>0, <2>1, QueueFacts, QueueSetFacts DEF Queued
    <3>3. PICK T : T = QueueSet \ {First}  OBVIOUS
    <3>4. LeftSum(requests, QueueSet) = requests[First].left + LeftSum(requests, T)
      BY <1>0, <3>2, <3>3, QueueSetFacts, LeftSumTakes
    <3>5. IsFiniteSet(T) /\ T \subseteq DOMAIN requests /\ \A i \in T : requests[i].left \in Nat
      BY <1>0, <3>3, QueueSetFacts, FS_Subset
    <3>6. LeftSum(requests, T) \in Nat  BY <3>5, LeftSumTakes
    <3>7. \A i \in T : requests[i].left = requests'[i].left  BY <2>1, <3>3, <3>5 DEF Edits
    <3>8. LeftSum(requests, T) = LeftSum(requests', T)  BY <3>5, <3>7, LeftSumAgrees
    <3>9. requests'[First].left = requests[First].left - n /\ requests[First].left \in Nat
      BY <2>1 DEF Edits, WrittenBy, Requests
    <3>10. \A i \in QueueSet : requests'[i].left \in Nat
      <4>1. requests' \in Seq(Requests)  BY <2>1 DEF Edits
      <4>2. DOMAIN requests' = DOMAIN requests  BY <2>1 DEF Edits
      <4>3. \A i \in DOMAIN requests' : requests'[i] \in Requests
        BY <4>1, LenProperties, ElementOfSeq
      <4>4. QueueSet \subseteq DOMAIN requests  BY <1>0, QueueSetFacts
      <4>5. QED BY <4>2, <4>3, <4>4 DEF Requests
    <3>11. LeftSum(requests', QueueSet) = requests'[First].left + LeftSum(requests', T)
      BY <1>0, <3>2, <3>3, <3>10, QueueSetFacts, LeftSumTakes
    <3>12. pendingBytes' = LeftSum(requests', QueueSet)
      BY <2>1, <3>4, <3>6, <3>8, <3>9, <3>11 DEF Bytes
    <3>13. QED BY <3>1, <3>12 DEF Bytes
  <2>4. QED BY <2>2, <2>3
<1>7. CASE CancelWrite
  <2>1. /\ First \in DOMAIN requests /\ queue # <<>> /\ Dequeues
        /\ Edits(First, EndedBy(requests[First], Head(stack).why))
        /\ pendingBytes' = pendingBytes - requests[First].left
    BY <1>0, <1>7, CancelWriteData DEF CancelWrite
  <2>2. QED BY <2>1, FirstLeft DEF Edits
<1>8. QED
  BY <1>0, <1>1, <1>2, <1>3, <1>4, <1>5, <1>6, <1>7, ChangesNext DEF Changes

\* The invariant so far, and what follows from it.
WriteInv == StackInv /\ QueueInv /\ Bytes /\ HandshakeDropsNothing

\* The invariant of the writes holds at first.
LEMMA WriteInit == ASSUME Init PROVE WriteInv
<1>1. stack = <<>> /\ requests = <<>> /\ queue = <<>> /\ pendingBytes = 0  BY DEF Init, NativeInit
<1>2. StackInv  BY <1>1, BaseInit DEF StackInv, Instantly, Handshakes
<1>3. QueueInv  BY <1>1 DEF QueueInv, Sorted, Sized, AtSubmit, PendingIsQueued
<1>4. Bytes
  <2>1. QueueSet = {}  BY <1>1 DEF QueueSet, ToSet
  <2>2. IsFiniteSet({})  BY FS_EmptySet
  <2>3. LeftSum(requests, {}) = 0  BY <2>2, LeftSumUnfolds
  <2>4. QED BY <1>1, <2>1, <2>3 DEF Bytes
<1>5. HandshakeDropsNothing  BY <1>1 DEF HandshakeDropsNothing
<1>6. QED BY <1>2, <1>3, <1>4, <1>5 DEF WriteInv

\* And after each step, stuttering included.
LEMMA WriteStep == ASSUME WriteInv, [Next]_vars PROVE WriteInv'
<1>1. CASE Next
  BY <1>1, QueueInvNext, BytesNext, NoHandshakeNext DEF WriteInv, StackInv
<1>2. CASE UNCHANGED vars
  <2>1. UNCHANGED <<stack, active, closing, poll, interest, destroyRequested, frees, parserClosing,
                    closeSent, graceful, reads, requests, queue, pendingBytes, flushing, output,
                    committed, blockedOnRead, shutdownPending, shutdownGenerated, readyState,
                    upgradePending, nodeSocket, nativeActive, given, closeTimer, closeCode,
                    socketError, answers>>
    BY <1>2 DEF vars, nativeVars, handleVars, peerVars, writeVars, tlsVars, jsVars
  <2>2. BaseInv' <=> BaseInv
    BY <2>1 DEF BaseInv, TypeInv, StackTyped, Formed, Refers, Committed, PlainTCP, First
  <2>3. Instantly' <=> Instantly  BY <2>1 DEF Instantly
  <2>4. Handshakes' <=> Handshakes  BY <2>1 DEF Handshakes
  <2>5. QueueInv' <=> QueueInv
    BY <2>1 DEF QueueInv, Sorted, Sized, AtSubmit, PendingIsQueued, Queued, Submitting
  <2>6. Bytes' <=> Bytes  BY <2>1 DEF Bytes, QueueSet
  <2>7. HandshakeDropsNothing' <=> HandshakeDropsNothing  BY <2>1 DEF HandshakeDropsNothing
  <2>8. QED BY <2>2, <2>3, <2>4, <2>5, <2>6, <2>7 DEF WriteInv, StackInv
<1>3. QED BY <1>1, <1>2

\* It has the types and the sum of the runs' properties in it.
LEMMA WriteInvTypes == ASSUME WriteInv PROVE TypeOK /\ PendingBytes
<1>1. BaseInv /\ TypeInv  BY DEF WriteInv, StackInv, BaseInv
<1>2. pendingBytes = LeftSum(requests, QueueSet)  BY DEF WriteInv, Bytes
<1>3. pendingBytes \in Nat  BY <1>1, <1>2, QueueSetFacts, LeftSumTakes
<1>4. PendingBytes
  <2>1. pendingBytes = MapThenSumSet(LAMBDA i : requests[i].left, ToSet(queue))
    BY <1>2, Zenon DEF LeftSum, QueueSet
  <2>2. committed > 0 /\ ~closing => queue # <<>> /\ committed <= requests[Head(queue)].left
    BY <1>1 DEF BaseInv, Committed, First
  <2>3. QED BY <2>1, <2>2, Zenon DEF PendingBytes
<1>5. \A k \in DOMAIN stack : stack[k].on \in 0..Len(requests) \cup {1000, 1006}
  <2> SUFFICES ASSUME NEW k \in DOMAIN stack
               PROVE  stack[k].on \in 0..Len(requests) \cup {1000, 1006}
    OBVIOUS
  <2>1. Form(stack[k], Len(requests), closing)  BY <1>1 DEF BaseInv, Formed
  <2>2. Len(requests) \in Nat  BY <1>1, RequestIndexes
  <2>3. QED BY <2>1, <2>2 DEF Form
<1>6. \A i \in DOMAIN requests :
          /\ requests[i].kind \in Kinds /\ requests[i].left \in Nat /\ requests[i].deferred \in BOOLEAN
          /\ requests[i].outcome \in {"pending", "sent", "cancelled", "nobufs", "handshake", "refused"}
  BY <1>1, RequestIndexes DEF Requests, Outcomes
<1>7. ToSet(queue) \subseteq DOMAIN requests  BY <1>1, QueueSetFacts DEF QueueSet
<1>8. \A k \in DOMAIN answers : answers[k].result \in {"ok", "error", "nobufs"}
  <2>1. answers \in Seq(Answers)  BY <1>1 DEF TypeInv
  <2>2. \A k \in DOMAIN answers : answers[k] \in Answers  BY <2>1, LenProperties, ElementOfSeq
  <2>3. QED BY <2>2 DEF Answers
<1>9. TypeOK
  BY <1>1, <1>3, <1>5, <1>6, <1>7, <1>8 DEF TypeInv, TypeOK
<1>10. QED BY <1>4, <1>9

-----------------------------------------------------------------------------
(* The theorems *)

\* Every variable keeps its type, whatever calls re-enter: what a step of the stack is about
\* exists, and no queue or counter leaves its range.
THEOREM TypeCorrect == Spec => []TypeOK
<1>1. Spec => []WriteInv  BY WriteInit, WriteStep, PTL DEF Spec
<1>2. WriteInv => TypeOK  BY WriteInvTypes
<1>3. QED BY <1>1, <1>2, PTL

\* pendingBytes_, which only increments and clamped decrements maintain, is the sum of what
\* is queued, and what OpenSSL has taken is a part of the first request.
THEOREM PendingBytesCorrect == Spec => []PendingBytes
<1>1. Spec => []WriteInv  BY WriteInit, WriteStep, PTL DEF Spec
<1>2. WriteInv => PendingBytes  BY WriteInvTypes
<1>3. QED BY <1>1, <1>2, PTL
=============================================================================
