-------------------------- MODULE StreamWebSocketProofs --------------------------
(***************************************************************************)
(* Type correctness of the session, the invariants that tie the parser's   *)
(* flags, the opcode stack and the shared fragment buffer together, and    *)
(* what its pointer, its counts and the header bytes it keeps say of one   *)
(* another, for every peer, every header size, every payload limit and     *)
(* every way to cut the stream into reads; and that the session implements *)
(* MessageStream, which knows frames and no bytes.                         *)
(***************************************************************************)
EXTENDS StreamWebSocketRefinement, SequenceTheorems, FiniteSetTheorems, WellFoundedInduction, TLAPS

\* A token, and a sequence of them.
Tokens == Seq(Nat \X Nat)

-----------------------------------------------------------------------------
(* What the helpers return *)

\* Every offset has a header, if only one that is refused.
LEMMA HeaderType ==
    ASSUME wire \in Seq(Frame), NEW p
    PROVE  HeaderAt(p) \in Frame
<1>1. Garbage \in Frame
  BY DEF Garbage, Frame, OpCodes, NONE
<1>2. CASE FramesAt(p) = {}
  BY <1>1, <1>2 DEF HeaderAt
<1>3. CASE FramesAt(p) # {}
  <2>1. (CHOOSE i \in FramesAt(p) : TRUE) \in FramesAt(p)
    BY <1>3
  <2>2. (CHOOSE i \in FramesAt(p) : TRUE) \in DOMAIN wire
    BY <2>1 DEF FramesAt
  <2>3. QED BY <2>2, <1>3 DEF HeaderAt
<1>4. QED BY <1>2, <1>3

\* Header and frame sizes are positive integers.
LEMMA SizeType ==
    ASSUME NEW f \in Frame
    PROVE  /\ HeaderLength(f) \in Nat /\ HeaderLength(f) >= 2 /\ HeaderLength(f) <= LongHeader
           /\ FrameSize(f) \in Nat /\ FrameSize(f) = HeaderLength(f) + f.len
           /\ f.len \in Nat /\ f.op \in OpCodes /\ f.fin \in BOOLEAN /\ f.rsv1 \in BOOLEAN
BY FramesAssumption DEF HeaderLength, FrameSize, Frame

\* Unmasking n bytes yields n tokens.
LEMMA UnmaskType ==
    ASSUME wire \in Seq(Frame), NEW p, NEW n \in Nat, NEW r
    PROVE  Unmask(p, n, r) \in Tokens /\ Len(Unmask(p, n, r)) = n
<1>1. ASSUME NEW q, NEW k PROVE Unmasked(q, k) \in Nat \X Nat
  <2>1. PayloadBytes \subseteq Nat \X Nat
    <3>1. ASSUME NEW i \in DOMAIN wire PROVE ({i} \X (1..wire[i].len)) \subseteq Nat \X Nat
      <4>1. i \in Nat
        OBVIOUS
      <4>2. (1..wire[i].len) \subseteq Nat
        OBVIOUS
      <4>3. QED BY <4>1, <4>2
    <3>2. QED BY <3>1 DEF PayloadBytes
  <2>2. CASE \E b \in BytesAt(q) : (b[2] - 1) % 4 = k
    <3>1. (CHOOSE b \in BytesAt(q) : TRUE) \in BytesAt(q)
      BY <2>2
    <3>2. BytesAt(q) \subseteq PayloadBytes
      BY DEF BytesAt
    <3>3. QED BY <2>1, <2>2, <3>1, <3>2 DEF Unmasked
  <2>3. CASE ~\E b \in BytesAt(q) : (b[2] - 1) % 4 = k
    BY <2>3 DEF Unmasked, Garbled
  <2>4. QED BY <2>2, <2>3
<1>2. QED BY <1>1 DEF Unmask, Tokens

-----------------------------------------------------------------------------
(* The inductive invariant *)

\* Where the parser is agrees with wantsHead, no call goes on after the session
\* closed, and within a frame the top of the stack is an opcode the parser accepts.
CallState ==
    /\ pc = "head" => wantsHead
    /\ pc = "continuation" => ~wantsHead
    /\ pc # "idle" => ~closing
    /\ ~closing /\ ~wantsHead =>
          opStack \in 0..1 /\ opCode[opStack] \in {TEXT, BINARY, CLOSE, PING, PONG}

SessionInv ==
    /\ TypeOK
    /\ CallState
    /\ StackMatchesMessage
    /\ TipIsControlFrame
    /\ MemoryBounded

Statuses == {"DISABLED", "ENABLED", "COMPRESSED_FRAME"}
Stacked == {TEXT, BINARY, CLOSE, PING, PONG}

\* The events the session emits are well formed.
LEMMA EventTypes ==
    ASSUME NEW data \in Tokens, NEW code \in {0, 1000, 1002, 1005, 1006, 1007, 1009},
           NEW op \in OpCodes
    PROVE  /\ MessageEvent(op, data) \in Event
           /\ FrameEvent(op, code, data) \in Event
           /\ CloseEvent(code, data) \in Event
           /\ SentFrame(op) \in Event
BY DEF MessageEvent, FrameEvent, CloseEvent, SentFrame, Event, Tokens, OpCodes, NONE

\* Failing keeps the types of what it changes.
LEMMA FailType ==
    ASSUME TypeOK, NEW code \in {1002, 1007, 1009}, Fail(code)
    PROVE  closing' = TRUE /\ closeSent' = TRUE /\ log' \in Seq(Event)
<1>1. <<>> \in Tokens
  BY DEF Tokens
<1>2. FrameEvent(CLOSE, code, <<>>) \in Event /\ CloseEvent(1006, <<>>) \in Event
  BY <1>1, EventTypes DEF CLOSE, OpCodes
<1>3. QED BY <1>2 DEF Fail, EndSession, TypeOK

\* The event of a data message, apart from the session's state.
LEMMA MessageEventType ==
    ASSUME NEW data \in Tokens, NEW op \in Stacked
    PROVE  MessageEvent(op, data) \in Event
<1>1. op \in OpCodes
  BY DEF Stacked, OpCodes, TEXT, BINARY, CLOSE, PING, PONG
<1>2. QED BY <1>1, EventTypes

\* Delivering a message, or refusing it, keeps the types of what it changes.
LEMMA DeliverMessageType ==
    ASSUME TypeOK, NEW status \in Statuses, NEW op \in Stacked, NEW d \in Tokens, NEW k \in Tokens,
           DeliverMessage(status, op, d, k)
    PROVE  /\ compression' \in Statuses /\ fragmentBuffer' \in Tokens
           /\ closing' \in BOOLEAN /\ closeSent' \in BOOLEAN /\ log' \in Seq(Event)
           /\ ~closing' => fragmentBuffer' = <<>>
<1> DEFINE fault == MessageFault(wire, op, status = "COMPRESSED_FRAME", d)
<1>1. compression' \in Statuses
  BY DEF DeliverMessage, Statuses
<1>2. CASE fault # 0 /\ Fail(fault) /\ fragmentBuffer' = k
  <2>1. PICK code \in {1002, 1007, 1009} : code = fault
    BY <1>2 DEF MessageFault
  <2>2. Fail(code)
    BY <1>2, <2>1
  <2> HIDE DEF fault
  <2>3. closing' = TRUE /\ closeSent' = TRUE /\ log' \in Seq(Event)
    BY SMTT(30), <2>2, FailType DEF Fail, EndSession
  <2>4. QED BY <1>1, <1>2, <2>3
<1>3. CASE /\ fault = 0
           /\ log' = Append(log, MessageEvent(op, d))
           /\ fragmentBuffer' = <<>>
           /\ UNCHANGED <<closing, closeSent>>
  <2>1. MessageEvent(op, d) \in Event
    BY MessageEventType
  <2>2. closing \in BOOLEAN /\ closeSent \in BOOLEAN /\ log \in Seq(Event)
    BY DEF TypeOK
  <2>3. QED BY <1>1, <1>3, <2>1, <2>2 DEF Tokens
<1>4. QED BY <1>2, <1>3 DEF DeliverMessage

\* So does handling a whole control frame.
LEMMA HandleControlType ==
    ASSUME TypeOK, NEW op \in Stacked, NEW payload \in Tokens, HandleControl(op, payload)
    PROVE  closing' \in BOOLEAN /\ closeSent' \in BOOLEAN /\ log' \in Seq(Event)
<1>1. CASE op = CLOSE
  <2>1. PICK code \in {1000, 1005, 1006} : code = CloseCode(wire, payload)
    BY DEF CloseCode
  <2>2. CASE code = 1006
    <3>1. Fail(1002)
      BY <1>1, <2>1, <2>2 DEF HandleControl
    <3>2. QED BY <3>1, FailType DEF Fail, EndSession
  <2>3. CASE code # 1006
    <3>1. EndSession(code, code, payload)
      BY <1>1, <2>1, <2>3 DEF HandleControl
    <3>2. FrameEvent(CLOSE, code, payload) \in Event /\ CloseEvent(code, payload) \in Event
      BY EventTypes DEF CLOSE, OpCodes
    <3>3. QED BY <3>1, <3>2 DEF EndSession, TypeOK
  <2>4. QED BY <2>2, <2>3
<1>2. CASE op # CLOSE
  <2>1. FrameEvent(PONG, 0, payload) \in Event
    BY EventTypes DEF PONG, OpCodes
  <2>2. UNCHANGED <<closing, closeSent>>
        /\ log' = IF op = PING THEN Append(log, FrameEvent(PONG, 0, payload)) ELSE log
    BY <1>2 DEF HandleControl
  <2>3. QED BY <2>1, <2>2 DEF TypeOK
<1>3. QED BY <1>1, <1>2

\* What handleFragment() does to the session: types are kept, a data frame leaves
\* the tip alone and the buffer within the limit, and a control frame grows the
\* tip or removes it.
LEMMA HandleFragmentStep ==
    ASSUME TypeOK, ~closing, controlTipLength <= Len(fragmentBuffer),
           NEW status \in Statuses, NEW data \in Tokens, NEW remaining \in Nat,
           NEW op \in Stacked, NEW fin \in BOOLEAN,
           controlTipLength + Len(data) <= 255 \/ op < 3,
           op < 3 => controlTipLength = 0,
           MaxPayload # 0 => Len(fragmentBuffer) - controlTipLength <= MaxPayload,
           HandleFragment(status, data, remaining, op, fin)
    PROVE  /\ compression' \in Statuses /\ fragmentBuffer' \in Tokens
           /\ controlTipLength' \in 0..255
           /\ closing' \in BOOLEAN /\ closeSent' \in BOOLEAN /\ log' \in Seq(Event)
           /\ ~closing' =>
                 /\ controlTipLength' <= Len(fragmentBuffer')
                 /\ MaxPayload # 0 => Len(fragmentBuffer') - controlTipLength' <= MaxPayload
                 /\ op < 3 => controlTipLength' = 0
                 /\ op >= 3 => controlTipLength' = IF remaining = 0 /\ fin THEN 0
                                                  ELSE controlTipLength + Len(data)
<1> DEFINE whole == fragmentBuffer \o data
           complete == remaining = 0 /\ fin
<1>1. fragmentBuffer \in Tokens /\ whole \in Tokens /\ Len(whole) = Len(fragmentBuffer) + Len(data)
      /\ Len(fragmentBuffer) \in Nat /\ Len(data) \in Nat /\ op \in OpCodes
  BY DEF TypeOK, Tokens, Stacked, OpCodes, TEXT, BINARY, CLOSE, PING, PONG
<1>2. controlTipLength \in 0..255 /\ MaxPayload \in Nat /\ closeSent \in BOOLEAN
      /\ closing \in BOOLEAN /\ log \in Seq(Event)
  BY FramesAssumption DEF TypeOK
<1>0. \A n \in Nat : n % 256 \in 0..255 /\ (n <= 255 => n % 256 = n)
  OBVIOUS
<1>4. CASE closeSent /\ op \notin {CLOSE, PING, PONG} /\ compression' = status
           /\ UNCHANGED <<fragmentBuffer, controlTipLength, closing, closeSent, log>>
  BY <1>1, <1>2, <1>4 DEF Stacked, TEXT, BINARY
<1>5. CASE ~closeSent /\ op < 3 /\ HandleData(status, data, remaining, op, fin)
  <2>1. UNCHANGED controlTipLength
    BY <1>5 DEF HandleData
  <2>2. CASE complete /\ fragmentBuffer = <<>> /\ DeliverMessage(status, op, data, <<>>)
    <3>1. <<>> \in Tokens
      BY DEF Tokens
    <3>2. QED BY <3>1, <1>2, DeliverMessageType, <1>5, <2>1, <2>2
  <2>3. CASE TooLong(Required(data, remaining)) /\ Fail(1009) /\ compression' = status
             /\ UNCHANGED fragmentBuffer
    <3>1. closing' = TRUE /\ closeSent' = TRUE /\ log' \in Seq(Event)
      BY <2>3, FailType
    <3>2. QED BY <3>1, <2>3, <2>1, <1>1, <1>2
  <2>4. CASE complete /\ DeliverMessage(status, op, whole, whole)
    BY <1>1, <1>2, DeliverMessageType, <1>5, <2>1, <2>4
  <2>5. CASE ~TooLong(Required(data, remaining)) /\ fragmentBuffer' = whole
             /\ compression' = status /\ UNCHANGED <<closing, closeSent, log>>
    BY <2>5, <2>1, <1>1, <1>2, <1>5 DEF TooLong, Required, OpCodes
  <2>6. QED BY <1>5, <2>2, <2>3, <2>4, <2>5 DEF HandleData
<1>6. CASE op >= 3 /\ complete /\ compression' = status /\ HandleControl(op, Tip \o data)
           /\ IF ~closing' THEN DropTip
              ELSE IF controlTipLength = 0 THEN UNCHANGED <<fragmentBuffer, controlTipLength>>
              ELSE KeepControlPart(data)
  <2>1. Tip \in Tokens /\ BelowTip \in Tokens
        /\ Len(BelowTip) = Len(fragmentBuffer) - controlTipLength
    <3>1. Len(fragmentBuffer) - controlTipLength \in 0..Len(fragmentBuffer)
      BY <1>1, <1>2
    <3>2. Tip \in Tokens
      BY <3>1, <1>1, SubSeqProperties DEF Tip, Tokens
    <3>3. BelowTip \in Tokens /\ Len(BelowTip) = Len(fragmentBuffer) - controlTipLength
      BY <3>1, <1>1, SubSeqProperties DEF BelowTip, Tokens
    <3>4. QED BY <3>2, <3>3
  <2>2. Tip \o data \in Tokens
    BY <2>1 DEF Tokens
  <2>3. closing' \in BOOLEAN /\ closeSent' \in BOOLEAN /\ log' \in Seq(Event)
    BY <1>6, <2>2, HandleControlType
  <2>4. CASE ~closing'
    BY <2>4, <2>1, <2>3, <1>1, <1>2, <1>6 DEF DropTip
  <2>5. CASE closing'
    <3>1. fragmentBuffer' \in Tokens /\ controlTipLength' \in 0..255
      <4>1. CASE UNCHANGED <<fragmentBuffer, controlTipLength>>
        BY <4>1, <1>1, <1>2
      <4>2. CASE KeepControlPart(data)
        <5>1. controlTipLength + Len(data) \in Nat
          BY <1>1, <1>2
        <5>2. fragmentBuffer' = whole
              /\ controlTipLength' = (controlTipLength + Len(data)) % 256
          BY <4>2 DEF KeepControlPart
        <5>3. QED BY <5>1, <5>2, <1>0, <1>1
      <4>3. QED BY <4>1, <4>2, <2>5, <1>6
    <3>2. QED BY <2>5, <3>1, <2>3, <1>6
  <2>6. QED BY <2>3, <2>4, <2>5
<1>7. CASE op >= 3 /\ ~complete /\ compression' = status /\ KeepControlPart(data)
           /\ UNCHANGED <<closing, closeSent, log>>
  <2>1. Len(data) \in Nat
    BY DEF Tokens
  <2>2. controlTipLength' = controlTipLength + Len(data)
    BY <2>1, <1>1, <1>2, <1>7 DEF KeepControlPart, OpCodes
  <2>3. fragmentBuffer' = whole /\ controlTipLength' \in 0..255
    <3>1. controlTipLength + Len(data) \in Nat
      BY <2>1, <1>2
    <3>2. controlTipLength' = (controlTipLength + Len(data)) % 256 /\ fragmentBuffer' = whole
      BY <1>7 DEF KeepControlPart
    <3>3. QED BY <3>1, <3>2, <1>0
  <2>4. compression' \in Statuses /\ closing' \in BOOLEAN /\ closeSent' \in BOOLEAN
        /\ log' \in Seq(Event) /\ op >= 3 /\ ~(remaining = 0 /\ fin)
    BY <1>2, <1>7
  <2> HIDE DEF whole
  <2>5. QED BY <2>1, <2>2, <2>3, <2>4, <1>1, <1>2 DEF OpCodes
<1>8. QED BY <1>4, <1>5, <1>6, <1>7 DEF HandleFragment

-----------------------------------------------------------------------------
(* One lemma for opening a frame, one per parser step *)

\* The frame on top of the stack, and what the stack says of the message below it.
LEMMA PushStep ==
    ASSUME TypeOK, StackMatchesMessage, ~closing, wantsHead, NEW f \in Frame, Push(f)
    PROVE  /\ StackAfterPush(f) \in 0..1 /\ opCode' \in [0..1 -> OpCodes]
           /\ fragmented' \in BOOLEAN /\ lastFin' = f.fin
           /\ opCode'[StackAfterPush(f)] \in Stacked
           /\ f.op <= BINARY <=> opCode'[StackAfterPush(f)] < 3
           /\ f.op > BINARY =>
                 /\ f.op = opCode'[StackAfterPush(f)] /\ f.fin /\ f.len <= ShortMax
                 /\ fragmented' = fragmented /\ StackAfterPush(f) = opStack + 1
                 /\ fragmented => opCode'[0] = opCode[0]
           /\ f.op <= BINARY =>
                 /\ StackAfterPush(f) = 0 /\ opCode'[0] \in DataOpCodes
                 /\ fragmented' = ~f.fin
<1> USE DEF NONE, TEXT, BINARY, CLOSE, PING, PONG
<1>1. /\ f.op \in OpCodes /\ f.fin \in BOOLEAN /\ f.len \in Nat
      /\ opStack = (IF fragmented THEN 0 ELSE -1) /\ opCode \in [0..1 -> OpCodes]
      /\ fragmented \in BOOLEAN
      /\ fragmented => opCode[0] \in DataOpCodes
      /\ ~BadHeader(f) /\ ~BadSequence(f)
      /\ lastFin' = f.fin
  BY DEF Frame, TypeOK, StackMatchesMessage, Push
<1>2. CASE f.op \in DataOpCodes
  <2>1. ~fragmented /\ StackAfterPush(f) = 0
    BY <1>1, <1>2 DEF BadSequence, StackAfterPush, DataOpCodes
  <2>2. fragmented' = ~f.fin /\ opCode' = [opCode EXCEPT ![0] = f.op]
    BY <1>1, <1>2, <2>1 DEF Push, DataOpCodes
  <2>3. QED BY <1>1, <1>2, <2>1, <2>2 DEF DataOpCodes, Stacked, OpCodes
<1>3. CASE f.op = NONE
  <2>1. fragmented /\ StackAfterPush(f) = 0 /\ opCode' = opCode
    BY <1>1, <1>3 DEF BadSequence, StackAfterPush, Push
  <2>2. fragmented' = ~f.fin
    BY <1>1, <1>3, <2>1 DEF Push, DataOpCodes
  <2>3. QED BY <1>1, <1>3, <2>1, <2>2 DEF DataOpCodes, Stacked, OpCodes
<1>4. CASE f.op > BINARY
  <2>1. f.op \in {CLOSE, PING, PONG} /\ f.fin /\ f.len <= ShortMax
    BY <1>1, <1>4, FramesAssumption DEF BadHeader, OpCodes
  <2>2. StackAfterPush(f) = opStack + 1 /\ opStack + 1 \in 0..1 /\ fragmented' = fragmented
        /\ opCode' = [opCode EXCEPT ![opStack + 1] = f.op]
    <3>1. f.op # NONE /\ f.op \notin DataOpCodes
      BY <2>1 DEF DataOpCodes
    <3>2. fragmented' = fragmented /\ opCode' = [opCode EXCEPT ![opStack + 1] = f.op]
      BY <3>1 DEF Push
    <3>3. StackAfterPush(f) = opStack + 1
      BY <3>1 DEF StackAfterPush
    <3>4. opStack + 1 \in 0..1
      BY <1>1
    <3>5. QED BY <3>2, <3>3, <3>4
  <2>3. QED BY <1>1, <1>4, <2>1, <2>2 DEF Stacked, OpCodes
<1>5. QED BY <1>1, <1>2, <1>3, <1>4 DEF OpCodes, DataOpCodes

\* A step that closes the session and leaves the call keeps the invariant as soon as
\* it keeps the types.
LEMMA ClosedInv ==
    ASSUME TypeOK', closing', pc' = "idle"
    PROVE  SessionInv'
BY DEF SessionInv, CallState, StackMatchesMessage, TipIsControlFrame, MemoryBounded

LEMMA InitInv == Init => SessionInv
<1> SUFFICES ASSUME Init PROVE SessionInv
  OBVIOUS
<1>1. TypeOK
  <2>1. wire \in Seq(Frame)
    BY StreamAssumption DEF Init
  <2>2. spillLength \in 0..(LongHeader - 1)
    BY FramesAssumption DEF Init
  <2>3. fragmentBuffer \in Seq(Nat \X Nat) /\ log \in Seq(Event)
    BY DEF Init
  <2>4. opCode \in [0..1 -> OpCodes]
    BY DEF Init, OpCodes, NONE
  <2>5. QED BY <2>1, <2>2, <2>3, <2>4 DEF Init, TypeOK
<1>2. QED
  BY <1>1, FramesAssumption DEF Init, SessionInv, CallState, StackMatchesMessage,
     TipIsControlFrame, MemoryBounded

LEMMA ConsumeInv ==
    ASSUME SessionInv, NEW n \in 1..StreamLength, Consume(n)
    PROVE  SessionInv'
<1>1. MissingHeaderBytes \in Int
  BY HeaderType, SizeType DEF SessionInv, TypeOK, MissingHeaderBytes
<1>2. TypeOK'
  <2> DEFINE copied == IF spillLength > 0 /\ MissingHeaderBytes < n THEN MissingHeaderBytes ELSE n
  <2>1. n \in Nat /\ Enter(received, copied) /\ rest' = n - copied /\ received' = received + n
    BY DEF Consume
  <2>2. copied \in Int /\ copied <= n /\ copied + spillLength \in Nat
    <3>1. CASE copied = n
      BY <3>1, <2>1 DEF SessionInv, TypeOK
    <3>2. CASE spillLength > 0 /\ MissingHeaderBytes < n
      <4>1. MissingHeaderBytes + spillLength = HeaderLength(HeaderAt(received - spillLength))
        BY HeaderType, SizeType DEF SessionInv, TypeOK, MissingHeaderBytes
      <4>2. QED BY <3>2, <4>1, <1>1, <2>1, HeaderType, SizeType DEF SessionInv, TypeOK
    <3>3. QED BY <3>1, <3>2
  <2> HIDE DEF copied
  <2>3. src' \in Int /\ length' \in Nat /\ rest' \in Nat /\ received' \in Nat
        /\ pc' \in {"head", "continuation"}
    BY <2>1, <2>2 DEF Enter, SessionInv, TypeOK
  <2>4. UNCHANGED <<wire, headVars, stackVars, sessionVars>>
    BY DEF Consume
  <2>5. QED BY <2>3, <2>4 DEF SessionInv, TypeOK, headVars, stackVars, sessionVars
<1>3. QED
  BY <1>2 DEF SessionInv, Consume, Enter, CallState, StackMatchesMessage, TipIsControlFrame,
     MemoryBounded, headVars, stackVars, sessionVars

LEMMA SecondCallInv == SessionInv /\ SecondCall => SessionInv'
<1> SUFFICES ASSUME SessionInv, SecondCall PROVE SessionInv'
  OBVIOUS
<1>1. TypeOK'
  BY DEF SessionInv, TypeOK, SecondCall, Enter, headVars, stackVars, sessionVars
<1>2. QED
  BY <1>1 DEF SessionInv, SecondCall, Enter, CallState, StackMatchesMessage, TipIsControlFrame,
     MemoryBounded, headVars, stackVars, sessionVars

LEMMA RefuseFrameInv == SessionInv /\ RefuseFrame => SessionInv'
<1> SUFFICES ASSUME SessionInv, RefuseFrame PROVE SessionInv'
  OBVIOUS
<1>1. Fail(1002)
  BY DEF RefuseFrame, ForceClose
<1>2. closing' = TRUE /\ closeSent' = TRUE /\ log' \in Seq(Event)
  BY <1>1, FailType DEF SessionInv, Fail, EndSession
<1>3. TypeOK'
  BY <1>2 DEF SessionInv, TypeOK, RefuseFrame, ForceClose, Return, StatusAfter, headVars, stackVars
<1>4. pc' = "idle"
  BY DEF RefuseFrame, ForceClose, Return
<1>5. QED BY <1>2, <1>3, <1>4, ClosedInv

LEMMA RefuseLengthInv == SessionInv /\ RefuseLength => SessionInv'
<1> SUFFICES ASSUME SessionInv, RefuseLength PROVE SessionInv'
  OBVIOUS
<1>1. Fail(1009)
  BY DEF RefuseLength, ForceClose
<1>2. closing' = TRUE /\ closeSent' = TRUE /\ log' \in Seq(Event)
  BY <1>1, FailType DEF SessionInv, Fail, EndSession
<1>3. Header \in Frame
  BY HeaderType DEF Header, SessionInv, TypeOK
<1>4. /\ StackAfterPush(Header) \in 0..1 /\ opCode' \in [0..1 -> OpCodes]
      /\ fragmented' \in BOOLEAN /\ lastFin' \in BOOLEAN
  <2>1. ~closing /\ wantsHead
    BY DEF RefuseLength, Push, HeaderReady, SessionInv, CallState
  <2>2. Push(Header)
    BY DEF RefuseLength
  <2>3. QED BY <1>3, <2>1, <2>2, PushStep, SizeType DEF SessionInv, Push
<1>5. TypeOK'
  BY <1>2, <1>4 DEF SessionInv, TypeOK, RefuseLength, ForceClose, Return, StatusAfter, headVars
<1>6. pc' = "idle"
  BY DEF RefuseLength, ForceClose, Return
<1>7. QED BY <1>2, <1>5, <1>6, ClosedInv

LEMMA SpillHeaderInv == SessionInv /\ SpillHeader => SessionInv'
<1> SUFFICES ASSUME SessionInv, SpillHeader PROVE SessionInv'
  OBVIOUS
<1>1. spillLength' \in 0..(LongHeader - 1)
  <2>1. Header \in Frame
    BY HeaderType DEF Header, SessionInv, TypeOK
  <2>2. length < ShortHeader \/ length < HeaderLength(Header)
    BY <2>1, SizeType, FramesAssumption DEF SpillHeader, HeaderReady, SessionInv, TypeOK
  <2>3. length < LongHeader
    BY <2>1, <2>2, SizeType, FramesAssumption DEF SessionInv, TypeOK
  <2>4. QED BY <2>3, FramesAssumption DEF SpillHeader, SessionInv, TypeOK
<1>2. TypeOK'
  BY <1>1 DEF SessionInv, TypeOK, SpillHeader, EndOfCall, stackVars, sessionVars
<1>3. QED
  BY <1>2 DEF SessionInv, SpillHeader, EndOfCall, CallState, StackMatchesMessage,
     TipIsControlFrame, MemoryBounded, stackVars, sessionVars

\* What a step that accepts a frame starts from.
LEMMA AcceptFacts ==
    ASSUME SessionInv, Accept(Header)
    PROVE  /\ ~closing /\ wantsHead /\ pc = "head" /\ controlTipLength = 0
           /\ Header \in Frame /\ Push(Header)
           /\ StatusAfter(Header) \in Statuses
           /\ length \in Nat /\ length >= HeaderLength(Header)
<1>1. pc = "head" /\ ~closing /\ wantsHead
  BY DEF Accept, Push, HeaderReady, SessionInv, CallState
<1>2. Header \in Frame
  BY HeaderType DEF Header, SessionInv, TypeOK
<1>3. StatusAfter(Header) \in Statuses
  BY DEF StatusAfter, Statuses, SessionInv, TypeOK
<1>4. controlTipLength = 0
  BY <1>1 DEF SessionInv, TipIsControlFrame
<1>5. QED BY <1>1, <1>2, <1>3, <1>4 DEF Accept, Push, HeaderReady, SessionInv, TypeOK

LEMMA WholeFrameInv == SessionInv /\ WholeFrame => SessionInv'
<1> SUFFICES ASSUME SessionInv, WholeFrame PROVE SessionInv'
  OBVIOUS
<1> DEFINE f == Header
           top == StackAfterPush(f)
           data == Unmask(src + HeaderLength(f), f.len, 0)
<1>1. /\ ~closing /\ wantsHead /\ pc = "head" /\ controlTipLength = 0 /\ f \in Frame /\ Push(f)
      /\ StatusAfter(f) \in Statuses /\ length \in Nat
  BY AcceptFacts DEF WholeFrame
<1>2. /\ top \in 0..1 /\ opCode' \in [0..1 -> OpCodes]
      /\ fragmented' \in BOOLEAN /\ lastFin' = f.fin /\ opCode'[top] \in Stacked
      /\ f.op <= BINARY <=> opCode'[top] < 3
      /\ f.op > BINARY =>
            /\ f.op = opCode'[top] /\ f.fin /\ f.len <= ShortMax
            /\ fragmented' = fragmented /\ top = opStack + 1
            /\ fragmented => opCode'[0] = opCode[0]
      /\ f.op <= BINARY => top = 0 /\ opCode'[0] \in DataOpCodes /\ fragmented' = ~f.fin
  BY <1>1, PushStep DEF SessionInv, Push
<1>3. f.len \in Nat /\ f.fin \in BOOLEAN /\ FrameSize(f) \in Nat /\ FrameSize(f) <= length
      /\ f.op \in OpCodes
  BY <1>1, SizeType DEF WholeFrame
<1>4. data \in Tokens /\ Len(data) = f.len
  BY <1>3, UnmaskType DEF SessionInv, TypeOK
<1>5. HandleFragment(StatusAfter(f), data, 0, opCode'[top], f.fin)
  BY DEF WholeFrame
<1>6. PICK st \in Statuses, d \in Tokens, zero \in Nat, o \in Stacked, fin \in BOOLEAN :
            st = StatusAfter(f) /\ d = data /\ zero = 0 /\ o = opCode'[top] /\ fin = f.fin
  BY <1>1, <1>2, <1>3, <1>4
<1>7. HandleFragment(st, d, zero, o, fin)
  BY <1>5, <1>6
<1>8. controlTipLength <= Len(fragmentBuffer)
      /\ (MaxPayload # 0 => Len(fragmentBuffer) - controlTipLength <= MaxPayload)
  BY <1>1 DEF SessionInv, TipIsControlFrame, MemoryBounded
<1>9. controlTipLength + Len(d) <= 255 \/ o < 3
  <2>1. CASE f.op > BINARY
    BY <2>1, <1>1, <1>2, <1>3, <1>4, <1>6, FramesAssumption
  <2>2. CASE f.op <= BINARY
    BY <2>2, <1>2, <1>6
  <2>3. QED BY SMTT(30), <2>1, <2>2, <1>3 DEF OpCodes, BINARY
<1>10. /\ compression' \in Statuses /\ fragmentBuffer' \in Tokens
       /\ controlTipLength' \in 0..255
       /\ closing' \in BOOLEAN /\ closeSent' \in BOOLEAN /\ log' \in Seq(Event)
       /\ ~closing' =>
             /\ controlTipLength' <= Len(fragmentBuffer')
             /\ MaxPayload # 0 => Len(fragmentBuffer') - controlTipLength' <= MaxPayload
             /\ o < 3 => controlTipLength' = 0
             /\ o >= 3 => controlTipLength' = IF zero = 0 /\ fin THEN 0
                                             ELSE controlTipLength + Len(d)
  <2>1. TypeOK
    BY DEF SessionInv
  <2>2. QED BY <2>1, <1>1, <1>7, <1>8, <1>9, HandleFragmentStep
<1>11. CASE closing'
  <2>1. Return /\ opStack' = top /\ UNCHANGED <<src, spillLength>>
        /\ UNCHANGED <<wire, wantsHead, remainingBytes, mask>>
    BY <1>11 DEF WholeFrame
  <2>2. TypeOK'
    BY <2>1, <1>2, <1>3, <1>10 DEF Return, SessionInv, TypeOK, Statuses, Tokens
  <2>3. QED BY <2>1, <2>2, <1>11, ClosedInv DEF Return
<1>12. CASE ~closing'
  <2>1. /\ opStack' = IF f.fin THEN top - 1 ELSE top
        /\ src' = src + FrameSize(f) /\ length' = length - FrameSize(f) /\ spillLength' = 0
        /\ UNCHANGED <<pc, received, rest, wire, wantsHead, remainingBytes, mask>>
    BY <1>12 DEF WholeFrame, Pop
  <2>2. opStack' \in -1..1 /\ controlTipLength' = 0
    <3>1. opStack' \in -1..1
      BY <2>1, <1>2, <1>3
    <3>2. CASE f.op > BINARY
      <4>1. o >= 3 /\ fin
        <5>1. o = f.op /\ fin
          BY <3>2, <1>2, <1>6
        <5>2. QED BY <5>1, <3>2, <1>3 DEF BINARY, OpCodes
      <4>2. QED BY <3>1, <4>1, <1>6, <1>10, <1>12
    <3>3. CASE f.op <= BINARY
      BY <3>1, <3>3, <1>2, <1>6, <1>10, <1>12
    <3>4. QED BY <3>1, <3>2, <3>3, <1>3 DEF OpCodes, BINARY
  <2>3. TypeOK'
    BY <2>1, <2>2, <1>2, <1>3, <1>10, FramesAssumption DEF SessionInv, TypeOK, Statuses, Tokens
  <2>4. opStack' = (IF fragmented' THEN 0 ELSE -1)
        /\ (fragmented' => opCode'[0] \in DataOpCodes)
    <3>1. CASE f.op > BINARY
      BY <3>1, <2>1, <1>1, <1>2, <1>3 DEF SessionInv, StackMatchesMessage
    <3>2. CASE f.op <= BINARY
      BY <3>2, <2>1, <1>2, <1>3
    <3>3. QED BY <3>1, <3>2, <1>3 DEF OpCodes, BINARY
  <2>5. CallState' /\ StackMatchesMessage'
    BY <2>1, <2>4, <1>1, <1>12 DEF CallState, StackMatchesMessage
  <2>6. TipIsControlFrame' /\ MemoryBounded'
    BY <2>1, <2>2, <1>1, <1>10, <1>12, FramesAssumption DEF TipIsControlFrame, MemoryBounded
  <2>7. QED BY <2>3, <2>5, <2>6 DEF SessionInv
<1>13. QED BY <1>10, <1>11, <1>12

LEMMA FirstPartInv == SessionInv /\ FirstPart => SessionInv'
<1> SUFFICES ASSUME SessionInv, FirstPart PROVE SessionInv'
  OBVIOUS
<1> DEFINE f == Header
           top == StackAfterPush(f)
           n == length - HeaderLength(f)
           data == Unmask(src + HeaderLength(f), n, 0)
<1>1. /\ ~closing /\ wantsHead /\ pc = "head" /\ controlTipLength = 0 /\ f \in Frame /\ Push(f)
      /\ StatusAfter(f) \in Statuses /\ length \in Nat /\ length >= HeaderLength(f)
  BY AcceptFacts DEF FirstPart
<1>2. /\ top \in 0..1 /\ opCode' \in [0..1 -> OpCodes]
      /\ fragmented' \in BOOLEAN /\ lastFin' = f.fin /\ opCode'[top] \in Stacked
      /\ f.op <= BINARY <=> opCode'[top] < 3
      /\ f.op > BINARY =>
            /\ f.op = opCode'[top] /\ f.fin /\ f.len <= ShortMax
            /\ fragmented' = fragmented /\ top = opStack + 1
            /\ fragmented => opCode'[0] = opCode[0]
      /\ f.op <= BINARY => top = 0 /\ opCode'[0] \in DataOpCodes /\ fragmented' = ~f.fin
  BY <1>1, PushStep DEF SessionInv, Push
<1>3. /\ f.len \in Nat /\ f.fin \in BOOLEAN /\ f.op \in OpCodes
      /\ n \in Nat /\ f.len - n \in Nat /\ f.len - n > 0
  BY <1>1, SizeType DEF FirstPart
<1>4. data \in Tokens /\ Len(data) = n
  BY <1>3, UnmaskType DEF SessionInv, TypeOK
<1>5. HandleFragment(StatusAfter(f), data, f.len - n, opCode'[top], f.fin)
  BY DEF FirstPart
<1>6. PICK st \in Statuses, d \in Tokens, rem \in Nat, o \in Stacked, fin \in BOOLEAN :
            st = StatusAfter(f) /\ d = data /\ rem = f.len - n /\ o = opCode'[top] /\ fin = f.fin
  BY <1>1, <1>2, <1>3, <1>4
<1>7. HandleFragment(st, d, rem, o, fin)
  BY <1>5, <1>6
<1>8. controlTipLength <= Len(fragmentBuffer)
      /\ (MaxPayload # 0 => Len(fragmentBuffer) - controlTipLength <= MaxPayload)
  BY <1>1 DEF SessionInv, TipIsControlFrame, MemoryBounded
<1>9. controlTipLength + Len(d) <= 255 \/ o < 3
  <2>1. CASE f.op > BINARY
    BY <2>1, <1>1, <1>2, <1>3, <1>4, <1>6, FramesAssumption
  <2>2. CASE f.op <= BINARY
    BY <2>2, <1>2, <1>6
  <2>3. QED BY SMTT(30), <2>1, <2>2, <1>3 DEF OpCodes, BINARY
<1>10. /\ compression' \in Statuses /\ fragmentBuffer' \in Tokens
       /\ controlTipLength' \in 0..255
       /\ closing' \in BOOLEAN /\ closeSent' \in BOOLEAN /\ log' \in Seq(Event)
       /\ ~closing' =>
             /\ controlTipLength' <= Len(fragmentBuffer')
             /\ MaxPayload # 0 => Len(fragmentBuffer') - controlTipLength' <= MaxPayload
             /\ o < 3 => controlTipLength' = 0
             /\ o >= 3 => controlTipLength' = IF rem = 0 /\ fin THEN 0
                                             ELSE controlTipLength + Len(d)
  <2>1. TypeOK
    BY DEF SessionInv
  <2>2. QED BY <2>1, <1>1, <1>7, <1>8, <1>9, HandleFragmentStep
<1>11. /\ opStack' = top /\ spillLength' = 0 /\ wantsHead' = FALSE
       /\ remainingBytes' = f.len - n /\ mask' = n % 4
       /\ src' = src + length /\ length' = 0 /\ UNCHANGED <<wire, received>>
       /\ IF ~closing' /\ rest > 0 THEN pc' = "second" /\ UNCHANGED rest
          ELSE pc' = "idle" /\ rest' = 0
  BY DEF FirstPart, EndOfCall
<1>12. TypeOK'
  <2>1. mask' \in 0..3
    BY <1>3, <1>11
  <2>2. opStack' \in -1..1 /\ lastFin' \in BOOLEAN
    BY <1>2, <1>3, <1>11
  <2>3. src' \in Int /\ rest' \in Nat /\ pc' \in {"idle", "second"} /\ remainingBytes' \in Nat
        /\ spillLength' \in 0..(LongHeader - 1)
    BY <1>1, <1>3, <1>11, FramesAssumption DEF SessionInv, TypeOK
  <2>4. QED BY <2>1, <2>2, <2>3, <1>2, <1>10, <1>11 DEF SessionInv, TypeOK, Statuses, Tokens
<1>13. CASE closing'
  BY <1>11, <1>12, <1>13, ClosedInv
<1>14. CASE ~closing'
  <2>1. CallState'
    BY <1>2, <1>11, <1>14 DEF CallState, Stacked
  <2>2. StackMatchesMessage'
    <3>1. CASE f.op > BINARY
      <4>1. opCode'[opStack'] > BINARY /\ f.op \in {CLOSE, PING, PONG}
        BY <3>1, <1>2, <1>11 DEF Stacked, TEXT, BINARY, CLOSE, PING, PONG
      <4>2. QED BY <3>1, <4>1, <1>1, <1>2, <1>3, <1>11, <1>14
            DEF SessionInv, StackMatchesMessage, CLOSE, BINARY, PING, PONG
    <3>2. CASE f.op <= BINARY
      <4>1. opStack' = 0 /\ opCode'[0] \in DataOpCodes /\ fragmented' = ~f.fin /\ lastFin' = f.fin
        BY <3>2, <1>2, <1>11
      <4>2. opCode'[opStack'] < CLOSE /\ ~(opCode'[opStack'] >= CLOSE)
        BY <4>1 DEF DataOpCodes, CLOSE, TEXT, BINARY
      <4>3. fragmented' = ~lastFin'
        BY <4>1
      <4>4. QED BY <4>1, <4>2, <4>3, <1>11 DEF StackMatchesMessage
    <3>3. QED BY <3>1, <3>2, <1>3 DEF OpCodes, BINARY
  <2>3. TipIsControlFrame' /\ MemoryBounded'
    <3>1. CASE f.op > BINARY
      <4>1. opCode'[opStack'] = o /\ o >= 3 /\ controlTipLength' = Len(d) /\ Len(d) = n
        <5>1. opCode'[opStack'] = o /\ o = f.op /\ o >= 3 /\ rem # 0
          BY <3>1, <1>2, <1>3, <1>6, <1>11 DEF BINARY, OpCodes
        <5>2. Len(d) = n /\ controlTipLength + Len(d) = Len(d)
          BY <1>1, <1>3, <1>4, <1>6
        <5>3. QED BY <5>1, <5>2, <1>10, <1>14
      <4>2. controlTipLength' + remainingBytes' <= ShortMax /\ controlTipLength' <= ShortMax
        BY <3>1, <4>1, <1>2, <1>3, <1>11, FramesAssumption
      <4>3. opCode'[opStack'] >= CLOSE
        BY <3>1, <4>1, <1>2, <1>6 DEF Stacked, TEXT, BINARY, CLOSE, PING, PONG
      <4>4. QED BY <4>1, <4>2, <4>3, <1>10, <1>11, <1>14
            DEF TipIsControlFrame, MemoryBounded, CLOSE, Stacked, TEXT, BINARY, PING, PONG
    <3>2. CASE f.op <= BINARY
      <4>1. o < 3 /\ opCode'[opStack'] = o /\ controlTipLength' = 0
        BY <3>2, <1>2, <1>6, <1>10, <1>11, <1>14
      <4>2. QED BY <4>1, <1>10, <1>11, <1>14, FramesAssumption
            DEF TipIsControlFrame, MemoryBounded, CLOSE, Stacked, TEXT, BINARY, PING, PONG
    <3>3. QED BY <3>1, <3>2, <1>3 DEF OpCodes, BINARY
  <2>4. QED BY <1>12, <2>1, <2>2, <2>3 DEF SessionInv
<1>15. QED BY <1>10, <1>13, <1>14

\* What a step inside a frame starts from.
LEMMA ContinuationFacts ==
    ASSUME SessionInv, pc = "continuation"
    PROVE  /\ ~closing /\ ~wantsHead /\ opStack \in 0..1 /\ opCode[opStack] \in Stacked
           /\ compression \in Statuses /\ lastFin \in BOOLEAN /\ fragmented \in BOOLEAN
           /\ length \in Nat /\ remainingBytes \in Nat /\ controlTipLength \in 0..255
           /\ fragmented => opCode[0] \in DataOpCodes
           /\ controlTipLength <= Len(fragmentBuffer)
           /\ MaxPayload # 0 => Len(fragmentBuffer) - controlTipLength <= MaxPayload
           /\ opCode[opStack] < 3 => /\ controlTipLength = 0 /\ opStack = 0
                                     /\ opCode[0] \in DataOpCodes /\ fragmented = ~lastFin
           /\ opCode[opStack] >= 3 =>
                 /\ lastFin /\ opStack = (IF fragmented THEN 1 ELSE 0)
                 /\ controlTipLength + remainingBytes <= ShortMax
<1>1. ~closing /\ ~wantsHead /\ opStack \in 0..1 /\ opCode[opStack] \in Stacked
  BY DEF SessionInv, CallState, Stacked
<1>2. (opCode[opStack] < 3 <=> opCode[opStack] < CLOSE)
      /\ (opCode[opStack] >= 3 <=> opCode[opStack] >= CLOSE)
  BY <1>1 DEF Stacked, TEXT, BINARY, CLOSE, PING, PONG
<1>3. /\ compression \in Statuses /\ lastFin \in BOOLEAN /\ fragmented \in BOOLEAN
      /\ length \in Nat /\ remainingBytes \in Nat /\ controlTipLength \in 0..255
  BY DEF SessionInv, TypeOK, Statuses
<1>4. /\ fragmented => opCode[0] \in DataOpCodes
      /\ opCode[opStack] < CLOSE => opStack = 0 /\ opCode[0] \in DataOpCodes /\ fragmented = ~lastFin
      /\ opCode[opStack] >= CLOSE => lastFin /\ opStack = (IF fragmented THEN 1 ELSE 0)
  BY <1>1 DEF SessionInv, StackMatchesMessage
<1>5. /\ controlTipLength <= Len(fragmentBuffer)
      /\ opCode[opStack] < CLOSE => controlTipLength = 0
      /\ opCode[opStack] >= CLOSE => controlTipLength + remainingBytes <= ShortMax
      /\ MaxPayload # 0 => Len(fragmentBuffer) - controlTipLength <= MaxPayload
  BY <1>1 DEF SessionInv, TipIsControlFrame, MemoryBounded
<1>6. QED BY <1>1, <1>2, <1>3, <1>4, <1>5

\* handleFragment() within a frame, for `count` more bytes of its payload.
LEMMA ContinuationStep ==
    ASSUME SessionInv, pc = "continuation", NEW data, NEW remaining \in Nat,
           data \in Tokens, Len(data) + remaining = remainingBytes,
           HandleFragment(compression, data, remaining, opCode[opStack], lastFin)
    PROVE  /\ compression' \in Statuses /\ fragmentBuffer' \in Tokens
           /\ controlTipLength' \in 0..255
           /\ closing' \in BOOLEAN /\ closeSent' \in BOOLEAN /\ log' \in Seq(Event)
           /\ ~closing' =>
                 /\ controlTipLength' <= Len(fragmentBuffer')
                 /\ MaxPayload # 0 => Len(fragmentBuffer') - controlTipLength' <= MaxPayload
                 /\ opCode[opStack] < 3 => controlTipLength' = 0
                 /\ opCode[opStack] >= 3 =>
                       controlTipLength' = IF remaining = 0 /\ lastFin THEN 0
                                           ELSE controlTipLength + Len(data)
<1>1. /\ ~closing /\ opCode[opStack] \in Stacked /\ compression \in Statuses
      /\ lastFin \in BOOLEAN /\ controlTipLength \in 0..255 /\ remainingBytes \in Nat
      /\ controlTipLength <= Len(fragmentBuffer)
      /\ MaxPayload # 0 => Len(fragmentBuffer) - controlTipLength <= MaxPayload
      /\ opCode[opStack] < 3 => controlTipLength = 0
      /\ opCode[opStack] >= 3 => controlTipLength + remainingBytes <= ShortMax
  BY ContinuationFacts
<1>2. PICK st \in Statuses, o \in Stacked, fin \in BOOLEAN :
            st = compression /\ o = opCode[opStack] /\ fin = lastFin
  BY <1>1
<1>3. HandleFragment(st, data, remaining, o, fin)
  BY <1>2
<1>4. controlTipLength + Len(data) <= 255 \/ o < 3
  <2>1. Len(data) \in Nat
    BY DEF Tokens
  <2>2. CASE o >= 3
    BY <2>1, <2>2, <1>1, <1>2, FramesAssumption
  <2>3. QED BY <2>2 DEF Stacked, TEXT, BINARY, CLOSE, PING, PONG
<1>5. TypeOK
  BY DEF SessionInv
<1>6. o < 3 => controlTipLength = 0
  BY <1>1, <1>2
<1>7. /\ compression' \in Statuses /\ fragmentBuffer' \in Tokens
      /\ controlTipLength' \in 0..255
      /\ closing' \in BOOLEAN /\ closeSent' \in BOOLEAN /\ log' \in Seq(Event)
      /\ ~closing' =>
            /\ controlTipLength' <= Len(fragmentBuffer')
            /\ MaxPayload # 0 => Len(fragmentBuffer') - controlTipLength' <= MaxPayload
            /\ o < 3 => controlTipLength' = 0
            /\ o >= 3 => controlTipLength' = IF remaining = 0 /\ fin THEN 0
                                            ELSE controlTipLength + Len(data)
  BY <1>1, <1>3, <1>4, <1>5, <1>6, HandleFragmentStep
<1>8. QED BY <1>2, <1>7

LEMMA NextPartInv == SessionInv /\ NextPart => SessionInv'
<1> SUFFICES ASSUME SessionInv, NextPart PROVE SessionInv'
  OBVIOUS
<1>1. pc = "continuation" /\ remainingBytes > length
  BY DEF NextPart
<1>2. /\ ~closing /\ ~wantsHead /\ opStack \in 0..1 /\ opCode[opStack] \in Stacked
      /\ length \in Nat /\ remainingBytes \in Nat /\ controlTipLength \in 0..255
      /\ opCode[opStack] < 3 => controlTipLength = 0
      /\ opCode[opStack] >= 3 => controlTipLength + remainingBytes <= ShortMax
  BY <1>1, ContinuationFacts
<1>3. PICK data \in Tokens, rem \in Nat :
           /\ data = Unmask(src, length, mask) /\ Len(data) = length
           /\ rem = remainingBytes - length
  BY <1>1, <1>2, UnmaskType DEF SessionInv, TypeOK
<1>4. /\ remainingBytes' = remainingBytes - length
      /\ mask' = IF closing' THEN mask ELSE Rotate(length)
      /\ src' = src + length /\ length' = 0 /\ UNCHANGED received
      /\ IF ~closing' /\ rest > 0 THEN pc' = "second" /\ UNCHANGED rest
         ELSE pc' = "idle" /\ rest' = 0
      /\ UNCHANGED <<wire, spillLength, wantsHead, stackVars>>
  BY DEF NextPart, EndOfCall
<1>5. HandleFragment(compression, data, rem, opCode[opStack], lastFin)
  <2>1. HandleFragment(compression, Unmask(src, length, mask), remainingBytes',
                       opCode[opStack], lastFin)
    BY DEF NextPart
  <2>2. data = Unmask(src, length, mask) /\ rem = remainingBytes'
    BY <1>3, <1>4
  <2>3. QED BY <2>1, <2>2
<1>6. /\ compression' \in Statuses /\ fragmentBuffer' \in Tokens
      /\ controlTipLength' \in 0..255
      /\ closing' \in BOOLEAN /\ closeSent' \in BOOLEAN /\ log' \in Seq(Event)
      /\ ~closing' =>
            /\ controlTipLength' <= Len(fragmentBuffer')
            /\ MaxPayload # 0 => Len(fragmentBuffer') - controlTipLength' <= MaxPayload
            /\ opCode[opStack] < 3 => controlTipLength' = 0
            /\ opCode[opStack] >= 3 =>
                  controlTipLength' = IF rem = 0 /\ lastFin THEN 0
                                      ELSE controlTipLength + Len(data)
  <2>1. Len(data) + rem = remainingBytes
    BY <1>2, <1>3
  <2>2. QED BY <2>1, <1>1, <1>5, ContinuationStep
<1>7. TypeOK'
  <2>1. mask' \in 0..3
    BY <1>2, <1>4 DEF Rotate, SessionInv, TypeOK
  <2>2. QED BY <2>1, <1>1, <1>2, <1>4, <1>6 DEF SessionInv, TypeOK, Statuses, Tokens, stackVars
<1>8. CASE closing'
  BY <1>4, <1>7, <1>8, ClosedInv
<1>9. CASE ~closing'
  <2>1. CallState'
    BY <1>2, <1>4, <1>9 DEF CallState, Stacked, stackVars
  <2>2. StackMatchesMessage'
    BY <1>2, <1>4, <1>9 DEF SessionInv, StackMatchesMessage, stackVars
  <2>3. opCode'[opStack'] = opCode[opStack] /\ ~wantsHead'
    BY <1>2, <1>4 DEF stackVars
  <2>4. CASE opCode[opStack] >= 3
    <3>1. rem # 0 /\ controlTipLength' = controlTipLength + length
      BY <2>4, <1>1, <1>2, <1>3, <1>6, <1>9
    <3>2. controlTipLength' + remainingBytes' <= ShortMax /\ controlTipLength' <= ShortMax
      BY <2>4, <3>1, <1>1, <1>2, <1>4, FramesAssumption
    <3>3. QED BY <3>2, <2>1, <2>2, <2>3, <2>4, <1>2, <1>6, <1>7, <1>9
          DEF SessionInv, TipIsControlFrame, MemoryBounded, CLOSE, Stacked, TEXT, BINARY, PING, PONG
  <2>5. CASE opCode[opStack] < 3
    BY <2>1, <2>2, <2>3, <2>5, <1>2, <1>6, <1>7, <1>9, FramesAssumption
       DEF SessionInv, TipIsControlFrame, MemoryBounded, CLOSE, Stacked, TEXT, BINARY, PING, PONG
  <2>6. QED BY <2>4, <2>5, <1>2 DEF Stacked, TEXT, BINARY, CLOSE, PING, PONG
<1>10. QED BY <1>6, <1>8, <1>9

LEMMA LastPartInv == SessionInv /\ LastPart => SessionInv'
<1> SUFFICES ASSUME SessionInv, LastPart PROVE SessionInv'
  OBVIOUS
<1>1. pc = "continuation" /\ remainingBytes <= length
  BY DEF LastPart
<1>2. /\ ~closing /\ ~wantsHead /\ opStack \in 0..1 /\ opCode[opStack] \in Stacked
      /\ length \in Nat /\ remainingBytes \in Nat /\ controlTipLength \in 0..255
      /\ lastFin \in BOOLEAN /\ fragmented \in BOOLEAN
      /\ fragmented => opCode[0] \in DataOpCodes
      /\ opCode[opStack] < 3 => opStack = 0 /\ opCode[0] \in DataOpCodes /\ fragmented = ~lastFin
      /\ opCode[opStack] >= 3 => lastFin /\ opStack = (IF fragmented THEN 1 ELSE 0)
  BY <1>1, ContinuationFacts
<1>3. PICK data \in Tokens, zero \in Nat :
           data = Unmask(src, remainingBytes, mask) /\ Len(data) = remainingBytes /\ zero = 0
  BY <1>2, UnmaskType DEF SessionInv, TypeOK
<1>4. HandleFragment(compression, data, zero, opCode[opStack], lastFin)
  <2>1. HandleFragment(compression, Unmask(src, remainingBytes, mask), 0,
                       opCode[opStack], lastFin)
    BY DEF LastPart
  <2>2. QED BY <2>1, <1>3
<1>5. /\ compression' \in Statuses /\ fragmentBuffer' \in Tokens
      /\ controlTipLength' \in 0..255
      /\ closing' \in BOOLEAN /\ closeSent' \in BOOLEAN /\ log' \in Seq(Event)
      /\ ~closing' =>
            /\ controlTipLength' <= Len(fragmentBuffer')
            /\ MaxPayload # 0 => Len(fragmentBuffer') - controlTipLength' <= MaxPayload
            /\ opCode[opStack] < 3 => controlTipLength' = 0
            /\ opCode[opStack] >= 3 =>
                  controlTipLength' = IF zero = 0 /\ lastFin THEN 0
                                      ELSE controlTipLength + Len(data)
  <2>1. Len(data) + zero = remainingBytes
    BY <1>2, <1>3
  <2>2. QED BY <2>1, <1>1, <1>4, ContinuationStep
<1>6. UNCHANGED <<wire, spillLength, remainingBytes, mask, opCode, lastFin, fragmented>>
  BY DEF LastPart
<1>7. CASE closing'
  <2>1. Return /\ UNCHANGED <<src, wantsHead, opStack>>
    BY <1>7 DEF LastPart
  <2>2. TypeOK'
    BY <2>1, <1>5, <1>6 DEF Return, SessionInv, TypeOK, Statuses, Tokens
  <2>3. QED BY <2>1, <2>2, <1>7, ClosedInv DEF Return
<1>8. CASE ~closing'
  <2>1. /\ opStack' = IF lastFin THEN opStack - 1 ELSE opStack
        /\ src' = src + remainingBytes /\ length' = length - remainingBytes
        /\ wantsHead' = TRUE /\ pc' = "head" /\ UNCHANGED <<received, rest>>
    BY <1>8 DEF LastPart, Pop
  <2>2. opStack' \in -1..1
    BY <2>1, <1>2
  <2>3. TypeOK'
    BY <2>1, <2>2, <1>1, <1>2, <1>5, <1>6 DEF SessionInv, TypeOK, Statuses, Tokens
  <2>4. opCode[opStack] < 3 \/ opCode[opStack] >= 3
    BY <1>2 DEF Stacked, TEXT, BINARY, CLOSE, PING, PONG
  <2>5. controlTipLength' = 0
    BY <2>4, <1>2, <1>3, <1>5, <1>8
  <2>6. opStack' = IF fragmented' THEN 0 ELSE -1
    BY <2>1, <2>4, <1>2, <1>6
  <2>7. CallState' /\ StackMatchesMessage'
    BY <2>1, <2>6, <1>2, <1>6, <1>8 DEF CallState, StackMatchesMessage
  <2>8. TipIsControlFrame' /\ MemoryBounded'
    BY <2>1, <2>5, <1>5, <1>8, FramesAssumption DEF TipIsControlFrame, MemoryBounded
  <2>9. QED BY <2>3, <2>7, <2>8 DEF SessionInv
<1>9. QED BY <1>5, <1>7, <1>8

LEMMA CreateInv == SessionInv /\ (CreateFrame \/ CreateCloseFrame) => SessionInv'
<1> SUFFICES ASSUME SessionInv, CreateFrame \/ CreateCloseFrame PROVE SessionInv'
  OBVIOUS
<1>1. ASSUME NEW op \in OpCodes PROVE SentFrame(op) \in Event
  BY DEF SentFrame, Event, OpCodes
<1>2. log' \in Seq(Event) /\ closeSent' \in BOOLEAN
      /\ UNCHANGED <<wire, readVars, headVars, stackVars, compression, fragmentBuffer,
                     controlTipLength, closing>>
  <2>1. CASE CreateFrame
    <3>1. PICK op \in DataOpCodes : log' = Append(log, SentFrame(op))
      BY <2>1 DEF CreateFrame
    <3>2. op \in OpCodes
      BY <3>1 DEF DataOpCodes, OpCodes, TEXT, BINARY
    <3>3. QED BY <2>1, <3>1, <3>2, <1>1 DEF CreateFrame, SessionInv, TypeOK
  <2>2. CASE CreateCloseFrame
    <3>1. SentFrame(CLOSE) \in Event
      BY <1>1 DEF CLOSE, OpCodes
    <3>2. QED BY <2>2, <3>1 DEF CreateCloseFrame, SessionInv, TypeOK
  <2>3. QED BY <2>1, <2>2
<1>3. TypeOK'
  BY <1>2 DEF SessionInv, TypeOK, readVars, headVars, stackVars
<1>4. QED
  BY <1>2, <1>3 DEF SessionInv, CallState, StackMatchesMessage, TipIsControlFrame, MemoryBounded,
     readVars, headVars, stackVars

-----------------------------------------------------------------------------
(* The theorems *)

LEMMA SessionInvStep == SessionInv /\ [Next]_vars => SessionInv'
<1> SUFFICES ASSUME SessionInv, [Next]_vars PROVE SessionInv'
  OBVIOUS
<1>1. CASE Parse
  BY <1>1, RefuseFrameInv, RefuseLengthInv, WholeFrameInv, FirstPartInv, SpillHeaderInv,
     LastPartInv, NextPartInv, SecondCallInv DEF Parse
<1>2. CASE CreateFrame \/ CreateCloseFrame
  BY <1>2, CreateInv
<1>3. CASE \E n \in 1..StreamLength : Consume(n)
  BY <1>3, ConsumeInv
<1>4. CASE UNCHANGED vars
  BY <1>4 DEF vars, SessionInv, TypeOK, CallState, StackMatchesMessage, TipIsControlFrame,
     MemoryBounded, readVars, headVars, stackVars, sessionVars
<1>5. QED BY <1>1, <1>2, <1>3, <1>4 DEF Next

\* The inductive invariant holds of every session, whatever the peer sends and
\* however its bytes arrive.
THEOREM SessionInvariant == Spec => []SessionInv
<1>1. QED BY InitInv, SessionInvStep, PTL DEF Spec

\* Type correctness; with it the spill of an incomplete header fits its array and
\* the opcode stack its two entries.
THEOREM TypeCorrect == Spec => []TypeOK
<1>1. SessionInv => TypeOK
  BY DEF SessionInv
<1>2. QED BY <1>1, SessionInvariant, PTL

\* The opcode stack and fragmentedMessage always tell the same story.
THEOREM StackCorrect == Spec => []StackMatchesMessage
<1>1. SessionInv => StackMatchesMessage
  BY DEF SessionInv
<1>2. QED BY <1>1, SessionInvariant, PTL

\* A control frame that arrives in parts never disturbs the message around it.
THEOREM TipCorrect == Spec => []TipIsControlFrame
<1>1. SessionInv => TipIsControlFrame
  BY DEF SessionInv
<1>2. QED BY <1>1, SessionInvariant, PTL

\* No peer makes a session keep more than maxPayload bytes of a message.
THEOREM MemoryCorrect == Spec => []MemoryBounded
<1>1. SessionInv => MemoryBounded
  BY DEF SessionInv
<1>2. QED BY <1>1, SessionInvariant, PTL

-----------------------------------------------------------------------------
(* The order of what the session hands out *)

\* OneCloseFrame and NothingAfterClose are inductive together with what the two
\* flags say of the log.
LogInv ==
    /\ closing => closeSent
    /\ OneCloseFrame
    /\ (\E i \in DOMAIN log : log[i].type = "CLOSE") => closing
    /\ NothingAfterClose

\* A MESSAGE, Pong or data frame while the session is open.
LEMMA QuietEvent ==
    ASSUME TypeOK, LogInv, ~closing, NEW e \in Event, log' = Append(log, e),
           UNCHANGED <<closing, closeSent>>, e.type # "CLOSE", ~IsClose(e),
           closeSent => e.type \notin {"SENT", "MESSAGE"}
    PROVE  LogInv'
<1>1. log \in Seq(Event) /\ Len(log) \in Nat /\ Len(log') = Len(log) + 1
      /\ (\A i \in 1..Len(log) : log'[i] = log[i]) /\ log'[Len(log) + 1] = e
      /\ DOMAIN log = 1..Len(log) /\ DOMAIN log' = 1..(Len(log) + 1)
  BY DEF TypeOK
<1>2. \A i \in DOMAIN log' : i \in DOMAIN log \/ i = Len(log) + 1
  BY <1>1
<1>3. DOMAIN log \subseteq DOMAIN log'
  BY <1>1
<1>4. \A i \in DOMAIN log : log[i].type # "CLOSE"
  BY DEF LogInv
<1>5. OneCloseFrame'
  BY <1>1, <1>2, <1>3 DEF LogInv, OneCloseFrame, IsClose
<1>6. NothingAfterClose'
  <2> SUFFICES ASSUME NEW i \in DOMAIN log', NEW j \in DOMAIN log', i < j
               PROVE  /\ log'[i].type # "CLOSE"
                      /\ IsClose(log'[i]) => log'[j].type \notin {"SENT", "MESSAGE"}
    BY DEF NothingAfterClose, IsClose
  <2>1. i \in DOMAIN log /\ log'[i] = log[i] /\ log'[i].type # "CLOSE"
    BY <1>1, <1>4
  <2>2. CASE j \in DOMAIN log
    BY <2>1, <2>2, <1>1 DEF LogInv, NothingAfterClose, IsClose
  <2>3. CASE j = Len(log) + 1
    BY <2>1, <2>3, <1>1 DEF LogInv, OneCloseFrame, IsClose
  <2>4. QED BY <2>1, <2>2, <2>3, <1>2
<1>7. QED BY <1>1, <1>2, <1>4, <1>5, <1>6 DEF LogInv

\* Our Close, while the session is open and it is not out yet.
LEMMA OwnClose ==
    ASSUME TypeOK, LogInv, ~closing, ~closeSent, NEW e \in Event, log' = Append(log, e),
           closing' = closing, closeSent' = TRUE, IsClose(e)
    PROVE  LogInv'
<1>1. log \in Seq(Event) /\ Len(log) \in Nat /\ Len(log') = Len(log) + 1
      /\ (\A i \in 1..Len(log) : log'[i] = log[i]) /\ log'[Len(log) + 1] = e
      /\ DOMAIN log = 1..Len(log) /\ DOMAIN log' = 1..(Len(log) + 1)
  BY DEF TypeOK
<1>2. \A i \in DOMAIN log' : i \in DOMAIN log \/ i = Len(log) + 1
  BY <1>1
<1>3. \A i \in DOMAIN log : log[i].type # "CLOSE" /\ ~IsClose(log[i])
  BY DEF LogInv, OneCloseFrame
<1>4. e.type # "CLOSE"
  BY DEF IsClose
<1>5. OneCloseFrame'
  BY <1>1, <1>2, <1>3 DEF OneCloseFrame, IsClose
<1>6. NothingAfterClose'
  BY <1>1, <1>2, <1>3 DEF NothingAfterClose, IsClose
<1>7. QED BY <1>1, <1>2, <1>3, <1>4, <1>5, <1>6 DEF LogInv

\* The CLOSE event of a session whose Close is out.
LEMMA LastEvent ==
    ASSUME TypeOK, LogInv, ~closing, closeSent, NEW e \in Event, log' = Append(log, e),
           closing' = TRUE, closeSent' = TRUE, e.type = "CLOSE"
    PROVE  LogInv'
<1>1. log \in Seq(Event) /\ Len(log) \in Nat /\ Len(log') = Len(log) + 1
      /\ (\A i \in 1..Len(log) : log'[i] = log[i]) /\ log'[Len(log) + 1] = e
      /\ DOMAIN log = 1..Len(log) /\ DOMAIN log' = 1..(Len(log) + 1)
  BY DEF TypeOK
<1>2. \A i \in DOMAIN log' : i \in DOMAIN log \/ i = Len(log) + 1
  BY <1>1
<1>3. DOMAIN log \subseteq DOMAIN log' /\ \A i \in DOMAIN log : log[i].type # "CLOSE"
  BY <1>1 DEF LogInv
<1>4. ~IsClose(e)
  BY DEF IsClose
<1>5. OneCloseFrame'
  BY <1>1, <1>2, <1>3, <1>4 DEF LogInv, OneCloseFrame, IsClose
<1>6. NothingAfterClose'
  <2> SUFFICES ASSUME NEW i \in DOMAIN log', NEW j \in DOMAIN log', i < j
               PROVE  /\ log'[i].type # "CLOSE"
                      /\ IsClose(log'[i]) => log'[j].type \notin {"SENT", "MESSAGE"}
    BY DEF NothingAfterClose, IsClose
  <2>1. i \in DOMAIN log /\ log'[i] = log[i] /\ log'[i].type # "CLOSE"
    BY <1>1, <1>3
  <2>2. CASE j \in DOMAIN log
    BY <2>1, <2>2, <1>1 DEF LogInv, NothingAfterClose, IsClose
  <2>3. CASE j = Len(log) + 1
    BY <2>1, <2>3, <1>1
  <2>4. QED BY <2>1, <2>2, <2>3, <1>2
<1>7. QED BY <1>5, <1>6 DEF LogInv

\* Ending the session: our Close first unless it is out, then the CLOSE event.
LEMMA EndLog ==
    ASSUME TypeOK, LogInv, ~closing, NEW data \in Tokens,
           NEW reply \in {0, 1000, 1002, 1005, 1006, 1007, 1009},
           NEW code \in {0, 1000, 1002, 1005, 1006, 1007, 1009},
           EndSession(reply, code, data)
    PROVE  LogInv'
<1> DEFINE frame == FrameEvent(CLOSE, reply, data)
           event == CloseEvent(code, data)
<1>1. frame \in Event /\ event \in Event /\ event.type = "CLOSE" /\ IsClose(frame)
      /\ frame.type # "CLOSE" /\ ~IsClose(event)
  <2>1. frame \in Event /\ event \in Event
    BY EventTypes DEF CLOSE, OpCodes
  <2>2. event.type = "CLOSE" /\ IsClose(frame) /\ frame.type # "CLOSE" /\ ~IsClose(event)
    BY DEF FrameEvent, CloseEvent, IsClose
  <2>3. QED BY <2>1, <2>2
<1>2. closing' = TRUE /\ closeSent' = TRUE /\ log \in Seq(Event)
  BY DEF EndSession, TypeOK
<1>3. CASE closeSent
  <2>1. log' = Append(log, event)
    BY <1>1, <1>2, <1>3 DEF EndSession
  <2>2. QED BY <2>1, <1>1, <1>2, <1>3, LastEvent
<1>4. CASE ~closeSent
  <2>1. log' = Append(Append(log, frame), event)
    BY <1>1, <1>2, <1>4 DEF EndSession
  <2> HIDE DEF frame, event
  <2>2. /\ Len(log') = Len(log) + 2 /\ Len(log) \in Nat
        /\ \A i \in 1..Len(log) : log'[i] = log[i]
        /\ log'[Len(log) + 1] = frame /\ log'[Len(log) + 2] = event
        /\ DOMAIN log = 1..Len(log) /\ DOMAIN log' = 1..(Len(log) + 2)
    BY <2>1, <1>1, <1>2
  <2>3. \A i \in DOMAIN log' : i \in DOMAIN log \/ i = Len(log) + 1 \/ i = Len(log) + 2
    BY <2>2
  <2>4. \A i \in DOMAIN log : log[i].type # "CLOSE" /\ ~IsClose(log[i])
    BY <1>4 DEF LogInv, OneCloseFrame
  <2>5. OneCloseFrame'
    BY <2>2, <2>3, <2>4, <1>1, <1>2 DEF OneCloseFrame, IsClose
  <2>6. NothingAfterClose'
    BY <2>2, <2>3, <2>4, <1>1 DEF NothingAfterClose, IsClose
  <2>7. QED BY <2>5, <2>6, <1>2 DEF LogInv
<1>5. QED BY <1>3, <1>4

LEMMA FailLog ==
    ASSUME TypeOK, LogInv, ~closing, NEW code \in {1002, 1007, 1009}, Fail(code)
    PROVE  LogInv'
<1>0. <<>> \in Tokens
  BY DEF Tokens
<1>1. PICK empty \in Tokens, c \in {1006} : empty = <<>> /\ c = 1006
  BY <1>0
<1>2. EndSession(code, c, empty)
  BY <1>1 DEF Fail
<1>3. QED BY <1>2, EndLog

\* A step that leaves the log and the two flags alone.
LEMMA SilentLog ==
    ASSUME LogInv, UNCHANGED <<closing, closeSent, log>>
    PROVE  LogInv'
BY DEF LogInv, OneCloseFrame, NothingAfterClose, IsClose

LEMMA FragmentLog ==
    ASSUME TypeOK, LogInv, ~closing, controlTipLength <= Len(fragmentBuffer),
           NEW status \in Statuses, NEW data \in Tokens, NEW remaining \in Nat,
           NEW op \in Stacked, NEW fin \in BOOLEAN,
           HandleFragment(status, data, remaining, op, fin)
    PROVE  LogInv'
<1>1. fragmentBuffer \in Tokens /\ (fragmentBuffer \o data) \in Tokens
  BY DEF TypeOK, Tokens
<1>2. ASSUME NEW d \in Tokens, NEW k, DeliverMessage(status, op, d, k), ~closeSent
      PROVE  LogInv'
  <2> DEFINE fault == MessageFault(wire, op, status = "COMPRESSED_FRAME", d)
  <2>1. CASE fault # 0 /\ Fail(fault)
    <3>1. PICK code \in {1002, 1007, 1009} : code = fault
      BY <2>1 DEF MessageFault
    <3>2. Fail(code)
      BY <2>1, <3>1
    <3>3. QED BY <3>2, FailLog
  <2>2. CASE log' = Append(log, MessageEvent(op, d)) /\ UNCHANGED <<closing, closeSent>>
    <3>1. MessageEvent(op, d) \in Event
      BY SMTT(30), EventTypes DEF Stacked, OpCodes, TEXT, BINARY, CLOSE, PING, PONG
    <3>2. MessageEvent(op, d).type # "CLOSE" /\ ~IsClose(MessageEvent(op, d))
      BY DEF MessageEvent, IsClose
    <3>3. QED BY <3>1, <3>2, <2>2, <1>2, QuietEvent
  <2>3. QED BY <1>2, <2>1, <2>2 DEF DeliverMessage
<1>3. CASE UNCHANGED <<closing, closeSent, log>>
  BY <1>3, SilentLog
<1>4. CASE ~closeSent /\ op < 3 /\ HandleData(status, data, remaining, op, fin)
  <2>1. CASE DeliverMessage(status, op, data, <<>>)
    BY <1>2, <1>4, <2>1
  <2>2. CASE DeliverMessage(status, op, fragmentBuffer \o data, fragmentBuffer \o data)
    BY <1>1, <1>2, <1>4, <2>2
  <2>3. CASE Fail(1009)
    <3>1. PICK code \in {1002, 1007, 1009} : code = 1009
      OBVIOUS
    <3>2. Fail(code)
      BY <2>3, <3>1
    <3>3. QED BY <3>2, FailLog
  <2>4. QED BY <1>3, <1>4, <2>1, <2>2, <2>3 DEF HandleData
<1>5. CASE op >= 3 /\ HandleControl(op, Tip \o data)
  <2>1. PICK payload \in Tokens : payload = Tip \o data
    <3>1. Len(fragmentBuffer) - controlTipLength \in 0..Len(fragmentBuffer)
      BY <1>1 DEF TypeOK, Tokens
    <3>2. Tip \in Tokens
      BY <3>1, <1>1, SubSeqProperties DEF Tip, Tokens
    <3>3. Tip \o data \in Tokens
      BY <3>2 DEF Tokens
    <3>4. QED BY <3>3
  <2>2. CASE op = CLOSE
    <3>1. PICK code \in {1000, 1005, 1006} : code = CloseCode(wire, Tip \o data)
      BY DEF CloseCode
    <3>2. CASE code = 1006
      <4>1. CloseCode(wire, Tip \o data) = 1006
        BY <3>1, <3>2
      <4>2. Fail(1002)
        BY <2>2, <4>1, <1>5 DEF HandleControl
      <4>3. PICK c \in {1002, 1007, 1009} : c = 1002
        OBVIOUS
      <4>4. Fail(c)
        BY <4>2, <4>3
      <4>5. QED BY <4>4, FailLog
    <3>3. CASE code # 1006
      <4>1. EndSession(code, code, payload)
        BY <2>1, <2>2, <3>1, <3>3, <1>5 DEF HandleControl
      <4>2. QED BY <4>1, EndLog
    <3>4. QED BY <3>2, <3>3
  <2>3. CASE op # CLOSE
    <3>1. FrameEvent(PONG, 0, payload) \in Event
      BY EventTypes DEF PONG, OpCodes
    <3>2. FrameEvent(PONG, 0, payload).type = "FRAME" /\ ~IsClose(FrameEvent(PONG, 0, payload))
      BY DEF FrameEvent, IsClose, PONG, CLOSE
    <3>3. UNCHANGED <<closing, closeSent>>
          /\ log' = IF op = PING THEN Append(log, FrameEvent(PONG, 0, payload)) ELSE log
      BY <2>1, <2>3, <1>5 DEF HandleControl
    <3>4. CASE op = PING
      BY <3>1, <3>2, <3>3, <3>4, QuietEvent
    <3>5. CASE op # PING
      BY <3>3, <3>5, SilentLog
    <3>6. QED BY <3>4, <3>5
  <2>4. QED BY <2>2, <2>3
<1>6. QED BY <1>3, <1>4, <1>5 DEF HandleFragment

\* Every step keeps the order of the log.
LEMMA LogInvStep == SessionInv /\ LogInv /\ [Next]_vars => LogInv'
<1> SUFFICES ASSUME SessionInv, LogInv, [Next]_vars PROVE LogInv'
  OBVIOUS
<1>1. TypeOK
  BY DEF SessionInv
<1>2. ASSUME NEW code \in {1002, 1009}, ForceClose(code), ~closing PROVE LogInv'
  <2>1. Fail(code) /\ code \in {1002, 1007, 1009}
    BY <1>2 DEF ForceClose
  <2>2. QED BY <2>1, <1>1, <1>2, FailLog
<1>3. CASE RefuseFrame
  <2>1. PICK code \in {1002, 1009} : code = 1002
    OBVIOUS
  <2>2. ForceClose(code) /\ ~closing
    BY <1>3, <2>1 DEF RefuseFrame, HeaderReady, SessionInv, CallState
  <2>3. QED BY <2>2, <1>2
<1>4. CASE RefuseLength
  <2>1. PICK code \in {1002, 1009} : code = 1009
    OBVIOUS
  <2>2. ForceClose(code) /\ ~closing
    BY <1>4, <2>1 DEF RefuseLength, Push, HeaderReady, SessionInv, CallState
  <2>3. QED BY <2>2, <1>2
<1>5. ASSUME Accept(Header), NEW n \in Nat, NEW remaining \in Nat,
             HandleFragment(StatusAfter(Header), Unmask(src + HeaderLength(Header), n, 0), remaining,
                            opCode'[StackAfterPush(Header)], Header.fin)
      PROVE  LogInv'
  <2>1. /\ ~closing /\ wantsHead /\ Header \in Frame /\ Push(Header)
        /\ StatusAfter(Header) \in Statuses
    BY <1>5, AcceptFacts
  <2>2. opCode'[StackAfterPush(Header)] \in Stacked
    BY <2>1, PushStep DEF SessionInv, Push
  <2>3. Header.fin \in BOOLEAN
    BY <2>1, SizeType
  <2>4. Unmask(src + HeaderLength(Header), n, 0) \in Tokens
    BY UnmaskType DEF SessionInv, TypeOK
  <2>5. PICK st \in Statuses, d \in Tokens, o \in Stacked, fin \in BOOLEAN :
              /\ st = StatusAfter(Header) /\ d = Unmask(src + HeaderLength(Header), n, 0)
              /\ o = opCode'[StackAfterPush(Header)] /\ fin = Header.fin
    BY <2>1, <2>2, <2>3, <2>4
  <2>6. HandleFragment(st, d, remaining, o, fin)
    BY <1>5, <2>5
  <2>7. controlTipLength <= Len(fragmentBuffer)
    BY <2>1 DEF SessionInv, TipIsControlFrame
  <2>8. QED BY <1>1, <2>1, <2>6, <2>7, FragmentLog
<1>6. CASE WholeFrame
  <2>1. Accept(Header) /\ Header.len \in Nat
    BY <1>6, AcceptFacts, SizeType DEF WholeFrame
  <2>2. PICK n \in Nat, zero \in Nat : n = Header.len /\ zero = 0
    BY <2>1
  <2>3. HandleFragment(StatusAfter(Header), Unmask(src + HeaderLength(Header), n, 0), zero,
                       opCode'[StackAfterPush(Header)], Header.fin)
    BY <1>6, <2>2 DEF WholeFrame
  <2>4. QED BY <2>1, <2>3, <1>5
<1>7. CASE FirstPart
  <2>1. Accept(Header) /\ length - HeaderLength(Header) \in Nat
        /\ Header.len - (length - HeaderLength(Header)) \in Nat
    BY <1>7, AcceptFacts, SizeType DEF FirstPart
  <2>2. PICK n \in Nat, rem \in Nat :
             n = length - HeaderLength(Header) /\ rem = Header.len - (length - HeaderLength(Header))
    BY <2>1
  <2>3. HandleFragment(StatusAfter(Header), Unmask(src + HeaderLength(Header), n, 0), rem,
                       opCode'[StackAfterPush(Header)], Header.fin)
    BY <1>7, <2>2 DEF FirstPart
  <2>4. QED BY <2>1, <2>3, <1>5
<1>8. ASSUME pc = "continuation", NEW d \in Tokens, NEW remaining \in Nat,
             HandleFragment(compression, d, remaining, opCode[opStack], lastFin)
      PROVE  LogInv'
  <2>1. /\ ~closing /\ compression \in Statuses /\ opCode[opStack] \in Stacked
        /\ lastFin \in BOOLEAN /\ controlTipLength <= Len(fragmentBuffer)
    BY <1>8, ContinuationFacts
  <2>2. PICK st \in Statuses, o \in Stacked, fin \in BOOLEAN :
              st = compression /\ o = opCode[opStack] /\ fin = lastFin
    BY <2>1
  <2>3. HandleFragment(st, d, remaining, o, fin)
    BY <1>8, <2>2
  <2>4. QED BY <1>1, <2>1, <2>3, FragmentLog
<1>9. CASE LastPart
  <2>1. PICK d \in Tokens, zero \in Nat : d = Unmask(src, remainingBytes, mask) /\ zero = 0
    BY <1>1, UnmaskType DEF TypeOK
  <2>2. HandleFragment(compression, d, zero, opCode[opStack], lastFin)
    BY <1>9, <2>1 DEF LastPart
  <2>3. QED BY <1>8, <1>9, <2>2 DEF LastPart
<1>10. CASE NextPart
  <2>1. PICK d \in Tokens, rem \in Nat :
             d = Unmask(src, length, mask) /\ rem = remainingBytes'
    BY <1>1, <1>10, UnmaskType DEF TypeOK, NextPart
  <2>2. HandleFragment(compression, d, rem, opCode[opStack], lastFin)
    <3>1. HandleFragment(compression, Unmask(src, length, mask), remainingBytes',
                         opCode[opStack], lastFin)
      BY <1>10 DEF NextPart
    <3>2. QED BY <3>1, <2>1
  <2>3. QED BY <1>8, <1>10, <2>2 DEF NextPart
<1>11. CASE CreateFrame
  <2>1. PICK op \in DataOpCodes : log' = Append(log, SentFrame(op))
    BY <1>11 DEF CreateFrame
  <2>2. SentFrame(op) \in Event /\ SentFrame(op).type = "SENT" /\ ~IsClose(SentFrame(op))
    BY DEF SentFrame, Event, OpCodes, DataOpCodes, TEXT, BINARY, CLOSE, IsClose
  <2>3. QED BY <1>1, <1>11, <2>1, <2>2, QuietEvent DEF CreateFrame, MayCreate
<1>12. CASE CreateCloseFrame
  <2>1. SentFrame(CLOSE) \in Event /\ IsClose(SentFrame(CLOSE))
    BY DEF SentFrame, Event, OpCodes, CLOSE, IsClose
  <2>2. QED BY <1>1, <1>12, <2>1, OwnClose DEF CreateCloseFrame, MayCreate
<1>13. CASE SpillHeader \/ SecondCall \/ (\E n \in 1..StreamLength : Consume(n)) \/ UNCHANGED vars
  <2>1. UNCHANGED <<closing, closeSent, log>>
    BY <1>13 DEF SpillHeader, SecondCall, Consume, vars, sessionVars
  <2>2. QED BY <2>1, SilentLog
<1>14. QED
  BY <1>3, <1>4, <1>6, <1>7, <1>9, <1>10, <1>11, <1>12, <1>13 DEF Next, Parse

LEMMA LogInvariant == Spec => []LogInv
<1>1. Init => LogInv
  BY DEF Init, LogInv, OneCloseFrame, NothingAfterClose, IsClose
<1>2. QED BY <1>1, LogInvStep, SessionInvariant, PTL DEF Spec

\* Whichever side closes first, and whatever the session still parses after that,
\* one Close frame leaves it.
THEOREM CloseOnce == Spec => []OneCloseFrame
<1>1. LogInv => OneCloseFrame
  BY DEF LogInv
<1>2. QED BY <1>1, LogInvariant, PTL

\* The CLOSE event is the last thing a session hands out, and no data frame or
\* message follows its Close.
THEOREM CloseIsFinal == Spec => []NothingAfterClose
<1>1. LogInv => NothingAfterClose
  BY DEF LogInv
<1>2. QED BY <1>1, LogInvariant, PTL

\* The last stack check of consumeMessage is never what refuses a frame.
THEOREM StackCheckNeverAlone == Spec => []StackCheckRedundant
<1>1. SessionInv => StackCheckRedundant
  <2> SUFFICES ASSUME SessionInv, HeaderReady, ~closing, ~BadHeader(Header)
               PROVE  BadSequence(Header) <=> (IF Header.op = NONE THEN ~fragmented
                                               ELSE Header.op \in DataOpCodes /\ fragmented)
    BY DEF StackCheckRedundant
  <2>1. wantsHead /\ opStack = (IF fragmented THEN 0 ELSE -1) /\ fragmented \in BOOLEAN
    BY DEF SessionInv, TypeOK, CallState, HeaderReady, StackMatchesMessage
  <2>2. NONE \notin DataOpCodes
    BY DEF NONE, DataOpCodes, TEXT, BINARY
  <2>3. opStack # 1 /\ (opStack = -1 <=> ~fragmented)
    BY <2>1
  <2>4. QED BY <2>2, <2>3 DEF BadSequence
<1>2. QED BY <1>1, SessionInvariant, PTL

-----------------------------------------------------------------------------
(* The parser stays within the bytes it was given *)

\* Kept header bytes are part of what a call looks at, and a call that has bytes behind
\* it looks at one header, or has parsed it.
ReadInv ==
    /\ StaysInRead
    /\ pc = "head" => spillLength <= length
    /\ pc = "head" /\ rest > 0 =>
          (length = 0 /\ spillLength = 0) \/ length = HeaderLength(HeaderAt(src))
    /\ pc \in {"idle", "continuation"} => rest = 0
    /\ pc = "second" => rest <= received

-----------------------------------------------------------------------------
(* Headers depend on the stream only *)

LEMMA SameHeader ==
    ASSUME wire' = wire
    PROVE  /\ HeaderLength(HeaderAt(src))' = HeaderLength(HeaderAt(src'))
           /\ MissingHeaderBytes' = HeaderLength(HeaderAt(received' - spillLength')) - spillLength'
BY DEF MissingHeaderBytes, HeaderAt, FramesAt, Start, FrameSize, HeaderLength

\* What every step starts from.
LEMMA Counts ==
    ASSUME SessionInv
    PROVE  /\ received \in Nat /\ src \in Int /\ length \in Nat /\ rest \in Nat
           /\ spillLength \in Nat /\ remainingBytes \in Nat
           /\ \A p : /\ HeaderAt(p) \in Frame
                     /\ HeaderLength(HeaderAt(p)) \in Nat /\ HeaderLength(HeaderAt(p)) >= 2
                     /\ HeaderAt(p).len \in Nat
                     /\ FrameSize(HeaderAt(p)) = HeaderLength(HeaderAt(p)) + HeaderAt(p).len
<1>1. \A p : HeaderAt(p) \in Frame
  BY HeaderType DEF SessionInv, TypeOK
<1>2. QED BY <1>1, SizeType DEF SessionInv, TypeOK

\* A call that returns keeps nothing to be read.
LEMMA ReturnRead ==
    ASSUME SessionInv, ReadInv, closing', pc' = "idle", rest' = 0,
           UNCHANGED <<wantsHead, spillLength>>
    PROVE  ReadInv'
BY DEF ReadInv, StaysInRead

-----------------------------------------------------------------------------
(* Steps *)

LEMMA ConsumeRead ==
    ASSUME SessionInv, ReadInv, NEW n \in 1..StreamLength, Consume(n)
    PROVE  ReadInv'
<1> DEFINE copied == IF spillLength > 0 /\ MissingHeaderBytes < n THEN MissingHeaderBytes ELSE n
<1>1. n \in Nat /\ n > 0 /\ pc = "idle" /\ ~closing
  BY DEF Consume
<1>2. /\ src' = received - spillLength /\ length' = copied + spillLength
      /\ pc' = IF wantsHead THEN "head" ELSE "continuation"
      /\ rest' = n - copied /\ received' = received + n
      /\ UNCHANGED <<wire, spillLength, wantsHead>>
  BY DEF Consume, Enter, headVars
<1>3. MissingHeaderBytes = HeaderLength(HeaderAt(received - spillLength)) - spillLength
  BY DEF MissingHeaderBytes
<1>4. spillLength > 0 => wantsHead /\ spillLength <= received /\ MissingHeaderBytes > 0
  BY <1>1, Counts DEF ReadInv, StaysInRead
<1>5. copied \in Nat /\ copied <= n
      /\ (copied # n => spillLength > 0 /\ copied = MissingHeaderBytes)
  BY <1>1, <1>3, <1>4, Counts
<1> HIDE DEF copied
<1>6. src' >= 0 /\ src' + length' + rest' = received'
  BY <1>1, <1>2, <1>4, <1>5, Counts
<1>7. rest' > 0 => pc' = "head" /\ length' = HeaderLength(HeaderAt(src'))
  BY <1>1, <1>2, <1>3, <1>4, <1>5, Counts
<1>8. spillLength' <= length' /\ rest' \in Nat
  BY <1>1, <1>2, <1>5, Counts
<1>9. ~wantsHead' => spillLength' = 0
  BY <1>2, <1>4, Counts
<1>10. QED BY <1>2, <1>6, <1>7, <1>8, <1>9, SameHeader DEF ReadInv, StaysInRead

LEMMA SecondCallRead == SessionInv /\ ReadInv /\ SecondCall => ReadInv'
<1> SUFFICES ASSUME SessionInv, ReadInv, SecondCall PROVE ReadInv'
  OBVIOUS
<1>1. /\ src' = received - rest - spillLength /\ length' = rest + spillLength /\ rest' = 0
      /\ pc' = IF wantsHead THEN "head" ELSE "continuation"
      /\ UNCHANGED <<wire, received, spillLength, wantsHead>>
  BY DEF SecondCall, Enter, headVars
<1>2. spillLength = 0 /\ rest <= received
  BY DEF SecondCall, ReadInv, StaysInRead
<1>3. QED BY <1>1, <1>2, Counts DEF ReadInv, StaysInRead

LEMMA SpillHeaderRead == SessionInv /\ ReadInv /\ SpillHeader => ReadInv'
<1> SUFFICES ASSUME SessionInv, ReadInv, SpillHeader PROVE ReadInv'
  OBVIOUS
<1>1. /\ pc = "head" /\ ~HeaderReady /\ wantsHead /\ ~closing
      /\ src >= 0 /\ src + length + rest = received /\ spillLength <= length
  BY DEF SpillHeader, ReadInv, StaysInRead, SessionInv, CallState
<1>2. /\ spillLength' = IF length > 0 THEN length ELSE spillLength
      /\ src' = src + length /\ length' = 0
      /\ UNCHANGED <<wire, received, wantsHead, closing>>
      /\ IF rest > 0 THEN pc' = "second" /\ UNCHANGED rest ELSE pc' = "idle" /\ rest' = 0
  BY <1>1 DEF SpillHeader, EndOfCall, sessionVars
<1>3. spillLength' = length
  BY <1>1, <1>2, Counts
<1>4. length < HeaderLength(HeaderAt(src))
  <2>1. length < ShortHeader \/ length < HeaderLength(HeaderAt(src))
    BY <1>1, Counts, FramesAssumption DEF HeaderReady, Header
  <2>2. ShortHeader <= HeaderLength(HeaderAt(src))
    BY FramesAssumption DEF HeaderLength
  <2>3. QED BY <2>1, <2>2, Counts, FramesAssumption
<1>5. CASE rest > 0
  <2>1. length = 0
    BY <1>1, <1>4, <1>5, Counts DEF ReadInv
  <2>2. QED BY <2>1, <1>1, <1>2, <1>3, <1>5, Counts DEF ReadInv, StaysInRead
<1>6. CASE rest = 0
  <2>1. received' - spillLength' = src
    BY <1>1, <1>2, <1>3, <1>6, Counts
  <2>2. MissingHeaderBytes' > 0 /\ spillLength' <= received'
    BY <2>1, <1>1, <1>2, <1>3, <1>4, Counts, SameHeader
  <2>3. QED BY <2>2, <1>1, <1>2, <1>6, Counts DEF ReadInv, StaysInRead
<1>7. QED BY <1>5, <1>6, Counts

LEMMA WholeFrameRead == SessionInv /\ ReadInv /\ WholeFrame => ReadInv'
<1> SUFFICES ASSUME SessionInv, ReadInv, WholeFrame PROVE ReadInv'
  OBVIOUS
<1>1. /\ pc = "head" /\ wantsHead /\ src >= 0 /\ src + length + rest = received
      /\ FrameSize(HeaderAt(src)) <= length
  BY DEF WholeFrame, Accept, Push, HeaderReady, Header, ReadInv, StaysInRead, SessionInv, CallState
<1>2. UNCHANGED <<wire, wantsHead>>
  BY DEF WholeFrame
<1>3. CASE closing'
  BY <1>2, <1>3, ReturnRead DEF WholeFrame, Return
<1>4. CASE ~closing'
  <2>1. /\ src' = src + FrameSize(HeaderAt(src)) /\ length' = length - FrameSize(HeaderAt(src))
        /\ spillLength' = 0 /\ UNCHANGED <<pc, received, rest>>
    BY <1>4 DEF WholeFrame, Header
  <2>2. src' >= 0 /\ src' + length' + rest' = received' /\ length' >= 0
    BY <2>1, <1>1, Counts
  <2>3. rest > 0 => length' = 0
    <3>1. rest > 0 => length = HeaderLength(HeaderAt(src))
      BY <1>1, Counts DEF ReadInv
    <3>2. QED BY <3>1, <2>1, <2>2, <1>1, Counts
  <2>4. QED BY <2>1, <2>2, <2>3, <1>1, <1>2 DEF ReadInv, StaysInRead
<1>5. QED BY <1>3, <1>4

LEMMA FirstPartRead == SessionInv /\ ReadInv /\ FirstPart => ReadInv'
<1> SUFFICES ASSUME SessionInv, ReadInv, FirstPart PROVE ReadInv'
  OBVIOUS
<1>1. pc = "head" /\ src >= 0 /\ src + length + rest = received
  BY DEF FirstPart, Accept, Push, HeaderReady, ReadInv, StaysInRead
<1>2. /\ spillLength' = 0 /\ UNCHANGED <<wire, received>>
      /\ \/ pc' = "second" /\ UNCHANGED rest
         \/ pc' = "idle" /\ rest' = 0
  BY DEF FirstPart, EndOfCall
<1>3. rest <= received
  BY <1>1, Counts
<1>4. QED BY <1>2, <1>3, Counts DEF ReadInv, StaysInRead

LEMMA LastPartRead == SessionInv /\ ReadInv /\ LastPart => ReadInv'
<1> SUFFICES ASSUME SessionInv, ReadInv, LastPart PROVE ReadInv'
  OBVIOUS
<1>1. /\ pc = "continuation" /\ ~wantsHead /\ remainingBytes <= length
      /\ src >= 0 /\ src + length + rest = received /\ rest = 0 /\ spillLength = 0
  BY DEF LastPart, ReadInv, StaysInRead, SessionInv, CallState
<1>2. UNCHANGED <<wire, spillLength>>
  BY DEF LastPart
<1>3. CASE closing'
  BY <1>2, <1>3, ReturnRead DEF LastPart, Return
<1>4. CASE ~closing'
  <2>1. /\ src' = src + remainingBytes /\ length' = length - remainingBytes /\ wantsHead'
        /\ pc' = "head" /\ UNCHANGED <<received, rest>>
    BY <1>4 DEF LastPart
  <2>2. QED BY <2>1, <1>1, <1>2, Counts DEF ReadInv, StaysInRead
<1>5. QED BY <1>3, <1>4

LEMMA NextPartRead == SessionInv /\ ReadInv /\ NextPart => ReadInv'
<1> SUFFICES ASSUME SessionInv, ReadInv, NextPart PROVE ReadInv'
  OBVIOUS
<1>1. ~wantsHead /\ rest = 0 /\ spillLength = 0
  BY DEF NextPart, ReadInv, StaysInRead, SessionInv, CallState
<1>2. pc' = "idle" /\ rest' = 0 /\ UNCHANGED <<wire, received, spillLength, wantsHead>>
  BY <1>1 DEF NextPart, EndOfCall
<1>3. QED BY <1>1, <1>2 DEF ReadInv, StaysInRead

\* The steps that leave the read alone.
LEMMA QuietRead ==
    ASSUME SessionInv, ReadInv,
           UNCHANGED <<wire, pc, received, src, length, rest, spillLength, wantsHead, closing>>
    PROVE  ReadInv'
<1>1. MissingHeaderBytes' = MissingHeaderBytes
  BY SameHeader DEF MissingHeaderBytes
<1>2. QED BY <1>1, SameHeader DEF ReadInv, StaysInRead

LEMMA ReadInvStep == SessionInv /\ ReadInv /\ [Next]_vars => ReadInv'
<1> SUFFICES ASSUME SessionInv, ReadInv, [Next]_vars PROVE ReadInv'
  OBVIOUS
<1>1. CASE RefuseFrame \/ RefuseLength
  BY <1>1, ReturnRead DEF RefuseFrame, RefuseLength, ForceClose, Fail, EndSession, Return, headVars
<1>2. CASE WholeFrame \/ FirstPart \/ SpillHeader \/ LastPart \/ NextPart \/ SecondCall
  BY <1>2, WholeFrameRead, FirstPartRead, SpillHeaderRead, LastPartRead, NextPartRead, SecondCallRead
<1>3. CASE CreateFrame \/ CreateCloseFrame
  BY <1>3, QuietRead DEF CreateFrame, CreateCloseFrame, readVars, headVars
<1>4. CASE \E n \in 1..StreamLength : Consume(n)
  BY <1>4, ConsumeRead
<1>5. CASE UNCHANGED vars
  BY <1>5, QuietRead DEF vars, readVars, headVars, sessionVars
<1>6. QED BY <1>1, <1>2, <1>3, <1>4, <1>5 DEF Next, Parse

-----------------------------------------------------------------------------
\* Whatever the peer sends and however it is cut, the parser looks at no byte it was not
\* given, and the count of header bytes to complete never wraps around.
THEOREM ReadsInBounds == Spec => []StaysInRead
<1>1. Init => ReadInv
  BY DEF Init, ReadInv, StaysInRead
<1>2. SessionInv /\ ReadInv /\ [Next]_vars => ReadInv'
  BY ReadInvStep
<1>3. ReadInv => StaysInRead
  BY DEF ReadInv
<1>4. QED BY <1>1, <1>2, <1>3, SessionInvariant, PTL DEF Spec

-----------------------------------------------------------------------------
(* The layout of the stream *)

\* A family of subsets of a finite set has a least member: the induction over sizes that
\* follows uses it, without an operator as a parameter.
LEMMA LeastSubset ==
    \A S, F : IsFiniteSet(S) /\ (\A X \in F : X \subseteq S) /\ F # {}
        => \E X \in F : \A Y \in F : Y \subseteq X => Y = X
<1> SUFFICES ASSUME NEW S, NEW F, IsFiniteSet(S), \A X \in F : X \subseteq S, F # {}
             PROVE  \E X \in F : \A Y \in F : Y \subseteq X => Y = X
  OBVIOUS
<1>1. IsWellFoundedOn(StrictSubsetOrdering(S), SUBSET S)
  BY FS_StrictSubsetOrderingWellFounded, FS_FiniteSubsetsOfFinite
<1>2. \E x \in F : \A y \in F : ~(<<y, x>> \in StrictSubsetOrdering(S))
  <2> HIDE DEF StrictSubsetOrdering
  <2> QED BY <1>1, WFMin
<1>3. PICK X \in F : \A y \in F : ~(<<y, X>> \in StrictSubsetOrdering(S))  BY <1>2
<1>4. ASSUME NEW Y \in F, Y \subseteq X PROVE Y = X
  <2>1. <<Y, X>> \notin StrictSubsetOrdering(S)  BY <1>3
  <2>2. <<Y, X>> \in (SUBSET S) \X (SUBSET S)  OBVIOUS
  <2>3. QED BY <2>1, <2>2, <1>4 DEF StrictSubsetOrdering
<1>5. QED BY <1>3, <1>4

\* Induction over the numbers from 0 to n, without an operator.
LEMMA UpTo ==
    ASSUME NEW n \in Nat, NEW S, 0 \in S, \A k \in 0..(n - 1) : k \in S => k + 1 \in S
    PROVE  0..n \subseteq S
<1> SUFFICES ASSUME NEW m \in 0..n, m \notin S PROVE FALSE  OBVIOUS
<1>1. PICK F : F = {0..k : k \in {k \in 0..n : k \notin S}}  OBVIOUS
<1>2. IsFiniteSet(0..n) /\ F # {} /\ \A X \in F : X \subseteq 0..n
  <2>1. IsFiniteSet(0..n)  BY FS_Interval
  <2>2. QED BY <1>1, <2>1
<1>3. PICK X \in F : \A Y \in F : Y \subseteq X => Y = X  BY <1>2, LeastSubset
<1>4. PICK k \in 0..n : k \notin S /\ X = 0..k  BY <1>1, <1>3
<1>5. k # 0 /\ k - 1 \in 0..(n - 1) /\ (k - 1) + 1 = k  BY <1>4
<1>6. k - 1 \notin S  BY <1>4, <1>5
<1>7. 0..(k - 1) \in F /\ 0..(k - 1) \subseteq X  BY <1>1, <1>4, <1>5, <1>6
<1>8. k \in X /\ k \notin 0..(k - 1)  BY <1>4
<1>9. QED BY <1>3, <1>7, <1>8

\* The recursion by which Start is defined, on the numbers up to n.
StartsTo(f, n) ==
    f = [k \in 0..n |-> IF k = 0 THEN 0 ELSE f[k - 1] + FrameSize(wire[k])]

\* A solution of it, unfolded.
LEMMA StartsAt ==
    ASSUME wire \in Seq(Frame), NEW n \in 0..Len(wire), NEW f, StartsTo(f, n)
    PROVE  /\ f[0] = 0
           /\ \A k \in 1..n : f[k] = f[k - 1] + FrameSize(wire[k])
           /\ \A k \in 0..n : f[k] \in Nat
<1>0. Len(wire) \in Nat  BY LenProperties
<1>1. PICK g : g = [k \in 0..n |-> IF k = 0 THEN 0 ELSE f[k - 1] + FrameSize(wire[k])]  OBVIOUS
<1>2. f = g  BY <1>1 DEF StartsTo
<1>3. f[0] = 0  BY <1>0, <1>1, <1>2
<1>4. ASSUME NEW k \in 1..n PROVE f[k] = f[k - 1] + FrameSize(wire[k])  BY <1>0, <1>1, <1>2
<1>5. PICK S : S = {k \in 0..n : f[k] \in Nat}  OBVIOUS
<1>6. ASSUME NEW k \in 0..(n - 1), k \in S PROVE k + 1 \in S
  <2>1. k + 1 \in 1..n /\ k + 1 \in 1..Len(wire) /\ (k + 1) - 1 = k  BY <1>0
  <2>2. wire[k + 1] \in Frame  BY <2>1, ElementOfSeq
  <2>3. FrameSize(wire[k + 1]) \in Nat  BY <2>2, SizeType
  <2>4. f[k + 1] = f[k] + FrameSize(wire[k + 1])  BY <2>1, <1>4
  <2>5. QED BY <1>5, <1>6, <2>1, <2>3, <2>4
<1>7. 0 \in S  BY <1>0, <1>3, <1>5
<1>8. n \in Nat  BY <1>0
<1>9. 0..n \subseteq S  BY <1>6, <1>7, <1>8, UpTo
<1>10. QED BY <1>3, <1>4, <1>5, <1>9

\* There is one.
LEMMA StartsExist ==
    ASSUME wire \in Seq(Frame), NEW n \in 0..Len(wire)
    PROVE  \E f : StartsTo(f, n)
<1>0. Len(wire) \in Nat /\ n \in Nat  BY LenProperties
<1>1. PICK S : S = {k \in 0..n : \E f : StartsTo(f, k)}  OBVIOUS
<1>2. 0 \in S
  <2>1. StartsTo([k \in 0..0 |-> 0], 0)  BY DEF StartsTo
  <2>2. QED BY <1>0, <1>1, <2>1
<1>3. ASSUME NEW m \in 0..(n - 1), m \in S PROVE m + 1 \in S
  <2>1. PICK f : StartsTo(f, m)  BY <1>1, <1>3
  <2>2. m \in 0..Len(wire) /\ m \in Nat  BY <1>0
  <2>3. /\ f[0] = 0
        /\ \A k \in 1..m : f[k] = f[k - 1] + FrameSize(wire[k])
    BY <2>1, <2>2, StartsAt
  <2>4. PICK g : g = [k \in 0..(m + 1) |-> IF k = m + 1 THEN f[m] + FrameSize(wire[k]) ELSE f[k]]
    OBVIOUS
  <2>5. g[0] = 0  BY <2>2, <2>3, <2>4
  <2>6. ASSUME NEW k \in 1..(m + 1) PROVE g[k] = g[k - 1] + FrameSize(wire[k])
    <3>1. CASE k = m + 1  BY <2>2, <2>4, <3>1
    <3>2. CASE k # m + 1  BY <2>2, <2>3, <2>4, <3>2
    <3>3. QED BY <3>1, <3>2
  <2>7. StartsTo(g, m + 1)
    <3>1. PICK h : h = [k \in 0..(m + 1) |-> IF k = 0 THEN 0 ELSE g[k - 1] + FrameSize(wire[k])]
      OBVIOUS
    <3>2. ASSUME NEW k \in 0..(m + 1) PROVE g[k] = h[k]
      <4>1. CASE k = 0  BY <2>5, <3>1, <4>1
      <4>2. CASE k # 0
        <5>1. k \in 1..(m + 1)  BY <2>2, <4>2
        <5>2. QED BY <2>6, <3>1, <4>2, <5>1
      <4>3. QED BY <4>1, <4>2
    <3>3. g = h  BY <2>4, <3>1, <3>2
    <3>4. QED BY <3>1, <3>3 DEF StartsTo
  <2>8. QED BY <1>0, <1>1, <2>7
<1>4. 0..n \subseteq S  BY <1>0, <1>2, <1>3, UpTo
<1>5. QED BY <1>0, <1>1, <1>4

\* And a longer one agrees with it.
LEMMA StartsAgree ==
    ASSUME wire \in Seq(Frame), NEW m \in 0..Len(wire), NEW n \in 0..m,
           NEW f, NEW g, StartsTo(f, n), StartsTo(g, m)
    PROVE  f[n] = g[n]
<1>0. Len(wire) \in Nat /\ n \in Nat /\ m \in Nat /\ n \in 0..Len(wire)  BY LenProperties
<1>1. /\ f[0] = 0
      /\ \A k \in 1..n : f[k] = f[k - 1] + FrameSize(wire[k])
  BY <1>0, StartsAt
<1>2. /\ g[0] = 0
      /\ \A k \in 1..m : g[k] = g[k - 1] + FrameSize(wire[k])
  BY StartsAt
<1>3. PICK S : S = {k \in 0..n : f[k] = g[k]}  OBVIOUS
<1>4. ASSUME NEW k \in 0..(n - 1), k \in S PROVE k + 1 \in S
  <2>1. k + 1 \in 1..n /\ k + 1 \in 1..m /\ (k + 1) - 1 = k  BY <1>0
  <2>2. f[k + 1] = f[k] + FrameSize(wire[k + 1]) /\ g[k + 1] = g[k] + FrameSize(wire[k + 1])
    BY <1>1, <1>2, <2>1
  <2>3. QED BY <1>3, <1>4, <2>1, <2>2
<1>5. 0 \in S  BY <1>0, <1>1, <1>2, <1>3
<1>6. 0..n \subseteq S  BY <1>0, <1>4, <1>5, UpTo
<1>7. QED BY <1>0, <1>3, <1>6

\* Start is such a solution.
LEMMA StartIs ==
    ASSUME wire \in Seq(Frame), NEW i \in 1..(Len(wire) + 1), NEW m \in (i - 1)..Len(wire),
           NEW f, StartsTo(f, m)
    PROVE  Start(i) = f[i - 1]
<1>0. Len(wire) \in Nat /\ i - 1 \in 0..Len(wire) /\ m \in 0..Len(wire) /\ i - 1 \in 0..m
  BY LenProperties
<1>1. PICK n \in 0..Len(wire) : n = i - 1  BY <1>0
<1>2. PICK g : g = CHOOSE s : StartsTo(s, n)  OBVIOUS
<1>3. StartsTo(g, n)  BY <1>2, StartsExist
<1>4. Start(i) = g[n]  BY <1>1, <1>2 DEF Start, StartsTo
<1>5. g[n] = f[n]  BY <1>0, <1>1, <1>3, StartsAgree
<1>6. QED BY <1>1, <1>4, <1>5

\* Frames follow one another without gaps.
LEMMA StartStep ==
    ASSUME wire \in Seq(Frame)
    PROVE  /\ Start(1) = 0
           /\ \A i \in 1..(Len(wire) + 1) : Start(i) \in Nat
           /\ \A i \in 1..Len(wire) : Start(i + 1) = Start(i) + FrameSize(wire[i])
<1>0. Len(wire) \in Nat /\ Len(wire) \in 0..Len(wire)  BY LenProperties
<1>1. PICK f : StartsTo(f, Len(wire))  BY <1>0, StartsExist
<1>2. /\ f[0] = 0
      /\ \A k \in 1..Len(wire) : f[k] = f[k - 1] + FrameSize(wire[k])
      /\ \A k \in 0..Len(wire) : f[k] \in Nat
  BY <1>0, <1>1, StartsAt
<1>3. ASSUME NEW i \in 1..(Len(wire) + 1) PROVE Start(i) = f[i - 1]
  <2>1. Len(wire) \in (i - 1)..Len(wire)  BY <1>0
  <2>2. QED BY <1>1, <2>1, StartIs
<1>4. ASSUME NEW i \in 1..Len(wire) PROVE Start(i + 1) = Start(i) + FrameSize(wire[i])
  <2>1. i \in 1..(Len(wire) + 1) /\ i + 1 \in 1..(Len(wire) + 1) /\ (i + 1) - 1 = i  BY <1>0
  <2>2. QED BY <1>2, <1>3, <2>1
<1>5. Start(1) = 0
  <2>1. 1 \in 1..(Len(wire) + 1) /\ 1 - 1 = 0  BY <1>0
  <2>2. QED BY <1>2, <1>3, <2>1
<1>6. ASSUME NEW i \in 1..(Len(wire) + 1) PROVE Start(i) \in Nat
  <2>1. i - 1 \in 0..Len(wire)  BY <1>0
  <2>2. QED BY <1>2, <1>3, <2>1
<1>7. QED BY <1>4, <1>5, <1>6

\* A frame ends before any later one starts.
LEMMA StartOrder ==
    ASSUME wire \in Seq(Frame), NEW i \in 1..Len(wire), NEW j \in (i + 1)..(Len(wire) + 1)
    PROVE  Start(i) + FrameSize(wire[i]) <= Start(j)
<1>0. Len(wire) \in Nat  BY LenProperties
<1>1. PICK n \in Nat : n = Len(wire) - i  BY <1>0
<1>2. PICK S : S = {k \in 0..n : Start(i + 1) <= Start(i + 1 + k)}  OBVIOUS
<1>3. i + 1 \in 1..(Len(wire) + 1) /\ Start(i + 1) \in Nat  BY <1>0, StartStep
<1>4. ASSUME NEW k \in 0..(n - 1), k \in S PROVE k + 1 \in S
  <2>1. i + 1 + k \in 1..Len(wire) /\ i + 1 + (k + 1) = (i + 1 + k) + 1 /\ k + 1 \in 0..n
        /\ i + 1 + k \in 1..(Len(wire) + 1) /\ i + 1 + (k + 1) \in 1..(Len(wire) + 1)
    BY <1>0, <1>1
  <2>2. Start(i + 1 + (k + 1)) = Start(i + 1 + k) + FrameSize(wire[i + 1 + k])  BY <2>1, StartStep
  <2>3. Start(i + 1 + k) \in Nat /\ FrameSize(wire[i + 1 + k]) \in Nat
    BY <2>1, StartStep, ElementOfSeq, SizeType
  <2>4. Start(i + 1) <= Start(i + 1 + k)  BY <1>2, <1>4
  <2>5. Start(i + 1) <= Start(i + 1 + (k + 1))  BY <1>3, <2>2, <2>3, <2>4
  <2>6. QED BY <1>2, <2>1, <2>5
<1>5. 0 \in S  BY <1>1, <1>2, <1>3
<1>6. 0..n \subseteq S  BY <1>1, <1>4, <1>5, UpTo
<1>7. PICK k \in 0..n : k = j - i - 1  BY <1>0, <1>1
<1>8. i + 1 + k = j  BY <1>0, <1>7
<1>9. Start(i + 1) <= Start(j)  BY <1>2, <1>6, <1>7, <1>8
<1>10. Start(i + 1) = Start(i) + FrameSize(wire[i])  BY StartStep
<1>11. QED BY <1>9, <1>10

\* The frames that end at or before an offset within frame c, or at its start, are those before c.
LEMMA FrameCount ==
    ASSUME wire \in Seq(Frame), NEW c \in 1..(Len(wire) + 1), NEW p \in Nat, Start(c) <= p,
           c \in DOMAIN wire => p < Start(c) + FrameSize(wire[c])
    PROVE  Cardinality({i \in DOMAIN wire : Start(i + 1) <= p}) + 1 = c
<1>0. Len(wire) \in Nat /\ DOMAIN wire = 1..Len(wire)  BY LenProperties
<1>1. ASSUME NEW i \in 1..Len(wire) PROVE Start(i + 1) <= p <=> i < c
  <2>1. i + 1 \in 1..(Len(wire) + 1) /\ Start(i + 1) \in Nat /\ Start(c) \in Nat
    BY <1>0, StartStep
  <2>2. Start(i + 1) = Start(i) + FrameSize(wire[i])  BY StartStep
  <2>3. CASE i < c
    <3>1. c \in (i + 1)..(Len(wire) + 1)  BY <1>0, <2>3
    <3>2. Start(i + 1) <= Start(c)  BY <2>2, <3>1, StartOrder
    <3>3. QED BY <2>1, <2>3, <3>2
  <2>4. CASE i = c
    <3>1. p < Start(i + 1)  BY <1>0, <2>2, <2>4
    <3>2. QED BY <2>1, <2>4, <3>1
  <2>5. CASE i > c
    <3>1. c \in 1..Len(wire) /\ i + 1 \in (c + 1)..(Len(wire) + 1)  BY <1>0, <2>5
    <3>2. Start(c) + FrameSize(wire[c]) <= Start(i + 1)  BY <3>1, StartOrder
    <3>3. FrameSize(wire[c]) \in Nat  BY <3>1, ElementOfSeq, SizeType
    <3>4. p < Start(i + 1)  BY <1>0, <2>1, <3>1, <3>2, <3>3
    <3>5. QED BY <2>1, <2>5, <3>4
  <2>6. QED BY <1>0, <2>3, <2>4, <2>5
<1>2. {i \in DOMAIN wire : Start(i + 1) <= p} = 1..(c - 1)
  <2>1. \A i \in 1..Len(wire) : i < c <=> i \in 1..(c - 1)  BY <1>0
  <2>2. 1..(c - 1) \subseteq 1..Len(wire)  BY <1>0
  <2>3. QED BY <1>0, <1>1, <2>1, <2>2
<1>3. Cardinality(1..(c - 1)) = c - 1
  <2>1. 1 \in Int /\ c - 1 \in Int  BY <1>0
  <2>2. Cardinality(1..(c - 1)) = IF 1 > c - 1 THEN 0 ELSE (c - 1) - 1 + 1  BY <2>1, FS_Interval
  <2>3. QED BY <1>0, <2>2
<1>4. Cardinality({i \in DOMAIN wire : Start(i + 1) <= p}) = c - 1  BY Zenon, <1>2, <1>3
<1>5. (c - 1) + 1 = c  BY <1>0
<1>6. QED BY <1>4, <1>5

\* The header at a frame's start is that frame's.
LEMMA HeaderOf ==
    ASSUME wire \in Seq(Frame), NEW c \in DOMAIN wire
    PROVE  HeaderAt(Start(c)) = wire[c]
<1>0. Len(wire) \in Nat /\ DOMAIN wire = 1..Len(wire)  BY LenProperties
<1>1. ASSUME NEW i \in DOMAIN wire, Start(i) = Start(c) PROVE i = c
  <2>1. Start(i) \in Nat /\ Start(c) \in Nat  BY <1>0, StartStep
  <2>2. /\ FrameSize(wire[i]) \in Nat /\ FrameSize(wire[i]) > 0
        /\ FrameSize(wire[c]) \in Nat /\ FrameSize(wire[c]) > 0
    <3>1. wire[i] \in Frame /\ wire[c] \in Frame  BY <1>0, ElementOfSeq
    <3>2. \A f \in Frame : FrameSize(f) \in Nat /\ FrameSize(f) > 0
      <4>1. SUFFICES ASSUME NEW f \in Frame PROVE FrameSize(f) \in Nat /\ FrameSize(f) > 0  OBVIOUS
      <4>2. HeaderLength(f) \in Nat /\ HeaderLength(f) >= 2 /\ f.len \in Nat
            /\ FrameSize(f) = HeaderLength(f) + f.len
        BY SizeType
      <4>3. QED BY <4>2
    <3>3. QED BY <3>1, <3>2
  <2>3. CASE i < c
    <3>1. Start(i) + FrameSize(wire[i]) <= Start(c)  BY <1>0, <2>3, StartOrder
    <3>2. QED BY <1>1, <2>1, <2>2, <3>1
  <2>4. CASE c < i
    <3>1. Start(c) + FrameSize(wire[c]) <= Start(i)  BY <1>0, <2>4, StartOrder
    <3>2. QED BY <1>1, <2>1, <2>2, <3>1
  <2>5. QED BY <1>0, <2>3, <2>4
<1>2. FramesAt(Start(c)) = {c}  BY <1>1 DEF FramesAt
<1>3. QED BY <1>2 DEF HeaderAt

\* Every byte of a payload is where it should be, and only there.
LEMMA BytesOf ==
    ASSUME wire \in Seq(Frame), NEW c \in DOMAIN wire, NEW k \in 1..wire[c].len
    PROVE  BytesAt(Start(c) + HeaderLength(wire[c]) + k - 1) = {<<c, k>>}
<1>0. Len(wire) \in Nat /\ DOMAIN wire = 1..Len(wire)  BY LenProperties
<1>1. \A i \in DOMAIN wire :
        /\ Start(i) \in Nat /\ HeaderLength(wire[i]) \in Nat /\ wire[i].len \in Nat
        /\ FrameSize(wire[i]) = HeaderLength(wire[i]) + wire[i].len
  BY <1>0, StartStep, ElementOfSeq, SizeType
<1>2. PICK p \in Nat : p = Start(c) + HeaderLength(wire[c]) + k - 1
  BY <1>1
<1>3. ASSUME NEW i \in DOMAIN wire, NEW q \in 1..wire[i].len,
             Start(i) + HeaderLength(wire[i]) + q - 1 = p
      PROVE  i = c /\ q = k
  <2>1. PICK s, h, l \in Nat :
          /\ s = Start(i) /\ h = HeaderLength(wire[i]) /\ l = wire[i].len /\ FrameSize(wire[i]) = h + l
    BY <1>1
  <2>2. PICK t, g, m \in Nat :
          /\ t = Start(c) /\ g = HeaderLength(wire[c]) /\ m = wire[c].len /\ FrameSize(wire[c]) = g + m
    BY <1>1
  <2>3. q \in 1..l /\ k \in 1..m  BY Zenon, <2>1, <2>2
  <2>4. p = s + h + q - 1 /\ p = t + g + k - 1  BY Zenon, <1>2, <1>3, <2>1, <2>2
  <2>5. s \in Nat /\ h \in Nat /\ l \in Nat /\ t \in Nat /\ g \in Nat /\ m \in Nat  OBVIOUS
  <2>6. CASE i < c
    <3>1. Start(i) + FrameSize(wire[i]) <= Start(c)  BY <1>0, <2>6, StartOrder
    <3>2. s + (h + l) <= t  BY Zenon, <2>1, <2>2, <3>1
    <3>3. QED BY ONLY <2>3, <2>4, <2>5, <3>2
  <2>7. CASE c < i
    <3>1. Start(c) + FrameSize(wire[c]) <= Start(i)  BY <1>0, <2>7, StartOrder
    <3>2. t + (g + m) <= s  BY Zenon, <2>1, <2>2, <3>1
    <3>3. QED BY ONLY <2>3, <2>4, <2>5, <3>2
  <2>8. CASE i = c
    <3>1. s = t /\ h = g  BY Zenon, <2>1, <2>2, <2>8
    <3>2. q = k  BY ONLY <2>3, <2>4, <2>5, <3>1
    <3>3. QED BY <2>8, <3>2
  <2>9. QED BY <1>0, <2>6, <2>7, <2>8
<1>4. <<c, k>> \in PayloadBytes  BY DEF PayloadBytes
<1>5. <<c, k>> \in BytesAt(p)  BY <1>2, <1>4 DEF BytesAt
<1>6. ASSUME NEW b \in BytesAt(p) PROVE b = <<c, k>>
  <2>1. PICK i \in DOMAIN wire : b \in {i} \X (1..wire[i].len)  BY DEF BytesAt, PayloadBytes
  <2>2. b = <<b[1], b[2]>> /\ b[1] = i /\ b[2] \in 1..wire[i].len  BY <2>1
  <2>3. Start(i) + HeaderLength(wire[i]) + b[2] - 1 = p  BY <2>2 DEF BytesAt
  <2>4. QED BY <1>3, <2>2, <2>3
<1>7. BytesAt(p) = {<<c, k>>}  BY <1>5, <1>6
<1>8. QED BY <1>2, <1>7

\* Unmasking part of a payload with the mask rotated by what came before gives that part.
LEMMA UnmaskOf ==
    ASSUME wire \in Seq(Frame), NEW c \in DOMAIN wire, NEW k \in Nat, NEW n \in Nat,
           k + n <= wire[c].len
    PROVE  Unmask(Start(c) + HeaderLength(wire[c]) + k, n, k % 4) = [j \in 1..n |-> <<c, k + j>>]
<1>0. Len(wire) \in Nat /\ DOMAIN wire = 1..Len(wire)  BY LenProperties
<1>1. Start(c) \in Nat /\ HeaderLength(wire[c]) \in Nat /\ wire[c].len \in Nat
  BY <1>0, StartStep, ElementOfSeq, SizeType
<1>2. PICK p \in Nat : p = Start(c) + HeaderLength(wire[c]) + k  BY <1>1
<1>3. ASSUME NEW j \in 1..n PROVE Unmasked(p + j - 1, ((k % 4) + j - 1) % 4) = <<c, k + j>>
  <2>1. k + j \in 1..wire[c].len  BY <1>1
  <2>2. p + j - 1 = Start(c) + HeaderLength(wire[c]) + (k + j) - 1  BY <1>1, <1>2
  <2>3. BytesAt(p + j - 1) = {<<c, k + j>>}  BY <2>1, <2>2, BytesOf
  <2>4. (k + j - 1) % 4 = ((k % 4) + j - 1) % 4  OBVIOUS
  <2>5. PICK r : r = ((k % 4) + j - 1) % 4  OBVIOUS
  <2>6. (<<c, k + j>>[2] - 1) % 4 = r  BY <2>4, <2>5
  <2>7. Unmasked(p + j - 1, r) = <<c, k + j>>  BY <2>3, <2>6 DEF Unmasked
  <2>8. QED BY <2>5, <2>7
<1>4. Unmask(p, n, k % 4) = [j \in 1..n |-> <<c, k + j>>]  BY <1>3 DEF Unmask
<1>5. QED BY <1>2, <1>4

-----------------------------------------------------------------------------
(* Where the parser is in the stream, and what it has of the current frame *)

\* A header that was accepted.
Sound(f) ==
    /\ ~f.malformed /\ f.op \in Stacked \cup {NONE}
    /\ f.rsv1 => Deflate /\ f.op \in DataOpCodes
    /\ f.op >= CLOSE => f.fin /\ f.len <= ShortMax
    /\ f.op <= BINARY => ~TooLong(f.len)

\* The parser is at the start of a frame, or so far into the payload of one as it has handled,
\* and the mask, the opcode stack and lastFin are that frame's.
Aligned ==
    ~closing =>
        /\ received <= StreamLength
        /\ pc = "second" => src + rest = received
        /\ CurrentFrame \in 1..(Len(wire) + 1)
        /\ wantsHead => Position = Start(CurrentFrame)
        /\ ~wantsHead =>
              LET f == wire[CurrentFrame] IN
              /\ CurrentFrame \in DOMAIN wire /\ remainingBytes \in 1..f.len
              /\ Position = Start(CurrentFrame) + HeaderLength(f) + Pending
              /\ mask = Pending % 4
              /\ lastFin = f.fin
              /\ Sound(f)
              /\ IF f.op = NONE THEN opStack = 0 /\ InDataFrame ELSE opCode[opStack] = f.op

\* The bytes handled of the current frame lie on top of fragmentBuffer, unless they are
\* ignored, and the message was checked for its length.
Part == [j \in 1..Pending |-> <<CurrentFrame, j>>]
Gathered ==
    ~closing /\ ~wantsHead =>
        /\ InDataFrame /\ ~closeSent => ~TooLong(Len(fragmentBuffer) + remainingBytes)
        /\ InDataFrame /\ ~closeSent /\ wire[CurrentFrame].op # NONE =>
              (compression = "COMPRESSED_FRAME" <=> wire[CurrentFrame].rsv1)
        /\ ~InDataFrame => controlTipLength = Pending
        /\ ~InDataFrame \/ ~closeSent => fragmentBuffer = CompleteFragments \o Part

\* A compressed message is in progress when compressionStatus says so, until our Close is out.
Inflating ==
    ~closing =>
        /\ compression = "DISABLED" <=> ~Deflate
        /\ ~closeSent /\ ~fragmented /\ (wantsHead \/ ~InDataFrame) => compression # "COMPRESSED_FRAME"

\* The inductive invariant of the refinement.
StreamInv == SessionInv /\ ReadInv /\ Aligned /\ Gathered /\ Inflating

\* The offsets of frames do not change.
LEMMA SameStream ==
    ASSUME wire' = wire
    PROVE  /\ \A i : Start(i)' = Start(i)
           /\ StreamLength' = StreamLength
           /\ FramesParsed' = Cardinality({i \in DOMAIN wire : Start(i + 1) <= Position'})
<1>1. \A i : Start(i)' = Start(i)  BY DEF Start, FrameSize, HeaderLength
<1>2. StreamLength' = StreamLength  BY <1>1 DEF StreamLength
<1>3. FramesParsed' = Cardinality({i \in DOMAIN wire : Start(i + 1) <= Position'})
  BY <1>1 DEF FramesParsed
<1>4. QED BY <1>1, <1>2, <1>3

\* The frame at hand after a step that leaves the parser within frame c, or at its start.
LEMMA MovesTo ==
    ASSUME wire \in Seq(Frame), wire' = wire, NEW c \in 1..(Len(wire) + 1), Position' \in Nat,
           Start(c) <= Position', c \in DOMAIN wire => Position' < Start(c) + FrameSize(wire[c])
    PROVE  CurrentFrame' = c
<1>1. PICK p \in Nat : p = Position'  OBVIOUS
<1>2. Cardinality({i \in DOMAIN wire : Start(i + 1) <= p}) + 1 = c  BY <1>1, FrameCount
<1>3. FramesParsed' = Cardinality({i \in DOMAIN wire : Start(i + 1) <= p})  BY <1>1, SameStream
<1>4. CurrentFrame' = FramesParsed' + 1  BY DEF CurrentFrame
<1>5. QED BY <1>2, <1>3, <1>4

\* What the parser knows of the current frame.
LEMMA Located ==
    ASSUME StreamInv, ~closing
    PROVE  /\ wire \in Seq(Frame) /\ Len(wire) \in Nat /\ DOMAIN wire = 1..Len(wire)
           /\ CurrentFrame \in 1..(Len(wire) + 1) /\ Start(CurrentFrame) \in Nat
           /\ \A i \in DOMAIN wire :
                /\ wire[i] \in Frame /\ FrameSize(wire[i]) = HeaderLength(wire[i]) + wire[i].len
                /\ HeaderLength(wire[i]) \in Nat /\ HeaderLength(wire[i]) >= 2 /\ wire[i].len \in Nat
           /\ Pending \in Nat
           /\ CompleteFragments \in Tokens /\ fragmentBuffer \in Tokens
           /\ Part \in Tokens /\ Len(Part) = Pending
<1>1. wire \in Seq(Frame) /\ fragmentBuffer \in Tokens  BY DEF StreamInv, SessionInv, TypeOK, Tokens
<1>2. Len(wire) \in Nat /\ DOMAIN wire = 1..Len(wire)  BY <1>1, LenProperties
<1>3. CurrentFrame \in 1..(Len(wire) + 1)  BY DEF StreamInv, Aligned
<1>4. Start(CurrentFrame) \in Nat  BY <1>1, <1>3, StartStep
<1>5. ASSUME NEW i \in DOMAIN wire
      PROVE  /\ wire[i] \in Frame /\ FrameSize(wire[i]) = HeaderLength(wire[i]) + wire[i].len
             /\ HeaderLength(wire[i]) \in Nat /\ HeaderLength(wire[i]) >= 2 /\ wire[i].len \in Nat
  <2>1. wire[i] \in Frame  BY <1>1, <1>2, ElementOfSeq
  <2>2. QED BY <2>1, SizeType
<1>6. Pending \in Nat
  <2>1. CASE wantsHead  BY <2>1 DEF Pending
  <2>2. CASE ~wantsHead
    <3>1. CurrentFrame \in DOMAIN wire /\ remainingBytes \in 1..wire[CurrentFrame].len
      BY <2>2 DEF StreamInv, Aligned
    <3>2. QED BY <1>5, <2>2, <3>1 DEF Pending
  <2>3. QED BY <2>1, <2>2
<1>7. CompleteFragments \in Tokens
  <2>1. Len(fragmentBuffer) \in Nat /\ DOMAIN fragmentBuffer = 1..Len(fragmentBuffer)
    BY <1>1, LenProperties DEF Tokens
  <2>a. PICK len, k \in Nat : len = Len(fragmentBuffer) /\ k = Pending  BY <1>6, <2>1
  <2>2. PICK n \in Int : n = len - k  OBVIOUS
  <2>3. \A i \in 1..n : fragmentBuffer[i] \in Nat \X Nat
    BY <1>1, <2>1, <2>a, <2>2, ElementOfSeq DEF Tokens
  <2>4. SubSeq(fragmentBuffer, 1, n) \in Seq(Nat \X Nat)  BY <2>3, SubSeqProperties
  <2>5. QED BY <2>a, <2>2, <2>4 DEF CompleteFragments, Tokens
<1>8. Part \in Tokens /\ Len(Part) = Pending
  <2>1. CurrentFrame \in Nat  BY <1>2, <1>3
  <2>2. \A j \in 1..Pending : <<CurrentFrame, j>> \in Nat \X Nat  BY <1>6, <2>1
  <2>3. PICK n \in Nat : n = Pending  BY <1>6
  <2>4. Part = [j \in 1..n |-> <<CurrentFrame, j>>]  BY <2>3 DEF Part
  <2>5. Part \in Seq(Nat \X Nat) /\ Len(Part) = n  BY <2>2, <2>3, <2>4
  <2>6. QED BY <2>3, <2>5 DEF Tokens
<1>9. QED BY <1>1, <1>2, <1>3, <1>4, <1>5, <1>6, <1>7, <1>8

\* A step that stays where it is keeps all that.
LEMMA Steady ==
    ASSUME Aligned, Gathered, Inflating,
           UNCHANGED <<wire, wantsHead, remainingBytes, mask, stackVars, compression, fragmentBuffer,
                       controlTipLength, closing>>,
           Position' = Position, closeSent => closeSent',
           ~closing => received' <= StreamLength, pc' = "second" => src' + rest' = received'
    PROVE  /\ Aligned' /\ Gathered' /\ Inflating'
           /\ UNCHANGED <<CurrentFrame, MessageOpcode, CompleteFragments>>
<1>1. \A i : Start(i)' = Start(i)  BY SameStream
<1>2. StreamLength' = StreamLength  BY SameStream
<1>3. CurrentFrame' = CurrentFrame  BY SameStream DEF CurrentFrame, FramesParsed
<1>4. UNCHANGED <<opStack, opCode, lastFin, fragmented>>  BY DEF stackVars
<1>5. Pending' = Pending /\ InDataFrame' = InDataFrame  BY <1>3, <1>4 DEF Pending, InDataFrame
<1>6. CompleteFragments' = CompleteFragments /\ Part' = Part
  BY <1>3, <1>5 DEF CompleteFragments, Part
<1>7. MessageOpcode' = MessageOpcode  BY <1>3, <1>4, <1>5 DEF MessageOpcode
<1>8. Start(CurrentFrame)' = Start(CurrentFrame)  BY <1>1, <1>3 DEF Start, FrameSize, HeaderLength
<1>9. Aligned'
  <2>1. Sound(wire[CurrentFrame])' = Sound(wire[CurrentFrame])
        /\ HeaderLength(wire[CurrentFrame])' = HeaderLength(wire[CurrentFrame])
    BY <1>3 DEF Sound, TooLong, HeaderLength
  <2>2. QED BY <1>2, <1>3, <1>4, <1>5, <1>8, <2>1 DEF Aligned
<1>10. Gathered'
  <2>1. TooLong(Len(fragmentBuffer) + remainingBytes)' = TooLong(Len(fragmentBuffer) + remainingBytes)
    BY DEF TooLong
  <2>2. QED BY <1>3, <1>5, <1>6, <2>1 DEF Gathered
<1>11. Inflating'  BY <1>4, <1>5 DEF Inflating
<1>12. QED BY <1>3, <1>6, <1>7, <1>9, <1>10, <1>11

-----------------------------------------------------------------------------
(* What MessageStream makes of it *)

\* Both modules speak the same language.
LEMMA Words ==
    /\ \A i : Promise!Payload(wire, i) = Payload(wire, i)
    /\ \A o, z, d : Promise!MessageFault(wire, o, z, d) = MessageFault(wire, o, z, d)
    /\ \A d : Promise!CloseCode(wire, d) = CloseCode(wire, d)
    /\ \A n : Promise!TooLong(n) <=> TooLong(n)
    /\ \A o, d : Promise!MessageEvent(o, d) = MessageEvent(o, d)
    /\ \A o, c, d : Promise!FrameEvent(o, c, d) = FrameEvent(o, c, d)
    /\ \A c, d : Promise!CloseEvent(c, d) = CloseEvent(c, d)
    /\ \A o : Promise!SentFrame(o) = SentFrame(o)
    /\ Promise!NONE = NONE /\ Promise!TEXT = TEXT /\ Promise!BINARY = BINARY
    /\ Promise!CLOSE = CLOSE /\ Promise!PING = PING /\ Promise!PONG = PONG
    /\ Promise!DataOpCodes = DataOpCodes
<1>1. \A i : Promise!Payload(wire, i) = Payload(wire, i)  BY DEF Promise!Payload, Payload
<1>2. \A d : Promise!Kinds(wire, d) = Kinds(wire, d)
  BY DEF Promise!Kinds, Kinds, Promise!Garbled, Garbled, Promise!ToSet, ToSet
<1>3. /\ Promise!NONE = NONE /\ Promise!TEXT = TEXT /\ Promise!BINARY = BINARY
      /\ Promise!CLOSE = CLOSE /\ Promise!PING = PING /\ Promise!PONG = PONG
      /\ Promise!DataOpCodes = DataOpCodes
  BY DEF Promise!NONE, NONE, Promise!TEXT, TEXT, Promise!BINARY, BINARY, Promise!CLOSE, CLOSE,
     Promise!PING, PING, Promise!PONG, PONG, Promise!DataOpCodes, DataOpCodes
<1>4. \A o, z, d : Promise!MessageFault(wire, o, z, d) = MessageFault(wire, o, z, d)
  BY <1>2, <1>3 DEF Promise!MessageFault, MessageFault
<1>5. \A d : Promise!CloseCode(wire, d) = CloseCode(wire, d)
  BY <1>2 DEF Promise!CloseCode, CloseCode
<1>6. \A n : Promise!TooLong(n) <=> TooLong(n)  BY DEF Promise!TooLong, TooLong
<1>7. /\ \A o, d : Promise!MessageEvent(o, d) = MessageEvent(o, d)
      /\ \A o, c, d : Promise!FrameEvent(o, c, d) = FrameEvent(o, c, d)
      /\ \A c, d : Promise!CloseEvent(c, d) = CloseEvent(c, d)
      /\ \A o : Promise!SentFrame(o) = SentFrame(o)
  BY <1>3 DEF Promise!MessageEvent, MessageEvent, Promise!FrameEvent, FrameEvent,
     Promise!CloseEvent, CloseEvent, Promise!SentFrame, SentFrame
<1>8. QED BY <1>1, <1>3, <1>4, <1>5, <1>6, <1>7

\* The end of the session is the same in both.
LEMMA Shuts ==
    ASSUME NEW reply, NEW code, NEW reason, EndSession(reply, code, reason), wire' = wire
    PROVE  Promise!Shut(reply, code, reason)
<1>1. closing' = TRUE /\ closeSent' = TRUE
      /\ log' = log \o (IF closeSent THEN <<>> ELSE <<FrameEvent(CLOSE, reply, reason)>>)
                    \o <<CloseEvent(code, reason)>>
  BY DEF EndSession
<1>2. MessageOpcode' = NONE  BY <1>1 DEF MessageOpcode
<1>3. QED BY <1>1, <1>2, Words DEF Promise!Shut

\* A step that shows nothing.
Unseen == UNCHANGED <<wire, CurrentFrame, MessageOpcode, compression, CompleteFragments, closing,
                      closeSent, log>>
\* MessageStream stutters then.
LEMMA Stutters == ASSUME Unseen PROVE UNCHANGED Promise!vars
BY DEF Unseen, Promise!vars

\* Reads arriving, and the second call of a read, leave the parser where it is.
LEMMA ConsumeKeeps ==
    ASSUME StreamInv, NEW n \in 1..StreamLength, Consume(n)
    PROVE  Aligned' /\ Gathered' /\ Inflating' /\ Unseen
<1>1. pc = "idle" /\ ~closing /\ received' = received + n /\ n \in 1..(StreamLength - received)
      /\ UNCHANGED <<wire, headVars, stackVars, sessionVars>>
  BY DEF Consume
<1>2. src' = received - spillLength /\ pc' \in {"head", "continuation"}  BY DEF Consume, Enter
<1>3. received \in Nat /\ StreamLength \in Nat
  <2>1. wire \in Seq(Frame) /\ received \in Nat  BY DEF StreamInv, SessionInv, TypeOK
  <2>2. Len(wire) + 1 \in 1..(Len(wire) + 1)
    <3>1. Len(wire) \in Nat  BY <2>1, LenProperties
    <3>2. QED BY <3>1
  <2>3. QED BY <2>1, <2>2, StartStep DEF StreamLength
<1>4. Position' = Position /\ pc' # "second"  BY <1>1, <1>2 DEF Position
<1>5. received' <= StreamLength  BY <1>1, <1>3
<1>6. QED BY <1>1, <1>4, <1>5, Steady DEF StreamInv, Unseen, headVars, sessionVars

\* The second call starts where the first one stopped.
LEMMA SecondCallKeeps ==
    ASSUME StreamInv, SecondCall
    PROVE  Aligned' /\ Gathered' /\ Inflating' /\ Unseen
<1>1. pc = "second" /\ received' = received /\ src' = received - rest - spillLength
      /\ pc' \in {"head", "continuation"} /\ UNCHANGED <<wire, headVars, stackVars, sessionVars>>
  BY DEF SecondCall, Enter
<1>2. ~closing /\ spillLength = 0 /\ src + rest = received
  BY <1>1 DEF StreamInv, SessionInv, CallState, ReadInv, StaysInRead, Aligned
<1>3. Position' = Position
  <2>1. received \in Nat /\ src \in Int /\ rest \in Nat  BY DEF StreamInv, SessionInv, TypeOK
  <2>2. src' = src  BY <1>1, <1>2, <2>1
  <2>3. QED BY <1>1, <2>2 DEF Position
<1>4. received' <= StreamLength /\ pc' # "second"  BY <1>1, <1>2 DEF StreamInv, Aligned
<1>5. QED BY <1>1, <1>3, <1>4, Steady DEF StreamInv, Unseen, headVars, sessionVars

\* So does keeping the bytes of an incomplete header: they are not parsed.
LEMMA SpillHeaderKeeps ==
    ASSUME StreamInv, SpillHeader
    PROVE  Aligned' /\ Gathered' /\ Inflating' /\ Unseen
<1>1. /\ pc = "head" /\ ~HeaderReady /\ received' = received
      /\ spillLength' = (IF length > 0 THEN length ELSE spillLength) /\ src' = src + length
      /\ UNCHANGED <<wire, wantsHead, remainingBytes, mask, stackVars, sessionVars>>
  BY DEF SpillHeader, EndOfCall
<1>2. ~closing  BY <1>1 DEF StreamInv, SessionInv, CallState
<1>3. closing' = closing  BY <1>1 DEF sessionVars
<1>4. IF rest > 0 THEN pc' = "second" /\ rest' = rest ELSE pc' = "idle" /\ rest' = 0
  BY <1>2, <1>3 DEF SpillHeader, EndOfCall
<1>5. received \in Nat /\ src \in Int /\ rest \in Nat /\ length \in Nat /\ spillLength \in Nat
  BY DEF StreamInv, SessionInv, TypeOK
<1>6. src + length + rest = received /\ spillLength <= length
  BY <1>1 DEF StreamInv, ReadInv, StaysInRead
<1>7. rest > 0 => length = 0
  <2>1. HeaderLength(Header) >= ShortHeader
    BY FramesAssumption DEF HeaderLength
  <2>2. length # HeaderLength(Header)
    <3>1. HeaderLength(Header) \in Nat  BY Counts DEF Header, StreamInv
    <3>2. length < ShortHeader \/ length < HeaderLength(Header)
      BY <1>1, <1>5, <3>1, FramesAssumption DEF HeaderReady
    <3>3. QED BY <1>5, <2>1, <3>1, <3>2, FramesAssumption
  <2>3. QED BY <1>1, <2>2 DEF StreamInv, ReadInv, Header
<1>8. Position' = Position /\ (pc' = "second" => src' + rest' = received')
  <2>1. CASE rest > 0
    <3>1. pc' = "second" /\ rest' = rest /\ src' = src  BY <1>1, <1>4, <1>5, <1>7, <2>1
    <3>2. QED BY <1>1, <1>5, <1>6, <1>7, <2>1, <3>1 DEF Position
  <2>2. CASE ~(rest > 0)
    <3>1. pc' = "idle" /\ rest = 0  BY ONLY <1>4, <1>5, <2>2
    <3>a. received' = received /\ spillLength' = length  BY <1>1, <1>5, <1>6
    <3>2. received' - spillLength' = src  BY <1>5, <1>6, <3>1, <3>a
    <3>3. QED BY <1>1, <3>1, <3>2 DEF Position
  <2>3. QED BY <2>1, <2>2
<1>9. received' <= StreamLength  BY <1>1, <1>2 DEF StreamInv, Aligned
<1>10. QED BY <1>1, <1>8, <1>9, Steady DEF StreamInv, Unseen, sessionVars

\* Creating a frame leaves the parser alone, and is seen.
LEMMA CreateFrameKeeps ==
    ASSUME StreamInv, CreateFrame
    PROVE  Aligned' /\ Gathered' /\ Inflating' /\ Promise!CreateFrame
<1>1. UNCHANGED <<wire, readVars, headVars, stackVars, compression, fragmentBuffer, controlTipLength,
                  closing, closeSent>>
  BY DEF CreateFrame
<1>2. pc = "idle" /\ ~closing /\ ~closeSent  BY DEF CreateFrame, MayCreate
<1>3. Position' = Position /\ received' <= StreamLength /\ pc' # "second"
  BY <1>1, <1>2 DEF readVars, headVars, Position, StreamInv, Aligned
<1>4. /\ Aligned' /\ Gathered' /\ Inflating'
      /\ UNCHANGED <<CurrentFrame, MessageOpcode, CompleteFragments>>
  BY <1>1, <1>3, Steady DEF StreamInv, headVars
<1>5. Promise!DataFramesSent = DataFramesSent
  BY Zenon DEF Promise!DataFramesSent, DataFramesSent, Promise!CLOSE, CLOSE, Promise!Cardinality, Cardinality
<1>6. QED BY <1>1, <1>2, <1>4, <1>5, Words DEF CreateFrame, Promise!CreateFrame

\* Nor does creating our Close, with which the message in progress is given up.
LEMMA CreateCloseKeeps ==
    ASSUME StreamInv, CreateCloseFrame
    PROVE  Aligned' /\ Gathered' /\ Inflating' /\ Promise!CreateClose
<1>1. UNCHANGED <<wire, readVars, headVars, stackVars, compression, fragmentBuffer, controlTipLength,
                  closing>> /\ closeSent' = TRUE /\ log' = Append(log, SentFrame(CLOSE))
  BY DEF CreateCloseFrame
<1>2. pc = "idle" /\ ~closing /\ ~closeSent  BY DEF CreateCloseFrame, MayCreate
<1>3. Position' = Position /\ received' <= StreamLength /\ pc' # "second"
  BY <1>1, <1>2 DEF readVars, headVars, Position, StreamInv, Aligned
<1>4. /\ Aligned' /\ Gathered' /\ Inflating'
      /\ UNCHANGED <<CurrentFrame, MessageOpcode, CompleteFragments>>
  BY <1>1, <1>3, Steady DEF StreamInv, headVars
<1>5. QED BY <1>1, <1>2, <1>4, Words DEF Promise!CreateClose

\* A complete header is that of the current frame, of which nothing was handled.
LEMMA HeaderFacts ==
    ASSUME StreamInv, HeaderReady
    PROVE  /\ ~closing /\ wantsHead /\ pc = "head" /\ controlTipLength = 0
           /\ CurrentFrame \in DOMAIN wire /\ Header = wire[CurrentFrame]
           /\ src = Start(CurrentFrame) /\ src + length + rest = received
           /\ length \in Nat /\ rest \in Nat /\ length >= HeaderLength(Header)
           /\ Pending = 0 /\ CompleteFragments = fragmentBuffer
           /\ MessageOpcode = IF fragmented THEN opCode[0] ELSE NONE
           /\ opStack = IF fragmented THEN 0 ELSE -1
           /\ fragmented => opCode[0] \in DataOpCodes
<1>1. pc = "head" /\ length >= HeaderLength(Header) /\ length >= ShortHeader  BY DEF HeaderReady
<1>2. ~closing /\ wantsHead  BY <1>1 DEF StreamInv, SessionInv, CallState
<1>3. controlTipLength = 0  BY <1>2 DEF StreamInv, SessionInv, TipIsControlFrame
<1>4. src = Start(CurrentFrame) /\ received <= StreamLength
  BY <1>1, <1>2 DEF StreamInv, Aligned, Position
<1>5. src + length + rest = received  BY <1>1 DEF StreamInv, ReadInv, StaysInRead
<1>6. length \in Nat /\ rest \in Nat /\ received \in Nat  BY DEF StreamInv, SessionInv, TypeOK
<1>7. /\ wire \in Seq(Frame) /\ Len(wire) \in Nat /\ DOMAIN wire = 1..Len(wire)
      /\ CurrentFrame \in 1..(Len(wire) + 1) /\ Start(CurrentFrame) \in Nat
      /\ fragmentBuffer \in Tokens
  BY <1>2, Located
<1>8. CurrentFrame \in DOMAIN wire
  <2>1. CurrentFrame # Len(wire) + 1
    <3>1. length > 0  BY <1>1, <1>6, FramesAssumption
    <3>2. Start(CurrentFrame) < StreamLength
      <4>1. Len(wire) + 1 \in 1..(Len(wire) + 1)  BY <1>7
      <4>2. StreamLength \in Nat  BY <1>7, <4>1, StartStep DEF StreamLength
      <4>3. QED BY <1>4, <1>5, <1>6, <1>7, <3>1, <4>2
    <3>3. QED BY <1>7, <3>2 DEF StreamLength
  <2>2. QED BY <1>7, <2>1
<1>9. Header = wire[CurrentFrame]  BY <1>4, <1>7, <1>8, HeaderOf DEF Header
<1>10. Pending = 0  BY <1>2 DEF Pending
<1>11. CompleteFragments = fragmentBuffer
  <2>1. Len(fragmentBuffer) \in Nat  BY <1>7, LenProperties DEF Tokens
  <2>2. Len(fragmentBuffer) - 0 = Len(fragmentBuffer)  BY <2>1
  <2>3. SubSeq(fragmentBuffer, 1, Len(fragmentBuffer)) = fragmentBuffer
    BY <1>7, SubSeqFull DEF Tokens
  <2>4. QED BY <1>10, <2>2, <2>3 DEF CompleteFragments
<1>12. opStack = (IF fragmented THEN 0 ELSE -1) /\ (fragmented => opCode[0] \in DataOpCodes)
  BY <1>2 DEF StreamInv, SessionInv, StackMatchesMessage
<1>13. MessageOpcode = IF fragmented THEN opCode[0] ELSE NONE
  BY <1>2 DEF MessageOpcode, InDataFrame
<1>14. QED
  BY <1>1, <1>2, <1>3, <1>4, <1>5, <1>6, <1>8, <1>9, <1>10, <1>11, <1>12, <1>13

\* The checks of a header are those of MessageStream, but for a compressed message that is to
\* be ignored.
LEMMA Checks ==
    ASSUME StreamInv, HeaderReady
    PROVE  /\ BadHeader(Header) \/ BadSequence(Header) =>
                Promise!Illegal(Header) \/ (Header.rsv1 /\ closeSent)
           /\ ~(BadHeader(Header) \/ BadSequence(Header)) => ~Promise!Illegal(Header)
           /\ ~BadHeader(Header) => Header.op \in Stacked \cup {NONE}
           /\ ~BadHeader(Header) /\ ~TooLong(Header.len) => Sound(Header)
           /\ ~BadHeader(Header) /\ Header.op > BINARY => Sound(Header)
<1>1. /\ MessageOpcode = (IF fragmented THEN opCode[0] ELSE NONE)
      /\ opStack = (IF fragmented THEN 0 ELSE -1)
      /\ fragmented => opCode[0] \in DataOpCodes
      /\ ~closing /\ wantsHead /\ CurrentFrame \in DOMAIN wire /\ Header = wire[CurrentFrame]
  BY HeaderFacts
<1>2. PICK f \in Frame : f = Header  BY <1>1, Located
<1>3. f.op \in 0..15 /\ f.fin \in BOOLEAN /\ f.rsv1 \in BOOLEAN /\ f.malformed \in BOOLEAN /\ f.len \in Nat
  BY <1>2 DEF Frame, OpCodes
<1>4. PICK m : m = MessageOpcode  OBVIOUS
<1>5. Promise!Illegal(f) <=>
        \/ f.malformed
        \/ f.op \in 3..7 \cup 11..15
        \/ f.rsv1 /\ (~Deflate \/ f.op \notin {1, 2})
        \/ f.op >= 8 /\ (~f.fin \/ f.len > ShortMax)
        \/ f.op \in {1, 2} /\ m # 0
        \/ f.op = 0 /\ m = 0
  BY <1>4 DEF Promise!Illegal, Promise!DataOpCodes, Promise!TEXT, Promise!BINARY, Promise!CLOSE, Promise!NONE
<1>6. compression \in {"DISABLED", "ENABLED", "COMPRESSED_FRAME"}
      /\ (compression = "DISABLED" <=> ~Deflate)
      /\ (~closeSent /\ ~fragmented => compression # "COMPRESSED_FRAME")
  BY <1>1 DEF StreamInv, SessionInv, TypeOK, Inflating
<1>7. BadHeader(f) <=>
        \/ f.malformed
        \/ f.rsv1 /\ (f.op \notin {1, 2} \/ compression # "ENABLED")
        \/ f.op \in 3..7 \cup 11..15
        \/ f.op >= 8 /\ (~f.fin \/ f.len > ShortMax)
  BY <1>3 DEF BadHeader, DataOpCodes, TEXT, BINARY
<1>8. BadSequence(f) <=> (f.op \in {1, 2} /\ fragmented) \/ (f.op = 0 /\ ~fragmented)
  BY <1>1, <1>3 DEF BadSequence, DataOpCodes, TEXT, BINARY, NONE
<1>9. IF fragmented THEN m \in {1, 2} ELSE m = 0
  BY <1>1, <1>4 DEF DataOpCodes, TEXT, BINARY, NONE
<1>10. BadHeader(f) \/ BadSequence(f) => Promise!Illegal(f) \/ (f.rsv1 /\ closeSent)
  BY <1>3, <1>5, <1>6, <1>7, <1>8, <1>9
<1>11. ~(BadHeader(f) \/ BadSequence(f)) => ~Promise!Illegal(f)
  BY <1>3, <1>5, <1>6, <1>7, <1>8, <1>9
<1>12. ~BadHeader(f) => f.op \in Stacked \cup {NONE}
  BY <1>3, <1>7 DEF Stacked, TEXT, BINARY, CLOSE, PING, PONG, NONE
<1>13. ~BadHeader(f) /\ (~TooLong(f.len) \/ f.op > BINARY) => Sound(f)
  <2>1. SUFFICES ASSUME ~BadHeader(f), ~TooLong(f.len) \/ f.op > BINARY PROVE Sound(f)  OBVIOUS
  <2>2. /\ ~f.malformed /\ (f.rsv1 => f.op \in {1, 2} /\ compression = "ENABLED")
        /\ (f.op >= 8 => f.fin /\ ~(f.len > ShortMax))
    BY Zenon, <1>7, <2>1
  <2>3. f.rsv1 => Deflate  BY <1>6, <2>2
  <2>4. f.op <= BINARY => ~TooLong(f.len)  BY <1>3, <2>1 DEF BINARY
  <2>5. f.len <= ShortMax <=> ~(f.len > ShortMax)  BY <1>3, FramesAssumption
  <2>6. f.op >= 8 => f.fin /\ f.len <= ShortMax  BY Zenon, <2>2, <2>5
  <2>7. f.op \in Stacked \cup {NONE}  BY <1>12, <2>1
  <2>8. f.rsv1 => Deflate /\ f.op \in DataOpCodes  BY <2>2, <2>3 DEF DataOpCodes, TEXT, BINARY
  <2>9. f.op >= CLOSE => f.fin /\ f.len <= ShortMax  BY Zenon, <2>6 DEF CLOSE
  <2>10. QED BY Zenon, <2>2, <2>4, <2>7, <2>8, <2>9 DEF Sound
<1>14. QED BY <1>2, <1>10, <1>11, <1>12, <1>13

\* What MessageStream takes next.
LEMMA Takes ==
    ASSUME StreamInv, ~closing, CurrentFrame \in DOMAIN wire, Promise!Take(wire[CurrentFrame])
    PROVE  Promise!TakeFrame
<1>1. (IF closing THEN 0 ELSE CurrentFrame) = CurrentFrame  OBVIOUS
<1>2. CurrentFrame \in 1..Len(wire)  BY Located
<1>3. QED BY <1>1, <1>2 DEF Promise!TakeFrame

\* Refusing a frame.
LEMMA RefuseFrameTakes == ASSUME StreamInv, RefuseFrame PROVE Promise!TakeFrame /\ closing'
<1>1. HeaderReady /\ (BadHeader(Header) \/ BadSequence(Header)) /\ Fail(1002) /\ wire' = wire
  BY DEF RefuseFrame, ForceClose
<1>2. ~closing /\ CurrentFrame \in DOMAIN wire /\ Header = wire[CurrentFrame]  BY <1>1, HeaderFacts
<1>3. Promise!Illegal(Header) \/ (Header.rsv1 /\ closeSent)  BY <1>1, Checks
<1>4. Promise!Fail(1002)  BY <1>1, Shuts DEF Fail, Promise!Fail
<1>5. Promise!Take(Header)  BY <1>3, <1>4 DEF Promise!Take
<1>6. QED BY <1>1, <1>2, <1>5, Takes DEF Fail, EndSession

\* And one that is longer than any may be.
LEMMA RefuseLengthTakes == ASSUME StreamInv, RefuseLength PROVE Promise!TakeFrame /\ closing'
<1>1. /\ Push(Header) /\ Header.op <= BINARY /\ TooLong(Header.len) /\ Fail(1009) /\ wire' = wire
  BY DEF RefuseLength, ForceClose
<1>2. HeaderReady /\ ~BadHeader(Header) /\ ~BadSequence(Header)  BY <1>1 DEF Push
<1>3. ~closing /\ CurrentFrame \in DOMAIN wire /\ Header = wire[CurrentFrame]  BY <1>2, HeaderFacts
<1>4. ~Promise!Illegal(Header) /\ Header.op \in Stacked \cup {NONE}  BY <1>2, Checks
<1>5. Promise!IsData(Header)
  <2>1. Header.op \in DataOpCodes \cup {NONE}
    BY <1>1, <1>4 DEF Stacked, DataOpCodes, TEXT, BINARY, CLOSE, PING, PONG, NONE
  <2>2. QED BY <2>1, Words DEF Promise!IsData
<1>6. Promise!Oversize(Header)  BY <1>1, <1>5, Words DEF Promise!Oversize
<1>7. Promise!Fail(1009)  BY <1>1, Shuts DEF Fail, Promise!Fail
<1>8. Promise!Take(Header)  BY <1>4, <1>6, <1>7 DEF Promise!Take
<1>9. QED BY <1>1, <1>3, <1>8, Takes DEF Fail, EndSession

-----------------------------------------------------------------------------
(* A part of a frame *)

\* Bytes k + 1 to k + n of the payload of frame c.
Bytes(c, k, n) == [j \in 1..n |-> <<c, k + j>>]

\* They are as many tokens.
LEMMA BytesType ==
    ASSUME NEW c \in Nat, NEW k \in Nat, NEW n \in Nat
    PROVE  /\ Bytes(c, k, n) \in Tokens /\ Len(Bytes(c, k, n)) = n
           /\ \A j \in 1..n : Bytes(c, k, n)[j] = <<c, k + j>>
<1>1. \A j \in 1..n : <<c, k + j>> \in Nat \X Nat  OBVIOUS
<1>2. QED BY <1>1 DEF Bytes, Tokens

\* The parts of a payload make it up.
LEMMA BytesNext ==
    ASSUME NEW c \in Nat, NEW k \in Nat, NEW n \in Nat, NEW m, m = k + n
    PROVE  Bytes(c, 0, k) \o Bytes(c, k, n) = Bytes(c, 0, m)
<1>1. m \in Nat /\ m = k + n  OBVIOUS
<1>2. PICK X, Y, Z : X = Bytes(c, 0, k) /\ Y = Bytes(c, k, n) /\ Z = Bytes(c, 0, m)  OBVIOUS
<1>3. X \in Tokens /\ Len(X) = k /\ \A j \in 1..k : X[j] = <<c, 0 + j>>  BY <1>2, BytesType
<1>4. Y \in Tokens /\ Len(Y) = n /\ \A j \in 1..n : Y[j] = <<c, k + j>>  BY <1>2, BytesType
<1>5. Z \in Tokens /\ Len(Z) = m /\ \A j \in 1..m : Z[j] = <<c, 0 + j>>  BY <1>1, <1>2, BytesType
<1>6. X \o Y \in Tokens /\ Len(X \o Y) = m
      /\ \A j \in 1..m : (X \o Y)[j] = IF j <= k THEN X[j] ELSE Y[j - k]
  BY <1>1, <1>3, <1>4, ConcatProperties DEF Tokens
<1>7. ASSUME NEW j \in 1..m PROVE (X \o Y)[j] = Z[j]
  <2>1. Z[j] = <<c, 0 + j>>  BY <1>5
  <2>2. CASE j <= k
    <3>1. j \in 1..k  BY <2>2
    <3>2. QED BY <1>3, <1>6, <2>1, <2>2, <3>1
  <2>3. CASE ~(j <= k)
    <3>1. j - k \in 1..n /\ k + (j - k) = 0 + j  BY <1>1, <2>3
    <3>2. Y[j - k] = <<c, k + (j - k)>>  BY <1>4, <3>1
    <3>3. QED BY <1>6, <2>1, <2>3, <3>1, <3>2
  <2>4. QED BY <2>2, <2>3
<1>8. X \o Y = Z  BY <1>5, <1>6, <1>7, SeqEqual DEF Tokens
<1>9. QED BY Zenon, <1>1, <1>2, <1>8

\* The first k bytes of the payload of frame c on top of A.
Over(A, c, k) == A \o Bytes(c, 0, k)

\* What is kept when more arrives.
Joined(kept, data) == kept \o data

\* The parts of a payload pile up on what lies below.
LEMMA OverNext ==
    ASSUME NEW A \in Tokens, NEW c \in Nat, NEW k \in Nat, NEW n \in Nat, NEW m, m = k + n
    PROVE  Joined(Over(A, c, k), Bytes(c, k, n)) = Over(A, c, m)
<1>1. PICK S : S = Nat \X Nat  OBVIOUS
<1>2. PICK X, Y, Z : X = Bytes(c, 0, k) /\ Y = Bytes(c, k, n) /\ Z = Bytes(c, 0, m)  OBVIOUS
<1>3. X \o Y = Z  BY Zenon, <1>2, BytesNext
<1>4. A \in Seq(S) /\ X \in Seq(S) /\ Y \in Seq(S)  BY <1>1, <1>2, BytesType DEF Tokens
<1>5. \A s, t, u \in Seq(S) : (s \o t) \o u = s \o (t \o u)  BY ConcatAssociative
<1>6. (A \o X) \o Y = A \o (X \o Y)  BY Zenon, <1>4, <1>5
<1>7. (A \o X) \o Y = A \o Z  BY Zenon, <1>3, <1>6
<1>8. QED BY Zenon, <1>2, <1>7 DEF Over, Joined

\* What the tokens of such a pile are.
LEMMA OverType ==
    ASSUME NEW A \in Tokens, NEW c \in Nat, NEW k \in Nat
    PROVE  /\ Len(A) \in Nat /\ Over(A, c, k) \in Tokens /\ Len(Over(A, c, k)) = Len(A) + k
           /\ \A i \in 1..(Len(A) + k) :
                Over(A, c, k)[i] = IF i <= Len(A) THEN A[i] ELSE Bytes(c, 0, k)[i - Len(A)]
<1>1. PICK X : X = Bytes(c, 0, k)  OBVIOUS
<1>2. X \in Tokens /\ Len(X) = k  BY <1>1, BytesType
<1>3. Len(A) \in Nat  BY LenProperties DEF Tokens
<1>4. A \o X \in Tokens /\ Len(A \o X) = Len(A) + k
      /\ \A i \in 1..(Len(A) + k) : (A \o X)[i] = IF i <= Len(A) THEN A[i] ELSE X[i - Len(A)]
  <2>1. A \in Seq(Nat \X Nat) /\ X \in Seq(Nat \X Nat)  BY <1>2 DEF Tokens
  <2>2. /\ A \o X \in Seq(Nat \X Nat) /\ Len(A \o X) = Len(A) + Len(X)
        /\ \A i \in 1..(Len(A) + Len(X)) : (A \o X)[i] = IF i <= Len(A) THEN A[i] ELSE X[i - Len(A)]
    BY <2>1, ConcatProperties
  <2>3. QED BY Zenon, <1>2, <2>2 DEF Tokens
<1>5. QED BY Zenon, <1>1, <1>3, <1>4 DEF Over
\* It can be taken apart again.
LEMMA OverBelow ==
    ASSUME NEW A \in Tokens, NEW c \in Nat, NEW k \in Nat
    PROVE  SubSeq(Over(A, c, k), 1, Len(A)) = A
<1>1. PICK B, a : B = Over(A, c, k) /\ a = Len(A)  OBVIOUS
<1>2. B \in Tokens /\ a \in Nat /\ \A i \in 1..a : B[i] = A[i]
  <2>1. a \in Nat /\ B \in Tokens /\ \A i \in 1..(a + k) : B[i] = IF i <= a THEN A[i] ELSE Bytes(c, 0, k)[i - a]
    BY <1>1, OverType
  <2>2. QED BY <2>1
<1>3. \A i \in 1..a : B[i] = A[i] /\ A[i] \in Nat \X Nat  BY <1>1, <1>2, ElementOfSeq DEF Tokens
<1>4. /\ SubSeq(B, 1, a) \in Seq(Nat \X Nat) /\ Len(SubSeq(B, 1, a)) = IF 1 <= a THEN a - 1 + 1 ELSE 0
      /\ \A i \in 1..(a - 1 + 1) : SubSeq(B, 1, a)[i] = B[1 + i - 1]
  BY <1>2, <1>3, SubSeqProperties
<1>5. Len(SubSeq(B, 1, a)) = a  BY <1>2, <1>4
<1>6. \A i \in 1..a : SubSeq(B, 1, a)[i] = A[i]
  <2>1. \A i \in 1..a : i \in 1..(a - 1 + 1) /\ 1 + i - 1 = i  BY <1>2
  <2>2. QED BY <1>3, <1>4, <2>1
<1>7. SubSeq(B, 1, a) = A  BY <1>1, <1>4, <1>5, <1>6, SeqEqual DEF Tokens
<1>8. QED BY Zenon, <1>1, <1>7
\* And what lies on top.
LEMMA OverTop ==
    ASSUME NEW A \in Tokens, NEW c \in Nat, NEW k \in Nat
    PROVE  SubSeq(Over(A, c, k), Len(A) + 1, Len(A) + k) = Bytes(c, 0, k)
<1>1. PICK B, Y, a, l, u : /\ B = Over(A, c, k) /\ Y = Bytes(c, 0, k) /\ a = Len(A)
                           /\ l = Len(A) + 1 /\ u = Len(A) + k
  OBVIOUS
<1>2. a \in Nat /\ Y \in Tokens /\ Len(Y) = k /\ l = a + 1 /\ u = a + k
  BY <1>1, OverType, BytesType
<1>3. \A i \in l..u : B[i] = Y[i - a] /\ i - a \in 1..k
  <2>1. \A i \in 1..(a + k) : B[i] = IF i <= a THEN A[i] ELSE Y[i - a]  BY <1>1, OverType
  <2>2. QED BY <1>2, <2>1
<1>4. \A j \in 1..k : Y[j] \in Nat \X Nat  BY <1>2, ElementOfSeq DEF Tokens
<1>5. l \in Int /\ u \in Int /\ \A i \in l..u : B[i] \in Nat \X Nat  BY <1>2, <1>3, <1>4
<1>6. /\ SubSeq(B, l, u) \in Seq(Nat \X Nat) /\ Len(SubSeq(B, l, u)) = IF l <= u THEN u - l + 1 ELSE 0
      /\ \A i \in 1..(u - l + 1) : SubSeq(B, l, u)[i] = B[l + i - 1]
  BY <1>5, SubSeqProperties
<1>7. Len(SubSeq(B, l, u)) = k  BY <1>2, <1>6
<1>8. \A i \in 1..k : SubSeq(B, l, u)[i] = Y[i]
  <2>1. \A i \in 1..k : i \in 1..(u - l + 1) /\ l + i - 1 \in l..u /\ (l + i - 1) - a = i  BY <1>2
  <2>2. QED BY <1>3, <1>6, <2>1
<1>9. SubSeq(B, l, u) = Y  BY <1>2, <1>6, <1>7, <1>8, SeqEqual DEF Tokens
<1>10. QED BY Zenon, <1>1, <1>9

\* What of the current frame was handled, and the whole of it.
LEMMA PartOf ==
    ASSUME StreamInv, ~closing, NEW k \in Nat, k = Pending
    PROVE  /\ Part = Bytes(CurrentFrame, 0, k)
           /\ \A c \in DOMAIN wire : Payload(wire, c) = Bytes(c, 0, wire[c].len)
<1>1. CurrentFrame \in Nat  BY Located
<1>2. Part = Bytes(CurrentFrame, 0, k)
  <2>1. \A j \in 1..k : 0 + j = j  OBVIOUS
  <2>2. QED BY <2>1 DEF Part, Bytes
<1>3. ASSUME NEW c \in DOMAIN wire PROVE Payload(wire, c) = Bytes(c, 0, wire[c].len)
  <2>1. PICK n \in Nat : n = wire[c].len  BY Located
  <2>2. \A j \in 1..n : 0 + j = j  OBVIOUS
  <2>3. QED BY <2>1, <2>2 DEF Payload, Bytes
<1>4. QED BY <1>2, <1>3

\* handleFragment() of a part of a frame that is not its last: it is gathered, unless it is
\* ignored, or the message is too long with what is to come of the frame.
LEMMA PartKept ==
    ASSUME ~closing, NEW status, NEW data \in Tokens, NEW remaining \in Nat, remaining > 0,
           NEW o \in Stacked, NEW fin \in BOOLEAN, HandleFragment(status, data, remaining, o, fin)
    PROVE  \/ /\ closing' /\ Fail(1009) /\ o < 3 /\ ~closeSent /\ TooLong(Required(data, remaining))
           \/ /\ UNCHANGED <<closing, closeSent, log>> /\ compression' = status
              /\ fragmentBuffer' = IF o < 3 /\ closeSent THEN fragmentBuffer ELSE Joined(fragmentBuffer, data)
              /\ o >= 3 => controlTipLength' = (controlTipLength + Len(data)) % 256
              /\ o < 3 /\ ~closeSent => ~TooLong(Required(data, remaining))
<1>1. ~(remaining = 0 /\ fin)  OBVIOUS
<1>2. /\ o < 3 <=> o \notin {CLOSE, PING, PONG}
      /\ o >= 3 <=> ~(o < 3)
  BY DEF Stacked, TEXT, BINARY, CLOSE, PING, PONG
<1>3. CASE o < 3 /\ closeSent
  BY <1>1, <1>2, <1>3 DEF HandleFragment
<1>4. CASE o < 3 /\ ~closeSent
  <2>1. HandleData(status, data, remaining, o, fin)  BY <1>1, <1>2, <1>4 DEF HandleFragment
  <2>2. \/ TooLong(Required(data, remaining)) /\ Fail(1009)
        \/ /\ ~TooLong(Required(data, remaining))
           /\ fragmentBuffer' = Joined(fragmentBuffer, data) /\ compression' = status
           /\ UNCHANGED <<closing, closeSent, log>>
    BY <1>1, <2>1 DEF HandleData, Joined
  <2>3. Fail(1009) => closing'  BY DEF Fail, EndSession
  <2>4. QED BY <1>2, <1>4, <2>2, <2>3
<1>5. CASE o >= 3
  <2>1. compression' = status /\ KeepControlPart(data) /\ UNCHANGED <<closing, closeSent, log>>
    BY <1>1, <1>2, <1>5 DEF HandleFragment
  <2>2. QED BY <1>2, <1>5, <2>1 DEF KeepControlPart, Joined
<1>6. QED BY <1>2, <1>3, <1>4, <1>5

\* A step that hands n more bytes of frame c to handleFragment(), k being handled, and leaves
\* the parser within it: the last bytes of the frame are still to come.
Advances(c, k, n, status, o) ==
    /\ ~closing /\ c \in DOMAIN wire /\ c = CurrentFrame /\ k \in Nat /\ k = Pending /\ n \in Nat
    /\ k + n < wire[c].len /\ Sound(wire[c])
    /\ o \in Stacked /\ (o < 3 <=> wire[c].op <= BINARY)
    /\ HandleFragment(status, Bytes(c, k, n), wire[c].len - (k + n), o, wire[c].fin)
    /\ o >= 3 => controlTipLength = k
    /\ o >= 3 \/ ~closeSent => fragmentBuffer = Over(CompleteFragments, c, k)
    /\ o < 3 /\ ~closeSent /\ wire[c].op # NONE => (status = "COMPRESSED_FRAME" <=> wire[c].rsv1)
    /\ status = "DISABLED" <=> ~Deflate
    /\ o >= 3 /\ ~closeSent /\ ~fragmented' => status # "COMPRESSED_FRAME"
    /\ wire' = wire /\ wantsHead' = FALSE /\ remainingBytes' = wire[c].len - (k + n)
    /\ mask' = (k + n) % 4 /\ lastFin' = wire[c].fin /\ opCode'[opStack'] = o
    /\ (wire[c].op = NONE => opStack' = 0) /\ (wire[c].op # NONE => o = wire[c].op)
    /\ received' = received /\ (pc' = "second" => src' + rest' = received')
    /\ Position' = Start(c) + HeaderLength(wire[c]) + (k + n)

\* What the parser then has of the frame and of the message.
LEMMA Within ==
    ASSUME StreamInv, NEW c, NEW k, NEW n, NEW status, NEW o, Advances(c, k, n, status, o), ~closing'
    PROVE  /\ Aligned' /\ Gathered' /\ Inflating'
           /\ CurrentFrame' = c /\ InDataFrame' = (o < 3) /\ compression' = status
           /\ ~closeSent => CompleteFragments' = CompleteFragments
           /\ UNCHANGED <<closing, closeSent, log>>
<1> /\ ~closing /\ c \in DOMAIN wire /\ c = CurrentFrame /\ k \in Nat /\ k = Pending /\ n \in Nat
    /\ k + n < wire[c].len /\ Sound(wire[c])
    /\ o \in Stacked /\ (o < 3 <=> wire[c].op <= BINARY)
    /\ HandleFragment(status, Bytes(c, k, n), wire[c].len - (k + n), o, wire[c].fin)
    /\ o >= 3 => controlTipLength = k
    /\ o >= 3 \/ ~closeSent => fragmentBuffer = Over(CompleteFragments, c, k)
    /\ o < 3 /\ ~closeSent /\ wire[c].op # NONE => (status = "COMPRESSED_FRAME" <=> wire[c].rsv1)
    /\ status = "DISABLED" <=> ~Deflate
    /\ o >= 3 /\ ~closeSent /\ ~fragmented' => status # "COMPRESSED_FRAME"
    /\ wire' = wire /\ wantsHead' = FALSE /\ remainingBytes' = wire[c].len - (k + n)
    /\ mask' = (k + n) % 4 /\ lastFin' = wire[c].fin /\ opCode'[opStack'] = o
    /\ (wire[c].op = NONE => opStack' = 0) /\ (wire[c].op # NONE => o = wire[c].op)
    /\ received' = received /\ (pc' = "second" => src' + rest' = received')
    /\ Position' = Start(c) + HeaderLength(wire[c]) + (k + n)
  BY DEF Advances
<1>0. c \in Nat /\ k \in Nat /\ n \in Nat /\ o \in Stacked  BY Located
<1>1. /\ wire \in Seq(Frame) /\ Len(wire) \in Nat /\ DOMAIN wire = 1..Len(wire)
      /\ c \in Nat /\ Start(c) \in Nat /\ wire[c] \in Frame /\ wire[c].len \in Nat
      /\ FrameSize(wire[c]) = HeaderLength(wire[c]) + wire[c].len /\ HeaderLength(wire[c]) \in Nat
      /\ CompleteFragments \in Tokens /\ fragmentBuffer \in Tokens
  BY Located
<1>2. PICK f \in Frame, s, h, l, m \in Nat :
        /\ f = wire[c] /\ s = Start(c) /\ h = HeaderLength(wire[c]) /\ l = wire[c].len /\ m = k + n
  BY <1>1
<1>3. f.len = l /\ m < l /\ FrameSize(f) = h + l /\ f.fin \in BOOLEAN  BY <1>1, <1>2, SizeType
<1>4. PICK r \in Nat : r = l - m /\ r > 0  BY <1>3
<1>5. remainingBytes' = r /\ mask' = m % 4 /\ Position' = s + h + m  BY <1>2, <1>3, <1>4
<1>6. CurrentFrame' = c
  <2>1. c \in 1..(Len(wire) + 1)  BY <1>1
  <2>2. Position' \in Nat /\ s <= Position' /\ Position' < s + FrameSize(f)  BY ONLY <1>3, <1>5
  <2>3. Start(c) <= Position' /\ Position' < Start(c) + FrameSize(wire[c])  BY ONLY <1>2, <2>2
  <2>4. QED BY <1>1, <2>1, <2>2, <2>3, MovesTo
<1>7. Pending' = m
  <2>1. Pending' = f.len - r  BY <1>2, <1>5, <1>6 DEF Pending
  <2>2. QED BY <1>3, <1>4, <2>1
<1>8. PICK data \in Tokens : data = Bytes(c, k, n) /\ Len(data) = n
  <2>1. Bytes(c, k, n) \in Tokens /\ Len(Bytes(c, k, n)) = n  BY ONLY <1>0, BytesType
  <2>2. QED BY <2>1
<1>9. HandleFragment(status, data, r, o, f.fin)  BY <1>2, <1>3, <1>4, <1>8
<1>10. /\ UNCHANGED <<closing, closeSent, log>> /\ compression' = status
       /\ fragmentBuffer' = (IF o < 3 /\ closeSent THEN fragmentBuffer ELSE Joined(fragmentBuffer, data))
       /\ o >= 3 => controlTipLength' = (controlTipLength + Len(data)) % 256
       /\ o < 3 /\ ~closeSent => ~TooLong(Required(data, r))
  <2>1. ~closing /\ ~closing'  OBVIOUS
  <2>2. PICK fin \in BOOLEAN : fin = f.fin  BY <1>3
  <2>3. HandleFragment(status, data, r, o, fin)  BY Zenon, <1>9, <2>2
  <2>4. \/ /\ closing' /\ Fail(1009) /\ o < 3 /\ ~closeSent /\ TooLong(Required(data, r))
        \/ /\ UNCHANGED <<closing, closeSent, log>> /\ compression' = status
           /\ fragmentBuffer' = IF o < 3 /\ closeSent THEN fragmentBuffer ELSE Joined(fragmentBuffer, data)
           /\ o >= 3 => controlTipLength' = (controlTipLength + Len(data)) % 256
           /\ o < 3 /\ ~closeSent => ~TooLong(Required(data, r))
    BY ONLY <1>0, <1>4, <2>1, <2>3, PartKept
  <2>5. QED BY ONLY <2>1, <2>4
<1>11. InDataFrame' = (o < 3) /\ (o < 3 <=> ~(o >= 3))
  BY DEF InDataFrame, Stacked, TEXT, BINARY, CLOSE, PING, PONG
<1>12. PICK A \in Tokens : A = CompleteFragments  BY <1>1
<1>13. ASSUME o >= 3 \/ ~closeSent
       PROVE  /\ fragmentBuffer' = CompleteFragments' \o Part'
              /\ CompleteFragments' = A /\ Len(fragmentBuffer') = Len(fragmentBuffer) + n
  <2>1. fragmentBuffer = Over(A, c, k)  BY <1>12, <1>13
  <2>2. fragmentBuffer' = Joined(fragmentBuffer, data)  BY <1>10, <1>11, <1>13
  <2>3. fragmentBuffer' = Over(A, c, m)
    <3>0. m = k + n  BY <1>2
    <3>1. Joined(Over(A, c, k), Bytes(c, k, n)) = Over(A, c, m)  BY ONLY <1>0, <3>0, OverNext
    <3>2. QED BY Zenon, <1>2, <1>8, <2>1, <2>2, <3>1 DEF Joined
  <2>4. PICK B, b, a : B = Over(A, c, m) /\ b = Len(B) /\ a = Len(A)  OBVIOUS
  <2>5. B \in Tokens /\ a \in Nat /\ b = a + m /\ SubSeq(B, 1, a) = A
    <3>1. a \in Nat /\ B \in Tokens /\ b = a + m  BY ONLY <1>0, <2>4, OverType
    <3>2. SubSeq(Over(A, c, m), 1, Len(A)) = A  BY ONLY <1>0, OverBelow
    <3>3. QED BY Zenon, <2>4, <3>1, <3>2
  <2>6. CompleteFragments' = SubSeq(B, 1, b - m)  BY <1>7, <2>3, <2>4 DEF CompleteFragments
  <2>7. b - m = a  BY <2>5
  <2>8. CompleteFragments' = A  BY <2>5, <2>6, <2>7
  <2>9. Part' = Bytes(c, 0, m)
    <3>1. \A j \in 1..m : 0 + j = j  OBVIOUS
    <3>2. QED BY <1>6, <1>7, <3>1 DEF Part, Bytes
  <2>10. Len(fragmentBuffer') = Len(fragmentBuffer) + n
    <3>1. Len(fragmentBuffer \o data) = Len(fragmentBuffer) + Len(data)
      BY <1>1, ConcatProperties DEF Tokens
    <3>2. QED BY <1>8, <2>2, <3>1 DEF Joined
  <2>11. fragmentBuffer' = CompleteFragments' \o Part'  BY Zenon, <2>3, <2>8, <2>9 DEF Over
  <2>12. QED BY <2>8, <2>10, <2>11
<1>14. Aligned'
  <2>1. received' <= StreamLength'  BY SameStream DEF StreamInv, Aligned
  <2>2. CurrentFrame' \in 1..(Len(wire) + 1) /\ CurrentFrame' \in DOMAIN wire  BY <1>1, <1>6
  <2>3. remainingBytes' \in 1..f.len  BY <1>3, <1>4, <1>5
  <2>4. Start(CurrentFrame)' = s
    <3>1. Start(c)' = s  BY <1>2, SameStream
    <3>2. QED BY <1>6, <3>1 DEF Start, FrameSize, HeaderLength
  <2>5. Sound(wire[CurrentFrame])' /\ HeaderLength(wire[CurrentFrame])' = h
    <3>1. wire'[CurrentFrame'] = f  BY <1>2, <1>6
    <3>2. Sound(f) /\ HeaderLength(f) = h  BY <1>2
    <3>3. QED BY <3>1, <3>2 DEF Sound, TooLong, HeaderLength
  <2>6. IF f.op = NONE THEN opStack' = 0 /\ InDataFrame' ELSE opCode'[opStack'] = f.op
    <3>1. f.op = NONE => f.op <= BINARY  BY DEF NONE, BINARY
    <3>2. QED BY Zenon, <1>2, <1>11, <3>1
  <2>7. wire'[CurrentFrame'] = f /\ lastFin' = f.fin  BY <1>2, <1>6
  <2>8. QED BY <1>5, <1>7, <2>1, <2>2, <2>3, <2>4, <2>5, <2>6, <2>7 DEF Aligned
<1>15. Gathered'
  <2>1. o < 3 /\ ~closeSent => ~TooLong(Len(fragmentBuffer') + remainingBytes')
    <3>1. SUFFICES ASSUME o < 3, ~closeSent PROVE ~TooLong(Len(fragmentBuffer') + r)  BY <1>5
    <3>2. Len(fragmentBuffer') = Len(fragmentBuffer) + n  BY ONLY <1>13, <3>1
    <3>3. Required(data, r) = Len(fragmentBuffer) + n + r  BY <1>8 DEF Required
    <3>4. ~TooLong(Required(data, r))  BY ONLY <1>10, <3>1
    <3>5. QED BY Zenon, <3>2, <3>3, <3>4
  <2>2. o >= 3 => controlTipLength' = m
    <3>1. SUFFICES ASSUME o >= 3 PROVE controlTipLength' = m  OBVIOUS
    <3>2. f.op >= CLOSE
      <4>1. f.op # NONE => f.op = o  BY <1>2
      <4>2. ~(f.op <= BINARY)  BY <1>2, <1>11, <3>1
      <4>3. f.op # NONE  BY ONLY <4>2 DEF NONE, BINARY
      <4>4. QED BY ONLY <1>0, <3>1, <4>1, <4>3 DEF Stacked, TEXT, BINARY, CLOSE, PING, PONG
    <3>3. m <= 125
      <4>1. Sound(f)  BY <1>2
      <4>2. f.len <= ShortMax  BY ONLY <3>2, <4>1 DEF Sound
      <4>3. QED BY ONLY <1>3, <4>2, FramesAssumption
    <3>4. controlTipLength' = (k + n) % 256  BY <1>8, <1>10, <3>1
    <3>5. controlTipLength' = m % 256  BY <1>2, <3>4
    <3>6. QED BY ONLY <3>3, <3>5
  <2>3. o >= 3 \/ ~closeSent => fragmentBuffer' = CompleteFragments' \o Part'  BY <1>13
  <2>4. wire'[CurrentFrame'] = f  BY <1>2, <1>6
  <2>5. o < 3 /\ ~closeSent' /\ f.op # NONE => (compression' = "COMPRESSED_FRAME" <=> f.rsv1)
    BY <1>2, <1>10
  <2>6. (TooLong(Len(fragmentBuffer) + remainingBytes))' <=> TooLong(Len(fragmentBuffer') + remainingBytes')
    BY DEF TooLong
  <2>7. QED BY <1>7, <1>10, <1>11, <2>1, <2>2, <2>3, <2>4, <2>5, <2>6 DEF Gathered
<1>16. Inflating'  BY <1>10, <1>11 DEF Inflating
<1>17. QED BY <1>6, <1>10, <1>11, <1>12, <1>13, <1>14, <1>15, <1>16

\* Nothing handled of a frame yet.
LEMMA OverNone == ASSUME NEW A \in Tokens, NEW c PROVE Over(A, c, 0) = A
<1>1. Bytes(c, 0, 0) = <<>>  BY DEF Bytes
<1>2. A \o <<>> = A  BY ConcatEmptySeq DEF Tokens
<1>3. QED BY Zenon, <1>1, <1>2 DEF Over

\* What opening a frame makes of the opcode stack and of compressionStatus.
LEMMA Opened ==
    ASSUME StreamInv, Accept(Header), NEW top, top = StackAfterPush(Header),
           NEW status, status = StatusAfter(Header)
    PROVE  /\ HeaderReady /\ ~Promise!Illegal(Header) /\ Sound(Header)
           /\ opCode'[top] \in Stacked /\ lastFin' = Header.fin
           /\ opCode'[top] < 3 <=> Header.op <= BINARY
           /\ opCode'[top] = IF Header.op = NONE THEN MessageOpcode ELSE Header.op
           /\ Header.op <= BINARY => top = 0 /\ fragmented' = ~Header.fin
           /\ Header.op > BINARY => /\ fragmented' = fragmented
                                    /\ (IF fragmented' THEN opCode'[0] ELSE NONE) = MessageOpcode
           /\ Header.op = NONE => MessageOpcode # NONE
           /\ Header.op \in DataOpCodes => MessageOpcode = NONE
           /\ status \in Statuses /\ (status = "DISABLED" <=> ~Deflate)
           /\ Header.op \notin DataOpCodes => status = compression
           /\ Header.op \in DataOpCodes /\ ~closeSent => (status = "COMPRESSED_FRAME" <=> Header.rsv1)
<1>1. /\ HeaderReady /\ ~BadHeader(Header) /\ ~BadSequence(Header) /\ Push(Header)
      /\ ~(Header.op <= BINARY /\ TooLong(Header.len))
  BY DEF Accept, Push
<1>2. /\ ~closing /\ wantsHead
      /\ MessageOpcode = (IF fragmented THEN opCode[0] ELSE NONE)
      /\ opStack = (IF fragmented THEN 0 ELSE -1)
      /\ fragmented => opCode[0] \in DataOpCodes
  BY <1>1, HeaderFacts
<1>3. SessionInv /\ TypeOK /\ StackMatchesMessage  BY DEF StreamInv, SessionInv
<1>4. PICK f \in Frame : f = Header  BY <1>3, AcceptFacts
<1>5. f.op \in 0..15 /\ f.op \in Stacked \cup {NONE}  BY <1>1, <1>4, Checks DEF Frame, OpCodes
<1>6. /\ top \in 0..1 /\ opCode' \in [0..1 -> OpCodes] /\ fragmented' \in BOOLEAN
      /\ opCode'[top] \in Stacked /\ lastFin' = f.fin
      /\ f.op <= BINARY <=> opCode'[top] < 3
      /\ f.op > BINARY =>
            /\ f.op = opCode'[top] /\ fragmented' = fragmented
            /\ fragmented => opCode'[0] = opCode[0]
      /\ f.op <= BINARY => top = 0 /\ fragmented' = ~f.fin
  BY <1>1, <1>2, <1>3, <1>4, PushStep
<1>7. ~Promise!Illegal(f) /\ Sound(f)
  <2>1. f.op > BINARY \/ f.op <= BINARY  BY <1>5 DEF BINARY
  <2>2. QED BY <1>1, <1>4, <2>1, Checks
<1>8. f.op > BINARY => f.op \notin DataOpCodes /\ f.op # NONE  BY <1>5 DEF DataOpCodes, TEXT, BINARY, NONE
<1>9. opCode'[top] = IF f.op = NONE THEN MessageOpcode ELSE f.op
  <2>1. opCode' = (IF f.op = NONE THEN opCode ELSE [opCode EXCEPT ![opStack + 1] = f.op])
    BY <1>1, <1>4 DEF Push
  <2>2. CASE f.op = NONE
    <3>1. fragmented  BY <1>1, <1>4, <2>2 DEF BadSequence
    <3>2. f.op <= BINARY  BY <2>2 DEF NONE, BINARY
    <3>3. QED BY <1>2, <1>6, <2>1, <2>2, <3>1, <3>2
  <2>3. CASE f.op # NONE
    <3>1. top = opStack + 1  BY <1>4, <2>3 DEF StackAfterPush
    <3>2. opCode \in [0..1 -> OpCodes] /\ top \in 0..1  BY <1>3, <1>6 DEF TypeOK
    <3>3. opCode' = [opCode EXCEPT ![top] = f.op]  BY <2>1, <2>3, <3>1
    <3>4. QED BY <2>3, <3>2, <3>3
  <2>4. QED BY <2>2, <2>3
<1>10. f.op > BINARY => (IF fragmented' THEN opCode'[0] ELSE NONE) = MessageOpcode  BY <1>2, <1>6
<1>11. /\ f.op = NONE => MessageOpcode # NONE
       /\ f.op \in DataOpCodes => MessageOpcode = NONE /\ ~fragmented
  BY <1>1, <1>2, <1>4 DEF BadSequence, DataOpCodes, TEXT, BINARY, NONE
<1>12. /\ status \in Statuses /\ (status = "DISABLED" <=> ~Deflate)
       /\ f.op \notin DataOpCodes => status = compression
       /\ f.op \in DataOpCodes /\ ~closeSent => (status = "COMPRESSED_FRAME" <=> f.rsv1)
  <2>1. compression \in Statuses  BY <1>3 DEF TypeOK, Statuses
  <2>2. compression = "DISABLED" <=> ~Deflate  BY <1>2 DEF StreamInv, Inflating
  <2>3. ~closeSent /\ ~fragmented => compression # "COMPRESSED_FRAME"
    BY <1>2 DEF StreamInv, Inflating
  <2>4. status = IF f.rsv1 /\ f.op \in DataOpCodes /\ compression = "ENABLED"
                 THEN "COMPRESSED_FRAME" ELSE compression
    BY <1>4 DEF StatusAfter
  <2>5. f.rsv1 => compression = "ENABLED"  BY <1>1, <1>4 DEF BadHeader
  <2>6. QED BY Zenon, <1>11, <2>1, <2>2, <2>3, <2>4, <2>5 DEF Statuses
<1>13. QED BY <1>1, <1>4, <1>6, <1>7, <1>9, <1>10, <1>11, <1>12

\* A step within a frame that shows nothing.
LEMMA Hidden ==
    ASSUME wire' = wire, ~closing, ~closing', CurrentFrame' = CurrentFrame, MessageOpcode' = MessageOpcode,
           MessageOpcode # NONE => compression' = compression,
           ~closeSent => CompleteFragments' = CompleteFragments, UNCHANGED <<closing, closeSent, log>>
    PROVE  UNCHANGED Promise!vars
<1>1. (~closeSent /\ MessageOpcode # NONE /\ compression = "COMPRESSED_FRAME")'
        = (~closeSent /\ MessageOpcode # NONE /\ compression = "COMPRESSED_FRAME")
  <2>1. CASE MessageOpcode = NONE  BY Zenon, <2>1
  <2>2. CASE MessageOpcode # NONE  BY Zenon, <2>2
  <2>3. QED BY <2>1, <2>2
<1>2. (IF closeSent THEN <<>> ELSE CompleteFragments)' = IF closeSent THEN <<>> ELSE CompleteFragments
  OBVIOUS
<1>3. (IF closing THEN 0 ELSE CurrentFrame)' = IF closing THEN 0 ELSE CurrentFrame  OBVIOUS
<1>4. QED BY Zenon, <1>1, <1>2, <1>3 DEF Promise!vars

\* The first part of a frame: nothing is seen of it, unless the message is too long with it.
LEMMA FirstPartKeeps ==
    ASSUME StreamInv, FirstPart
    PROVE  IF closing' THEN Promise!TakeFrame
           ELSE Aligned' /\ Gathered' /\ Inflating' /\ UNCHANGED Promise!vars
<1>1. PICK top, status, o : top = StackAfterPush(Header) /\ status = StatusAfter(Header) /\ o = opCode'[top]
  OBVIOUS
<1>2. Accept(Header)  BY DEF FirstPart
<1>3. /\ HeaderReady /\ ~Promise!Illegal(Header) /\ Sound(Header)
      /\ o \in Stacked /\ lastFin' = Header.fin
      /\ o < 3 <=> Header.op <= BINARY
      /\ o = IF Header.op = NONE THEN MessageOpcode ELSE Header.op
      /\ Header.op <= BINARY => top = 0 /\ fragmented' = ~Header.fin
      /\ Header.op > BINARY => /\ fragmented' = fragmented
                               /\ (IF fragmented' THEN opCode'[0] ELSE NONE) = MessageOpcode
      /\ Header.op \in DataOpCodes => MessageOpcode = NONE
      /\ status \in Statuses /\ (status = "DISABLED" <=> ~Deflate)
      /\ Header.op \notin DataOpCodes => status = compression
      /\ Header.op \in DataOpCodes /\ ~closeSent => (status = "COMPRESSED_FRAME" <=> Header.rsv1)
  BY <1>1, <1>2, Opened
<1>4. /\ ~closing /\ wantsHead /\ controlTipLength = 0
      /\ CurrentFrame \in DOMAIN wire /\ Header = wire[CurrentFrame]
      /\ src = Start(CurrentFrame) /\ src + length + rest = received
      /\ length \in Nat /\ rest \in Nat /\ length >= HeaderLength(Header)
      /\ Pending = 0 /\ CompleteFragments = fragmentBuffer
  BY <1>3, HeaderFacts
<1>5. PICK c \in DOMAIN wire : c = CurrentFrame  BY <1>4
<1>6. /\ wire \in Seq(Frame) /\ c \in Nat /\ Start(c) \in Nat /\ Header \in Frame
      /\ fragmentBuffer \in Tokens
  BY <1>4, <1>5, Located
<1>7. PICK f \in Frame, h, l, n \in Nat :
        f = Header /\ f = wire[c] /\ h = HeaderLength(f) /\ l = f.len /\ n = length - h /\ n < l
  <2>1. HeaderLength(Header) \in Nat /\ Header.len \in Nat
        /\ FrameSize(Header) = HeaderLength(Header) + Header.len
    BY <1>6, SizeType
  <2>2. FrameSize(Header) > length  BY DEF FirstPart
  <2>3. length - HeaderLength(Header) \in Nat /\ length - HeaderLength(Header) < Header.len
    BY ONLY <1>4, <2>1, <2>2
  <2>4. QED BY <1>4, <1>5, <1>6, <2>1, <2>3
<1>8. PICK k \in Nat : k = 0 /\ k = Pending  BY <1>4
<1>9. k + n = n /\ l - (k + n) = l - n  BY ONLY <1>7, <1>8
<1>10. f.fin \in BOOLEAN /\ f.op \in OpCodes  BY <1>7, SizeType
<1>11. Unmask(src + HeaderLength(f), n, 0) = Bytes(c, k, n)
  <2>1. k % 4 = 0 /\ src + HeaderLength(f) = Start(c) + HeaderLength(wire[c]) + k
    <3>1. src = Start(c) /\ Start(c) + h \in Nat  BY <1>4, <1>5, <1>6
    <3>2. k % 4 = 0 /\ Start(c) + h + k = Start(c) + h  BY ONLY <1>8, <3>1
    <3>3. QED BY Zenon, <1>7, <3>1, <3>2
  <2>2. k + n <= wire[c].len  BY ONLY <1>7, <1>9
  <2>3. Unmask(Start(c) + HeaderLength(wire[c]) + k, n, k % 4) = [j \in 1..n |-> <<c, k + j>>]
    BY <1>6, <2>2, UnmaskOf
  <2>4. QED BY Zenon, <2>1, <2>3 DEF Bytes
<1>12. /\ HandleFragment(status, Bytes(c, k, n), l - (k + n), o, f.fin)
       /\ opStack' = top /\ spillLength' = 0 /\ wantsHead' = FALSE
       /\ remainingBytes' = l - (k + n) /\ mask' = (k + n) % 4
       /\ src' = src + length /\ received' = received /\ wire' = wire
  <2>1. /\ HandleFragment(StatusAfter(Header), Unmask(src + HeaderLength(Header), length - HeaderLength(Header), 0),
                          Header.len - (length - HeaderLength(Header)),
                          opCode'[StackAfterPush(Header)], Header.fin)
        /\ opStack' = StackAfterPush(Header) /\ spillLength' = 0 /\ wantsHead' = FALSE
        /\ remainingBytes' = Header.len - (length - HeaderLength(Header))
        /\ mask' = (length - HeaderLength(Header)) % 4
        /\ src' = src + length /\ received' = received /\ wire' = wire
    BY DEF FirstPart, EndOfCall
  <2>2. QED BY Zenon, <1>1, <1>7, <1>9, <1>11, <2>1
<1>13. CASE closing'
  <2>1. PICK data \in Tokens : data = Bytes(c, k, n) /\ Len(data) = n  BY ONLY <1>6, BytesType
  <2>2. PICK r \in Nat : r = l - (k + n) /\ r > 0  BY ONLY <1>7, <1>9
  <2>3. HandleFragment(status, data, r, o, f.fin)  BY Zenon, <1>12, <2>1, <2>2
  <2>4. Fail(1009) /\ o < 3 /\ ~closeSent /\ TooLong(Required(data, r))
    <3>1. ~closing /\ closing' # closing  BY <1>4, <1>13
    <3>2. QED BY <1>3, <1>10, <2>2, <2>3, <3>1, PartKept
  <2>5. Required(data, r) = Len(CompleteFragments) + f.len
    <3>1. Len(fragmentBuffer) \in Nat  BY <1>6, LenProperties DEF Tokens
    <3>2. Required(data, r) = Len(fragmentBuffer) + n + r  BY <2>1 DEF Required
    <3>3. n + r = l  BY ONLY <1>7, <1>9, <2>2
    <3>4. Len(fragmentBuffer) + n + r = Len(fragmentBuffer) + l
      <4>1. PICK x \in Nat : x = Len(fragmentBuffer)  BY <3>1
      <4>2. x + n + r = x + l  BY ONLY <3>3
      <4>3. QED BY Zenon, <4>1, <4>2
    <3>5. QED BY Zenon, <1>4, <1>7, <3>2, <3>4
  <2>6. Promise!IsData(f)
    <3>1. f.op \in DataOpCodes \cup {NONE}
      BY <1>3, <1>7, <1>10, <2>4 DEF OpCodes, DataOpCodes, TEXT, BINARY, NONE
    <3>2. QED BY <3>1, Words DEF Promise!IsData
  <2>7. Promise!Oversize(f)  BY Zenon, <2>4, <2>5, <2>6, Words DEF Promise!Oversize
  <2>8. Promise!Fail(1009)  BY <1>12, <2>4, Shuts DEF Fail, Promise!Fail
  <2>9. Promise!Take(f)  BY <1>3, <1>7, <2>7, <2>8 DEF Promise!Take
  <2>10. QED BY <1>4, <1>5, <1>7, <1>13, <2>9, Takes
<1>14. CASE ~closing'
  <2>1. Position' = Start(c) + HeaderLength(wire[c]) + (k + n) /\ (pc' = "second" => src' + rest' = received')
    <3>1. IF rest > 0 THEN pc' = "second" /\ rest' = rest ELSE pc' = "idle" /\ rest' = 0
      BY <1>14 DEF FirstPart, EndOfCall
    <3>2. src = Start(c)  BY <1>4, <1>5
    <3>3. src + length = Start(c) + h + n /\ src + length \in Nat  BY ONLY <1>4, <1>6, <1>7, <3>2
    <3>4. pc' = "second" => src' + rest' = received'  BY <1>4, <1>12, <3>1
    <3>5. Position' = src + length
      <4>1. CASE rest > 0  BY <1>12, <3>1, <4>1 DEF Position
      <4>2. CASE ~(rest > 0)
        <5>1. received' - spillLength' = src + length  BY <1>4, <1>12, <3>3, <4>2
        <5>2. pc' = "idle"  BY <3>1, <4>2
        <5>3. QED BY <5>1, <5>2 DEF Position
      <4>3. QED BY <4>1, <4>2
    <3>6. QED BY Zenon, <1>7, <1>9, <3>3, <3>4, <3>5
  <2>2. ~closing /\ ~closing'  BY <1>4, <1>14
  <2>3. k + n < wire[c].len /\ Sound(wire[c]) /\ (o < 3 <=> wire[c].op <= BINARY)
    <3>1. k + n < l  BY ONLY <1>7, <1>9
    <3>2. QED BY Zenon, <1>3, <1>7, <3>1
  <2>4. HandleFragment(status, Bytes(c, k, n), wire[c].len - (k + n), o, wire[c].fin)
        /\ remainingBytes' = wire[c].len - (k + n) /\ mask' = (k + n) % 4
    BY Zenon, <1>7, <1>12
  <2>5. (o >= 3 => controlTipLength = k) /\ (o >= 3 \/ ~closeSent => fragmentBuffer = Over(CompleteFragments, c, k))
    <3>1. Over(fragmentBuffer, c, 0) = fragmentBuffer  BY <1>6, OverNone
    <3>2. QED BY Zenon, <1>4, <1>8, <3>1
  <2>6. o < 3 /\ ~closeSent /\ wire[c].op # NONE => (status = "COMPRESSED_FRAME" <=> wire[c].rsv1)
    <3>1. o < 3 /\ f.op # NONE => f.op \in DataOpCodes
      BY <1>3, <1>7, <1>10 DEF OpCodes, DataOpCodes, TEXT, BINARY, NONE
    <3>2. QED BY Zenon, <1>3, <1>7, <3>1
  <2>7. f.op > BINARY <=> o >= 3
    BY <1>3, <1>7, <1>10 DEF OpCodes, BINARY, Stacked, TEXT, CLOSE, PING, PONG
  <2>8. f.op > BINARY => f.op \notin DataOpCodes /\ f.op # NONE  BY DEF DataOpCodes, TEXT, BINARY, NONE
  <2>9. o >= 3 /\ ~closeSent /\ ~fragmented' => status # "COMPRESSED_FRAME"
    <3>1. ~closeSent /\ ~fragmented => compression # "COMPRESSED_FRAME"
      BY <1>4 DEF StreamInv, Inflating
    <3>2. SUFFICES ASSUME o >= 3, ~closeSent, ~fragmented' PROVE status # "COMPRESSED_FRAME"  OBVIOUS
    <3>3. f.op > BINARY  BY <2>7, <3>2
    <3>4. fragmented' = fragmented /\ status = compression  BY Zenon, <1>3, <1>7, <2>8, <3>3
    <3>5. QED BY Zenon, <3>1, <3>2, <3>4
  <2>10. opCode'[opStack'] = o /\ (wire[c].op = NONE => opStack' = 0) /\ (wire[c].op # NONE => o = wire[c].op)
    <3>1. f.op = NONE => f.op <= BINARY  BY DEF NONE, BINARY
    <3>2. QED BY Zenon, <1>1, <1>3, <1>7, <1>12, <3>1
  <2>11. /\ Aligned' /\ Gathered' /\ Inflating'
         /\ CurrentFrame' = c /\ InDataFrame' = (o < 3) /\ compression' = status
         /\ ~closeSent => CompleteFragments' = CompleteFragments
         /\ UNCHANGED <<closing, closeSent, log>>
    <3>1. /\ c = CurrentFrame /\ k = Pending /\ lastFin' = wire[c].fin /\ o \in Stacked
          /\ wire' = wire /\ wantsHead' = FALSE /\ received' = received
          /\ status = "DISABLED" <=> ~Deflate
      BY Zenon, <1>3, <1>5, <1>7, <1>8, <1>12
    <3>2. Advances(c, k, n, status, o)
      BY Zenon, <2>1, <2>2, <2>3, <2>4, <2>5, <2>6, <2>9, <2>10, <3>1 DEF Advances
    <3>3. QED BY <2>2, <3>2, Within
  <2>12. MessageOpcode' = MessageOpcode
    <3>1. MessageOpcode' = IF o < 3 THEN (IF f.op = NONE THEN opCode'[0] ELSE NONE)
                           ELSE IF fragmented' THEN opCode'[0] ELSE NONE
      BY <1>7, <1>12, <1>14, <2>11 DEF MessageOpcode
    <3>2. CASE o < 3
      <4>1. f.op = NONE => opCode'[0] = MessageOpcode  BY Zenon, <1>1, <1>3, <1>7, <2>10, <1>12
      <4>2. f.op # NONE => MessageOpcode = NONE
        BY <1>3, <1>7, <1>10, <3>2 DEF OpCodes, DataOpCodes, TEXT, BINARY, NONE
      <4>3. QED BY Zenon, <3>1, <3>2, <4>1, <4>2
    <3>3. CASE ~(o < 3)
      <4>1. f.op > BINARY  BY <2>7, <3>3, <1>3 DEF Stacked, TEXT, BINARY, CLOSE, PING, PONG
      <4>2. QED BY Zenon, <1>3, <1>7, <3>1, <3>3, <4>1
    <3>4. QED BY <3>2, <3>3
  <2>13. MessageOpcode # NONE => compression' = compression  BY Zenon, <1>3, <1>7, <2>11
  <2>14. UNCHANGED Promise!vars  BY <1>5, <1>12, <2>2, <2>11, <2>12, <2>13, Hidden
  <2>15. QED BY <1>14, <2>11, <2>14
<1>15. QED BY <1>13, <1>14

\* Within a frame: what it is, how much of it is left, and what was opened with it.
LEMMA Inside ==
    ASSUME StreamInv, pc = "continuation", NEW c, c = CurrentFrame, NEW k, k = Pending,
           NEW o, o = opCode[opStack]
    PROVE  /\ ~closing /\ ~wantsHead /\ c \in DOMAIN wire /\ wire[c] \in Frame /\ k \in Nat
           /\ remainingBytes \in Nat /\ remainingBytes > 0 /\ remainingBytes = wire[c].len - k
           /\ src = Start(c) + HeaderLength(wire[c]) + k /\ mask = k % 4
           /\ length \in Nat /\ src + length = received /\ rest = 0 /\ spillLength = 0
           /\ lastFin = wire[c].fin /\ Sound(wire[c]) /\ ~Promise!Illegal(wire[c])
           /\ o \in Stacked /\ (o < 3 <=> wire[c].op <= BINARY) /\ (InDataFrame <=> o < 3)
           /\ o = (IF wire[c].op = NONE THEN MessageOpcode ELSE wire[c].op)
           /\ wire[c].op = NONE => opStack = 0
           /\ wire[c].op \in DataOpCodes => MessageOpcode = NONE
           /\ o < 3 => opStack = 0 /\ fragmented = ~wire[c].fin
           /\ o >= 3 => MessageOpcode = IF fragmented THEN opCode[0] ELSE NONE
           /\ o >= 3 => controlTipLength = k
           /\ o >= 3 \/ ~closeSent => fragmentBuffer = Over(CompleteFragments, c, k)
           /\ o < 3 /\ ~closeSent => ~TooLong(Len(fragmentBuffer) + remainingBytes)
           /\ o < 3 /\ ~closeSent /\ wire[c].op # NONE =>
                (compression = "COMPRESSED_FRAME" <=> wire[c].rsv1)
           /\ compression \in Statuses /\ (compression = "DISABLED" <=> ~Deflate)
           /\ o >= 3 /\ ~closeSent /\ ~fragmented => compression # "COMPRESSED_FRAME"
<1>1. /\ ~closing /\ ~wantsHead /\ o \in Stacked /\ compression \in Statuses /\ length \in Nat
      /\ remainingBytes \in Nat
      /\ o < 3 => opStack = 0 /\ opCode[0] \in DataOpCodes /\ fragmented = ~lastFin
      /\ o >= 3 => lastFin
  BY ContinuationFacts DEF StreamInv
<1>2. /\ c \in DOMAIN wire /\ remainingBytes \in 1..wire[c].len
      /\ Position = Start(c) + HeaderLength(wire[c]) + k /\ mask = k % 4
      /\ lastFin = wire[c].fin /\ Sound(wire[c])
      /\ (IF wire[c].op = NONE THEN opStack = 0 /\ InDataFrame ELSE o = wire[c].op)
  BY <1>1 DEF StreamInv, Aligned
<1>3. wire[c] \in Frame /\ wire[c].len \in Nat /\ k \in Nat /\ k = wire[c].len - remainingBytes
  BY <1>1, <1>2, Located DEF Pending
<1>4. PICK f \in Frame : f = wire[c]  BY <1>3
<1>5. remainingBytes > 0 /\ remainingBytes = f.len - k  BY <1>1, <1>2, <1>3, <1>4
<1>6. src = Start(c) + HeaderLength(f) + k  BY <1>2, <1>4 DEF Position
<1>7. src + length = received /\ rest = 0 /\ spillLength = 0
  <2>1. received \in Nat /\ src \in Int /\ rest \in Nat  BY DEF StreamInv, SessionInv, TypeOK
  <2>2. src + length + rest = received /\ rest = 0 /\ spillLength = 0
    BY <1>1 DEF StreamInv, ReadInv, StaysInRead
  <2>3. QED BY <1>1, <2>1, <2>2
<1>8. f.op \in 0..15 /\ f.op \in Stacked \cup {NONE}  BY <1>2, <1>4 DEF Sound, Frame, OpCodes
<1>9. InDataFrame <=> o < 3  BY <1>1 DEF InDataFrame, Stacked, TEXT, BINARY, CLOSE, PING, PONG
<1>10. o < 3 <=> f.op <= BINARY
  <2>1. CASE f.op = NONE  BY <1>2, <1>4, <1>9, <2>1 DEF NONE, BINARY
  <2>2. CASE f.op # NONE
    <3>1. o = f.op  BY <1>2, <1>4, <2>2
    <3>2. QED BY <1>8, <3>1 DEF BINARY
  <2>3. QED BY <2>1, <2>2
<1>11. o < 3 => MessageOpcode = IF f.op = NONE THEN opCode[0] ELSE NONE
  BY <1>1, <1>4, <1>9 DEF MessageOpcode
<1>12. o >= 3 => MessageOpcode = IF fragmented THEN opCode[0] ELSE NONE
  BY <1>1, <1>9 DEF MessageOpcode, Stacked, TEXT, BINARY, CLOSE, PING, PONG
<1>13. o = (IF f.op = NONE THEN MessageOpcode ELSE f.op) /\ (f.op = NONE => opStack = 0)
  BY <1>1, <1>2, <1>4, <1>9, <1>11
<1>14. (f.op \in DataOpCodes => MessageOpcode = NONE) /\ (f.op = NONE => MessageOpcode # NONE)
  <2>1. f.op \in DataOpCodes => f.op <= BINARY /\ f.op # NONE  BY <1>8 DEF DataOpCodes, TEXT, BINARY, NONE
  <2>2. f.op = NONE => o \in Stacked /\ MessageOpcode = o  BY <1>1, <1>13
  <2>3. NONE \notin Stacked  BY DEF Stacked, TEXT, BINARY, CLOSE, PING, PONG, NONE
  <2>4. QED BY Zenon, <1>10, <1>11, <2>1, <2>2, <2>3
<1>15. ~Promise!Illegal(f)
  <2>1. PICK m : m = MessageOpcode  OBVIOUS
  <2>2. Promise!Illegal(f) <=>
          \/ f.malformed
          \/ f.op \in 3..7 \cup 11..15
          \/ f.rsv1 /\ (~Deflate \/ f.op \notin {1, 2})
          \/ f.op >= 8 /\ (~f.fin \/ f.len > ShortMax)
          \/ f.op \in {1, 2} /\ m # 0
          \/ f.op = 0 /\ m = 0
    BY <2>1 DEF Promise!Illegal, Promise!DataOpCodes, Promise!TEXT, Promise!BINARY, Promise!CLOSE, Promise!NONE
  <2>3. ~f.malformed /\ (f.rsv1 => Deflate /\ f.op \in {1, 2})
    BY <1>2, <1>4 DEF Sound, DataOpCodes, TEXT, BINARY
  <2>4. f.op >= 8 => f.fin /\ f.len <= ShortMax  BY <1>2, <1>4 DEF Sound, CLOSE
  <2>5. f.len \in Nat  BY <1>3, <1>4
  <2>6. f.len <= ShortMax => ~(f.len > ShortMax)  BY <2>5, FramesAssumption
  <2>7. f.op \notin 3..7 \cup 11..15  BY <1>8 DEF Stacked, TEXT, BINARY, CLOSE, PING, PONG, NONE
  <2>8. (f.op \in {1, 2} => m = 0) /\ (f.op = 0 => m # 0)
    BY <1>14, <2>1 DEF DataOpCodes, TEXT, BINARY, NONE
  <2>9. QED BY Zenon, <2>2, <2>3, <2>4, <2>6, <2>7, <2>8
<1>16. o >= 3 <=> ~(o < 3)  BY <1>1 DEF Stacked, TEXT, BINARY, CLOSE, PING, PONG
<1>17. /\ o >= 3 => controlTipLength = k
       /\ o >= 3 \/ ~closeSent => fragmentBuffer = Over(CompleteFragments, c, k)
       /\ o < 3 /\ ~closeSent => ~TooLong(Len(fragmentBuffer) + remainingBytes)
       /\ o < 3 /\ ~closeSent /\ f.op # NONE => (compression = "COMPRESSED_FRAME" <=> f.rsv1)
  <2>1. Part = Bytes(c, 0, k)  BY <1>1, <1>3, PartOf
  <2>2. Over(CompleteFragments, c, k) = CompleteFragments \o Part  BY Zenon, <2>1 DEF Over
  <2>3. Gathered  BY DEF StreamInv
  <2>4. QED BY Zenon, <1>1, <1>4, <1>9, <1>16, <2>2, <2>3 DEF Gathered
<1>18. /\ compression = "DISABLED" <=> ~Deflate
       /\ o >= 3 /\ ~closeSent /\ ~fragmented => compression # "COMPRESSED_FRAME"
  BY Zenon, <1>1, <1>9, <1>16 DEF StreamInv, Inflating
<1>19. o < 3 => opStack = 0 /\ fragmented = ~f.fin  BY <1>1, <1>2, <1>4
<1>20. QED
  BY Zenon, <1>1, <1>2, <1>3, <1>4, <1>5, <1>6, <1>7, <1>9, <1>10, <1>12, <1>13, <1>14, <1>15, <1>17, <1>18, <1>19

\* The mask turns with the bytes handled.
LEMMA Turns == \A k, n \in Nat : ((k % 4) + n) % 4 = (k + n) % 4
OBVIOUS

\* Another part, not the last: nothing is seen of it.  The message was checked before, so it is
\* not too long.
LEMMA NextPartKeeps ==
    ASSUME StreamInv, NextPart
    PROVE  ~closing' /\ Aligned' /\ Gathered' /\ Inflating' /\ UNCHANGED Promise!vars
<1>1. /\ pc = "continuation" /\ remainingBytes > length
      /\ remainingBytes' = remainingBytes - length
      /\ HandleFragment(compression, Unmask(src, length, mask), remainingBytes', opCode[opStack], lastFin)
      /\ mask' = (IF closing' THEN mask ELSE Rotate(length))
      /\ src' = src + length /\ received' = received
      /\ UNCHANGED <<wire, spillLength, wantsHead, opStack, opCode, lastFin, fragmented>>
  BY DEF NextPart, EndOfCall, stackVars
<1>2. PICK c, k, o, status : c = CurrentFrame /\ k = Pending /\ o = opCode[opStack] /\ status = compression
  OBVIOUS
<1>3. /\ ~closing /\ ~wantsHead /\ c \in DOMAIN wire /\ wire[c] \in Frame /\ k \in Nat
      /\ remainingBytes \in Nat /\ remainingBytes > 0 /\ remainingBytes = wire[c].len - k
      /\ src = Start(c) + HeaderLength(wire[c]) + k /\ mask = k % 4
      /\ length \in Nat /\ src + length = received /\ rest = 0 /\ spillLength = 0
      /\ lastFin = wire[c].fin /\ Sound(wire[c])
      /\ o \in Stacked /\ (o < 3 <=> wire[c].op <= BINARY) /\ (InDataFrame <=> o < 3)
      /\ o = (IF wire[c].op = NONE THEN MessageOpcode ELSE wire[c].op)
      /\ wire[c].op = NONE => opStack = 0
  BY <1>1, <1>2, Inside
<1>4. /\ o >= 3 => controlTipLength = k
      /\ o >= 3 \/ ~closeSent => fragmentBuffer = Over(CompleteFragments, c, k)
      /\ o < 3 /\ ~closeSent => ~TooLong(Len(fragmentBuffer) + remainingBytes)
      /\ o < 3 /\ ~closeSent /\ wire[c].op # NONE => (status = "COMPRESSED_FRAME" <=> wire[c].rsv1)
      /\ status \in Statuses /\ (status = "DISABLED" <=> ~Deflate)
      /\ o >= 3 /\ ~closeSent /\ ~fragmented => status # "COMPRESSED_FRAME"
  BY <1>1, <1>2, Inside
<1>5. /\ wire \in Seq(Frame) /\ c \in Nat /\ Start(c) \in Nat /\ fragmentBuffer \in Tokens
      /\ HeaderLength(wire[c]) \in Nat /\ wire[c].len \in Nat
  BY <1>2, <1>3, Located
<1>6. PICK l, n, r \in Nat : l = wire[c].len /\ n = length /\ r = remainingBytes - length
  <2>1. remainingBytes - length \in Nat  BY ONLY <1>1, <1>3
  <2>2. QED BY <1>3, <1>5, <2>1
<1>7. r > 0 /\ r = l - (k + n) /\ k + n < l /\ k + n <= l /\ n + r = remainingBytes
  <2>1. PICK b \in Nat : b = remainingBytes  BY <1>3
  <2>2. b > n /\ r = b - n /\ b = l - k /\ k \in Nat  BY ONLY <1>1, <1>3, <1>6, <2>1
  <2>3. r > 0 /\ r = l - (k + n) /\ k + n < l /\ k + n <= l /\ n + r = b  BY ONLY <2>2
  <2>4. QED BY Zenon, <2>1, <2>3
<1>8. Unmask(src, length, mask) = Bytes(c, k, n)
  <2>1. k + n <= wire[c].len  BY Zenon, <1>6, <1>7
  <2>2. Unmask(Start(c) + HeaderLength(wire[c]) + k, n, k % 4) = [j \in 1..n |-> <<c, k + j>>]
    BY <1>3, <1>5, <2>1, UnmaskOf
  <2>3. QED BY Zenon, <1>3, <1>6, <2>2 DEF Bytes
<1>9. PICK data \in Tokens : data = Bytes(c, k, n) /\ Len(data) = n  BY ONLY <1>3, <1>5, BytesType
<1>10. wire[c].fin \in BOOLEAN  BY <1>3 DEF Frame
<1>11. HandleFragment(status, data, r, o, wire[c].fin)  BY Zenon, <1>1, <1>2, <1>3, <1>6, <1>8, <1>9
<1>12. ~closing'
  <2>1. SUFFICES ASSUME closing' PROVE FALSE  OBVIOUS
  <2>2. closing' # closing  BY <1>3, <2>1
  <2>3. o < 3 /\ ~closeSent /\ TooLong(Required(data, r))
    BY <1>3, <1>7, <1>10, <1>11, <2>2, PartKept
  <2>4. Required(data, r) = Len(fragmentBuffer) + remainingBytes
    <3>1. Len(fragmentBuffer) \in Nat  BY <1>5, LenProperties DEF Tokens
    <3>2. PICK x \in Nat : x = Len(fragmentBuffer)  BY <3>1
    <3>3. Required(data, r) = x + n + r  BY <1>9, <3>2 DEF Required
    <3>4. x + n + r = x + remainingBytes  BY ONLY <1>3, <1>7
    <3>5. QED BY Zenon, <3>2, <3>3, <3>4
  <2>5. QED BY Zenon, <1>4, <2>3, <2>4
<1>13. rest' = 0 /\ pc' = "idle"
  <2>1. IF ~closing' /\ rest > 0 THEN pc' = "second" /\ UNCHANGED rest ELSE pc' = "idle" /\ rest' = 0
    BY DEF NextPart, EndOfCall
  <2>2. ~(rest > 0)  BY <1>3
  <2>3. QED BY <2>1, <2>2
<1>14. mask' = (k + n) % 4
  <2>1. mask' = (mask + length) % 4  BY <1>1, <1>12 DEF Rotate
  <2>2. ((k % 4) + n) % 4 = (k + n) % 4  BY ONLY <1>3, Turns
  <2>3. QED BY Zenon, <1>3, <1>6, <2>1, <2>2
<1>15. Position' = Start(c) + HeaderLength(wire[c]) + (k + n)
  <2>1. received' - spillLength' = src + length
    <3>1. received' = src + length /\ spillLength' = 0  BY <1>1, <1>3
    <3>2. received \in Nat  BY DEF StreamInv, SessionInv, TypeOK
    <3>3. QED BY <1>1, <3>1, <3>2
  <2>2. Position' = src + length  BY <1>13, <2>1 DEF Position
  <2>3. PICK s, h \in Nat : s = Start(c) /\ h = HeaderLength(wire[c])  BY <1>5
  <2>4. src = s + h + k  BY Zenon, <1>3, <2>3
  <2>5. src + length = s + h + (k + n)  BY ONLY <1>3, <1>6, <2>4
  <2>6. QED BY Zenon, <2>2, <2>3, <2>5
<1>16. Advances(c, k, n, status, o)
  <2>1. HandleFragment(status, Bytes(c, k, n), wire[c].len - (k + n), o, wire[c].fin)
        /\ remainingBytes' = wire[c].len - (k + n) /\ k + n < wire[c].len /\ n \in Nat
    BY Zenon, <1>1, <1>6, <1>7, <1>9, <1>11
  <2>2. opCode'[opStack'] = o /\ (wire[c].op = NONE => opStack' = 0) /\ (wire[c].op # NONE => o = wire[c].op)
    BY Zenon, <1>1, <1>2, <1>3
  <2>0. wantsHead' = FALSE  BY <1>1, <1>3 DEF StreamInv, SessionInv, TypeOK
  <2>3. wire' = wire /\ wantsHead' = FALSE /\ lastFin' = wire[c].fin /\ received' = received
        /\ (pc' = "second" => src' + rest' = received') /\ fragmented' = fragmented
    BY Zenon, <1>1, <1>3, <1>13, <2>0
  <2>4. QED BY Zenon, <1>2, <1>3, <1>4, <1>14, <1>15, <2>1, <2>2, <2>3 DEF Advances
<1>17. /\ Aligned' /\ Gathered' /\ Inflating'
       /\ CurrentFrame' = c /\ InDataFrame' = (o < 3) /\ compression' = status
       /\ ~closeSent => CompleteFragments' = CompleteFragments
       /\ UNCHANGED <<closing, closeSent, log>>
  BY <1>12, <1>16, Within
<1>18. MessageOpcode' = MessageOpcode
  <2>1. wire'[CurrentFrame'] = wire[CurrentFrame] /\ opCode' = opCode /\ fragmented' = fragmented
    BY Zenon, <1>1, <1>2, <1>17
  <2>2. InDataFrame' <=> InDataFrame  BY Zenon, <1>3, <1>17
  <2>3. QED BY <1>3, <1>12, <2>1, <2>2 DEF MessageOpcode
<1>19. UNCHANGED Promise!vars  BY <1>1, <1>2, <1>3, <1>12, <1>17, <1>18, Hidden
<1>20. QED BY <1>12, <1>17, <1>19

-----------------------------------------------------------------------------
(* A whole frame *)

\* A step that hands the last bytes of frame c, opened as opcode o, to handleFragment().
Finishes(c, status, data, o) ==
    /\ ~closing /\ c \in DOMAIN wire /\ c = CurrentFrame
    /\ Sound(wire[c]) /\ ~Promise!Illegal(wire[c])
    /\ status \in Statuses /\ data \in Tokens
    /\ o \in Stacked /\ (o < 3 <=> wire[c].op <= BINARY)
    /\ HandleFragment(status, data, 0, o, wire[c].fin)
    /\ o = IF wire[c].op = NONE THEN MessageOpcode ELSE wire[c].op
    /\ wire[c].op \in DataOpCodes => MessageOpcode = NONE
    /\ o < 3 /\ ~closeSent => Joined(fragmentBuffer, data) = Over(CompleteFragments, c, wire[c].len)
    /\ o >= 3 => Joined(Tip, data) = Bytes(c, 0, wire[c].len) /\ BelowTip = CompleteFragments
    /\ status = "DISABLED" <=> ~Deflate
    /\ o < 3 /\ ~closeSent =>
         (status = "COMPRESSED_FRAME" <=>
            IF wire[c].op = NONE THEN compression = "COMPRESSED_FRAME" ELSE wire[c].rsv1)
    /\ o >= 3 => status = compression
    /\ o >= 3 /\ ~closeSent /\ ~fragmented => status # "COMPRESSED_FRAME"
    /\ wire' = wire

\* What it leaves when the session goes on.
Finished(c, status, o) ==
    /\ UNCHANGED <<closing, closeSent>> /\ ~Promise!Oversize(wire[c])
    /\ \/ /\ o < 3 /\ closeSent
          /\ log' = log /\ compression' = status
       \/ /\ o < 3 /\ ~closeSent /\ ~wire[c].fin
          /\ fragmentBuffer' = Over(CompleteFragments, c, wire[c].len)
          /\ log' = log /\ compression' = status
       \/ /\ o < 3 /\ ~closeSent /\ wire[c].fin /\ Promise!Fault(wire[c]) = 0
          /\ fragmentBuffer' = <<>>
          /\ log' = Append(log, MessageEvent(o, Over(CompleteFragments, c, wire[c].len)))
          /\ compression' = IF status = "COMPRESSED_FRAME" THEN "ENABLED" ELSE status
       \/ /\ o \in {PING, PONG}
          /\ fragmentBuffer' = CompleteFragments /\ compression' = status
          /\ log' = IF o = PING THEN Append(log, FrameEvent(PONG, 0, Payload(wire, c))) ELSE log

\* Data frames and control frames are told apart alike.
LEMMA DataOrControl ==
    ASSUME StreamInv, NEW c, NEW status, NEW data, NEW o, Finishes(c, status, data, o)
    PROVE  /\ o >= 3 <=> ~(o < 3)
           /\ o < 3 <=> wire[c].op \in DataOpCodes \cup {NONE}
           /\ o < 3 <=> Promise!IsData(wire[c])
           /\ o < 3 <=> o \notin {CLOSE, PING, PONG}
           /\ o >= 3 => o = wire[c].op
           /\ o < 3 => ~TooLong(wire[c].len)
           /\ o >= 3 => wire[c].fin /\ ~Promise!Oversize(wire[c])
           /\ wire[c] \in Frame
           /\ Payload(wire, c) = Bytes(c, 0, wire[c].len)
           /\ Over(CompleteFragments, c, wire[c].len) = CompleteFragments \o Payload(wire, c)
<1>1. /\ ~closing /\ c \in DOMAIN wire /\ c = CurrentFrame /\ Sound(wire[c]) /\ o \in Stacked
      /\ (o < 3 <=> wire[c].op <= BINARY)
      /\ o = IF wire[c].op = NONE THEN MessageOpcode ELSE wire[c].op
  BY DEF Finishes
<1>2. PICK f \in Frame : f = wire[c]  BY <1>1, Located
<1>3. f.op \in Stacked \cup {NONE} /\ f.len \in Nat  BY <1>1, <1>2 DEF Sound, Frame
<1>4. o >= 3 <=> ~(o < 3)  BY <1>1 DEF Stacked, TEXT, BINARY, CLOSE, PING, PONG
<1>5. o < 3 <=> f.op \in DataOpCodes \cup {NONE}
  BY <1>1, <1>2, <1>3 DEF Stacked, DataOpCodes, TEXT, BINARY, CLOSE, PING, PONG, NONE
<1>6. o < 3 <=> Promise!IsData(f)  BY Zenon, <1>5, Words DEF Promise!IsData
<1>7. o < 3 <=> o \notin {CLOSE, PING, PONG}
  BY <1>1 DEF Stacked, TEXT, BINARY, CLOSE, PING, PONG
<1>8. f.op = NONE => f.op <= BINARY  BY DEF NONE, BINARY
<1>9. o >= 3 => o = f.op  BY Zenon, <1>1, <1>2, <1>4, <1>8
<1>10. o < 3 => ~TooLong(f.len)  BY Zenon, <1>1, <1>2 DEF Sound
<1>11. o >= 3 => f.fin /\ ~Promise!Oversize(f)
  <2>1. o >= 3 => f.op >= CLOSE
    BY <1>1, <1>9 DEF Stacked, TEXT, BINARY, CLOSE, PING, PONG
  <2>2. f.op >= CLOSE => f.fin  BY Zenon, <1>1, <1>2 DEF Sound
  <2>3. QED BY Zenon, <1>4, <1>6, <2>1, <2>2 DEF Promise!Oversize
<1>12. Payload(wire, c) = Bytes(c, 0, wire[c].len)
  <2>1. Pending \in Nat  BY <1>1, Located
  <2>2. QED BY <1>1, <2>1, PartOf
<1>13. Over(CompleteFragments, c, wire[c].len) = CompleteFragments \o Payload(wire, c)
  BY Zenon, <1>12 DEF Over
<1>14. QED BY Zenon, <1>2, <1>4, <1>5, <1>6, <1>7, <1>9, <1>10, <1>11, <1>12, <1>13

\* Data that is ignored.
LEMMA IgnoredFinished ==
    ASSUME StreamInv, NEW c, NEW status, NEW data, NEW o, Finishes(c, status, data, o), o < 3, closeSent
    PROVE  ~closing' /\ Finished(c, status, o)
<1>1. HandleFragment(status, data, 0, o, wire[c].fin) /\ ~closing  BY DEF Finishes
<1>2. /\ compression' = status /\ UNCHANGED <<closing, closeSent, log>>
  <2>1. ~(o >= 3)  BY DataOrControl
  <2>2. QED BY Zenon, <1>1, <2>1 DEF HandleFragment
<1>3. ~Promise!Oversize(wire[c])
  <2>1. ~TooLong(wire[c].len)  BY DataOrControl
  <2>2. QED BY Zenon, <2>1, Words DEF Promise!Oversize
<1>4. QED BY Zenon, <1>1, <1>2, <1>3 DEF Finished

\* A whole control frame: a Close ends the session, the others are answered.
LEMMA ControlFinished ==
    ASSUME StreamInv, NEW c, NEW status, NEW data, NEW o, Finishes(c, status, data, o), o >= 3
    PROVE  IF closing' THEN Promise!Take(wire[c]) ELSE Finished(c, status, o)
<1>1. /\ HandleFragment(status, data, 0, o, wire[c].fin) /\ ~closing /\ wire' = wire /\ o \in Stacked
      /\ Joined(Tip, data) = Bytes(c, 0, wire[c].len) /\ BelowTip = CompleteFragments
      /\ ~Promise!Illegal(wire[c]) /\ c = CurrentFrame
  BY DEF Finishes
<1>2. PICK f \in Frame : f = wire[c]  BY DataOrControl
<1>3. /\ ~(o < 3) /\ o \in {CLOSE, PING, PONG} /\ o = f.op /\ f.fin /\ ~Promise!Oversize(f)
      /\ Payload(wire, c) = Tip \o data
  BY Zenon, <1>1, <1>2, DataOrControl DEF Joined
<1>4. PICK P : P = Payload(wire, c)  OBVIOUS
<1>5. /\ compression' = status /\ HandleControl(o, P)
      /\ ~closing' => DropTip
  <2>1. ~(closeSent /\ o \notin {CLOSE, PING, PONG})  BY <1>3
  <2>2. 0 = 0 /\ wire[c].fin  BY <1>2, <1>3
  <2>3. QED BY Zenon, <1>1, <1>3, <1>4, <2>1, <2>2 DEF HandleFragment
<1>6. P = Promise!Payload(wire, IF closing THEN 0 ELSE CurrentFrame)
  BY Zenon, <1>1, <1>4, Words
<1>7. CASE o = CLOSE
  <2>1. IF CloseCode(wire, P) = 1006 THEN Fail(1002)
        ELSE EndSession(CloseCode(wire, P), CloseCode(wire, P), P)
    BY Zenon, <1>5, <1>7 DEF HandleControl
  <2>2. closing'  BY <2>1 DEF Fail, EndSession
  <2>3. IF CloseCode(wire, P) = 1006 THEN Promise!Fail(1002)
        ELSE Promise!Shut(CloseCode(wire, P), CloseCode(wire, P), P)
    <3>1. CASE CloseCode(wire, P) = 1006  BY <1>1, <2>1, <3>1, Shuts DEF Fail, Promise!Fail
    <3>2. CASE CloseCode(wire, P) # 1006  BY <1>1, <2>1, <3>2, Shuts
    <3>3. QED BY <3>1, <3>2
  <2>4. Promise!CloseCode(wire, P) = CloseCode(wire, P) /\ Promise!CLOSE = CLOSE  BY Words
  <2>5. Promise!PeerClose(f)
    <3>1. PICK code : code = CloseCode(wire, P)  OBVIOUS
    <3>2. IF code = 1006 THEN Promise!Fail(1002) ELSE Promise!Shut(code, code, P)
      <4>1. CASE code = 1006  BY Zenon, <2>3, <3>1, <4>1
      <4>2. CASE code # 1006  BY Zenon, <2>3, <3>1, <4>2
      <4>3. QED BY <4>1, <4>2
    <3>3. f.op = Promise!CLOSE /\ Promise!CloseCode(wire, P) = code  BY <1>3, <1>7, <2>4, <3>1
    <3>4. QED BY <1>6, <3>2, <3>3 DEF Promise!PeerClose
  <2>6. Promise!Take(f)  BY Zenon, <1>1, <1>2, <2>5 DEF Promise!Take
  <2>7. QED BY <1>2, <2>2, <2>6
<1>8. CASE o # CLOSE
  <2>1. /\ log' = (IF o = PING THEN Append(log, FrameEvent(PONG, 0, P)) ELSE log)
        /\ UNCHANGED <<closing, closeSent>>
    BY Zenon, <1>5, <1>8 DEF HandleControl
  <2>2. ~closing'  BY <1>1, <2>1
  <2>3. fragmentBuffer' = CompleteFragments  BY Zenon, <1>1, <1>5, <2>2 DEF DropTip
  <2>4. o \in {PING, PONG}  BY <1>3, <1>8
  <2>5. Finished(c, status, o)  BY Zenon, <1>2, <1>3, <1>4, <1>5, <2>1, <2>3, <2>4 DEF Finished
  <2>6. QED BY <2>2, <2>5
<1>9. QED BY <1>7, <1>8

\* Only complete fragments lie below what was handled of a frame.
LEMMA NoneBelow == ASSUME StreamInv, ~closing, fragmentBuffer = <<>> PROVE CompleteFragments = <<>>
<1>1. PICK k \in Nat : k = Pending  BY Located
<1>2. Len(fragmentBuffer) = 0  OBVIOUS
<1>3. PICK m \in Int : m = 0 - k /\ m < 1  OBVIOUS
<1>4. SubSeq(fragmentBuffer, 1, m) = <<>>  BY <1>3, SubSeqEmpty
<1>5. Len(fragmentBuffer) - Pending = m  BY <1>1, <1>2, <1>3
<1>6. QED BY Zenon, <1>4, <1>5 DEF CompleteFragments

\* The message a data frame completes is judged as MessageStream judges it.
LEMMA FaultIs ==
    ASSUME StreamInv, NEW c, NEW status, NEW data, NEW o, Finishes(c, status, data, o), o < 3, ~closeSent,
           NEW W, W = Over(CompleteFragments, c, wire[c].len)
    PROVE  /\ Promise!Fault(wire[c]) = MessageFault(wire, o, status = "COMPRESSED_FRAME", W)
           /\ Promise!MessageOp(wire[c]) = o
           /\ (IF closeSent THEN <<>> ELSE CompleteFragments)
                 \o Promise!Payload(wire, IF closing THEN 0 ELSE CurrentFrame) = W
<1>1. /\ ~closing /\ c = CurrentFrame /\ wire[c] \in Frame /\ o \in Stacked
      /\ o = (IF wire[c].op = NONE THEN MessageOpcode ELSE wire[c].op)
      /\ status = "COMPRESSED_FRAME" <=>
            IF wire[c].op = NONE THEN compression = "COMPRESSED_FRAME" ELSE wire[c].rsv1
  BY DataOrControl DEF Finishes
<1>2. PICK f \in Frame : f = wire[c]  BY <1>1
<1>3. f.rsv1 \in BOOLEAN  BY DEF Frame
<1>4. W = CompleteFragments \o Payload(wire, c)  BY DataOrControl
<1>5. (IF closeSent THEN <<>> ELSE CompleteFragments)
         \o Promise!Payload(wire, IF closing THEN 0 ELSE CurrentFrame) = W
  <2>1. (IF closeSent THEN <<>> ELSE CompleteFragments) = CompleteFragments  OBVIOUS
  <2>2. (IF closing THEN 0 ELSE CurrentFrame) = c  BY <1>1
  <2>3. Promise!Payload(wire, c) = Payload(wire, c)  BY Words
  <2>4. QED BY Zenon, <1>4, <2>1, <2>2, <2>3
<1>6. Promise!MessageOp(f) = o  BY Zenon, <1>1, <1>2, Words DEF Promise!MessageOp
<1>7. PICK z \in BOOLEAN : z = (status = "COMPRESSED_FRAME")  OBVIOUS
<1>8. (IF f.op = Promise!NONE THEN ~closeSent /\ MessageOpcode # NONE /\ compression = "COMPRESSED_FRAME"
       ELSE f.rsv1) = z
  <2>1. NONE \notin Stacked /\ Promise!NONE = NONE
    BY Words DEF Stacked, TEXT, BINARY, CLOSE, PING, PONG, NONE
  <2>2. CASE f.op = NONE
    <3>1. MessageOpcode # NONE  BY Zenon, <1>1, <1>2, <2>1, <2>2
    <3>2. z <=> compression = "COMPRESSED_FRAME"  BY <1>1, <1>2, <1>7, <2>2
    <3>3. QED BY <2>1, <2>2, <3>1, <3>2
  <2>3. CASE f.op # NONE
    <3>1. z <=> f.rsv1  BY <1>1, <1>2, <1>7, <2>3
    <3>2. QED BY <1>3, <2>1, <2>3, <3>1
  <2>4. QED BY <2>2, <2>3
<1>9. Promise!Fault(f) = Promise!MessageFault(wire, o, z, W)
  BY Zenon, <1>5, <1>6, <1>8 DEF Promise!Fault
<1>10. Promise!MessageFault(wire, o, z, W) = MessageFault(wire, o, z, W)  BY Words
<1>11. QED BY Zenon, <1>2, <1>5, <1>6, <1>7, <1>9, <1>10

\* A whole data frame, or the last part of one.
LEMMA DataFinished ==
    ASSUME StreamInv, NEW c, NEW status, NEW data, NEW o, Finishes(c, status, data, o), o < 3, ~closeSent
    PROVE  IF closing' THEN Promise!Take(wire[c]) ELSE Finished(c, status, o)
<1>1. /\ HandleFragment(status, data, 0, o, wire[c].fin) /\ ~closing /\ wire' = wire /\ data \in Tokens
      /\ Joined(fragmentBuffer, data) = Over(CompleteFragments, c, wire[c].len)
      /\ ~Promise!Illegal(wire[c]) /\ c = CurrentFrame /\ c \in DOMAIN wire
  BY DEF Finishes
<1>0. PICK W : W = Over(CompleteFragments, c, wire[c].len)  OBVIOUS
<1>2. PICK f \in Frame : f = wire[c] /\ W = Over(CompleteFragments, c, f.len)  BY <1>0, DataOrControl
<1>3. /\ ~(o >= 3) /\ Promise!IsData(f) /\ ~TooLong(f.len) /\ f.fin \in BOOLEAN /\ f.len \in Nat
  BY <1>2, DataOrControl DEF Frame
<1>4. /\ Promise!Fault(f) = MessageFault(wire, o, status = "COMPRESSED_FRAME", W)
  BY <1>2, FaultIs
<1>5. Joined(fragmentBuffer, data) = W /\ HandleFragment(status, data, 0, o, f.fin) /\ ~Promise!Illegal(f)
  BY Zenon, <1>1, <1>2
<1>6. HandleData(status, data, 0, o, f.fin)  BY Zenon, <1>3, <1>5 DEF HandleFragment
<1>7. Len(CompleteFragments) \in Nat /\ Required(data, 0) = Len(CompleteFragments) + f.len
  <2>1. c \in Nat /\ CompleteFragments \in Tokens /\ fragmentBuffer \in Tokens  BY <1>1, Located
  <2>2. PICK A \in Tokens, l \in Nat : A = CompleteFragments /\ l = f.len  BY <1>3, <2>1
  <2>3. Len(A) \in Nat /\ Len(Over(A, c, l)) = Len(A) + l  BY ONLY <2>1, OverType
  <2>4. Len(W) = Len(CompleteFragments) + f.len  BY Zenon, <1>2, <2>2, <2>3
  <2>5. Len(fragmentBuffer) \in Nat /\ Len(data) \in Nat /\ Len(fragmentBuffer \o data) = Len(fragmentBuffer) + Len(data)
    BY <1>1, <2>1, LenProperties, ConcatProperties DEF Tokens
  <2>6. Required(data, 0) = Len(fragmentBuffer) + Len(data)  BY <2>5 DEF Required
  <2>7. QED BY Zenon, <1>5, <2>2, <2>3, <2>4, <2>5, <2>6 DEF Joined
<1>8. Promise!Oversize(f) <=> TooLong(Required(data, 0))
  <2>1. Len(IF closeSent THEN <<>> ELSE CompleteFragments) = Len(CompleteFragments)  OBVIOUS
  <2>2. QED BY Zenon, <1>3, <1>7, <2>1, Words DEF Promise!Oversize
<1>9. \/ TooLong(Required(data, 0)) /\ Fail(1009)
      \/ /\ ~TooLong(Required(data, 0)) /\ f.fin
         /\ \E kept : DeliverMessage(status, o, W, kept)
      \/ /\ ~TooLong(Required(data, 0)) /\ ~f.fin
         /\ fragmentBuffer' = W /\ compression' = status /\ UNCHANGED <<closing, closeSent, log>>
  <2>1. CASE f.fin /\ fragmentBuffer = <<>>
    <3>1. DeliverMessage(status, o, data, <<>>)  BY Zenon, <1>6, <2>1 DEF HandleData
    <3>2. data = W  BY <1>1, <1>5, <2>1, ConcatEmptySeq DEF Joined, Tokens
    <3>3. ~TooLong(Required(data, 0))
      <4>1. CompleteFragments = <<>>  BY <1>1, <2>1, NoneBelow
      <4>2. Len(CompleteFragments) + f.len = f.len
        <5>1. Len(CompleteFragments) = 0  BY <4>1
        <5>2. QED BY <1>3, <5>1
      <4>3. QED BY Zenon, <1>3, <1>7, <4>2
    <3>4. QED BY Zenon, <2>1, <3>1, <3>2, <3>3
  <2>2. CASE ~(f.fin /\ fragmentBuffer = <<>>)
    <3>1. \/ TooLong(Required(data, 0)) /\ Fail(1009)
          \/ ~TooLong(Required(data, 0)) /\ f.fin
             /\ DeliverMessage(status, o, fragmentBuffer \o data, fragmentBuffer \o data)
          \/ ~TooLong(Required(data, 0)) /\ ~f.fin /\ fragmentBuffer' = fragmentBuffer \o data
             /\ compression' = status /\ UNCHANGED <<closing, closeSent, log>>
      BY Zenon, <1>6, <2>2 DEF HandleData
    <3>2. QED BY Zenon, <1>5, <3>1 DEF Joined
  <2>3. QED BY <2>1, <2>2
<1>10. CASE TooLong(Required(data, 0)) /\ Fail(1009)
  <2>1. closing'  BY <1>10 DEF Fail, EndSession
  <2>2. Promise!Fail(1009)  BY <1>1, <1>10, Shuts DEF Fail, Promise!Fail
  <2>3. Promise!Take(f)  BY Zenon, <1>5, <1>8, <1>10, <2>2 DEF Promise!Take
  <2>4. QED BY <1>2, <2>1, <2>3
<1>11. CASE ~TooLong(Required(data, 0)) /\ f.fin /\ \E kept : DeliverMessage(status, o, W, kept)
  <2>1. PICK kept : DeliverMessage(status, o, W, kept)  BY <1>11
  <2>2. /\ compression' = IF status = "COMPRESSED_FRAME" THEN "ENABLED" ELSE status
        /\ \/ Promise!Fault(f) # 0 /\ Fail(Promise!Fault(f))
           \/ /\ Promise!Fault(f) = 0
              /\ log' = Append(log, MessageEvent(o, W)) /\ fragmentBuffer' = <<>>
              /\ UNCHANGED <<closing, closeSent>>
    BY Zenon, <1>4, <2>1 DEF DeliverMessage
  <2>3. CASE Promise!Fault(f) # 0 /\ Fail(Promise!Fault(f))
    <3>1. closing'  BY <2>3 DEF Fail, EndSession
    <3>2. PICK code : code = Promise!Fault(f)  OBVIOUS
    <3>3. Fail(code)  BY Zenon, <2>3, <3>2
    <3>4. Promise!Fail(code)  BY <1>1, <3>3, Shuts DEF Fail, Promise!Fail
    <3>5. Promise!Take(f)
      BY Zenon, <1>3, <1>5, <1>8, <1>11, <2>3, <3>2, <3>4 DEF Promise!Take
    <3>6. QED BY <1>2, <3>1, <3>5
  <2>4. CASE /\ Promise!Fault(f) = 0
             /\ log' = Append(log, MessageEvent(o, W)) /\ fragmentBuffer' = <<>>
             /\ UNCHANGED <<closing, closeSent>>
    <3>1. ~closing'  BY <1>1, <2>4
    <3>2. Finished(c, status, o)  BY Zenon, <1>2, <1>8, <1>11, <2>2, <2>4 DEF Finished
    <3>3. QED BY <3>1, <3>2
  <2>5. QED BY <2>2, <2>3, <2>4
<1>12. CASE /\ ~TooLong(Required(data, 0)) /\ ~f.fin
            /\ fragmentBuffer' = W /\ compression' = status /\ UNCHANGED <<closing, closeSent, log>>
  <2>1. ~closing'  BY <1>1, <1>12
  <2>2. Finished(c, status, o)  BY Zenon, <1>2, <1>8, <1>12 DEF Finished
  <2>3. QED BY <2>1, <2>2
<1>13. QED BY <1>9, <1>10, <1>11, <1>12

\* A step that leaves the parser at the end of frame c, opened as opcode o.
Moves(c, o) ==
    /\ wantsHead' = TRUE /\ received' = received /\ pc' # "second"
    /\ Position' = Start(c) + HeaderLength(wire[c]) + wire[c].len
    /\ o < 3 => fragmented' = ~wire[c].fin /\ opCode'[0] = o
    /\ o >= 3 => fragmented' = fragmented /\ (IF fragmented' THEN opCode'[0] ELSE NONE) = MessageOpcode

\* All that is kept is then complete fragments.
LEMMA AllComplete ==
    ASSUME wantsHead' = TRUE, NEW B \in Tokens, fragmentBuffer' = B
    PROVE  CompleteFragments' = B
<1>1. Pending' = 0  BY DEF Pending
<1>2. Len(B) \in Nat  BY LenProperties DEF Tokens
<1>3. Len(B) - 0 = Len(B)  BY <1>2
<1>4. SubSeq(B, 1, Len(B)) = B  BY SubSeqFull DEF Tokens
<1>5. QED BY <1>1, <1>3, <1>4 DEF CompleteFragments

\* The parser is at the start of the next frame.
LEMMA MovesOn ==
    ASSUME StreamInv, NEW c, NEW status, NEW data, NEW o, Finishes(c, status, data, o), Moves(c, o), ~closing'
    PROVE  /\ CurrentFrame' = c + 1 /\ Aligned' /\ Gathered'
           /\ o < 3 => MessageOpcode' = IF wire[c].fin THEN NONE ELSE o
           /\ o >= 3 => MessageOpcode' = MessageOpcode
<1>1. ~closing /\ c \in DOMAIN wire /\ c = CurrentFrame /\ wire' = wire  BY DEF Finishes
<1>2. /\ wantsHead' = TRUE /\ received' = received /\ pc' # "second"
      /\ Position' = Start(c) + HeaderLength(wire[c]) + wire[c].len
      /\ o < 3 => fragmented' = ~wire[c].fin /\ opCode'[0] = o
      /\ o >= 3 => (IF fragmented' THEN opCode'[0] ELSE NONE) = MessageOpcode
  BY Zenon DEF Moves
<1>3. /\ wire \in Seq(Frame) /\ Len(wire) \in Nat /\ DOMAIN wire = 1..Len(wire) /\ c \in 1..Len(wire)
      /\ FrameSize(wire[c]) = HeaderLength(wire[c]) + wire[c].len
      /\ HeaderLength(wire[c]) \in Nat /\ wire[c].len \in Nat
  BY <1>1, Located
<1>4. PICK d \in 1..(Len(wire) + 1) : d = c + 1  BY <1>3
<1>5. Start(c) \in Nat /\ Start(d) \in Nat /\ Start(d) = Start(c) + FrameSize(wire[c])
  <2>1. c \in 1..(Len(wire) + 1)  BY <1>3
  <2>2. QED BY <1>3, <1>4, <2>1, StartStep
<1>6. Position' = Start(d)
  <2>1. PICK s, h, l \in Nat : s = Start(c) /\ h = HeaderLength(wire[c]) /\ l = wire[c].len  BY <1>3, <1>5
  <2>2. s + h + l = s + (h + l)  BY <2>1
  <2>3. QED BY Zenon, <1>2, <1>3, <1>5, <2>1, <2>2
<1>7. d \in DOMAIN wire => Start(d) < Start(d) + FrameSize(wire[d])
  <2>1. SUFFICES ASSUME d \in DOMAIN wire PROVE Start(d) < Start(d) + FrameSize(wire[d])  OBVIOUS
  <2>2. FrameSize(wire[d]) = HeaderLength(wire[d]) + wire[d].len /\ HeaderLength(wire[d]) \in Nat
        /\ HeaderLength(wire[d]) >= 2 /\ wire[d].len \in Nat
    BY <1>1, <2>1, Located
  <2>3. QED BY <1>5, <2>2
<1>8. CurrentFrame' = d
  <2>1. Position' \in Nat /\ Start(d) <= Position'  BY <1>5, <1>6
  <2>2. d \in DOMAIN wire => Position' < Start(d) + FrameSize(wire[d])  BY Zenon, <1>6, <1>7
  <2>3. QED BY <1>1, <1>3, <2>1, <2>2, MovesTo
<1>9. Aligned'
  <2>1. received' <= StreamLength'
    <3>1. received <= StreamLength  BY <1>1 DEF StreamInv, Aligned
    <3>2. QED BY <1>1, <1>2, <3>1, SameStream
  <2>2. Position' = Start(CurrentFrame)'
    <3>1. Start(d)' = Start(d)  BY <1>1, SameStream
    <3>2. Start(CurrentFrame)' = Start(d)' BY <1>8
    <3>3. QED BY <1>6, <3>1, <3>2
  <2>3. QED BY <1>1, <1>2, <1>8, <2>1, <2>2 DEF Aligned
<1>10. Gathered'  BY <1>2 DEF Gathered
<1>11. MessageOpcode' = IF fragmented' THEN opCode'[0] ELSE NONE
  BY <1>2 DEF MessageOpcode, InDataFrame
<1>12. wire[c].fin \in BOOLEAN  BY <1>1, Located DEF Frame
<1>13. QED BY <1>2, <1>4, <1>8, <1>9, <1>10, <1>11, <1>12

\* A frame that was handled whole is taken as MessageStream takes it.
LEMMA Taken ==
    ASSUME StreamInv, NEW c, NEW status, NEW data, NEW o, Finishes(c, status, data, o), Moves(c, o),
           ~closing', Finished(c, status, o)
    PROVE  Promise!Take(wire[c]) /\ Aligned' /\ Gathered' /\ Inflating'
<1>1. /\ ~closing /\ c \in DOMAIN wire /\ c = CurrentFrame /\ ~Promise!Illegal(wire[c])
      /\ status \in Statuses /\ o \in Stacked /\ (o < 3 <=> wire[c].op <= BINARY)
      /\ o = IF wire[c].op = NONE THEN MessageOpcode ELSE wire[c].op
      /\ status = "DISABLED" <=> ~Deflate
      /\ o < 3 /\ ~closeSent =>
           (status = "COMPRESSED_FRAME" <=>
              IF wire[c].op = NONE THEN compression = "COMPRESSED_FRAME" ELSE wire[c].rsv1)
      /\ o >= 3 => status = compression
      /\ o >= 3 /\ ~closeSent /\ ~fragmented => status # "COMPRESSED_FRAME"
      /\ wire' = wire
  BY Zenon DEF Finishes
<1>2. /\ CurrentFrame' = c + 1 /\ Aligned' /\ Gathered'
      /\ o < 3 => MessageOpcode' = IF wire[c].fin THEN NONE ELSE o
      /\ o >= 3 => MessageOpcode' = MessageOpcode
  BY MovesOn
<1>3. /\ o >= 3 <=> ~(o < 3)
      /\ o < 3 <=> Promise!IsData(wire[c])
      /\ o >= 3 => o = wire[c].op
      /\ wire[c] \in Frame
      /\ Payload(wire, c) = Bytes(c, 0, wire[c].len)
      /\ Over(CompleteFragments, c, wire[c].len) = CompleteFragments \o Payload(wire, c)
  BY DataOrControl
<1>4. /\ UNCHANGED <<closing, closeSent>> /\ ~Promise!Oversize(wire[c])
      /\ \/ /\ o < 3 /\ closeSent
            /\ log' = log /\ compression' = status
         \/ /\ o < 3 /\ ~closeSent /\ ~wire[c].fin
            /\ fragmentBuffer' = Over(CompleteFragments, c, wire[c].len)
            /\ log' = log /\ compression' = status
         \/ /\ o < 3 /\ ~closeSent /\ wire[c].fin /\ Promise!Fault(wire[c]) = 0
            /\ fragmentBuffer' = <<>>
            /\ log' = Append(log, MessageEvent(o, Over(CompleteFragments, c, wire[c].len)))
            /\ compression' = IF status = "COMPRESSED_FRAME" THEN "ENABLED" ELSE status
         \/ /\ o \in {PING, PONG}
            /\ fragmentBuffer' = CompleteFragments /\ compression' = status
            /\ log' = IF o = PING THEN Append(log, FrameEvent(PONG, 0, Payload(wire, c))) ELSE log
  BY Zenon DEF Finished
<1>0. PICK W : W = Over(CompleteFragments, c, wire[c].len)  OBVIOUS
<1>5. PICK f \in Frame : f = wire[c] /\ W = Over(CompleteFragments, c, f.len)  BY <1>0, <1>3
<1>6. wantsHead' = TRUE /\ (o < 3 => fragmented' = ~f.fin) /\ (o >= 3 => fragmented' = fragmented)
  BY Zenon, <1>5 DEF Moves
<1>7. f.rsv1 \in BOOLEAN /\ f.fin \in BOOLEAN /\ f.len \in Nat  BY DEF Frame
<1>8. W \in Tokens /\ CompleteFragments \in Tokens
  <2>1. c \in Nat /\ CompleteFragments \in Tokens  BY <1>1, Located
  <2>2. QED BY <1>5, <1>7, <2>1, OverType
<1>9. o \in {PING, PONG} => o >= 3  BY DEF PING, PONG
<1>10. Inflating'
  <2>1. compression' = "DISABLED" <=> ~Deflate
    BY Zenon, <1>1, <1>4
  <2>2. ~closeSent /\ ~fragmented' => compression' # "COMPRESSED_FRAME"
    <3>1. CASE o < 3
      <4>1. SUFFICES ASSUME ~closeSent, ~fragmented' PROVE compression' # "COMPRESSED_FRAME"  OBVIOUS
      <4>2. f.fin  BY <1>6, <1>7, <3>1, <4>1
      <4>3. compression' = IF status = "COMPRESSED_FRAME" THEN "ENABLED" ELSE status
        BY Zenon, <1>3, <1>4, <1>5, <1>9, <3>1, <4>1, <4>2
      <4>4. QED BY <4>3
    <3>2. CASE ~(o < 3)
      <4>1. o >= 3 /\ compression' = status /\ fragmented' = fragmented
        BY Zenon, <1>3, <1>4, <1>6, <3>2
      <4>2. QED BY Zenon, <1>1, <4>1
    <3>3. QED BY <3>1, <3>2
  <2>3. Deflate' = Deflate  OBVIOUS
  <2>4. QED BY <1>4, <2>1, <2>2 DEF Inflating
<1>11. Promise!Ignore(f) \/ Promise!Fragment(f) \/ Promise!LastFragment(f) \/ Promise!PingOrPong(f)
  <2>1. Promise!NONE = NONE  BY Words
  <2>2. NONE \notin Stacked  BY DEF Stacked, TEXT, BINARY, CLOSE, PING, PONG, NONE
  <2>3. (IF closing THEN 0 ELSE CurrentFrame) = c /\ Promise!Payload(wire, c) = Payload(wire, c)
    BY <1>1, Words
  <2>4. closeSent' = closeSent /\ closing' = closing  BY <1>4
  <2>5. CASE o < 3 /\ closeSent
    <3>1. MessageOpcode' = IF f.fin THEN Promise!NONE ELSE IF f.op = Promise!NONE THEN MessageOpcode ELSE f.op
      BY Zenon, <1>1, <1>2, <1>5, <2>1, <2>5
    <3>2. log' = log  BY Zenon, <1>3, <1>4, <1>9, <2>5
    <3>3. (~closeSent /\ MessageOpcode # NONE /\ compression = "COMPRESSED_FRAME")'
            = (~closeSent /\ MessageOpcode # NONE /\ compression = "COMPRESSED_FRAME")
      BY <2>4, <2>5
    <3>4. (IF closeSent THEN <<>> ELSE CompleteFragments)' = IF closeSent THEN <<>> ELSE CompleteFragments
      BY <2>4, <2>5
    <3>5. Promise!IsData(f)  BY Zenon, <1>3, <1>5, <2>5
    <3>6. Promise!Ignore(f)
      BY Zenon, <2>4, <2>5, <3>1, <3>2, <3>3, <3>4, <3>5 DEF Promise!Ignore
    <3>7. QED BY <3>6
  <2>6. CASE o < 3 /\ ~closeSent /\ ~f.fin
    <3>1. MessageOpcode' = IF f.op = Promise!NONE THEN MessageOpcode ELSE f.op
      BY Zenon, <1>1, <1>2, <1>5, <2>1, <2>6
    <3>2. fragmentBuffer' = W /\ log' = log /\ compression' = status
      BY Zenon, <1>3, <1>4, <1>5, <1>9, <2>6
    <3>3. CompleteFragments' = W  BY <1>6, <1>8, <3>2, AllComplete
    <3>4. (IF closeSent THEN <<>> ELSE CompleteFragments)'
            = (IF closeSent THEN <<>> ELSE CompleteFragments)
                \o Promise!Payload(wire, IF closing THEN 0 ELSE CurrentFrame)
      <4>1. ~closeSent' /\ ~closeSent  BY <2>4, <2>6
      <4>2. W = CompleteFragments \o Payload(wire, c)  BY Zenon, <1>3, <1>5
      <4>3. (IF closeSent THEN <<>> ELSE CompleteFragments) = CompleteFragments  BY <4>1
      <4>4. (IF closeSent THEN <<>> ELSE CompleteFragments)' = W  BY <3>3, <4>1
      <4>5. QED BY Zenon, <2>3, <4>2, <4>3, <4>4
    <3>5. (~closeSent /\ MessageOpcode # NONE /\ compression = "COMPRESSED_FRAME")'
            = IF f.op = Promise!NONE
              THEN (~closeSent /\ MessageOpcode # NONE /\ compression = "COMPRESSED_FRAME")
              ELSE f.rsv1
      <4>1. MessageOpcode' # NONE
        <5>1. MessageOpcode' = o  BY Zenon, <1>2, <1>5, <2>6
        <5>2. QED BY Zenon, <1>1, <2>2, <5>1
      <4>2. (~closeSent /\ MessageOpcode # NONE /\ compression = "COMPRESSED_FRAME")'
              = (status = "COMPRESSED_FRAME")
        <5>1. ~closeSent'  BY <2>4, <2>6
        <5>2. (compression = "COMPRESSED_FRAME")' = (status = "COMPRESSED_FRAME")  BY <3>2
        <5>3. QED BY ONLY <4>1, <5>1, <5>2
      <4>3. CASE f.op = NONE
        <5>1. MessageOpcode # NONE  BY Zenon, <1>1, <1>5, <2>2, <4>3
        <5>2. status = "COMPRESSED_FRAME" <=> compression = "COMPRESSED_FRAME"
          BY Zenon, <1>1, <1>5, <2>6, <4>3
        <5>3. QED BY <2>1, <2>6, <4>2, <4>3, <5>1, <5>2
      <4>4. CASE f.op # NONE
        <5>1. status = "COMPRESSED_FRAME" <=> f.rsv1  BY Zenon, <1>1, <1>5, <2>6, <4>4
        <5>2. QED BY <1>7, <2>1, <4>2, <4>4, <5>1
      <4>5. QED BY <4>3, <4>4
    <3>6. Promise!IsData(f)  BY Zenon, <1>3, <1>5, <2>6
    <3>7. Promise!Fragment(f)
      BY Zenon, <2>4, <2>6, <3>1, <3>2, <3>4, <3>5, <3>6 DEF Promise!Fragment
    <3>8. QED BY <3>7
  <2>7. CASE o < 3 /\ ~closeSent /\ f.fin
    <3>1. /\ Promise!Fault(f) = 0 /\ fragmentBuffer' = <<>> /\ log' = Append(log, MessageEvent(o, W))
      BY Zenon, <1>3, <1>4, <1>5, <1>9, <2>7
    <3>2. MessageOpcode' = Promise!NONE  BY Zenon, <1>2, <1>5, <2>1, <2>7
    <3>3. CompleteFragments' = <<>>
      <4>1. <<>> \in Tokens  BY DEF Tokens
      <4>2. QED BY <1>6, <3>1, <4>1, AllComplete
    <3>4. (~closeSent /\ MessageOpcode # NONE /\ compression = "COMPRESSED_FRAME")' = FALSE
      BY <2>1, <3>2
    <3>5. (IF closeSent THEN <<>> ELSE CompleteFragments)' = <<>>  BY <3>3
    <3>6. /\ Promise!MessageOp(f) = o
          /\ (IF closeSent THEN <<>> ELSE CompleteFragments)
                \o Promise!Payload(wire, IF closing THEN 0 ELSE CurrentFrame) = W
      BY <1>5, <2>7, FaultIs
    <3>7. log' = Append(log, Promise!MessageEvent(Promise!MessageOp(f),
                   (IF closeSent THEN <<>> ELSE CompleteFragments)
                      \o Promise!Payload(wire, IF closing THEN 0 ELSE CurrentFrame)))
      <4>1. Promise!MessageEvent(o, W) = MessageEvent(o, W)  BY Words
      <4>2. QED BY Zenon, <3>1, <3>6, <4>1
    <3>8. Promise!IsData(f)  BY Zenon, <1>3, <1>5, <2>7
    <3>9. Promise!LastFragment(f)
      BY Zenon, <2>4, <2>7, <3>1, <3>2, <3>4, <3>5, <3>7, <3>8 DEF Promise!LastFragment
    <3>10. QED BY <3>9
  <2>8. CASE ~(o < 3)
    <3>1. /\ o \in {PING, PONG} /\ fragmentBuffer' = CompleteFragments /\ compression' = status
          /\ log' = IF o = PING THEN Append(log, FrameEvent(PONG, 0, Payload(wire, c))) ELSE log
      BY Zenon, <1>4, <2>8
    <3>2. /\ o = f.op /\ MessageOpcode' = MessageOpcode /\ compression' = compression
      BY Zenon, <1>1, <1>2, <1>3, <1>5, <2>8, <3>1
    <3>3. CompleteFragments' = CompleteFragments
      <4>1. PICK B \in Tokens : B = CompleteFragments  BY <1>8
      <4>2. fragmentBuffer' = B  BY <3>1, <4>1
      <4>3. CompleteFragments' = B  BY <1>6, <4>2, AllComplete
      <4>4. QED BY <4>1, <4>3
    <3>4. (~closeSent /\ MessageOpcode # NONE /\ compression = "COMPRESSED_FRAME")'
            = (~closeSent /\ MessageOpcode # NONE /\ compression = "COMPRESSED_FRAME")
      BY <2>4, <3>2
    <3>5. (IF closeSent THEN <<>> ELSE CompleteFragments)' = IF closeSent THEN <<>> ELSE CompleteFragments
      BY <2>4, <3>3
    <3>6. Promise!PING = PING /\ Promise!PONG = PONG
          /\ Promise!FrameEvent(PONG, 0, Payload(wire, c)) = FrameEvent(PONG, 0, Payload(wire, c))
      BY Words
    <3>7. log' = IF f.op = Promise!PING
                 THEN Append(log, Promise!FrameEvent(Promise!PONG, 0,
                               Promise!Payload(wire, IF closing THEN 0 ELSE CurrentFrame)))
                 ELSE log
      BY Zenon, <2>3, <3>1, <3>2, <3>6
    <3>8. f.op \in {Promise!PING, Promise!PONG}  BY Zenon, <3>1, <3>2, <3>6
    <3>9. Promise!PingOrPong(f)
      BY Zenon, <2>4, <3>2, <3>4, <3>5, <3>7, <3>8 DEF Promise!PingOrPong
    <3>10. QED BY <3>9
  <2>9. QED BY <2>5, <2>6, <2>7, <2>8
<1>12. (IF closing THEN 0 ELSE CurrentFrame)' = (IF closing THEN 0 ELSE CurrentFrame) + 1
  BY <1>1, <1>2
<1>13. Promise!Take(f)  BY Zenon, <1>1, <1>4, <1>5, <1>11, <1>12 DEF Promise!Take
<1>14. QED BY <1>2, <1>5, <1>10, <1>13

\* The last bytes of a frame: MessageStream takes the frame, and the parser is ready for the next.
LEMMA HandledTakes ==
    ASSUME StreamInv, NEW c, NEW status, NEW data, NEW o, Finishes(c, status, data, o),
           ~closing' => Moves(c, o)
    PROVE  Promise!TakeFrame /\ (~closing' => Aligned' /\ Gathered' /\ Inflating')
<1>1. ~closing /\ c \in DOMAIN wire /\ c = CurrentFrame  BY DEF Finishes
<1>2. IF closing' THEN Promise!Take(wire[c]) ELSE Finished(c, status, o)
  <2>1. CASE o < 3 /\ closeSent  BY <2>1, IgnoredFinished
  <2>2. CASE o < 3 /\ ~closeSent  BY <2>2, DataFinished
  <2>3. CASE ~(o < 3)
    <3>1. o >= 3  BY <2>3, DataOrControl
    <3>2. QED BY <3>1, ControlFinished
  <2>4. QED BY <2>1, <2>2, <2>3
<1>3. Promise!Take(wire[c]) /\ (~closing' => Aligned' /\ Gathered' /\ Inflating')
  <2>1. CASE closing'  BY <1>2, <2>1
  <2>2. CASE ~closing'  BY <1>2, <2>2, Taken
  <2>3. QED BY <2>1, <2>2
<1>4. QED BY <1>1, <1>3, Takes

\* With no part of a control frame kept, the tip is empty.
LEMMA NoTip ==
    ASSUME fragmentBuffer \in Tokens, controlTipLength = 0
    PROVE  Tip = <<>>
<1>1. PICK n \in Nat : n = Len(fragmentBuffer)  BY LenProperties DEF Tokens
<1>2. PICK m \in Int : m = n - 0 + 1 /\ n < m  BY <1>1
<1>3. SubSeq(fragmentBuffer, m, n) = <<>>  BY <1>1, <1>2, SubSeqEmpty
<1>4. QED BY <1>1, <1>2, <1>3 DEF Tip

\* A frame that lies whole in the read is taken in one step.
LEMMA WholeFrameTakes ==
    ASSUME StreamInv, WholeFrame
    PROVE  Promise!TakeFrame /\ (~closing' => Aligned' /\ Gathered' /\ Inflating')
<1>1. PICK top, status, o : top = StackAfterPush(Header) /\ status = StatusAfter(Header) /\ o = opCode'[top]
  OBVIOUS
<1>2. Accept(Header)  BY DEF WholeFrame
<1>3. /\ HeaderReady /\ ~Promise!Illegal(Header) /\ Sound(Header)
      /\ o \in Stacked
      /\ o < 3 <=> Header.op <= BINARY
      /\ o = IF Header.op = NONE THEN MessageOpcode ELSE Header.op
      /\ Header.op <= BINARY => top = 0 /\ fragmented' = ~Header.fin
      /\ Header.op > BINARY => /\ fragmented' = fragmented
                               /\ (IF fragmented' THEN opCode'[0] ELSE NONE) = MessageOpcode
      /\ Header.op \in DataOpCodes => MessageOpcode = NONE
      /\ status \in Statuses /\ (status = "DISABLED" <=> ~Deflate)
      /\ Header.op \notin DataOpCodes => status = compression
      /\ Header.op \in DataOpCodes /\ ~closeSent => (status = "COMPRESSED_FRAME" <=> Header.rsv1)
  BY <1>1, <1>2, Opened
<1>4. /\ ~closing /\ wantsHead /\ pc = "head" /\ controlTipLength = 0
      /\ CurrentFrame \in DOMAIN wire /\ Header = wire[CurrentFrame]
      /\ src = Start(CurrentFrame)
      /\ Pending = 0 /\ CompleteFragments = fragmentBuffer
  BY <1>3, HeaderFacts
<1>5. PICK c \in DOMAIN wire : c = CurrentFrame  BY <1>4
<1>6. /\ wire \in Seq(Frame) /\ c \in Nat /\ Start(c) \in Nat /\ Header \in Frame
      /\ fragmentBuffer \in Tokens
  BY <1>4, <1>5, Located
<1>7. PICK f \in Frame, h, l \in Nat :
        f = Header /\ f = wire[c] /\ h = HeaderLength(f) /\ l = f.len /\ FrameSize(f) = h + l
  BY <1>4, <1>5, <1>6, SizeType
<1>8. f.op \in OpCodes  BY DEF Frame
<1>9. /\ o < 3 /\ f.op # NONE => f.op \in DataOpCodes
      /\ f.op > BINARY <=> o >= 3
      /\ f.op > BINARY => f.op \notin DataOpCodes /\ f.op # NONE
      /\ NONE \notin DataOpCodes
  BY <1>3, <1>7, <1>8 DEF OpCodes, DataOpCodes, TEXT, BINARY, NONE, Stacked, CLOSE, PING, PONG
<1>10. Unmask(src + HeaderLength(f), f.len, 0) = Bytes(c, 0, l)
  <2>1. src + HeaderLength(f) = Start(c) + HeaderLength(wire[c]) + 0 /\ 0 % 4 = 0
    <3>1. src = Start(c) /\ Start(c) + h \in Nat  BY <1>4, <1>5, <1>6
    <3>2. Start(c) + h + 0 = Start(c) + h /\ 0 % 4 = 0  BY ONLY <3>1
    <3>3. QED BY Zenon, <1>7, <3>1, <3>2
  <2>2. 0 + l <= wire[c].len  BY ONLY <1>7
  <2>3. Unmask(Start(c) + HeaderLength(wire[c]) + 0, l, 0 % 4) = [j \in 1..l |-> <<c, 0 + j>>]
    BY <1>6, <2>2, UnmaskOf
  <2>4. QED BY Zenon, <1>7, <2>1, <2>3 DEF Bytes
<1>11. PICK data \in Tokens : data = Bytes(c, 0, l)
  <2>1. Bytes(c, 0, l) \in Tokens  BY ONLY <1>6, BytesType
  <2>2. QED BY <2>1
<1>12. HandleFragment(status, data, 0, o, f.fin) /\ wire' = wire
  <2>1. HandleFragment(StatusAfter(Header), Unmask(src + HeaderLength(Header), Header.len, 0), 0,
                       opCode'[StackAfterPush(Header)], Header.fin) /\ wire' = wire
    BY DEF WholeFrame
  <2>2. QED BY Zenon, <1>1, <1>7, <1>10, <1>11, <2>1
<1>13. Finishes(c, status, data, o)
  <2>1. Joined(fragmentBuffer, data) = Over(CompleteFragments, c, wire[c].len)
    BY Zenon, <1>4, <1>7, <1>11 DEF Joined, Over
  <2>2. Joined(Tip, data) = Bytes(c, 0, wire[c].len) /\ BelowTip = CompleteFragments
    <3>1. Tip = <<>>  BY <1>4, <1>6, NoTip
    <3>2. <<>> \o data = data  BY ConcatEmptySeq DEF Tokens
    <3>3. Joined(Tip, data) = data  BY Zenon, <3>1, <3>2 DEF Joined
    <3>4. BelowTip = CompleteFragments  BY Zenon, <1>4 DEF BelowTip, CompleteFragments
    <3>5. QED BY Zenon, <1>7, <1>11, <3>3, <3>4
  <2>3. o < 3 /\ ~closeSent =>
          (status = "COMPRESSED_FRAME" <=>
             IF wire[c].op = NONE THEN compression = "COMPRESSED_FRAME" ELSE wire[c].rsv1)
    BY Zenon, <1>3, <1>7, <1>9
  <2>4. o >= 3 => status = compression  BY Zenon, <1>3, <1>7, <1>9
  <2>5. ~closeSent /\ ~fragmented => compression # "COMPRESSED_FRAME"
    BY <1>4 DEF StreamInv, Inflating
  <2>6. o >= 3 /\ ~closeSent /\ ~fragmented => status # "COMPRESSED_FRAME"  BY Zenon, <2>4, <2>5
  <2>7. /\ ~closing /\ c \in DOMAIN wire /\ c = CurrentFrame /\ Sound(wire[c]) /\ ~Promise!Illegal(wire[c])
        /\ o \in Stacked /\ (o < 3 <=> wire[c].op <= BINARY)
        /\ o = IF wire[c].op = NONE THEN MessageOpcode ELSE wire[c].op
        /\ wire[c].op \in DataOpCodes => MessageOpcode = NONE
        /\ HandleFragment(status, data, 0, o, wire[c].fin)
    BY Zenon, <1>3, <1>4, <1>5, <1>7, <1>12
  <2>8. data \in Tokens /\ status \in Statuses /\ wire' = wire /\ (status = "DISABLED" <=> ~Deflate)
    BY <1>3, <1>11, <1>12
  <2>9. QED BY Zenon, <2>1, <2>2, <2>3, <2>4, <2>6, <2>7, <2>8 DEF Finishes
<1>14. ~closing' => Moves(c, o)
  <2>1. SUFFICES ASSUME ~closing' PROVE Moves(c, o)  OBVIOUS
  <2>2. /\ src' = src + FrameSize(Header) /\ UNCHANGED <<pc, received, wantsHead>>
    BY <2>1 DEF WholeFrame
  <2>3. wantsHead' = TRUE  BY <1>4, <2>2 DEF StreamInv, SessionInv, TypeOK
  <2>4. pc' = "head" /\ received' = received  BY <1>4, <2>2
  <2>5. Position' = src + FrameSize(Header)  BY <2>2, <2>4 DEF Position
  <2>6. Position' = Start(c) + HeaderLength(wire[c]) + wire[c].len
    <3>1. Position' = Start(c) + (h + l)  BY Zenon, <1>4, <1>5, <1>7, <2>5
    <3>2. Start(c) + (h + l) = Start(c) + h + l  BY ONLY <1>6, <1>7
    <3>3. QED BY Zenon, <1>7, <3>1, <3>2
  <2>7. o < 3 => fragmented' = ~wire[c].fin /\ opCode'[0] = o  BY Zenon, <1>1, <1>3, <1>7
  <2>8. o >= 3 => fragmented' = fragmented /\ (IF fragmented' THEN opCode'[0] ELSE NONE) = MessageOpcode
    BY Zenon, <1>3, <1>7, <1>9
  <2>9. pc' # "second"  BY <2>4
  <2>10. QED BY Zenon, <2>3, <2>4, <2>6, <2>7, <2>8, <2>9 DEF Moves
<1>15. QED BY <1>13, <1>14, HandledTakes

\* The parts of a payload, joined.
LEMMA BytesJoin ==
    ASSUME NEW c \in Nat, NEW k \in Nat, NEW n \in Nat, NEW m, m = k + n
    PROVE  Joined(Bytes(c, 0, k), Bytes(c, k, n)) = Bytes(c, 0, m)
<1>1. PICK X, Y, Z : X = Bytes(c, 0, k) /\ Y = Bytes(c, k, n) /\ Z = Bytes(c, 0, m)  OBVIOUS
<1>2. X \o Y = Z  BY Zenon, <1>1, BytesNext
<1>3. QED BY Zenon, <1>1, <1>2 DEF Joined

\* The part of a control frame that was kept is the tip.
LEMMA TipIs ==
    ASSUME NEW A \in Tokens, NEW c \in Nat, NEW k \in Nat, fragmentBuffer = Over(A, c, k),
           controlTipLength = k
    PROVE  Tip = Bytes(c, 0, k)
<1>1. PICK a \in Nat : a = Len(A) /\ Len(Over(A, c, k)) = a + k  BY OverType
<1>2. PICK l, u : l = Len(A) + 1 /\ u = Len(A) + k  OBVIOUS
<1>3. l = a + 1 /\ u = a + k  BY <1>1, <1>2
<1>4. a + k - k + 1 = l  BY ONLY <1>1, <1>3
<1>5. Tip = SubSeq(fragmentBuffer, l, u)
  <2>1. Len(fragmentBuffer) = u /\ Len(fragmentBuffer) - controlTipLength = u - k  BY <1>1, <1>3
  <2>2. u - k + 1 = l  BY <1>3, <1>4
  <2>3. QED BY Zenon, <2>1, <2>2 DEF Tip
<1>6. SubSeq(Over(A, c, k), Len(A) + 1, Len(A) + k) = Bytes(c, 0, k)  BY OverTop
<1>7. QED BY Zenon, <1>2, <1>5, <1>6

\* And so does the last part of a frame.
LEMMA LastPartTakes ==
    ASSUME StreamInv, LastPart
    PROVE  Promise!TakeFrame /\ (~closing' => Aligned' /\ Gathered' /\ Inflating')
<1>1. /\ pc = "continuation" /\ remainingBytes <= length
      /\ HandleFragment(compression, Unmask(src, remainingBytes, mask), 0, opCode[opStack], lastFin)
      /\ ~closing' => /\ src' = src + remainingBytes /\ wantsHead' = TRUE
                      /\ pc' = "head" /\ received' = received
      /\ UNCHANGED <<wire, spillLength, opCode, lastFin, fragmented>>
  BY DEF LastPart
<1>2. PICK c, k, o, status : c = CurrentFrame /\ k = Pending /\ o = opCode[opStack] /\ status = compression
  OBVIOUS
<1>3. /\ ~closing /\ ~wantsHead /\ c \in DOMAIN wire /\ wire[c] \in Frame /\ k \in Nat
      /\ remainingBytes \in Nat /\ remainingBytes > 0 /\ remainingBytes = wire[c].len - k
      /\ src = Start(c) + HeaderLength(wire[c]) + k /\ mask = k % 4
      /\ lastFin = wire[c].fin /\ Sound(wire[c]) /\ ~Promise!Illegal(wire[c])
      /\ o \in Stacked /\ (o < 3 <=> wire[c].op <= BINARY)
      /\ o = (IF wire[c].op = NONE THEN MessageOpcode ELSE wire[c].op)
      /\ wire[c].op \in DataOpCodes => MessageOpcode = NONE
      /\ o < 3 => opStack = 0 /\ fragmented = ~wire[c].fin
      /\ o >= 3 => MessageOpcode = IF fragmented THEN opCode[0] ELSE NONE
  BY <1>1, <1>2, Inside
<1>4. /\ o >= 3 => controlTipLength = k
      /\ o >= 3 \/ ~closeSent => fragmentBuffer = Over(CompleteFragments, c, k)
      /\ o < 3 /\ ~closeSent /\ wire[c].op # NONE => (status = "COMPRESSED_FRAME" <=> wire[c].rsv1)
      /\ status \in Statuses /\ (status = "DISABLED" <=> ~Deflate)
      /\ o >= 3 /\ ~closeSent /\ ~fragmented => status # "COMPRESSED_FRAME"
  BY <1>1, <1>2, Inside
<1>5. /\ wire \in Seq(Frame) /\ c \in Nat /\ Start(c) \in Nat
      /\ CompleteFragments \in Tokens /\ fragmentBuffer \in Tokens
      /\ HeaderLength(wire[c]) \in Nat /\ wire[c].len \in Nat
  BY <1>2, <1>3, Located
<1>6. PICK l, n \in Nat : l = wire[c].len /\ n = remainingBytes  BY <1>3, <1>5
<1>7. l = k + n /\ k + n <= l
  <2>1. n = l - k  BY Zenon, <1>3, <1>6
  <2>2. QED BY ONLY <1>3, <1>6, <2>1
<1>8. Unmask(src, remainingBytes, mask) = Bytes(c, k, n)
  <2>1. k + n <= wire[c].len  BY Zenon, <1>6, <1>7
  <2>2. Unmask(Start(c) + HeaderLength(wire[c]) + k, n, k % 4) = [j \in 1..n |-> <<c, k + j>>]
    BY <1>3, <1>5, <2>1, UnmaskOf
  <2>3. QED BY Zenon, <1>3, <1>6, <2>2 DEF Bytes
<1>9. PICK data \in Tokens : data = Bytes(c, k, n)
  <2>1. Bytes(c, k, n) \in Tokens  BY ONLY <1>3, <1>5, <1>6, BytesType
  <2>2. QED BY <2>1
<1>10. PICK A \in Tokens : A = CompleteFragments  BY <1>5
<1>a. A \in Tokens /\ c \in Nat /\ k \in Nat /\ n \in Nat /\ l = k + n  BY <1>3, <1>5, <1>7
<1>11. Finishes(c, status, data, o)
  <2>1. o < 3 /\ ~closeSent => Joined(fragmentBuffer, data) = Over(CompleteFragments, c, wire[c].len)
    <3>1. Joined(Over(A, c, k), Bytes(c, k, n)) = Over(A, c, l)
      BY ONLY <1>a, OverNext
    <3>2. QED BY Zenon, <1>4, <1>6, <1>9, <1>10, <3>1
  <2>2. o >= 3 => Joined(Tip, data) = Bytes(c, 0, wire[c].len) /\ BelowTip = CompleteFragments
    <3>1. SUFFICES ASSUME o >= 3
                   PROVE  Joined(Tip, data) = Bytes(c, 0, wire[c].len) /\ BelowTip = CompleteFragments
      OBVIOUS
    <3>2. fragmentBuffer = Over(A, c, k) /\ controlTipLength = k  BY Zenon, <1>4, <1>10, <3>1
    <3>3. Tip = Bytes(c, 0, k)  BY <1>3, <1>5, <3>2, TipIs
    <3>4. Joined(Bytes(c, 0, k), Bytes(c, k, n)) = Bytes(c, 0, l)  BY ONLY <1>a, BytesJoin
    <3>5. BelowTip = CompleteFragments  BY Zenon, <1>2, <3>2 DEF BelowTip, CompleteFragments
    <3>6. QED BY Zenon, <1>6, <1>9, <3>3, <3>4, <3>5
  <2>3. o < 3 /\ ~closeSent =>
          (status = "COMPRESSED_FRAME" <=>
             IF wire[c].op = NONE THEN compression = "COMPRESSED_FRAME" ELSE wire[c].rsv1)
    BY Zenon, <1>2, <1>4
  <2>4. HandleFragment(status, data, 0, o, wire[c].fin) /\ wire' = wire
    BY Zenon, <1>1, <1>2, <1>3, <1>8, <1>9
  <2>5. /\ ~closing /\ c \in DOMAIN wire /\ c = CurrentFrame /\ Sound(wire[c]) /\ ~Promise!Illegal(wire[c])
        /\ o \in Stacked /\ (o < 3 <=> wire[c].op <= BINARY)
        /\ o = IF wire[c].op = NONE THEN MessageOpcode ELSE wire[c].op
        /\ wire[c].op \in DataOpCodes => MessageOpcode = NONE
        /\ data \in Tokens /\ status \in Statuses /\ (status = "DISABLED" <=> ~Deflate)
        /\ o >= 3 => status = compression
        /\ o >= 3 /\ ~closeSent /\ ~fragmented => status # "COMPRESSED_FRAME"
    BY Zenon, <1>2, <1>3, <1>4, <1>9
  <2>6. QED BY Zenon, <2>1, <2>2, <2>3, <2>4, <2>5 DEF Finishes
<1>12. ~closing' => Moves(c, o)
  <2>1. SUFFICES ASSUME ~closing' PROVE Moves(c, o)  OBVIOUS
  <2>2. /\ src' = src + remainingBytes /\ wantsHead' = TRUE /\ pc' = "head" /\ received' = received
    BY <1>1, <2>1
  <2>3. Position' = src + remainingBytes  BY <2>2 DEF Position
  <2>4. Position' = Start(c) + HeaderLength(wire[c]) + wire[c].len
    <3>1. PICK s, h \in Nat : s = Start(c) /\ h = HeaderLength(wire[c])  BY <1>5
    <3>2. Position' = (s + h + k) + n  BY Zenon, <1>3, <1>6, <2>3, <3>1
    <3>3. (s + h + k) + n = s + h + l  BY ONLY <1>3, <1>6, <1>7
    <3>4. QED BY Zenon, <1>6, <3>1, <3>2, <3>3
  <2>5. o < 3 => fragmented' = ~wire[c].fin /\ opCode'[0] = o  BY Zenon, <1>1, <1>2, <1>3
  <2>6. o >= 3 => fragmented' = fragmented /\ (IF fragmented' THEN opCode'[0] ELSE NONE) = MessageOpcode
    BY <1>1, <1>3
  <2>7. pc' # "second"  BY <2>2
  <2>8. QED BY Zenon, <2>2, <2>4, <2>5, <2>6, <2>7 DEF Moves
<1>13. QED BY <1>11, <1>12, HandledTakes

-----------------------------------------------------------------------------
(* The refinement *)

\* The inductive invariant holds at the start.
LEMMA StreamInit == Init => StreamInv /\ Promise!Init
<1> SUFFICES ASSUME Init PROVE StreamInv /\ Promise!Init  OBVIOUS
<1>1. SessionInv /\ ReadInv  BY InitInv DEF Init, ReadInv, StaysInRead
<1>2. wire \in Seq(Frame)  BY <1>1 DEF SessionInv, TypeOK
<1>3. Len(wire) \in Nat /\ 1 \in 1..(Len(wire) + 1) /\ DOMAIN wire = 1..Len(wire)
  <2>1. Len(wire) \in Nat /\ DOMAIN wire = 1..Len(wire)  BY <1>2, LenProperties
  <2>2. QED BY <2>1
<1>4. Start(1) = 0 /\ StreamLength \in Nat
  <2>1. Len(wire) + 1 \in 1..(Len(wire) + 1)  BY <1>3
  <2>2. QED BY <1>2, <1>3, <2>1, StartStep DEF StreamLength
<1>5. Position = 0  BY DEF Init, Position
<1>6. CurrentFrame = 1
  <2>1. 1 \in DOMAIN wire => 0 < Start(1) + FrameSize(wire[1])
    <3>1. SUFFICES ASSUME 1 \in DOMAIN wire PROVE 0 < Start(1) + FrameSize(wire[1])  OBVIOUS
    <3>2. wire[1] \in Frame  BY <1>2, <3>1, ElementOfSeq, <1>3
    <3>3. FrameSize(wire[1]) = HeaderLength(wire[1]) + wire[1].len /\ HeaderLength(wire[1]) \in Nat
          /\ HeaderLength(wire[1]) >= 2 /\ wire[1].len \in Nat
      BY <3>2, SizeType
    <3>4. QED BY <1>4, <3>3
  <2>2. Cardinality({i \in DOMAIN wire : Start(i + 1) <= 0}) + 1 = 1
    BY <1>2, <1>3, <1>4, <2>1, FrameCount
  <2>3. QED BY <1>5, <2>2 DEF CurrentFrame, FramesParsed
<1>7. Aligned
  <2>1. received <= StreamLength  BY <1>4 DEF Init
  <2>2. QED BY <1>3, <1>4, <1>5, <1>6, <2>1 DEF Init, Aligned
<1>8. Gathered  BY DEF Init, Gathered
<1>9. Inflating  BY DEF Init, Inflating
<1>10. MessageOpcode = NONE  BY DEF Init, MessageOpcode, InDataFrame
<1>11. (IF closeSent THEN <<>> ELSE CompleteFragments) = <<>>
  <2>1. Pending = 0 /\ fragmentBuffer = <<>>  BY DEF Init, Pending
  <2>2. Len(<<>>) - 0 = 0 /\ SubSeq(<<>>, 1, 0) = <<>>  BY SubSeqEmpty
  <2>3. QED BY <2>1, <2>2 DEF CompleteFragments
<1>12. Promise!Init
  <2>1. (IF closing THEN 0 ELSE CurrentFrame) = 1  BY <1>6 DEF Init
  <2>2. (~closeSent /\ MessageOpcode # NONE /\ compression = "COMPRESSED_FRAME") = FALSE  BY <1>10
  <2>3. MessageOpcode = Promise!NONE  BY <1>10, Words
  <2>4. QED BY <1>11, <2>1, <2>2, <2>3 DEF Init, Promise!Init
<1>13. QED BY <1>1, <1>7, <1>8, <1>9, <1>12 DEF StreamInv

\* Every step keeps it, and is one of MessageStream or shows nothing.
LEMMA StreamStep ==
    StreamInv /\ [Next]_vars => StreamInv' /\ [Promise!Next]_(Promise!vars)
<1> SUFFICES ASSUME StreamInv, [Next]_vars PROVE StreamInv' /\ [Promise!Next]_(Promise!vars)  OBVIOUS
<1>1. SessionInv' /\ ReadInv'  BY SessionInvStep, ReadInvStep DEF StreamInv
<1>2. closing' => Aligned' /\ Gathered' /\ Inflating'  BY DEF Aligned, Gathered, Inflating
<1>3. SUFFICES /\ ~closing' => Aligned' /\ Gathered' /\ Inflating'
               /\ Promise!Next \/ UNCHANGED Promise!vars
  BY <1>1, <1>2 DEF StreamInv
<1>4. CASE RefuseFrame  BY <1>4, RefuseFrameTakes DEF Promise!Next
<1>5. CASE RefuseLength  BY <1>5, RefuseLengthTakes DEF Promise!Next
<1>6. CASE WholeFrame  BY <1>6, WholeFrameTakes DEF Promise!Next
<1>7. CASE FirstPart
  <2>1. CASE closing'  BY <1>7, <2>1, FirstPartKeeps DEF Promise!Next
  <2>2. CASE ~closing'  BY <1>7, <2>2, FirstPartKeeps
  <2>3. QED BY <2>1, <2>2
<1>8. CASE SpillHeader  BY <1>8, SpillHeaderKeeps, Stutters
<1>9. CASE LastPart  BY <1>9, LastPartTakes DEF Promise!Next
<1>10. CASE NextPart  BY <1>10, NextPartKeeps
<1>11. CASE SecondCall  BY <1>11, SecondCallKeeps, Stutters
<1>12. CASE CreateFrame  BY <1>12, CreateFrameKeeps DEF Promise!Next
<1>13. CASE CreateCloseFrame  BY <1>13, CreateCloseKeeps DEF Promise!Next
<1>14. CASE \E n \in 1..StreamLength : Consume(n)
  <2>1. PICK n \in 1..StreamLength : Consume(n)  BY <1>14
  <2>2. QED BY <2>1, ConsumeKeeps, Stutters
<1>15. CASE UNCHANGED vars
  <2>1. UNCHANGED <<wire, readVars, headVars, stackVars, sessionVars>>  BY <1>15 DEF vars
  <2>2. Position' = Position  BY <2>1 DEF readVars, headVars, Position
  <2>3. ~closing => received' <= StreamLength  BY <2>1 DEF StreamInv, Aligned, readVars
  <2>4. pc' = "second" => src' + rest' = received'
    <3>1. pc = "second" => ~closing  BY DEF StreamInv, SessionInv, CallState
    <3>2. QED BY <2>1, <3>1 DEF StreamInv, Aligned, readVars
  <2>5. Aligned' /\ Gathered' /\ Inflating' /\ Unseen
    BY <2>1, <2>2, <2>3, <2>4, Steady DEF StreamInv, Unseen, headVars, sessionVars
  <2>6. QED BY <2>5, Stutters
<1>16. QED
  BY <1>4, <1>5, <1>6, <1>7, <1>8, <1>9, <1>10, <1>11, <1>12, <1>13, <1>14, <1>15 DEF Next, Parse

\* The refinement: whatever the peer sends and wherever its reads are cut, the session does what
\* MessageStream, which knows no reads, promises.  The steps that take or refuse a frame are the
\* promised ones; what reads, headers and parts of frames add to that shows nothing.
THEOREM Refines == Spec => ImplementsMessageStream
<1>1. Init => StreamInv /\ Promise!Init  BY StreamInit
<1>2. StreamInv /\ [Next]_vars => StreamInv' /\ [Promise!Next]_(Promise!vars)  BY StreamStep
<1>3. QED BY <1>1, <1>2, PTL DEF Spec, ImplementsMessageStream, Promise!Spec
=============================================================================
