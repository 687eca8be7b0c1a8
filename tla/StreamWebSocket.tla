---------------------------- MODULE StreamWebSocket ----------------------------
(***************************************************************************)
(* One WebSocket session: the frame parser of WebSocketProtocol.h and the  *)
(* hooks of StreamWebSocket.cpp it calls.  The peer's byte stream arrives  *)
(* in reads of any size; one consume() call is broken into the parser's    *)
(* loop iterations, and the local side creates frames between calls (the   *)
(* entry points are synchronous, so never during one).                     *)
(*                                                                         *)
(* The stream is the sequence `wire` of frames laid out without gaps; a    *)
(* byte is named by its offset.  `src` and `length` are the parser's own   *)
(* locals, so nothing but the code's arithmetic keeps it aligned with the  *)
(* frames: a header read at an offset where no frame starts is garbage.    *)
(***************************************************************************)
EXTENDS WebSocketFrames, FiniteSets

CONSTANTS
    Wires,       \* what the peer may send: a set of sequences of frames
    MaxSends     \* bound: data frames created by the local side

ASSUME StreamAssumption ==
    /\ \A w \in Wires : w \in Seq(Frame)
    /\ MaxSends \in Nat

VARIABLES
    wire,          \* what this peer sends
    pc,            \* "idle", or where the current consume() call is
    received,      \* bytes of the stream received so far
    src,           \* offset of the first byte not yet parsed, during a call
    length,        \* bytes of this WebSocketProtocol::consume call from src on
    rest,          \* bytes of the read kept for a second such call
    spillLength,   \* header bytes kept from earlier reads
    wantsHead,     \* a header is expected next
    remainingBytes,\* payload bytes of the current frame still to come
    mask,          \* rotation of the current frame's mask
    opStack,       \* index of the innermost open frame, -1 when none
    opCode,        \* the opcodes on the stack
    lastFin,       \* FIN bit of the current frame
    fragmented,    \* fragmentedMessage
    compression,   \* compressionStatus
    fragmentBuffer,
    controlTipLength,
    closing,       \* the peer's Close was handled, or the session failed
    closeSent,     \* our Close was created
    log            \* the events and the frames handed out, in order

readVars == <<pc, received, src, length, rest>>
headVars == <<spillLength, wantsHead, remainingBytes, mask>>
stackVars == <<opStack, opCode, lastFin, fragmented>>
sessionVars == <<compression, fragmentBuffer, controlTipLength, closing, closeSent, log>>
vars == <<wire, readVars, headVars, stackVars, sessionVars>>

-----------------------------------------------------------------------------
(* The byte stream *)

\* Offset of the first byte of the i-th frame.
Start(i) ==
    LET sum[k \in 0..(i - 1)] == IF k = 0 THEN 0 ELSE sum[k - 1] + FrameSize(wire[k])
    IN  sum[i - 1]

StreamLength == Start(Len(wire) + 1)

\* Bytes that are not at a frame's start seldom make a legal header; one that
\* is refused stands for them.
Garbage == [op |-> NONE, fin |-> FALSE, rsv1 |-> FALSE, malformed |-> TRUE,
            len |-> 0, payload |-> "good"]

FramesAt(p) == {i \in DOMAIN wire : Start(i) = p}
HeaderAt(p) == IF FramesAt(p) = {} THEN Garbage ELSE wire[CHOOSE i \in FramesAt(p) : TRUE]

\* The payload byte at offset p, and what unmasking it with mask byte k yields.
PayloadBytes == UNION {{i} \X (1..wire[i].len) : i \in DOMAIN wire}
BytesAt(p) == {b \in PayloadBytes : Start(b[1]) + HeaderLength(wire[b[1]]) + b[2] - 1 = p}
Unmasked(p, k) ==
    IF \E b \in BytesAt(p) : (b[2] - 1) % 4 = k THEN CHOOSE b \in BytesAt(p) : TRUE ELSE Garbled

\* unmaskImprecise and unmaskInplace: n bytes from offset p, the mask rotated by r.
Unmask(p, n, r) == [j \in 1..n |-> Unmasked(p + j - 1, (r + j - 1) % 4)]

\* Mutant: the rotation starts anew with every read.
Rotate_Restarts(n) == n % 4

\* rotateMask(): the rotation once n more bytes are unmasked.
Rotate(n) == (mask + n) % 4

-----------------------------------------------------------------------------
(* The hooks of StreamWebSocket *)

Init ==
    /\ wire \in Wires
    /\ pc = "idle" /\ received = 0 /\ src = 0 /\ length = 0 /\ rest = 0
    /\ spillLength = 0 /\ wantsHead = TRUE /\ remainingBytes = 0 /\ mask = 0
    /\ opStack = -1 /\ opCode = [i \in 0..1 |-> NONE] /\ lastFin = TRUE
    /\ fragmented = FALSE
    /\ compression = IF Deflate THEN "ENABLED" ELSE "DISABLED"
    /\ fragmentBuffer = <<>> /\ controlTipLength = 0
    /\ closing = FALSE /\ closeSent = FALSE
    /\ log = <<>>

\* Ends the session: our Close unless it is out already, then the CLOSE event.
EndSession(reply, code, reason) ==
    /\ closing' = TRUE /\ closeSent' = TRUE
    /\ log' = log \o (IF closeSent THEN <<>> ELSE <<FrameEvent(CLOSE, reply, reason)>>)
                  \o <<CloseEvent(code, reason)>>

Fail(code) == EndSession(code, 1006, <<>>)

\* A message is complete: inflate, validate, deliver.  When that fails the
\* session ends with `kept` in fragmentBuffer.
DeliverMessage(status, op, data, kept) ==
    LET fault == MessageFault(wire, op, status = "COMPRESSED_FRAME", data) IN
    /\ compression' = IF status = "COMPRESSED_FRAME" THEN "ENABLED" ELSE status
    /\ \/ fault # 0 /\ Fail(fault) /\ fragmentBuffer' = kept
       \/ /\ fault = 0
          /\ log' = Append(log, MessageEvent(op, data))
          /\ fragmentBuffer' = <<>>
          /\ UNCHANGED <<closing, closeSent>>

\* Mutant: forgets the fragments already kept.
Required_FrameOnly(data, remaining) == Len(data) + remaining

\* appendFragment(): the size the message reaches with the rest of this frame.
Required(data, remaining) == Len(fragmentBuffer) + Len(data) + remaining

\* A data frame's bytes: delivered from the read when nothing was kept before,
\* else gathered within the payload limit.
HandleData(status, data, remaining, op, fin) ==
    LET whole == fragmentBuffer \o data
        complete == remaining = 0 /\ fin
    IN
    /\ UNCHANGED controlTipLength
    /\ \/ complete /\ fragmentBuffer = <<>> /\ DeliverMessage(status, op, data, <<>>)
       \/ /\ ~(complete /\ fragmentBuffer = <<>>)
          /\ \/ /\ TooLong(Required(data, remaining)) /\ Fail(1009)
                /\ compression' = status /\ UNCHANGED fragmentBuffer
             \/ /\ ~TooLong(Required(data, remaining)) /\ complete
                /\ DeliverMessage(status, op, whole, whole)
             \/ /\ ~TooLong(Required(data, remaining)) /\ ~complete
                /\ fragmentBuffer' = whole /\ compression' = status
                /\ UNCHANGED <<closing, closeSent, log>>

\* A whole control frame.
HandleControl(op, data) ==
    \/ /\ op = CLOSE
       /\ LET code == CloseCode(wire, data) IN
          IF code = 1006 THEN Fail(1002) ELSE EndSession(code, code, data)
    \/ /\ op # CLOSE
       /\ log' = IF op = PING THEN Append(log, FrameEvent(PONG, 0, data)) ELSE log
       /\ UNCHANGED <<closing, closeSent>>

\* A part of a control frame is kept at the tip of fragmentBuffer ...
Tip == SubSeq(fragmentBuffer, Len(fragmentBuffer) - controlTipLength + 1, Len(fragmentBuffer))
BelowTip == SubSeq(fragmentBuffer, 1, Len(fragmentBuffer) - controlTipLength)

KeepControlPart(data) ==
    /\ fragmentBuffer' = fragmentBuffer \o data
    /\ controlTipLength' = (controlTipLength + Len(data)) % 256

\* Mutant: controlTipLength is not reset.
DropTip_KeepsLength == fragmentBuffer' = BelowTip /\ UNCHANGED controlTipLength

\* ... and taken off it once the frame was handled.
DropTip == fragmentBuffer' = BelowTip /\ controlTipLength' = 0

\* handleFragment().  It is never called on a closing session, and returns true
\* exactly when it leaves the session closing.
HandleFragment(status, data, remaining, op, fin) ==
    LET complete == remaining = 0 /\ fin IN
    \/ /\ closeSent /\ op \notin {CLOSE, PING, PONG}
       /\ compression' = status
       /\ UNCHANGED <<fragmentBuffer, controlTipLength, closing, closeSent, log>>
    \/ ~closeSent /\ op < 3 /\ HandleData(status, data, remaining, op, fin)
    \/ /\ op >= 3 /\ complete
       /\ compression' = status
       /\ HandleControl(op, Tip \o data)
       /\ IF ~closing' THEN DropTip
          ELSE IF controlTipLength = 0 THEN UNCHANGED <<fragmentBuffer, controlTipLength>>
          ELSE KeepControlPart(data)
    \/ /\ op >= 3 /\ ~complete
       /\ compression' = status
       /\ KeepControlPart(data)
       /\ UNCHANGED <<closing, closeSent, log>>

-----------------------------------------------------------------------------
(* The parser *)

\* The consume() call is over: what is left of the read is dropped.
Return ==
    /\ pc' = "idle" /\ length' = 0 /\ rest' = 0
    /\ UNCHANGED received

ForceClose(code) ==
    /\ Fail(code) /\ Return
    /\ UNCHANGED <<src, fragmentBuffer, controlTipLength>>

\* Entry of WebSocketProtocol::consume with the n bytes from offset p: kept header
\* bytes are put in front of them.
Enter(p, n) ==
    /\ src' = p - spillLength
    /\ length' = n + spillLength
    /\ pc' = IF wantsHead THEN "head" ELSE "continuation"

\* How many bytes complete the kept header.
MissingHeaderBytes == HeaderLength(HeaderAt(received - spillLength)) - spillLength

\* consume(): a read of n bytes.  When header bytes were kept, a first call gets
\* just the bytes that complete that header.
Consume(n) ==
    /\ pc = "idle" /\ ~closing
    /\ n \in 1..(StreamLength - received)
    /\ LET copied == IF spillLength > 0 /\ MissingHeaderBytes < n THEN MissingHeaderBytes ELSE n
       IN  Enter(received, copied) /\ rest' = n - copied
    /\ received' = received + n
    /\ UNCHANGED <<wire, headVars, stackVars, sessionVars>>

Header == HeaderAt(src)

\* Mutant: a header is parsed only when more bytes follow it.
HeaderReady_OffByOne ==
    /\ pc = "head"
    /\ length >= ShortHeader /\ length > HeaderLength(Header)

\* The loop condition: the header is complete.
HeaderReady ==
    /\ pc = "head"
    /\ length >= ShortHeader /\ length >= HeaderLength(Header)

\* setCompressed(), called for every RSV1 data frame, succeeds only when enabled.
StatusAfter(f) ==
    IF f.rsv1 /\ f.op \in DataOpCodes /\ compression = "ENABLED"
    THEN "COMPRESSED_FRAME" ELSE compression

BadHeader(f) ==
    \/ f.malformed
    \/ f.rsv1 /\ (f.op \notin DataOpCodes \/ compression # "ENABLED")
    \/ f.op > 2 /\ f.op < 8
    \/ f.op > 10
    \/ f.op > 2 /\ (~f.fin \/ f.len > ShortMax)

BadSequence(f) ==
    \/ f.op \in DataOpCodes /\ fragmented
    \/ f.op = NONE /\ ~fragmented
    \/ f.op # NONE /\ opStack = 1
    \/ f.op = NONE /\ opStack = -1

RefuseFrame ==
    /\ HeaderReady
    /\ BadHeader(Header) \/ BadSequence(Header)
    /\ compression' = StatusAfter(Header)
    /\ ForceClose(1002)
    /\ UNCHANGED <<wire, headVars, stackVars>>

\* Opens a frame: the message it starts, continues or ends, and its opcode.
Push(f) ==
    /\ HeaderReady /\ ~BadHeader(f) /\ ~BadSequence(f)
    /\ fragmented' = IF f.op \in DataOpCodes THEN ~f.fin
                     ELSE IF f.op = NONE /\ f.fin THEN FALSE ELSE fragmented
    /\ lastFin' = f.fin
    /\ opCode' = IF f.op = NONE THEN opCode ELSE [opCode EXCEPT ![opStack + 1] = f.op]

\* A frame is complete: its opcode leaves the stack, but a message's first opcode
\* stays until the fragment with FIN.
Pop(top, fin) == IF fin THEN top - 1 ELSE top

StackAfterPush(f) == IF f.op = NONE THEN opStack ELSE opStack + 1

RefuseLength ==
    /\ Push(Header)
    /\ Header.op <= BINARY /\ TooLong(Header.len)
    /\ opStack' = StackAfterPush(Header)
    /\ compression' = StatusAfter(Header)
    /\ ForceClose(1009)
    /\ UNCHANGED <<wire, headVars>>

Accept(f) == Push(f) /\ ~(f.op <= BINARY /\ TooLong(f.len))

\* The whole frame is in the read.
WholeFrame ==
    LET f == Header
        top == StackAfterPush(f)
        data == Unmask(src + HeaderLength(f), f.len, 0)
    IN
    /\ Accept(f) /\ FrameSize(f) <= length
    /\ HandleFragment(StatusAfter(f), data, 0, opCode'[top], f.fin)
    /\ IF closing'
         THEN /\ opStack' = top
              /\ Return /\ UNCHANGED <<src, spillLength>>
         ELSE /\ opStack' = Pop(top, f.fin)
              /\ src' = src + FrameSize(f) /\ length' = length - FrameSize(f)
              /\ spillLength' = 0
              /\ UNCHANGED <<pc, received, rest>>
    /\ UNCHANGED <<wire, wantsHead, remainingBytes, mask>>

\* Mutant: the loop is not left.
EndOfCall_Loops == UNCHANGED <<pc, received, rest>>

\* One WebSocketProtocol::consume call is over: the second one follows unless
\* the session closed or the read is used up.
EndOfCall ==
    /\ IF ~closing' /\ rest > 0 THEN pc' = "second" /\ UNCHANGED rest
       ELSE pc' = "idle" /\ rest' = 0
    /\ UNCHANGED received

\* The read ends within the payload of the frame.
FirstPart ==
    LET f == Header
        top == StackAfterPush(f)
        n == length - HeaderLength(f)
    IN
    /\ Accept(f) /\ FrameSize(f) > length
    /\ opStack' = top
    /\ spillLength' = 0 /\ wantsHead' = FALSE
    /\ remainingBytes' = f.len - n
    /\ mask' = n % 4
    /\ HandleFragment(StatusAfter(f), Unmask(src + HeaderLength(f), n, 0), f.len - n,
                      opCode'[top], f.fin)
    /\ src' = src + length /\ length' = 0
    /\ EndOfCall
    /\ UNCHANGED wire

\* The read ends before or within a header, which is kept.
SpillHeader ==
    /\ pc = "head" /\ ~HeaderReady
    /\ spillLength' = IF length > 0 THEN length ELSE spillLength
    /\ src' = src + length /\ length' = 0
    /\ UNCHANGED <<wire, wantsHead, remainingBytes, mask, stackVars, sessionVars>>
    /\ EndOfCall

\* consumeContinuation(): the rest of the payload is in the read ...
LastPart ==
    /\ pc = "continuation" /\ remainingBytes <= length
    /\ HandleFragment(compression, Unmask(src, remainingBytes, mask), 0, opCode[opStack], lastFin)
    /\ IF closing'
         THEN Return /\ UNCHANGED <<src, wantsHead, opStack>>
         ELSE /\ opStack' = Pop(opStack, lastFin)
              /\ src' = src + remainingBytes /\ length' = length - remainingBytes
              /\ wantsHead' = TRUE
              /\ pc' = "head"
              /\ UNCHANGED <<received, rest>>
    /\ UNCHANGED <<wire, spillLength, remainingBytes, mask, opCode, lastFin, fragmented>>

\* ... or only more of it is.
NextPart ==
    /\ pc = "continuation" /\ remainingBytes > length
    /\ remainingBytes' = remainingBytes - length
    /\ HandleFragment(compression, Unmask(src, length, mask), remainingBytes',
                      opCode[opStack], lastFin)
    /\ mask' = IF closing' THEN mask ELSE Rotate(length)
    /\ src' = src + length /\ length' = 0
    /\ EndOfCall
    /\ UNCHANGED <<wire, spillLength, wantsHead, stackVars>>

\* The second WebSocketProtocol::consume call of a read that completed a header.
SecondCall ==
    /\ pc = "second"
    /\ Enter(received - rest, rest) /\ rest' = 0
    /\ UNCHANGED <<wire, received, headVars, stackVars, sessionVars>>

-----------------------------------------------------------------------------
(* The local side *)

DataFramesSent == Cardinality({i \in DOMAIN log : log[i].type = "SENT" /\ log[i].op # CLOSE})

\* Mutant: only the peer's Close stops the local side.
MayCreate_AfterClose == pc = "idle" /\ ~closing

\* createFrame() and createCloseFrame() fail once either side closed.
MayCreate == pc = "idle" /\ ~closing /\ ~closeSent

CreateFrame ==
    /\ MayCreate /\ DataFramesSent < MaxSends
    /\ \E op \in DataOpCodes : log' = Append(log, SentFrame(op))
    /\ UNCHANGED <<wire, readVars, headVars, stackVars, compression, fragmentBuffer,
                   controlTipLength, closing, closeSent>>

CreateCloseFrame ==
    /\ MayCreate
    /\ closeSent' = TRUE
    /\ log' = Append(log, SentFrame(CLOSE))
    /\ UNCHANGED <<wire, readVars, headVars, stackVars, compression, fragmentBuffer,
                   controlTipLength, closing>>

Parse == RefuseFrame \/ RefuseLength \/ WholeFrame \/ FirstPart \/ SpillHeader
           \/ LastPart \/ NextPart \/ SecondCall

Next == Parse \/ CreateFrame \/ CreateCloseFrame \/ \E n \in 1..StreamLength : Consume(n)

Spec == Init /\ [][Next]_vars
FairSpec == Spec /\ WF_vars(Parse) /\ WF_vars(\E n \in 1..StreamLength : Consume(n))

-----------------------------------------------------------------------------
(* Properties *)

\* The type invariant.
TypeOK ==
    /\ wire \in Seq(Frame)
    /\ pc \in {"idle", "head", "continuation", "second"}
    /\ received \in Nat /\ src \in Int /\ length \in Nat /\ rest \in Nat
    /\ spillLength \in 0..(LongHeader - 1) /\ wantsHead \in BOOLEAN /\ remainingBytes \in Nat /\ mask \in 0..3
    /\ opStack \in -1..1 /\ opCode \in [0..1 -> OpCodes]
    /\ lastFin \in BOOLEAN /\ fragmented \in BOOLEAN
    /\ compression \in {"DISABLED", "ENABLED", "COMPRESSED_FRAME"}
    /\ fragmentBuffer \in Seq(Nat \X Nat) /\ controlTipLength \in 0..255
    /\ closing \in BOOLEAN /\ closeSent \in BOOLEAN
    /\ log \in Seq(Event)

\* The opcode stack and fragmentedMessage are two records of the same thing, kept
\* by different branches of consumeMessage and consumeContinuation.  Between
\* frames the stack holds a data opcode exactly while a message is unfinished;
\* within a control frame it sits on top of that.
StackMatchesMessage ==
    ~closing =>
        /\ wantsHead => opStack = (IF fragmented THEN 0 ELSE -1)
        /\ ~wantsHead /\ opCode[opStack] >= CLOSE =>
              lastFin /\ opStack = (IF fragmented THEN 1 ELSE 0)
        /\ ~wantsHead /\ opCode[opStack] < CLOSE =>
              opStack = 0 /\ opCode[0] \in DataOpCodes /\ fragmented = ~lastFin
        /\ fragmented => opCode[0] \in DataOpCodes

\* The stack check of consumeMessage never fires on its own: the fragmentation
\* checks before it already refuse every frame it would.
StackCheckRedundant ==
    HeaderReady /\ ~closing /\ ~BadHeader(Header) =>
        (BadSequence(Header) <=> (IF Header.op = NONE THEN ~fragmented
                                  ELSE Header.op \in DataOpCodes /\ fragmented))

\* A control frame shares fragmentBuffer with the message around it: its tip is as
\* long as the part of the control frame already received, and gone after it.
TipIsControlFrame ==
    ~closing =>
        /\ controlTipLength <= Len(fragmentBuffer) /\ controlTipLength <= ShortMax
        /\ wantsHead \/ opCode[opStack] < CLOSE => controlTipLength = 0
        /\ ~wantsHead /\ opCode[opStack] >= CLOSE => controlTipLength + remainingBytes <= ShortMax

\* Whatever the fragments and the reads, at most maxPayload bytes of a message are
\* kept, also while a control frame is.
MemoryBounded ==
    ~closing /\ MaxPayload # 0 => Len(fragmentBuffer) - controlTipLength <= MaxPayload

\* The parser stays within the bytes it was given.  What is kept of a header lacks a byte
\* at least, or the unsigned count of the bytes to copy would wrap around; nothing is kept
\* within a frame, or when the second call of a read begins.
StaysInRead ==
    /\ pc \in {"head", "continuation"} => src >= 0 /\ src + length + rest = received
    /\ pc = "idle" /\ ~closing /\ spillLength > 0 =>
          spillLength <= received /\ MissingHeaderBytes > 0
    /\ ~wantsHead \/ pc = "second" => spillLength = 0

\* Our Close is created once, either way round, and closeSent says so.
IsClose(e) == e.type \in {"FRAME", "SENT"} /\ e.op = CLOSE
OneCloseFrame ==
    /\ closeSent <=> \E i \in DOMAIN log : IsClose(log[i])
    /\ \A i, j \in DOMAIN log : IsClose(log[i]) /\ IsClose(log[j]) => i = j

\* The owner is told once that the session is over, and gets nothing after that;
\* once our Close was created no data frame is, and no message is delivered.
NothingAfterClose ==
    \A i, j \in DOMAIN log : i < j =>
        /\ log[i].type # "CLOSE"
        /\ IsClose(log[i]) => log[j].type \notin {"SENT", "MESSAGE"}

\* Frames of the stream parsed to their end; kept header bytes belong to the next.
Position == IF pc = "idle" THEN received - spillLength ELSE src
FramesParsed == Cardinality({i \in DOMAIN wire : Start(i + 1) <= Position})

\* However its bytes are grouped, a peer that stays connected gets every frame
\* judged, or the session closed: no read leaves the parser waiting for nothing.
AllFramesJudged == <>(closing \/ FramesParsed = Len(wire))

-----------------------------------------------------------------------------
(* What the comment in handleFragment() says of data after our Close *)

LegalData(f) ==
    /\ ~f.malformed /\ ~TooLong(f.len)
    /\ IF f.op = NONE THEN fragmented /\ ~f.rsv1
       ELSE f.op \in DataOpCodes /\ ~fragmented /\ (f.rsv1 => Deflate)

\* "Ignore further application data, but keep processing control frames needed to
\* complete a healthy closing handshake": legal data never fails a session that
\* waits for the peer's Close.
IgnoresDataAfterClose ==
    [][closeSent /\ HeaderReady /\ LegalData(Header) => ~closing']_vars
=============================================================================
