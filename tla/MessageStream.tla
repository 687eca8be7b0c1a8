----------------------------- MODULE MessageStream -----------------------------
(***************************************************************************)
(* What a StreamWebSocket session promises to its owner, whatever the      *)
(* boundaries of the reads that brought the bytes: the peer's frames are   *)
(* judged one at a time, in order and whole; the payloads of the fragments *)
(* of a message are joined; control frames may stand between fragments;    *)
(* the first offending frame or Close ends the session.                    *)
(***************************************************************************)
EXTENDS WebSocketFrames

CONSTANTS
    Wires,       \* what the peer may send: a set of sequences of frames
    MaxSends     \* bound: data frames created by the local side

VARIABLES
    wire,        \* what this peer sends
    next,        \* index of the next frame to be judged, 0 once closed
    op,          \* opcode of the message in progress, NONE when there is none
    deflated,    \* whether the message in progress is compressed
    buffer,      \* the payload of its fragments so far
    closed,      \* a Close was received, or the session failed
    closeSent,   \* our Close was created
    log          \* the events and the frames handed out, in order

vars == <<wire, next, op, deflated, buffer, closed, closeSent, log>>

Init ==
    /\ wire \in Wires
    /\ next = 1
    /\ op = NONE /\ deflated = FALSE /\ buffer = <<>>
    /\ closed = FALSE /\ closeSent = FALSE
    /\ log = <<>>

\* Closing forgets the message in progress and answers unless our Close is out.
Shut(reply, code, reason) ==
    /\ closed' = TRUE /\ closeSent' = TRUE
    /\ next' = 0 /\ op' = NONE /\ deflated' = FALSE /\ buffer' = <<>>
    /\ log' = log \o (IF closeSent THEN <<>> ELSE <<FrameEvent(CLOSE, reply, reason)>>)
                  \o <<CloseEvent(code, reason)>>
    /\ UNCHANGED wire

Fail(code) == Shut(code, 1006, <<>>)

IsData(f) == f.op \in DataOpCodes \cup {NONE}

\* What is wrong with a frame before its payload is looked at.
Illegal(f) ==
    \/ f.malformed
    \/ f.op \in 3..7 \cup 11..15
    \/ f.rsv1 /\ (~Deflate \/ f.op \notin DataOpCodes)
    \/ f.op >= CLOSE /\ (~f.fin \/ f.len > ShortMax)
    \/ f.op \in DataOpCodes /\ op # NONE
    \/ f.op = NONE /\ op = NONE

Oversize(f) ==
    /\ IsData(f)
    /\ \/ TooLong(f.len)
       \/ ~closeSent /\ TooLong(Len(buffer) + f.len)

\* Once our Close is out, application data has no more effect than its place in
\* the sequence of fragments.
Ignore(f) ==
    /\ IsData(f) /\ closeSent
    /\ op' = IF f.fin THEN NONE ELSE IF f.op = NONE THEN op ELSE f.op
    /\ UNCHANGED <<deflated, buffer, closed, closeSent, log>>

Fragment(f) ==
    /\ IsData(f) /\ ~f.fin /\ ~closeSent
    /\ op' = IF f.op = NONE THEN op ELSE f.op
    /\ deflated' = IF f.op = NONE THEN deflated ELSE f.rsv1
    /\ buffer' = buffer \o Payload(wire, next)
    /\ UNCHANGED <<closed, closeSent, log>>

MessageOp(f) == IF f.op = NONE THEN op ELSE f.op
Fault(f) == MessageFault(wire, MessageOp(f), IF f.op = NONE THEN deflated ELSE f.rsv1,
                         buffer \o Payload(wire, next))

LastFragment(f) ==
    /\ IsData(f) /\ f.fin /\ ~closeSent /\ Fault(f) = 0
    /\ log' = Append(log, MessageEvent(MessageOp(f), buffer \o Payload(wire, next)))
    /\ op' = NONE /\ deflated' = FALSE /\ buffer' = <<>>
    /\ UNCHANGED <<closed, closeSent>>

PingOrPong(f) ==
    /\ f.op \in {PING, PONG}
    /\ log' = IF f.op = PING THEN Append(log, FrameEvent(PONG, 0, Payload(wire, next))) ELSE log
    /\ UNCHANGED <<op, deflated, buffer, closed, closeSent>>

PeerClose(f) ==
    /\ f.op = CLOSE
    /\ LET data == Payload(wire, next)
           code == CloseCode(wire, data)
       IN  IF code = 1006 THEN Fail(1002) ELSE Shut(code, code, data)

Take(f) ==
    \/ Illegal(f) /\ Fail(1002)
    \/ ~Illegal(f) /\ Oversize(f) /\ Fail(1009)
    \* A compressed message may also be refused while it should be ignored.
    \/ ~Illegal(f) /\ f.rsv1 /\ closeSent /\ Fail(1002)
    \/ /\ ~Illegal(f) /\ ~Oversize(f) /\ IsData(f) /\ f.fin /\ ~closeSent
       /\ Fault(f) # 0 /\ Fail(Fault(f))
    \/ ~Illegal(f) /\ PeerClose(f)
    \/ /\ ~Illegal(f) /\ ~Oversize(f)
       /\ Ignore(f) \/ Fragment(f) \/ LastFragment(f) \/ PingOrPong(f)
       /\ next' = next + 1 /\ UNCHANGED wire

TakeFrame == next \in 1..Len(wire) /\ Take(wire[next])

DataFramesSent == Cardinality({i \in DOMAIN log : log[i].type = "SENT" /\ log[i].op # CLOSE})

CreateFrame ==
    /\ ~closed /\ ~closeSent /\ DataFramesSent < MaxSends
    /\ \E o \in DataOpCodes : log' = Append(log, SentFrame(o))
    /\ UNCHANGED <<wire, next, op, deflated, buffer, closed, closeSent>>

\* Creating our Close gives up the message in progress.
CreateClose ==
    /\ ~closed /\ ~closeSent
    /\ closeSent' = TRUE /\ deflated' = FALSE /\ buffer' = <<>>
    /\ log' = Append(log, SentFrame(CLOSE))
    /\ UNCHANGED <<wire, next, op, closed>>

Next == TakeFrame \/ CreateFrame \/ CreateClose

Spec == Init /\ [][Next]_vars
=============================================================================
