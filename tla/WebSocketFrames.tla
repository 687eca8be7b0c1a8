---------------------------- MODULE WebSocketFrames ----------------------------
(***************************************************************************)
(* The vocabulary shared by the byte-level session (StreamWebSocket) and   *)
(* by what it promises (MessageStream): opcodes, frames as the peer        *)
(* encodes them, and the per-message checks of the code that depend on a   *)
(* payload as a whole.                                                     *)
(*                                                                         *)
(* A payload is never spelled out.  Byte j of the payload of the peer's    *)
(* i-th frame, correctly unmasked, is the token <<i, j>>; a byte unmasked  *)
(* with the wrong mask byte, or one that is no payload byte, is Garbled.   *)
(* What the code decides from the contents of a payload (UTF-8, inflate,   *)
(* the close code) is an attribute of the frame that carried it.           *)
(***************************************************************************)
EXTENDS Integers, Sequences, SequencesExt

CONSTANTS
    ShortHeader,     \* SHORT_MESSAGE_HEADER, 6 in the source
    MediumHeader,    \* MEDIUM_MESSAGE_HEADER, 8
    LongHeader,      \* LONG_MESSAGE_HEADER, 14
    ShortMax,        \* longest payload a short header can state, 125
    MediumMax,       \* longest payload a medium header can state, UINT16_MAX
    MaxPayload,      \* StreamWebSocket::maxPayload; 0 means no limit
    UIntMax,         \* numeric_limits<unsigned int>::max()
    Deflate          \* whether permessage-deflate was negotiated

\* Two header bytes tell which of the three header sizes applies; a short length
\* fits the seven-bit field, and a close payload has room for its code.
ASSUME FramesAssumption ==
    /\ ShortHeader \in Nat /\ MediumHeader \in Nat /\ LongHeader \in Nat
    /\ 2 <= ShortHeader /\ ShortHeader < MediumHeader /\ MediumHeader < LongHeader
    /\ ShortMax \in Nat /\ MediumMax \in Nat /\ 2 <= ShortMax /\ ShortMax <= 125
    /\ ShortMax < MediumMax
    /\ MaxPayload \in Nat /\ UIntMax \in Nat /\ MediumMax < UIntMax
    /\ Deflate \in BOOLEAN

\* enum OpCode.  The other values of the four-bit field are reserved.
NONE == 0
TEXT == 1
BINARY == 2
CLOSE == 8
PING == 9
PONG == 10
OpCodes == 0..15
DataOpCodes == {TEXT, BINARY}

\* A frame on the wire.  `malformed` stands for an unmasked frame, a set RSV2 or
\* RSV3 bit, or an extended length that is not minimal or has its top bit set.
Frame == [op : OpCodes, fin : BOOLEAN, rsv1 : BOOLEAN, malformed : BOOLEAN, len : Nat,
          payload : {"good", "badText", "badDeflate", "bomb", "badClose"}]

\* The header size follows from the length the frame states.
HeaderLength(f) ==
    IF f.len <= ShortMax THEN ShortHeader
    ELSE IF f.len <= MediumMax THEN MediumHeader ELSE LongHeader

FrameSize(f) == HeaderLength(f) + f.len

Garbled == <<0, 0>>

\* The whole payload of the i-th frame, in order.
Payload(w, i) == [j \in 1..w[i].len |-> <<i, j>>]

\* The attributes of the frames that contributed to a sequence of tokens.
Kinds(w, data) == {w[t[1]].payload : t \in ToSet(data) \ {Garbled}}

\* The failure code of a complete message, 0 when it is delivered: inflate
\* first, within the payload limit, then UTF-8 for text.
MessageFault(w, op, compressed, data) ==
    LET kinds == Kinds(w, data) IN
    IF compressed /\ "bomb" \in kinds THEN 1009
    ELSE IF compressed /\ "badDeflate" \in kinds THEN 1007
    ELSE IF op = TEXT /\ "badText" \in kinds THEN 1007
    ELSE 0

\* The code of a close payload; 1006 stands for a payload that is refused, and
\* 1005 for an empty one.
CloseCode(w, data) ==
    IF data = <<>> THEN 1005
    ELSE IF Len(data) = 1 \/ "badClose" \in Kinds(w, data) THEN 1006
    ELSE 1000

TooLong(n) == (MaxPayload # 0 /\ n > MaxPayload) \/ n > UIntMax

\* What a session hands to its owner, in order: the MESSAGE, FRAME and CLOSE
\* events of consume(), and the frames made for the local side (SENT).
MessageEvent(op, data) == [type |-> "MESSAGE", op |-> op, code |-> 0, data |-> data]
FrameEvent(op, code, data) == [type |-> "FRAME", op |-> op, code |-> code, data |-> data]
CloseEvent(code, data) == [type |-> "CLOSE", op |-> NONE, code |-> code, data |-> data]
SentFrame(op) == [type |-> "SENT", op |-> op, code |-> 0, data |-> <<>>]

Event == [type : {"MESSAGE", "FRAME", "CLOSE", "SENT"}, op : OpCodes,
          code : {0, 1000, 1002, 1005, 1006, 1007, 1009}, data : Seq(Nat \X Nat)]
=============================================================================
