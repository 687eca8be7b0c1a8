----------------------- MODULE StreamWebSocketRefinement -----------------------
(***************************************************************************)
(* The session implements MessageStream: how bytes were grouped into reads *)
(* cannot be observed.                                                     *)
(***************************************************************************)
EXTENDS StreamWebSocket

\* The frame being parsed, or the next one.
CurrentFrame == FramesParsed + 1

\* A data frame of which only a part was handled does not count yet.
InDataFrame == ~wantsHead /\ opCode[opStack] < CLOSE

MessageOpcode ==
    IF closing THEN NONE
    ELSE IF InDataFrame THEN IF wire[CurrentFrame].op = NONE THEN opCode[0] ELSE NONE
    ELSE IF fragmented THEN opCode[0] ELSE NONE

\* Bytes of the current frame that were handled, and what fragmentBuffer keeps below them.
Pending == IF wantsHead THEN 0 ELSE wire[CurrentFrame].len - remainingBytes
CompleteFragments == SubSeq(fragmentBuffer, 1, Len(fragmentBuffer) - Pending)

Promise == INSTANCE MessageStream WITH
    next <- IF closing THEN 0 ELSE CurrentFrame,
    op <- MessageOpcode,
    deflated <- ~closeSent /\ MessageOpcode # NONE /\ compression = "COMPRESSED_FRAME",
    buffer <- IF closeSent THEN <<>> ELSE CompleteFragments,
    closed <- closing

\* Every behaviour of the byte-level session is one of MessageStream: the events of
\* consume() depend on the peer's frames and not on how reads cut them.
ImplementsMessageStream == Promise!Spec
=============================================================================
