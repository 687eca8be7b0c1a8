---------------------------- MODULE MCStreamWebSocket ----------------------------
(***************************************************************************)
(* Instances of StreamWebSocket.  Lengths are scaled down: payloads up to  *)
(* ShortMax = 2 have a short header, up to MediumMax = 3 a medium one.     *)
(***************************************************************************)
EXTENDS StreamWebSocketRefinement

Plain(op, fin, len) == [op |-> op, fin |-> fin, rsv1 |-> FALSE, malformed |-> FALSE,
                        len |-> len, payload |-> "good"]
Compressed(f) == [f EXCEPT !.rsv1 = TRUE]
With(f, payload) == [f EXCEPT !.payload = payload]

\* The frames whose combinations matter: fragments, interleaved control frames,
\* compression, and every size of header.
CoreFrames == {
    Plain(TEXT, TRUE, 2), Plain(TEXT, FALSE, 1), Compressed(Plain(BINARY, FALSE, 0)),
    Plain(NONE, FALSE, 2), Plain(NONE, TRUE, 1), Plain(NONE, TRUE, 4),
    Plain(PING, TRUE, 2), Plain(CLOSE, TRUE, 2)}

\* Frames that are refused, and payloads that are.
OddFrames == {
    Compressed(Plain(BINARY, TRUE, 1)), Plain(PONG, TRUE, 1),
    Plain(TEXT, TRUE, 0), Plain(BINARY, TRUE, 3), Plain(BINARY, TRUE, 5), Plain(TEXT, FALSE, 7),
    Plain(3, TRUE, 0), Plain(11, TRUE, 0), Plain(PING, FALSE, 0), Plain(PONG, TRUE, 3),
    Compressed(Plain(NONE, TRUE, 1)), Compressed(Plain(PING, TRUE, 0)),
    [Plain(BINARY, TRUE, 1) EXCEPT !.malformed = TRUE],
    With(Plain(TEXT, TRUE, 2), "badText"), With(Plain(NONE, TRUE, 1), "badText"),
    With(Compressed(Plain(TEXT, TRUE, 2)), "badDeflate"),
    With(Compressed(Plain(BINARY, TRUE, 1)), "bomb"),
    Plain(CLOSE, TRUE, 0), Plain(CLOSE, TRUE, 1), With(Plain(CLOSE, TRUE, 2), "badClose")}

Sequences(S, n) == [1..n -> S]

\* Every pair with a core frame in it, and every triple of core frames.  Nothing is read
\* behind a Close, so a triple need not begin with one.
PairsAndTriples ==
    {s \in Sequences(CoreFrames \cup OddFrames, 2) : {s[1], s[2]} \cap CoreFrames # {}} \cup
    {s \in Sequences(CoreFrames, 3) : s[1].op # CLOSE}

\* Long streams: a fragmented message with control frames in it, then another.
LongStreams == {
    <<Plain(TEXT, FALSE, 2), Plain(PING, TRUE, 2), Plain(NONE, FALSE, 1), Plain(CLOSE, TRUE, 2)>>,
    <<Compressed(Plain(BINARY, FALSE, 3)), Plain(PONG, TRUE, 2), Plain(NONE, TRUE, 1),
      Compressed(Plain(TEXT, TRUE, 4))>>,
    <<Plain(BINARY, TRUE, 4), Plain(TEXT, FALSE, 2), With(Plain(NONE, TRUE, 1), "badText")>>,
    <<Plain(PING, TRUE, 1), Plain(TEXT, FALSE, 3), Plain(PING, TRUE, 2), Plain(NONE, TRUE, 4)>>}

AllStreams == PairsAndTriples \cup LongStreams

\* Two compressed messages, for the divergence after a local Close.
CompressedPair ==
    {<<Compressed(Plain(TEXT, TRUE, 2)), Compressed(Plain(TEXT, TRUE, 1)), Plain(CLOSE, TRUE, 2)>>}
=============================================================================
