--------------------------- MODULE CompressionContext ---------------------------
(***************************************************************************)
(* permessage-deflate between a server and the clients of its sessions.    *)
(* A session compresses and inflates with the zlib streams of the server's *)
(* CompressionContext in a direction in which no context is taken over,    *)
(* and with those of a context of its own in the other.                    *)
(*                                                                         *)
(* A zlib stream is the window of blocks that it may refer back to.  A     *)
(* client takes every liberty the handshake leaves it: it keeps its        *)
(* streams from message to message unless the response tells it not to,    *)
(* and its inflater has just the window that the response tells it of.     *)
(* Both directions of a connection are in order, so a message is read      *)
(* with what all earlier ones left, whenever it arrives: sending and       *)
(* receiving are one step.                                                 *)
(***************************************************************************)
EXTENDS ExtensionsNegotiator

CONSTANTS
    Server,              \* the owner of the shared context
    Sessions,            \* bound: sessions that exist at a time
    Contents,            \* bound: different contents of a block
    MaxBlocks,           \* bound: blocks in a message, or in each part of one
    Reach,               \* how many blocks a window of so many bits holds
    Headers              \* bound: the headers that clients send

ASSUME CompressionAssumption ==
    /\ Server \notin Sessions /\ MaxBlocks \in Nat
    /\ Reach \in [8..15 -> Nat \ {0}] /\ \A m, n \in 8..15 : m <= n => Reach[m] <= Reach[n]
    /\ Headers \subseteq Seq(Lexeme)

VARIABLES
    wanted,              \* _nativeOptions of the server
    contexts,            \* the zlib streams: of the server, and of each session or none
    sessions,            \* for each session its options, window bits and response
    clients              \* the windows of the client of each session
vars == <<wanted, contexts, sessions, clients>>

-----------------------------------------------------------------------------
(* Windows *)

\* A window of so many bits behind more blocks.
Slid(window, more, bits) ==
    LET all == window \o more
    IN IF Len(all) <= Reach[bits] THEN all
       ELSE SubSeq(all, Len(all) - Reach[bits] + 1, Len(all))

\* All that window w may be asked for is at the end of window v.
Ends(w, v) ==
    Len(w) <= Len(v) /\ \A i \in 1..Len(w) : w[i] = v[Len(v) - Len(w) + i]

\* A stream is ready when it is between messages: at the beginning of a block, nothing pending.
NoInflater == [ready |-> TRUE, window |-> <<>>]
NoDeflater == [ready |-> TRUE, window |-> <<>>, bits |-> 0]
NewContext == [made |-> TRUE, inflater |-> NoInflater, deflater |-> NoDeflater]
NoContext == [made |-> FALSE, inflater |-> NoInflater, deflater |-> NoDeflater]

\* A client may end its stream within a message, and go on with the window it had.
Blocks == UNION {[1..n -> Contents] : n \in 0..MaxBlocks}
Messages == [before : Blocks, ends : BOOLEAN, after : Blocks]

\* The window of a client behind a message.
Sent(window, message) == Slid(Slid(window, message.before, 15), message.after, 15)

\* Mutant: a stream that ended is reset, and its window with it.
restartInflater_Forgets(inflater) == NoInflater

\* A stream that ended goes on with the window that it had.
restartInflater(inflater) == [inflater EXCEPT !.ready = TRUE]

\* The inflater behind a message.
Inflated(inflater, message) ==
    LET first == [ready |-> ~message.ends, window |-> Slid(inflater.window, message.before, 15)]
        next == IF message.ends THEN restartInflater(first) ELSE first
    IN [next EXCEPT !.window = Slid(@, message.after, 15)]

\* Mutant: keeps the stream that the last session compressed with.
ensureDeflater_Keeps(deflater, bits) ==
    IF deflater.bits # 0 THEN deflater ELSE [NoDeflater EXCEPT !.bits = bits]

\* The deflater of a session: made, or made anew for its window.
ensureDeflater(deflater, bits) ==
    IF deflater.bits = bits THEN deflater ELSE [NoDeflater EXCEPT !.bits = bits]

\* resetInflater() and resetDeflater() behind a failure: reset, or ended if that fails.
AfterFailure(stream, fresh) == fresh

\* resetDeflater() keeps the bits that the stream was made for.
resetDeflater(d) == [NoDeflater EXCEPT !.bits = d.bits]

-----------------------------------------------------------------------------
(* Sessions *)

NoOptions == [options |-> {}, bits |-> 0]
NoSession == [open |-> FALSE, negotiated |-> NoOptions, response |-> generateOffer(NoOptions),
              ask |-> [any |-> FALSE, serverReset |-> FALSE, bits |-> 0]]
NoClient == [deflater |-> <<>>, inflater |-> <<>>]

\* createSession() for a header of the client
Session(header, w) ==
    LET n == readOffer(header, w)
    IN [open |-> TRUE, negotiated |-> n, response |-> generateOffer(n), ask |-> Ask(header, w)]

\* The constructor of Server
WantedOptions ==
    {{}} \cup {{Deflate, r} \cup c : r \in {ServerReset, Sliding}, c \in SUBSET {ClientReset}}

\* All that clients can bring about, with the server's options.
AnySession == {<<w, Session(h, w)>> : w \in WantedOptions, h \in Headers}

Options(s) == sessions[s].negotiated.options

\* The session's constructor: serverMaxWindowBits is 15 if it was not negotiated.
serverMaxWindowBits(s) ==
    IF sessions[s].negotiated.bits = 0 THEN 15 ELSE sessions[s].negotiated.bits

\* The streams of its own that a session begins with, for a direction that keeps its context.
OwnContext(n) ==
    IF Deflate \notin n.options \/ {ClientReset, ServerReset} \subseteq n.options
    THEN NoContext ELSE NewContext

\* The owners of the contexts that a session uses.
InflatesWith(s) == IF ClientReset \in Options(s) THEN Server ELSE s
DeflatesWith(s) == IF ServerReset \in Options(s) THEN Server ELSE s

Compresses(s) == sessions[s].open /\ Deflate \in Options(s)

\* handleUpgrade(): a client connects.
Connect(s) ==
    /\ ~sessions[s].open
    /\ \E new \in {a[2] : a \in {x \in AnySession : x[1] = wanted}} :
        /\ sessions' = [sessions EXCEPT ![s] = new]
        /\ contexts' = [contexts EXCEPT ![s] = OwnContext(new.negotiated)]
    /\ clients' = [clients EXCEPT ![s] = NoClient]
    /\ UNCHANGED wanted

\* The session is given up, and with it the context that it owned.
Gone(s) ==
    /\ sessions' = [sessions EXCEPT ![s] = NoSession]
    /\ clients' = [clients EXCEPT ![s] = NoClient]
    /\ UNCHANGED wanted

Disconnect(s) ==
    /\ sessions[s].open
    /\ contexts' = [contexts EXCEPT ![s] = NoContext]
    /\ Gone(s)

\* resetAfter of inflateMessage()
AfterInflate(s, inflater) == IF ClientReset \in Options(s) THEN NoInflater ELSE inflater

\* inflateMessage() succeeds: the client's stream went on, and so does ours.
Inflate(s) ==
    /\ Compresses(s)
    /\ contexts[InflatesWith(s)].made
    /\ \E message \in Messages :
        /\ contexts' = [contexts EXCEPT ![InflatesWith(s)].inflater =
                            AfterInflate(s, Inflated(@, message))]
        /\ clients' = [clients EXCEPT ![s].deflater =
                           IF sessions[s].response.clientReset THEN <<>> ELSE Sent(@, message)]
    /\ UNCHANGED <<wanted, sessions>>

\* inflateMessage() gives up in the midst of a message: the data is no good, inflates to too
\* much, or memory is short.  The session fails, and only the server's context remains.
InflateFails(s) ==
    /\ Compresses(s)
    /\ \E read \in Blocks :
        LET c == InflatesWith(s)
            used == [ready |-> FALSE, window |-> Slid(contexts[c].inflater.window, read, 15)]
        IN contexts' = [contexts EXCEPT ![c].inflater = AfterFailure(used, NoInflater),
                                        ![s] = NoContext]
    /\ Gone(s)

\* deflateMessage() succeeds, and the client inflates what it is sent.
DeflateMessage(s) ==
    /\ Compresses(s)
    /\ contexts[DeflatesWith(s)].made
    /\ \E content \in Blocks :
        LET d == ensureDeflater(contexts[DeflatesWith(s)].deflater, serverMaxWindowBits(s))
            used == [d EXCEPT !.window = Slid(@, content, d.bits)]
            told == IF sessions[s].response.bits = 0 THEN 15 ELSE sessions[s].response.bits
        IN /\ contexts' = [contexts EXCEPT ![DeflatesWith(s)].deflater =
                               IF ServerReset \in Options(s) THEN resetDeflater(used) ELSE used]
           /\ clients' = [clients EXCEPT ![s].inflater =
                              IF sessions[s].response.serverReset THEN <<>>
                              ELSE Slid(@, content, told)]
    /\ UNCHANGED <<wanted, sessions>>

\* deflateMessage() fails: the message is too long, or there is no stream, or it fails or cannot
\* be reset.  The frame is not made and the send fails, but the session goes on.
DeflateFails(s) ==
    /\ Compresses(s)
    /\ contexts[DeflatesWith(s)].made
    /\ \E content \in Blocks, bits \in {0, serverMaxWindowBits(s)} :
        LET d == ensureDeflater(contexts[DeflatesWith(s)].deflater, serverMaxWindowBits(s))
            used == [d EXCEPT !.ready = FALSE, !.window = Slid(@, content, d.bits)]
        IN \E new \in {d, AfterFailure(used, [NoDeflater EXCEPT !.bits = bits])} :
            contexts' = [contexts EXCEPT ![DeflatesWith(s)].deflater = new]
    /\ UNCHANGED <<wanted, sessions, clients>>

-----------------------------------------------------------------------------
Init ==
    /\ wanted \in WantedOptions
    /\ contexts = [o \in {Server} \cup Sessions |->
                       IF o = Server /\ Deflate \in wanted THEN NewContext ELSE NoContext]
    /\ sessions = [s \in Sessions |-> NoSession]
    /\ clients = [s \in Sessions |-> NoClient]

Next == \E s \in Sessions :
    \/ Connect(s) \/ Disconnect(s)
    \/ Inflate(s) \/ InflateFails(s)
    \/ DeflateMessage(s) \/ DeflateFails(s)

Spec == Init /\ [][Next]_vars

-----------------------------------------------------------------------------
(* Properties *)

\* The response is what the client's first acceptable offer calls for, by the grammar of the
\* header: compression if and only if there is one, no context where it asked for none, and
\* just the window it asked for.  Otherwise a client fails the connection, or trusts in what
\* the server does not keep to (Extensions.cpp).
AnswersTheOffer ==
    \A s \in Sessions : sessions[s].open =>
        LET r == sessions[s].response
            ask == sessions[s].ask
        IN /\ r.agreed = ask.any
           /\ ask.serverReset => r.serverReset
           /\ r.bits = ask.bits

\* Whatever sessions failed, ended or used the server's streams before, what the server may
\* refer back to in its next message to a client is what the client's inflater still has, in
\* the window that the client was told of (StreamWebSocket.cpp, deflateMessage).
ClientCanInflate ==
    \A s \in Sessions : Compresses(s) =>
        LET c == contexts[DeflatesWith(s)]
            d == ensureDeflater(c.deflater, serverMaxWindowBits(s))
        IN /\ c.made /\ d.ready
           /\ Ends(d.window, clients[s].inflater)
           /\ sessions[s].response.bits # 0 => d.bits <= sessions[s].response.bits

\* What a client may refer back to in its next message is what the server will inflate it
\* with, and that stream is at the beginning of a block, although other sessions share it and
\* may have failed within a message; and the shared one holds nothing of theirs
\* (StreamWebSocket.cpp, inflateMessage).
ServerCanInflate ==
    \A s \in Sessions : Compresses(s) =>
        LET c == contexts[InflatesWith(s)]
        IN /\ c.made /\ c.inflater.ready
           /\ Ends(clients[s].deflater, c.inflater.window)
           /\ InflatesWith(s) = Server => c.inflater.window = <<>>
=============================================================================
