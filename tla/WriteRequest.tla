----------------------------- MODULE WriteRequest -----------------------------
(***************************************************************************)
(* The bytes of one write: struct WriteRequest, from the JavaScript values *)
(* of a send to the last call of sendmsg() or SSL_write_ex().  A request   *)
(* is a list of parts.  A part points into a JavaScript buffer, which is   *)
(* good while the call that sends lasts and longer only if its backing     *)
(* store is retained, into a string of its own, which moves with the part  *)
(* when it is short, or into the request's inline bytes.  Parts are moved, *)
(* copied together, cut at a prefix and released as soon as they are       *)
(* written, while a cursor goes over what is left.                         *)
(*                                                                         *)
(* A byte is its position in the message, so what was written can be       *)
(* compared with what was sent.  Module NativeTransport has the queue of   *)
(* requests; here the others only decide when this one is written.         *)
(***************************************************************************)
EXTENDS Integers, Sequences, SequencesExt

CONSTANTS
    ShortString,         \* longest std::string that is kept within the object
    InlineBytes,         \* INLINE_BYTES
    FullCoalesceLimit,   \* TLS_FULL_COALESCE_LIMIT
    CoalescePrefix,      \* TLS_COALESCE_PREFIX
    PlaintextBatch,      \* TLS_PLAINTEXT_BATCH_SIZE
    MaximumIOVectors,    \* maximumIOVectors()
    Lists,               \* bound: frame lists, each a sequence of [store, length]
    Payloads             \* bound: sizes of messages

ASSUME LimitsAssumption ==
    /\ ShortString \in Nat /\ Payloads \subseteq Nat
    /\ {InlineBytes, FullCoalesceLimit, CoalescePrefix, PlaintextBatch, MaximumIOVectors}
            \subseteq Nat \ {0}
    /\ Lists \subseteq Seq([store : {"js", "owned"}, length : Nat])

VARIABLES
    tls,                 \* whether ssl_ is set
    parts,
    cursorPart,          \* index of the part that is written next
    cursorOffset,
    bytes,
    sent,
    staged,              \* tlsCommittedPlaintext_
    batch,               \* batchRemaining of writeTLS()
    callback,            \* "none", "value" (good while the call lasts) or "reference"
    phase,               \* "new", "submit", "prepared", "flush", "queued", "done", "cancelled"
    inCall,              \* whether the JavaScript call that sends has yet to return
    total,               \* bytes in the message
    wire                 \* what the socket, or OpenSSL, was given
vars == <<tls, parts, cursorPart, cursorOffset, bytes, sent, staged, batch, callback, phase, inCall,
          total, wire>>

-----------------------------------------------------------------------------
(* Parts *)

Part(store, content) ==
    [store |-> store, content |-> content, at |-> 0, length |-> Len(content), ownedOffset |-> 0,
     stale |-> FALSE]
Released == Part("released", <<>>)

\* Moving a short string leaves its characters behind and `pointer` with them.
Moved(p) == [p EXCEPT !.stale = @ \/ (p.store = "owned" /\ Len(p.content) <= ShortString)]

\* What is found where a part points: nothing of the message if that is not good any more.
Bytes(p) == IF p.stale THEN [i \in 1..p.length |-> 0]
            ELSE SubSeq(p.content, p.at + 1, p.at + p.length)
Contents(ps) == FlattenSeq([i \in DOMAIN ps |-> Bytes(ps[i])])
Size(ps) == FoldLeft(LAMBDA n, p : n + p.length, 0, ps)

\* The part from index i on in which the byte after n more lies, or one behind the last.
PartAfter(ps, i, n) ==
    LET enough == {k \in i..Len(ps) : Size(SubSeq(ps, i, k)) > n}
    IN IF enough = {} THEN Len(ps) + 1 ELSE CHOOSE k \in enough : \A j \in enough : k <= j

\* Parts with what follows, if that is not empty.
WithPart(ps, p) == IF p.length > 0 THEN Append(ps, p) ELSE ps
NotEmpty(ps) == FoldLeft(WithPart, <<>>, ps)

ReleaseBefore(ps, k) == [i \in DOMAIN ps |-> IF i < k THEN Released ELSE ps[i]]

\* prepare(): an own string is where it is now.
Repointed(p) ==
    IF p.store = "owned" /\ p.content # <<>>
    THEN [p EXCEPT !.at = p.ownedOffset, !.stale = FALSE] ELSE p

\* prepare() of the parts, without skipEmptyParts()
Prepared(ps) == [i \in DOMAIN ps |-> Repointed(ps[i])]

\* flatten()
Flat(ps) ==
    IF Len(ps) <= 1 THEN ps
    ELSE <<Part(IF Size(ps) <= InlineBytes THEN "inline" ELSE "owned", Contents(ps))>>

\* Mutant: an own string starts at its beginning again.
Cut_FromStart(p, n) == [p EXCEPT !.at = @ + n, !.length = @ - n]

\* A part without its first n bytes.
Cut(p, n) == [p EXCEPT !.at = @ + n, !.length = @ - n,
                       !.ownedOffset = IF p.store = "owned" THEN @ + n ELSE @]

\* coalescePrefix(): the first n bytes in one string, and what is left of each part behind it.
Coalesced(ps, n) ==
    LET k == PartAfter(ps, 1, n)
        before == Size(SubSeq(ps, 1, k - 1))
        rest == [i \in 1..(Len(ps) - k + 1) |->
                    IF i = 1 THEN Cut(Moved(ps[k]), n - before) ELSE Moved(ps[k + i - 1])]
    IN IF Len(ps) <= 1 \/ n >= Size(ps) THEN Flat(ps)
       ELSE <<Part("owned", SubSeq(Contents(ps), 1, n))>> \o NotEmpty(rest)

\* What submit() makes of the parts before it writes any.
Arranged(ps) ==
    LET first == Prepared(ps) IN
    IF ~tls \/ Len(ps) <= 1 THEN first
    ELSE Prepared(IF Size(ps) <= FullCoalesceLimit THEN Flat(first)
                  ELSE Coalesced(first, CoalescePrefix))

-----------------------------------------------------------------------------
(* The cursor *)

\* What is left, from the cursor on.
Rest == IF cursorPart > Len(parts) THEN <<>>
        ELSE SubSeq(Contents(SubSeq(parts, cursorPart, Len(parts))), cursorOffset + 1,
                    Size(SubSeq(parts, cursorPart, Len(parts))))

remainingPartBytes == parts[cursorPart].length - cursorOffset
unstagedBytes == bytes - sent - staged

\* Mutant: stops behind a part without looking whether the next is empty.
NextPart_Plain(ps, i, n) ==
    IF n = 0 THEN i ELSE LET k == PartAfter(ps, i, n - 1)
                         IN IF Size(SubSeq(ps, i, k)) = n THEN k + 1 ELSE k

\* Where the cursor is after n bytes from part i on, empty parts skipped.
NextPart(ps, i, n) == PartAfter(ps, i, n)

\* advanceCursor(), and with n = 0 the skipEmptyParts() of prepare()
MoveCursor(ps, i, n) ==
    LET k == NextPart(ps, i, n) IN
    /\ parts' = ReleaseBefore(ps, k)
    /\ cursorPart' = k
    /\ cursorOffset' = n - Size(SubSeq(ps, i, k - 1))
Advance(n) == MoveCursor(parts, cursorPart, cursorOffset + n)

-----------------------------------------------------------------------------
(* Making a request *)

\* A header of two, four or ten bytes (frameHeader(), at the sizes of the bounds).
HeaderSize(n) == IF n < 2 THEN 2 ELSE IF n < 3 THEN 4 ELSE 10

\* The parts of a message, given as [store, length]: their bytes are numbered through.
Numbered(list) ==
    [i \in DOMAIN list |->
        LET before == Size(SubSeq(list, 1, i - 1))
        IN Part(list[i].store, [j \in 1..list[i].length |-> before + j])]

\* addSmallTextFrame(): header and text in the inline bytes, if they fit.
SmallText(n) == <<[store |-> "inline", length |-> HeaderSize(n) + n]>>

\* addInput() or addTextInput(), and prependOwned() of the header: the payload moves to the
\* second place.
Framed(store, n) == <<[store |-> "owned", length |-> HeaderSize(n)], [store |-> store, length |-> n]>>

Messages ==
    {SmallText(n) : n \in {m \in Payloads : HeaderSize(m) + m <= InlineBytes}} \cup
    {Framed("owned", n) : n \in {m \in Payloads : HeaderSize(m) + m > InlineBytes}} \cup
    {Framed("js", n) : n \in Payloads} \cup
    {Framed("owned", n) : n \in Payloads} \cup           \* a resizable ArrayBuffer is copied
    {<<[store |-> "owned", length |-> n]>> : n \in Payloads}  \* compressed, or made by consume()

\* writeMessage(), writeFrame(), writeFrameList() and writeOwned() up to submit().  A header
\* moves what it is put before, and a vector its parts when it grows.
Make ==
    /\ phase = "new" /\ phase' = "submit" /\ inCall' = TRUE
    /\ \E list \in Messages \cup Lists :
        LET made == Numbered(list) IN
        /\ parts' = [i \in DOMAIN made |-> IF i = 1 THEN made[1] ELSE Moved(made[i])]
        /\ total' = Size(made)
    /\ callback' \in {"none", "value"}
    /\ UNCHANGED <<tls, cursorPart, cursorOffset, bytes, sent, staged, batch, wire>>

\* submit() before the queue; nothing is written of an empty message.
Submit ==
    LET ps == Arranged(parts) IN
    /\ phase = "submit" /\ bytes' = Size(ps)
    /\ MoveCursor(ps, 1, 0)
    /\ IF Size(ps) = 0 THEN phase' = "done" /\ inCall' = FALSE
       ELSE phase' = "prepared" /\ UNCHANGED inCall
    /\ UNCHANGED <<tls, sent, staged, batch, callback, total, wire>>

\* Mutant: retains what comes behind the part that is being written.
Remaining_Behind(i) == i > cursorPart

\* What retainRemainingInputs() looks at.
Remaining(i) == i >= cursorPart

\* defer(), and the end of the call: from now on JavaScript may drop its buffers.
Defer ==
    /\ parts' = [i \in DOMAIN parts |->
                    IF Remaining(i) /\ parts[i].store = "js" THEN [parts[i] EXCEPT !.store = "held"]
                    ELSE parts[i]]
    /\ callback' = IF callback = "value" THEN "reference" ELSE callback
    /\ phase' = "queued" /\ inCall' = FALSE

\* Behind other requests, or written at once.
Enqueue ==
    /\ phase = "prepared"
    /\ Defer \/ (phase' = "flush" /\ UNCHANGED <<parts, callback, inCall>>)
    /\ UNCHANGED <<tls, cursorPart, cursorOffset, bytes, sent, staged, batch, total, wire>>

-----------------------------------------------------------------------------
(* Writing *)

\* completeHeadWrite() when all is sent, which ends the call if it is still in progress.
Sent(n) ==
    /\ sent' = sent + n
    /\ IF sent' = bytes THEN phase' = "done" /\ inCall' = FALSE /\ callback' = "none"
       ELSE UNCHANGED <<phase, inCall, callback>>

\* What remainingIovecs() covers.
Covered ==
    LET last == IF cursorPart + MaximumIOVectors - 1 < Len(parts)
                THEN cursorPart + MaximumIOVectors - 1 ELSE Len(parts)
    IN Size(SubSeq(parts, cursorPart, last)) - cursorOffset

WriteTCP ==
    /\ ~tls /\ phase = "flush"
    /\ \E n \in 1..Covered :
        wire' = wire \o SubSeq(Rest, 1, n) /\ Advance(n) /\ Sent(n)
    /\ UNCHANGED <<tls, bytes, staged, batch, total>>

\* SSL_write_ex() takes plaintext, at most a batch of it before the ciphertext goes out.
StageTLS ==
    /\ tls /\ phase = "flush" /\ unstagedBytes > 0 /\ batch > 0
    /\ \E n \in 1..(IF remainingPartBytes < batch THEN remainingPartBytes ELSE batch) :
        /\ wire' = wire \o SubSeq(Rest, 1, n) /\ Advance(n)
        /\ staged' = staged + n /\ batch' = batch - n
    /\ UNCHANGED <<tls, bytes, sent, callback, phase, inCall, total>>

\* The ciphertext of what is staged is out.
CommitTLS ==
    /\ tls /\ phase = "flush" /\ staged > 0
    /\ Sent(staged) /\ staged' = 0 /\ batch' = PlaintextBatch
    /\ UNCHANGED <<tls, parts, cursorPart, cursorOffset, bytes, total, wire>>

\* The socket takes no more for now, or OpenSSL has to read first.  Nothing more is staged
\* until what is staged is out.
Block ==
    /\ phase = "flush"
    /\ IF inCall THEN Defer ELSE phase' = "queued" /\ UNCHANGED <<parts, callback, inCall>>
    /\ batch' = IF staged > 0 THEN 0 ELSE PlaintextBatch
    /\ UNCHANGED <<tls, cursorPart, cursorOffset, bytes, sent, staged, total, wire>>

\* flushWrites() gets to the request, again.
Resume ==
    /\ phase = "queued" /\ phase' = "flush"
    /\ UNCHANGED <<tls, parts, cursorPart, cursorOffset, bytes, sent, staged, batch, callback,
                   inCall, total, wire>>

\* cancelWrites()
Cancel ==
    /\ phase \in {"flush", "queued"} /\ phase' = "cancelled"
    /\ parts' = <<>> /\ cursorPart' = 1 /\ cursorOffset' = 0
    /\ callback' = "none" /\ inCall' = FALSE /\ staged' = 0
    /\ UNCHANGED <<tls, bytes, sent, batch, total, wire>>

-----------------------------------------------------------------------------
Init ==
    /\ tls \in BOOLEAN
    /\ parts = <<>> /\ cursorPart = 1 /\ cursorOffset = 0
    /\ bytes = 0 /\ sent = 0 /\ staged = 0 /\ batch = PlaintextBatch /\ total = 0
    /\ callback = "none" /\ phase = "new" /\ inCall = FALSE /\ wire = <<>>

Next ==
    \/ Make \/ Submit \/ Enqueue \/ WriteTCP \/ StageTLS \/ CommitTLS \/ Block \/ Resume
    \/ Cancel

Spec == Init /\ [][Next]_vars

-----------------------------------------------------------------------------
(* Properties *)

Message == [i \in 1..total |-> i]

\* Through flattening, prefixes, moved strings, partial writes and staging: what was written
\* and what the cursor still points to make up the message, every byte once and in order, and
\* the counters say how much is which.
WholeMessage ==
    /\ phase \in {"flush", "queued"} =>
        /\ wire \o Rest = Message
        /\ Len(Rest) = unstagedBytes /\ Len(wire) = sent + staged
    /\ phase = "done" => wire = Message

\* Once the call that sends has returned, what is left depends on none of its values: no
\* unretained buffer and no callback that is not referenced.
HeldUntilSent ==
    phase = "queued" =>
        /\ callback # "value"
        /\ \A i \in cursorPart..Len(parts) : parts[i].store # "js"

\* While bytes are left the socket is never offered none, however many parts are empty and
\* however few vectors it takes: zero would be taken for a full socket, and wait for ever.
WritesSomething ==
    phase = "flush" /\ unstagedBytes > 0 => Covered > 0 /\ (tls => remainingPartBytes > 0)
=============================================================================
