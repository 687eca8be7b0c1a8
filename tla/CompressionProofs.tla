--------------------------- MODULE CompressionProofs ---------------------------
(***************************************************************************)
(* Server and clients can inflate each other's messages, for any number of *)
(* sessions, any sizes of windows and messages, and whatever headers the   *)
(* clients send.  Each session and its client are right on their own; all  *)
(* that they share is the server's context, which is always as good as new *)
(* between two messages.                                                   *)
(* Before that, and without any session: what the negotiator answers to a  *)
(* header is what the grammar of the header calls for.  The parser is      *)
(* followed lexeme by lexeme, with each offer and each parameter that it   *)
(* holds at its place in the header.                                       *)
(***************************************************************************)
EXTENDS CompressionContext, SequenceTheorems, WellFoundedInduction, TLAPS

WindowSizes == {0} \cup 8..15
Window == Seq(Contents)
Inflater == [ready : BOOLEAN, window : Window]
Deflater == [ready : BOOLEAN, window : Window, bits : WindowSizes]
Context == [made : BOOLEAN, inflater : Inflater, deflater : Deflater]
Client == [deflater : Window, inflater : Window]

\* The response agrees with what the client asked for.
Answers(x) ==
    /\ x.response.agreed = x.ask.any
    /\ x.ask.serverReset => x.response.serverReset
    /\ x.response.bits = x.ask.bits

\* A session has the options it agreed to, and its response says so.
GoodSession(x, w) ==
    /\ x.open \in BOOLEAN
    /\ x.negotiated.bits \in WindowSizes
    /\ x.response = generateOffer(x.negotiated)
    /\ x.open /\ Deflate \in x.negotiated.options => x.negotiated.options = w
    /\ x.open => Answers(x)

BitsOf(x) == IF x.negotiated.bits = 0 THEN 15 ELSE x.negotiated.bits

\* Session x, its own context and its client agree, in each direction.
Inflates(x, c, k) ==
    IF ClientReset \in x.negotiated.options THEN k.deflater = <<>>
    ELSE c.made /\ c.inflater = [ready |-> TRUE, window |-> k.deflater]
Deflates(x, c, k) ==
    ServerReset \notin x.negotiated.options =>
        /\ c.made /\ c.deflater.ready
        /\ c.deflater.bits \in {0, BitsOf(x)}
        /\ Ends(c.deflater.window, k.inflater)
Agree(x, c, k) ==
    x.open /\ Deflate \in x.negotiated.options => Inflates(x, c, k) /\ Deflates(x, c, k)

\* What sessions share is as good as new.
Fresh(c, w) ==
    /\ Deflate \in w => c.made
    /\ c.inflater = NoInflater
    /\ c.deflater.ready /\ c.deflater.window = <<>>

Types ==
    /\ contexts \in [{Server} \cup Sessions -> Context]
    /\ clients \in [Sessions -> Client]
    /\ sessions = [s \in Sessions |-> sessions[s]]
IInv ==
    /\ Types
    /\ Fresh(contexts[Server], wanted)
    /\ \A s \in Sessions :
        GoodSession(sessions[s], wanted) /\ Agree(sessions[s], contexts[s], clients[s])

-----------------------------------------------------------------------------
(* Windows *)

\* Slid() keeps as many of the latest blocks as the window holds.
LEMMA SlidWindow ==
    ASSUME NEW w \in Window, NEW more \in Window, NEW b \in 8..15
    PROVE  /\ Slid(w, more, b) \in Window
           /\ Len(Slid(w, more, b)) =
                IF Len(w \o more) <= Reach[b] THEN Len(w \o more) ELSE Reach[b]
           /\ \A i \in 1..Len(Slid(w, more, b)) :
                Slid(w, more, b)[i] =
                    (w \o more)[Len(w \o more) - Len(Slid(w, more, b)) + i]
<1> DEFINE all == w \o more
<1>1. all \in Window /\ Len(all) \in Nat
    BY DEF Window
<1>2. Reach[b] \in Nat /\ Reach[b] > 0
    BY CompressionAssumption
<1>3. CASE Len(all) <= Reach[b]
  <2>1. Slid(w, more, b) = all
    BY <1>3 DEF Slid
  <2> HIDE DEF all
  <2>2. \A i \in 1..Len(all) : Len(all) - Len(all) + i = i
    BY <1>1
  <2> QED
    BY <1>1, <1>3, <2>1, <2>2 DEF all
<1>4. CASE ~(Len(all) <= Reach[b])
  <2>1. Slid(w, more, b) = SubSeq(all, Len(all) - Reach[b] + 1, Len(all))
    BY <1>4 DEF Slid
  <2> HIDE DEF all
  <2>2. /\ SubSeq(all, Len(all) - Reach[b] + 1, Len(all)) \in Window
        /\ Len(SubSeq(all, Len(all) - Reach[b] + 1, Len(all))) = Reach[b]
        /\ \A i \in 1..Reach[b] :
            SubSeq(all, Len(all) - Reach[b] + 1, Len(all))[i] = all[Len(all) - Reach[b] + i]
    BY <1>1, <1>2, <1>4 DEF Window
  <2> QED
    BY <1>1, <1>2, <1>4, <2>1, <2>2 DEF all
<1> QED
    BY <1>3, <1>4

\* More blocks behind two windows keep one at the end of the other.
LEMMA EndsBehindMore ==
    ASSUME NEW w \in Window, NEW v \in Window, NEW more \in Window, Ends(w, v)
    PROVE  Ends(w \o more, v \o more)
<1>1. /\ Len(w) \in Nat /\ Len(v) \in Nat /\ Len(more) \in Nat
      /\ Len(w \o more) = Len(w) + Len(more)
      /\ Len(v \o more) = Len(v) + Len(more)
      /\ Len(w) <= Len(v)
    BY DEF Window, Ends
<1>2. ASSUME NEW i \in 1..Len(w \o more)
      PROVE  (w \o more)[i] = (v \o more)[Len(v \o more) - Len(w \o more) + i]
  <2>1. CASE i <= Len(w)
    <3>1. /\ (w \o more)[i] = w[i]
          /\ (v \o more)[Len(v) - Len(w) + i] = v[Len(v) - Len(w) + i]
      BY <1>1, <2>1 DEF Window
    <3> QED
      BY <1>1, <2>1, <3>1 DEF Ends
  <2>2. CASE i > Len(w)
    <3>1. /\ (w \o more)[i] = more[i - Len(w)]
          /\ (v \o more)[Len(v) - Len(w) + i] = more[i - Len(w)]
      BY <1>1, <2>2 DEF Window
    <3> QED
      BY <1>1, <3>1
  <2> QED
    BY <2>1, <2>2, <1>1
<1> QED
    BY <1>1, <1>2 DEF Ends

\* A window stays at the end of another that is as large when both slide.
LEMMA EndsSlides ==
    ASSUME NEW w \in Window, NEW v \in Window, NEW more \in Window, NEW b \in 8..15, Ends(w, v)
    PROVE  Ends(Slid(w, more, b), Slid(v, more, b))
<1> DEFINE p == w \o more
           q == v \o more
           n == Len(Slid(w, more, b))
           m == Len(Slid(v, more, b))
<1>1. /\ Len(p) \in Nat /\ Len(q) \in Nat /\ Reach[b] \in Nat /\ Reach[b] > 0
      /\ Len(p) <= Len(q)
      /\ \A i \in 1..Len(p) : p[i] = q[Len(q) - Len(p) + i]
  <2>1. p \in Window /\ q \in Window
    BY DEF Window
  <2>2. Ends(p, q)
    BY EndsBehindMore
  <2>3. Reach[b] \in Nat /\ Reach[b] > 0
    BY CompressionAssumption
  <2> HIDE DEF p, q
  <2> QED
    BY <2>1, <2>2, <2>3 DEF Window, Ends
<1>2. /\ n = IF Len(p) <= Reach[b] THEN Len(p) ELSE Reach[b]
      /\ m = IF Len(q) <= Reach[b] THEN Len(q) ELSE Reach[b]
      /\ \A i \in 1..n : Slid(w, more, b)[i] = p[Len(p) - n + i]
      /\ \A i \in 1..m : Slid(v, more, b)[i] = q[Len(q) - m + i]
    BY SlidWindow
<1> HIDE DEF p, q
<1>3. n <= m /\ n \in Nat /\ m \in Nat /\ n <= Len(p) /\ m <= Len(q)
    BY <1>1, <1>2
<1>4. ASSUME NEW i \in 1..n
      PROVE  Slid(w, more, b)[i] = Slid(v, more, b)[m - n + i]
  <2>1. m - n + i \in 1..m /\ Len(p) - n + i \in 1..Len(p)
    BY <1>3, <1>1
  <2>2. p[Len(p) - n + i] = q[Len(q) - Len(p) + (Len(p) - n + i)]
    BY <1>1, <2>1
  <2>3. Slid(v, more, b)[m - n + i] = q[Len(q) - m + (m - n + i)]
    BY <1>2, <2>1
  <2>4. Len(q) - Len(p) + (Len(p) - n + i) = Len(q) - m + (m - n + i)
    BY <1>1, <1>3
  <2> QED
    BY <1>2, <2>2, <2>3, <2>4
<1> QED
    BY <1>3, <1>4 DEF Ends

-----------------------------------------------------------------------------
(* Numbers *)

\* A set of numbers that is not empty has a least.
LEMMA Least ==
    ASSUME NEW S \in SUBSET Nat, S # {}
    PROVE  \E m \in S : \A k \in S : m <= k
<1>1. PICK m \in S : \A k \in S : ~(<<k, m>> \in OpToRel(<, Nat))
  BY NatLessThanWellFounded, WFMin
<1>2. ASSUME NEW k \in S PROVE m <= k
  <2>1. <<k, m>> \notin OpToRel(<, Nat)
    BY <1>1
  <2>2. ~(k < m)
    BY <2>1 DEF OpToRel
  <2> QED
    BY <2>2
<1> QED
  BY <1>2

\* Induction over the numbers from 0 to n, without an operator.
LEMMA UpTo ==
    ASSUME NEW n \in Nat, NEW S, 0 \in S, \A k \in 0..(n - 1) : k \in S => k + 1 \in S
    PROVE  0..n \subseteq S
<1> SUFFICES ASSUME NEW x \in 0..n, x \notin S PROVE FALSE
  OBVIOUS
<1>1. PICK bad : bad = {k \in 0..n : k \notin S}
  OBVIOUS
<1>2. bad \in SUBSET Nat /\ bad # {}
  BY <1>1
<1>3. PICK m \in bad : \A k \in bad : m <= k
  BY <1>2, Least
<1>4. m \in 0..n /\ m \notin S /\ m # 0
  BY <1>1
<1>5. m - 1 \in 0..(n - 1) /\ (m - 1) + 1 = m /\ m - 1 \in 0..n /\ ~(m <= m - 1)
  BY <1>4
<1>6. m - 1 \in S
  BY <1>1, <1>3, <1>5
<1> QED
  BY <1>4, <1>5, <1>6

-----------------------------------------------------------------------------
(* The parser *)

Start == [at |-> "name", offers |-> <<>>]

\* f is the parser behind each of the first n lexemes.
Reads(f, h, n) == f = [k \in 0..n |-> IF k = 0 THEN Start ELSE Read(f[k - 1], h[k])]

\* Such a function, unfolded.
LEMMA ReadsAt ==
    ASSUME NEW f, NEW h, NEW n, Reads(f, h, n), NEW k \in 0..n
    PROVE  f[k] = IF k = 0 THEN Start ELSE Read(f[k - 1], h[k])
<1> DEFINE e(g, i) == IF i = 0 THEN Start ELSE Read(g[i - 1], h[i])
<1>1. f = [i \in 0..n |-> e(f, i)]
  BY Zenon DEF Reads
<1> HIDE DEF e
<1>2. f[k] = e(f, k)
  BY <1>1, Zenon
<1> QED
  BY <1>2 DEF e

\* The recursion by which Reading is defined has a solution.
LEMMA ReadsExist ==
    ASSUME NEW h, NEW N \in Nat PROVE \E f : Reads(f, h, N)
<1>1. PICK S : S = {k \in 0..N : \E f : Reads(f, h, k)}
  OBVIOUS
<1>2. 0 \in S
  <2>1. PICK f : f = [k \in 0..0 |-> Start]
    OBVIOUS
  <2>2. f = [k \in 0..0 |-> IF k = 0 THEN Start ELSE Read(f[k - 1], h[k])]
    BY <2>1
  <2> QED
    BY <1>1, <2>2 DEF Reads
<1>3. ASSUME NEW n \in 0..(N - 1), n \in S PROVE n + 1 \in S
  <2>1. PICK f : Reads(f, h, n)
    BY <1>1, <1>3
  <2>2. PICK x : x = Read(f[n], h[n + 1])
    OBVIOUS
  <2>3. PICK g : g = [k \in 0..(n + 1) |-> IF k = n + 1 THEN x ELSE f[k]]
    OBVIOUS
  <2>4. ASSUME NEW k \in 0..(n + 1)
        PROVE  g[k] = IF k = 0 THEN Start ELSE Read(g[k - 1], h[k])
    <3>1. CASE k = n + 1
      <4>1. g[k] = x /\ k # 0 /\ k - 1 = n /\ g[n] = f[n]
        BY <2>3, <3>1
      <4> QED
        BY <2>2, <3>1, <4>1
    <3>2. CASE k # n + 1
      <4>1. k \in 0..n /\ g[k] = f[k] /\ (k # 0 => g[k - 1] = f[k - 1])
        BY <2>3, <3>2
      <4>2. f[k] = IF k = 0 THEN Start ELSE Read(f[k - 1], h[k])
        BY <2>1, <4>1, ReadsAt
      <4> QED
        BY <4>1, <4>2
    <3> QED
      BY <3>1, <3>2
  <2>5. g = [k \in 0..(n + 1) |-> g[k]]
    BY <2>3
  <2>6. g = [k \in 0..(n + 1) |-> IF k = 0 THEN Start ELSE Read(g[k - 1], h[k])]
    BY <2>4, <2>5
  <2> QED
    BY <1>1, <2>6 DEF Reads
<1>4. 0..N \subseteq S
  BY <1>2, <1>3, UpTo
<1> QED
  BY <1>1, <1>4

\* What the parser makes of a header, read lexeme by lexeme.
LEMMA ReadingSteps ==
    ASSUME NEW h \in Seq(Lexeme)
    PROVE  \E f : /\ f[0] = Start /\ Reading(h) = f[Len(h)]
                  /\ \A k \in 1..Len(h) : f[k] = Read(f[k - 1], h[k])
<1>1. PICK f : f = CHOOSE g : Reads(g, h, Len(h))
  OBVIOUS
<1>2. Reads(f, h, Len(h))
  BY <1>1, ReadsExist
<1>3. Reading(h) = f[Len(h)]
  BY <1>1, Zenon DEF Reading, Reads, Start
<1>4. 0 \in 0..Len(h) /\ \A k \in 1..Len(h) : k \in 0..Len(h) /\ k # 0
  OBVIOUS
<1> QED
  BY <1>2, <1>3, <1>4, ReadsAt

\* Where the parser may be.
Places == {"name", "list", "parameterName", "parameter", "value", "failed"}
\* The types of what it keeps.  That "" is a string is not known to the provers.
Text == STRING \cup {""}
Parameter == [name : Text, hasValue : BOOLEAN, value : Text]
Offer == [name : Text, parameters : Seq(Parameter)]
Parser == [at : Places, offers : Seq(Offer)]

\* The marks are three, and no tokens.
LEMMA Marks ==
    /\ Comma # Semicolon /\ Comma # Equals /\ Semicolon # Equals
    /\ Comma.kind = "mark" /\ Semicolon.kind = "mark" /\ Equals.kind = "mark"
<1>1. "," # ";" /\ "," # "=" /\ ";" # "="
  BY Zenon
<1>2. \A t : Mark(t).text = t /\ Mark(t).kind = "mark"
  BY DEF Mark
<1> QED
  BY <1>1, <1>2, Zenon DEF Comma, Semicolon, Equals

Separator(l) == l \in {Comma, Semicolon}
NoParameters(l) == [name |-> l.text, parameters |-> <<>>]

\* What the parser makes of a lexeme, for each that it may go on with.
LEMMA ReadName ==
    ASSUME NEW p \in Parser, NEW l \in Lexeme, p.at = "name", l.kind = "token"
    PROVE  Read(p, l) = [at |-> "list", offers |-> Append(p.offers, NoParameters(l))]
BY DEF Read, NoParameters

\* Behind a comma an extension is to come.
LEMMA ReadComma ==
    ASSUME NEW p \in Parser, NEW l \in Lexeme, p.at \in {"list", "parameter"}, l = Comma
    PROVE  Read(p, l) = [at |-> "name", offers |-> p.offers]
BY Marks DEF Read, Parser

\* Behind a semicolon a parameter is to come.
LEMMA ReadSemicolon ==
    ASSUME NEW p \in Parser, NEW l \in Lexeme, p.at \in {"list", "parameter"}, l = Semicolon
    PROVE  Read(p, l) = [at |-> "parameterName", offers |-> p.offers]
BY Marks DEF Read, Parser

\* A parameter without a value, so far.
LEMMA ReadParameterName ==
    ASSUME NEW p \in Parser, NEW l \in Lexeme, p.at = "parameterName", l.kind = "token"
    PROVE  Read(p, l) = [at |-> "parameter", offers |-> WithParameter(p.offers, l.text)]
BY DEF Read

\* Behind an equals sign a value is to come.
LEMMA ReadEquals ==
    ASSUME NEW p \in Parser, NEW l \in Lexeme, p.at = "parameter", l = Equals
    PROVE  Read(p, l) = [at |-> "value", offers |-> p.offers]
BY Marks DEF Read, Parser

\* A value for the last parameter.
LEMMA ReadValue ==
    ASSUME NEW p \in Parser, NEW l \in Lexeme, p.at = "value", l.kind \in {"token", "quoted"}
    PROVE  Read(p, l) = [at |-> "list", offers |-> WithValue(p.offers, l.text)]
BY DEF Read

\* The parser can go on with l.
Expected(p, l) ==
    \/ p.at = "name" /\ l.kind = "token"
    \/ p.at \in {"list", "parameter"} /\ Separator(l)
    \/ p.at = "parameterName" /\ l.kind = "token"
    \/ p.at = "parameter" /\ l = Equals
    \/ p.at = "value" /\ l.kind \in {"token", "quoted"}

\* Anything else is a failure.
LEMMA ReadOther ==
    ASSUME NEW p \in Parser, NEW l \in Lexeme, ~Expected(p, l)
    PROVE  Read(p, l) = [at |-> "failed", offers |-> p.offers]
BY DEF Read, Parser, Expected, Separator

-----------------------------------------------------------------------------
(* The grammar *)

Separators(h) == Commas(h) \cup Semicolons(h)

\* The piece behind separator c is as the grammar has it.
Fine(h, c) == IF c \in Commas(h) THEN IsExtension(h, c) ELSE IsParameter(h, c)

\* The parser is in the piece behind separator c when it has read n lexemes.
Inside(h, n, at, c) ==
    CASE at = "name" -> c \in Commas(h) /\ n = c
      [] at = "list" ->
            \/ c \in Commas(h) /\ n = c + 1 /\ IsToken(h, c + 1)
            \/ /\ c \in Semicolons(h) /\ n = c + 3 /\ IsToken(h, c + 1)
               /\ h[c + 2] = Equals /\ IsValue(h, c + 3)
      [] at = "parameterName" -> c \in Semicolons(h) /\ n = c
      [] at = "parameter" -> c \in Semicolons(h) /\ n = c + 1 /\ IsToken(h, c + 1)
      [] at = "value" ->
            c \in Semicolons(h) /\ n = c + 2 /\ IsToken(h, c + 1) /\ h[c + 2] = Equals
      [] OTHER -> FALSE

\* It is the last piece so far, and those before it are fine.
Within(h, n, at, c) ==
    /\ c \in Separators(h) /\ c <= n /\ Inside(h, n, at, c)
    /\ \A d \in Separators(h) : d <= n => d <= c
    /\ \A d \in Separators(h) : d < c => Fine(h, d)

Syntax(h, n, at) ==
    IF at = "failed" THEN \E c \in Separators(h) : ~Fine(h, c) ELSE \E c : Within(h, n, at, c)

\* A separator is at one place, and of one kind.
LEMMA SeparatorKinds ==
    ASSUME NEW h \in Seq(Lexeme), NEW i \in 1..Len(h)
    PROVE  /\ i \in Commas(h) <=> h[i] = Comma
           /\ i \in Semicolons(h) <=> h[i] = Semicolon
           /\ i \in Separators(h) <=> Separator(h[i])
           /\ i \in Stops(h) <=> Separator(h[i])
           /\ h[i] \in Lexeme
           /\ ~(h[i] = Comma /\ h[i] = Semicolon)
           /\ h[i] = Equals => ~Separator(h[i])
           /\ h[i].kind \in {"token", "quoted"} => ~Separator(h[i]) /\ h[i] # Equals
<1>1. i \in DOMAIN h /\ i # 0 /\ i # Len(h) + 1 /\ h[i] \in Lexeme
  OBVIOUS
<1>2. PICK l : l = h[i]
  OBVIOUS
<1>3. /\ i \in Commas(h) <=> l = Comma
      /\ i \in Semicolons(h) <=> l = Semicolon
  BY <1>1, <1>2 DEF Commas, Semicolons
<1>4. /\ i \in Separators(h) <=> Separator(l)
      /\ i \in Stops(h) <=> Separator(l)
  BY <1>1, <1>3 DEF Separators, Stops, Separator
<1>5. /\ ~(l = Comma /\ l = Semicolon)
      /\ l = Equals => ~Separator(l)
      /\ l.kind \in {"token", "quoted"} => ~Separator(l) /\ l # Equals
  BY Marks DEF Separator
<1> QED
  BY <1>1, <1>2, <1>3, <1>4, <1>5, Zenon

\* The marks are numbers of lexemes, and the beginning counts as a comma.
LEMMA SeparatorNumbers ==
    ASSUME NEW h \in Seq(Lexeme)
    PROVE  /\ Commas(h) \subseteq 0..Len(h) /\ Semicolons(h) \subseteq 1..Len(h)
           /\ 0 \in Commas(h) /\ 0 \in Separators(h) /\ Separators(h) \subseteq 0..Len(h)
           /\ \A c \in Commas(h) : c \notin Semicolons(h)
           /\ Len(h) \in Nat /\ Len(h) + 1 \in Stops(h)
BY Marks DEF Commas, Semicolons, Separators, Stops

\* A separator behind what is inside ends the piece, and begins the next.
LEMMA NextPiece ==
    ASSUME NEW h \in Seq(Lexeme), NEW n \in 0..(Len(h) - 1), NEW at \in {"list", "parameter"},
           NEW c, Within(h, n, at, c), Separator(h[n + 1])
    PROVE  /\ Fine(h, c)
           /\ \A new \in Places : Inside(h, n + 1, new, n + 1) => Within(h, n + 1, new, n + 1)
<1>0. n + 1 \in 1..Len(h) /\ c \in 0..n
  BY SeparatorNumbers DEF Within
<1>1. n + 1 \in Stops(h) /\ n + 1 \in Separators(h)
  BY <1>0, SeparatorKinds
<1>2. Fine(h, c)
  <2>1. CASE c \in Commas(h)
    <3>1. n = c + 1 /\ IsToken(h, c + 1)
      BY <2>1, SeparatorNumbers DEF Within, Inside
    <3>2. c + 2 = n + 1
      BY <1>0, <3>1
    <3> QED
      BY <1>1, <2>1, <3>1, <3>2 DEF Fine, IsExtension
  <2>2. CASE c \in Semicolons(h)
    <3>0. c \notin Commas(h)
      BY <2>2, SeparatorNumbers
    <3>1. CASE at = "parameter"
      <4>1. n = c + 1 /\ IsToken(h, c + 1)
        BY <3>1 DEF Within, Inside
      <4>2. c + 2 = n + 1
        BY <1>0, <4>1
      <4> QED
        BY <1>1, <3>0, <4>1, <4>2 DEF Fine, IsParameter
    <3>2. CASE at = "list"
      <4>1. n = c + 3 /\ IsToken(h, c + 1) /\ h[c + 2] = Equals /\ IsValue(h, c + 3)
        BY <3>0, <3>2 DEF Within, Inside
      <4>2. c + 4 = n + 1 /\ c + 2 \in DOMAIN h
        BY <1>0, <4>1
      <4> QED
        BY <1>1, <3>0, <4>1, <4>2 DEF Fine, IsParameter
    <3> QED
      BY <3>1, <3>2
  <2> QED
    BY <2>1, <2>2 DEF Within, Separators
<1>3. ASSUME NEW d \in Separators(h), d < n + 1 PROVE Fine(h, d)
  <2>1. d <= c
    BY <1>0, <1>3, SeparatorNumbers DEF Within
  <2> QED
    BY <1>0, <1>2, <2>1, SeparatorNumbers DEF Within
<1> QED
  BY <1>0, <1>1, <1>2, <1>3, SeparatorNumbers DEF Within

\* Any other lexeme leaves the piece to be the last.
LEMMA SamePiece ==
    ASSUME NEW h \in Seq(Lexeme), NEW n \in 0..(Len(h) - 1), NEW at, NEW c,
           Within(h, n, at, c), ~Separator(h[n + 1]), NEW new, Inside(h, n + 1, new, c)
    PROVE  Within(h, n + 1, new, c)
<1>0. n + 1 \in 1..Len(h) /\ c \in 0..n
  BY SeparatorNumbers DEF Within
<1>1. n + 1 \notin Separators(h)
  BY <1>0, SeparatorKinds
<1>2. ASSUME NEW d \in Separators(h), d <= n + 1 PROVE d <= c
  <2>1. d <= n
    BY <1>1, <1>2, SeparatorNumbers
  <2> QED
    BY <2>1 DEF Within
<1> QED
  BY <1>0, <1>2 DEF Within

\* A lexeme that is not expected is none that the grammar allows.
LEMMA NotFine ==
    ASSUME NEW h \in Seq(Lexeme), NEW n \in 0..(Len(h) - 1), NEW p \in Parser, NEW c,
           Within(h, n, p.at, c), ~Expected(p, h[n + 1])
    PROVE  ~Fine(h, c)
<1>0. n + 1 \in 1..Len(h) /\ c \in 0..n /\ p.at \in Places
  BY SeparatorNumbers DEF Within, Parser
<1>1. h[n + 1] \in Lexeme /\ (n + 1 \in Stops(h) <=> Separator(h[n + 1]))
  BY <1>0, SeparatorKinds
<1>2. CASE p.at = "name"
  BY <1>0, <1>2 DEF Within, Inside, Fine, IsExtension, Expected, IsToken
<1>3. CASE p.at = "list"
  <2>0. ~Separator(h[n + 1])
    BY <1>3 DEF Expected
  <2>1. CASE c \in Commas(h)
    <3>1. n = c + 1
      BY <1>3, <2>1, SeparatorNumbers DEF Within, Inside
    <3>2. c + 2 = n + 1
      BY <1>0, <3>1
    <3> QED
      BY <1>1, <2>0, <2>1, <3>2 DEF Fine, IsExtension
  <2>2. CASE c \notin Commas(h)
    <3>1. n = c + 3 /\ h[c + 2] = Equals
      BY <1>3, <2>2 DEF Within, Inside
    <3>2. c + 4 = n + 1 /\ c + 2 \in 1..Len(h)
      BY <1>0, <3>1
    <3>3. c + 2 \notin Stops(h) /\ c + 4 \notin Stops(h)
      BY <1>1, <2>0, <3>1, <3>2, SeparatorKinds
    <3> QED
      BY <2>2, <3>3 DEF Fine, IsParameter
  <2> QED
    BY <2>1, <2>2
<1>4. CASE p.at = "parameterName"
  <2>1. c \in Semicolons(h) /\ n = c
    BY <1>4 DEF Within, Inside
  <2> QED
    BY <1>4, <2>1, SeparatorNumbers DEF Fine, IsParameter, IsToken, Expected
<1>5. CASE p.at = "parameter"
  <2>0. ~Separator(h[n + 1]) /\ h[n + 1] # Equals
    BY <1>5 DEF Expected
  <2>1. c \in Semicolons(h) /\ n = c + 1
    BY <1>5 DEF Within, Inside
  <2>2. c + 2 = n + 1
    BY <1>0, <2>1
  <2> QED
    BY <1>1, <2>0, <2>1, <2>2, SeparatorNumbers DEF Fine, IsParameter
<1>6. CASE p.at = "value"
  <2>0. h[n + 1].kind \notin {"token", "quoted"}
    BY <1>6 DEF Expected
  <2>1. c \in Semicolons(h) /\ n = c + 2 /\ h[c + 2] = Equals
    BY <1>6 DEF Within, Inside
  <2>2. c + 3 = n + 1 /\ c + 2 \in 1..Len(h)
    BY <1>0, <2>1
  <2>3. c + 2 \notin Stops(h)
    BY <2>1, <2>2, SeparatorKinds
  <2> QED
    BY <2>0, <2>1, <2>2, <2>3, SeparatorNumbers DEF Fine, IsParameter, IsValue
<1>7. p.at # "failed"
  BY DEF Within, Inside
<1> QED
  BY <1>0, <1>2, <1>3, <1>4, <1>5, <1>6, <1>7 DEF Places

-----------------------------------------------------------------------------
(* The offers that the parser has read, and where *)

\* The members of S below n, in their order.
Lists(q, S, n) ==
    /\ q \in Seq(S)
    /\ \A i, j \in 1..Len(q) : i < j => q[i] < q[j]
    /\ \A x \in S : x < n <=> \E i \in 1..Len(q) : q[i] = x

\* A parameter is the one behind semicolon i, as far as n lexemes say it.
Described(h, n, i) == i + 3 <= n /\ h[i + 2] = Equals
Describes(h, n, par, i) ==
    /\ par.name = h[i + 1].text
    /\ IF Described(h, n, i) THEN par.hasValue /\ par.value = h[i + 3].text ELSE ~par.hasValue

\* Parameters ps are those behind q, and all that n lexemes give with the extension behind c.
Matches(h, n, c, ps, q) ==
    /\ Lists(q, Given(h, c), n) /\ Len(q) = Len(ps)
    /\ \A m \in 1..Len(ps) : Describes(h, n, ps[m], q[m])
Holds(h, n, c, ps) == \E q : Matches(h, n, c, ps, q)

\* The offers are those behind b, and all in n lexemes.
Content(h, n, offers, b) ==
    /\ Lists(b, Commas(h), n) /\ Len(b) = Len(offers)
    /\ \A k \in 1..Len(offers) :
        /\ offers[k].name = h[b[k] + 1].text
        /\ Holds(h, n, b[k], offers[k].parameters)

\* There are none.
LEMMA ListsNone ==
    ASSUME NEW S \in SUBSET Nat, NEW n, \A x \in S : ~(x < n) PROVE Lists(<<>>, S, n)
BY DEF Lists

\* Where there is no member, nothing is added.
LEMMA ListsStill ==
    ASSUME NEW S \in SUBSET Nat, NEW n \in Nat, NEW q, Lists(q, S, n), n \notin S
    PROVE  Lists(q, S, n + 1)
<1>1. ASSUME NEW x \in S PROVE x < n + 1 <=> x < n
  <2>1. x # n /\ x \in Nat
    BY <1>1
  <2> QED
    BY <2>1
<1> QED
  BY <1>1 DEF Lists

\* A member is added behind those before it.
LEMMA ListsMore ==
    ASSUME NEW S \in SUBSET Nat, NEW n \in S, NEW q, Lists(q, S, n)
    PROVE  Lists(Append(q, n), S, n + 1)
<1> DEFINE r == Append(q, n)
<1>1. /\ q \in Seq(S) /\ Len(q) \in Nat
      /\ \A i, j \in 1..Len(q) : i < j => q[i] < q[j]
      /\ \A x \in S : x < n <=> \E i \in 1..Len(q) : q[i] = x
  BY DEF Lists
<1>2. /\ r \in Seq(S) /\ Len(r) = Len(q) + 1
      /\ r[Len(q) + 1] = n /\ \A i \in 1..Len(q) : r[i] = q[i]
  BY <1>1
<1> HIDE DEF r
<1>3. ASSUME NEW i \in 1..Len(q) PROVE q[i] < n /\ q[i] \in Nat
  <2>1. q[i] \in S
    BY <1>1
  <2> QED
    BY <1>1, <2>1
<1>4. ASSUME NEW i \in 1..Len(r), NEW j \in 1..Len(r), i < j PROVE r[i] < r[j]
  <2>1. i \in 1..Len(q)
    BY <1>1, <1>2, <1>4
  <2>2. CASE j \in 1..Len(q)
    BY <1>1, <1>2, <1>4, <2>1, <2>2
  <2>3. CASE j = Len(q) + 1
    BY <1>2, <1>3, <2>1, <2>3
  <2> QED
    BY <1>1, <1>2, <2>2, <2>3
<1>5. ASSUME NEW x \in S PROVE x < n + 1 <=> \E i \in 1..Len(r) : r[i] = x
  <2>1. CASE x = n
    <3>1. Len(q) + 1 \in 1..Len(r) /\ r[Len(q) + 1] = x /\ x < n + 1
      BY <1>1, <1>2, <2>1
    <3> QED
      BY <3>1
  <2>2. CASE x # n
    <3>1. x < n + 1 <=> x < n
      BY <2>2
    <3>2. (\E i \in 1..Len(r) : r[i] = x) <=> \E i \in 1..Len(q) : q[i] = x
      <4>1. ASSUME NEW i \in 1..Len(r), r[i] = x PROVE i \in 1..Len(q) /\ q[i] = x
        <5>1. i # Len(q) + 1
          BY <1>2, <2>2, <4>1
        <5>2. i \in 1..Len(q)
          BY <1>1, <1>2, <5>1
        <5> QED
          BY <1>2, <4>1, <5>2
      <4>2. ASSUME NEW i \in 1..Len(q), q[i] = x PROVE i \in 1..Len(r) /\ r[i] = x
        BY <1>1, <1>2, <4>2
      <4> QED
        BY <4>1, <4>2
    <3> QED
      BY <1>1, <3>1, <3>2
  <2> QED
    BY <2>1, <2>2
<1>6. Lists(r, S, n + 1)
  BY <1>2, <1>4, <1>5 DEF Lists
<1> QED
  BY <1>6 DEF r

\* The last of a list is the greatest member, and no other is as great.
LEMMA ListsLast ==
    ASSUME NEW S \in SUBSET Nat, NEW n \in Nat, NEW q, Lists(q, S, n),
           NEW x \in S, x < n, \A y \in S : y < n => y <= x
    PROVE  /\ Len(q) \in Nat /\ Len(q) # 0 /\ q[Len(q)] = x
           /\ \A i \in 1..Len(q) : i # Len(q) => q[i] < x
<1>1. /\ q \in Seq(S) /\ Len(q) \in Nat
      /\ \A i, j \in 1..Len(q) : i < j => q[i] < q[j]
      /\ \A y \in S : y < n <=> \E i \in 1..Len(q) : q[i] = y
  BY DEF Lists
<1>2. PICK i \in 1..Len(q) : q[i] = x
  BY <1>1
<1>3. Len(q) \in 1..Len(q)
  BY <1>1, <1>2
<1>4. q[Len(q)] \in S /\ q[Len(q)] <= x /\ q[Len(q)] \in Nat /\ x \in Nat
  <2>1. PICK y : y = q[Len(q)]
    OBVIOUS
  <2>2. y \in S
    BY <1>1, <1>3, <2>1
  <2>3. y < n
    BY <1>1, <1>3, <2>1, <2>2
  <2> QED
    BY <2>1, <2>2, <2>3
<1>5. i = Len(q)
  <2>1. SUFFICES ASSUME i # Len(q) PROVE FALSE
    OBVIOUS
  <2>2. q[i] < q[Len(q)]
    BY <1>1, <1>2, <1>3, <2>1
  <2> QED
    BY <1>2, <1>4, <2>2
<1>6. ASSUME NEW j \in 1..Len(q), j # Len(q) PROVE q[j] < x
  <2>1. j < Len(q)
    BY <1>1, <1>6
  <2> QED
    BY <1>1, <1>2, <1>3, <1>5, <2>1
<1> QED
  BY <1>1, <1>2, <1>3, <1>5, <1>6

\* Lists are of numbers.
LEMMA GivenNumbers ==
    ASSUME NEW h \in Seq(Lexeme), NEW c
    PROVE  Given(h, c) \in SUBSET Nat /\ Commas(h) \in SUBSET Nat
BY SeparatorNumbers DEF Given

\* One lexeme more, unless it is a value or behind a separator.
LEMMA HoldsStill ==
    ASSUME NEW h \in Seq(Lexeme), NEW n \in 0..(Len(h) - 1), NEW c \in Commas(h), NEW ps,
           Holds(h, n, c, ps), n \notin Given(h, c),
           \A i \in Given(h, c) : ~(n = i + 2 /\ h[i + 2] = Equals)
    PROVE  Holds(h, n + 1, c, ps)
<1>1. PICK q : Matches(h, n, c, ps, q)
  BY DEF Holds
<1>2. Lists(q, Given(h, c), n) /\ Given(h, c) \in SUBSET Nat /\ Len(q) = Len(ps)
  BY <1>1, GivenNumbers DEF Matches
<1>3. Lists(q, Given(h, c), n + 1)
  BY <1>2, ListsStill
<1>4. ASSUME NEW m \in 1..Len(ps) PROVE Describes(h, n + 1, ps[m], q[m])
  <2>1. q[m] \in Given(h, c) /\ q[m] \in Nat
    BY <1>2 DEF Lists
  <2>2. PICK i : i = q[m]
    OBVIOUS
  <2>3. Described(h, n + 1, i) <=> Described(h, n, i)
    BY <2>1, <2>2 DEF Described
  <2> QED
    BY <1>1, <2>2, <2>3 DEF Matches, Describes
<1> QED
  BY <1>2, <1>3, <1>4 DEF Holds, Matches

\* The name of a parameter.
NewParameter(text) == [name |-> text, hasValue |-> FALSE, value |-> ""]

\* The parameter that this lexeme names.
LEMMA HoldsMore ==
    ASSUME NEW h \in Seq(Lexeme), NEW n \in 0..(Len(h) - 1), NEW c \in Commas(h),
           NEW ps \in Seq(Parameter), Holds(h, n, c, ps), n \in Given(h, c)
    PROVE  Holds(h, n + 1, c, Append(ps, NewParameter(h[n + 1].text)))
<1> DEFINE new == NewParameter(h[n + 1].text)
           rs == Append(ps, new)
<1>1. PICK q : Matches(h, n, c, ps, q)
  BY DEF Holds
<1>2. Lists(q, Given(h, c), n) /\ Given(h, c) \in SUBSET Nat /\ Len(q) = Len(ps) /\ q \in Seq(Given(h, c))
  BY <1>1, GivenNumbers DEF Matches, Lists
<1>3. PICK r : r = Append(q, n)
  OBVIOUS
<1>4. Lists(r, Given(h, c), n + 1)
  BY <1>2, <1>3, ListsMore
<1>5. /\ Len(r) = Len(ps) + 1 /\ r[Len(ps) + 1] = n /\ \A m \in 1..Len(ps) : r[m] = q[m]
  BY <1>2, <1>3
<1>6. /\ Len(rs) = Len(ps) + 1 /\ rs[Len(ps) + 1] = new /\ \A m \in 1..Len(ps) : rs[m] = ps[m]
      /\ Len(ps) \in Nat
  <2> HIDE DEF new
  <2>1. \A p : Len(Append(ps, p)) = Len(ps) + 1 /\ Append(ps, p)[Len(ps) + 1] = p
               /\ \A m \in 1..Len(ps) : Append(ps, p)[m] = ps[m]
    OBVIOUS
  <2> QED
    BY <2>1
<1>7. ~Described(h, n + 1, n)
  BY DEF Described
<1>8. Describes(h, n + 1, new, n)
  BY <1>7 DEF Describes, NewParameter
<1> HIDE DEF new, rs
<1>9. ASSUME NEW m \in 1..Len(rs) PROVE Describes(h, n + 1, rs[m], r[m])
  <2>1. CASE m = Len(ps) + 1
    BY <1>5, <1>6, <1>8, <2>1
  <2>2. CASE m # Len(ps) + 1
    <3>1. m \in 1..Len(ps)
      BY <1>6, <2>2
    <3>2. q[m] \in Given(h, c) /\ q[m] \in Nat /\ q[m] < n
      BY <1>2, <3>1 DEF Lists
    <3>3. PICK i : i = q[m]
      OBVIOUS
    <3>4. i \in 1..Len(h) /\ n \in 1..Len(h) /\ h[n] = Semicolon
      BY <3>2, <3>3, SeparatorNumbers DEF Given, Semicolons
    <3>5. Described(h, n + 1, i) <=> Described(h, n, i)
      <4>1. CASE n = i + 2
        BY <3>4, <4>1, Marks DEF Described
      <4>2. CASE n # i + 2
        BY <3>4, <4>2 DEF Described
      <4> QED
        BY <4>1, <4>2
    <3> QED
      BY <1>1, <1>5, <1>6, <3>1, <3>3, <3>5 DEF Matches, Describes
  <2> QED
    BY <2>1, <2>2
<1>10. Matches(h, n + 1, c, rs, r)
  BY <1>4, <1>5, <1>6, <1>9 DEF Matches
<1> QED
  BY <1>10 DEF Holds, rs, new

\* The value of the last parameter.
Valued(par, text) == [name |-> par.name, hasValue |-> TRUE, value |-> text]

\* The value that this lexeme is.
LEMMA HoldsValue ==
    ASSUME NEW h \in Seq(Lexeme), NEW n \in 0..(Len(h) - 1), NEW c \in Commas(h),
           NEW ps \in Seq(Parameter), Holds(h, n, c, ps),
           NEW x \in Given(h, c), n = x + 2, h[n] = Equals,
           \A y \in Given(h, c) : y <= n => y <= x
    PROVE  /\ Len(ps) # 0
           /\ \A rs : /\ Len(rs) = Len(ps) /\ rs[Len(ps)] = Valued(ps[Len(ps)], h[n + 1].text)
                      /\ \A m \in 1..Len(ps) : m # Len(ps) => rs[m] = ps[m]
                      => Holds(h, n + 1, c, rs)
<1>0. PICK S : S = Given(h, c)
  OBVIOUS
<1>1. PICK q : Matches(h, n, c, ps, q)
  BY DEF Holds
<1>2. Lists(q, S, n) /\ S \in SUBSET Nat /\ Len(q) = Len(ps) /\ q \in Seq(S) /\ n \in Nat /\ x \in Nat
  BY <1>0, <1>1, GivenNumbers DEF Matches, Lists
<1>3. x < n /\ x \in S /\ \A y \in S : y < n => y <= x
  BY <1>0, <1>2
<1>4. /\ Len(q) \in Nat /\ Len(q) # 0 /\ q[Len(q)] = x
      /\ \A i \in 1..Len(q) : i # Len(q) => q[i] < x
  BY <1>2, <1>3, ListsLast
<1>5. n \notin S
  BY <1>0, <1>2, <1>3
<1>6. Lists(q, S, n + 1)
  BY <1>2, <1>5, ListsStill
<1>7. ASSUME NEW rs, Len(rs) = Len(ps), rs[Len(ps)] = Valued(ps[Len(ps)], h[n + 1].text),
             \A m \in 1..Len(ps) : m # Len(ps) => rs[m] = ps[m]
      PROVE  Holds(h, n + 1, c, rs)
  <2>1. ASSUME NEW m \in 1..Len(rs) PROVE Describes(h, n + 1, rs[m], q[m])
    <3>0. Describes(h, n, ps[m], q[m])
      BY <1>1, <1>7, <2>1 DEF Matches
    <3>1. CASE m = Len(ps)
      <4>1. q[m] = x /\ x + 3 = n + 1 /\ h[x + 2] = Equals
        BY <1>2, <1>4, <3>1
      <4>2. Described(h, n + 1, x)
        BY <4>1, <1>2 DEF Described
      <4>3. ps[m].name = h[x + 1].text
        BY <3>0, <4>1 DEF Describes
      <4>4. /\ rs[m].name = ps[m].name /\ rs[m].hasValue /\ rs[m].value = h[x + 3].text
        BY <1>7, <3>1, <4>1 DEF Valued
      <4> QED
        BY <4>1, <4>2, <4>3, <4>4 DEF Describes
    <3>2. CASE m # Len(ps)
      <4>0. m \in 1..Len(q) /\ m # Len(q)
        BY <1>2, <1>7, <3>2
      <4>1. q[m] < x /\ q[m] \in Nat
        <5>1. q[m] \in S
          BY <1>2, <4>0
        <5> QED
          BY <1>2, <1>4, <4>0, <5>1
      <4>2. PICK i : i = q[m]
        OBVIOUS
      <4>3. Described(h, n + 1, i) <=> Described(h, n, i)
        BY <1>2, <4>1, <4>2 DEF Described
      <4>4. rs[m] = ps[m]
        BY <1>7, <3>2
      <4> QED
        BY <3>0, <4>2, <4>3, <4>4 DEF Describes
    <3> QED
      BY <3>1, <3>2
  <2>2. Matches(h, n + 1, c, rs, q)
    BY <1>0, <1>2, <1>6, <1>7, <2>1 DEF Matches
  <2> QED
    BY <2>2 DEF Holds
<1> QED
  BY <1>2, <1>4, <1>7

-----------------------------------------------------------------------------
(* Steps of the parser *)

\* What the parser does to the last offer.
LEMMA WithParameterAt ==
    ASSUME NEW offers \in Seq(Offer), Len(offers) # 0, NEW text \in STRING
    PROVE  LET r == WithParameter(offers, text)
               last == offers[Len(offers)]
           IN /\ r \in Seq(Offer) /\ Len(r) = Len(offers)
              /\ r[Len(offers)].name = last.name
              /\ r[Len(offers)].parameters = Append(last.parameters, NewParameter(text))
              /\ \A k \in 1..Len(offers) : k # Len(offers) => r[k] = offers[k]
<1> DEFINE last == offers[Len(offers)]
           ps == Append(last.parameters, NewParameter(text))
           new == [last EXCEPT !.parameters = ps]
<1>1. Len(offers) \in 1..Len(offers) /\ last \in Offer
  OBVIOUS
<1>2. NewParameter(text) \in Parameter
  <2>1. PICK e : e = ""
    OBVIOUS
  <2>2. text \in Text /\ e \in Text
    BY <2>1, Zenon DEF Text
  <2>3. NewParameter(text) = [name |-> text, hasValue |-> FALSE, value |-> e]
    BY <2>1, Zenon DEF NewParameter
  <2> QED
    BY <2>2, <2>3 DEF Parameter
<1>3. ps \in Seq(Parameter)
  BY <1>1, <1>2 DEF Offer
<1>4. WithParameter(offers, text) = [offers EXCEPT ![Len(offers)] = new]
  BY DEF WithParameter, NewParameter
<1> HIDE DEF ps
<1>5. new \in Offer /\ new.name = last.name /\ new.parameters = ps
  BY <1>1, <1>3 DEF Offer
<1> HIDE DEF new, last
<1> QED
  BY <1>1, <1>4, <1>5 DEF ps, last

\* And to its last parameter.
LEMMA WithValueAt ==
    ASSUME NEW offers \in Seq(Offer), Len(offers) # 0, NEW text \in STRING,
           Len(offers[Len(offers)].parameters) # 0
    PROVE  LET r == WithValue(offers, text)
               ps == offers[Len(offers)].parameters
               rs == r[Len(offers)].parameters
           IN /\ r \in Seq(Offer) /\ Len(r) = Len(offers)
              /\ r[Len(offers)].name = offers[Len(offers)].name
              /\ Len(rs) = Len(ps) /\ rs[Len(ps)] = Valued(ps[Len(ps)], text)
              /\ \A m \in 1..Len(ps) : m # Len(ps) => rs[m] = ps[m]
              /\ \A k \in 1..Len(offers) : k # Len(offers) => r[k] = offers[k]
<1> DEFINE last == offers[Len(offers)]
           ps == last.parameters
           value == Valued(ps[Len(ps)], text)
           rs == [ps EXCEPT ![Len(ps)] = value]
           new == [last EXCEPT !.parameters = rs]
<1>1. Len(offers) \in 1..Len(offers) /\ last \in Offer
  OBVIOUS
<1>2. ps \in Seq(Parameter) /\ Len(ps) \in 1..Len(ps)
  <2>1. ps \in Seq(Parameter)
    BY <1>1 DEF Offer
  <2> HIDE DEF last
  <2> QED
    BY <2>1 DEF last
<1>3. value \in Parameter
  <2>1. ps[Len(ps)] \in Parameter
    BY <1>2
  <2> HIDE DEF last
  <2>2. text \in Text
    BY Zenon DEF Text
  <2> QED
    BY <2>1, <2>2 DEF Valued, Parameter
<1>4. WithValue(offers, text) = [offers EXCEPT ![Len(offers)] = new]
  BY DEF WithValue, Valued
<1> HIDE DEF value, last
<1>5. /\ rs \in Seq(Parameter) /\ Len(rs) = Len(ps) /\ rs[Len(ps)] = value
      /\ \A m \in 1..Len(ps) : m # Len(ps) => rs[m] = ps[m]
  <2>1. PICK s : s = ps
    OBVIOUS
  <2>2. s \in Seq(Parameter) /\ Len(s) \in 1..Len(s)
    BY <1>2, <2>1
  <2>3. PICK t : t = [s EXCEPT ![Len(s)] = value]
    OBVIOUS
  <2>4. /\ t \in Seq(Parameter) /\ Len(t) = Len(s) /\ t[Len(s)] = value
        /\ \A m \in 1..Len(s) : m # Len(s) => t[m] = s[m]
    BY <1>3, <2>2, <2>3
  <2> QED
    BY <2>1, <2>3, <2>4
<1> HIDE DEF rs
<1>6. new \in Offer /\ new.name = last.name /\ new.parameters = rs
  BY <1>1, <1>5 DEF Offer
<1> HIDE DEF new
<1> QED
  BY <1>1, <1>4, <1>5, <1>6 DEF value, last

-----------------------------------------------------------------------------
(* A lexeme more *)

\* A separator or an equals sign adds nothing to the offers.
LEMMA ContentSame ==
    ASSUME NEW h \in Seq(Lexeme), NEW n \in 0..(Len(h) - 1), NEW offers, NEW b,
           Content(h, n, offers, b), n # 0, h[n].kind \in {"token", "quoted"}
    PROVE  Content(h, n + 1, offers, b)
<1>1. n \in 1..Len(h)
  OBVIOUS
<1>2. n \notin Commas(h) /\ n \notin Semicolons(h) /\ h[n] # Equals
  BY <1>1, SeparatorKinds DEF Separators
<1>3. Lists(b, Commas(h), n + 1)
  BY <1>2, GivenNumbers, ListsStill DEF Content
<1>4. ASSUME NEW k \in 1..Len(offers) PROVE Holds(h, n + 1, b[k], offers[k].parameters)
  <2>1. PICK c : c = b[k]
    OBVIOUS
  <2>2. PICK ps : ps = offers[k].parameters
    OBVIOUS
  <2>3. c \in Commas(h) /\ Holds(h, n, c, ps)
    BY <2>1, <2>2 DEF Content, Lists
  <2>4. n \notin Given(h, c) /\ \A i \in Given(h, c) : ~(n = i + 2 /\ h[i + 2] = Equals)
    BY <1>2 DEF Given
  <2> QED
    BY <2>1, <2>2, <2>3, <2>4, HoldsStill
<1> QED
  BY <1>3, <1>4 DEF Content

\* The name of an extension begins an offer.
LEMMA ContentName ==
    ASSUME NEW h \in Seq(Lexeme), NEW n \in 0..(Len(h) - 1), NEW offers \in Seq(Offer), NEW b,
           Content(h, n, offers, b), n \in Commas(h)
    PROVE  Content(h, n + 1, Append(offers, NoParameters(h[n + 1])), Append(b, n))
<1>1. PICK new : new = NoParameters(h[n + 1])
  OBVIOUS
<1>2. new.name = h[n + 1].text /\ new.parameters = <<>>
  BY <1>1 DEF NoParameters
<1>3. PICK r : r = Append(offers, new)
  OBVIOUS
<1>4. /\ Len(r) = Len(offers) + 1 /\ r[Len(offers) + 1] = new /\ Len(offers) \in Nat
      /\ \A k \in 1..Len(offers) : r[k] = offers[k]
  BY <1>3
<1>5. Lists(b, Commas(h), n) /\ Len(b) = Len(offers) /\ b \in Seq(Commas(h))
  BY DEF Content, Lists
<1>6. PICK d : d = Append(b, n)
  OBVIOUS
<1>7. Lists(d, Commas(h), n + 1)
  BY <1>5, <1>6, GivenNumbers, ListsMore
<1>8. /\ Len(d) = Len(r) /\ d[Len(offers) + 1] = n
      /\ \A k \in 1..Len(offers) : d[k] = b[k]
  BY <1>4, <1>5, <1>6
<1>9. n \notin Semicolons(h) /\ (n # 0 => h[n] # Equals)
  BY Marks, SeparatorNumbers DEF Commas
<1>10. ASSUME NEW k \in 1..Len(r)
       PROVE  r[k].name = h[d[k] + 1].text /\ Holds(h, n + 1, d[k], r[k].parameters)
  <2>1. CASE k = Len(offers) + 1
    <3>1. \A i \in Given(h, n) : ~(i < n + 1)
      BY SeparatorNumbers DEF Given
    <3>2. Lists(<<>>, Given(h, n), n + 1)
      BY <3>1, GivenNumbers, ListsNone
    <3>3. Matches(h, n + 1, n, <<>>, <<>>)
      BY <3>2 DEF Matches
    <3>4. Holds(h, n + 1, n, <<>>)
      BY <3>3 DEF Holds
    <3>5. r[k] = new /\ d[k] = n
      BY <1>4, <1>8, <2>1
    <3> QED
      BY <1>2, <3>4, <3>5
  <2>2. CASE k # Len(offers) + 1
    <3>0. k \in 1..Len(offers)
      BY <1>4, <2>2
    <3>1. PICK c : c = b[k]
      OBVIOUS
    <3>2. PICK ps : ps = offers[k].parameters
      OBVIOUS
    <3>3. c \in Commas(h) /\ Holds(h, n, c, ps) /\ offers[k].name = h[b[k] + 1].text
      BY <1>5, <3>0, <3>1, <3>2 DEF Content, Lists
    <3>4. n \notin Given(h, c) /\ \A i \in Given(h, c) : ~(n = i + 2 /\ h[i + 2] = Equals)
      BY <1>9, SeparatorNumbers DEF Given
    <3>5. Holds(h, n + 1, c, ps)
      BY <3>3, <3>4, HoldsStill
    <3> QED
      BY <1>4, <1>8, <3>0, <3>1, <3>2, <3>3, <3>5
  <2> QED
    BY <2>1, <2>2
<1>11. Content(h, n + 1, r, d)
  BY <1>7, <1>8, <1>10 DEF Content
<1> QED
  BY <1>1, <1>3, <1>6, <1>11

\* The last offer is behind the last comma.
LEMMA LastOffer ==
    ASSUME NEW h \in Seq(Lexeme), NEW n \in 1..Len(h), NEW offers \in Seq(Offer), NEW b,
           Content(h, n, offers, b)
    PROVE  /\ Len(offers) # 0 /\ b[Len(offers)] \in Commas(h) /\ b[Len(offers)] < n
           /\ \A y \in Commas(h) : y < n => y <= b[Len(offers)]
           /\ \A k \in 1..Len(offers) :
                /\ b[k] \in Commas(h)
                /\ k # Len(offers) => b[k] < b[Len(offers)]
<1>0. PICK S : S = Commas(h)
  OBVIOUS
<1>1. Lists(b, S, n) /\ Len(b) = Len(offers) /\ S \in SUBSET Nat /\ 0 \in S /\ Len(offers) \in Nat
  BY <1>0, GivenNumbers, SeparatorNumbers DEF Content
<1>2. PICK i \in 1..Len(b) : b[i] = 0
  <2>1. 0 < n
    OBVIOUS
  <2> QED
    BY <1>1, <2>1 DEF Lists
<1>3. Len(b) \in 1..Len(b)
  BY <1>1, <1>2
<1>4. \A k \in 1..Len(b) : b[k] \in S /\ b[k] < n /\ b[k] \in Nat
  <2>1. \A k \in 1..Len(b) : b[k] \in S
    BY <1>1 DEF Lists
  <2> QED
    BY <1>1, <2>1 DEF Lists
<1>5. \A k \in 1..Len(b) : k # Len(b) => b[k] < b[Len(b)]
  <2>1. \A k \in 1..Len(b) : k # Len(b) => k < Len(b)
    BY <1>1
  <2> QED
    BY <1>1, <1>3, <2>1 DEF Lists
<1>6. ASSUME NEW y \in S, y < n PROVE y <= b[Len(b)]
  <2>1. PICK k \in 1..Len(b) : b[k] = y
    BY <1>1, <1>6 DEF Lists
  <2> QED
    BY <1>3, <1>4, <1>5, <2>1
<1> QED
  BY <1>0, <1>1, <1>3, <1>4, <1>5, <1>6

\* The name of a parameter is added to the last offer.
LEMMA ContentParameter ==
    ASSUME NEW h \in Seq(Lexeme), NEW n \in 0..(Len(h) - 1), NEW offers \in Seq(Offer), NEW b,
           Content(h, n, offers, b), n \in Semicolons(h)
    PROVE  LET r == WithParameter(offers, h[n + 1].text)
           IN r \in Seq(Offer) /\ Content(h, n + 1, r, b)
<1>1. n \in 1..Len(h) /\ n + 1 \in 1..Len(h) /\ n \notin Commas(h)
  BY SeparatorNumbers
<1>2. PICK x : x = b[Len(offers)]
  OBVIOUS
<1>3. /\ Len(offers) # 0 /\ x \in Commas(h) /\ x < n
      /\ \A y \in Commas(h) : y < n => y <= x
      /\ \A k \in 1..Len(offers) : b[k] \in Commas(h) /\ (k # Len(offers) => b[k] < x)
  BY <1>1, <1>2, LastOffer
<1>4. Commas(h) \in SUBSET Nat /\ Len(offers) \in 1..Len(offers)
  BY <1>3, GivenNumbers
<1>5. PICK text : text = h[n + 1].text
  OBVIOUS
<1>6. text \in STRING
  <2>1. h[n + 1] \in Lexeme
    BY <1>1
  <2> QED
    BY <1>5, <2>1 DEF Lexeme
<1>7. PICK r : r = WithParameter(offers, text)
  OBVIOUS
<1>8. PICK ps : ps = offers[Len(offers)].parameters
  OBVIOUS
<1>9. /\ r \in Seq(Offer) /\ Len(r) = Len(offers)
      /\ r[Len(offers)].name = offers[Len(offers)].name
      /\ r[Len(offers)].parameters = Append(ps, NewParameter(text))
      /\ \A k \in 1..Len(offers) : k # Len(offers) => r[k] = offers[k]
  BY <1>3, <1>6, <1>7, <1>8, WithParameterAt
<1>10. n \in Given(h, x) /\ \A k \in 1..Len(offers) : k # Len(offers) => n \notin Given(h, b[k])
  <2>1. ASSUME NEW d \in Commas(h) PROVE ~(x < d /\ d < n)
    BY <1>3, <1>4
  <2>2. n \in Given(h, x)
    BY <1>3, <2>1 DEF Given
  <2> QED
    BY <1>3, <2>2 DEF Given
<1>11. Lists(b, Commas(h), n + 1) /\ Len(b) = Len(r)
  BY <1>1, <1>4, <1>9, ListsStill DEF Content
<1>12. ASSUME NEW k \in 1..Len(r)
       PROVE  r[k].name = h[b[k] + 1].text /\ Holds(h, n + 1, b[k], r[k].parameters)
  <2>1. CASE k = Len(offers)
    <3>1. Holds(h, n, x, ps) /\ r[k].name = h[b[k] + 1].text
      BY <1>2, <1>4, <1>8, <1>9, <2>1 DEF Content
    <3>2. ps \in Seq(Parameter)
      <4>1. offers[Len(offers)] \in Offer
        BY <1>4
      <4> QED
        BY <1>8, <4>1 DEF Offer
    <3>3. Holds(h, n + 1, x, Append(ps, NewParameter(text)))
      BY <1>3, <1>5, <1>10, <3>1, <3>2, HoldsMore
    <3> QED
      BY <1>2, <1>9, <2>1, <3>1, <3>3
  <2>2. CASE k # Len(offers)
    <3>1. PICK c : c = b[k]
      OBVIOUS
    <3>2. PICK qs : qs = offers[k].parameters
      OBVIOUS
    <3>3. c \in Commas(h) /\ Holds(h, n, c, qs) /\ offers[k].name = h[b[k] + 1].text
      BY <1>3, <1>9, <3>1, <3>2 DEF Content
    <3>4. n \notin Given(h, c)
      BY <1>9, <1>10, <2>2, <3>1
    <3>5. \A i \in Given(h, c) : ~(n = i + 2 /\ h[i + 2] = Equals)
      BY <1>1, Marks DEF Semicolons
    <3>6. Holds(h, n + 1, c, qs)
      BY <3>3, <3>4, <3>5, HoldsStill
    <3> QED
      BY <1>9, <2>2, <3>1, <3>2, <3>3, <3>6
  <2> QED
    BY <2>1, <2>2
<1>13. Content(h, n + 1, r, b)
  BY <1>11, <1>12 DEF Content
<1> QED
  BY <1>5, <1>7, <1>9, <1>13

\* A value is given to the last parameter of the last offer.
LEMMA ContentValue ==
    ASSUME NEW h \in Seq(Lexeme), NEW n \in 0..(Len(h) - 1), NEW offers \in Seq(Offer), NEW b,
           Content(h, n, offers, b), NEW s, Within(h, n, "value", s)
    PROVE  LET r == WithValue(offers, h[n + 1].text)
           IN r \in Seq(Offer) /\ Content(h, n + 1, r, b)
<1>0. /\ s \in Semicolons(h) /\ n = s + 2 /\ h[s + 2] = Equals
      /\ \A d \in Separators(h) : d <= n => d <= s
  BY DEF Within, Inside
<1>1. /\ s \in 1..Len(h) /\ n \in 1..Len(h) /\ n + 1 \in 1..Len(h)
      /\ n \notin Commas(h) /\ n \notin Semicolons(h) /\ s \notin Commas(h)
  <2>1. s \in 1..Len(h) /\ n \in 1..Len(h) /\ n + 1 \in 1..Len(h) /\ s \notin Commas(h)
    BY <1>0, SeparatorNumbers
  <2>2. ~Separator(h[n])
    BY <1>0, <2>1, SeparatorKinds
  <2> QED
    BY <2>1, <2>2, SeparatorKinds DEF Separators
<1>2. PICK x : x = b[Len(offers)]
  OBVIOUS
<1>3. /\ Len(offers) # 0 /\ x \in Commas(h) /\ x < n
      /\ \A y \in Commas(h) : y < n => y <= x
      /\ \A k \in 1..Len(offers) : b[k] \in Commas(h) /\ (k # Len(offers) => b[k] < x)
  BY <1>1, <1>2, LastOffer
<1>4. Commas(h) \in SUBSET Nat /\ Len(offers) \in 1..Len(offers)
  BY <1>3, GivenNumbers
<1>5. PICK text : text = h[n + 1].text
  OBVIOUS
<1>6. text \in STRING
  <2>1. h[n + 1] \in Lexeme
    BY <1>1
  <2> QED
    BY <1>5, <2>1 DEF Lexeme
<1>7. PICK r : r = WithValue(offers, text)
  OBVIOUS
<1>8. PICK ps : ps = offers[Len(offers)].parameters
  OBVIOUS
<1>9. /\ Holds(h, n, x, ps) /\ offers[Len(offers)].name = h[x + 1].text /\ ps \in Seq(Parameter)
  <2>1. Holds(h, n, x, ps) /\ offers[Len(offers)].name = h[x + 1].text
    BY <1>2, <1>4, <1>8 DEF Content
  <2>2. offers[Len(offers)] \in Offer
    BY <1>4
  <2> QED
    BY <1>8, <2>1, <2>2 DEF Offer
<1>10. x < s
  <2>1. x <= s /\ x # s
    BY <1>0, <1>1, <1>3, <1>4 DEF Separators
  <2> QED
    BY <1>1, <1>4, <1>3, <2>1
<1>11. s \in Given(h, x) /\ \A k \in 1..Len(offers) : k # Len(offers) => s \notin Given(h, b[k])
  <2>1. ASSUME NEW d \in Commas(h) PROVE ~(x < d /\ d < s)
    BY <1>0, <1>1, <1>3, <1>4
  <2>2. s \in Given(h, x)
    BY <1>0, <1>10, <2>1 DEF Given
  <2> QED
    BY <1>3, <1>10, <2>2 DEF Given
<1>12. \A y \in Given(h, x) : y <= n => y <= s
  BY <1>0 DEF Given, Separators
<1>13. /\ Len(ps) # 0
       /\ \A rs : /\ Len(rs) = Len(ps) /\ rs[Len(ps)] = Valued(ps[Len(ps)], text)
                  /\ \A m \in 1..Len(ps) : m # Len(ps) => rs[m] = ps[m]
                  => Holds(h, n + 1, x, rs)
  <2>1. h[n] = Equals
    BY <1>0
  <2> QED
    BY <1>0, <1>3, <1>5, <1>9, <1>11, <1>12, <2>1, HoldsValue
<1>14. PICK rs : rs = r[Len(offers)].parameters
  OBVIOUS
<1>15. /\ r \in Seq(Offer) /\ Len(r) = Len(offers)
       /\ r[Len(offers)].name = offers[Len(offers)].name
       /\ Len(rs) = Len(ps) /\ rs[Len(ps)] = Valued(ps[Len(ps)], text)
       /\ \A m \in 1..Len(ps) : m # Len(ps) => rs[m] = ps[m]
       /\ \A k \in 1..Len(offers) : k # Len(offers) => r[k] = offers[k]
  BY <1>3, <1>6, <1>7, <1>8, <1>13, <1>14, WithValueAt
<1>16. Lists(b, Commas(h), n + 1) /\ Len(b) = Len(r)
  <2>1. Lists(b, Commas(h), n) /\ Len(b) = Len(offers)
    BY DEF Content
  <2> QED
    BY <1>1, <1>4, <1>15, <2>1, ListsStill
<1>17. ASSUME NEW k \in 1..Len(r)
       PROVE  r[k].name = h[b[k] + 1].text /\ Holds(h, n + 1, b[k], r[k].parameters)
  <2>1. CASE k = Len(offers)
    <3>1. Holds(h, n + 1, x, rs)
      BY <1>13, <1>15
    <3> QED
      BY <1>2, <1>9, <1>14, <1>15, <2>1, <3>1
  <2>2. CASE k # Len(offers)
    <3>1. PICK c : c = b[k]
      OBVIOUS
    <3>2. PICK qs : qs = offers[k].parameters
      OBVIOUS
    <3>3. c \in Commas(h) /\ Holds(h, n, c, qs) /\ offers[k].name = h[b[k] + 1].text
      BY <1>3, <1>15, <3>1, <3>2 DEF Content
    <3>4. n \notin Given(h, c)
      BY <1>1 DEF Given
    <3>5. ASSUME NEW i \in Given(h, c) PROVE ~(n = i + 2 /\ h[i + 2] = Equals)
      <4>1. i # s /\ i \in Nat
        BY <1>11, <1>15, <2>2, <3>1, GivenNumbers
      <4> QED
        BY <1>0, <1>1, <4>1
    <3>6. Holds(h, n + 1, c, qs)
      BY <3>3, <3>4, <3>5, HoldsStill
    <3> QED
      BY <1>15, <2>2, <3>1, <3>2, <3>3, <3>6
  <2> QED
    BY <2>1, <2>2
<1>18. Content(h, n + 1, r, b)
  BY <1>16, <1>17 DEF Content
<1> QED
  BY <1>5, <1>7, <1>15, <1>18

-----------------------------------------------------------------------------
(* What the parser knows when it has read n lexemes *)

Sound(h, n, p) ==
    /\ p \in Parser /\ Syntax(h, n, p.at)
    /\ p.at # "failed" => \E b : Content(h, n, p.offers, b)

\* Nothing has been read.
LEMMA SoundStart == ASSUME NEW h \in Seq(Lexeme) PROVE Sound(h, 0, Start)
<1>1. Start \in Parser /\ Start.at = "name" /\ Start.offers = <<>>
  BY DEF Start, Parser, Places
<1>2. Within(h, 0, "name", 0)
  BY SeparatorNumbers DEF Within, Inside
<1>3. Content(h, 0, <<>>, <<>>)
  <2>1. Lists(<<>>, Commas(h), 0)
    <3>1. \A x \in Commas(h) : ~(x < 0)
      BY GivenNumbers
    <3> QED
      BY <3>1, GivenNumbers, ListsNone
  <2> QED
    BY <2>1 DEF Content
<1> QED
  BY <1>1, <1>2, <1>3 DEF Sound, Syntax

\* The parser goes on, in the same piece or at the beginning of the next.
LEMMA SoundNext ==
    ASSUME NEW h \in Seq(Lexeme), NEW n \in 0..(Len(h) - 1), NEW p, Sound(h, n, p)
    PROVE  Sound(h, n + 1, Read(p, h[n + 1]))
<1>0. PICK l : l = h[n + 1]
  OBVIOUS
<1>1. /\ p \in Parser /\ p.at \in Places /\ p.offers \in Seq(Offer)
      /\ n + 1 \in 1..Len(h) /\ l \in Lexeme
  BY <1>0 DEF Sound, Parser
<1>2. CASE ~Expected(p, l)
  <2>1. PICK q : q = Read(p, l)
    OBVIOUS
  <2>2. q.at = "failed" /\ q \in Parser
    BY <1>1, <1>2, <2>1, ReadOther DEF Parser, Places
  <2>3. \E c \in Separators(h) : ~Fine(h, c)
    <3>1. CASE p.at = "failed"
      BY <3>1 DEF Sound, Syntax
    <3>2. CASE p.at # "failed"
      <4>1. PICK c : Within(h, n, p.at, c)
        BY <3>2 DEF Sound, Syntax
      <4>2. ~Fine(h, c)
        BY <1>0, <1>1, <1>2, <4>1, NotFine
      <4> QED
        BY <4>1, <4>2 DEF Within
    <3> QED
      BY <3>1, <3>2
  <2> QED
    BY <1>0, <2>1, <2>2, <2>3 DEF Sound, Syntax
<1>3. CASE Expected(p, l)
  <2>0. p.at # "failed"
    BY <1>3 DEF Expected
  <2>1. PICK c : Within(h, n, p.at, c)
    BY <2>0 DEF Sound, Syntax
  <2>2. PICK b : Content(h, n, p.offers, b)
    BY <2>0 DEF Sound
  <2>3. ASSUME NEW at \in Places, at # "failed", NEW offers \in Seq(Offer),
               Read(p, l) = [at |-> at, offers |-> offers],
               \E d : Within(h, n + 1, at, d), \E d : Content(h, n + 1, offers, d)
        PROVE  Sound(h, n + 1, Read(p, h[n + 1]))
    BY <1>0, <2>3 DEF Sound, Syntax, Parser
  <2>a. c \in Separators(h) /\ Inside(h, n, p.at, c) /\ c \in 0..n
    BY <2>1, SeparatorNumbers DEF Within
  <2>4. CASE p.at = "name" /\ l.kind = "token"
    <3>1. c \in Commas(h) /\ n = c
      BY <2>4, <2>a DEF Inside
    <3>2. ~Separator(l)
      BY <1>0, <1>1, <2>4, SeparatorKinds
    <3>3. Inside(h, n + 1, "list", c)
      BY <1>0, <1>1, <2>4, <3>1 DEF Inside, IsToken
    <3>4. Within(h, n + 1, "list", c)
      BY <1>0, <2>1, <3>2, <3>3, SamePiece
    <3>5. Content(h, n + 1, Append(p.offers, NoParameters(l)), Append(b, n))
      BY <1>0, <1>1, <2>2, <3>1, ContentName
    <3>6. Append(p.offers, NoParameters(l)) \in Seq(Offer)
      <4>1. l.text \in Text
        <5>1. l.text \in STRING
          BY <1>1 DEF Lexeme
        <5> QED
          BY <5>1, Zenon DEF Text
      <4>2. NoParameters(l) \in Offer
        BY <4>1 DEF NoParameters, Offer
      <4> QED
        BY <1>1, <4>2
    <3>7. Read(p, l) = [at |-> "list", offers |-> Append(p.offers, NoParameters(l))]
      BY <1>1, <2>4, ReadName
    <3>8. "list" \in Places /\ "list" # "failed"
      BY DEF Places
    <3> QED
      BY <2>3, <3>4, <3>5, <3>6, <3>7, <3>8
  <2>5. CASE p.at \in {"list", "parameter"} /\ Separator(l)
    <3>1. n # 0 /\ h[n].kind \in {"token", "quoted"}
      BY <2>5, <2>a DEF Inside, IsToken, IsValue
    <3>2. Content(h, n + 1, p.offers, b)
      BY <2>2, <3>1, ContentSame
    <3>3. \A new \in Places : Inside(h, n + 1, new, n + 1) => Within(h, n + 1, new, n + 1)
      BY <1>0, <2>1, <2>5, NextPiece
    <3>4. CASE l = Comma
      <4>1. Inside(h, n + 1, "name", n + 1)
        <5>1. n + 1 \in Commas(h)
          BY <1>0, <1>1, <3>4, SeparatorKinds
        <5> QED
          BY <5>1 DEF Inside
      <4>2. "name" \in Places /\ "name" # "failed"
        BY DEF Places
      <4>3. Read(p, l) = [at |-> "name", offers |-> p.offers]
        BY <1>1, <2>5, <3>4, ReadComma
      <4> QED
        BY <1>1, <2>3, <3>2, <3>3, <4>1, <4>2, <4>3
    <3>5. CASE l = Semicolon
      <4>1. Inside(h, n + 1, "parameterName", n + 1)
        <5>1. n + 1 \in Semicolons(h)
          BY <1>0, <1>1, <3>5, SeparatorKinds
        <5> QED
          BY <5>1 DEF Inside
      <4>2. "parameterName" \in Places /\ "parameterName" # "failed"
        BY DEF Places
      <4>3. Read(p, l) = [at |-> "parameterName", offers |-> p.offers]
        BY <1>1, <2>5, <3>5, ReadSemicolon
      <4> QED
        BY <1>1, <2>3, <3>2, <3>3, <4>1, <4>2, <4>3
    <3> QED
      BY <2>5, <3>4, <3>5 DEF Separator
  <2>6. CASE p.at = "parameterName" /\ l.kind = "token"
    <3>1. c \in Semicolons(h) /\ n = c
      BY <2>6, <2>a DEF Inside
    <3>2. ~Separator(l)
      BY <1>0, <1>1, <2>6, SeparatorKinds
    <3>3. Inside(h, n + 1, "parameter", c)
      BY <1>0, <1>1, <2>6, <3>1 DEF Inside, IsToken
    <3>4. Within(h, n + 1, "parameter", c)
      BY <1>0, <2>1, <3>2, <3>3, SamePiece
    <3>5. /\ WithParameter(p.offers, l.text) \in Seq(Offer)
          /\ Content(h, n + 1, WithParameter(p.offers, l.text), b)
      BY <1>0, <1>1, <2>2, <3>1, ContentParameter
    <3>6. Read(p, l) = [at |-> "parameter", offers |-> WithParameter(p.offers, l.text)]
      BY <1>1, <2>6, ReadParameterName
    <3>7. "parameter" \in Places /\ "parameter" # "failed"
      BY DEF Places
    <3> QED
      BY <2>3, <3>4, <3>5, <3>6, <3>7
  <2>7. CASE p.at = "parameter" /\ l = Equals
    <3>1. c \in Semicolons(h) /\ n = c + 1 /\ IsToken(h, c + 1)
      BY <2>7, <2>a DEF Inside
    <3>2. ~Separator(l)
      BY <1>0, <1>1, <2>7, SeparatorKinds
    <3>3. Inside(h, n + 1, "value", c)
      <4>1. c + 2 = n + 1
        BY <2>a, <3>1
      <4> QED
        BY <1>0, <2>7, <3>1, <4>1 DEF Inside
    <3>4. Within(h, n + 1, "value", c)
      BY <1>0, <2>1, <3>2, <3>3, SamePiece
    <3>5. Content(h, n + 1, p.offers, b)
      <4>1. n # 0 /\ h[n].kind \in {"token", "quoted"}
        BY <2>a, <3>1 DEF IsToken
      <4> QED
        BY <2>2, <4>1, ContentSame
    <3>6. Read(p, l) = [at |-> "value", offers |-> p.offers]
      BY <1>1, <2>7, ReadEquals
    <3>7. "value" \in Places /\ "value" # "failed"
      BY DEF Places
    <3> QED
      BY <1>1, <2>3, <3>4, <3>5, <3>6, <3>7
  <2>8. CASE p.at = "value" /\ l.kind \in {"token", "quoted"}
    <3>1. c \in Semicolons(h) /\ n = c + 2 /\ IsToken(h, c + 1) /\ h[c + 2] = Equals
      BY <2>8, <2>a DEF Inside
    <3>2. ~Separator(l)
      BY <1>0, <1>1, <2>8, SeparatorKinds
    <3>3. Inside(h, n + 1, "list", c)
      <4>1. c + 3 = n + 1
        BY <2>a, <3>1
      <4>2. IsValue(h, c + 3)
        BY <1>0, <1>1, <2>8, <4>1 DEF IsValue
      <4> QED
        BY <3>1, <4>1, <4>2 DEF Inside
    <3>4. Within(h, n + 1, "list", c)
      BY <1>0, <2>1, <3>2, <3>3, SamePiece
    <3>5. /\ WithValue(p.offers, l.text) \in Seq(Offer)
          /\ Content(h, n + 1, WithValue(p.offers, l.text), b)
      BY <1>0, <1>1, <2>1, <2>2, <2>8, ContentValue
    <3>6. Read(p, l) = [at |-> "list", offers |-> WithValue(p.offers, l.text)]
      BY <1>1, <2>8, ReadValue
    <3>7. "list" \in Places /\ "list" # "failed"
      BY DEF Places
    <3> QED
      BY <2>3, <3>4, <3>5, <3>6, <3>7
  <2> QED
    BY <1>3, <2>4, <2>5, <2>6, <2>7, <2>8 DEF Expected
<1> QED
  BY <1>2, <1>3

\* The whole header has been read.
LEMMA ReadingSound == ASSUME NEW h \in Seq(Lexeme) PROVE Sound(h, Len(h), Reading(h))
<1>1. PICK f : /\ f[0] = Start /\ Reading(h) = f[Len(h)]
               /\ \A k \in 1..Len(h) : f[k] = Read(f[k - 1], h[k])
  BY ReadingSteps
<1>2. PICK S : S = {k \in 0..Len(h) : Sound(h, k, f[k])}
  OBVIOUS
<1>3. 0 \in S
  BY <1>1, <1>2, SoundStart
<1>4. ASSUME NEW k \in 0..(Len(h) - 1), k \in S PROVE k + 1 \in S
  <2>1. f[k + 1] = Read(f[k], h[k + 1])
    <3>1. k + 1 \in 1..Len(h) /\ (k + 1) - 1 = k
      OBVIOUS
    <3> QED
      BY <1>1, <3>1
  <2>2. Sound(h, k + 1, f[k + 1])
    BY <1>2, <1>4, <2>1, SoundNext
  <2> QED
    BY <1>2, <2>2
<1>5. 0..Len(h) \subseteq S
  BY <1>3, <1>4, UpTo
<1> QED
  BY <1>1, <1>2, <1>5

-----------------------------------------------------------------------------
(* The parser accepts what the grammar does *)

\* A header is right if its pieces are.
LEMMA HeaderPieces ==
    ASSUME NEW h \in Seq(Lexeme), h # <<>>
    PROVE  IsHeader(h) <=> \A c \in Separators(h) : Fine(h, c)
BY SeparatorNumbers DEF IsHeader, Separators, Fine

\* The parser accepts a header if and only if the grammar does.
LEMMA ParsesHeader == ASSUME NEW h \in Seq(Lexeme) PROVE Parses(h) <=> IsHeader(h)
<1>1. CASE h = <<>>
  BY <1>1 DEF Parses, IsHeader
<1>2. CASE h # <<>>
  <2> DEFINE p == Reading(h)
  <2>1. Sound(h, Len(h), p)
    BY ReadingSound
  <2>2. Parses(h) <=> p.at \in {"list", "parameter"}
    BY <1>2 DEF Parses
  <2>3. Len(h) \in Nat /\ Len(h) # 0
    BY <1>2
  <2> HIDE DEF p
  <2>4. p.at \in Places
    BY <2>1 DEF Sound, Parser
  <2>5. CASE p.at = "failed"
    BY <1>2, <2>1, <2>2, <2>5, HeaderPieces DEF Sound, Syntax
  <2>6. CASE p.at # "failed"
    <3>1. PICK c : Within(h, Len(h), p.at, c)
      BY <2>1, <2>6 DEF Sound, Syntax
    <3>2. /\ c \in Separators(h) /\ c \in 0..Len(h) /\ Inside(h, Len(h), p.at, c)
          /\ \A d \in Separators(h) : d <= Len(h) => d <= c
          /\ \A d \in Separators(h) : d < c => Fine(h, d)
      BY <3>1, SeparatorNumbers DEF Within
    <3>3. CASE p.at \in {"list", "parameter"}
      <4>1. Fine(h, c)
        <5>0. Len(h) + 1 \in Stops(h)
          BY SeparatorNumbers
        <5>1. CASE c \in Commas(h)
          <6>1. Len(h) = c + 1 /\ IsToken(h, c + 1)
            BY <3>2, <3>3, <5>1, SeparatorNumbers DEF Inside
          <6>2. c + 2 = Len(h) + 1
            BY <3>2, <6>1
          <6> QED
            BY <5>0, <5>1, <6>1, <6>2 DEF Fine, IsExtension
        <5>2. CASE c \notin Commas(h)
          <6>1. CASE Len(h) = c + 1 /\ IsToken(h, c + 1)
            <7>1. c + 2 = Len(h) + 1
              BY <3>2, <6>1
            <7> QED
              BY <5>0, <5>2, <6>1, <7>1 DEF Fine, IsParameter
          <6>2. CASE Len(h) = c + 3 /\ IsToken(h, c + 1) /\ h[c + 2] = Equals /\ IsValue(h, c + 3)
            <7>1. c + 4 = Len(h) + 1 /\ c + 2 \in DOMAIN h
              BY <3>2, <6>2
            <7> QED
              BY <5>0, <5>2, <6>2, <7>1 DEF Fine, IsParameter
          <6> QED
            BY <3>2, <3>3, <5>2, <6>1, <6>2 DEF Inside
        <5> QED
          BY <5>1, <5>2
      <4>2. ASSUME NEW d \in Separators(h) PROVE Fine(h, d)
        <5>1. d \in 0..Len(h) /\ d <= c
          BY <3>2, SeparatorNumbers
        <5> QED
          BY <3>2, <4>1, <5>1
      <4> QED
        BY <1>2, <2>2, <3>3, <4>2, HeaderPieces
    <3>4. CASE p.at \notin {"list", "parameter"}
      <4>1. ~Fine(h, c)
        <5>1. CASE p.at = "name"
          <6>1. c \in Commas(h) /\ c = Len(h)
            BY <3>2, <5>1 DEF Inside
          <6> QED
            BY <3>2, <6>1 DEF Fine, IsExtension, IsToken
        <5>2. CASE p.at = "parameterName"
          <6>1. c \in Semicolons(h) /\ c = Len(h)
            BY <3>2, <5>2 DEF Inside
          <6> QED
            BY <3>2, <6>1, SeparatorNumbers DEF Fine, IsParameter, IsToken
        <5>3. CASE p.at = "value"
          <6>1. c \in Semicolons(h) /\ Len(h) = c + 2 /\ h[c + 2] = Equals
            BY <3>2, <5>3 DEF Inside
          <6>2. c + 2 \in 1..Len(h) /\ c + 3 \notin DOMAIN h /\ c \notin Commas(h)
            BY <3>2, <6>1, SeparatorNumbers
          <6>3. c + 2 \notin Stops(h)
            BY <6>1, <6>2, SeparatorKinds
          <6> QED
            BY <6>2, <6>3 DEF Fine, IsParameter, IsValue
        <5> QED
          BY <2>4, <2>6, <3>4, <5>1, <5>2, <5>3 DEF Places
      <4> QED
        BY <1>2, <2>2, <3>2, <3>4, <4>1, HeaderPieces
    <3> QED
      BY <3>3, <3>4
  <2> QED
    BY <2>5, <2>6
<1> QED
  BY <1>1, <1>2

-----------------------------------------------------------------------------
(* Parameters *)

\* Different numbers are written differently.
LEMMA Numerals ==
    /\ \A m, n \in 8..15 : Numeral(m) = Numeral(n) => m = n
<1> SUFFICES ASSUME NEW m \in 8..15, NEW n \in 8..15, Numeral(m) = Numeral(n) PROVE m = n
  OBVIOUS
<1> DEFINE N == <<"8", "9", "10", "11", "12", "13", "14", "15">>
<1>1. \A i, j \in 1..8 : N[i] = N[j] => i = j
  OBVIOUS
<1>2. m - 7 \in 1..8 /\ n - 7 \in 1..8
  OBVIOUS
<1>3. N[m - 7] = N[n - 7]
  BY DEF Numeral
<1> HIDE DEF N
<1>4. m - 7 = n - 7
  BY <1>1, <1>2, <1>3
<1> QED
  BY <1>4

\* The number that a text writes, if any.
LEMMA WindowBitsAre ==
    ASSUME NEW text
    PROVE  /\ \A n \in 8..15 : text = Numeral(n) => WindowBits(text) = n
           /\ (\A n \in 8..15 : text # Numeral(n)) => WindowBits(text) = 0
<1>1. ASSUME NEW n \in 8..15, text = Numeral(n) PROVE WindowBits(text) = n
  <2>1. WindowBits(text) = CHOOSE k \in 8..15 : Numeral(k) = text
    BY <1>1 DEF WindowBits
  <2>2. (CHOOSE k \in 8..15 : Numeral(k) = text) = n
    BY <1>1, Numerals
  <2> QED
    BY <2>1, <2>2
<1> QED
  BY <1>1 DEF WindowBits

\* What the parser says of a parameter is what the header says.
Says(h, par, i) ==
    /\ par.name = h[i + 1].text
    /\ par.hasValue <=> ~NoValue(h, i)
    /\ ~NoValue(h, i) => par.value = h[i + 3].text

\* A parameter that has been read says all that the header says of it.
LEMMA DescribesSays ==
    ASSUME NEW h \in Seq(Lexeme), NEW i \in 1..Len(h), IsParameter(h, i), NEW par,
           Describes(h, Len(h), par, i)
    PROVE  Says(h, par, i) /\ i < Len(h)
<1>1. i + 1 \in 1..Len(h) /\ i < Len(h)
  BY DEF IsParameter, IsToken
<1>2. Described(h, Len(h), i) <=> ~NoValue(h, i)
  <2>1. CASE i + 2 \in Stops(h)
    <3>1. CASE i + 2 \in 1..Len(h)
      <4>1. h[i + 2] # Equals
        BY <2>1, <3>1, SeparatorKinds
      <4> QED
        BY <2>1, <4>1 DEF Described, NoValue
    <3>2. CASE i + 2 \notin 1..Len(h)
      BY <1>1, <2>1, <3>2 DEF Described, NoValue
    <3> QED
      BY <3>1, <3>2
  <2>2. CASE i + 2 \notin Stops(h)
    <3>1. h[i + 2] = Equals /\ i + 3 \in 1..Len(h)
      BY <2>2 DEF IsParameter, IsValue
    <3> QED
      BY <2>2, <3>1 DEF Described, NoValue
  <2> QED
    BY <2>1, <2>2
<1> QED
  BY <1>1, <1>2, Zenon DEF Describes, Says

\* The parameter behind semicolon i is one that the server is able and willing to keep to.
Allowed(h, i, options) ==
    /\ h[i + 1].text \in Known
    /\ h[i + 1].text = "server_no_context_takeover" => NoValue(h, i) /\ ServerReset \in options
    /\ h[i + 1].text = "client_no_context_takeover" => NoValue(h, i)
    /\ h[i + 1].text = "server_max_window_bits" => \E n \in 9..15 : HasBits(h, i, n)
    /\ h[i + 1].text = "client_max_window_bits" =>
        NoValue(h, i) \/ \E n \in 8..15 : HasBits(h, i, n)

\* The server accepts a parameter if and only if it is allowed.
LEMMA AllowedIsCompatible ==
    ASSUME NEW h, NEW i, NEW par, Says(h, par, i), NEW options
    PROVE  CompatibleParameter(par, options) <=> Allowed(h, i, options)
<1>1. PICK t : t = h[i + 1].text
  OBVIOUS
<1>2. par.name = t
  BY <1>1 DEF Says
<1>3. ASSUME ~NoValue(h, i)
      PROVE  /\ WindowBits(par.value) >= 9 <=> \E n \in 9..15 : HasBits(h, i, n)
             /\ WindowBits(par.value) # 0 <=> \E n \in 8..15 : HasBits(h, i, n)
  <2>1. par.value = h[i + 3].text
    BY <1>3 DEF Says
  <2>2. \A n : HasBits(h, i, n) <=> par.value = Numeral(n)
    BY <1>3, <2>1 DEF HasBits
  <2>3. \A n \in 9..15 : n \in 8..15 /\ n >= 9
    OBVIOUS
  <2>4. CASE \E n \in 8..15 : par.value = Numeral(n)
    <3>1. PICK n \in 8..15 : par.value = Numeral(n)
      BY <2>4
    <3>2. WindowBits(par.value) = n
      BY <3>1, WindowBitsAre
    <3>3. \A m \in 9..15 : par.value = Numeral(m) => m = n
      BY <2>3, <3>1, Numerals
    <3>4. n >= 9 <=> \E m \in 9..15 : par.value = Numeral(m)
      BY <3>1, <3>3
    <3> QED
      BY <2>2, <2>4, <3>2, <3>4
  <2>5. CASE ~\E n \in 8..15 : par.value = Numeral(n)
    <3>1. WindowBits(par.value) = 0
      BY <2>5, WindowBitsAre
    <3> QED
      BY <2>2, <2>3, <2>5, <3>1
  <2> QED
    BY <2>4, <2>5
<1>4. \A n : HasBits(h, i, n) => ~NoValue(h, i)
  BY DEF HasBits
<1>5. par.hasValue <=> ~NoValue(h, i)
  BY DEF Says
<1>6. CASE t = "server_no_context_takeover"
  <2>1. CompatibleParameter(par, options) <=> (~par.hasValue /\ ServerReset \in options)
    BY <1>2, <1>6 DEF CompatibleParameter
  <2>2. Allowed(h, i, options) <=> NoValue(h, i) /\ ServerReset \in options
    BY <1>1, <1>6 DEF Allowed, Known
  <2> QED
    BY <1>5, <2>1, <2>2, Zenon
<1>7. CASE t = "client_no_context_takeover"
  <2>1. CompatibleParameter(par, options) <=> ~par.hasValue
    BY <1>2, <1>7 DEF CompatibleParameter
  <2>2. Allowed(h, i, options) <=> NoValue(h, i)
    BY <1>1, <1>7 DEF Allowed, Known
  <2> QED
    BY <1>5, <2>1, <2>2, Zenon
<1>8. CASE t = "server_max_window_bits"
  <2>1. CompatibleParameter(par, options) <=> par.hasValue /\ WindowBits(par.value) >= 9
    BY <1>2, <1>8 DEF CompatibleParameter
  <2>2. Allowed(h, i, options) <=> \E n \in 9..15 : HasBits(h, i, n)
    BY <1>1, <1>8 DEF Allowed, Known
  <2> QED
    BY <1>3, <1>4, <1>5, <2>1, <2>2, Zenon
<1>9. CASE t = "client_max_window_bits"
  <2>1. CompatibleParameter(par, options) <=> (par.hasValue => WindowBits(par.value) # 0)
    BY <1>2, <1>9 DEF CompatibleParameter
  <2>2. Allowed(h, i, options) <=> NoValue(h, i) \/ \E n \in 8..15 : HasBits(h, i, n)
    BY <1>1, <1>9 DEF Allowed, Known
  <2> QED
    BY <1>3, <1>4, <1>5, <2>1, <2>2, Zenon
<1>10. CASE t \notin Known
  <2>1. ~CompatibleParameter(par, options)
    BY <1>2, <1>10 DEF CompatibleParameter, Known
  <2>2. ~Allowed(h, i, options)
    BY <1>1, <1>10 DEF Allowed
  <2> QED
    BY <2>1, <2>2
<1> QED
  BY <1>6, <1>7, <1>8, <1>9, <1>10 DEF Known

\* An offer is acceptable if it is parameter by parameter, and names none twice.
LEMMA AcceptableEach ==
    ASSUME NEW h, NEW c, NEW options
    PROVE  Acceptable(h, c, options) <=>
               /\ h[c + 1].text = "permessage-deflate"
               /\ \A i, j \in Given(h, c) : h[i + 1].text = h[j + 1].text => i = j
               /\ \A i \in Given(h, c) : Allowed(h, i, options)
BY Zenon DEF Acceptable, Allowed, Asked

-----------------------------------------------------------------------------
(* Offers *)

\* Parameters ps are all that the header gives with the extension behind c, each at its place.
Placed(h, c, ps, q) ==
    /\ q \in [1..Len(ps) -> Given(h, c)]
    /\ \A i, j \in 1..Len(ps) : q[i] = q[j] => i = j
    /\ \A x \in Given(h, c) : \E i \in 1..Len(ps) : q[i] = x
    /\ \A m \in 1..Len(ps) : Says(h, ps[m], q[m])

\* The offers are all that the header makes, each at its place and in their order.
Made(h, offers, b) ==
    /\ b \in [1..Len(offers) -> Commas(h)]
    /\ \A i, j \in 1..Len(offers) : i < j <=> b[i] < b[j]
    /\ \A x \in Commas(h) : \E i \in 1..Len(offers) : b[i] = x
    /\ \A k \in 1..Len(offers) :
        /\ offers[k].name = h[b[k] + 1].text
        /\ \E q : Placed(h, b[k], offers[k].parameters, q)

\* A list holds each member once, in their order.
LEMMA ListsOrder ==
    ASSUME NEW S \in SUBSET Nat, NEW n, NEW q, Lists(q, S, n)
    PROVE  /\ Len(q) \in Nat /\ q \in [1..Len(q) -> S]
           /\ \A i, j \in 1..Len(q) : i < j <=> q[i] < q[j]
           /\ \A i, j \in 1..Len(q) : q[i] = q[j] => i = j
<1>1. /\ q \in Seq(S) /\ Len(q) \in Nat
      /\ \A i, j \in 1..Len(q) : i < j => q[i] < q[j]
  BY DEF Lists
<1>2. q \in [1..Len(q) -> S] /\ \A i \in 1..Len(q) : q[i] \in Nat
  <2>1. q \in [1..Len(q) -> S]
    BY <1>1
  <2>2. \A i \in 1..Len(q) : q[i] \in S
    BY <2>1
  <2> QED
    BY <2>1, <2>2
<1>3. ASSUME NEW i \in 1..Len(q), NEW j \in 1..Len(q)
      PROVE  (i < j <=> q[i] < q[j]) /\ (q[i] = q[j] => i = j)
  <2>1. q[i] \in Nat /\ q[j] \in Nat /\ i \in Nat /\ j \in Nat
    BY <1>2
  <2>2. (i < j => q[i] < q[j]) /\ (j < i => q[j] < q[i])
    BY <1>1
  <2>3. i < j \/ j < i \/ i = j
    BY <2>1
  <2> QED
    BY <2>1, <2>2, <2>3
<1> QED
  BY <1>1, <1>2, <1>3

\* All parameters of an extension have been read.
LEMMA HoldsPlaced ==
    ASSUME NEW h \in Seq(Lexeme), h # <<>>, IsHeader(h), NEW c, NEW ps, Holds(h, Len(h), c, ps)
    PROVE  \E q : Placed(h, c, ps, q)
<1>1. PICK q : Matches(h, Len(h), c, ps, q)
  BY DEF Holds
<1>2. /\ Lists(q, Given(h, c), Len(h)) /\ Given(h, c) \in SUBSET Nat /\ Len(q) = Len(ps)
      /\ \A m \in 1..Len(ps) : Describes(h, Len(h), ps[m], q[m])
  BY <1>1, GivenNumbers DEF Matches
<1>3. /\ q \in [1..Len(ps) -> Given(h, c)]
      /\ \A i, j \in 1..Len(ps) : q[i] = q[j] => i = j
  BY <1>2, ListsOrder
<1>4. ASSUME NEW i \in Given(h, c) PROVE i \in 1..Len(h) /\ IsParameter(h, i) /\ i < Len(h)
  <2>1. i \in Semicolons(h)
    BY DEF Given
  <2>2. i \in 1..Len(h) /\ IsParameter(h, i)
    BY <2>1, SeparatorNumbers DEF IsHeader
  <2> QED
    BY <2>2 DEF IsParameter, IsToken
<1>5. \A m \in 1..Len(ps) : Says(h, ps[m], q[m])
  <2>1. ASSUME NEW m \in 1..Len(ps) PROVE Says(h, ps[m], q[m])
    <3>1. PICK i : i = q[m]
      OBVIOUS
    <3>2. i \in Given(h, c) /\ Describes(h, Len(h), ps[m], i)
      BY <1>2, <1>3, <3>1
    <3>3. i \in 1..Len(h) /\ IsParameter(h, i)
      BY <1>4, <3>2
    <3> QED
      BY <3>1, <3>2, <3>3, DescribesSays
  <2> QED
    BY <2>1
<1>6. \A x \in Given(h, c) : \E i \in 1..Len(ps) : q[i] = x
  BY <1>2, <1>4 DEF Lists
<1> QED
  BY <1>3, <1>5, <1>6 DEF Placed

\* All extensions of a header have been read.
LEMMA ReadingMade ==
    ASSUME NEW h \in Seq(Lexeme), h # <<>>, Parses(h)
    PROVE  /\ IsHeader(h) /\ Reading(h).offers \in Seq(Offer)
           /\ \E b : Made(h, Reading(h).offers, b)
<1> DEFINE p == Reading(h)
           offers == p.offers
<1>1. Sound(h, Len(h), p) /\ p.at # "failed" /\ IsHeader(h)
  BY ReadingSound, ParsesHeader DEF Parses
<1> HIDE DEF p
<1>2. PICK b : Content(h, Len(h), offers, b)
  BY <1>1 DEF Sound
<1>3. offers \in Seq(Offer)
  BY <1>1 DEF Sound, Parser
<1> HIDE DEF offers
<1>4. /\ Lists(b, Commas(h), Len(h)) /\ Commas(h) \in SUBSET Nat /\ Len(b) = Len(offers)
      /\ \A k \in 1..Len(offers) : /\ offers[k].name = h[b[k] + 1].text
                                   /\ Holds(h, Len(h), b[k], offers[k].parameters)
  BY <1>2, GivenNumbers DEF Content
<1>5. /\ b \in [1..Len(offers) -> Commas(h)]
      /\ \A i, j \in 1..Len(offers) : i < j <=> b[i] < b[j]
  BY <1>4, ListsOrder
<1>6. ASSUME NEW x \in Commas(h) PROVE x < Len(h)
  <2>1. IsExtension(h, x)
    BY <1>1 DEF IsHeader
  <2> QED
    BY <2>1, GivenNumbers DEF IsExtension, IsToken
<1>7. \A x \in Commas(h) : \E i \in 1..Len(offers) : b[i] = x
  BY <1>4, <1>6 DEF Lists
<1>8. ASSUME NEW k \in 1..Len(offers) PROVE \E q : Placed(h, b[k], offers[k].parameters, q)
  <2>1. PICK c : c = b[k]
    OBVIOUS
  <2>2. PICK ps : ps = offers[k].parameters
    OBVIOUS
  <2>3. Holds(h, Len(h), c, ps)
    BY <1>4, <2>1, <2>2
  <2>4. \E q : Placed(h, c, ps, q)
    BY <1>1, <2>3, HoldsPlaced
  <2> QED
    BY <2>1, <2>2, <2>4
<1>9. Made(h, offers, b)
  BY <1>4, <1>5, <1>7, <1>8 DEF Made
<1> QED
  BY <1>1, <1>3, <1>9 DEF offers, p

\* The server accepts an offer if and only if it is acceptable.
LEMMA CompatibleAcceptable ==
    ASSUME NEW h, NEW c, NEW offer \in Offer, NEW q, Placed(h, c, offer.parameters, q),
           offer.name = h[c + 1].text, NEW options
    PROVE  Acceptable(h, c, options) <=>
               offer.name = "permessage-deflate" /\ isCompatibleOffer(offer, options)
<1>1. PICK ps : ps = offer.parameters
  OBVIOUS
<1>2. DOMAIN ps = 1..Len(ps)
  BY <1>1 DEF Offer
<1>3. /\ \A m \in DOMAIN ps : q[m] \in Given(h, c) /\ Says(h, ps[m], q[m])
      /\ \A i, j \in DOMAIN ps : q[i] = q[j] => i = j
      /\ \A x \in Given(h, c) : \E i \in DOMAIN ps : q[i] = x
  BY <1>1, <1>2, Zenon DEF Placed
<1>4. \A m \in DOMAIN ps : ps[m].name = h[q[m] + 1].text
  BY <1>3 DEF Says
<1>5. (\A i, j \in DOMAIN ps : ps[i].name = ps[j].name => i = j) <=>
      \A x, y \in Given(h, c) : h[x + 1].text = h[y + 1].text => x = y
  <2>1. ASSUME \A i, j \in DOMAIN ps : ps[i].name = ps[j].name => i = j,
               NEW x \in Given(h, c), NEW y \in Given(h, c), h[x + 1].text = h[y + 1].text
        PROVE  x = y
    <3>1. PICK i \in DOMAIN ps : q[i] = x
      BY <1>3
    <3>2. PICK j \in DOMAIN ps : q[j] = y
      BY <1>3
    <3>3. ps[i].name = ps[j].name
      BY <1>4, <2>1, <3>1, <3>2
    <3> QED
      BY <2>1, <3>1, <3>2, <3>3
  <2>2. ASSUME \A x, y \in Given(h, c) : h[x + 1].text = h[y + 1].text => x = y,
               NEW i \in DOMAIN ps, NEW j \in DOMAIN ps, ps[i].name = ps[j].name
        PROVE  i = j
    <3>1. h[q[i] + 1].text = h[q[j] + 1].text
      BY <1>4, <2>2
    <3>2. q[i] = q[j]
      BY <1>3, <2>2, <3>1
    <3> QED
      BY <1>3, <3>2
  <2> QED
    BY <2>1, <2>2, Zenon
<1>6. (\A i \in DOMAIN ps : CompatibleParameter(ps[i], options)) <=>
      \A x \in Given(h, c) : Allowed(h, x, options)
  <2>1. \A i \in DOMAIN ps : CompatibleParameter(ps[i], options) <=> Allowed(h, q[i], options)
    BY <1>3, AllowedIsCompatible
  <2>2. ASSUME \A i \in DOMAIN ps : CompatibleParameter(ps[i], options), NEW x \in Given(h, c)
        PROVE  Allowed(h, x, options)
    <3>1. PICK i \in DOMAIN ps : q[i] = x
      BY <1>3
    <3> QED
      BY <2>1, <2>2, <3>1, Zenon
  <2>3. ASSUME \A x \in Given(h, c) : Allowed(h, x, options), NEW i \in DOMAIN ps
        PROVE  CompatibleParameter(ps[i], options)
    <3>1. Allowed(h, q[i], options)
      BY <1>3, <2>3
    <3> QED
      BY <2>1, <3>1, Zenon
  <2> QED
    BY <2>2, <2>3, Zenon
<1>7. isCompatibleOffer(offer, options) <=>
      /\ \A x, y \in Given(h, c) : h[x + 1].text = h[y + 1].text => x = y
      /\ \A x \in Given(h, c) : Allowed(h, x, options)
  BY <1>1, <1>5, <1>6, Zenon DEF isCompatibleOffer
<1> QED
  BY <1>7, AcceptableEach, Zenon

\* What the response says of an accepted offer is what this asks for.
LEMMA WindowAsked ==
    ASSUME NEW h, NEW c, NEW offer \in Offer, NEW q, Placed(h, c, offer.parameters, q),
           NEW options, Acceptable(h, c, options)
    PROVE  LET windows == Asked(h, c, "server_max_window_bits")
           IN OfferedBits(offer) =
                IF windows = {} THEN 0
                ELSE CHOOSE n \in 9..15 : \E i \in windows : HasBits(h, i, n)
<1> DEFINE windows == Asked(h, c, "server_max_window_bits")
<1>1. PICK ps : ps = offer.parameters
  OBVIOUS
<1>2. DOMAIN ps = 1..Len(ps) /\ ps \in Seq(Parameter)
  BY <1>1 DEF Offer
<1>3. /\ \A m \in DOMAIN ps : q[m] \in Given(h, c) /\ Says(h, ps[m], q[m])
      /\ \A x \in Given(h, c) : \E i \in DOMAIN ps : q[i] = x
  BY <1>1, <1>2, Zenon DEF Placed
<1>4. PICK bits : bits = {WindowBits(par.value) : par \in
                            {p \in ToSet(ps) : p.name = "server_max_window_bits"}}
  OBVIOUS
<1>5. OfferedBits(offer) = IF bits = {} THEN 0 ELSE CHOOSE n \in bits : TRUE
  BY <1>1, <1>4, Zenon DEF OfferedBits
<1>6. ASSUME NEW n \in bits
      PROVE  n \in 9..15 /\ \E i \in windows : HasBits(h, i, n)
  <2>1. PICK m \in DOMAIN ps : ps[m].name = "server_max_window_bits" /\ n = WindowBits(ps[m].value)
    BY <1>4 DEF ToSet
  <2>2. q[m] \in windows
    BY <1>3, <2>1 DEF Says, Asked
  <2>3. PICK k \in 9..15 : HasBits(h, q[m], k)
    BY <2>2 DEF Acceptable
  <2>4. ps[m].value = Numeral(k)
    BY <1>3, <2>3 DEF Says, HasBits
  <2>5. k \in 8..15
    BY <2>3
  <2>6. n = k
    BY <2>1, <2>4, <2>5, WindowBitsAre
  <2> QED
    BY <2>2, <2>3, <2>6
<1>7. CASE windows = {}
  BY <1>5, <1>6, <1>7
<1>8. CASE windows # {}
  <2>1. PICK i \in windows : TRUE
    BY <1>8
  <2>2. i \in Given(h, c) /\ h[i + 1].text = "server_max_window_bits"
    BY DEF Asked
  <2>3. PICK m \in DOMAIN ps : q[m] = i
    BY <1>3, <2>2
  <2>4. ps[m].name = "server_max_window_bits"
    BY <1>3, <2>2, <2>3 DEF Says
  <2>5. WindowBits(ps[m].value) \in bits
    BY <1>4, <2>4 DEF ToSet
  <2>6. PICK n : n = CHOOSE k \in bits : TRUE
    OBVIOUS
  <2>7. n \in bits /\ OfferedBits(offer) = n
    BY <1>5, <2>5, <2>6
  <2>8. n \in 9..15 /\ \E j \in windows : HasBits(h, j, n)
    BY <1>6, <2>7
  <2>9. ASSUME NEW k \in 9..15, \E j \in windows : HasBits(h, j, k) PROVE k = n
    <3>1. \A j \in windows : j = i
      BY <2>2 DEF Acceptable, Asked
    <3>2. HasBits(h, i, k) /\ HasBits(h, i, n)
      BY <2>8, <2>9, <3>1
    <3>3. Numeral(k) = Numeral(n) /\ k \in 8..15 /\ n \in 8..15
      BY <2>8, <3>2 DEF HasBits
    <3> QED
      BY <3>3, Numerals
  <2>10. (CHOOSE k \in 9..15 : \E j \in windows : HasBits(h, j, k)) = n
    <3> HIDE DEF windows
    <3> QED
      BY <2>8, <2>9
  <2> QED
    BY <1>8, <2>7, <2>10, Zenon
<1> QED
  BY <1>7, <1>8

-----------------------------------------------------------------------------
(* The answer *)

\* The candidates of the server are behind the commas that are good.
LEMMA CandidatesGood ==
    ASSUME NEW h \in Seq(Lexeme), h # <<>>, Parses(h), NEW w, Deflate \in w,
           NEW b, Made(h, Reading(h).offers, b)
    PROVE  /\ Candidates(h, w) \subseteq 1..Len(Reading(h).offers)
           /\ \A k \in 1..Len(Reading(h).offers) : k \in Candidates(h, w) <=> b[k] \in Good(h, w)
           /\ \A c \in Good(h, w) : \E k \in Candidates(h, w) : b[k] = c
<1>1. PICK offers : offers = Reading(h).offers
  OBVIOUS
<1>2. IsHeader(h) /\ offers \in Seq(Offer) /\ DOMAIN offers = 1..Len(offers)
  BY <1>1, ReadingMade
<1>3. \A k : k \in Candidates(h, w) <=>
                /\ k \in 1..Len(offers) /\ offers[k].name = "permessage-deflate"
                /\ isCompatibleOffer(offers[k], w)
  BY <1>1, <1>2 DEF Candidates
<1>4. \A c : c \in Good(h, w) <=> c \in Commas(h) /\ Acceptable(h, c, w)
  BY <1>2 DEF Good
<1>5. ASSUME NEW k \in 1..Len(offers) PROVE k \in Candidates(h, w) <=> b[k] \in Good(h, w)
  <2>1. PICK offer : offer = offers[k]
    OBVIOUS
  <2>2. PICK c : c = b[k]
    OBVIOUS
  <2>3. offer \in Offer /\ c \in Commas(h) /\ offer.name = h[c + 1].text
    BY <1>1, <1>2, <2>1, <2>2 DEF Made
  <2>4. PICK q : Placed(h, c, offer.parameters, q)
    BY <1>1, <2>1, <2>2 DEF Made
  <2>5. Acceptable(h, c, w) <=>
            offer.name = "permessage-deflate" /\ isCompatibleOffer(offer, w)
    BY <2>3, <2>4, CompatibleAcceptable
  <2> QED
    BY <1>3, <1>4, <2>1, <2>2, <2>3, <2>5, Zenon
<1>6. ASSUME NEW c \in Good(h, w) PROVE \E k \in Candidates(h, w) : b[k] = c
  <2>1. PICK k \in 1..Len(offers) : b[k] = c
    BY <1>1, <1>4 DEF Made
  <2> QED
    BY <1>5, <2>1
<1> QED
  BY <1>1, <1>3, <1>5, <1>6

\* What the response says.
LEMMA OfferSays ==
    ASSUME NEW n
    PROVE  /\ Deflate \in n.options =>
                /\ generateOffer(n).agreed = TRUE /\ generateOffer(n).bits = n.bits
                /\ ServerReset \in n.options => generateOffer(n).serverReset
           /\ Deflate \notin n.options =>
                generateOffer(n).agreed = FALSE /\ generateOffer(n).bits = 0
<1>1. /\ generateOffer(n).agreed = (Deflate \in n.options)
      /\ generateOffer(n).serverReset = ({Deflate, ServerReset} \subseteq n.options)
      /\ generateOffer(n).bits = IF Deflate \in n.options THEN n.bits ELSE 0
  BY DEF generateOffer
<1>2. CASE Deflate \in n.options
  <2>1. (Deflate \in n.options) = TRUE
    BY <1>2, Zenon
  <2>2. ServerReset \in n.options => ({Deflate, ServerReset} \subseteq n.options) = TRUE
    BY <1>2, Zenon
  <2>3. generateOffer(n).agreed = TRUE
    BY <1>1, <2>1, Zenon
  <2>4. generateOffer(n).bits = n.bits
    BY <1>1, <1>2
  <2>5. ASSUME ServerReset \in n.options PROVE generateOffer(n).serverReset
    <3>1. generateOffer(n).serverReset = TRUE
      BY <1>1, <2>2, <2>5, Zenon
    <3> QED
      BY <3>1, Zenon
  <2>6. ServerReset \in n.options => generateOffer(n).serverReset
    BY <2>5, Zenon
  <2> QED
    BY <1>2, <2>3, <2>4, <2>6, Zenon
<1>3. CASE Deflate \notin n.options
  <2>1. (Deflate \in n.options) = FALSE
    BY <1>3
  <2>2. generateOffer(n).agreed = FALSE
    BY <1>1, <2>1, Zenon
  <2>3. generateOffer(n).bits = 0
    BY <1>1, <1>3
  <2> QED
    BY <1>3, <2>2, <2>3, Zenon
<1> QED
  BY <1>2, <1>3

\* No compression is the answer if no offer is good.
LEMMA NothingAnswers ==
    ASSUME NEW h, NEW w, Good(h, w) = {}, readOffer(h, w) = NothingNegotiated(w)
    PROVE  Answers(Session(h, w))
<1>1. Ask(h, w) = [any |-> FALSE, serverReset |-> FALSE, bits |-> 0]
  BY DEF Ask
<1>2. PICK n : n = NothingNegotiated(w)
  OBVIOUS
<1>3. Deflate \notin n.options
  BY <1>2 DEF NothingNegotiated
<1>4. generateOffer(n).agreed = FALSE /\ generateOffer(n).bits = 0
  BY <1>3, OfferSays
<1>5. Session(h, w).response = generateOffer(n) /\ Session(h, w).ask = Ask(h, w)
  BY <1>2, Zenon DEF Session
<1>6. PICK x : x = Session(h, w)
  OBVIOUS
<1>7. x.ask.any = FALSE /\ x.ask.serverReset = FALSE /\ x.ask.bits = 0
  <2>1. x.ask = [any |-> FALSE, serverReset |-> FALSE, bits |-> 0]
    BY <1>1, <1>5, <1>6
  <2> QED
    BY <2>1
<1>8. x.response.agreed = FALSE /\ x.response.bits = 0
  BY <1>4, <1>5, <1>6, Zenon
<1> QED
  BY <1>6, <1>7, <1>8, Zenon DEF Answers

\* Whatever the header, the session that it brings about answers what it asks for.
LEMMA SessionAnswers == ASSUME NEW h \in Seq(Lexeme), NEW w PROVE Answers(Session(h, w))
<1>1. CASE Deflate \notin w \/ ~Parses(h)
  BY <1>1, ParsesHeader, NothingAnswers DEF Good, readOffer
<1>2. CASE h = <<>>
  <2>1. Reading(h).offers = <<>>
    <3>1. PICK f : f[0] = Start /\ Reading(h) = f[Len(h)]
      BY ReadingSteps
    <3> QED
      BY <1>2, <3>1 DEF Start
  <2>2. Candidates(h, w) = {}
    BY <2>1 DEF Candidates
  <2> QED
    BY <1>2, <2>2, NothingAnswers DEF Good, readOffer
<1>3. CASE Deflate \in w /\ Parses(h) /\ h # <<>>
  <2>1. PICK offers : offers = Reading(h).offers
    OBVIOUS
  <2>2. PICK b : Made(h, offers, b)
    BY <1>3, <2>1, ReadingMade
  <2>3. offers \in Seq(Offer)
    BY <1>3, <2>1, ReadingMade
  <2>4. PICK K : K = Candidates(h, w)
    OBVIOUS
  <2>5. PICK G : G = Good(h, w)
    OBVIOUS
  <2>6. /\ K \subseteq 1..Len(offers)
        /\ \A k \in 1..Len(offers) : k \in K <=> b[k] \in G
        /\ \A c \in G : \E k \in K : b[k] = c
    <3>1. Made(h, Reading(h).offers, b)
      BY <2>1, <2>2, Zenon
    <3>2. /\ Candidates(h, w) \subseteq 1..Len(Reading(h).offers)
          /\ \A k \in 1..Len(Reading(h).offers) : k \in Candidates(h, w) <=> b[k] \in Good(h, w)
          /\ \A c \in Good(h, w) : \E k \in Candidates(h, w) : b[k] = c
      BY <1>3, <3>1, CandidatesGood
    <3> QED
      BY <2>1, <2>4, <2>5, <3>2, Zenon
  <2>7. CASE K = {}
    <3>1. G = {}
      BY <2>6, <2>7
    <3> QED
      BY <2>4, <2>5, <2>7, <3>1, NothingAnswers DEF readOffer
  <2>8. CASE K # {}
    <3>1. K \in SUBSET Nat
      BY <2>6
    <3>2. PICK k \in K : \A j \in K : k <= j
      BY <2>8, <3>1, Least
    <3>3. (CHOOSE i \in K : \A j \in K : i <= j) = k
      <4>1. ASSUME NEW i \in K, \A j \in K : i <= j PROVE i = k
        BY <3>1, <3>2, <4>1
      <4> QED
        BY <3>2, <4>1
    <3>4. b[k] \in G /\ k \in 1..Len(offers)
      BY <2>6, <3>2
    <3>5. ASSUME NEW c \in G PROVE b[k] <= c
      <4>1. PICK j \in K : b[j] = c
        BY <2>6
      <4>2. j \in 1..Len(offers) /\ k <= j
        BY <2>6, <3>2, <4>1
      <4>3. b[k] \in Nat /\ b[j] \in Nat
        BY <2>2, <3>4, <4>2, GivenNumbers DEF Made
      <4>4. j = k \/ k < j
        BY <3>4, <4>2
      <4>5. k < j => b[k] < b[j]
        BY <2>2, <3>4, <4>2 DEF Made
      <4> QED
        BY <4>1, <4>3, <4>4, <4>5
    <3>6. (CHOOSE c \in G : \A d \in G : c <= d) = b[k]
      <4>1. G \in SUBSET Nat
        BY <2>5, GivenNumbers DEF Good
      <4>2. ASSUME NEW c \in G, \A d \in G : c <= d PROVE c = b[k]
        <5>1. c \in Nat /\ b[k] \in Nat /\ c <= b[k] /\ b[k] <= c
          BY <3>4, <3>5, <4>1, <4>2
        <5> QED
          BY <5>1
      <4> QED
        BY <3>4, <3>5, <4>2
    <3>7. PICK c : c = b[k]
      OBVIOUS
    <3>8. PICK offer : offer = offers[k]
      OBVIOUS
    <3>9. offer \in Offer /\ \E q : Placed(h, c, offer.parameters, q)
      BY <2>2, <2>3, <3>4, <3>7, <3>8 DEF Made
    <3>10. Acceptable(h, c, w) /\ G # {}
      BY <2>5, <3>4, <3>7 DEF Good
    <3>11. PICK windows : windows = Asked(h, c, "server_max_window_bits")
      OBVIOUS
    <3>12. OfferedBits(offer) =
            IF windows = {} THEN 0 ELSE CHOOSE n \in 9..15 : \E i \in windows : HasBits(h, i, n)
      BY <3>9, <3>10, <3>11, WindowAsked
    <3>13. Ask(h, w) = [any |-> TRUE,
                        serverReset |-> Asked(h, c, "server_no_context_takeover") # {},
                        bits |-> OfferedBits(offer)]
      BY <2>5, <3>6, <3>7, <3>10, <3>11, <3>12, Zenon DEF Ask
    <3>14. readOffer(h, w) = [options |-> w, bits |-> OfferedBits(offer)]
      BY <1>3, <2>1, <2>4, <2>8, <3>3, <3>8, Zenon DEF readOffer
    <3>15. Asked(h, c, "server_no_context_takeover") # {} => ServerReset \in w
      BY <3>10 DEF Acceptable
    <3>16. PICK n : n = readOffer(h, w)
      OBVIOUS
    <3>17. /\ generateOffer(n).agreed = TRUE /\ generateOffer(n).bits = OfferedBits(offer)
           /\ ServerReset \in w => generateOffer(n).serverReset
      <4>1. n.options = w /\ n.bits = OfferedBits(offer)
        BY <3>14, <3>16
      <4> QED
        BY <1>3, <4>1, OfferSays
    <3>18. Session(h, w).response = generateOffer(n) /\ Session(h, w).ask = Ask(h, w)
      BY <3>16 DEF Session
    <3>19. PICK x : x = Session(h, w)
      OBVIOUS
    <3>20. /\ x.ask.any = TRUE /\ x.ask.bits = OfferedBits(offer)
           /\ x.ask.serverReset = (Asked(h, c, "server_no_context_takeover") # {})
      <4>1. x.ask = [any |-> TRUE,
                     serverReset |-> Asked(h, c, "server_no_context_takeover") # {},
                     bits |-> OfferedBits(offer)]
        BY <3>13, <3>18, <3>19, Zenon
      <4> QED
        BY <4>1
    <3>21. /\ x.response.agreed = TRUE /\ x.response.bits = OfferedBits(offer)
           /\ ServerReset \in w => x.response.serverReset
      BY <3>17, <3>18, <3>19, Zenon
    <3> QED
      BY <3>15, <3>19, <3>20, <3>21, Zenon DEF Answers
  <2> QED
    BY <2>7, <2>8
<1> QED
  BY <1>1, <1>2, <1>3

-----------------------------------------------------------------------------
(* Sessions and contexts *)

LEMMA BitsInRange ==
    ASSUME NEW text PROVE WindowBits(text) \in {0} \cup 8..15
  BY DEF WindowBits

\* The window of an offer is none or one that a zlib stream can have.
LEMMA OfferedWindow ==
    ASSUME NEW offer PROVE OfferedBits(offer) \in WindowSizes
<1> DEFINE bits == {WindowBits(par.value) : par \in
                        {q \in ToSet(offer.parameters) : q.name = "server_max_window_bits"}}
<1>1. bits \subseteq WindowSizes
  BY BitsInRange DEF WindowSizes
<1>2. CASE bits = {}
  BY <1>2 DEF OfferedBits, WindowSizes
<1>3. CASE bits # {}
  <2>1. (CHOOSE n \in bits : TRUE) \in bits
    BY <1>3
  <2>2. OfferedBits(offer) = CHOOSE n \in bits : TRUE
    BY <1>3 DEF OfferedBits
  <2> QED
    BY <1>1, <2>1, <2>2
<1> QED
  BY <1>2, <1>3

\* Every session that a header can bring about is a good one.
LEMMA SessionIsGood ==
    ASSUME NEW header \in Headers, NEW w
    PROVE  GoodSession(Session(header, w), w)
<1> DEFINE n == readOffer(header, w)
<1>0. Answers(Session(header, w))
  BY CompressionAssumption, SessionAnswers
<1>1. CASE Deflate \notin w \/ ~Parses(header) \/ Candidates(header, w) = {}
  <2>1. n = NothingNegotiated(w)
    BY <1>1 DEF readOffer
  <2>2. n.bits = 0 /\ Deflate \notin n.options
    BY <2>1 DEF NothingNegotiated
  <2> QED
    BY <1>0, <2>2 DEF GoodSession, Session, WindowSizes
<1>2. CASE ~(Deflate \notin w \/ ~Parses(header) \/ Candidates(header, w) = {})
  <2>1. PICK offer : n = [options |-> w, bits |-> OfferedBits(offer)]
    BY <1>2 DEF readOffer
  <2>2. n.bits \in WindowSizes /\ n.options = w
    BY <2>1, OfferedWindow
  <2> QED
    BY <1>0, <2>2 DEF GoodSession, Session
<1> QED
  BY <1>1, <1>2

\* A session that connects has a client and a context as good as new.
LEMMA NewAgree ==
    ASSUME NEW x PROVE Agree(x, OwnContext(x.negotiated), NoClient)
<1>1. Ends(<<>>, <<>>)
  BY DEF Ends
<1> QED
  BY <1>1 DEF Agree, Inflates, Deflates, OwnContext, NewContext, NoContext, NoInflater, NoDeflater,
              NoClient

\* What one step does to session s leaves the others as they were.
LEMMA OneSession ==
    ASSUME IInv, NEW s \in Sessions, Types', Fresh(contexts'[Server], wanted'), wanted' = wanted,
           \A t \in Sessions \ {s} : /\ sessions'[t] = sessions[t]
                                   /\ contexts'[t] = contexts[t]
                                   /\ clients'[t] = clients[t],
           GoodSession(sessions'[s], wanted), Agree(sessions'[s], contexts'[s], clients'[s])
    PROVE  IInv'
<1>1. ASSUME NEW t \in Sessions
      PROVE  GoodSession(sessions[t], wanted)' /\ Agree(sessions[t], contexts[t], clients[t])'
  <2>1. CASE t = s
    BY <2>1
  <2>2. CASE t # s
    BY <2>2 DEF IInv
  <2> QED
    BY <2>1, <2>2
<1> QED
  BY <1>1 DEF IInv

LEMMA FreshTypes ==
    /\ NoContext \in Context /\ NewContext \in Context /\ NoClient \in Client
    /\ NoInflater \in Inflater
    /\ \A b \in WindowSizes : [NoDeflater EXCEPT !.bits = b] \in Deflater
<1>1. <<>> \in Window /\ 0 \in WindowSizes
  BY DEF Window, WindowSizes
<1>2. NoInflater \in Inflater /\ NoClient \in Client
  BY <1>1 DEF NoInflater, Inflater, NoClient, Client
<1>3. NoDeflater \in Deflater /\ \A b \in WindowSizes : [NoDeflater EXCEPT !.bits = b] \in Deflater
  BY <1>1 DEF NoDeflater, Deflater
<1> QED
  BY <1>2, <1>3 DEF NoContext, NewContext, Context

LEMMA InitIInv == Init => IInv
<1> SUFFICES ASSUME Init PROVE IInv
  OBVIOUS
<1>1. Types
  BY FreshTypes DEF Init, Types
<1>2. Fresh(contexts[Server], wanted)
  BY DEF Init, Fresh, NewContext, NoContext, NoInflater, NoDeflater
<1>3. ASSUME NEW s \in Sessions
      PROVE  GoodSession(sessions[s], wanted) /\ Agree(sessions[s], contexts[s], clients[s])
  BY DEF Init, GoodSession, Agree, NoSession, NoOptions, WindowSizes
<1> QED
  BY <1>1, <1>2, <1>3 DEF IInv

LEMMA ConnectIInv == ASSUME IInv, NEW s \in Sessions, Connect(s) PROVE IInv'
<1>1. PICK new : /\ \E header \in Headers : new = Session(header, wanted)
                 /\ sessions' = [sessions EXCEPT ![s] = new]
                 /\ contexts' = [contexts EXCEPT ![s] = OwnContext(new.negotiated)]
  <2>1. PICK new \in {a[2] : a \in {x \in AnySession : x[1] = wanted}} :
            /\ sessions' = [sessions EXCEPT ![s] = new]
            /\ contexts' = [contexts EXCEPT ![s] = OwnContext(new.negotiated)]
    BY DEF Connect
  <2>2. PICK a \in AnySession : a[1] = wanted /\ new = a[2]
    OBVIOUS
  <2>3. PICK w \in WantedOptions, header \in Headers : a = <<w, Session(header, w)>>
    BY DEF AnySession
  <2>4. new = Session(header, wanted)
    BY <2>2, <2>3
  <2> QED
    BY <2>1, <2>4
<1>2. clients' = [clients EXCEPT ![s] = NoClient] /\ wanted' = wanted
  BY DEF Connect
<1>3. OwnContext(new.negotiated) \in Context
  BY FreshTypes DEF OwnContext
<1>4. Types'
  BY <1>1, <1>2, <1>3, FreshTypes DEF IInv, Types
<1>5. s # Server /\ contexts'[Server] = contexts[Server]
  BY <1>1, CompressionAssumption DEF IInv, Types
<1>6. sessions'[s] = new /\ contexts'[s] = OwnContext(new.negotiated) /\ clients'[s] = NoClient
  BY <1>1, <1>2 DEF IInv, Types
<1>7. GoodSession(new, wanted)
  BY <1>1, SessionIsGood
<1>8. \A t \in Sessions \ {s} : /\ sessions'[t] = sessions[t]
                               /\ contexts'[t] = contexts[t]
                               /\ clients'[t] = clients[t]
  BY <1>1, <1>2 DEF IInv, Types
<1> QED
  BY <1>2, <1>4, <1>5, <1>6, <1>7, <1>8, NewAgree, OneSession DEF IInv

LEMMA GoneIsGood ==
    ASSUME NEW w, NEW c PROVE GoodSession(NoSession, w) /\ Agree(NoSession, c, NoClient)
  BY DEF GoodSession, Agree, NoSession, NoOptions, WindowSizes

LEMMA DisconnectIInv == ASSUME IInv, NEW s \in Sessions, Disconnect(s) PROVE IInv'
<1>1. /\ contexts' = [contexts EXCEPT ![s] = NoContext]
      /\ sessions' = [sessions EXCEPT ![s] = NoSession]
      /\ clients' = [clients EXCEPT ![s] = NoClient]
      /\ wanted' = wanted
  BY DEF Disconnect, Gone
<1>2. Types'
  BY <1>1, FreshTypes DEF IInv, Types
<1>3. contexts'[Server] = contexts[Server]
  BY <1>1, CompressionAssumption DEF IInv, Types
<1>4. /\ sessions'[s] = NoSession /\ clients'[s] = NoClient
      /\ \A t \in Sessions \ {s} : /\ sessions'[t] = sessions[t]
                                  /\ contexts'[t] = contexts[t]
                                  /\ clients'[t] = clients[t]
  BY <1>1 DEF IInv, Types
<1> QED
  BY <1>1, <1>2, <1>3, <1>4, GoneIsGood, OneSession DEF IInv

LEMMA SlidType ==
    ASSUME NEW w \in Window, NEW more \in Window, NEW b \in 8..15
    PROVE  Slid(w, more, b) \in Window
  BY SlidWindow

LEMMA BlocksType == Blocks \subseteq Window
  BY DEF Blocks, Window

\* An inflater goes on as its client did.
LEMMA InflatedAsSent ==
    ASSUME NEW w \in Window, NEW m \in Messages
    PROVE  /\ Inflated([ready |-> TRUE, window |-> w], m) = [ready |-> TRUE, window |-> Sent(w, m)]
           /\ Sent(w, m) \in Window
<1>1. m.before \in Window /\ m.after \in Window /\ m.ends \in BOOLEAN /\ 15 \in 8..15
  BY BlocksType DEF Messages
<1>2. Slid(w, m.before, 15) \in Window
  BY <1>1, SlidType
<1>3. Sent(w, m) \in Window
  BY <1>1, <1>2, SlidType DEF Sent
<1>4. Inflated([ready |-> TRUE, window |-> w], m) = [ready |-> TRUE, window |-> Sent(w, m)]
  <2> DEFINE first == [ready |-> ~m.ends, window |-> Slid(w, m.before, 15)]
             ready == [ready |-> TRUE, window |-> Slid(w, m.before, 15)]
  <2>1. (IF m.ends THEN restartInflater(first) ELSE first) = ready
    BY <1>1 DEF restartInflater
  <2>2. Inflated([ready |-> TRUE, window |-> w], m) = [ready EXCEPT !.window = Slid(@, m.after, 15)]
    BY <2>1, Zenon DEF Inflated
  <2> QED
    BY <2>2 DEF Sent
<1> QED
  BY <1>3, <1>4

\* The client is told of just those resets that the server counts on.
LEMMA ResponseSays ==
    ASSUME NEW x, NEW w, GoodSession(x, w), Deflate \in x.negotiated.options
    PROVE  /\ x.response.clientReset <=> ClientReset \in x.negotiated.options
           /\ x.response.serverReset <=> ServerReset \in x.negotiated.options
           /\ x.response.bits = x.negotiated.bits
<1> DEFINE n == x.negotiated
<1>1. x.response = generateOffer(n)
  BY DEF GoodSession
<1>2. /\ generateOffer(n).clientReset = ({Deflate, ClientReset} \subseteq n.options)
      /\ generateOffer(n).serverReset = ({Deflate, ServerReset} \subseteq n.options)
      /\ generateOffer(n).bits = IF Deflate \in n.options THEN n.bits ELSE 0
  BY DEF generateOffer
<1> QED
  BY <1>1, <1>2

LEMMA InflateIInv == ASSUME IInv, NEW s \in Sessions, Inflate(s) PROVE IInv'
<1> USE DEF Options
<1>1. /\ sessions[s].open /\ Deflate \in sessions[s].negotiated.options
      /\ GoodSession(sessions[s], wanted)
      /\ Inflates(sessions[s], contexts[s], clients[s])
      /\ Deflates(sessions[s], contexts[s], clients[s])
  BY DEF Inflate, Compresses, IInv, Agree
<1>2. PICK m \in Messages :
        /\ contexts' = [contexts EXCEPT ![InflatesWith(s)].inflater =
                            AfterInflate(s, Inflated(@, m))]
        /\ clients' = [clients EXCEPT ![s].deflater =
                           IF sessions[s].response.clientReset THEN <<>> ELSE Sent(@, m)]
  BY DEF Inflate
<1>3. wanted' = wanted /\ sessions' = sessions
  BY DEF Inflate
<1>4. s # Server /\ contexts \in [{Server} \cup Sessions -> Context]
      /\ clients \in [Sessions -> Client]
      /\ contexts[s] \in Context /\ contexts[Server] \in Context /\ clients[s] \in Client
  BY CompressionAssumption DEF IInv, Types
<1>5. sessions[s].response.clientReset <=> ClientReset \in sessions[s].negotiated.options
  BY <1>1, ResponseSays
<1>6. CASE ClientReset \in sessions[s].negotiated.options
  <2>1. /\ contexts' = [contexts EXCEPT ![Server].inflater = NoInflater]
        /\ clients' = [clients EXCEPT ![s].deflater = <<>>]
    BY <1>2, <1>5, <1>6 DEF InflatesWith, AfterInflate
  <2>2. clients[s].deflater = <<>> /\ contexts[Server].inflater = NoInflater
    BY <1>1, <1>6 DEF Inflates, IInv, Fresh
  <2>3. clients' = clients /\ contexts' = contexts
    BY <1>4, <2>1, <2>2 DEF Context, Client
  <2> QED
    BY <1>3, <2>3 DEF IInv, Types, Fresh, Agree
<1>7. CASE ClientReset \notin sessions[s].negotiated.options
  <2> DEFINE w == clients[s].deflater
             i == [ready |-> TRUE, window |-> Sent(w, m)]
  <2>1. contexts[s].made /\ contexts[s].inflater = [ready |-> TRUE, window |-> w] /\ w \in Window
    BY <1>1, <1>4, <1>7 DEF Inflates, Client
  <2>2. Inflated(contexts[s].inflater, m) = i /\ Sent(w, m) \in Window
    BY <2>1, InflatedAsSent
  <2>3. /\ contexts' = [contexts EXCEPT ![s].inflater = i]
        /\ clients' = [clients EXCEPT ![s].deflater = Sent(w, m)]
    BY <1>2, <1>4, <1>5, <1>7, <2>2 DEF InflatesWith, AfterInflate
  <2> HIDE DEF w, i
  <2>4. i \in Inflater
    BY <2>2 DEF i, Inflater
  <2>5. Types'
    BY <1>3, <1>4, <2>2, <2>3, <2>4 DEF IInv, Types, Context, Client
  <2>6. /\ contexts'[Server] = contexts[Server]
        /\ contexts'[s] = [contexts[s] EXCEPT !.inflater = i]
        /\ clients'[s] = [clients[s] EXCEPT !.deflater = Sent(w, m)]
        /\ \A t \in Sessions \ {s} : contexts'[t] = contexts[t] /\ clients'[t] = clients[t]
    BY <1>4, <2>3
  <2>7. Inflates(sessions[s], contexts'[s], clients'[s])
    BY <1>4, <1>7, <2>1, <2>6 DEF Inflates, Context, Client, i
  <2>8. Deflates(sessions[s], contexts'[s], clients'[s])
    BY <1>1, <1>4, <2>6 DEF Deflates, Context, Client
  <2> QED
    BY <1>1, <1>3, <2>5, <2>6, <2>7, <2>8, OneSession DEF IInv, Agree
<1> QED
  BY <1>6, <1>7

LEMMA InflateFailsIInv == ASSUME IInv, NEW s \in Sessions, InflateFails(s) PROVE IInv'
<1>1. PICK c \in {s, Server} :
        contexts' = [contexts EXCEPT ![c].inflater = NoInflater, ![s] = NoContext]
  BY DEF InflateFails, InflatesWith, AfterFailure
<1>2. /\ sessions' = [sessions EXCEPT ![s] = NoSession]
      /\ clients' = [clients EXCEPT ![s] = NoClient]
      /\ wanted' = wanted
  BY DEF InflateFails, Gone
<1>3. s # Server /\ contexts \in [{Server} \cup Sessions -> Context]
      /\ contexts[Server] \in Context /\ contexts[Server].inflater = NoInflater
  BY CompressionAssumption DEF IInv, Types, Fresh
<1>4. /\ contexts'[Server] = contexts[Server]
      /\ contexts'[s] = NoContext
      /\ \A t \in Sessions \ {s} : contexts'[t] = contexts[t]
  BY <1>1, <1>3 DEF Context
<1>5. contexts' = [contexts EXCEPT ![s] = NoContext]
  <2>1. CASE c = s
    BY <1>1, <1>3, <2>1
  <2>2. CASE c = Server
    BY <1>1, <1>3, <2>2 DEF Context
  <2> QED
    BY <2>1, <2>2
<1>6. Types'
  BY <1>2, <1>5, FreshTypes DEF IInv, Types
<1>7. /\ sessions'[s] = NoSession /\ clients'[s] = NoClient
      /\ \A t \in Sessions \ {s} : sessions'[t] = sessions[t] /\ clients'[t] = clients[t]
  BY <1>2 DEF IInv, Types
<1> QED
  BY <1>2, <1>4, <1>6, <1>7, GoneIsGood, OneSession DEF IInv

LEMMA EnsuredDeflater ==
    ASSUME NEW d \in Deflater, NEW v \in Window, NEW b \in 8..15, d.ready, Ends(d.window, v)
    PROVE  /\ ensureDeflater(d, b) \in Deflater
           /\ ensureDeflater(d, b).ready /\ ensureDeflater(d, b).bits = b
           /\ Ends(ensureDeflater(d, b).window, v)
           /\ d.window = <<>> => ensureDeflater(d, b).window = <<>>
<1>1. CASE d.bits = b
  BY <1>1 DEF ensureDeflater
<1>2. CASE d.bits # b
  <2> DEFINE e == [NoDeflater EXCEPT !.bits = b]
  <2>1. ensureDeflater(d, b) = e
    BY <1>2 DEF ensureDeflater
  <2>2. e \in Deflater
    BY FreshTypes DEF WindowSizes
  <2>3. e.ready /\ e.bits = b /\ e.window = <<>>
    BY DEF NoDeflater
  <2>4. Ends(<<>>, v)
    BY DEF Ends, Window
  <2> QED
    BY <2>1, <2>2, <2>3, <2>4
<1> QED
  BY <1>1, <1>2

\* Any step of the deflater that a session uses, and of its client's inflater.
LEMMA DeflaterStep ==
    ASSUME IInv, NEW s \in Sessions, Compresses(s), wanted' = wanted, sessions' = sessions,
           NEW new \in Deflater, NEW v \in Window,
           contexts' = [contexts EXCEPT ![DeflatesWith(s)].deflater = new],
           clients' = [clients EXCEPT ![s].inflater = v],
           new.ready, new.bits \in {0, BitsOf(sessions[s])}, Ends(new.window, v),
           ServerReset \in Options(s) => new.window = <<>>
    PROVE  IInv'
<1> USE DEF Options
<1>1. /\ sessions[s].open /\ Deflate \in sessions[s].negotiated.options
      /\ GoodSession(sessions[s], wanted)
      /\ Inflates(sessions[s], contexts[s], clients[s])
      /\ Deflates(sessions[s], contexts[s], clients[s])
  BY DEF Compresses, IInv, Agree
<1>2. s # Server /\ contexts \in [{Server} \cup Sessions -> Context]
      /\ clients \in [Sessions -> Client]
      /\ contexts[s] \in Context /\ contexts[Server] \in Context /\ clients[s] \in Client
  BY CompressionAssumption DEF IInv, Types
<1>3. DeflatesWith(s) \in {Server} \cup Sessions
  BY DEF DeflatesWith
<1>4. Types'
  BY <1>2, <1>3 DEF IInv, Types, Context, Client
<1>5. /\ clients'[s] = [clients[s] EXCEPT !.inflater = v]
      /\ \A t \in Sessions \ {s} : contexts'[t] = contexts[t] /\ clients'[t] = clients[t]
  BY <1>2, CompressionAssumption DEF DeflatesWith
<1>6. CASE ServerReset \in sessions[s].negotiated.options
  <2>1. /\ contexts'[s] = contexts[s]
        /\ contexts'[Server] = [contexts[Server] EXCEPT !.deflater = new]
    BY <1>2, <1>6 DEF DeflatesWith
  <2>2. Fresh(contexts'[Server], wanted)
    BY <1>2, <1>6, <2>1 DEF Fresh, IInv, Context
  <2>3. Inflates(sessions[s], contexts'[s], clients'[s])
    BY <1>1, <1>2, <1>5, <2>1 DEF Inflates, Client
  <2>4. Deflates(sessions[s], contexts'[s], clients'[s])
    BY <1>6 DEF Deflates
  <2> QED
    BY <1>1, <1>4, <1>5, <2>2, <2>3, <2>4, OneSession DEF Agree
<1>7. CASE ServerReset \notin sessions[s].negotiated.options
  <2>1. /\ contexts'[s] = [contexts[s] EXCEPT !.deflater = new]
        /\ contexts'[Server] = contexts[Server]
    BY <1>2, <1>7 DEF DeflatesWith
  <2>2. Inflates(sessions[s], contexts'[s], clients'[s])
    BY <1>1, <1>2, <1>5, <2>1 DEF Inflates, Client, Context
  <2>3. Deflates(sessions[s], contexts'[s], clients'[s])
    BY <1>1, <1>2, <1>5, <1>7, <2>1 DEF Deflates, Client, Context
  <2> QED
    BY <1>1, <1>4, <1>5, <2>1, <2>2, <2>3, OneSession DEF Agree, IInv
<1> QED
  BY <1>6, <1>7

\* The deflater that a session is about to use, whether it owns it or not.
LEMMA NextDeflater ==
    ASSUME IInv, NEW s \in Sessions, Compresses(s)
    PROVE  LET d == ensureDeflater(contexts[DeflatesWith(s)].deflater, BitsOf(sessions[s]))
           IN /\ d \in Deflater /\ d.ready /\ d.bits = BitsOf(sessions[s])
              /\ Ends(d.window, clients[s].inflater)
              /\ ServerReset \in Options(s) => d.window = <<>>
              /\ BitsOf(sessions[s]) \in 8..15 /\ clients[s].inflater \in Window
              /\ contexts[DeflatesWith(s)].made
<1> USE DEF Options
<1> DEFINE c == contexts[DeflatesWith(s)]
<1>1. /\ GoodSession(sessions[s], wanted) /\ Deflate \in sessions[s].negotiated.options
      /\ sessions[s].open /\ Deflates(sessions[s], contexts[s], clients[s])
      /\ Fresh(contexts[Server], wanted)
  BY DEF Compresses, IInv, Agree
<1>2. c \in Context /\ clients[s] \in Client
  BY DEF DeflatesWith, IInv, Types
<1>3. BitsOf(sessions[s]) \in 8..15
  BY <1>1 DEF BitsOf, GoodSession, WindowSizes
<1>4. c.deflater \in Deflater /\ clients[s].inflater \in Window
  BY <1>2 DEF Context, Client
<1>5. /\ c.made /\ c.deflater.ready /\ Ends(c.deflater.window, clients[s].inflater)
      /\ ServerReset \in Options(s) => c.deflater.window = <<>>
  <2>1. CASE ServerReset \in Options(s)
    <3>1. c = contexts[Server] /\ c.deflater.window = <<>> /\ c.deflater.ready
      BY <1>1, <2>1 DEF DeflatesWith, Fresh
    <3>2. c.made
      BY <1>1, <3>1 DEF GoodSession, Fresh
    <3>3. Ends(<<>>, clients[s].inflater)
      BY <1>4 DEF Ends, Window
    <3> QED
      BY <3>1, <3>2, <3>3
  <2>2. CASE ServerReset \notin Options(s)
    BY <1>1, <2>2 DEF DeflatesWith, Deflates
  <2> QED
    BY <2>1, <2>2
<1> HIDE DEF c
<1>6. LET d == ensureDeflater(c.deflater, BitsOf(sessions[s]))
      IN /\ d \in Deflater /\ d.ready /\ d.bits = BitsOf(sessions[s])
         /\ Ends(d.window, clients[s].inflater)
         /\ c.deflater.window = <<>> => d.window = <<>>
  BY <1>3, <1>4, <1>5, EnsuredDeflater
<1> QED
  BY <1>3, <1>4, <1>5, <1>6 DEF c

LEMMA DeflateMessageIInv == ASSUME IInv, NEW s \in Sessions, DeflateMessage(s) PROVE IInv'
<1> DEFINE b == BitsOf(sessions[s])
           d == ensureDeflater(contexts[DeflatesWith(s)].deflater, b)
           v == clients[s].inflater
<1>1. Compresses(s) /\ wanted' = wanted /\ sessions' = sessions
  BY DEF DeflateMessage
<1>2. /\ d \in Deflater /\ d.ready /\ d.bits = b /\ Ends(d.window, v)
      /\ b \in 8..15 /\ v \in Window
      /\ ServerReset \in Options(s) => d.window = <<>>
  BY <1>1, NextDeflater
<1>3. /\ sessions[s].response.serverReset <=> ServerReset \in Options(s)
      /\ b = IF sessions[s].response.bits = 0 THEN 15 ELSE sessions[s].response.bits
      /\ b = serverMaxWindowBits(s)
  BY <1>1, ResponseSays DEF IInv, Compresses, Options, BitsOf, serverMaxWindowBits
<1> HIDE DEF d, b
<1>4. PICK content \in Blocks :
        LET used == [d EXCEPT !.window = Slid(@, content, d.bits)]
        IN /\ contexts' = [contexts EXCEPT ![DeflatesWith(s)].deflater =
                               IF ServerReset \in Options(s) THEN resetDeflater(used) ELSE used]
           /\ clients' = [clients EXCEPT ![s].inflater =
                              IF sessions[s].response.serverReset THEN <<>>
                              ELSE Slid(@, content, b)]
  BY <1>3 DEF DeflateMessage, d
<1> DEFINE used == [d EXCEPT !.window = Slid(@, content, b)]
           new == IF ServerReset \in Options(s) THEN resetDeflater(used) ELSE used
           u == IF ServerReset \in Options(s) THEN <<>> ELSE Slid(v, content, b)
<1>5. content \in Window /\ <<>> \in Window
  BY BlocksType DEF Window
<1>6. clients \in [Sessions -> Client]
  BY DEF IInv, Types
<1>7. clients' = [clients EXCEPT ![s].inflater = u]
  BY <1>3, <1>4, <1>6
<1>8. contexts' = [contexts EXCEPT ![DeflatesWith(s)].deflater = new]
  BY <1>2, <1>4
<1>9. CASE ServerReset \in Options(s)
  <2>1. new = [NoDeflater EXCEPT !.bits = b]
    BY <1>2, <1>9 DEF resetDeflater, Deflater
  <2>2. new \in Deflater /\ new.ready /\ new.bits = b /\ new.window = <<>>
    BY <1>2, <2>1, FreshTypes DEF NoDeflater, WindowSizes
  <2>3. u = <<>> /\ Ends(<<>>, <<>>)
    BY <1>9 DEF Ends
  <2> HIDE DEF new, u
  <2> QED
    BY <1>1, <1>5, <1>7, <1>8, <2>2, <2>3, DeflaterStep DEF b
<1>10. CASE ServerReset \notin Options(s)
  <2>1. new = used /\ u = Slid(v, content, b)
    BY <1>10
  <2>2. d.window \in Window
    BY <1>2 DEF Deflater
  <2>3. Slid(d.window, content, b) \in Window /\ u \in Window /\ Ends(Slid(d.window, content, b), u)
    <3> HIDE DEF u, v
    <3>1. v \in Window /\ Ends(d.window, v) /\ b \in 8..15
      BY <1>2
    <3>2. Slid(d.window, content, b) \in Window
      BY <1>5, <2>2, <3>1, SlidType
    <3>3. Slid(v, content, b) \in Window
      BY <1>5, <3>1, SlidType
    <3>4. Ends(Slid(d.window, content, b), Slid(v, content, b))
      BY <1>5, <2>2, <3>1, EndsSlides
    <3> QED
      BY <2>1, <3>2, <3>3, <3>4
  <2>4. used \in Deflater /\ used.ready /\ used.bits = b /\ used.window = Slid(d.window, content, b)
    BY <1>2, <2>3 DEF Deflater
  <2> HIDE DEF new, u, used
  <2> QED
    BY <1>1, <1>7, <1>8, <1>10, <2>1, <2>3, <2>4, DeflaterStep DEF b
<1> QED
  BY <1>9, <1>10

LEMMA DeflateFailsIInv == ASSUME IInv, NEW s \in Sessions, DeflateFails(s) PROVE IInv'
<1> DEFINE b == BitsOf(sessions[s])
           d == ensureDeflater(contexts[DeflatesWith(s)].deflater, b)
           v == clients[s].inflater
<1>1. Compresses(s) /\ wanted' = wanted /\ sessions' = sessions /\ clients' = clients
  BY DEF DeflateFails
<1>2. /\ d \in Deflater /\ d.ready /\ d.bits = b /\ Ends(d.window, v)
      /\ b \in 8..15 /\ v \in Window
      /\ ServerReset \in Options(s) => d.window = <<>>
  BY <1>1, NextDeflater
<1>3. b = serverMaxWindowBits(s)
  BY DEF BitsOf, serverMaxWindowBits
<1> HIDE DEF d, b
<1>4. PICK bits \in {0, b} :
        \E new \in {d, [NoDeflater EXCEPT !.bits = bits]} :
            contexts' = [contexts EXCEPT ![DeflatesWith(s)].deflater = new]
  BY <1>3 DEF DeflateFails, AfterFailure, d
<1>5. clients' = [clients EXCEPT ![s].inflater = v]
  BY <1>1 DEF IInv, Types, Client
<1>6. PICK new \in {d, [NoDeflater EXCEPT !.bits = bits]} :
        contexts' = [contexts EXCEPT ![DeflatesWith(s)].deflater = new]
  BY <1>4
<1>7. CASE new = d
  BY <1>1, <1>2, <1>5, <1>6, <1>7, DeflaterStep DEF b
<1>8. CASE new = [NoDeflater EXCEPT !.bits = bits]
  <2>1. new \in Deflater /\ new.ready /\ new.bits = bits /\ new.window = <<>>
    BY <1>2, <1>4, <1>8, FreshTypes DEF NoDeflater, WindowSizes
  <2>2. Ends(new.window, v)
    BY <1>2, <2>1 DEF Ends, Window
  <2>3. new.bits \in {0, b} /\ v \in Window
    BY <1>2, <2>1
  <2> QED
    BY <1>1, <1>5, <1>6, <2>1, <2>2, <2>3, DeflaterStep DEF b
<1> QED
  BY <1>6, <1>7, <1>8

-----------------------------------------------------------------------------
(* Theorems *)

LEMMA StutterIInv == ASSUME IInv, UNCHANGED vars PROVE IInv'
  BY DEF IInv, Types, vars

\* Each session agrees with its client and the shared context is fresh, in every state.
THEOREM Invariant == Spec => []IInv
<1>1. ASSUME IInv, [Next]_vars PROVE IInv'
  <2>1. ASSUME NEW s \in Sessions,
               \/ Connect(s) \/ Disconnect(s)
               \/ Inflate(s) \/ InflateFails(s)
               \/ DeflateMessage(s) \/ DeflateFails(s)
        PROVE  IInv'
    BY <1>1, <2>1, ConnectIInv, DisconnectIInv, InflateIInv, InflateFailsIInv, DeflateMessageIInv,
       DeflateFailsIInv
  <2> QED
    BY <1>1, <2>1, StutterIInv DEF Next
<1> QED
  BY <1>1, InitIInv, PTL DEF Spec

\* What the server may refer back to, a client has (deflateMessage), for all sessions and windows.
THEOREM ClientInflates == Spec => []ClientCanInflate
<1>1. IInv => ClientCanInflate
  <2> SUFFICES ASSUME IInv, NEW s \in Sessions, Compresses(s)
               PROVE  LET c == contexts[DeflatesWith(s)]
                          d == ensureDeflater(c.deflater, serverMaxWindowBits(s))
                      IN /\ c.made /\ d.ready
                         /\ Ends(d.window, clients[s].inflater)
                         /\ sessions[s].response.bits # 0 => d.bits <= sessions[s].response.bits
    BY DEF ClientCanInflate
  <2>1. BitsOf(sessions[s]) = serverMaxWindowBits(s)
    BY DEF BitsOf, serverMaxWindowBits
  <2>2. sessions[s].response.bits # 0 => BitsOf(sessions[s]) = sessions[s].response.bits
    BY ResponseSays DEF BitsOf, IInv, Compresses, Options
  <2>3. BitsOf(sessions[s]) <= BitsOf(sessions[s])
    BY NextDeflater
  <2> QED
    BY <2>1, <2>2, <2>3, NextDeflater
<1> QED
  BY <1>1, Invariant, PTL

\* What a client may refer back to, the server inflates its message with (inflateMessage), for
\* all sessions and messages.
THEOREM ServerInflates == Spec => []ServerCanInflate
<1>1. IInv => ServerCanInflate
  <2> USE DEF Options
  <2> SUFFICES ASSUME IInv, NEW s \in Sessions, Compresses(s)
               PROVE  LET c == contexts[InflatesWith(s)]
                      IN /\ c.made /\ c.inflater.ready
                         /\ Ends(clients[s].deflater, c.inflater.window)
                         /\ InflatesWith(s) = Server => c.inflater.window = <<>>
    BY DEF ServerCanInflate
  <2>1. /\ GoodSession(sessions[s], wanted) /\ Deflate \in sessions[s].negotiated.options
        /\ sessions[s].open /\ Inflates(sessions[s], contexts[s], clients[s])
        /\ Fresh(contexts[Server], wanted) /\ clients[s] \in Client /\ s # Server
    BY CompressionAssumption DEF Compresses, IInv, Agree, Types
  <2>2. clients[s].deflater \in Window
    BY <2>1 DEF Client
  <2>3. \A w \in Window : Ends(w, w)
    BY DEF Ends, Window
  <2>4. CASE ClientReset \in sessions[s].negotiated.options
    BY <2>1, <2>2, <2>3, <2>4 DEF InflatesWith, Fresh, NoInflater, Inflates, GoodSession
  <2>5. CASE ClientReset \notin sessions[s].negotiated.options
    BY <2>1, <2>2, <2>3, <2>5 DEF InflatesWith, Inflates
  <2> QED
    BY <2>4, <2>5
<1> QED
  BY <1>1, Invariant, PTL

\* The response is what the client's first acceptable offer calls for (readOffer), whatever
\* header it sends and whatever the server's options are.
THEOREM OfferAnswered == Spec => []AnswersTheOffer
<1>1. IInv => AnswersTheOffer
  BY Zenon DEF IInv, GoodSession, Answers, AnswersTheOffer
<1> QED
  BY <1>1, Invariant, PTL
=============================================================================
