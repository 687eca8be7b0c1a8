-------------------------- MODULE ExtensionsNegotiator --------------------------
(***************************************************************************)
(* What the server answers to the Sec-WebSocket-Extensions header of an    *)
(* upgrade: the parser of the header, the choice of an offer and the       *)
(* response.  Below it the same is said a second time, from the grammar of *)
(* the header and from what permessage-deflate lets a client ask for, as   *)
(* the client does that reads the response.                                *)
(*                                                                         *)
(* A header is a sequence of lexemes, since white space is skipped before  *)
(* every one of them: [kind |-> "token", "quoted" or "mark", text |-> ...], *)
(* where the text of a mark is ";", "," or "=", or "?" for anything else.  *)
(***************************************************************************)
EXTENDS Integers, Sequences, FiniteSets, SequencesExt

Token(t) == [kind |-> "token", text |-> t]
Quoted(t) == [kind |-> "quoted", text |-> t]
Mark(t) == [kind |-> "mark", text |-> t]
Comma == Mark(",")
Semicolon == Mark(";")
Equals == Mark("=")
Lexeme == [kind : {"token", "quoted", "mark"}, text : STRING]

Deflate == "PERMESSAGE_DEFLATE"
ClientReset == "CLIENT_NO_CONTEXT_TAKEOVER"
ServerReset == "SERVER_NO_CONTEXT_TAKEOVER"
Sliding == "SLIDING_DEFLATE_WINDOW"

-----------------------------------------------------------------------------
(* ExtensionsParser *)

\* Offers with one more parameter in the last, and with a value for the last parameter of that.
WithParameter(offers, name) ==
    [offers EXCEPT ![Len(offers)].parameters =
        Append(@, [name |-> name, hasValue |-> FALSE, value |-> ""])]
WithValue(offers, text) ==
    LET last == Len(offers[Len(offers)].parameters)
    IN [offers EXCEPT ![Len(offers)].parameters[last] =
            [name |-> @.name, hasValue |-> TRUE, value |-> text]]

\* What the parser makes of lexeme l behind what it has read: where it is, and the offers.
Read(p, l) ==
    CASE p.at = "name" /\ l.kind = "token" ->
             [at |-> "list", offers |-> Append(p.offers, [name |-> l.text, parameters |-> <<>>])]
      [] p.at \in {"list", "parameter"} /\ l = Comma -> [p EXCEPT !.at = "name"]
      [] p.at \in {"list", "parameter"} /\ l = Semicolon -> [p EXCEPT !.at = "parameterName"]
      [] p.at = "parameterName" /\ l.kind = "token" ->
             [at |-> "parameter", offers |-> WithParameter(p.offers, l.text)]
      [] p.at = "parameter" /\ l = Equals -> [p EXCEPT !.at = "value"]
      [] p.at = "value" /\ l.kind \in {"token", "quoted"} ->
             [at |-> "list", offers |-> WithValue(p.offers, l.text)]
      [] OTHER -> [p EXCEPT !.at = "failed"]

Reading(header) ==
    LET read[n \in 0..Len(header)] ==
            IF n = 0 THEN [at |-> "name", offers |-> <<>>] ELSE Read(read[n - 1], header[n])
    IN read[Len(header)]

\* Mutant: an element may be missing behind a comma.
Parses_TrailingComma(header) == Reading(header).at \in {"list", "parameter", "name"}

\* parse() succeeds
Parses(header) == header = <<>> \/ Reading(header).at \in {"list", "parameter"}

-----------------------------------------------------------------------------
(* ExtensionsNegotiator *)

Numeral(n) == <<"8", "9", "10", "11", "12", "13", "14", "15">>[n - 7]

\* windowBitsValue() of a parameter with a value, 0 if that is none of 8 to 15.
WindowBits(text) ==
    IF \E n \in 8..15 : Numeral(n) = text THEN CHOOSE n \in 8..15 : Numeral(n) = text ELSE 0

\* A parameter that the server is able and willing to keep to.
CompatibleParameter(par, options) ==
    CASE par.name = "server_no_context_takeover" -> ~par.hasValue /\ ServerReset \in options
      [] par.name = "client_no_context_takeover" -> ~par.hasValue
      [] par.name = "server_max_window_bits" -> par.hasValue /\ WindowBits(par.value) >= 9
      [] par.name = "client_max_window_bits" -> par.hasValue => WindowBits(par.value) # 0
      [] OTHER -> FALSE

isCompatibleOffer(offer, options) ==
    /\ \A i, j \in DOMAIN offer.parameters :
           offer.parameters[i].name = offer.parameters[j].name => i = j
    /\ \A i \in DOMAIN offer.parameters : CompatibleParameter(offer.parameters[i], options)

\* The window of an accepted offer, 0 if it says nothing of it.
OfferedBits(offer) ==
    LET bits == {WindowBits(par.value) : par \in
                     {q \in ToSet(offer.parameters) : q.name = "server_max_window_bits"}}
    IN IF bits = {} THEN 0 ELSE CHOOSE n \in bits : TRUE

NothingNegotiated(options) ==
    [options |-> options \ {Deflate, ClientReset, ServerReset, Sliding}, bits |-> 0]

\* The offers of a header that the server could take.
Candidates(header, options) ==
    {i \in DOMAIN Reading(header).offers :
        /\ Reading(header).offers[i].name = "permessage-deflate"
        /\ isCompatibleOffer(Reading(header).offers[i], options)}

\* readOffer(): the options that remain, and serverMaxWindowBits, 0 if not negotiated.
readOffer(header, options) ==
    IF Deflate \notin options \/ ~Parses(header) \/ Candidates(header, options) = {}
    THEN NothingNegotiated(options)
    ELSE LET first == CHOOSE i \in Candidates(header, options) :
                          \A j \in Candidates(header, options) : i <= j
         IN [options |-> options, bits |-> OfferedBits(Reading(header).offers[first])]

\* generateOffer(): what the response says.
generateOffer(n) ==
    [agreed |-> Deflate \in n.options,
     clientReset |-> {Deflate, ClientReset} \subseteq n.options,
     serverReset |-> {Deflate, ServerReset} \subseteq n.options,
     bits |-> IF Deflate \in n.options THEN n.bits ELSE 0]

-----------------------------------------------------------------------------
(* The same from the grammar of the header *)

\* The marks behind which an extension and a parameter begin, and those that end one.
Commas(h) == {0} \cup {i \in DOMAIN h : h[i] = Comma}
Semicolons(h) == {i \in DOMAIN h : h[i] = Semicolon}
Stops(h) == {Len(h) + 1} \cup Semicolons(h) \cup Commas(h)

IsToken(h, i) == i \in DOMAIN h /\ h[i].kind = "token"
IsValue(h, i) == i \in DOMAIN h /\ h[i].kind \in {"token", "quoted"}
IsExtension(h, c) == IsToken(h, c + 1) /\ c + 2 \in Stops(h)
IsParameter(h, c) ==
    /\ IsToken(h, c + 1)
    /\ \/ c + 2 \in Stops(h)
       \/ c + 2 \in DOMAIN h /\ h[c + 2] = Equals /\ IsValue(h, c + 3) /\ c + 4 \in Stops(h)
IsHeader(h) ==
    \/ h = <<>>
    \/ /\ \A c \in Commas(h) : IsExtension(h, c)
       /\ \A c \in Semicolons(h) : IsParameter(h, c)

\* Where the parameters of the extension behind c begin, and those of this name.
Given(h, c) == {i \in Semicolons(h) : c < i /\ \A d \in Commas(h) : ~(c < d /\ d < i)}
Asked(h, c, name) == {i \in Given(h, c) : h[i + 1].text = name}

Known == {"server_no_context_takeover", "client_no_context_takeover", "server_max_window_bits",
          "client_max_window_bits"}
NoValue(h, i) == i + 2 \in Stops(h)
HasBits(h, i, n) == ~NoValue(h, i) /\ h[i + 3].text = Numeral(n)

\* An offer of permessage-deflate that the server is able and willing to keep to.
Acceptable(h, c, options) ==
    /\ h[c + 1].text = "permessage-deflate"
    /\ \A i, j \in Given(h, c) : h[i + 1].text = h[j + 1].text => i = j
    /\ {h[i + 1].text : i \in Given(h, c)} \subseteq Known
    /\ \A i \in Asked(h, c, "server_no_context_takeover") : NoValue(h, i) /\ ServerReset \in options
    /\ \A i \in Asked(h, c, "client_no_context_takeover") : NoValue(h, i)
    /\ \A i \in Asked(h, c, "server_max_window_bits") : \E n \in 9..15 : HasBits(h, i, n)
    /\ \A i \in Asked(h, c, "client_max_window_bits") :
        NoValue(h, i) \/ \E n \in 8..15 : HasBits(h, i, n)

\* Where the offers are that are acceptable.
Good(h, options) ==
    {c \in Commas(h) : /\ IsHeader(h) /\ h # <<>> /\ Deflate \in options
                       /\ Acceptable(h, c, options)}

\* What the client may rely on: its first offer that is acceptable, if there is one.
Ask(h, options) ==
    LET first == CHOOSE c \in Good(h, options) : \A d \in Good(h, options) : c <= d
        windows == Asked(h, first, "server_max_window_bits")
    IN IF Good(h, options) = {} THEN [any |-> FALSE, serverReset |-> FALSE, bits |-> 0]
       ELSE [any |-> TRUE,
             serverReset |-> Asked(h, first, "server_no_context_takeover") # {},
             bits |-> IF windows = {} THEN 0
                      ELSE CHOOSE n \in 9..15 : \E i \in windows : HasBits(h, i, n)]
=============================================================================
