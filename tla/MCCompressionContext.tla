-------------------------- MODULE MCCompressionContext --------------------------
(* Windows of one or two blocks, and the headers for TLC. *)
EXTENDS CompressionContext

CONSTANTS s1, s2

TwoSessions == {s1, s2}
Symmetry == Permutations(TwoSessions)
ShortReach == [n \in 8..15 |-> IF n = 15 THEN 2 ELSE 1]

\* Every short sequence of lexemes, well formed or not.
Lexemes == {Token("permessage-deflate"), Token("client_max_window_bits"), Quoted("9"), Mark(";"),
            Mark(","), Mark("="), Mark("?")}
Scraps == UNION {[1..n -> Lexemes] : n \in 0..4} \cup
          {<<Token("permessage-deflate"), Mark(";"), Token("client_max_window_bits")>> \o s :
              s \in UNION {[1..n -> Lexemes] : n \in 1..2}}

\* Headers of one or two offers, with up to two parameters each of these.
Flag(name) == <<Mark(";"), Token(name)>>
Valued(name, value) == Flag(name) \o <<Mark("="), value>>
Parameters ==
    {Flag("server_no_context_takeover"), Flag("client_no_context_takeover"),
     Flag("client_max_window_bits"), Flag("server_max_window_bits"), Flag("mode"),
     Valued("server_no_context_takeover", Token("9")),
     Valued("client_no_context_takeover", Quoted("")),
     Valued("client_max_window_bits", Token("8")), Valued("client_max_window_bits", Token("16"))}
    \cup {Valued("server_max_window_bits", v) :
             v \in {Token("8"), Token("9"), Quoted("15"), Token("16"), Token("010")}}
Extension(name, params) == <<Token(name)>> \o FlattenSeq(params)
Offers(n) == {Extension(name, ps) : name \in {"permessage-deflate", "deflate-frame"},
                                    ps \in UNION {[1..k -> Parameters] : k \in 0..n}}
AllHeaders ==
    Scraps \cup Offers(2) \cup {a \o <<Mark(",")>> \o b : a \in Offers(1), b \in Offers(1)}
=============================================================================
