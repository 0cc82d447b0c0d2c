----------------------------- MODULE JsonGrammar -----------------------------
(* The grammar of JSON (https://www.json.org, the page README.md:21 names)   *)
(* as a nondeterministic pushdown recogniser, independent of the state       *)
(* machine of json.c: what a JSON text is, and how many nodes it has.        *)
(*                                                                           *)
(* A character stands for a class the parser does not tell apart: "a" any    *)
(* letter, "1" any digit but 0, "true" a whole literal, "\n" any white space *)
(* that is a control character, NUL the byte 0.                              *)
EXTENDS Naturals, Sequences

DQ == "\""
BS == "\\"
NL == "\n"
NUL == "NUL"

Space   == {" ", NL}
Digit   == {"0", "1"}
Escaped == {DQ, BS, "true"}         \* after a backslash ("\t...", "\"", "\\")
Plain   == {"{", "}", "[", "]", ",", ":", "-", "+", ".", "e", "a", "true", " "} \cup Digit
Char    == Plain \cup {DQ, BS, NL, NUL}

(* A rule maps a symbol to its alternatives.  "node" derives nothing and     *)
(* marks the end of one value.                                               *)
Rule ==
  [ json       |-> {<<"element">>},
    element    |-> {<<"ws", "value", "ws">>},
    ws         |-> {<<>>} \cup {<<c, "ws">> : c \in Space},
    value      |-> {<<"{", "ws", "}", "node">>, <<"{", "members", "}", "node">>,
                    <<"[", "ws", "]", "node">>, <<"[", "elements", "]", "node">>,
                    <<"string", "node">>, <<"number", "node">>, <<"true", "node">>},
    members    |-> {<<"member">>, <<"member", ",", "members">>},
    member     |-> {<<"ws", "string", "ws", ":", "element">>},
    elements   |-> {<<"element">>, <<"element", ",", "elements">>},
    string     |-> {<<DQ, "characters", DQ>>},
    characters |-> {<<>>} \cup {<<c, "characters">> : c \in Plain}
                          \cup {<<BS, c, "characters">> : c \in Escaped},
    number     |-> {<<"int", "frac", "exp">>, <<"-", "int", "frac", "exp">>},
    int        |-> {<<"0">>, <<"1", "digits">>},
    digits     |-> {<<>>} \cup {<<c, "digits">> : c \in Digit},
    frac       |-> {<<>>} \cup {<<".", c, "digits">> : c \in Digit},
    exp        |-> {<<>>} \cup {<<"e", c, "digits">> : c \in Digit}
                          \cup {<<"e", s, c, "digits">> : s \in {"+", "-"}, c \in Digit} ]

(* A derivation: the symbols still to match, and the nodes already matched.  *)
Whole == [rest |-> <<"json">>, nodes |-> 0]

Settled(d) == d.rest = <<>> \/ Head(d.rest) \in Char

Expand(d) ==
  IF Settled(d) THEN {d}
  ELSE IF Head(d.rest) = "node" THEN {[rest |-> Tail(d.rest), nodes |-> d.nodes + 1]}
  ELSE {[d EXCEPT !.rest = alternative \o Tail(d.rest)] : alternative \in Rule[Head(d.rest)]}

(* No chain of symbols without a character between them is longer.           *)
LongestChain == 10

Settle(ds) ==
  LET round[i \in 0..LongestChain] ==
        IF i = 0 THEN ds ELSE UNION {Expand(d) : d \in round[i - 1]}
  IN  round[LongestChain]

Start == Settle({Whole})

(* The derivations that go on after the character c; none when no JSON text  *)
(* begins with what was read so far.                                         *)
After(ds, c) ==
  Settle({[d EXCEPT !.rest = Tail(d.rest)] :
             d \in {e \in ds : e.rest # <<>> /\ Head(e.rest) = c}})

Accepting(ds) == {d \in ds : d.rest = <<>>}

(* The next symbol is a character of a string's content.                     *)
InString(d) == Len(d.rest) > 1 /\ d.rest[2] = "characters"

(* The derivations that do not open a container with the next character, and *)
(* the brackets such a one still has to close, the innermost first.          *)
Inside(ds) ==
  {d \in ds : d.rest = <<>> \/ Head(d.rest) \notin {"{", "["} \/ InString(d)}

Brackets(rest) ==
  LET from[i \in 1..Len(rest) + 1] ==
        IF i = Len(rest) + 1 THEN <<>>
        ELSE IF rest[i] \in {"}", "]"} THEN <<rest[i]>> \o from[i + 1]
        ELSE from[i + 1]
  IN  from[1]

ToClose(d) == Brackets(IF InString(d) THEN Tail(d.rest) ELSE d.rest)
==============================================================================
