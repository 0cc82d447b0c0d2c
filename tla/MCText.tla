------------------------------- MODULE MCText -------------------------------
(***************************************************************************)
(* Commands on short files. A job is a command, its arguments and what its *)
(* files hold; letters stand for themselves in comments.                   *)
(***************************************************************************)
EXTENDS Text

BoundedSeqs(S, n) == UNION {[1..k -> S] : k \in 0..n}

Job(command, files) ==
    [command |-> command, files |-> files, pattern |-> <<>>, replacement |-> <<>>,
     begin |-> 0, count |-> 0, numeric |-> FALSE, reverse |-> FALSE]

a == 97
b == 98
Accent == <<195, 169>>         \* U+00E9
Water  == <<230, 176, 180>>    \* U+6C34
Hex(c, d) == <<48, 120, c, d>>

(* Every border of the decoder's table, one byte to either side of it.     *)
Borders ==
    {0, 127, 128, 143, 144, 159, 160, 191, 192, 193, 194, 223, 224, 225, 236, 237,
     238, 239, 240, 241, 243, 244, 245, 255}
Follows == {127, 128, 143, 144, 159, 160, 191, 192}
Encodings ==
    BoundedSeqs(Borders, 2)
        \union {<<x, y, z>> : x \in Borders, y \in Follows, z \in {127, 128, 191, 192}}
        \union {<<x, y, z, w>> : x \in {239, 240, 241, 243, 244, 245}, y \in Follows,
                                z \in {127, 128, 191, 192}, w \in {127, 128, 191, 192}}

Decoding == {Job("concat", <<bytes>>) : bytes \in Encodings}

Joining ==
    {Job("concat", files) : files \in
        {<<Water, <<a, a>> \o Accent>>, <<<<a>>, <<>>, <<b>>>>, <<Accent, <<195>>>>,
         <<<<a, a, a, a>>, Water, <<b, b, b>>>>}}

Patterns == {<<>>, <<a>>, <<a, a>>, <<a, b>>, <<a, b, a>>}

Counting(n) ==
    {[Job("count", <<text>>) EXCEPT !.pattern = p] :
        text \in BoundedSeqs({a, b}, n), p \in Patterns}
    \union {[Job("count", <<text>>) EXCEPT !.pattern = <<a>>] :
        text \in {Water \o <<a>>, <<a, 195>>}}

Slicing(n) ==
    {[Job("slicelines", <<text>>) EXCEPT !.begin = i, !.count = k] :
        text \in BoundedSeqs({a, NEWLINE}, n), i \in 0..3, k \in 0..2}

HexPatterns == {Hex(54, 49), Hex(48, 48), Hex(54, 49) \o <<54>>, Hex(54, 103),
                Hex(43, 97), Hex(45, 49)}

Replacing(n) ==
    {[Job("replace", <<text>>) EXCEPT !.pattern = p, !.replacement = r] :
        text \in BoundedSeqs({a, b}, n), p \in Patterns \union HexPatterns,
        r \in {<<>>, <<b>>, Hex(54, 50)}}
    \union {[Job("replace", <<text>>) EXCEPT !.pattern = p, !.replacement = r] :
        text \in {Water \o <<a>>, Accent \o Accent, <<a, 0, 6, 9, b>>},
        p \in {Water, Hex(97, 57), Hex(98, 48), Hex(48, 48), Hex(54, 103),
              Hex(32, 57)},
        r \in {<<b>>, Water, Hex(102, 102)}}

Numbers == {<<49>>, <<50>>, <<49, 48>>}                     \* 1, 2, 10
NumbersOrNaN == {<<49>>, <<50>>, <<110, 97, 110>>}

Joined(seq) == Printed(seq)

Sortings(n) ==
    {[Job("sort", <<Joined(seq)>>) EXCEPT !.numeric = num, !.reverse = r] :
        seq \in BoundedSeqs(Numbers, n), num \in BOOLEAN, r \in BOOLEAN}
    \union {[Job("sort", <<Joined(seq)>>) EXCEPT !.numeric = TRUE] :
        seq \in BoundedSeqs(NumbersOrNaN, n)}
    \union {Job("sort", <<text>>) :
        text \in BoundedSeqs({a, NEWLINE}, 3)
            \union {<<a, 0, b, NEWLINE, a>>, <<b, NEWLINE, 0, a, NEWLINE, a>>,
                    <<b, NEWLINE, 195, NEWLINE>>}}

(* Long enough for the errors of one run to fill the stack.                *)
LongSortings ==
    {Job("sort", <<Joined([i \in 1..7 |-> <<97 + ((3 * i) % 7)>>])>>)}

Library(n) ==
    {[Job(command, seq) EXCEPT !.numeric = TRUE] :
        command \in {"insertsort", "mergesort"},
        seq \in BoundedSeqs(Numbers, n) \ {<<>>}}

Faults == {{"open"}, {"read"}, {"memory"}, {"write"}}

With(jobs, faults) == {[job |-> j, fault |-> f] : j \in jobs, f \in faults}

MCRuns ==
    With(Decoding \union Joining \union Counting(5) \union Slicing(5) \union
         Replacing(5) \union Sortings(5) \union LongSortings \union Library(6), {{}})
    \union
    With(Joining \union Counting(3) \union Slicing(3) \union Replacing(3) \union
         Sortings(3) \union LongSortings \union Library(3), Faults)
=============================================================================
