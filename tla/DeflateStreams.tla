--------------------------- MODULE DeflateStreams ---------------------------
(***************************************************************************)
(* The streams MCInflate unpacks: all that an encoder may do with a few    *)
(* tokens in one or two blocks, some long ones, and some with one field    *)
(* damaged or with something the format has no meaning for.                *)
(***************************************************************************)
EXTENDS DeflateFormat

Tokens == {<<0>>, <<200>>, <<3, 1>>, <<4, 3>>}

Size(token) == IF IsLiteral(token) THEN 1 ELSE token[1]

(* No token copies from before the start of the text, of which n bytes are *)
(* in front of these tokens.                                               *)
Whole(tokens, n) ==
    \A i \in DOMAIN tokens :
        IsLiteral(tokens[i]) \/
            tokens[i][2] <= n + MapThenSumSet(LAMBDA j : Size(tokens[j]), 1..(i - 1))

Lists(lengths, n) == {t \in UNION {[1..k -> Tokens] : k \in lengths} : Whole(t, n)}

Block(type, tokens, codes) ==
    [type |-> type, tokens |-> tokens, codes |-> codes, alone |-> FALSE]

Blocks(tokens) ==
    {Block(type, tokens, "flat") : type \in {"stored", "fixed"}} \union
    {Block("dynamic", tokens, codes) :
        codes \in IF tokens = <<>> THEN {} ELSE {"flat", "steep", "rising"}}

(* One block of up to n tokens. *)
Lone(n) == {<<b>> : b \in UNION {Blocks(t) : t \in Lists(1..n, 0)}}

(* Two blocks of any types; the second may be empty, and may copy from the *)
(* first, which has up to n tokens.                                        *)
Pairs(n) ==
    UNION {Blocks(t) \X UNION {Blocks(u) : u \in Lists(0..1, Len(t))} : t \in Lists(1..n, 0)}

(* Three blocks, the first two alike. *)
Triples(first, last) == {<<a, a, b>> : a \in Blocks(first), b \in Blocks(last)}

(* Behind a row of literals the longest and the shortest values of length  *)
(* codes, and distances that need extra bits.                              *)
Row(n) ==
    [i \in 1..n |-> << <<0, 1, 2, 3, 4, 5, 6, 143, 144, 255>>[i] >>]
Long(row) ==
    LET copies == {<< <<n, d>> >> : n \in {3, 10, 11, 12, 19, 22, 114}, d \in {1, 5, 6, 10}} \union
                  {<< <<258, 9>>, <<n, 200>> >> : n \in {3, 115, 257, 258}}
    IN  {<<b>> : b \in UNION {Blocks(row \o c) \ {Block("stored", row \o c, "flat")} : c \in copies}}

(* One distance code for a block, the smallest: its tree has one symbol.   *)
Alone(tokens) == {<<[Block("dynamic", tokens, "flat") EXCEPT !.alone = TRUE]>>}

(* A block type and a symbol that are reserved. *)
Reserved(tokens) ==
    {<<Block("fixed", Append(tokens, <<286>>), "flat")>>,
     <<Block("fixed", tokens, "flat"), Block("reserved", <<>>, "flat")>>}
IsReserved(blocks) ==
    \E n \in DOMAIN blocks :
        \/ blocks[n].type = "reserved"
        \/ \E i \in DOMAIN blocks[n].tokens : blocks[n].tokens[i] = <<286>>

Short(n) == [i \in 1..n |-> << <<0, 200>>[i] >>]

(* One damaged field: the two bytes of the header, once for each test of   *)
(* them, and the lengths of a stored block of two bytes.                   *)
Check(a, flags) == CHOOSE f \in flags..(flags + 30) : (a * 256 + f) % 31 = 0
Damaged(tokens) ==
    LET stored == Zlib(<<Block("stored", tokens, "flat")>>)
        fixed  == Zlib(<<Block("fixed", tokens, "flat")>>)
        heads  == {<<120, 2>>, <<119, Check(119, 0)>>, <<136, Check(136, 0)>>,
                   <<120, Check(120, 32)>>}
        sizes  == {<<2, 0, 252, 255>>, <<7, 0, 248, 255>>}
    IN  {h \o SubSeq(fixed, 3, Len(fixed)) : h \in heads} \union {<<120, 1>>} \union
        {SubSeq(stored, 1, 3) \o z \o SubSeq(stored, 8, Len(stored)) : z \in sizes}

(* A copy from in front of the text: from one byte before its beginning, or*)
(* more than its length before.                                            *)
Far(tokens) ==
    {Zlib(<<Block("fixed", Append(tokens, <<3, Len(tokens) + n>>), "flat")>>) : n \in {1, 4}}

(* A copy whose distance has one of the two symbols that are reserved.     *)
ReservedDistance(tokens) ==
    {Bytes(HeaderBits \o <<1>> \o Low(TypeNumber["fixed"], 2) \o
           TokenBits(Append(tokens, <<3, 1>>), FixedCode, LAMBDA s : High(symbol, 5))) \o Checksum :
        symbol \in {30, 31}}

(* Four distances of equal code lengths, of which the last are a repetition*)
(* and the count, whose lowest bit is the first of the fourth byte, is one *)
(* too small.                                                              *)
FourDistances == <<<<0>>, <<0>>, <<0>>, <<0>>, <<3, 1>>, <<3, 2>>, <<3, 3>>, <<3, 4>>>>
LongLengths == {[Zlib(<<Block("dynamic", FourDistances, "flat")>>) EXCEPT ![4] = @ - 1]}

(* Code lengths without a code.                                            *)
NoLengths ==
    {Bytes(HeaderBits \o <<1>> \o Low(TypeNumber["dynamic"], 2) \o [i \in 1..26 |-> 0]) \o Checksum}
=============================================================================
