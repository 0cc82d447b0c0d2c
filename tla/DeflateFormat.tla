--------------------------- MODULE DeflateFormat ---------------------------
(***************************************************************************)
(* An encoder of zlib streams after RFC 1950 and RFC 1951, the references  *)
(* deflate.h names: what Inflate has to read. It is no part of the         *)
(* repository, whose own encoder writes stored blocks only.                *)
(*                                                                         *)
(* A block is [type, tokens, codes]: tokens are <<byte>> or                *)
(* <<length, distance>>, codes is the shape of a dynamic block's codes.    *)
(***************************************************************************)
EXTENDS Integers, Sequences, SequencesExt

Low(v, n)  == [i \in 1..n |-> (v \div 2^(i - 1)) % 2]
High(v, n) == [i \in 1..n |-> (v \div 2^(n - i)) % 2]

(* RFC 1951, 3.2.5: first value and extra bits of each code. *)
LengthCodes ==
    << <<3,0>>, <<4,0>>, <<5,0>>, <<6,0>>, <<7,0>>, <<8,0>>, <<9,0>>, <<10,0>>,
       <<11,1>>, <<13,1>>, <<15,1>>, <<17,1>>, <<19,2>>, <<23,2>>, <<27,2>>, <<31,2>>,
       <<35,3>>, <<43,3>>, <<51,3>>, <<59,3>>, <<67,4>>, <<83,4>>, <<99,4>>, <<115,4>>,
       <<131,5>>, <<163,5>>, <<195,5>>, <<227,5>>, <<258,0>> >>
DistanceCodes ==
    << <<1,0>>, <<2,0>>, <<3,0>>, <<4,0>>, <<5,1>>, <<7,1>>, <<9,2>>, <<13,2>>, <<17,3>>,
       <<25,3>>, <<33,4>>, <<49,4>>, <<65,5>>, <<97,5>>, <<129,6>>, <<193,6>>, <<257,7>> >>

(* The last code whose first value is not above v. *)
CodeOf(table, v) == Max({k \in DOMAIN table : table[k][1] <= v})
ExtraOf(table, v) == LET c == table[CodeOf(table, v)] IN Low(v - c[1], c[2])

IsLiteral(token) == Len(token) = 1
LiteralSymbol(token) == IF IsLiteral(token) THEN token[1] ELSE 256 + CodeOf(LengthCodes, token[1])
DistanceSymbol(token) == CodeOf(DistanceCodes, token[2]) - 1

(* The text the tokens stand for, behind the text before. *)
TextOf(tokens, before) ==
    LET Copied(text, token) ==
          [i \in 1..token[1] |-> text[Len(text) - token[2] + 1 + ((i - 1) % token[2])]]
        text[n \in 0..Len(tokens)] ==
          CASE n = 0                -> before
            [] IsLiteral(tokens[n]) -> text[n - 1] \o tokens[n]
            [] OTHER                -> text[n - 1] \o Copied(text[n - 1], tokens[n])
    IN  text[Len(tokens)]

(* RFC 1951, 3.2.2: shorter codes precede longer ones, codes of one length *)
(* follow each other in the order of their symbols.                        *)
CanonicalCode(lengths, s) ==
    LET before == {t \in DOMAIN lengths :
                      lengths[t] # 0 /\ (lengths[t] < lengths[s] \/
                                         (lengths[t] = lengths[s] /\ t < s))}
    IN  High(MapThenSumSet(LAMBDA t : 2^(lengths[s] - lengths[t]), before), lengths[s])

(* RFC 1951, 3.2.6. *)
FixedCode(s) ==
    CASE s < 144        -> High(48 + s, 8)
      [] s \in 144..255 -> High(400 + s - 144, 9)
      [] s \in 256..279 -> High(s - 256, 7)
      [] OTHER          -> High(192 + s - 280, 8)

(* Complete codes for the symbols used, all of about one length or each    *)
(* longer than the one before.                                             *)
CodeLengths(used, top, shape) ==
    LET k       == Cardinality(used)
        bits    == CHOOSE b \in 0..8 : 2^b >= k /\ (b = 0 \/ 2^(b - 1) < k)
        rank(s) == Cardinality({t \in used : t <= s})
        len(s)  == CASE k = 1           -> 1
                     [] shape = "flat"  -> IF rank(s) <= 2^bits - k THEN bits - 1 ELSE bits
                     [] shape = "steep" -> IF rank(s) = k THEN k - 1 ELSE rank(s)
                     [] shape = "rising" -> IF rank(s) = 1 THEN k - 1 ELSE k + 1 - rank(s)
    IN  [s \in 0..top |-> IF s \in used THEN len(s) ELSE 0]

(* A run-length code of code lengths: <<symbol, extra value, extra bits>>. *)
RunLengths(s) ==
    LET same(i)    == LET others == {j \in i..Len(s) : s[j] # s[i]}
                      IN  (IF others = {} THEN Len(s) + 1 ELSE Min(others)) - i
        upTo(n, m) == IF n < m THEN n ELSE m
        step(i) ==
          LET n == same(i) IN
          CASE s[i] = 0 /\ n >= 11 -> << <<18, upTo(n, 138) - 11, 7>>, upTo(n, 138)>>
            [] s[i] = 0 /\ n \in 3..10 -> << <<17, n - 3, 3>>, n>>
            [] i > 1 /\ n >= 3 /\ s[i] # 0 /\ s[i - 1] = s[i]
                                   -> << <<16, upTo(n, 6) - 3, 2>>, upTo(n, 6)>>
            [] OTHER               -> << <<s[i], 0, 0>>, 1>>
        from[i \in 1..(Len(s) + 1)] ==
          IF i > Len(s) THEN <<>> ELSE <<step(i)[1]>> \o from[i + step(i)[2]]
    IN  from[1]

Concat(parts) == FoldLeft(LAMBDA a, b : a \o b, <<>>, parts)

(* The bits of tokens and of the end of the block. *)
TokenBits(tokens, literal(_), distance(_)) ==
    Concat([i \in DOMAIN tokens |->
               LET t == tokens[i] IN
               IF IsLiteral(t)
               THEN literal(t[1])
               ELSE literal(LiteralSymbol(t)) \o ExtraOf(LengthCodes, t[1]) \o
                    distance(DistanceSymbol(t)) \o ExtraOf(DistanceCodes, t[2])])
    \o literal(256)

Order == <<16, 17, 18, 0, 8, 7, 9, 6, 10, 5, 11, 4, 12, 3, 13, 2, 14, 1, 15>>

Distances(tokens) ==
    {DistanceSymbol(tokens[i]) : i \in {j \in DOMAIN tokens : ~IsLiteral(tokens[j])}}

(* A lone distance code gets a second one beside it, as zlib does, unless  *)
(* the shape asks for a single one.                                        *)
CodedDistances(block) ==
    LET used == Distances(block.tokens)
    IN  IF Cardinality(used) = 1 /\ ~block.alone
        THEN used \union {IF 0 \in used THEN 1 ELSE 0}
        ELSE used

DynamicBits(block) ==
    LET tokens    == block.tokens
        used      == {LiteralSymbol(tokens[i]) : i \in DOMAIN tokens} \union {256}
        literal   == CodeLengths(used, Max(used), block.codes)
        distances == CodedDistances(block)
        distance  == CodeLengths(distances, Max(distances \union {0}), block.codes)
        runs      == RunLengths([i \in 1..(Max(used) + 1) |-> literal[i - 1]] \o
                                [i \in 1..(Max(distances \union {0}) + 1) |-> distance[i - 1]])
        lengths   == CodeLengths({runs[i][1] : i \in DOMAIN runs}, 18, "flat")
        last      == Max({4} \union {i \in 1..19 : lengths[Order[i]] # 0})
    IN  Low(Max(used) - 256, 5) \o Low(Max(distances \union {0}), 5) \o Low(last - 4, 4) \o
        Concat([i \in 1..last |-> Low(lengths[Order[i]], 3)]) \o
        Concat([i \in DOMAIN runs |->
                   CanonicalCode(lengths, runs[i][1]) \o Low(runs[i][2], runs[i][3])]) \o
        TokenBits(tokens, LAMBDA s : CanonicalCode(literal, s),
                          LAMBDA s : CanonicalCode(distance, s))

(* Up to the next byte. *)
Padding(bits) == [i \in 1..((8 - (Len(bits) % 8)) % 8) |-> 0]

StoredBits(text, start) ==
    Padding(start) \o Low(Len(text), 16) \o Low(65535 - Len(text), 16) \o
    Concat([i \in DOMAIN text |-> Low(text[i], 8)])

TypeNumber == [stored |-> 0, fixed |-> 1, dynamic |-> 2, reserved |-> 3]

(* The blocks' bits behind the bits before; a stored block holds the text  *)
(* its tokens stand for.                                                   *)
BlocksBits(blocks, before) ==
    LET textUpTo[n \in 0..Len(blocks)] ==
          IF n = 0 THEN <<>> ELSE TextOf(blocks[n].tokens, textUpTo[n - 1])
        own(n)  == SubSeq(textUpTo[n], Len(textUpTo[n - 1]) + 1, Len(textUpTo[n]))
        bits[n \in 0..Len(blocks)] ==
          IF n = 0 THEN before
          ELSE LET b     == blocks[n]
                   start == bits[n - 1] \o Low(IF n = Len(blocks) THEN 1 ELSE 0, 1) \o
                            Low(TypeNumber[b.type], 2)
               IN  start \o CASE b.type = "stored"   -> StoredBits(own(n), start)
                              [] b.type = "fixed"    -> TokenBits(b.tokens, FixedCode,
                                                                  LAMBDA s : High(s, 5))
                              [] b.type = "dynamic"  -> DynamicBits(b)
                              [] b.type = "reserved" -> <<>>
    IN  bits[Len(blocks)]

BlocksText(blocks) == TextOf(Concat([i \in DOMAIN blocks |-> blocks[i].tokens]), <<>>)

Bytes(bits) ==
    LET whole == bits \o Padding(bits)
    IN  [i \in 1..(Len(whole) \div 8) |->
            MapThenSumSet(LAMBDA b : whole[8 * (i - 1) + b + 1] * 2^b, 0..7)]

(* A stored block whose three first bits end with a byte has no padding.   *)
StoredUnpadded(blocks, before) ==
    \E n \in DOMAIN blocks :
        /\ blocks[n].type = "stored"
        /\ Len(BlocksBits(SubSeq(blocks, 1, n - 1), before)) % 8 = 5

(* RFC 1950: method and window, the check bits, the blocks and a checksum  *)
(* of four bytes, whose value no one looks at here.                        *)
HeaderBits == Low(120, 8) \o Low(1, 8)
Checksum   == <<0, 0, 0, 0>>
Zlib(blocks) == Bytes(BlocksBits(blocks, HeaderBits)) \o Checksum
=============================================================================
