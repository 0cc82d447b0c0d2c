------------------------------ MODULE Inflate ------------------------------
(***************************************************************************)
(* sl_inflate of src/stufflib/png/deflate.c, one action per loop turn: a   *)
(* zlib stream of stored, fixed and dynamic blocks is unpacked into dst.   *)
(*                                                                         *)
(* src is a sequence of bytes and src_bit counts bits from 0, the lowest   *)
(* bit of a byte first. dst_pos is Len(dst). The module fixes no stream:   *)
(* whoever extends it sets src and dstSize. It considers streams that do   *)
(* not end before their last block does, so the assert on the position in  *)
(* src is not reached. Where the code leaves its arrays, pc is "undefined".*)
(***************************************************************************)
EXTENDS Huffman

VARIABLES
    src,          \* the bytes of the stream
    srcBit,       \* state->src_bit
    dst,          \* state->dst, as far as it is written
    dstSize,      \* state->dst.size
    pc,           \* "idle", a place in the code, or how it ended
    isFinal,      \* is_final_block
    counts,       \* num_lengths and num_distances of a dynamic block
    codeLengths,  \* dynamic_code_lengths, as far as they are read
    trees,        \* length_tree, literal_tree and distance_tree
    copy          \* the loop that copies: next position to read, bytes left

inflateVars == <<src, srcBit, dst, dstSize, pc, isFinal, counts, codeLengths, trees, copy>>

CHAR_BIT   == 8
EndOfBlock == 256
NoSymbol   == -1    \* SIZE_MAX

(* sl_deflate_next_bit, on a stream s.                                     *)
BitAt(s, p) == (s[p \div CHAR_BIT + 1] \div 2^(p % CHAR_BIT)) % 2

(* sl_deflate_next_n_bits: the first bit is the lowest. *)
NumberAt(s, p, n) ==
    LET number[i \in 0..n] ==
          IF i = 0 THEN 0 ELSE number[i - 1] + BitAt(s, p + i - 1) * 2^(i - 1)
    IN  number[n]

(* The bits of a code come with the highest first. *)
CodeAt(s, p, n) ==
    LET code[i \in 0..n] == IF i = 0 THEN 0 ELSE 2 * code[i - 1] + BitAt(s, p + i - 1)
    IN  code[n]

(* sl_deflate_decode_next_code: the shortest code the next bits are.       *)
Decode(tree, s, p) ==
    LET lens == {n \in 1..tree.maxCodeLen :
                    p + n <= CHAR_BIT * Len(s) /\ HasCode(tree, CodeAt(s, p, n), n)}
    IN  IF lens = {}
        THEN [symbol |-> NoSymbol, next |-> p + tree.maxCodeLen]
        ELSE [symbol |-> CodeSymbol(tree, CodeAt(s, p, Min(lens)), Min(lens)),
              next   |-> p + Min(lens)]

(* sl_deflate_make_length_codes and sl_deflate_make_distance_codes.        *)
LengthExtra(k) == IF k = 28 THEN 0 ELSE Max({1, k \div 4}) - 1
LengthBase(k) ==
    LET base[i \in 0..k] ==
          CASE i = 0  -> 3
            [] i = 28 -> 258
            [] OTHER  -> base[i - 1] + 2^LengthExtra(i - 1)
    IN  base[k]
DistanceExtra(k) == Max({1, k \div 2}) - 1
DistanceBase(k) ==
    LET base[i \in 0..k] == IF i = 0 THEN 1 ELSE base[i - 1] + 2^DistanceExtra(i - 1)
    IN  base[k]

(* sl_deflate_make_fixed_literal_tree, sl_deflate_make_fixed_distance_tree *)
FixedLiteralTree(last) ==
    Tree([s \in 0..last |-> CASE s < 144 -> 8 [] s \in 144..255 -> 9
                              [] s \in 256..279 -> 7 [] OTHER -> 8])
FixedDistanceTree(last) == Tree([s \in 0..last |-> 5])

LengthOrder == <<16, 17, 18, 0, 8, 7, 9, 6, 10, 5, 11, 4, 12, 3, 13, 2, 14, 1, 15>>

NoTrees == [length |-> EmptyTree, literal |-> EmptyTree, distance |-> EmptyTree]

(* The state before a call, with the stream s and room for n bytes. *)
Stream(s, n) ==
    /\ src = s
    /\ dstSize = n
    /\ srcBit = 0
    /\ dst = <<>>
    /\ isFinal = FALSE
    /\ counts = [lengths |-> 0, distances |-> 0]
    /\ codeLengths = <<>>
    /\ trees = NoTrees
    /\ copy = [from |-> 0, left |-> 0]

-----------------------------------------------------------------------------

(* The checks of the two bytes in front of the first block.                *)
HeaderAccepted ==
    /\ Len(src) >= 3
    /\ (src[1] * 256 + src[2]) % 31 = 0
    /\ src[1] % 16 = 8
    /\ src[1] \div 16 <= 7
    /\ (src[2] \div 32) % 2 = 0

ReadHeader ==
    /\ pc = "header"
    /\ pc' = IF HeaderAccepted THEN "block" ELSE "error"
    /\ srcBit' = 2 * CHAR_BIT
    /\ UNCHANGED <<src, dstSize, dst, isFinal, counts, codeLengths, trees, copy>>

(* The loop of sl_inflate: the final flag and the type of the next block.  *)
BeginBlock ==
    /\ pc = "block"
    /\ isFinal' = (BitAt(src, srcBit) = 1)
    /\ pc' = <<"stored", "fixed", "dynamic", "error">>[NumberAt(src, srcBit + 1, 2) + 1]
    /\ srcBit' = srcBit + 3
    /\ UNCHANGED <<src, dstSize, dst, counts, codeLengths, trees, copy>>

AfterBlock == IF isFinal THEN "done" ELSE "block"

(* sl_inflate_uncompressed_block: LEN, NLEN and LEN bytes, from the byte   *)
(* after the one src_bit is in.                                            *)
StoredAt == srcBit \div CHAR_BIT + 1
Len16(i) == src[i + 1] + 256 * src[i + 2]

\* Mutant: LEN and NLEN are not compared.
StoredAcceptedUnchecked == Len16(StoredAt) <= Len(src) - (StoredAt + 4)

StoredAccepted ==
    /\ Len16(StoredAt) + Len16(StoredAt + 2) = 65535
    /\ Len16(StoredAt) <= Len(src) - (StoredAt + 4)

RejectStored ==
    /\ pc = "stored"
    /\ ~StoredAccepted
    /\ pc' = "error"
    /\ UNCHANGED <<src, dstSize, srcBit, dst, isFinal, counts, codeLengths, trees, copy>>

StoredFits == Len(dst) + Len16(StoredAt) <= dstSize

(* Nothing looks whether there is room for what is copied.                 *)
OverflowStored ==
    /\ pc = "stored"
    /\ StoredAccepted
    /\ ~StoredFits
    /\ pc' = "undefined"
    /\ UNCHANGED <<src, dstSize, srcBit, dst, isFinal, counts, codeLengths, trees, copy>>

CopyStored ==
    /\ pc = "stored"
    /\ StoredAccepted
    /\ StoredFits
    /\ LET first == StoredAt + 4
           end   == first + Len16(StoredAt)
       IN  /\ dst' = dst \o SubSeq(src, first + 1, end)
           /\ srcBit' = end * CHAR_BIT
    /\ pc' = AfterBlock
    /\ UNCHANGED <<src, dstSize, isFinal, counts, codeLengths, trees, copy>>

(* sl_inflate_fixed_block. *)
BeginFixed ==
    /\ pc = "fixed"
    /\ trees' = [NoTrees EXCEPT !.literal  = FixedLiteralTree(287),
                               !.distance = FixedDistanceTree(31)]
    /\ pc' = "symbols"
    /\ UNCHANGED <<src, dstSize, srcBit, dst, isFinal, counts, codeLengths, copy>>

(* sl_inflate_dynamic_block up to the tree of the code lengths: the three  *)
(* counts, then three bits for each length in LengthOrder.                 *)
BeginDynamic ==
    /\ pc = "dynamic"
    /\ LET lengthLengths == 4 + NumberAt(src, srcBit + 10, 4)
           at(i)         == srcBit + 14 + 3 * (i - 1)
           lengthOf(s)   == {NumberAt(src, at(i), 3) :
                                i \in {j \in 1..lengthLengths : LengthOrder[j] = s}}
       IN  /\ trees' = [NoTrees EXCEPT !.length =
                           Tree([s \in 0..18 |-> Max(lengthOf(s) \union {0})])]
           /\ srcBit' = at(lengthLengths + 1)
    /\ counts' = [lengths   |-> 257 + NumberAt(src, srcBit, 5),
                  distances |-> 1 + NumberAt(src, srcBit + 5, 5)]
    /\ codeLengths' = <<>>
    /\ pc' = "codeLengths"
    /\ UNCHANGED <<src, dstSize, dst, isFinal, copy>>

\* Mutant: a repeated length is taken from the start of the list.
RepeatsOfFirst(symbol, s, p) ==
    CASE symbol < 16 -> <<symbol, 1, p>>
      [] symbol = 16 -> <<codeLengths[1], 3 + NumberAt(s, p, 2), p + 2>>
      [] symbol = 17 -> <<0, 3 + NumberAt(s, p, 3), p + 3>>
      [] symbol = 18 -> <<0, 11 + NumberAt(s, p, 7), p + 7>>

(* What a symbol of the length tree stands for: a length, how often it is  *)
(* repeated, and where the stream goes on.                                 *)
Repeats(symbol, s, p) ==
    CASE symbol < 16 -> <<symbol, 1, p>>
      [] symbol = 16 -> <<codeLengths[Len(codeLengths)], 3 + NumberAt(s, p, 2), p + 2>>
      [] symbol = 17 -> <<0, 3 + NumberAt(s, p, 3), p + 3>>
      [] symbol = 18 -> <<0, 11 + NumberAt(s, p, 7), p + 7>>

NextLength == Decode(trees.length, src, srcBit)

(* assert(symbol != SIZE_MAX), assert(i > 0) *)
LengthAsserted ==
    NextLength.symbol = NoSymbol \/ (NextLength.symbol = 16 /\ codeLengths = <<>>)

AbortOnLength ==
    /\ pc = "codeLengths"
    /\ Len(codeLengths) < counts.lengths + counts.distances
    /\ LengthAsserted
    /\ pc' = "aborted"
    /\ UNCHANGED <<src, dstSize, srcBit, dst, isFinal, counts, codeLengths, trees, copy>>

(* Nothing looks whether the last repetition ends within the array.        *)
ReadCodeLength ==
    /\ pc = "codeLengths"
    /\ Len(codeLengths) < counts.lengths + counts.distances
    /\ ~LengthAsserted
    /\ LET repeats == Repeats(NextLength.symbol, src, NextLength.next)
       IN  /\ codeLengths' = codeLengths \o [i \in 1..repeats[2] |-> repeats[1]]
           /\ srcBit' = repeats[3]
    /\ pc' = IF Len(codeLengths') <= counts.lengths + counts.distances
             THEN "codeLengths" ELSE "undefined"
    /\ UNCHANGED <<src, dstSize, dst, isFinal, counts, trees, copy>>

MakeTrees ==
    /\ pc = "codeLengths"
    /\ Len(codeLengths) = counts.lengths + counts.distances
    /\ trees' = [NoTrees EXCEPT
                   !.literal  = Tree([s \in 0..(counts.lengths - 1) |-> codeLengths[s + 1]]),
                   !.distance = Tree([s \in 0..(counts.distances - 1) |->
                                         codeLengths[counts.lengths + s + 1]])]
    /\ codeLengths' = <<>>
    /\ pc' = "symbols"
    /\ UNCHANGED <<src, dstSize, srcBit, dst, isFinal, counts, copy>>

(* The loop of sl_deflate_inflate_block. *)
NextLiteral == Decode(trees.literal, src, srcBit)

WriteLiteral ==
    /\ pc = "symbols"
    /\ NextLiteral.symbol \in 0..(EndOfBlock - 1)
    /\ Len(dst) < dstSize
    /\ dst' = Append(dst, NextLiteral.symbol)
    /\ srcBit' = NextLiteral.next
    /\ UNCHANGED <<src, dstSize, pc, isFinal, counts, codeLengths, trees, copy>>

EndBlock ==
    /\ pc = "symbols"
    /\ NextLiteral.symbol = EndOfBlock
    /\ srcBit' = NextLiteral.next
    /\ pc' = AfterBlock
    /\ UNCHANGED <<src, dstSize, dst, isFinal, counts, codeLengths, trees, copy>>

(* The loop does not run from a beginning behind its end, which is where a *)
(* beginning in front of dst is in size_t, unless the end is there as well.*)
AfterDistance(from, length) ==
    IF from >= 0 THEN "copy"
    ELSE IF from + length >= 0 THEN "symbols"
    ELSE IF Len(dst) < dstSize THEN "undefined"
    ELSE "aborted"

(* A length and a distance, with their extra bits. For the reserved symbols*)
(* of the fixed tree, and when none is found in a tree, the arrays of the  *)
(* distances are read behind their end.                                    *)
BeginCopy ==
    /\ pc = "symbols"
    /\ NextLiteral.symbol \in 257..285
    /\ LET lenSymbol  == NextLiteral.symbol - 257
           afterLen   == NextLiteral.next + LengthExtra(lenSymbol)
           length     == LengthBase(lenSymbol) +
                         NumberAt(src, NextLiteral.next, LengthExtra(lenSymbol))
           distance   == Decode(trees.distance, src, afterLen)
           distSymbol == distance.symbol
       IN  IF distSymbol \notin 0..29
           THEN pc' = "undefined" /\ UNCHANGED <<srcBit, copy>>
           ELSE /\ copy' = [from |-> Len(dst) - (DistanceBase(distSymbol) +
                                NumberAt(src, distance.next, DistanceExtra(distSymbol))),
                            left |-> length]
                /\ srcBit' = distance.next + DistanceExtra(distSymbol)
                /\ pc' = AfterDistance(copy'.from, length)
    /\ UNCHANGED <<src, dstSize, dst, isFinal, counts, codeLengths, trees>>

(* The copied bytes may be ones the same copy has just written. *)
CopyByte ==
    /\ pc = "copy"
    /\ Len(dst) < dstSize
    /\ dst' = Append(dst, dst[copy.from + 1])
    /\ copy' = [from |-> copy.from + 1, left |-> copy.left - 1]
    /\ pc' = IF copy.left = 1 THEN "symbols" ELSE "copy"
    /\ UNCHANGED <<src, dstSize, srcBit, isFinal, counts, codeLengths, trees>>

(* assert(state->dst_pos < state->dst.size), for a literal and in a copy   *)
AbortWithoutRoom ==
    /\ \/ pc = "symbols" /\ NextLiteral.symbol \in 0..(EndOfBlock - 1)
       \/ pc = "copy"
    /\ Len(dst) = dstSize
    /\ pc' = "aborted"
    /\ UNCHANGED <<src, dstSize, srcBit, dst, isFinal, counts, codeLengths, trees, copy>>

(* assert(symbol < 286) *)
AbortOnReserved ==
    /\ pc = "symbols"
    /\ NextLiteral.symbol \in {NoSymbol, 286, 287}
    /\ pc' = "aborted"
    /\ UNCHANGED <<src, dstSize, srcBit, dst, isFinal, counts, codeLengths, trees, copy>>

InflateNext ==
    \/ ReadHeader
    \/ BeginBlock
    \/ RejectStored
    \/ OverflowStored
    \/ CopyStored
    \/ BeginFixed
    \/ BeginDynamic
    \/ AbortOnLength
    \/ ReadCodeLength
    \/ MakeTrees
    \/ WriteLiteral
    \/ EndBlock
    \/ BeginCopy
    \/ CopyByte
    \/ AbortWithoutRoom
    \/ AbortOnReserved
=============================================================================
