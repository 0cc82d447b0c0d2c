------------------------------ MODULE Huffman ------------------------------
(***************************************************************************)
(* sl_huffman_init: from the length of each symbol's code to the tree that *)
(* decodes them. Lengths are a function on 0..max_symbol, 0 marking a      *)
(* symbol without a code. A tree has, for each length, the first code of   *)
(* that length and the symbols of the codes from there on.                 *)
(***************************************************************************)
EXTENDS Integers, Sequences, FiniteSets, FiniteSetsExt

(* The zero-initialised tree: it has no code. *)
EmptyTree == [maxCodeLen |-> 0, first |-> <<>>, symbols |-> <<>>]

MaxCodeLen(lengths) == Max({lengths[s] : s \in DOMAIN lengths})

(* How many symbols have a code of length n; none has the length 0. *)
CodeLengthCount(lengths, n) ==
    IF n = 0 THEN 0 ELSE Cardinality({s \in DOMAIN lengths : lengths[s] = n})

(* next_code: the first code of each length follows the last one of the    *)
(* length before, with one more bit.                                       *)
FirstCodes(lengths) ==
    LET first[n \in 0..MaxCodeLen(lengths)] ==
          IF n = 0 THEN 0 ELSE 2 * (first[n - 1] + CodeLengthCount(lengths, n - 1))
    IN  first

(* The symbols with codes of length n, in the order of their codes, which  *)
(* is their own.                                                           *)
SymbolsOf(lengths, n) ==
    SelectSeq([i \in 1..Cardinality(DOMAIN lengths) |-> i - 1], LAMBDA s : lengths[s] = n)

(* One symbol, or none that has a code, gives the empty tree: the first by *)
(* the early return, the other because no array of size 0 is allocated.    *)
Tree(lengths) ==
    LET longest == MaxCodeLen(lengths)
    IN  IF Cardinality(DOMAIN lengths) = 1 \/ longest = 0
        THEN EmptyTree
        ELSE [maxCodeLen |-> longest,
              first      |-> [n \in 1..longest |-> FirstCodes(lengths)[n]],
              symbols    |-> [n \in 1..longest |-> SymbolsOf(lengths, n)]]

(* sl_huffman_contains and sl_huffman_get. *)
HasCode(tree, code, codeLen) ==
    code - tree.first[codeLen] \in 0..(Len(tree.symbols[codeLen]) - 1)
CodeSymbol(tree, code, codeLen) == tree.symbols[codeLen][code - tree.first[codeLen] + 1]
=============================================================================
