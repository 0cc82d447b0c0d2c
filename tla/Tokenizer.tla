----------------------------- MODULE Tokenizer -----------------------------
(***************************************************************************)
(* src/stufflib/tokenizer/tokenizer.c: the pieces of data between the      *)
(* places where a delimiter is found. An iterator is the index where its   *)
(* token begins, counted from 0, the token, and how many it has passed.    *)
(***************************************************************************)
EXTENDS Integers, Sequences, FiniteSetsExt

(* sl_span_find: the numbers of bytes of data before a pattern in it.      *)
FoundAt(data, pattern) ==
    {n \in 0..(Len(data) - Len(pattern)) :
        pattern # <<>> /\ SubSeq(data, n + 1, n + Len(pattern)) = pattern}

(* sl_tokenizer_next_token: up to the delimiter, or all that is left.      *)
NextToken(data, delimiter, begin) ==
    LET tail == SubSeq(data, begin + 1, Len(data))
        ends == FoundAt(tail, delimiter)
    IN  IF ends = {} THEN tail ELSE SubSeq(tail, 1, Min(ends))

(* sl_tokenizer_create, sl_tokenizer_iter. *)
Tokens(data, delimiter) ==
    [index |-> 0, pos |-> 0, token |-> NextToken(data, delimiter, 0)]

\* Mutant: the delimiter is not skipped where it follows at once.
AdvancedOverToken(iter, data, delimiter) ==
    LET begin == iter.index + Len(iter.token) + (IF iter.token = <<>> THEN 1 ELSE Len(delimiter))
    IN  [index |-> Min({begin, Len(data)}),
         pos   |-> iter.pos + 1,
         token |-> NextToken(data, delimiter, begin)]

(* sl_tokenizer_iter_advance. *)
Advanced(iter, data, delimiter) ==
    LET begin == iter.index + Len(iter.token) + Len(delimiter)
    IN  [index |-> Min({begin, Len(data)}),
         pos   |-> iter.pos + 1,
         token |-> NextToken(data, delimiter, begin)]

(* sl_tokenizer_iter_is_done. *)
IsDone(iter, data) == iter.index = Len(data)
=============================================================================
