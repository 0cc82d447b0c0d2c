----------------------------- MODULE MergeSort -----------------------------
(***************************************************************************)
(* src/stufflib/sort/sort.c: the merge sort, which swaps the roles of its  *)
(* two arrays at each level instead of copying back. Positions count from  *)
(* 0 and a part is from begin to before end, as in the code.               *)
(***************************************************************************)
EXTENDS Sort

(* sl_sort_internal_mergesort_merge: dst with the parts of src before and  *)
(* after mid merged into it. lhs is how far the left part has been copied  *)
(* when the next element of dst is out, and rhs how far the right one has. *)
Merged(src, dst, begin, mid, end) ==
    LET TakesLeft(left, right) ==
          left < mid /\ (right = end \/ Compare(src[left + 1], src[right + 1]) < 0)
        lhs[out \in begin..end] ==
          IF out = begin THEN begin
          ELSE LET left == lhs[out - 1]
               IN  IF TakesLeft(left, mid + (out - 1) - left) THEN left + 1 ELSE left
        rhs(out) == mid + out - lhs[out]
    IN  [i \in 1..Len(dst) |->
            CASE i \notin begin + 1..end -> dst[i]
              [] i \in begin + 1..end /\ lhs[i] > lhs[i - 1] -> src[lhs[i]]
              [] OTHER -> src[rhs(i)]]

(* sl_sort_internal_mergesort: both arrays after each call of it.          *)
(* sl_sort_mergesort: tmp begins as a copy of src and is copied back.      *)
MergeSorted(src) ==
    LET Arrays == [DOMAIN src -> Range(src)]
        Calls  == [src : Arrays, dst : Arrays, begin : 0..Len(src), end : 0..Len(src)]
        after[call \in Calls] ==
          IF call.end - call.begin <= 1 THEN [src |-> call.src, dst |-> call.dst]
          ELSE LET mid   == Midpoint(call.begin, call.end)
                   left  == after[[src |-> call.dst, dst |-> call.src,
                                   begin |-> call.begin, end |-> mid]]
                   right == after[[src |-> left.src, dst |-> left.dst,
                                   begin |-> mid, end |-> call.end]]
               IN  [src |-> right.dst,
                    dst |-> Merged(right.dst, right.src, call.begin, mid, call.end)]
    IN  after[[src |-> src, dst |-> src, begin |-> 0, end |-> Len(src)]].dst
=============================================================================
