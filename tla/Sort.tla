-------------------------------- MODULE Sort --------------------------------
(***************************************************************************)
(* src/stufflib/sort/sort.c: quicksort over an explicit stack of the ranges*)
(* that its recursion has yet to sort, one action for each turn of the     *)
(* loop that partitions, with insertion sort below a threshold.            *)
(*                                                                         *)
(* Lines are sequences of bytes and are compared as tools/sort.c has it.   *)
(* Positions count from 1.                                                 *)
(***************************************************************************)
EXTENDS Integers, Sequences, FiniteSetsExt, SequencesExt

CONSTANT THRESHOLD    \* SL_INSERTSORT_THRESHOLD

ASSUME ThresholdAssumption == THRESHOLD \in Nat \ {0}

VARIABLES
    lines,     \* the array being sorted
    numeric,   \* the order: that of numbers, or that of bytes
    ranges,    \* what is to be sorted next, as <<lo, hi>>, the next one last
    scan       \* the partition under way: lhs, rhs and the pivot

sortVars == <<lines, numeric, ranges, scan>>

NoScan == [active |-> FALSE, lhs |-> 0, rhs |-> 0, pivot |-> <<>>]

(* strtod on small numbers without a sign; all else begins with none and   *)
(* is 0, but for "nan".                                                    *)
IsNaN(line) == IsPrefix(<<110, 97, 110>>, line)
Number(line) ==
    LET digits == Max({n \in 0..Len(line) : \A i \in 1..n : line[i] \in 48..57})
        value[n \in 0..digits] == IF n = 0 THEN 0 ELSE 10 * value[n - 1] + line[n] - 48
    IN  value[digits]

CompareAsDoubles(a, b) == IF IsNaN(a) \/ IsNaN(b) THEN 0 ELSE Number(a) - Number(b)

(* strcmp, which reads up to the terminating NUL. *)
CompareStr(a, b) ==
    LET differ == {i \in 1..(Min({Len(a), Len(b)}) + 1) :
                      Append(a, 0)[i] # Append(b, 0)[i]}
    IN  IF differ = {} THEN 0 ELSE Append(a, 0)[Min(differ)] - Append(b, 0)[Min(differ)]

Compare(a, b) == IF numeric THEN CompareAsDoubles(a, b) ELSE CompareStr(a, b)

(* sl_sort_internal_insertsort: each element in turn moves to the left of  *)
(* the greater ones before it.                                             *)
Inserted(sorted, x) ==
    LET greater(i) == \A j \in i..Len(sorted) : Compare(sorted[j], x) > 0
        at == Min({i \in 1..(Len(sorted) + 1) : greater(i)})
    IN  InsertAt(sorted, at, x)
InsertSorted(seq) ==
    LET sorted[n \in 0..Len(seq)] ==
          IF n = 0 THEN <<>> ELSE Inserted(sorted[n - 1], seq[n])
    IN  sorted[Len(seq)]

Swapped(seq, i, j) == [seq EXCEPT ![i] = seq[j], ![j] = seq[i]]

-----------------------------------------------------------------------------

NextRange == Last(ranges)
lo == NextRange[1]
hi == NextRange[2]

(* The call on the whole array. *)
BeginQuicksort ==
    /\ ranges' = << <<1, Len(lines)>> >>
    /\ UNCHANGED <<lines, numeric, scan>>

Sorting == ranges # <<>> /\ ~scan.active

(* A range of one element or none. *)
SkipRange ==
    /\ Sorting
    /\ lo >= hi
    /\ ranges' = Front(ranges)
    /\ UNCHANGED <<lines, numeric, scan>>

IsShort == lo < hi /\ hi - lo < THRESHOLD

SortShortRange ==
    /\ Sorting
    /\ IsShort
    /\ lines' = SubSeq(lines, 1, lo - 1) \o InsertSorted(SubSeq(lines, lo, hi)) \o
                SubSeq(lines, hi + 1, Len(lines))
    /\ ranges' = Front(ranges)
    /\ UNCHANGED <<numeric, scan>>

(* sl_sort_insertsort without memory: its null result is not looked at.    *)
LeaveShortRange ==
    /\ Sorting
    /\ IsShort
    /\ ranges' = Front(ranges)
    /\ UNCHANGED <<lines, numeric, scan>>

(* sl_misc_midpoint. *)
Midpoint(a, b) == (a + b) \div 2

BeginPartition ==
    /\ Sorting
    /\ hi - lo >= THRESHOLD
    /\ scan' = [active |-> TRUE, lhs |-> lo - 1, rhs |-> hi + 1,
                pivot |-> lines[Midpoint(lo, hi)]]
    /\ UNCHANGED <<lines, numeric, ranges>>

(* The elements where the two inner loops stop, or the place beyond the    *)
(* range if one does not stop in it.                                       *)
NextLeft ==
    Min({i \in (scan.lhs + 1)..hi : Compare(lines[i], scan.pivot) >= 0} \union {hi + 1})
NextRight ==
    Max({i \in lo..(scan.rhs - 1) : Compare(lines[i], scan.pivot) <= 0} \union {lo - 1})

\* Mutant: the right part begins with the last element of the left one.
PartsOverlapping == << <<NextRight, hi>>, <<lo, NextRight>> >>

(* The calls on both parts of a range, the left one first.                 *)
Parts == << <<NextRight + 1, hi>>, <<lo, NextRight>> >>

(* A turn of the loop of sl_sort_internal_hoare_partition.                 *)
ScanInward ==
    /\ scan.active
    /\ IF NextLeft >= NextRight
       THEN /\ ranges' = Front(ranges) \o Parts
            /\ scan' = NoScan
            /\ UNCHANGED lines
       ELSE /\ lines' = Swapped(lines, NextLeft, NextRight)
            /\ scan' = [scan EXCEPT !.lhs = NextLeft, !.rhs = NextRight]
            /\ UNCHANGED ranges
    /\ UNCHANGED numeric
=============================================================================
