------------------------------ MODULE Partition ------------------------------
(***************************************************************************)
(* What a union-find structure promises (src/stufflib/unionfind/           *)
(* unionfind.h): classes of elements, each named by one of its members.    *)
(* A union joins two classes under the name of the first one's, which      *)
(* callers rely on: img.c keeps the size and the sum of a segment at the   *)
(* index of its name and adds to those of the first argument.              *)
(***************************************************************************)
CONSTANTS Elem, NoElem

VARIABLES
  class,   \* the name of each element's class
  answer   \* the last element asked for, and the name given

vars == <<class, answer>>

Merge(c, lhs, rhs) == [x \in Elem |-> IF c[x] = c[rhs] THEN c[lhs] ELSE c[x]]

Init ==
  /\ class = [x \in Elem |-> x]
  /\ answer = [of |-> NoElem, root |-> NoElem]

Union(lhs, rhs) ==
  /\ class' = Merge(class, lhs, rhs)
  /\ UNCHANGED answer

FindRoot(x) ==
  /\ answer' = [of |-> x, root |-> class[x]]
  /\ UNCHANGED class

Next ==
  \/ \E lhs, rhs \in Elem : Union(lhs, rhs)
  \/ \E x \in Elem : FindRoot(x)

Spec == Init /\ [][Next]_vars
==============================================================================
