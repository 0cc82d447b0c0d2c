------------------------------ MODULE UnionFind ------------------------------
(***************************************************************************)
(* The union-find structure of src/stufflib/unionfind/unionfind.c: an      *)
(* array of parents, climbed by find_root and rewritten by set_root, which *)
(* makes the root of the left side the parent of every element on the way  *)
(* from the right side to its root, that root included.                    *)
(*                                                                         *)
(* A step is a turn of one of the two loops.  The client calls find_root   *)
(* and union on any elements, one call after the other.                    *)
(***************************************************************************)
EXTENDS Integers

CONSTANTS
  count,  \* uf->count
  ROOT    \* SL_UNIONFIND_ROOT, SIZE_MAX: no index

Elem == 0 .. count - 1

ASSUME UnionFindAssumption ==
  /\ count \in Nat
  /\ ROOT \notin Elem

VARIABLES
  parents,  \* uf->parents
  pc,       \* the call that runs and the loop it is in
  lhs,      \* what find_root was called with
  rhs,      \* the second argument of union
  index,    \* index of find_root
  root,     \* root of set_root
  parent,   \* parent of set_root
  answer    \* what the client's last find_root was called with and returned

call == <<lhs, rhs, index, root, parent>>
vars == <<parents, pc, call, answer>>

\* Between two calls there are no arguments and no locals.
EndOfCall ==
  /\ pc' = "idle"
  /\ lhs' = ROOT /\ rhs' = ROOT /\ index' = ROOT /\ root' = ROOT /\ parent' = ROOT

\* sl_unionfind_init
Init ==
  /\ parents = [x \in Elem |-> ROOT]
  /\ pc = "idle"
  /\ lhs = ROOT /\ rhs = ROOT /\ index = ROOT /\ root = ROOT /\ parent = ROOT
  /\ answer = [of |-> ROOT, root |-> ROOT]

CallFindRoot(x) ==
  /\ pc = "idle"
  /\ pc' = "find"
  /\ lhs' = x /\ index' = x
  /\ UNCHANGED <<parents, rhs, root, parent, answer>>

\* sl_unionfind_union: find the root of the left side first.
CallUnion(l, r) ==
  /\ pc = "idle"
  /\ pc' = "union"
  /\ lhs' = l /\ index' = l /\ rhs' = r
  /\ UNCHANGED <<parents, root, parent, answer>>

-----------------------------------------------------------------------------
(* sl_unionfind_find_root *)

\* Mutant: the loop ends one step too late.
ClimbPast ==
  /\ pc \in {"find", "union"}
  /\ index # ROOT
  /\ index' = parents[index]
  /\ UNCHANGED <<parents, pc, lhs, rhs, root, parent, answer>>

Climb ==
  /\ pc \in {"find", "union"}
  /\ parents[index] # ROOT
  /\ index' = parents[index]
  /\ UNCHANGED <<parents, pc, lhs, rhs, root, parent, answer>>

FindReturns ==
  /\ pc = "find"
  /\ parents[index] = ROOT
  /\ answer' = [of |-> lhs, root |-> index]
  /\ EndOfCall
  /\ UNCHANGED parents

\* The root is the argument of set_root, which begins at the right side.
BeginSetRoot ==
  /\ pc = "union"
  /\ parents[index] = ROOT
  /\ root' = index
  /\ parent' = rhs
  /\ pc' = "set"
  /\ lhs' = ROOT /\ rhs' = ROOT /\ index' = ROOT
  /\ UNCHANGED <<parents, answer>>

-----------------------------------------------------------------------------
(* sl_unionfind_set_root *)

\* Mutant: the root is made its own parent.
NewParentsOfAll == [parents EXCEPT ![parent] = root]

\* The root itself keeps ROOT.
NewParents == IF parent # root THEN [parents EXCEPT ![parent] = root] ELSE parents

\* Mutant: the walk goes on from what has just been written.
NextOverwritten == NewParents[parent]

\* next is read before the parent is written.
NextParent == parents[parent]

SetParent ==
  /\ pc = "set"
  /\ parent # ROOT
  /\ parents' = NewParents
  /\ parent' = NextParent
  /\ UNCHANGED <<pc, lhs, rhs, index, root, answer>>

EndSetRoot ==
  /\ pc = "set"
  /\ parent = ROOT
  /\ EndOfCall
  /\ UNCHANGED <<parents, answer>>

-----------------------------------------------------------------------------
Call ==
  \/ \E x \in Elem : CallFindRoot(x)
  \/ \E l, r \in Elem : CallUnion(l, r)

Step == Climb \/ FindReturns \/ BeginSetRoot \/ SetParent \/ EndSetRoot

Next == Call \/ Step

Spec == Init /\ [][Next]_vars

\* A call that has begun runs on.  No further call need be made.
FairSpec == Spec /\ WF_vars(Step)

-----------------------------------------------------------------------------
(* The classes *)

\* The sets that the parents do not lead out of.
Closed(p, S) == \A x \in S : p[x] # ROOT => p[x] \in S

\* x, its parent, the parent's parent and so on: what every closed set with x has.
Line(p, x) == {y \in Elem : \A S \in SUBSET Elem : x \in S /\ Closed(p, S) => y \in S}

\* The end of the line.
RootOf(p, x) == CHOOSE y \in Line(p, x) : p[y] = ROOT

\* While set_root walks, what it has not reached yet belongs to root already.
Class ==
  [x \in Elem |->
     IF pc = "set" /\ parent # ROOT /\ RootOf(parents, x) = RootOf(parents, parent)
     THEN root ELSE RootOf(parents, x)]

-----------------------------------------------------------------------------
\* The types of the variables: find_root never takes the index ROOT.
TypeOK ==
  /\ parents \in [Elem -> Elem \cup {ROOT}]
  /\ pc \in {"idle", "find", "union", "set"}
  /\ {lhs, rhs, index, root, parent} \subseteq Elem \cup {ROOT}
  /\ pc \in {"find", "union"} => index \in Elem /\ lhs \in Elem
  /\ pc = "union" => rhs \in Elem
  /\ pc = "set" => root \in Elem
  /\ answer \in [of : Elem \cup {ROOT}, root : Elem \cup {ROOT}]

\* The parents never form a cycle, also not while a union is half done: from
\* every element a root is reached, on which find_root rests.
Rooted == \A x \in Elem : \E y \in Line(parents, x) : parents[y] = ROOT

\* Once a union has returned, both sides are under the root the left side had.
\* Elements beside the walked path have moved with it.
Partitions == INSTANCE Partition WITH class <- Class, NoElem <- ROOT

ImplementsPartition == Partitions!Spec

\* Every call returns.
Returns == (pc # "idle") ~> (pc = "idle")
==============================================================================
