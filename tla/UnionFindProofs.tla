--------------------------- MODULE UnionFindProofs ---------------------------
(***************************************************************************)
(* Proofs about UnionFind, for any number of elements: the indexes stay in *)
(* the array, the parents never form a cycle, and the structure implements *)
(* Partition.                                                              *)
(*                                                                         *)
(* Two things are said of the parents.  A rank that grows from every       *)
(* element to its parent shows that there is no cycle.  A function c names *)
(* the class of every element: it is the same along a line of parents and  *)
(* a root's own name, but for the root that the walk of set_root has not   *)
(* reached yet.                                                            *)
(***************************************************************************)
EXTENDS UnionFind, FiniteSetTheorems, TLAPS

-----------------------------------------------------------------------------
(* What takes the place of induction: facts that are stated over sets, and *)
(* need no operator parameter.                                             *)

\* The order of the natural numbers as a relation.
LessThan == {ss \in Nat \X Nat : ss[1] < ss[2]}

\* There is no endless descent in the natural numbers.
LEMMA LessThanWellFounded == IsWellFoundedOn(LessThan, Nat)
BY NatLessThanWellFounded DEF OpToRel, LessThan

\* A set of natural numbers that is not empty has a least element.
LEMMA LeastNumber ==
  ASSUME NEW S \in SUBSET Nat, S # {}
  PROVE  \E n \in S : \A m \in S : n <= m
<1>1. PICK n \in S : \A m \in S : ~(<<m, n>> \in LessThan)
  BY LessThanWellFounded, WFMin, Zenon
<1>2. \A m \in S : ~(m < n) BY <1>1 DEF LessThan
<1> QED BY <1>2

-----------------------------------------------------------------------------

Parents == [Elem -> Elem \cup {ROOT}]

Ranked(p, rank, bound) ==
  \A x \in Elem :
    /\ rank[x] < bound
    /\ p[x] # ROOT => rank[x] < rank[p[x]]

Acyclic(p) == \E rank \in [Elem -> Nat] : \E bound \in Nat : Ranked(p, rank, bound)

\* What set_root still has to move.
Pending == IF pc = "set" /\ parent # ROOT THEN Line(parents, parent) ELSE {}

Names(c) ==
  \A x \in Elem :
    /\ parents[x] # ROOT => c[parents[x]] = c[x]
    /\ parents[x] = ROOT => c[x] = x \/ x \in Pending

FindInv(c) == pc \in {"find", "union"} => c[index] = c[lhs]

SetInv(c) ==
  pc = "set" =>
    /\ parents[root] = ROOT
    /\ c[root] = root
    /\ parent # ROOT => c[parent] = root

Inv(c) == TypeOK /\ Acyclic(parents) /\ Names(c) /\ FindInv(c) /\ SetInv(c)

IInv == \E c \in [Elem -> Elem] : Inv(c)

------------------------------------------------------------------------------
(* Lines of parents *)

\* A line has its first element, stays in the array and leads on to the parent.
LEMMA LineClosed ==
  ASSUME NEW p \in Parents, NEW x \in Elem
  PROVE  /\ x \in Line(p, x)
         /\ Line(p, x) \in SUBSET Elem
         /\ Closed(p, Line(p, x))
<1>1. x \in Line(p, x) /\ Line(p, x) \in SUBSET Elem BY DEF Line
<1>2. ASSUME NEW y \in Line(p, x), p[y] # ROOT PROVE p[y] \in Line(p, x)
  <2>1. y \in Elem /\ p[y] \in Elem BY <1>1, <1>2 DEF Parents
  <2>2. ASSUME NEW S \in SUBSET Elem, x \in S, Closed(p, S) PROVE p[y] \in S
    <3>1. y \in S BY <2>2 DEF Line
    <3> QED BY <3>1, <2>2, <1>2 DEF Closed
  <2> QED BY <2>1, <2>2 DEF Line
<1> QED BY <1>1, <1>2 DEF Closed

\* A line is in every closed set that has its first element.
LEMMA LineLeast ==
  ASSUME NEW p, NEW x \in Elem, NEW S \in SUBSET Elem, x \in S, Closed(p, S)
  PROVE  Line(p, x) \subseteq S
BY DEF Line

\* The line of a root is the root.
LEMMA LineOfRoot ==
  ASSUME NEW p, NEW x \in Elem, p[x] = ROOT
  PROVE  \A y \in Line(p, x) : y = x
<1>1. Closed(p, {x}) BY DEF Closed
<1> QED BY <1>1, LineLeast

\* Behind its first element a line is the line of the parent.
LEMMA LineNext ==
  ASSUME NEW p \in Parents, NEW x \in Elem, NEW y \in Line(p, x), y # x
  PROVE  p[x] \in Elem /\ y \in Line(p, p[x])
<1>1. p[x] # ROOT BY LineOfRoot
<1>2. p[x] \in Elem BY <1>1 DEF Parents
<1>3. Line(p, p[x]) \in SUBSET Elem /\ p[x] \in Line(p, p[x]) /\ Closed(p, Line(p, p[x]))
  BY <1>2, LineClosed
<1>4. Closed(p, {x} \cup Line(p, p[x])) BY <1>3 DEF Closed
<1>5. Line(p, x) \subseteq {x} \cup Line(p, p[x]) BY <1>3, <1>4, LineLeast
<1> QED BY <1>2, <1>5

\* A line without cycles ends in a root.
LEMMA LineEnds ==
  ASSUME NEW p \in Parents, Acyclic(p), NEW x \in Elem
  PROVE  \E y \in Line(p, x) : p[y] = ROOT
<1>1. PICK rank \in [Elem -> Nat], bound \in Nat : Ranked(p, rank, bound) BY DEF Acyclic
<1> DEFINE L == Line(p, x)
           D == {bound - rank[y] : y \in L}
<1>2. x \in L /\ L \in SUBSET Elem /\ Closed(p, L) BY LineClosed
<1>3. D \in SUBSET Nat /\ D # {} BY <1>1, <1>2 DEF Ranked
<1>4. PICK n \in D : \A m \in D : n <= m BY <1>3, LeastNumber
<1>5. PICK y \in L : n = bound - rank[y] BY <1>4
<1>6. ASSUME p[y] # ROOT PROVE FALSE
  <2>1. y \in Elem /\ p[y] \in L /\ p[y] \in Elem BY <1>2, <1>5, <1>6 DEF Closed
  <2>2. rank[y] < rank[p[y]] BY <2>1, <1>1, <1>6 DEF Ranked
  <2>3. n <= bound - rank[p[y]] BY <2>1, <1>4
  <2>4. rank[y] \in Nat /\ rank[p[y]] \in Nat BY <2>1, <1>1
  <2> HIDE DEF L, D
  <2> QED BY <2>2, <2>3, <2>4, <1>5
<1> QED BY <1>5, <1>6

\* A line ends in one root only.
LEMMA OneRoot ==
  ASSUME NEW p \in Parents, NEW x \in Elem, NEW y \in Line(p, x), NEW z \in Line(p, x),
         p[y] = ROOT, p[z] = ROOT
  PROVE  y = z
<1> DEFINE S == {w \in Elem : y \in Line(p, w)}
<1>1. ASSUME NEW w \in S, p[w] # ROOT PROVE p[w] \in S
  <2>1. w \in Elem /\ y \in Line(p, w) /\ y # w BY <1>1
  <2> QED BY <2>1, LineNext
<1>2. Closed(p, S) BY <1>1 DEF Closed
<1>3. Line(p, x) \subseteq S BY <1>2, LineLeast
<1>4. z \in Elem /\ y \in Line(p, z) BY <1>3
<1> QED BY <1>4, LineOfRoot

\* An element is not on the line of its parent.
LEMMA NoCycle ==
  ASSUME NEW p \in Parents, Acyclic(p), NEW x \in Elem, p[x] # ROOT
  PROVE  x \notin Line(p, p[x])
<1>1. PICK rank \in [Elem -> Nat], bound \in Nat : Ranked(p, rank, bound) BY DEF Acyclic
<1>2. p[x] \in Elem BY DEF Parents
<1> DEFINE S == {w \in Elem : rank[p[x]] <= rank[w]}
<1>3. ASSUME NEW w \in S, p[w] # ROOT PROVE p[w] \in S
  <2>1. w \in Elem /\ p[w] \in Elem BY <1>3 DEF Parents
  <2>2. rank[w] < rank[p[w]] BY <2>1, <1>1, <1>3 DEF Ranked
  <2>3. rank[w] \in Nat /\ rank[p[w]] \in Nat /\ rank[p[x]] \in Nat BY <2>1, <1>1, <1>2
  <2>4. rank[p[x]] <= rank[w] BY <1>3
  <2> QED BY <2>1, <2>2, <2>3, <2>4
<1>4. Closed(p, S) BY <1>3 DEF Closed
<1>5. p[x] \in S BY <1>1, <1>2
<1>6. Line(p, p[x]) \subseteq S BY <1>2, <1>4, <1>5, LineLeast
<1>7. rank[x] < rank[p[x]] /\ rank[x] \in Nat /\ rank[p[x]] \in Nat
  BY <1>1, <1>2 DEF Ranked
<1> QED BY <1>6, <1>7

\* A line does not notice what is written elsewhere.
LEMMA WriteElsewhere ==
  ASSUME NEW p \in Parents, NEW q \in Parents, NEW x \in Elem, NEW w \in Elem,
         w \notin Line(p, x),
         \A y \in Elem \ {w} : q[y] = p[y]
  PROVE  Line(p, x) \subseteq Line(q, x)
<1>1. x \in Line(p, x) /\ Line(p, x) \in SUBSET Elem /\ Closed(p, Line(p, x)) BY LineClosed
<1>2. x \in Line(q, x) /\ Line(q, x) \in SUBSET Elem /\ Closed(q, Line(q, x)) BY LineClosed
<1>3. Closed(q, Line(p, x)) BY <1>1 DEF Closed
<1>4. Line(q, x) \subseteq Line(p, x) BY <1>1, <1>3, LineLeast
<1>5. Closed(p, Line(q, x)) BY <1>1, <1>2, <1>4 DEF Closed
<1> QED BY <1>2, <1>5, LineLeast

------------------------------------------------------------------------------
(* Names and classes *)

\* A name holds all along a line.
LEMMA SameName ==
  ASSUME parents \in Parents, NEW c \in [Elem -> Elem], Names(c), NEW x \in Elem
  PROVE  \A y \in Line(parents, x) : c[y] = c[x]
<1> DEFINE S == {y \in Elem : c[y] = c[x]}
<1>1. ASSUME NEW y \in S, parents[y] # ROOT PROVE parents[y] \in S
  BY <1>1 DEF Names, Parents
<1>2. Closed(parents, S) BY <1>1 DEF Closed
<1>3. Line(parents, x) \subseteq S BY <1>2, LineLeast
<1> QED BY <1>3

\* RootOf is what its name says.
LEMMA RootOfLine ==
  ASSUME NEW p \in Parents, Acyclic(p), NEW x \in Elem
  PROVE  /\ RootOf(p, x) \in Line(p, x)
         /\ RootOf(p, x) \in Elem
         /\ p[RootOf(p, x)] = ROOT
<1>1. \E y \in Line(p, x) : p[y] = ROOT BY LineEnds
<1>2. RootOf(p, x) \in Line(p, x) /\ p[RootOf(p, x)] = ROOT BY <1>1 DEF RootOf
<1> QED BY <1>2, LineClosed

\* The names are the classes.
LEMMA ClassIsName ==
  ASSUME NEW c \in [Elem -> Elem], Inv(c)
  PROVE  Class = c
<1> USE DEF Inv
<1>1. parents \in Parents BY DEF TypeOK, Parents
<1>2. SUFFICES ASSUME NEW x \in Elem PROVE Class[x] = c[x]
  BY DEF Class
<1> DEFINE r == RootOf(parents, x)
<1>3. r \in Line(parents, x) /\ r \in Elem /\ parents[r] = ROOT BY <1>1, RootOfLine
<1>4. c[r] = c[x] BY <1>1, <1>3, SameName
<1>5. c[r] = r \/ r \in Pending BY <1>3 DEF Names
<1>6. CASE ~(pc = "set" /\ parent # ROOT)
  <2>1. Class[x] = r BY <1>6 DEF Class
  <2>2. c[r] = r BY <1>5, <1>6 DEF Pending
  <2> QED BY <2>1, <2>2, <1>4
<1>7. CASE pc = "set" /\ parent # ROOT
  <2> DEFINE o == RootOf(parents, parent)
  <2>1. parent \in Elem BY <1>7 DEF TypeOK
  <2>2. o \in Line(parents, parent) /\ o \in Elem /\ parents[o] = ROOT
    BY <1>1, <2>1, RootOfLine
  <2>3. c[o] = root
    <3>1. c[o] = c[parent] BY <1>1, <2>1, <2>2, SameName
    <3> QED BY <3>1, <1>7 DEF SetInv
  <2>4. CASE r = o
    <3>1. Class[x] = root BY <1>7, <2>4 DEF Class
    <3> QED BY <3>1, <2>3, <2>4, <1>4
  <2>5. CASE r # o
    <3>1. Class[x] = r BY <1>7, <2>5 DEF Class
    <3>2. r \notin Line(parents, parent) BY <1>1, <1>3, <2>1, <2>2, <2>5, OneRoot
    <3>3. c[r] = r BY <1>5, <1>7, <3>2 DEF Pending
    <3> QED BY <3>1, <3>3, <1>4
  <2> QED BY <2>4, <2>5
<1> QED BY <1>6, <1>7

------------------------------------------------------------------------------
(* The invariant *)

\* Every element starts as the root of a tree of its own.
LEMMA InitInv == Init => Inv([x \in Elem |-> x])
<1> SUFFICES ASSUME Init PROVE Inv([x \in Elem |-> x]) OBVIOUS
<1> USE DEF Init
<1>1. TypeOK BY DEF TypeOK
<1>2. Acyclic(parents)
  <2>1. [x \in Elem |-> 0] \in [Elem -> Nat] /\ 1 \in Nat OBVIOUS
  <2>2. Ranked(parents, [x \in Elem |-> 0], 1) BY DEF Ranked
  <2> QED BY <2>1, <2>2 DEF Acyclic
<1>3. Names([x \in Elem |-> x]) BY DEF Names
<1>4. FindInv([x \in Elem |-> x]) /\ SetInv([x \in Elem |-> x]) BY DEF FindInv, SetInv
<1> QED BY <1>1, <1>2, <1>3, <1>4 DEF Inv

\* A new call finds the array at rest.
LEMMA CallInv ==
  ASSUME NEW c \in [Elem -> Elem], Inv(c), Call
  PROVE  Inv(c)'
<1> USE DEF Inv
<1>1. PICK x \in Elem : CallFindRoot(x) \/ \E r \in Elem : CallUnion(x, r) BY DEF Call
<1>2. /\ pc = "idle" /\ pc' \in {"find", "union"}
      /\ lhs' = x /\ index' = x /\ UNCHANGED <<parents, root, parent, answer>>
      /\ rhs' \in Elem \cup {ROOT} /\ (pc' = "union" => rhs' \in Elem)
  BY <1>1 DEF CallFindRoot, CallUnion, TypeOK
<1>3. TypeOK' BY <1>2 DEF TypeOK
<1>4. Acyclic(parents)' BY <1>2 DEF Acyclic
<1>5. Pending' = Pending BY <1>2 DEF Pending
<1>6. Names(c)' BY <1>2, <1>5 DEF Names
<1>7. FindInv(c)' /\ SetInv(c)' BY <1>2 DEF FindInv, SetInv
<1> QED BY <1>3, <1>4, <1>6, <1>7

\* Climbing stays in the class.
LEMMA ClimbInv ==
  ASSUME NEW c \in [Elem -> Elem], Inv(c), Climb
  PROVE  Inv(c)'
<1> USE DEF Inv, Climb
<1>1. index \in Elem /\ index' \in Elem BY DEF TypeOK
<1>2. TypeOK' BY <1>1 DEF TypeOK
<1>3. Acyclic(parents)' BY DEF Acyclic
<1>4. Pending' = Pending BY DEF Pending
<1>5. Names(c)' BY <1>4 DEF Names
<1>6. c[index'] = c[index] BY <1>1 DEF Names
<1>7. FindInv(c)' BY <1>6 DEF FindInv
<1>8. SetInv(c)' BY DEF SetInv
<1> QED BY <1>2, <1>3, <1>5, <1>7, <1>8

\* A call ends with the array at rest.
LEMMA EndOfCallInv ==
  ASSUME NEW c \in [Elem -> Elem], Inv(c), FindReturns \/ EndSetRoot
  PROVE  Inv(c)'
<1> USE DEF Inv
<1>1. /\ EndOfCall /\ UNCHANGED parents
      /\ answer' \in [of : Elem \cup {ROOT}, root : Elem \cup {ROOT}]
      /\ pc = "find" \/ parent = ROOT
  BY DEF FindReturns, EndSetRoot, TypeOK
<1>2. TypeOK' BY <1>1 DEF TypeOK, EndOfCall
<1>3. Acyclic(parents)' BY <1>1 DEF Acyclic
<1>4. Pending' = Pending BY <1>1 DEF Pending, EndOfCall
<1>5. Names(c)' BY <1>1, <1>4 DEF Names
<1>6. FindInv(c)' /\ SetInv(c)' BY <1>1 DEF FindInv, SetInv, EndOfCall
<1> QED BY <1>2, <1>3, <1>5, <1>6

\* Where find_root has stopped is the name of the class it was called for.
LEMMA Found ==
  ASSUME NEW c \in [Elem -> Elem], Inv(c), pc \in {"find", "union"}, parents[index] = ROOT
  PROVE  index \in Elem /\ lhs \in Elem /\ c[lhs] = index
<1>1. index \in Elem /\ lhs \in Elem BY DEF Inv, TypeOK
<1>2. c[index] = index BY <1>1 DEF Inv, Names, Pending
<1> QED BY <1>1, <1>2 DEF Inv, FindInv

\* The name both sides have after the union.
Merged(c) == Partitions!Merge(c, lhs, rhs)

\* When the walk begins, the only root with another name is the right side's.
LEMMA BeginSetRootInv ==
  ASSUME NEW c \in [Elem -> Elem], NEW d \in [Elem -> Elem], Inv(c), BeginSetRoot,
         d = Merged(c)
  PROVE  Inv(d)'
<1> USE DEF Inv, BeginSetRoot
<1>1. index \in Elem /\ lhs \in Elem /\ c[lhs] = index BY Found
<1>2. rhs \in Elem /\ parents \in Parents /\ rhs # ROOT
  BY UnionFindAssumption DEF TypeOK, Parents
<1>3. \A x \in Elem : d[x] = IF c[x] = c[rhs] THEN index ELSE c[x]
  BY <1>1 DEF Merged, Partitions!Merge
<1>4. TypeOK' BY <1>1, <1>2 DEF TypeOK
<1>5. Acyclic(parents)' BY DEF Acyclic
<1>6. Pending' = Line(parents, rhs) BY <1>2 DEF Pending
<1>7. ASSUME NEW x \in Elem, parents[x] # ROOT PROVE d[parents[x]] = d[x]
  <2>1. parents[x] \in Elem BY <1>2, <1>7 DEF Parents
  <2>2. c[parents[x]] = c[x] BY <1>7 DEF Names
  <2> QED BY <2>1, <2>2, <1>3
<1>8. ASSUME NEW x \in Elem, parents[x] = ROOT, d[x] # x PROVE x \in Line(parents, rhs)
  <2>1. c[x] = x BY <1>8 DEF Names, Pending
  <2>2. c[rhs] = x BY <2>1, <1>3, <1>8
  <2>3. PICK y \in Line(parents, rhs) : parents[y] = ROOT BY <1>2, LineEnds
  <2>4. y \in Elem BY <1>2, LineClosed
  <2>5. c[y] = c[rhs] BY <1>2, SameName
  <2>6. c[y] = y BY <2>3, <2>4 DEF Names, Pending
  <2> QED BY <2>2, <2>5, <2>6
<1>9. Names(d)' BY <1>6, <1>7, <1>8 DEF Names
<1>10. d[index] = index /\ d[rhs] = index
  <2>1. c[index] = index BY <1>1 DEF Names, Pending
  <2> QED BY <2>1, <1>1, <1>2, <1>3
<1>11. FindInv(d)' /\ SetInv(d)' BY <1>10 DEF FindInv, SetInv
<1> QED BY <1>4, <1>5, <1>9, <1>11

\* The walk keeps every name, makes no cycle, and takes an element off the line
\* still to be moved only when it has got a parent.
LEMMA SetParentInv ==
  ASSUME NEW c \in [Elem -> Elem], Inv(c), SetParent
  PROVE  Inv(c)'
<1> USE DEF Inv, SetParent
<1>1. parents \in Parents /\ parent \in Elem /\ root \in Elem /\ root # ROOT
  BY UnionFindAssumption DEF TypeOK, Parents
<1>2. parent' = parents[parent] BY DEF NextParent
<1>3. parents[root] = ROOT /\ c[root] = root /\ c[parent] = root BY DEF SetInv
<1>4. /\ parents' \in Parents
      /\ \A y \in Elem \ {parent} : parents'[y] = parents[y]
      /\ parents'[parent] = IF parent = root THEN ROOT ELSE root
  BY <1>1, <1>3 DEF NewParents, Parents
<1>5. TypeOK' BY <1>1, <1>2, <1>4 DEF TypeOK, Parents
<1>6. Acyclic(parents)'
  <2>1. PICK rank \in [Elem -> Nat], bound \in Nat : Ranked(parents, rank, bound)
    BY DEF Acyclic
  <2> DEFINE higher == [rank EXCEPT ![root] = bound]
  <2>2. higher \in [Elem -> Nat] /\ bound + 1 \in Nat
    <3>1. bound + 1 \in Nat OBVIOUS
    <3>2. \A x \in Elem : higher[x] \in Nat OBVIOUS
    <3> QED BY <3>1, <3>2
  <2>3. ASSUME NEW x \in Elem
        PROVE  higher[x] < bound + 1 /\ (parents'[x] # ROOT => higher[x] < higher[parents'[x]])
    <3>1. rank[x] \in Nat /\ rank[x] < bound BY <2>1 DEF Ranked
    <3>2. higher[x] = IF x = root THEN bound ELSE rank[x] BY <1>1, <2>1
    <3>3. higher[x] < bound + 1 BY <3>1, <3>2, <2>1
    <3>4. ASSUME parents'[x] # ROOT PROVE higher[x] < higher[parents'[x]]
      <4>1. x # root BY <1>3, <1>4, <3>4
      <4>2. parents'[x] \in Elem BY <1>4, <3>4 DEF Parents
      <4>3. higher[x] = rank[x] BY <3>2, <4>1
      <4>4. CASE parents'[x] = root
        <5>1. higher[parents'[x]] = bound BY <4>4, <1>1, <2>1
        <5> QED BY <5>1, <4>3, <3>1
      <4>5. CASE parents'[x] # root
        <5>1. parents'[x] = parents[x] BY <1>4, <4>1, <4>5
        <5>2. rank[x] < rank[parents[x]] BY <2>1, <5>1, <3>4 DEF Ranked
        <5>3. higher[parents'[x]] = rank[parents[x]] BY <2>1, <4>2, <4>5, <5>1
        <5> QED BY <5>2, <5>3, <4>3
      <4> QED BY <4>4, <4>5
    <3> QED BY <3>3, <3>4
  <2>4. Ranked(parents', higher, bound + 1) BY <2>3 DEF Ranked
  <2> QED BY <2>2, <2>4 DEF Acyclic
<1>7. ASSUME NEW x \in Elem, parents'[x] # ROOT PROVE c[parents'[x]] = c[x]
  <2>1. CASE x = parent BY <2>1, <1>3, <1>4, <1>7
  <2>2. CASE x # parent BY <2>2, <1>4, <1>7 DEF Names
  <2> QED BY <2>1, <2>2
<1>8. ASSUME NEW x \in Elem, parents'[x] = ROOT, c[x] # x PROVE x \in Pending'
  <2>1. x # parent BY <1>1, <1>3, <1>4, <1>8
  <2>2. x \in Line(parents, parent) BY <2>1, <1>4, <1>8 DEF Names, Pending
  <2>3. parent' \in Elem /\ x \in Line(parents, parent') BY <2>1, <2>2, <1>1, <1>2, LineNext
  <2>4. parent' # ROOT BY <2>3, UnionFindAssumption
  <2>5. parent \notin Line(parents, parent') BY <2>4, <1>1, <1>2, NoCycle
  <2>6. x \in Line(parents', parent') BY <2>3, <2>5, <1>1, <1>4, WriteElsewhere
  <2> QED BY <2>4, <2>6 DEF Pending
<1>9. Names(c)' BY <1>7, <1>8 DEF Names
<1>10. FindInv(c)' BY DEF FindInv
<1>11. SetInv(c)'
  <2>1. parents'[root] = ROOT BY <1>1, <1>3, <1>4
  <2>2. parent' # ROOT => c[parent'] = root BY <1>1, <1>2, <1>3 DEF Names
  <2> QED BY <2>1, <2>2, <1>3 DEF SetInv
<1> QED BY <1>5, <1>6, <1>9, <1>10, <1>11

------------------------------------------------------------------------------
\* Every step but the beginning of the walk keeps the names.
LEMMA StepKeepsNames ==
  ASSUME NEW c \in [Elem -> Elem], Inv(c), [Next]_vars, ~BeginSetRoot
  PROVE  Inv(c)'
<1>1. CASE Call BY <1>1, CallInv
<1>2. CASE Climb BY <1>2, ClimbInv
<1>3. CASE FindReturns \/ EndSetRoot BY <1>3, EndOfCallInv
<1>4. CASE SetParent BY <1>4, SetParentInv
<1>5. CASE UNCHANGED vars
  BY <1>5 DEF vars, call, Inv, TypeOK, Acyclic, Ranked, Names, Pending, FindInv, SetInv
<1> QED BY <1>1, <1>2, <1>3, <1>4, <1>5 DEF Next, Step

\* Every operation keeps the inductive invariant.
LEMMA NextIInv == IInv /\ [Next]_vars => IInv'
<1> SUFFICES ASSUME IInv, [Next]_vars PROVE IInv' OBVIOUS
<1>1. PICK c \in [Elem -> Elem] : Inv(c) BY DEF IInv
<1>2. CASE BeginSetRoot
  <2>1. lhs \in Elem BY <1>1, <1>2, Found DEF BeginSetRoot
  <2>2. PICK d \in [Elem -> Elem] : d = Merged(c) BY <2>1 DEF Merged, Partitions!Merge
  <2>3. Inv(d)' BY <2>2, <1>1, <1>2, BeginSetRootInv
  <2> QED BY <2>3 DEF IInv
<1>3. CASE ~BeginSetRoot BY <1>1, <1>3, StepKeepsNames DEF IInv
<1> QED BY <1>2, <1>3

\* The inductive invariant holds in every reachable state.
LEMMA SpecIInv == Spec => []IInv
<1>1. Init => IInv BY InitInv DEF IInv
<1> QED BY <1>1, NextIInv, PTL DEF Spec

\* Indexes stay in the array: find_root never takes the root mark for an index.
THEOREM UnionFindTypeOK == Spec => []TypeOK
<1>1. IInv => TypeOK BY DEF IInv, Inv
<1> QED BY <1>1, SpecIInv, PTL

\* From every element a root is reached, also while set_root walks.
THEOREM UnionFindRooted == Spec => []Rooted
<1>1. IInv => Rooted
  <2> SUFFICES ASSUME IInv PROVE Rooted OBVIOUS
  <2>1. parents \in Parents /\ Acyclic(parents) BY DEF IInv, Inv, TypeOK, Parents
  <2> QED BY <2>1, LineEnds DEF Rooted
<1> QED BY <1>1, SpecIInv, PTL

\* A step keeps two elements in one class exactly when they have one name.
LEMMA ClassIsNameNext ==
  ASSUME NEW c \in [Elem -> Elem]
  PROVE  Inv(c)' => Class' = c
<1>1. Inv(c) => Class = c BY ClassIsName
<1>2. Inv(c)' => (Class = c)' BY <1>1, PTL
<1> QED BY <1>2

\* Each step is a step of the partition or leaves it alone.
LEMMA NextImplements == IInv /\ IInv' /\ [Next]_vars => [Partitions!Next]_(Partitions!vars)
<1> SUFFICES ASSUME IInv, IInv', [Next]_vars PROVE [Partitions!Next]_(Partitions!vars)
  OBVIOUS
<1>1. PICK c \in [Elem -> Elem] : Inv(c) BY DEF IInv
<1>2. Class = c BY <1>1, ClassIsName
<1>3. CASE BeginSetRoot
  <2>1. index \in Elem /\ lhs \in Elem /\ rhs \in Elem
    BY <1>1, <1>3, Found DEF BeginSetRoot, Inv, TypeOK
  <2>2. PICK d \in [Elem -> Elem] : d = Merged(c) BY <2>1 DEF Merged, Partitions!Merge
  <2>3. Inv(d)' BY <2>2, <1>1, <1>3, BeginSetRootInv
  <2>4. Class' = d BY <2>2, <2>3, ClassIsNameNext
  <2>5. Partitions!Union(lhs, rhs)
    BY <1>2, <1>3, <2>2, <2>4 DEF BeginSetRoot, Merged, Partitions!Union
  <2> QED BY <2>1, <2>5 DEF Partitions!Next
<1>4. CASE ~BeginSetRoot
  <2>1. Inv(c)' BY <1>1, <1>4, StepKeepsNames
  <2>2. Class' = c BY <2>1, ClassIsNameNext
  <2>3. CASE FindReturns
    <3>1. lhs \in Elem /\ c[lhs] = index BY <1>1, <2>3, Found DEF FindReturns
    <3>2. Partitions!FindRoot(lhs)
      BY <1>2, <2>2, <2>3, <3>1 DEF FindReturns, Partitions!FindRoot
    <3> QED BY <3>1, <3>2 DEF Partitions!Next
  <2>4. CASE ~FindReturns
    <3>1. UNCHANGED answer
      BY <1>4, <2>4
      DEF Next, Step, Call, CallFindRoot, CallUnion, Climb, SetParent, EndSetRoot, vars
    <3> QED BY <1>2, <2>2, <3>1 DEF Partitions!vars
  <2> QED BY <2>3, <2>4
<1> QED BY <1>3, <1>4

\* The array of parents, climbed and rewritten element by element, is a partition
\* whose classes keep the name of a union's left side.
THEOREM UnionFindImplementsPartition == Spec => ImplementsPartition
<1>1. Init => Partitions!Init
  <2> SUFFICES ASSUME Init PROVE Partitions!Init OBVIOUS
  <2>1. [x \in Elem |-> x] \in [Elem -> Elem] OBVIOUS
  <2>2. Class = [x \in Elem |-> x] BY <2>1, InitInv, ClassIsName
  <2> QED BY <2>2 DEF Init, Partitions!Init
<1> QED BY <1>1, SpecIInv, NextImplements, PTL DEF Spec, ImplementsPartition, Partitions!Spec
==============================================================================
