------------------------- MODULE SegmentationProofs -------------------------
(***************************************************************************)
(* Proofs about Segmentation, for images of any size, any colours and any  *)
(* threshold: what is kept of a segment is true of its pixels, a segment   *)
(* is one piece, and the result is settled.                                *)
(***************************************************************************)
EXTENDS Segmentation, FiniteSetTheorems, TLAPS

-----------------------------------------------------------------------------
(* What takes the place of induction: facts that are stated over sets, and *)
(* need no operator parameter.                                             *)

\* The order of the natural numbers as a relation.
LessThan == {ss \in Nat \X Nat : ss[1] < ss[2]}

\* There is no endless descent in the natural numbers.
LEMMA LessThanWellFounded == IsWellFoundedOn(LessThan, Nat)
BY NatLessThanWellFounded DEF OpToRel, LessThan

\* A set of natural numbers that is not empty has a least element.
LEMMA LeastNumber ==
  ASSUME NEW S \in SUBSET Nat, S # {}
  PROVE  \E n \in S : \A m \in S : n <= m
<1>1. PICK n \in S : \A m \in S : ~(<<m, n>> \in LessThan)
  BY LessThanWellFounded, WFMin, Zenon
<1>2. \A m \in S : ~(m < n) BY <1>1 DEF LessThan
<1> QED BY <1>2

\* Induction over the subsets of a finite set: a family of them that has each
\* one from which every set with one element less is in the family has them all.
LEMMA FiniteSubsets ==
  ASSUME NEW S, IsFiniteSet(S), NEW G,
         \A T \in SUBSET S : (\A x \in T : T \ {x} \in G) => T \in G
  PROVE  SUBSET S \subseteq G
<1> SUFFICES ASSUME NEW R \in SUBSET S, R \notin G PROVE FALSE OBVIOUS
<1> DEFINE Bad == {T \in SUBSET S : T \notin G}
           N == {Cardinality(T) : T \in Bad}
<1>1. \A T \in SUBSET S : IsFiniteSet(T) /\ Cardinality(T) \in Nat
  BY FS_Subset, FS_CardinalityType
<1>2. N \in SUBSET Nat /\ N # {} BY <1>1
<1>3. PICK n \in N : \A m \in N : n <= m
  <2> HIDE DEF N
  <2> QED BY <1>2, LeastNumber
<1>4. PICK T \in Bad : n = Cardinality(T) BY <1>3
<1>5. ASSUME NEW x \in T PROVE T \ {x} \in G
  <2>1. Cardinality(T \ {x}) = Cardinality(T) - 1 BY <1>1, <1>4, <1>5, FS_RemoveElement
  <2>2. ASSUME T \ {x} \in Bad PROVE FALSE
    <3>1. n <= Cardinality(T \ {x}) BY <1>3, <2>2
    <3> QED BY <3>1, <2>1, <1>1, <1>4
  <2> QED BY <2>2, <1>4
<1> QED BY <1>4, <1>5


-----------------------------------------------------------------------------
(* Sums over finite sets: the iteration of MapThenSumSet, which takes the  *)
(* elements in an order of its own, depends on none.                       *)

Some(T) == CHOOSE x \in T : TRUE

Iterates(g, f, S) ==
  g = [T \in SUBSET S |-> IF T = {} THEN 0 ELSE f[Some(T)] + g[T \ {Some(T)}]]

Iteration(f, S) == CHOOSE g : Iterates(g, f, S)

Total(f, S) == Iteration(f, S)[S]

\* Total is the sum of the community modules.
LEMMA SumIsTotal ==
  ASSUME NEW f, NEW S
  PROVE  MapThenSumSet(LAMBDA i : f[i], S) = Total(f, S)
BY DEF MapThenSumSet, MapThenFoldSet, Total, Iteration, Iterates, Some

\* A segment that has been chosen among some is one of them.
LEMMA SomeIsElement ==
  ASSUME NEW T, T # {}
  PROVE  Some(T) \in T
BY DEF Some

\* Iterations over two sets agree on the subsets of both.
LEMMA IterationsAgree ==
  ASSUME NEW S, IsFiniteSet(S), NEW R, NEW f, NEW g, NEW h,
         Iterates(g, f, S), Iterates(h, f, R)
  PROVE  \A T \in SUBSET (S \cap R) : g[T] = h[T]
<1> DEFINE C == S \cap R
           G == {T \in SUBSET C : g[T] = h[T]}
<1>1. IsFiniteSet(C) BY FS_Intersection
<1>2. \A T \in SUBSET C : (\A x \in T : T \ {x} \in G) => T \in G
  <2> SUFFICES ASSUME NEW T \in SUBSET C, \A x \in T : T \ {x} \in G
               PROVE  T \in G
    OBVIOUS
  <2>1. g[T] = IF T = {} THEN 0 ELSE f[Some(T)] + g[T \ {Some(T)}]
    BY DEF Iterates
  <2>2. h[T] = IF T = {} THEN 0 ELSE f[Some(T)] + h[T \ {Some(T)}]
    BY DEF Iterates
  <2>3. T # {} => g[T \ {Some(T)}] = h[T \ {Some(T)}] BY SomeIsElement
  <2> QED BY <2>1, <2>2, <2>3
<1>3. SUBSET C \subseteq G
  <2> HIDE DEF G, C
  <2> QED BY <1>1, <1>2, FiniteSubsets
<1> QED BY <1>3

\* There is an iteration over every finite set.
LEMMA IterationExists ==
  ASSUME NEW S, IsFiniteSet(S), NEW f
  PROVE  Iterates(Iteration(f, S), f, S)
<1> DEFINE G == {T \in SUBSET S : \E g : Iterates(g, f, T)}
<1>1. \A T \in SUBSET S : (\A x \in T : T \ {x} \in G) => T \in G
  <2> SUFFICES ASSUME NEW T \in SUBSET S, \A x \in T : T \ {x} \in G
               PROVE  \E g : Iterates(g, f, T)
    OBVIOUS
  <2> DEFINE e(U) == IF U = {} THEN 0 ELSE f[Some(U)] + Total(f, U \ {Some(U)})
             g == [U \in SUBSET T |-> e(U)]
  <2>1. \A x \in T : Iterates(Iteration(f, T \ {x}), f, T \ {x}) BY DEF Iteration
  <2>2. ASSUME NEW V \in SUBSET T, V # T PROVE Total(f, V) = e(V)
    <3>1. PICK x \in T : x \notin V BY <2>2
    <3> DEFINE R == T \ {x}
               h == Iteration(f, R)
               k == Iteration(f, V)
    <3>2. V \in SUBSET R /\ R \in SUBSET S BY <3>1
    <3>3. Iterates(h, f, R) BY <2>1
    <3>4. Iterates([U \in SUBSET V |-> h[U]], f, V) BY <3>2, <3>3, SomeIsElement DEF Iterates
    <3>5. Iterates(k, f, V) BY <3>4 DEF Iteration
    <3>6. k[V] = IF V = {} THEN 0 ELSE f[Some(V)] + k[V \ {Some(V)}] BY <3>5 DEF Iterates
    <3>7. ASSUME V # {} PROVE Total(f, V \ {Some(V)}) = k[V \ {Some(V)}]
      <4> DEFINE W == V \ {Some(V)}
      <4>1. Iterates([U \in SUBSET W |-> k[U]], f, W) BY <3>5, SomeIsElement DEF Iterates
      <4>2. Iterates(Iteration(f, W), f, W) BY <4>1 DEF Iteration
      <4>3. IsFiniteSet(V) BY FS_Subset
      <4>4. \A U \in SUBSET (V \cap W) : k[U] = Iteration(f, W)[U]
        <5> HIDE DEF k, W
        <5> QED BY <3>5, <4>2, <4>3, IterationsAgree
      <4> QED BY <4>4 DEF Total
    <3> QED BY <3>6, <3>7 DEF Total
  <2>3. ASSUME NEW U \in SUBSET T, U # {} PROVE g[U \ {Some(U)}] = Total(f, U \ {Some(U)})
    <3>1. Some(U) \in U BY <2>3, SomeIsElement
    <3>2. U \ {Some(U)} \in SUBSET T /\ U \ {Some(U)} # T BY <3>1
    <3> QED BY <2>2, <3>2
  <2>4. Iterates(g, f, T) BY <2>3 DEF Iterates
  <2> QED BY <2>4
<1>2. S \in G
  <2> HIDE DEF G
  <2> QED BY <1>1, FiniteSubsets
<1> QED BY <1>2 DEF Iteration

\* A sum, by the element that comes first in the order of the iteration.
LEMMA TotalStep ==
  ASSUME NEW S, IsFiniteSet(S), NEW f
  PROVE  Total(f, S) = IF S = {} THEN 0 ELSE f[Some(S)] + Total(f, S \ {Some(S)})
<1> DEFINE g == Iteration(f, S)
           R == S \ {Some(S)}
           h == Iteration(f, R)
<1>1. Iterates(g, f, S) BY IterationExists
<1>2. g[S] = IF S = {} THEN 0 ELSE f[Some(S)] + g[R] BY <1>1 DEF Iterates
<1>3. IsFiniteSet(R) BY FS_Subset
<1>4. Iterates(h, f, R) BY <1>3, IterationExists
<1>5. \A T \in SUBSET (S \cap R) : g[T] = h[T]
  <2> HIDE DEF g, h, R
  <2> QED BY <1>1, <1>4, IterationsAgree
<1>6. g[R] = h[R] BY <1>5
<1> QED BY <1>2, <1>6 DEF Total

\* A sum of natural numbers is one.
LEMMA TotalIsNat ==
  ASSUME NEW D, IsFiniteSet(D), NEW f \in [D -> Nat]
  PROVE  \A T \in SUBSET D : Total(f, T) \in Nat
<1> DEFINE G == {T \in SUBSET D : Total(f, T) \in Nat}
<1>1. \A T \in SUBSET D : (\A x \in T : T \ {x} \in G) => T \in G
  <2> SUFFICES ASSUME NEW T \in SUBSET D, \A x \in T : T \ {x} \in G
               PROVE  Total(f, T) \in Nat
    OBVIOUS
  <2>1. IsFiniteSet(T) BY FS_Subset
  <2>2. Total(f, T) = IF T = {} THEN 0 ELSE f[Some(T)] + Total(f, T \ {Some(T)})
    BY <2>1, TotalStep
  <2> QED BY <2>2, SomeIsElement
<1>2. SUBSET D \subseteq G
  <2> HIDE DEF G
  <2> QED BY <1>1, FiniteSubsets
<1> QED BY <1>2

\* Any element can be taken from a sum.
LEMMA TotalRemove ==
  ASSUME NEW D, IsFiniteSet(D), NEW f \in [D -> Nat]
  PROVE  \A T \in SUBSET D : \A x \in T : Total(f, T) = f[x] + Total(f, T \ {x})
<1> DEFINE Fits(T) == \A x \in T : Total(f, T) = f[x] + Total(f, T \ {x})
           G == {T \in SUBSET D : Fits(T)}
<1>1. \A T \in SUBSET D : Total(f, T) \in Nat BY TotalIsNat
<1>2. \A T \in SUBSET D : (\A x \in T : T \ {x} \in G) => T \in G
  <2> SUFFICES ASSUME NEW T \in SUBSET D, \A x \in T : T \ {x} \in G, NEW x \in T
               PROVE  Total(f, T) = f[x] + Total(f, T \ {x})
    OBVIOUS
  <2> DEFINE c == Some(T)
             R == T \ {x, c}
  <2>1. IsFiniteSet(T) /\ IsFiniteSet(T \ {x}) BY FS_Subset
  <2>2. c \in T BY SomeIsElement
  <2>3. Total(f, T) = f[c] + Total(f, T \ {c})
    BY <2>1, TotalStep
  <2>4. CASE x = c BY <2>3, <2>4
  <2>5. CASE x # c
    <3>1. T \ {c} \in G /\ T \ {x} \in G BY <2>2
    <3>2. (T \ {c}) \ {x} = R /\ (T \ {x}) \ {c} = R OBVIOUS
    <3>3. x \in T \ {c} /\ c \in T \ {x} BY <2>2, <2>5
    <3>4. Total(f, T \ {c}) = f[x] + Total(f, R) BY <3>1, <3>2, <3>3
    <3>5. Total(f, T \ {x}) = f[c] + Total(f, R) BY <3>1, <3>2, <3>3
    <3>6. f[x] \in Nat /\ f[c] \in Nat /\ Total(f, R) \in Nat BY <1>1, <2>2
    <3> HIDE DEF c, R
    <3> QED BY <2>3, <3>4, <3>5, <3>6
  <2> QED BY <2>4, <2>5
<1>3. SUBSET D \subseteq G
  <2> HIDE DEF G
  <2> QED BY <1>2, FiniteSubsets
<1> QED BY <1>3

\* The sum over two sets without a common element.
LEMMA TotalUnion ==
  ASSUME NEW D, IsFiniteSet(D), NEW f \in [D -> Nat]
  PROVE  \A A, B \in SUBSET D :
           A \cap B = {} => Total(f, A \cup B) = Total(f, A) + Total(f, B)
<1> SUFFICES ASSUME NEW A \in SUBSET D, NEW B \in SUBSET D, A \cap B = {}
             PROVE  Total(f, A \cup B) = Total(f, A) + Total(f, B)
  OBVIOUS
<1> DEFINE G == {T \in SUBSET B : Total(f, A \cup T) = Total(f, A) + Total(f, T)}
<1>1. \A T \in SUBSET D : Total(f, T) \in Nat BY TotalIsNat
<1>2. \A T \in SUBSET B : (\A x \in T : T \ {x} \in G) => T \in G
  <2> SUFFICES ASSUME NEW T \in SUBSET B, \A x \in T : T \ {x} \in G
               PROVE  Total(f, A \cup T) = Total(f, A) + Total(f, T)
    OBVIOUS
  <2>1. CASE T = {}
    <3>1. Total(f, T) = 0
      <4>1. IsFiniteSet(T) BY FS_Subset
      <4> QED BY <4>1, <2>1, TotalStep
    <3> QED BY <3>1, <1>1, <2>1
  <2>2. CASE T # {}
    <3>1. PICK x \in T : TRUE BY <2>2
    <3>2. (A \cup T) \ {x} = A \cup (T \ {x}) OBVIOUS
    <3>3. Total(f, A \cup T) = f[x] + Total(f, A \cup (T \ {x})) BY <3>2, TotalRemove
    <3>4. Total(f, A \cup (T \ {x})) = Total(f, A) + Total(f, T \ {x}) BY <3>1
    <3>5. Total(f, T) = f[x] + Total(f, T \ {x}) BY TotalRemove
    <3>6. f[x] \in Nat /\ Total(f, A) \in Nat /\ Total(f, T \ {x}) \in Nat BY <1>1
    <3> QED BY <3>3, <3>4, <3>5, <3>6
  <2> QED BY <2>1, <2>2
<1>3. SUBSET B \subseteq G
  <2>1. IsFiniteSet(B) BY FS_Subset
  <2> HIDE DEF G
  <2> QED BY <2>1, <1>2, FiniteSubsets
<1> QED BY <1>3

\* The sum over one element.
LEMMA TotalSingle ==
  ASSUME NEW D, IsFiniteSet(D), NEW f \in [D -> Nat], NEW x \in D
  PROVE  Total(f, {x}) = f[x]
<1>1. Total(f, {x}) = f[x] + Total(f, {}) 
  <2>1. {x} \ {x} = {} OBVIOUS
  <2> QED BY <2>1, TotalRemove
<1>2. Total(f, {}) = 0 BY TotalStep, FS_EmptySet
<1> QED BY <1>1, <1>2

-----------------------------------------------------------------------------
(* The inductive invariant *)

TypeInv ==
  /\ src \in [Cell -> Nat]
  /\ segment \in [Cell -> Cell]
  /\ sizes \in [Cell -> Nat] /\ sums \in [Cell -> Nat]
  /\ row \in Nat /\ row >= 2
  /\ col \in Nat /\ col >= 2 /\ (col <= Width \/ Width = 1)
  /\ merges \in Nat
  /\ pc \in {"start", "pass", "done", "failed", "crashed"}

\* A segment is named by one of its pixels.
NamesInv == \A i \in Cell : segment[segment[i]] = segment[i]

\* A cell of the border is a segment of its own.
BorderInv ==
  \A i, j \in Cell : segment[i] = segment[j] => i = j \/ (i \in Pixel /\ j \in Pixel)

Piece(S) == \A part \in (SUBSET S) \ {{}, S} : \E i \in part, j \in S \ part : Adjacent(i, j)

PieceInv == \A s \in Cell : Piece(Members(s))

StartInv == pc = "start" => segment = [i \in Cell |-> i] /\ row = 2 /\ col = 2

Working == pc \in {"pass", "done"}

AccountsInv ==
  Working => \A s \in Cell : segment[s] = s =>
    sizes[s] = Cardinality(Members(s)) /\ sums[s] = Total(src, Members(s))

\* Denominators are not 0.
PositiveInv == Working => \A s \in Cell : sizes[s] > 0

\* What the loops have visited in the current pass.
Visited(r, c) == r < row \/ (r = row /\ c < col)

\* As long as a pass has joined nothing, what it has visited is apart.
SettledInv ==
  (Working /\ merges = 0) =>
    \A r \in 2 .. Height, c \in 2 .. Width : Visited(r, c) =>
      LET i == r * width + c IN Apart(i, i - 1) /\ Apart(i, i - width)

DoneInv == pc = "done" => ~InLoops /\ merges = 0

IInv ==
  /\ TypeInv /\ NamesInv /\ BorderInv /\ PieceInv /\ StartInv
  /\ AccountsInv /\ PositiveInv /\ SettledInv /\ DoneInv

-----------------------------------------------------------------------------
(* The grid *)

\* The sizes are natural numbers.
LEMMA Sizes ==
  /\ width \in Nat /\ width > Width /\ width >= 3
  /\ height \in Nat /\ height >= 3
BY SegmentationAssumption DEF width, height

\* There are finitely many cells.
LEMMA CellFinite == IsFiniteSet(Cell) /\ Cell \subseteq Nat
<1>1. width * height \in Nat BY Sizes
<1>2. width * height - 1 \in Int BY <1>1
<1> HIDE DEF width, height
<1>3. IsFiniteSet(0 .. width * height - 1) BY <1>2, FS_Interval
<1> QED BY <1>3 DEF Cell

\* Multiplication keeps the order.
LEMMA TimesOrder ==
  ASSUME NEW a \in Nat, NEW b \in Nat, NEW w \in Nat, a <= b
  PROVE  a * w \in Nat /\ b * w \in Nat /\ a * w <= b * w
<1>1. PICK d \in Nat : b = a + d
  <2>1. b - a \in Nat /\ b = a + (b - a) OBVIOUS
  <2> QED BY <2>1
<1>2. b * w = a * w + d * w BY <1>1
<1>3. a * w \in Nat /\ d * w \in Nat OBVIOUS
<1> QED BY <1>2, <1>3

\* A cell is in one row and one column.
LEMMA OnePlace ==
  ASSUME NEW w \in Nat, NEW r \in Nat, NEW s \in Nat, NEW c \in 0 .. w - 1, NEW d \in 0 .. w - 1,
         r * w + c = s * w + d
  PROVE  r = s /\ c = d
<1>1. ASSUME NEW x \in Nat, NEW y \in Nat, NEW e \in 0 .. w - 1, NEW f \in 0 .. w - 1,
             x * w + e = y * w + f
      PROVE  ~(x < y)
  <2> SUFFICES ASSUME x + 1 <= y PROVE FALSE OBVIOUS
  <2>1. (x + 1) * w <= y * w BY TimesOrder
  <2>2. (x + 1) * w = x * w + w OBVIOUS
  <2>3. x * w \in Nat /\ y * w \in Nat OBVIOUS
  <2> QED BY <1>1, <2>1, <2>2, <2>3
<1>2. ~(r < s) BY <1>1
<1>3. ~(s < r) BY <1>1
<1>4. r = s BY <1>2, <1>3
<1> QED BY <1>4

\* Pixels are cells.
LEMMA PixelIsCell == Pixel \subseteq Cell
<1> SUFFICES ASSUME NEW r \in 1 .. Height, NEW c \in 1 .. Width
             PROVE  r * width + c \in Cell
  BY DEF Pixel
<1>1. r * width <= Height * width BY TimesOrder, Sizes, SegmentationAssumption
<1>2. width * height = Height * width + 2 * width BY Sizes, SegmentationAssumption DEF height
<1>3. r * width \in Nat /\ Height * width \in Nat BY Sizes, SegmentationAssumption
<1> QED BY <1>1, <1>2, <1>3, Sizes, SegmentationAssumption DEF Cell

\* In the loops the pixel and the two it is compared with are pixels of the image.
LEMMA InImage ==
  ASSUME TypeInv, InLoops
  PROVE  /\ Cur \in Pixel /\ Left \in Pixel /\ Above \in Pixel
         /\ Left = Cur - 1 /\ Above = Cur - width
         /\ Adjacent(Left, Cur) /\ Adjacent(Above, Cur)
<1>1. row \in 2 .. Height /\ col \in 2 .. Width
  BY SegmentationAssumption DEF TypeInv, InLoops, width, height
<1>2. row * width \in Nat /\ (row - 1) * width = row * width - width BY <1>1, Sizes
<1>3. Cur \in Pixel BY <1>1 DEF Cur, Pixel
<1>4. Left \in Pixel
  <2>1. col - 1 \in 1 .. Width /\ Left = row * width + (col - 1)
    BY <1>1, <1>2, SegmentationAssumption DEF Left
  <2> QED BY <2>1, <1>1 DEF Pixel
<1>5. Above \in Pixel
  <2>1. row - 1 \in 1 .. Height BY <1>1, SegmentationAssumption
  <2> QED BY <2>1, <1>1 DEF Above, Pixel
<1>6. Left = Cur - 1 /\ Above = Cur - width BY <1>1, <1>2, Sizes DEF Left, Above, Cur
<1>7. Cur \in Int /\ width \in Int BY <1>1, <1>2, Sizes DEF Cur
<1>8. Adjacent(Left, Cur) /\ Adjacent(Above, Cur) BY <1>6, <1>7 DEF Adjacent
<1> QED BY <1>3, <1>4, <1>5, <1>6, <1>8

-----------------------------------------------------------------------------
(* A union of two segments *)

\* Adjacency has no direction.
LEMMA AdjacentBothWays ==
  ASSUME NEW i \in Cell, NEW j \in Cell, Adjacent(i, j)
  PROVE  Adjacent(j, i)
BY CellFinite, Sizes DEF Adjacent

\* Two pieces that touch are one.
LEMMA PiecesTouch ==
  ASSUME NEW A \in SUBSET Cell, NEW B \in SUBSET Cell, Piece(A), Piece(B),
         NEW a \in A, NEW b \in B, Adjacent(a, b)
  PROVE  Piece(A \cup B)
<1> SUFFICES ASSUME NEW part \in SUBSET (A \cup B), part # {}, part # A \cup B
             PROVE  \E i \in part, j \in (A \cup B) \ part : Adjacent(i, j)
  BY DEF Piece
<1>1. Adjacent(b, a) BY AdjacentBothWays
<1>2. CASE part \cap A \notin {{}, A}
  <2> DEFINE rest == part \cap A
  <2>1. rest \in (SUBSET A) \ {{}, A} BY <1>2
  <2>2. PICK i \in rest, j \in A \ rest : Adjacent(i, j)
    <3> HIDE DEF rest
    <3> QED BY <2>1 DEF Piece
  <2>3. i \in part /\ j \in (A \cup B) \ part OBVIOUS
  <2> QED BY <2>2, <2>3
<1>3. CASE part \cap B \notin {{}, B}
  <2> DEFINE rest == part \cap B
  <2>1. rest \in (SUBSET B) \ {{}, B} BY <1>3
  <2>2. PICK i \in rest, j \in B \ rest : Adjacent(i, j)
    <3> HIDE DEF rest
    <3> QED BY <2>1 DEF Piece
  <2>3. i \in part /\ j \in (A \cup B) \ part OBVIOUS
  <2> QED BY <2>2, <2>3
<1>4. CASE part \cap A = {} /\ part \cap B = B
  <2>1. a \notin part /\ b \in part BY <1>4
  <2> QED BY <2>1, <1>1
<1>5. CASE part \cap A = A /\ part \cap B = {}
  <2>1. a \in part /\ b \notin part BY <1>5
  <2> QED BY <2>1
<1> QED BY <1>2, <1>3, <1>4, <1>5

\* What a union does to the members of the segments.
LEMMA JoinMembers ==
  ASSUME segment \in [Cell -> Cell], NamesInv,
         NEW s \in Cell, NEW t \in Cell, segment[s] = s, segment[t] = t, s # t,
         segment' = Merged(s, t)
  PROVE  /\ segment' \in [Cell -> Cell]
         /\ segment'[s] = s /\ segment'[t] = s
         /\ Members(s)' = Members(s) \cup Members(t)
         /\ Members(t)' = {}
         /\ Members(s) \cap Members(t) = {}
         /\ \A u \in Cell \ {s, t} : Members(u)' = Members(u)
<1>1. segment' = [x \in Cell |-> IF segment[x] = t THEN s ELSE segment[x]]
  BY DEF Merged, Segments!Merge
<1>2. \A u : Members(u)' = {i \in Cell : segment'[i] = u} BY DEF Members
<1>3. Members(s)' = Members(s) \cup Members(t) BY <1>1, <1>2 DEF Members
<1>4. Members(t)' = {} BY <1>1, <1>2 
<1>5. \A u \in Cell \ {s, t} : Members(u)' = Members(u) BY <1>1, <1>2 DEF Members
<1> QED BY <1>1, <1>3, <1>4, <1>5 DEF Members

\* The names after a union.
LEMMA JoinNames ==
  ASSUME segment \in [Cell -> Cell], NamesInv,
         NEW s \in Cell, NEW t \in Cell, segment[s] = s, segment[t] = t, s # t,
         segment' = Merged(s, t)
  PROVE  /\ NamesInv'
         /\ \A u \in Cell : segment'[u] = u => segment[u] = u /\ u # t
<1>1. segment' = [x \in Cell |-> IF segment[x] = t THEN s ELSE segment[x]]
  BY DEF Merged, Segments!Merge
<1> QED BY <1>1 DEF NamesInv

\* A union of the segments of two pixels that touch keeps the invariant.
LEMMA JoinKeeps ==
  ASSUME IInv, pc = "pass", pc' = "pass", src' = src,
         NEW a \in Pixel, NEW b \in Pixel, Adjacent(a, b),
         segment[a] # segment[b], Join(segment[a], segment[b])
  PROVE  /\ segment' \in [Cell -> Cell]
         /\ sizes' \in [Cell -> Nat] /\ sums' \in [Cell -> Nat]
         /\ merges' \in Nat /\ merges' # 0
         /\ NamesInv' /\ BorderInv' /\ PieceInv' /\ AccountsInv' /\ PositiveInv'
<1>1. a \in Cell /\ b \in Cell BY PixelIsCell
<1>0. PICK s, t : s = segment[a] /\ t = segment[b] OBVIOUS
<1>2. s \in Cell /\ t \in Cell /\ segment[s] = s /\ segment[t] = t /\ s # t
  BY <1>0, <1>1 DEF IInv, TypeInv, NamesInv
<1>3. /\ segment' = Merged(s, t)
      /\ sizes' = [sizes EXCEPT ![s] = sizes[s] + sizes[t]]
      /\ sums' = [sums EXCEPT ![s] = sums[s] + sums[t]]
      /\ merges' = merges + 1
  BY <1>0 DEF Join
<1>4. segment \in [Cell -> Cell] /\ NamesInv BY DEF IInv, TypeInv
<1>5. a \in Members(s) /\ b \in Members(t) BY <1>0, <1>1 DEF Members
<1>6. /\ segment' \in [Cell -> Cell]
      /\ Members(s)' = Members(s) \cup Members(t)
      /\ Members(t)' = {}
      /\ Members(s) \cap Members(t) = {}
      /\ \A u \in Cell \ {s, t} : Members(u)' = Members(u)
  BY <1>2, <1>3, <1>4, JoinMembers
<1>7. NamesInv' /\ \A u \in Cell : segment'[u] = u => segment[u] = u /\ u # t
  BY <1>2, <1>3, <1>4, JoinNames
<1>8. sizes' \in [Cell -> Nat] /\ sums' \in [Cell -> Nat] /\ merges' \in Nat /\ merges' # 0
  BY <1>2, <1>3 DEF IInv, TypeInv
<1>9. Members(s) \subseteq Pixel /\ Members(t) \subseteq Pixel
  <2>1. ASSUME NEW i \in Members(s) PROVE i \in Pixel
    BY <1>1, <1>5, <2>1 DEF Members, IInv, BorderInv
  <2>2. ASSUME NEW i \in Members(t) PROVE i \in Pixel
    BY <1>1, <1>5, <2>2 DEF Members, IInv, BorderInv
  <2> QED BY <2>1, <2>2
<1>10. BorderInv'
  <2> SUFFICES ASSUME NEW i \in Cell, NEW j \in Cell, segment'[i] = segment'[j], i # j
               PROVE  i \in Pixel /\ j \in Pixel
    BY DEF BorderInv
  <2>0. PICK u : u = segment'[i] OBVIOUS
  <2>1. u \in Cell /\ i \in Members(u)' /\ j \in Members(u)' BY <2>0, <1>6 DEF Members
  <2>2. CASE u = s BY <2>1, <2>2, <1>6, <1>9
  <2>3. CASE u \notin {s, t}
    <3>1. i \in Members(u) /\ j \in Members(u) BY <2>1, <2>3, <1>6
    <3> QED BY <3>1 DEF IInv, BorderInv, Members
  <2>4. u # t BY <2>1, <1>6
  <2> QED BY <2>2, <2>3, <2>4
<1>11. PieceInv'
  <2>1. Piece(Members(s)) /\ Piece(Members(t)) BY <1>2 DEF IInv, PieceInv
  <2>2. Members(s) \in SUBSET Cell /\ Members(t) \in SUBSET Cell BY DEF Members
  <2>3. Piece(Members(s) \cup Members(t)) BY <1>5, <2>1, <2>2, PiecesTouch
  <2>4. Piece({}) BY DEF Piece
  <2>5. ASSUME NEW u \in Cell PROVE Piece(Members(u)')
    <3>1. CASE u = s BY <3>1, <2>3, <1>6
    <3>2. CASE u = t BY <3>2, <2>4, <1>6
    <3>3. CASE u \notin {s, t}
      <4>1. Members(u)' = Members(u) BY <3>3, <1>6
      <4>2. Piece(Members(u)) BY DEF IInv, PieceInv
      <4> QED BY <4>1, <4>2
    <3> QED BY <3>1, <3>2, <3>3
  <2>6. \A u \in Cell : Piece(Members(u))' BY <2>5 DEF Piece, Adjacent
  <2> QED BY <2>6 DEF PieceInv
<1>12. AccountsInv'
  <2> SUFFICES ASSUME NEW u \in Cell, segment'[u] = u
               PROVE  /\ sizes'[u] = Cardinality(Members(u)')
                      /\ sums'[u] = Total(src, Members(u)')
    BY DEF AccountsInv
  <2>1. \A v \in Cell : segment[v] = v =>
          sizes[v] = Cardinality(Members(v)) /\ sums[v] = Total(src, Members(v))
    BY DEF IInv, AccountsInv, Working
  <2>2. segment[u] = u /\ u # t BY <1>7
  <2>3. CASE u = s
    <3>1. PICK A, B : A = Members(s) /\ B = Members(t) OBVIOUS
    <3>2. A \in SUBSET Cell /\ B \in SUBSET Cell /\ A \cap B = {} BY <3>1, <1>6 DEF Members
    <3>3. Cardinality(A \cup B) = Cardinality(A) + Cardinality(B)
      <4>1. IsFiniteSet(A) /\ IsFiniteSet(B) BY <3>2, CellFinite, FS_Subset
      <4>2. Cardinality(A \cap B) = 0 BY <3>2, FS_EmptySet
      <4>3. Cardinality(A) \in Nat /\ Cardinality(B) \in Nat BY <4>1, FS_CardinalityType
      <4>4. Cardinality(A \cup B) = Cardinality(A) + Cardinality(B) - Cardinality(A \cap B)
        BY <4>1, FS_Union
      <4> QED BY <4>2, <4>3, <4>4
    <3>4. Total(src, A \cup B) = Total(src, A) + Total(src, B)
      <4>1. src \in [Cell -> Nat] BY DEF IInv, TypeInv
      <4>2. IsFiniteSet(Cell) BY CellFinite
      <4>3. \A X, Y \in SUBSET Cell :
              X \cap Y = {} => Total(src, X \cup Y) = Total(src, X) + Total(src, Y)
        BY <4>1, <4>2, TotalUnion
      <4> QED BY <3>2, <4>3
    <3>5. sizes'[s] = sizes[s] + sizes[t] /\ sums'[s] = sums[s] + sums[t]
      BY <1>2, <1>3 DEF IInv, TypeInv
    <3> QED BY <2>1, <2>3, <3>1, <3>3, <3>4, <3>5, <1>2, <1>6
  <2>4. CASE u # s
    <3>1. Members(u)' = Members(u) BY <2>2, <2>4, <1>6
    <3>2. sizes'[u] = sizes[u] /\ sums'[u] = sums[u] BY <2>4, <1>3 DEF IInv, TypeInv
    <3> QED BY <2>1, <2>2, <3>1, <3>2
  <2> QED BY <2>3, <2>4
<1>13. PositiveInv'
  <2>1. \A u \in Cell : sizes[u] > 0 /\ sizes[u] \in Nat
    BY DEF IInv, TypeInv, PositiveInv, Working
  <2> QED BY <1>2, <1>3, <2>1 DEF PositiveInv, IInv, TypeInv
<1> QED BY <1>6, <1>7, <1>8, <1>10, <1>11, <1>12, <1>13

-----------------------------------------------------------------------------
(* Distances *)

IsFraction(d) == d.num \in Nat /\ d.den \in Nat \ {0}

\* A distance is a fraction.
LEMMA DistanceIsFraction ==
  ASSUME TypeInv, PositiveInv, Working, NEW s \in Cell, NEW t \in Cell
  PROVE  IsFraction(Distance(s, t))
<1>1. sums[s] \in Nat /\ sums[t] \in Nat /\ sizes[s] \in Nat \ {0} /\ sizes[t] \in Nat \ {0}
  BY DEF TypeInv, PositiveInv
<1>2. sums[s] * sizes[t] \in Nat /\ sums[t] * sizes[s] \in Nat /\ sizes[s] * sizes[t] \in Nat \ {0}
  BY <1>1
<1> QED BY <1>2 DEF Distance, IsFraction

\* Two segments are as far apart as the same two the other way round.
LEMMA DistanceBothWays ==
  ASSUME TypeInv, NEW s \in Cell, NEW t \in Cell
  PROVE  Distance(s, t) = Distance(t, s)
<1>1. sums[s] \in Nat /\ sums[t] \in Nat /\ sizes[s] \in Nat /\ sizes[t] \in Nat
  BY DEF TypeInv
<1>2. PICK a, b : a = sums[s] * sizes[t] /\ b = sums[t] * sizes[s] OBVIOUS
<1>3. a \in Nat /\ b \in Nat /\ sizes[s] * sizes[t] = sizes[t] * sizes[s] BY <1>1, <1>2
<1> QED BY <1>2, <1>3 DEF Distance

\* What is not nearer than something that is not near is not near.
LEMMA FarTransitive ==
  ASSUME NEW d, NEW e, NEW t, IsFraction(d), IsFraction(e), IsFraction(t),
         ~Less(d, e), ~Less(e, t)
  PROVE  ~Less(d, t)
<1>1. PICK a \in Nat, b \in Nat \ {0} : d.num = a /\ d.den = b BY DEF IsFraction
<1>2. PICK p \in Nat, q \in Nat \ {0} : e.num = p /\ e.den = q BY DEF IsFraction
<1>3. PICK x \in Nat, y \in Nat \ {0} : t.num = x /\ t.den = y BY DEF IsFraction
<1>4. p * b <= a * q /\ x * q <= p * y BY <1>1, <1>2, <1>3 DEF Less
<1>5. (p * b) * y <= (a * q) * y BY <1>4, TimesOrder
<1>6. (x * q) * b <= (p * y) * b BY <1>4, TimesOrder
<1>7. (p * b) * y = (p * y) * b /\ (a * q) * y = (a * y) * q /\ (x * q) * b = (x * b) * q OBVIOUS
<1>8. (x * b) * q <= (a * y) * q BY <1>5, <1>6, <1>7
<1>9. ASSUME a * y < x * b PROVE FALSE
  <2>1. PICK m \in Nat, n \in Nat : m = a * y /\ n = x * b OBVIOUS
  <2>2. (m + 1) * q <= n * q BY <1>9, <2>1, TimesOrder
  <2>3. (m + 1) * q = m * q + q /\ m * q \in Nat /\ n * q \in Nat OBVIOUS
  <2> QED BY <1>8, <2>1, <2>2, <2>3
<1> QED BY <1>1, <1>3, <1>9 DEF Less

\* Two pixels whose segments may be joined are in two segments.
LEMMA NearIsOther ==
  ASSUME NEW i \in Cell, NEW j \in Cell, Less(DistanceTo(i, j), Threshold)
  PROVE  segment[j] # segment[i]
<1>1. Threshold.num * Threshold.den \in Nat BY SegmentationAssumption
<1> QED BY <1>1 DEF Less, DistanceTo

\* A threshold that is not reached leaves two pixels apart.
LEMMA FarIsApart ==
  ASSUME TypeInv, NEW i \in Cell, NEW j \in Cell, ~Less(DistanceTo(i, j), Threshold)
  PROVE  Apart(i, j)
<1>1. CASE segment[j] = segment[i] BY <1>1 DEF Apart
<1>2. CASE segment[j] # segment[i]
  <2>1. segment[i] \in Cell /\ segment[j] \in Cell BY DEF TypeInv
  <2>2. Distance(segment[i], segment[j]) = Distance(segment[j], segment[i])
    BY <2>1, DistanceBothWays
  <2> QED BY <1>2, <2>2 DEF Apart, DistanceTo
<1> QED BY <1>1, <1>2

\* Where nothing is joined the pixel is apart from the two it is compared with.
LEMMA NoneIsApart ==
  ASSUME TypeInv, PositiveInv, Working, InLoops, ~NearerLeft,
         ~Less(DistanceTo(Cur, Above), Threshold)
  PROVE  Apart(Cur, Cur - 1) /\ Apart(Cur, Cur - width)
<1>1. /\ Cur \in Cell /\ Left \in Cell /\ Above \in Cell
      /\ Left = Cur - 1 /\ Above = Cur - width
  BY InImage, PixelIsCell
<1>2. Apart(Cur, Above) BY <1>1, FarIsApart
<1>3. ~Less(DistanceTo(Cur, Left), Threshold)
  <2>0. IsFraction(Threshold) BY SegmentationAssumption DEF IsFraction
  <2>1. \A i, j \in Cell : IsFraction(DistanceTo(i, j))
    BY <2>0, DistanceIsFraction DEF DistanceTo, TypeInv
  <2>2. IsFraction(DistanceTo(Cur, Left)) /\ IsFraction(DistanceTo(Cur, Above)) BY <1>1, <2>1
  <2>3. ~Less(DistanceTo(Cur, Left), DistanceTo(Cur, Above)) => ~Less(DistanceTo(Cur, Left), Threshold)
    BY <2>0, <2>2, FarTransitive
  <2> QED BY <2>3 DEF NearerLeft
<1>4. Apart(Cur, Left) BY <1>1, <1>3, FarIsApart
<1> QED BY <1>1, <1>2, <1>4

-----------------------------------------------------------------------------
(* The steps *)

\* The invariant holds in the beginning.
LEMMA InitKeeps == Init => IInv
<1> SUFFICES ASSUME Init PROVE IInv OBVIOUS
<1> USE DEF Init
<1>1. TypeInv
  <2>1. src \in [Cell -> Nat]
    <3>1. PICK image \in [Pixel -> Colour] :
            src = [i \in Cell |-> IF i \in Pixel THEN image[i] ELSE 0]
      OBVIOUS
    <3>2. \A i \in Pixel : image[i] \in Nat BY SegmentationAssumption
    <3> QED BY <3>1, <3>2
  <2>2. segment \in [Cell -> Cell] OBVIOUS
  <2> QED BY <2>1, <2>2, SegmentationAssumption DEF TypeInv
<1>2. NamesInv /\ BorderInv BY DEF NamesInv, BorderInv
<1>3. PieceInv
  <2>1. ASSUME NEW s \in Cell PROVE Piece(Members(s))
    <3>1. Members(s) = {s} BY DEF Members
    <3>2. Piece({s}) BY DEF Piece
    <3> QED BY <3>1, <3>2
  <2> QED BY <2>1 DEF PieceInv
<1>4. StartInv BY DEF StartInv
<1>5. ~Working /\ pc # "done" BY DEF Working
<1> QED BY <1>1, <1>2, <1>3, <1>4, <1>5
  DEF IInv, AccountsInv, PositiveInv, SettledInv, DoneInv

\* Start counts every cell as a segment of its own.
LEMMA StartKeeps ==
  ASSUME IInv, Start
  PROVE  IInv'
<1> USE DEF Start
<1>1. segment = [i \in Cell |-> i] /\ row = 2 /\ col = 2 BY DEF IInv, StartInv
<1>2. TypeInv' BY DEF IInv, TypeInv
<1>3. NamesInv' /\ BorderInv' BY DEF IInv, NamesInv, BorderInv
<1>4. PieceInv' BY DEF IInv, PieceInv, Piece, Members, Adjacent
<1>5. StartInv' BY DEF StartInv
<1>6. AccountsInv'
  <2> SUFFICES ASSUME NEW s \in Cell
               PROVE  /\ sizes'[s] = Cardinality(Members(s)')
                      /\ sums'[s] = Total(src, Members(s)')
    BY DEF AccountsInv
  <2>1. Members(s)' = {s} BY <1>1 DEF Members
  <2>2. Cardinality({s}) = 1 BY FS_Singleton
  <2>3. src \in [Cell -> Nat] /\ IsFiniteSet(Cell) BY CellFinite DEF IInv, TypeInv
  <2>4. Total(src, {s}) = src[s] BY <2>3, TotalSingle
  <2> QED BY <2>1, <2>2, <2>4
<1>7. PositiveInv' BY DEF PositiveInv
<1>8. SettledInv'
  <2>1. ASSUME NEW r \in 2 .. Height, NEW c \in 2 .. Width PROVE ~Visited(r, c)'
    BY <1>1 DEF Visited
  <2> QED BY <2>1 DEF SettledInv
<1>9. DoneInv' BY DEF DoneInv
<1> QED BY <1>2, <1>3, <1>4, <1>5, <1>6, <1>7, <1>8, <1>9 DEF IInv

\* Steps that leave the tables alone keep what is said of the tables.
LEMMA TablesKept ==
  ASSUME IInv, UNCHANGED <<src, tables>>, Working' => Working, pc' # "start"
  PROVE  NamesInv' /\ BorderInv' /\ PieceInv' /\ StartInv' /\ AccountsInv' /\ PositiveInv'
<1> USE DEF tables
<1>1. NamesInv' /\ BorderInv' BY DEF IInv, NamesInv, BorderInv
<1>2. PieceInv' BY DEF IInv, PieceInv, Piece, Members, Adjacent
<1>3. StartInv' BY DEF StartInv
<1>4. \A s : Members(s)' = Members(s) BY DEF Members
<1>5. AccountsInv' BY <1>4 DEF IInv, AccountsInv
<1>6. PositiveInv' BY DEF IInv, PositiveInv
<1> QED BY <1>1, <1>2, <1>3, <1>5, <1>6

\* The loops go on to the next pixel.
LEMMA VisitKeeps ==
  ASSUME IInv, Visit
  PROVE  IInv'
<1>1. /\ pc = "pass" /\ InLoops
      /\ col' = IF col + 1 < width - 1 THEN col + 1 ELSE 2
      /\ row' = IF col + 1 < width - 1 THEN row ELSE row + 1
      /\ src' = src /\ pc' = "pass"
  BY DEF Visit
<1>2. TypeInv /\ PositiveInv /\ Working BY <1>1 DEF IInv, Working
<1>3. /\ Cur \in Pixel /\ Left \in Pixel /\ Above \in Pixel
      /\ Adjacent(Left, Cur) /\ Adjacent(Above, Cur)
      /\ Cur \in Cell /\ Left \in Cell /\ Above \in Cell
  BY <1>1, <1>2, InImage, PixelIsCell
<1>4. /\ row' \in Nat /\ row' >= 2 /\ col' \in Nat /\ col' >= 2 /\ (col' <= Width \/ Width = 1)
  BY <1>1, <1>2, SegmentationAssumption DEF TypeInv, width
<1>5. StartInv' /\ DoneInv' BY <1>1 DEF StartInv, DoneInv
<1>6. CASE JoinLeft \/ JoinAbove
  <2>1. PICK a \in {Left, Above} : segment[a] # segment[Cur] /\ Join(segment[a], segment[Cur])
    BY <1>3, <1>6, NearIsOther DEF JoinLeft, JoinAbove, NearerLeft
  <2>2. a \in Pixel /\ Adjacent(a, Cur) BY <1>3
  <2>3. /\ segment' \in [Cell -> Cell]
        /\ sizes' \in [Cell -> Nat] /\ sums' \in [Cell -> Nat]
        /\ merges' \in Nat /\ merges' # 0
        /\ NamesInv' /\ BorderInv' /\ PieceInv' /\ AccountsInv' /\ PositiveInv'
    BY <1>1, <1>3, <2>1, <2>2, JoinKeeps
  <2>4. TypeInv' BY <1>1, <1>2, <1>4, <2>3 DEF TypeInv
  <2>5. SettledInv' BY <2>3 DEF SettledInv
  <2> QED BY <1>5, <2>3, <2>4, <2>5 DEF IInv
<1>7. CASE JoinNone
  <2>1. UNCHANGED <<src, tables>> /\ merges' = merges BY <1>1, <1>7 DEF JoinNone
  <2>2. TypeInv' BY <1>1, <1>2, <1>4, <2>1 DEF TypeInv, tables
  <2>3. Apart(Cur, Cur - 1) /\ Apart(Cur, Cur - width)
    BY <1>1, <1>2, <1>7, NoneIsApart DEF JoinNone
  <2>4. SettledInv'
    <3> SUFFICES ASSUME merges' = 0, NEW r \in 2 .. Height, NEW c \in 2 .. Width, Visited(r, c)',
                        NEW i, i = r * width + c
                 PROVE  Apart(i, i - 1)' /\ Apart(i, i - width)'
      BY DEF SettledInv
    <3>1. Visited(r, c) \/ (r = row /\ c = col)
      BY <1>1, <1>2, SegmentationAssumption DEF Visited, TypeInv, width
    <3>2. ASSUME Visited(r, c) PROVE Apart(i, i - 1) /\ Apart(i, i - width)
      BY <1>2, <2>1, <3>2 DEF IInv, SettledInv
    <3>3. ASSUME r = row, c = col PROVE Apart(i, i - 1) /\ Apart(i, i - width)
      BY <2>3, <3>3 DEF Cur
    <3>4. Apart(i, i - 1) /\ Apart(i, i - width) BY <3>1, <3>2, <3>3
    <3>5. UNCHANGED <<segment, sizes, sums>> BY <2>1 DEF tables
    <3> QED BY <3>4, <3>5 DEF Apart, Distance, Less
  <2>5. NamesInv' /\ BorderInv' /\ PieceInv' /\ AccountsInv' /\ PositiveInv'
    BY <1>1, <1>2, <2>1, TablesKept
  <2> QED BY <1>5, <2>2, <2>4, <2>5 DEF IInv
<1> QED BY <1>6, <1>7 DEF Visit

\* A new pass has visited nothing.
LEMMA NextPassKeeps ==
  ASSUME IInv, NextPass
  PROVE  IInv'
<1> USE DEF NextPass
<1>1. TypeInv'
  BY SegmentationAssumption DEF IInv, TypeInv, tables, FirstCount
<1>2. NamesInv' /\ BorderInv' /\ PieceInv' /\ StartInv' /\ AccountsInv' /\ PositiveInv'
  BY TablesKept DEF Working
<1>3. SettledInv'
  <2>1. ASSUME NEW r \in 2 .. Height, NEW c \in 2 .. Width PROVE ~Visited(r, c)'
    BY DEF Visited
  <2> QED BY <2>1 DEF SettledInv
<1>4. DoneInv' BY DEF DoneInv
<1> QED BY <1>1, <1>2, <1>3, <1>4 DEF IInv

\* The last pass has joined nothing.
LEMMA PaintKeeps ==
  ASSUME IInv, Paint
  PROVE  IInv'
<1> USE DEF Paint
<1>1. TypeInv' BY DEF IInv, TypeInv, tables
<1>2. NamesInv' /\ BorderInv' /\ PieceInv' /\ StartInv' /\ AccountsInv' /\ PositiveInv'
  BY TablesKept DEF Working
<1>3. merges = 0 BY DEF More, IInv, TypeInv
<1>4. SettledInv'
  BY <1>3 DEF IInv, SettledInv, Visited, Apart, Distance, Less, Working, tables
<1>5. DoneInv' BY <1>3 DEF DoneInv, InLoops, tables
<1> QED BY <1>1, <1>2, <1>4, <1>5 DEF IInv

\* Without memory nothing is done.
LEMMA OutOfMemoryKeeps ==
  ASSUME IInv, OutOfMemory
  PROVE  IInv'
<1> USE DEF OutOfMemory
<1>1. TypeInv' BY DEF IInv, TypeInv, tables
<1>2. NamesInv' /\ BorderInv' /\ PieceInv' /\ StartInv' /\ AccountsInv' /\ PositiveInv'
  BY TablesKept DEF Working
<1>3. SettledInv' /\ DoneInv' BY DEF SettledInv, DoneInv, Working
<1> QED BY <1>1, <1>2, <1>3 DEF IInv

\* Nor when the image cannot be copied.
LEMMA PaintCrashesKeeps ==
  ASSUME IInv, PaintCrashes
  PROVE  IInv'
<1> USE DEF PaintCrashes
<1>1. TypeInv' BY DEF IInv, TypeInv, tables
<1>2. NamesInv' /\ BorderInv' /\ PieceInv' /\ StartInv' /\ AccountsInv' /\ PositiveInv'
  BY TablesKept DEF Working
<1>3. SettledInv' /\ DoneInv' BY DEF SettledInv, DoneInv, Working
<1> QED BY <1>1, <1>2, <1>3 DEF IInv

\* The invariant is inductive.
LEMMA StepKeeps == IInv /\ [Next]_vars => IInv'
<1> SUFFICES ASSUME IInv, [Next]_vars PROVE IInv' OBVIOUS
<1>1. CASE UNCHANGED vars
  <2> USE <1>1 DEF vars, tables
  <2>1. TypeInv' /\ NamesInv' /\ BorderInv' /\ StartInv' /\ PositiveInv' /\ DoneInv'
    BY DEF IInv, TypeInv, NamesInv, BorderInv, StartInv, PositiveInv, DoneInv, Working, InLoops
  <2>2. PieceInv' BY DEF IInv, PieceInv, Piece, Members, Adjacent
  <2>3. \A s : Members(s)' = Members(s) BY DEF Members
  <2>4. AccountsInv' BY <2>3 DEF IInv, AccountsInv, Working
  <2>5. SettledInv'
    BY DEF IInv, SettledInv, Visited, Apart, Distance, Less, Working
  <2> QED BY <2>1, <2>2, <2>4, <2>5 DEF IInv
<1>2. CASE Next
  BY <1>2, StartKeeps, OutOfMemoryKeeps, VisitKeeps, NextPassKeeps, PaintKeeps,
     PaintCrashesKeeps DEF Next
<1> QED BY <1>1, <1>2

\* After every step the segments are pieces of the image inside its border, each with
\* the sum of its own pixels, and a pass that has joined nothing leaves apart what it
\* has visited.
THEOREM SegmentationInvariant == Spec => []IInv
BY InitKeeps, StepKeeps, PTL DEF Spec

-----------------------------------------------------------------------------
(* The theorems *)

\* Names are what segments are named by.
LEMMA NamesAreRoots ==
  ASSUME TypeInv, NamesInv
  PROVE  \A s \in Names : s \in Cell /\ segment[s] = s
BY DEF TypeInv, NamesInv, Names

\* After every pass the sizes and sums that are kept as segments join are those of
\* the pixels in them, for an image of any size.
THEOREM SegmentationAccounts == Spec => []Accounts
<1>1. IInv => Accounts
  <2> SUFFICES ASSUME IInv, pc = "pass", NEW s \in Names
               PROVE  /\ sizes[s] = Cardinality(Members(s))
                      /\ sums[s] = MapThenSumSet(LAMBDA i : src[i], Members(s))
    BY DEF Accounts
  <2>1. s \in Cell /\ segment[s] = s BY NamesAreRoots DEF IInv
  <2>2. sizes[s] = Cardinality(Members(s)) /\ sums[s] = Total(src, Members(s))
    BY <2>1 DEF IInv, AccountsInv, Working
  <2>3. MapThenSumSet(LAMBDA i : src[i], Members(s)) = Total(src, Members(s))
    BY SumIsTotal
  <2> QED BY <2>2, <2>3
<1> QED BY <1>1, SegmentationInvariant, PTL

\* A segment is always one piece, and no cell of the border is in one with a pixel.
THEOREM SegmentationConnected == Spec => []Connected
<1>1. IInv => Connected
  <2> SUFFICES ASSUME IInv, NEW s \in Names
               PROVE  /\ Members(s) \subseteq Pixel \/ Cardinality(Members(s)) = 1
                      /\ Piece(Members(s))
    BY DEF Connected, Piece
  <2>1. s \in Cell BY NamesAreRoots DEF IInv
  <2>2. Piece(Members(s)) BY <2>1 DEF IInv, PieceInv
  <2>3. ASSUME NEW i \in Members(s), i \notin Pixel PROVE Cardinality(Members(s)) = 1
    <3>1. \A j \in Members(s) : j = i BY <2>3 DEF IInv, BorderInv, Members
    <3>2. Members(s) = {i} BY <3>1
    <3> QED BY <3>2, FS_Singleton
  <2> QED BY <2>2, <2>3
<1> QED BY <1>1, SegmentationInvariant, PTL

\* A pixel with pixels on its left and above is one that the loops visit.
LEMMA InnerPixel ==
  ASSUME NEW i \in Pixel, i - 1 \in Pixel, i - width \in Pixel
  PROVE  \E r \in 2 .. Height, c \in 2 .. Width : i = r * width + c
<1>1. PICK r \in 1 .. Height, c \in 1 .. Width : i = r * width + c BY DEF Pixel
<1>2. PICK s \in 1 .. Height, d \in 1 .. Width : i - 1 = s * width + d BY DEF Pixel
<1>3. PICK u \in 1 .. Height, e \in 1 .. Width : i - width = u * width + e BY DEF Pixel
<1>4. width \in Nat /\ width > Width /\ width > 0 BY Sizes
<1>5. r \in Nat /\ c \in Nat /\ s \in Nat /\ d \in Nat /\ u \in Nat /\ e \in Nat
      /\ Width \in Nat /\ Height \in Nat
  BY SegmentationAssumption
<1>6. r * width \in Nat /\ s * width \in Nat /\ u * width \in Nat BY <1>4, <1>5
<1>7. c - 1 = d
  <2>1. r * width + (c - 1) = s * width + d BY <1>1, <1>2, <1>5, <1>6
  <2>2. c - 1 \in 0 .. width - 1 /\ d \in 0 .. width - 1 BY <1>4, <1>5
  <2> QED BY <2>1, <2>2, <1>4, <1>5, OnePlace
<1>8. r = u + 1
  <2>1. (u + 1) * width = u * width + width BY <1>4, <1>5
  <2>2. r * width + c = (u + 1) * width + e BY <1>1, <1>3, <1>4, <1>5, <1>6, <2>1
  <2>3. c \in 0 .. width - 1 /\ e \in 0 .. width - 1 /\ u + 1 \in Nat BY <1>4, <1>5
  <2> QED BY <2>2, <2>3, <1>4, <1>5, OnePlace
<1>9. r \in 2 .. Height /\ c \in 2 .. Width BY <1>5, <1>7, <1>8
<1> QED BY <1>1, <1>9

\* In the result no pixel that the loops visit is in a segment whose average is
\* near to that of the segment on its left or above.
THEOREM SegmentationSettled == Spec => []Settled
<1>1. IInv => Settled
  <2> SUFFICES ASSUME IInv, pc = "done", NEW i \in Pixel, i - 1 \in Pixel, i - width \in Pixel
               PROVE  Apart(i, i - 1) /\ Apart(i, i - width)
    BY DEF Settled
  <2>1. PICK r \in 2 .. Height, c \in 2 .. Width : i = r * width + c BY InnerPixel
  <2>2. ~InLoops /\ merges = 0 /\ TypeInv /\ Working BY DEF IInv, DoneInv, Working
  <2>3. Visited(r, c)
    BY <2>2, SegmentationAssumption DEF Visited, InLoops, TypeInv, width, height
  <2> QED BY <2>1, <2>2, <2>3 DEF IInv, SettledInv
<1> QED BY <1>1, SegmentationInvariant, PTL

\* The function changes the segments only by unions: it uses nothing that a
\* structure that implements Partition does not promise.
THEOREM SegmentationUsesPartition == Spec => Segments!Spec
<1>1. Init => Segments!Init BY DEF Init, Segments!Init
<1>2. IInv /\ [Next]_vars => [Segments!Next]_(Segments!vars)
  <2> SUFFICES ASSUME IInv, [Next]_vars
               PROVE  (\E s, t \in Cell : Segments!Union(s, t)) \/ UNCHANGED segment
    BY DEF Segments!Next, Segments!vars
  <2>1. CASE Visit
    <3>1. pc = "pass" /\ InLoops BY <2>1 DEF Visit
    <3>2. Cur \in Cell /\ Left \in Cell /\ Above \in Cell
      BY <3>1, InImage, PixelIsCell DEF IInv
    <3>3. segment[Cur] \in Cell /\ segment[Left] \in Cell /\ segment[Above] \in Cell
      BY <3>2 DEF IInv, TypeInv
    <3>4. CASE JoinLeft \/ JoinAbove
      <4>1. PICK s \in Cell, t \in Cell : segment' = Merged(s, t)
        BY <3>3, <3>4 DEF JoinLeft, JoinAbove, Join
      <4> QED BY <4>1 DEF Merged, Segments!Union
    <3>5. CASE JoinNone BY <3>5 DEF JoinNone, tables
    <3> QED BY <2>1, <3>4, <3>5 DEF Visit
  <2>2. CASE ~Visit
    BY <2>2 DEF Next, Start, OutOfMemory, NextPass, Paint, PaintCrashes, tables, vars
  <2> QED BY <2>1, <2>2
<1> QED BY <1>1, <1>2, SegmentationInvariant, PTL DEF Spec, Segments!Spec
=============================================================================
