----------------------------- MODULE Segmentation -----------------------------
(***************************************************************************)
(* sl_img_segment_rgb of src/stufflib/img/img.c: passes over the image in  *)
(* which each pixel's segment may join the one on the left or above,       *)
(* whichever average colour is nearer, until a pass joins none.            *)
(*                                                                         *)
(* The segments are the classes of Partition, which the union-find         *)
(* structure implements (UnionFind); the name of a class is the index at   *)
(* which the size and the sum of its colours are kept.  A colour is one    *)
(* number and not three, and averages are compared as fractions.           *)
(***************************************************************************)
EXTENDS Integers, FiniteSets, FiniteSetsExt

CONSTANTS
  Width, Height,    \* of the image, in pixels
  Colour,           \* the colours of pixels
  Threshold         \* the distance threshold, a fraction [num, den]

ASSUME SegmentationAssumption ==
  /\ Width \in Nat \ {0} /\ Height \in Nat \ {0}
  /\ Colour \subseteq Nat
  /\ Threshold.num \in Nat /\ Threshold.den \in Nat \ {0}

\* The image has been given a border of one pixel.
width == Width + 2
height == Height + 2
Cell == 0 .. width * height - 1
Pixel == {row * width + col : row \in 1 .. Height, col \in 1 .. Width}

VARIABLES
  src,          \* the colour of every cell
  segment,      \* segments: the class of every cell
  sizes, sums,  \* segment_sizes, segment_sums
  row, col,     \* of the loops
  merges,       \* num_merges
  pc,
  dst           \* the colours of the result

tables == <<segment, sizes, sums>>
vars == <<src, tables, row, col, merges, pc, dst>>

Segments == INSTANCE Partition
  WITH Elem <- Cell, NoElem <- -1, class <- segment, answer <- [of |-> -1, root |-> -1]

Init ==
  /\ \E image \in [Pixel -> Colour] :
       src = [i \in Cell |-> IF i \in Pixel THEN image[i] ELSE 0]
  /\ segment = [i \in Cell |-> i]
  /\ sizes = [i \in Cell |-> 0] /\ sums = [i \in Cell |-> 0]
  /\ row = 2 /\ col = 2
  /\ merges = 0
  /\ pc = "start"
  /\ dst = src

Start ==
  /\ pc = "start"
  /\ sizes' = [i \in Cell |-> 1]
  /\ sums' = src
  /\ pc' = "pass"
  /\ UNCHANGED <<src, segment, row, col, merges, dst>>

\* One of the three tables cannot be had: nothing is done.
OutOfMemory ==
  /\ pc = "start"
  /\ pc' = "failed"
  /\ UNCHANGED <<src, tables, row, col, merges, dst>>

-----------------------------------------------------------------------------
\* How far the averages of two segments are apart.
Distance(s, t) ==
  LET difference == sums[s] * sizes[t] - sums[t] * sizes[s]
  IN  [num |-> IF difference < 0 THEN -difference ELSE difference,
       den |-> sizes[s] * sizes[t]]

Less(d, e) == d.num * e.den < e.num * d.den

\* A neighbour in the same segment counts as too far.
DistanceTo(cur, neighbour) ==
  IF segment[neighbour] = segment[cur] THEN Threshold
  ELSE Distance(segment[neighbour], segment[cur])

Cur == row * width + col
Left == row * width + col - 1

\* Mutant: the pixel above the one on the left.
AboveDiagonal == (row - 1) * width + col - 1

Above == (row - 1) * width + col

\* Mutant: the two sides of the union the other way round.
MergedReversed(s, t) == Segments!Merge(segment, t, s)

Merged(s, t) == Segments!Merge(segment, s, t)

\* The segment t joins the segment s.
Join(s, t) ==
  /\ segment' = Merged(s, t)
  /\ sizes' = [sizes EXCEPT ![s] = @ + sizes[t]]
  /\ sums' = [sums EXCEPT ![s] = @ + sums[t]]
  /\ merges' = merges + 1

NearerLeft ==
  /\ Less(DistanceTo(Cur, Left), DistanceTo(Cur, Above))
  /\ Less(DistanceTo(Cur, Left), Threshold)

JoinLeft == NearerLeft /\ Join(segment[Left], segment[Cur])

JoinAbove ==
  /\ ~NearerLeft
  /\ Less(DistanceTo(Cur, Above), Threshold)
  /\ Join(segment[Above], segment[Cur])

JoinNone ==
  /\ ~NearerLeft
  /\ ~Less(DistanceTo(Cur, Above), Threshold)
  /\ UNCHANGED <<tables, merges>>

\* The loops begin at 2 and end before the border.
InLoops == row < height - 1 /\ col < width - 1

Visit ==
  /\ pc = "pass"
  /\ InLoops
  /\ JoinLeft \/ JoinAbove \/ JoinNone
  /\ col' = IF col + 1 < width - 1 THEN col + 1 ELSE 2
  /\ row' = IF col + 1 < width - 1 THEN row ELSE row + 1
  /\ UNCHANGED <<src, pc, dst>>

\* Mutant: the count of merges goes on from pass to pass.
FirstCountKept == merges

\* num_merges at the beginning of a pass.
FirstCount == 0

\* Mutant: one pass is all.
MoreOnce == FALSE

More == merges > 0

NextPass ==
  /\ pc = "pass"
  /\ ~InLoops
  /\ More
  /\ merges' = FirstCount
  /\ row' = 2 /\ col' = 2
  /\ UNCHANGED <<src, tables, pc, dst>>

\* Every pixel gets the colour of the one that names its segment.
Paint ==
  /\ pc = "pass"
  /\ ~InLoops
  /\ ~More
  /\ dst' = [i \in Cell |-> src[segment[i]]]
  /\ pc' = "done"
  /\ UNCHANGED <<src, tables, row, col, merges>>

\* The image cannot be copied.  Nothing looks whether it was, and the colours are
\* written to a null pointer.
PaintCrashes ==
  /\ pc = "pass"
  /\ ~InLoops
  /\ ~More
  /\ pc' = "crashed"
  /\ UNCHANGED <<src, tables, row, col, merges, dst>>

-----------------------------------------------------------------------------
Next == Start \/ OutOfMemory \/ Visit \/ NextPass \/ Paint \/ PaintCrashes

\* Sequential code that nothing blocks.
Spec == Init /\ [][Next]_vars /\ WF_vars(Next)

-----------------------------------------------------------------------------
Members(s) == {i \in Cell : segment[i] = s}
Names == {segment[i] : i \in Cell}

\* After every pass the sizes and sums that are kept as segments join are those of
\* the pixels in them: the averages compared are the averages of whole segments, however many
\* unions have renamed them.
Accounts ==
  (pc = "pass" /\ ~InLoops) =>
    \A s \in Names :
      /\ sizes[s] = Cardinality(Members(s))
      /\ sums[s] = MapThenSumSet(LAMBDA i : src[i], Members(s))

Adjacent(i, j) == j \in {i - 1, i + 1, i - width, i + width}

\* After every pass a segment is one piece: it cannot be divided into two sets of
\* pixels that do not touch.  The border belongs to no segment of the image.
Connected ==
  ~InLoops =>
    \A s \in Names :
      /\ Members(s) \subseteq Pixel \/ Cardinality(Members(s)) = 1
      /\ \A part \in (SUBSET Members(s)) \ {{}, Members(s)} :
           \E i \in part, j \in Members(s) \ part : Adjacent(i, j)

Apart(i, j) == segment[i] = segment[j] \/ ~Less(Distance(segment[i], segment[j]), Threshold)

\* In the result no pixel that the loops visit is in a segment whose average is
\* near to that of the segment on its left or above, although every join has
\* moved an average that had been compared before.
Settled ==
  pc = "done" =>
    \A i \in Pixel : (i - 1 \in Pixel /\ i - width \in Pixel) =>
       Apart(i, i - 1) /\ Apart(i, i - width)

\* A pass without a join comes.
Ends == <>(pc \in {"done", "failed", "crashed"})
==============================================================================
