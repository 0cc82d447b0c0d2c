----------------------------- MODULE TextProofs -----------------------------
(***************************************************************************)
(* Proofs about Text, with Sort, MergeSort, Tokenizer and Utf8, for every  *)
(* job, every size of the buffer, every threshold and every depth of the   *)
(* stack of errors: a command that ends well with nothing reported has     *)
(* printed what it was asked for; one in which nothing fails ends well     *)
(* exactly if it was given text; and no scan of the quicksort leaves its   *)
(* range.                                                                  *)
(*                                                                         *)
(* The parts: joining sequences; rearranging them; the orders of lines;    *)
(* the insertion sort, the merge sort and the quicksort; the cuts of a text*)
(* and the tokens between them; what the commands print of them; the       *)
(* invariant, with a lemma for each action; the decoder; and how a command *)
(* ends where nothing fails, with a lemma for each action again.           *)
(***************************************************************************)
EXTENDS TextInvariant, SequenceTheorems, FiniteSetTheorems, TLAPS

-----------------------------------------------------------------------------
(* Numbers.                                                                *)

\* The order of the natural numbers as a relation.
LessThan == {ss \in Nat \X Nat : ss[1] < ss[2]}

\* There is no endless descent in the natural numbers.
LEMMA LessThanWellFounded == IsWellFoundedOn(LessThan, Nat)
BY NatLessThanWellFounded DEF OpToRel, LessThan

\* A set of natural numbers that is not empty has a least element.
LEMMA LeastNumber ==
  ASSUME NEW S \in SUBSET Nat, S # {}
  PROVE  \E n \in S : \A m \in S : n <= m
<1>1. PICK n \in S : \A m \in S : ~(<<m, n>> \in LessThan)
  BY LessThanWellFounded, WFMin, Zenon
<1>2. \A m \in S : ~(m < n) BY <1>1 DEF LessThan
<1> QED BY <1>2

\* Induction up to a bound, over a set instead of an operator.
LEMMA CountUp ==
  ASSUME NEW n \in Nat, NEW S, 0 \in S, \A m \in 0 .. n - 1 : m \in S => m + 1 \in S
  PROVE  0 .. n \subseteq S
<1> SUFFICES ASSUME ~(0 .. n \subseteq S) PROVE FALSE OBVIOUS
<1> DEFINE B == {m \in 0 .. n : m \notin S}
<1>1. B \in SUBSET Nat /\ B # {} OBVIOUS
<1>2. PICK k \in B : \A m \in B : k <= m
  <2> HIDE DEF B
  <2> QED BY <1>1, LeastNumber
<1>3. k # 0 /\ k \in 0 .. n BY <1>2
<1>4. k - 1 \in 0 .. n - 1 /\ k - 1 \notin B BY <1>2, <1>3
<1>5. (k - 1) + 1 \in S BY <1>4
<1> QED BY <1>2, <1>3, <1>5

\* The least element of a set of natural numbers, as the model picks it.
LEMMA TextMin ==
  ASSUME NEW S \in SUBSET Nat, S # {}
  PROVE  Min(S) \in S /\ \A m \in S : Min(S) <= m
BY LeastNumber DEF Min

\* The greatest element of a set of numbers that has a bound.
LEMMA TextMax ==
  ASSUME NEW S \in SUBSET Int, S # {}, NEW b \in Int, \A x \in S : x <= b
  PROVE  Max(S) \in S /\ \A m \in S : m <= Max(S)
<1> DEFINE D == {b - x : x \in S}
<1>1. D \in SUBSET Nat /\ D # {}
  <2>1. ASSUME NEW x \in S PROVE b - x \in Nat
    <3>1. x \in Int /\ x <= b OBVIOUS
    <3> QED BY <3>1
  <2> QED BY <2>1
<1>2. PICK d \in D : \A e \in D : d <= e
  <2> HIDE DEF D
  <2> QED BY <1>1, LeastNumber
<1>3. PICK x \in S : d = b - x BY <1>2
<1>4. \A y \in S : x >= y
  <2> TAKE y \in S
  <2>1. b - x <= b - y BY <1>2, <1>3
  <2> QED BY <2>1
<1>5. Max(S) \in S /\ \A y \in S : Max(S) >= y
  BY <1>3, <1>4 DEF Max
<1> QED BY <1>5

\* The lesser of two numbers.
LEMMA TextMinOfTwo ==
  ASSUME NEW x \in Int, NEW y \in Int
  PROVE  Min({x, y}) = IF x <= y THEN x ELSE y
BY DEF Min

\* The greater of two numbers.
LEMMA TextMaxOfTwo ==
  ASSUME NEW x \in Int, NEW y \in Int
  PROVE  Max({x, y}) = IF x <= y THEN y ELSE x
BY DEF Max

-----------------------------------------------------------------------------
(* Joining sequences.                                                      *)

\* Nothing joined is nothing.
LEMMA TextFlattenNone == FlattenSeq(<<>>) = <<>>
BY DEF FlattenSeq

\* g begins with b and has each value from the one before it.
Follows(g, n, b, h) == g[0] = b /\ \A i \in 1..n : g[i] = h[i][g[i - 1]]

\* There is such a function.
LEMMA TextRecursion ==
  ASSUME NEW n \in Nat, NEW V, NEW b \in V, NEW h \in [1..n -> [V -> V]]
  PROVE  \E g \in [0..n -> V] : Follows(g, n, b, h)
<1> DEFINE Some(m) == \E g \in [0..m -> V] : g[0] = b /\ \A i \in 1..m : g[i] = h[i][g[i - 1]]
           S == {m \in 0..n : Some(m)}
<1>1. Some(0)
  <2> DEFINE g == [i \in 0..0 |-> b]
  <2>1. g \in [0..0 -> V] /\ g[0] = b /\ \A i \in 1..0 : g[i] = h[i][g[i - 1]] OBVIOUS
  <2> QED BY <2>1
<1>2. ASSUME NEW m \in 0..n - 1, Some(m) PROVE Some(m + 1)
  <2>1. PICK g \in [0..m -> V] : g[0] = b /\ \A i \in 1..m : g[i] = h[i][g[i - 1]] BY <1>2
  <2> DEFINE next == h[m + 1][g[m]]
             f == [i \in 0..m + 1 |-> IF i = m + 1 THEN next ELSE g[i]]
  <2>2. g[m] \in V /\ m + 1 \in 1..n BY <2>1
  <2>3. next \in V BY <2>2
  <2>4. f \in [0..m + 1 -> V]
    <3> HIDE DEF next
    <3> QED BY <2>1, <2>3
  <2>5. f[0] = b BY <2>1
  <2>6. ASSUME NEW i \in 1..m + 1 PROVE f[i] = h[i][f[i - 1]]
    <3>1. i - 1 \in 0..m /\ i - 1 # m + 1 OBVIOUS
    <3>2. f[i - 1] = g[i - 1] BY <3>1
    <3>3. CASE i = m + 1 BY <3>2, <3>3
    <3>4. CASE i \in 1..m
      <4>1. f[i] = g[i] BY <3>4
      <4> QED BY <4>1, <3>2, <3>4, <2>1
    <3> QED BY <3>3, <3>4
  <2> HIDE DEF f
  <2> QED BY <2>4, <2>5, <2>6
<1>3. 0..n \subseteq S
  <2>1. 0 \in S BY <1>1
  <2>2. ASSUME NEW m \in 0..n - 1, m \in S PROVE m + 1 \in S
    <3>1. m + 1 \in 0..n OBVIOUS
    <3>2. Some(m) BY <2>2
    <3>3. Some(m + 1) BY <3>2, <1>2
    <3> HIDE DEF Some
    <3> QED BY <3>1, <3>3
  <2> HIDE DEF S
  <2> QED BY <2>1, <2>2, CountUp
<1>4. n \in S BY <1>3
<1> QED BY <1>4 DEF Follows

\* Its values stay in a set that has the first and, with each, the next.
LEMMA TextRecursionStays ==
  ASSUME NEW n \in Nat, NEW V, NEW g, g[0] \in V,
         \A i \in 1..n : g[i - 1] \in V => g[i] \in V
  PROVE  \A i \in 0..n : g[i] \in V
<1> DEFINE S == {m \in 0..n : g[m] \in V}
<1>1. 0 \in S OBVIOUS
<1>2. ASSUME NEW m \in 0..n - 1, m \in S PROVE m + 1 \in S
  <2>1. m + 1 \in 1..n /\ (m + 1) - 1 = m OBVIOUS
  <2>2. g[m] \in V BY <1>2
  <2>3. g[m + 1] \in V BY <2>1, <2>2
  <2> QED BY <2>1, <2>3
<1>3. 0..n \subseteq S
  <2> HIDE DEF S
  <2> QED BY <1>1, <1>2, CountUp
<1> QED BY <1>3

\* The function that joins sequences one after the other.
IsFlatten(g, seqs) ==
  g = [i \in 1..Len(seqs) |-> IF i = 1 THEN seqs[i] ELSE g[i - 1] \o seqs[i]]

\* What it gives, sequences of B.
Joins(g, seqs, B) ==
  /\ Len(seqs) > 0 => g[1] = seqs[1]
  /\ \A i \in 2..Len(seqs) : g[i] = g[i - 1] \o seqs[i]
  /\ \A i \in 1..Len(seqs) : g[i] \in Seq(B)

\* That function does so.
LEMMA TextIsFlatten ==
  ASSUME NEW B, NEW seqs \in Seq(Seq(B)), NEW g, IsFlatten(g, seqs)
  PROVE  Joins(g, seqs, B)
<1> DEFINE n == Len(seqs)
<1>0. n \in Nat /\ \A i \in 1..n : seqs[i] \in Seq(B) BY ElementOfSeq
<1>1. \A i \in 1..n : g[i] = IF i = 1 THEN seqs[i] ELSE g[i - 1] \o seqs[i]
  BY DEF IsFlatten
<1>2. ASSUME NEW i \in 2..n PROVE g[i] = g[i - 1] \o seqs[i]
  <2>1. i \in 1..n /\ i # 1 BY <1>0
  <2> QED BY <1>1, <2>1
<1>3. \A i \in 0..n : (i = 0 \/ g[i] \in Seq(B))
  <2> DEFINE k == [i \in 0..n |-> IF i = 0 THEN <<>> ELSE g[i]]
  <2>1. k[0] \in Seq(B) BY <1>0
  <2>2. ASSUME NEW i \in 1..n, k[i - 1] \in Seq(B) PROVE k[i] \in Seq(B)
    <3>1. CASE i = 1 BY <3>1, <1>0, <1>1
    <3>2. CASE i # 1
      <4>1. i \in 2..n /\ i - 1 \in 0..n /\ i - 1 # 0 /\ i # 0 /\ i \in 0..n BY <3>2, <1>0
      <4>2. k[i - 1] = g[i - 1] /\ k[i] = g[i] BY <4>1
      <4>3. g[i] = g[i - 1] \o seqs[i] BY <4>1, <1>2
      <4>4. g[i - 1] \in Seq(B) /\ seqs[i] \in Seq(B) BY <4>2, <2>2, <1>0
      <4> HIDE DEF k
      <4> QED BY <4>2, <4>3, <4>4, ConcatProperties
    <3> QED BY <3>1, <3>2
  <2>3. \A i \in 0..n : k[i] \in Seq(B)
    <3> HIDE DEF k, n
    <3> QED BY <1>0, <2>1, <2>2, TextRecursionStays
  <2>4. \A i \in 1..n : k[i] = g[i] BY <1>0
  <2> HIDE DEF k
  <2> QED BY <2>3, <2>4
<1>4. n > 0 => g[1] = seqs[1] BY <1>0, <1>1
<1>5. \A i \in 1..n : g[i] \in Seq(B)
  <2> HIDE DEF n
  <2> QED BY <1>0, <1>3
<1> QED BY <1>2, <1>4, <1>5 DEF Joins

\* There is one.
LEMMA TextFlattenExists ==
  ASSUME NEW B, NEW seqs \in Seq(Seq(B))
  PROVE  \E g : IsFlatten(g, seqs)
<1> DEFINE n == Len(seqs)
           V == Seq(B)
           h == [i \in 1..n |-> [v \in V |-> IF i = 1 THEN seqs[i] ELSE v \o seqs[i]]]
<1>0. n \in Nat /\ <<>> \in V /\ \A i \in 1..n : seqs[i] \in V BY ElementOfSeq
<1>1. h \in [1..n -> [V -> V]]
  <2>1. ASSUME NEW i \in 1..n, NEW v \in V PROVE v \o seqs[i] \in V
    <3>1. seqs[i] \in V BY <1>0
    <3> HIDE DEF h
    <3> QED BY <3>1, ConcatProperties
  <2> HIDE DEF V, n
  <2> QED BY <2>1, <1>0
<1>2. PICK g \in [0..n -> V] : Follows(g, n, <<>>, h)
  <2> HIDE DEF h, V, n
  <2> QED BY <1>0, <1>1, TextRecursion
<1> DEFINE f == [i \in 1..n |-> g[i]]
<1>3. ASSUME NEW i \in 1..n PROVE f[i] = IF i = 1 THEN seqs[i] ELSE f[i - 1] \o seqs[i]
  <2>1. i - 1 \in 0..n BY <1>0
  <2>2. g[i - 1] \in V BY <2>1, <1>2
  <2>3. g[i] = IF i = 1 THEN seqs[i] ELSE g[i - 1] \o seqs[i] BY <1>2, <2>2 DEF Follows
  <2>4. f[i] = g[i] OBVIOUS
  <2>5. i # 1 => f[i - 1] = g[i - 1] BY <1>0
  <2> HIDE DEF f, h
  <2> QED BY <2>3, <2>4, <2>5
<1>4. f = [i \in 1..n |-> f[i]] OBVIOUS
<1> HIDE DEF f
<1>5. [i \in 1..n |-> f[i]] = [i \in 1..n |-> IF i = 1 THEN seqs[i] ELSE f[i - 1] \o seqs[i]]
  BY <1>3
<1>6. IsFlatten(f, seqs) BY <1>4, <1>5 DEF IsFlatten
<1> QED BY <1>6

\* t is s and then x.
IsAppended(t, s, x) ==
  Len(t) = Len(s) + 1 /\ t[Len(s) + 1] = x /\ \A i \in 1..Len(s) : t[i] = s[i]

\* Joining all but the last, and then the last.
LEMMA TextFlattenLast ==
  ASSUME NEW B, NEW seqs \in Seq(Seq(B)), NEW x \in Seq(B),
         NEW t \in Seq(Seq(B)), IsAppended(t, seqs, x),
         NEW f, IsFlatten(f, seqs), NEW g, IsFlatten(g, t), Len(seqs) > 0
  PROVE  g[Len(t)] = f[Len(seqs)] \o x
<1>a. Joins(g, t, B) /\ Joins(f, seqs, B) BY TextIsFlatten
<1>2. /\ \A i \in 2..Len(t) : g[i] = g[i - 1] \o t[i]
      /\ Len(t) > 0 => g[1] = t[1]
  BY <1>a DEF Joins
<1>3. /\ \A i \in 2..Len(seqs) : f[i] = f[i - 1] \o seqs[i]
      /\ Len(seqs) > 0 => f[1] = seqs[1]
  BY <1>a DEF Joins
<1> DEFINE n == Len(seqs)
           S == {m \in 0..n : m = 0 \/ g[m] = f[m]}
<1>1. /\ Len(t) = n + 1 /\ n \in Nat /\ n > 0 /\ Len(t) > 0
      /\ t[n + 1] = x /\ \A i \in 1..n : t[i] = seqs[i]
  BY DEF IsAppended
<1>4. 0 \in S BY <1>1
<1>5. ASSUME NEW m \in 0..n - 1, m \in S PROVE m + 1 \in S
  <2>1. m + 1 \in 1..n /\ (m + 1) - 1 = m BY <1>1
  <2>2. CASE m = 0
    <3>1. g[1] = f[1] /\ 1 \in 0..n BY <1>1, <1>2, <1>3
    <3> QED BY <3>1, <2>2
  <2>3. CASE m # 0
    <3>1. g[m] = f[m] BY <1>5, <2>3
    <3>2. m + 1 \in 2..Len(t) /\ m + 1 \in 2..Len(seqs) BY <1>1, <2>3
    <3>3. g[m + 1] = g[m] \o t[m + 1] BY <3>2, <2>1, <1>2
    <3>4. f[m + 1] = f[m] \o seqs[m + 1] BY <3>2, <2>1, <1>3
    <3>5. g[m + 1] = f[m + 1] BY <3>1, <3>3, <3>4, <2>1, <1>1
    <3> QED BY <3>5, <2>1
  <2> QED BY <2>2, <2>3
<1>6. 0..n \subseteq S
  <2> HIDE DEF S, n
  <2> QED BY <1>1, <1>4, <1>5, CountUp
<1>7. g[n] = f[n]
  <2>1. n \in S
    <3> HIDE DEF S, n
    <3> QED BY <1>6, <1>1
  <2> QED BY <2>1, <1>1
<1>8. g[n + 1] = g[n] \o t[n + 1]
  <2>1. n + 1 \in 2..Len(t) /\ (n + 1) - 1 = n BY <1>1
  <2> QED BY <2>1, <1>2
<1> QED BY <1>1, <1>7, <1>8

\* What joining gives.
LEMMA TextFlattened ==
  ASSUME NEW B, NEW seqs \in Seq(Seq(B))
  PROVE  \E f : IsFlatten(f, seqs) /\ FlattenSeq(seqs) = IF Len(seqs) = 0 THEN seqs ELSE f[Len(seqs)]
<1> DEFINE f == CHOOSE g : IsFlatten(g, seqs)
<1>1. IsFlatten(f, seqs) BY TextFlattenExists
<1>2. FlattenSeq(seqs) = IF Len(seqs) = 0 THEN seqs ELSE f[Len(seqs)] BY DEF FlattenSeq, IsFlatten
<1> QED BY <1>1, <1>2

\* Joining gives a sequence of what the parts have.
LEMMA TextFlattenType ==
  ASSUME NEW B, NEW seqs \in Seq(Seq(B))
  PROVE  FlattenSeq(seqs) \in Seq(B)
<1>1. PICK f : IsFlatten(f, seqs) /\ FlattenSeq(seqs) = IF Len(seqs) = 0 THEN seqs ELSE f[Len(seqs)]
  BY TextFlattened
<1>2. CASE Len(seqs) = 0
  <2>1. seqs = <<>> BY <1>2
  <2> QED BY <1>1, <2>1
<1>3. CASE Len(seqs) # 0
  <2>1. Len(seqs) \in 1..Len(seqs) BY <1>3
  <2>2. \A i \in 1..Len(seqs) : f[i] \in Seq(B) BY <1>1, TextIsFlatten DEF Joins
  <2> QED BY <1>1, <1>3, <2>1, <2>2
<1> QED BY <1>2, <1>3

\* Joining one part more is joining it to the rest.
LEMMA TextFlattenAppend ==
  ASSUME NEW B, NEW seqs \in Seq(Seq(B)), NEW x \in Seq(B)
  PROVE  FlattenSeq(Append(seqs, x)) = FlattenSeq(seqs) \o x
<1>1. PICK f : IsFlatten(f, seqs) /\ FlattenSeq(seqs) = IF Len(seqs) = 0 THEN seqs ELSE f[Len(seqs)]
  BY TextFlattened
<1> DEFINE t == Append(seqs, x)
<1>3. /\ t \in Seq(Seq(B)) /\ Len(t) = Len(seqs) + 1 /\ Len(seqs) \in Nat
      /\ t[Len(seqs) + 1] = x /\ \A i \in 1..Len(seqs) : t[i] = seqs[i]
  OBVIOUS
<1> HIDE DEF t
<1>4. PICK g : IsFlatten(g, t) /\ FlattenSeq(t) = IF Len(t) = 0 THEN t ELSE g[Len(t)]
  BY <1>3, TextFlattened
<1>5. CASE Len(seqs) = 0
  <2>1. seqs = <<>> /\ Len(t) > 0 BY <1>3, <1>5
  <2>2. FlattenSeq(seqs) = <<>> BY <2>1, TextFlattenNone
  <2>3. g[1] = t[1]
    <3>1. IsFlatten(g, t) BY <1>4
    <3>2. Joins(g, t, B) BY <3>1, <1>3, TextIsFlatten
    <3> QED BY <3>2, <2>1 DEF Joins
  <2>4. FlattenSeq(t) = x BY <1>3, <1>4, <1>5, <2>3
  <2>5. <<>> \o x = x BY ConcatEmptySeq
  <2> QED BY <2>2, <2>4, <2>5 DEF t
<1>6. CASE Len(seqs) # 0
  <2>1. Len(seqs) > 0 /\ Len(t) # 0 BY <1>3, <1>6
  <2>2. g[Len(t)] = f[Len(seqs)] \o x
    <3>1. IsFlatten(g, t) /\ IsFlatten(f, seqs) BY <1>1, <1>4
    <3>2. IsAppended(t, seqs, x) BY <1>3 DEF IsAppended
    <3>3. t \in Seq(Seq(B)) BY <1>3
    <3> QED BY <3>3, <2>1, <3>1, <3>2, TextFlattenLast, SMTT(60)
  <2>3. FlattenSeq(t) = FlattenSeq(seqs) \o x BY <1>1, <1>4, <1>6, <2>1, <2>2
  <2> QED BY <2>3 DEF t
<1> QED BY <1>5, <1>6

-----------------------------------------------------------------------------
(* Rearranging a sequence.                                                 *)

\* A sequence of as many places as it has elements.
LEMMA TextPermutesOnto ==
  ASSUME NEW n \in Nat, NEW p, Permutes(p, n)
  PROVE  \A j \in 1..n : \E i \in 1..n : p[i] = j
<1> DEFINE D == 1..n
<1>1. IsFiniteSet(D) BY FS_Interval
<1>2. p \in Injection(D, D) BY DEF Permutes, Injection, IsInjective
<1>3. p \in Surjection(D, D)
  <2> HIDE DEF D
  <2> QED BY <1>1, <1>2, FS_Injection
<1>4. \A j \in D : \E i \in D : p[i] = j BY <1>3 DEF Surjection
<1> QED BY <1>4

\* A sequence is itself rearranged.
LEMMA TextPermutedSelf == ASSUME NEW S, NEW s \in Seq(S) PROVE IsPermuted(s, s)
<1>1. Takes(s, s, [i \in 1..Len(s) |-> i]) BY DEF Takes, Permutes
<1> QED BY <1>1 DEF IsPermuted

\* What is rearranged twice is rearranged.
LEMMA TextPermutedTwice ==
  ASSUME NEW s, NEW t, NEW u, IsPermuted(t, s), IsPermuted(u, t)
  PROVE  IsPermuted(u, s)
<1>1. PICK p : Takes(t, s, p) BY DEF IsPermuted
<1>2. PICK q : Takes(u, t, q) BY DEF IsPermuted
<1> DEFINE r == [i \in 1..Len(s) |-> p[q[i]]]
<1>3. Len(u) = Len(s) /\ Len(t) = Len(s) BY <1>1, <1>2 DEF Takes
<1>4. Permutes(p, Len(s)) /\ Permutes(q, Len(s)) BY <1>1, <1>2 DEF Takes
<1>5. Permutes(r, Len(s))
  <2>1. \A i \in 1..Len(s) : q[i] \in 1..Len(s) /\ p[q[i]] \in 1..Len(s) BY <1>4 DEF Permutes
  <2>2. r \in [1..Len(s) -> 1..Len(s)] BY <2>1
  <2>3. ASSUME NEW i \in 1..Len(s), NEW j \in 1..Len(s), r[i] = r[j] PROVE i = j
    <3>1. p[q[i]] = p[q[j]] BY <2>3
    <3>2. q[i] = q[j] BY <3>1, <2>1, <1>4 DEF Permutes
    <3> QED BY <3>2, <1>4 DEF Permutes
  <2> HIDE DEF r
  <2> QED BY <2>2, <2>3 DEF Permutes
<1>6. \A i \in 1..Len(s) : u[i] = s[r[i]]
  <2> TAKE i \in 1..Len(s)
  <2>1. q[i] \in 1..Len(s) BY <1>4 DEF Permutes
  <2>2. u[i] = t[q[i]] /\ t[q[i]] = s[p[q[i]]] BY <1>1, <1>2, <1>3, <2>1 DEF Takes
  <2> QED BY <2>2
<1>7. Takes(u, s, r)
  <2> HIDE DEF r
  <2> QED BY <1>3, <1>5, <1>6 DEF Takes
<1> QED BY <1>7 DEF IsPermuted

\* The same elements, as often.
LEMMA TextPermutedSame ==
  ASSUME NEW S, NEW s \in Seq(S), NEW t \in Seq(S), IsPermuted(t, s)
  PROVE  SameElements(t, s)
<1>1. PICK p : Takes(t, s, p) BY DEF IsPermuted
<1> DEFINE n == Len(s)
<1>2. n \in Nat /\ Len(t) = n BY <1>1 DEF Takes
<1>3. Permutes(p, n) /\ \A i \in 1..n : t[i] = s[p[i]] BY <1>1 DEF Takes
<1>4. \A j \in 1..n : \E i \in 1..n : p[i] = j
  <2> HIDE DEF n
  <2> QED BY <1>2, <1>3, TextPermutesOnto
<1>5. ASSUME NEW v
      PROVE  Cardinality({j \in 1..n : t[j] = v}) = Cardinality({j \in 1..n : s[j] = v})
  <2> DEFINE T == {j \in 1..n : t[j] = v}
             U == {j \in 1..n : s[j] = v}
             q == [j \in T |-> p[j]]
  <2>0. \A i \in 1..n : p[i] \in 1..n BY <1>3 DEF Permutes
  <2>1. q \in [T -> U] BY <1>3, <2>0
  <2>2. ASSUME NEW i \in T, NEW j \in T, q[i] = q[j] PROVE i = j
    <3>1. p[i] = p[j] /\ i \in 1..n /\ j \in 1..n BY <2>2
    <3> QED BY <3>1, <1>3 DEF Permutes
  <2>3. ASSUME NEW u \in U PROVE \E i \in T : q[i] = u
    <3>1. u \in 1..n /\ s[u] = v OBVIOUS
    <3>2. PICK i \in 1..n : p[i] = u BY <3>1, <1>4
    <3>3. t[i] = v BY <3>1, <3>2, <1>3
    <3> QED BY <3>2, <3>3
  <2>4. q \in Bijection(T, U)
    <3> HIDE DEF q, T, U
    <3> QED BY <2>1, <2>2, <2>3 DEF Bijection, Injection, Surjection, IsInjective
  <2>5. IsFiniteSet(T)
    <3>1. IsFiniteSet(1..n) BY <1>2, FS_Interval
    <3>2. T \in SUBSET (1..n) OBVIOUS
    <3> HIDE DEF T
    <3> QED BY <3>1, <3>2, FS_Subset
  <2>6. Cardinality(U) = Cardinality(T)
    <3> HIDE DEF q, T, U
    <3> QED BY <2>4, <2>5, FS_Bijection DEF ExistsBijection
  <2> QED BY <2>6
<1>6. \A i \in 1..Len(t) :
        Cardinality({j \in 1..Len(t) : t[j] = t[i]}) = Cardinality({j \in 1..Len(t) : s[j] = t[i]})
  BY <1>2, <1>5
<1> QED BY <1>2, <1>6 DEF SameElements

\* The elements in the opposite order.
LEMMA TextPermutedReverse ==
  ASSUME NEW S, NEW s \in Seq(S)
  PROVE  IsPermuted(Reverse(s), s) /\ Reverse(s) \in Seq(S)
<1> DEFINE n == Len(s)
           t == [i \in 1..n |-> s[(n - i) + 1]]
           p == [i \in 1..n |-> (n - i) + 1]
<1>1. Reverse(s) = t BY DEF Reverse
<1>2. n \in Nat OBVIOUS
<1>3. \A i \in 1..n : (n - i) + 1 \in 1..n BY <1>2
<1>4. t \in Seq(S) /\ Len(t) = n
  <2>1. t \in [1..n -> S] BY <1>3
  <2> QED BY <2>1, <1>2
<1>5. p \in [1..n -> 1..n] BY <1>3
<1>6. ASSUME NEW i \in 1..n, NEW j \in 1..n, p[i] = p[j] PROVE i = j
  <2>1. (n - i) + 1 = (n - j) + 1 BY <1>6
  <2> QED BY <2>1, <1>2
<1>7. \A i \in 1..n : t[i] = s[p[i]] OBVIOUS
<1>8. Takes(t, s, p)
  <2> HIDE DEF t, p
  <2> QED BY <1>4, <1>5, <1>6, <1>7 DEF Takes, Permutes
<1>9. IsPermuted(t, s)
  <2> HIDE DEF t, p
  <2> QED BY <1>8 DEF IsPermuted
<1> QED BY <1>1, <1>4, <1>9

\* Two elements swapped.
LEMMA TextPermutedSwap ==
  ASSUME NEW S, NEW s \in Seq(S), NEW i \in 1..Len(s), NEW j \in 1..Len(s)
  PROVE  /\ Swapped(s, i, j) \in Seq(S)
         /\ IsPermuted(Swapped(s, i, j), s)
         /\ \A k \in 1..Len(s) : Swapped(s, i, j)[k] =
              IF k = j THEN s[i] ELSE IF k = i THEN s[j] ELSE s[k]
<1> DEFINE n == Len(s)
           t == Swapped(s, i, j)
           p == [k \in 1..n |-> IF k = j THEN i ELSE IF k = i THEN j ELSE k]
<1>1. s \in [1..n -> S] /\ n \in Nat OBVIOUS
<1>2. t = [[s EXCEPT ![i] = s[j]] EXCEPT ![j] = s[i]] BY DEF Swapped
<1>3. t \in [1..n -> S] /\ \A k \in 1..n : t[k] = IF k = j THEN s[i] ELSE IF k = i THEN s[j] ELSE s[k]
  <2> HIDE DEF t
  <2> QED BY <1>1, <1>2
<1>4. t \in Seq(S) /\ Len(t) = n
  <2> HIDE DEF t
  <2> QED BY <1>1, <1>3
<1>5. Permutes(p, n) BY <1>1 DEF Permutes
<1>6. \A k \in 1..n : t[k] = s[p[k]]
  <2> HIDE DEF t
  <2> QED BY <1>3
<1>7. Takes(t, s, p)
  <2> HIDE DEF t, p
  <2> QED BY <1>4, <1>5, <1>6 DEF Takes
<1>8. IsPermuted(t, s)
  <2> HIDE DEF t, p
  <2> QED BY <1>7 DEF IsPermuted
<1> QED BY <1>3, <1>4, <1>8

-----------------------------------------------------------------------------
(* The orders of lines.                                                    *)

\* A byte of a C string, with its terminating NUL.
ByteAt(s, i) == Append(s, 0)[i]

\* These bytes.
HasBytes(s) ==
  /\ Len(s) \in Nat
  /\ \A i \in 1..Len(s) : ByteAt(s, i) = s[i] /\ s[i] # 0
  /\ ByteAt(s, Len(s) + 1) = 0
  /\ \A i \in 1..Len(s) + 1 : ByteAt(s, i) \in Nat

\* A line has these bytes.
LEMMA TextByteAt == ASSUME NEW s \in Line PROVE HasBytes(s)
<1>1. Len(s) \in Nat /\ \A i \in 1..Len(s) : s[i] \in CChar BY DEF Line
<1>2. \A i \in 1..Len(s) + 1 : ByteAt(s, i) = IF i <= Len(s) THEN s[i] ELSE 0
  BY DEF Line, ByteAt
<1>3. \A i \in 1..Len(s) : ByteAt(s, i) = s[i] BY <1>1, <1>2
<1>4. ByteAt(s, Len(s) + 1) = 0 BY <1>1, <1>2
<1>6. ASSUME NEW i \in 1..Len(s) PROVE s[i] \in Nat /\ s[i] # 0
  <2>1. s[i] \in CChar BY <1>1
  <2>2. \A x \in CChar : x \in Nat /\ x # 0 BY DEF CChar
  <2> QED BY <2>1, <2>2
<1>5. ASSUME NEW i \in 1..Len(s) + 1 PROVE ByteAt(s, i) \in Nat
  <2>1. CASE i = Len(s) + 1 BY <1>4, <2>1
  <2>2. CASE i \in 1..Len(s) BY <1>1, <1>3, <2>2, <1>6
  <2> QED BY <2>1, <2>2, <1>1
<1> QED BY <1>1, <1>3, <1>4, <1>5, <1>6 DEF HasBytes

\* s and t differ first at m.
DifferAt(s, t, m) ==
  /\ m \in 1..Len(s) + 1 /\ m \in 1..Len(t) + 1
  /\ \A i \in 1..m - 1 : ByteAt(s, i) = ByteAt(t, i)
  /\ ByteAt(s, m) # ByteAt(t, m)

\* The places that CompareStr looks at.
Differ(s, t) == {i \in 1..(Min({Len(s), Len(t)}) + 1) : ByteAt(s, i) # ByteAt(t, i)}

\* What CompareStr gives.
LEMMA TextCompareStr ==
  ASSUME NEW s \in Line, NEW t \in Line
  PROVE  CompareStr(s, t) = IF Differ(s, t) = {} THEN 0
                            ELSE ByteAt(s, Min(Differ(s, t))) - ByteAt(t, Min(Differ(s, t)))
BY DEF CompareStr, Differ, ByteAt

\* It finds the first place where they differ.
LEMMA TextCompareAt ==
  ASSUME NEW s \in Line, NEW t \in Line, NEW m, DifferAt(s, t, m)
  PROVE  CompareStr(s, t) = ByteAt(s, m) - ByteAt(t, m)
<1>1. Len(s) \in Nat /\ Len(t) \in Nat BY TextByteAt DEF HasBytes
<1>2. m \in 1..(Min({Len(s), Len(t)}) + 1)
  <2>1. m <= Len(s) + 1 /\ m <= Len(t) + 1 /\ m \in Nat /\ m >= 1 BY <1>1 DEF DifferAt
  <2>2. Min({Len(s), Len(t)}) = IF Len(s) <= Len(t) THEN Len(s) ELSE Len(t) BY <1>1, TextMinOfTwo
  <2> QED BY <1>1, <2>1, <2>2
<1>3. m \in Differ(s, t) BY <1>2 DEF Differ, DifferAt
<1>4. Differ(s, t) \in SUBSET Nat
  <2>1. Min({Len(s), Len(t)}) \in Nat BY <1>1, TextMinOfTwo
  <2> QED BY <2>1 DEF Differ
<1> DEFINE k == Min(Differ(s, t))
<1>5. k \in Differ(s, t) /\ k <= m BY <1>3, <1>4, TextMin
<1>6. k = m
  <2>1. k \in Nat /\ k >= 1 /\ ByteAt(s, k) # ByteAt(t, k)
    <3>1. Min({Len(s), Len(t)}) \in Nat BY <1>1, TextMinOfTwo
    <3> HIDE DEF k
    <3> QED BY <1>5, <3>1 DEF Differ
  <2>2. m \in Nat BY <1>1 DEF DifferAt
  <2> HIDE DEF k
  <2>3. ~(k < m)
    <3> SUFFICES ASSUME k < m PROVE FALSE OBVIOUS
    <3>1. k \in 1..m - 1 BY <2>1, <2>2
    <3> QED BY <2>1, <3>1 DEF DifferAt
  <2> QED BY <1>5, <2>1, <2>2, <2>3
<1> QED BY <1>3, <1>6, TextCompareStr

\* And there is one, unless they are the same.
LEMMA TextDiffer ==
  ASSUME NEW s \in Line, NEW t \in Line, s # t
  PROVE  \E m : DifferAt(s, t, m)
<1> DEFINE ls == Len(s)
           lt == Len(t)
           n == IF ls <= lt THEN ls ELSE lt
           D == {i \in 1..n + 1 : ByteAt(s, i) # ByteAt(t, i)}
<1>1. /\ ls \in Nat /\ lt \in Nat
      /\ \A i \in 1..ls : ByteAt(s, i) = s[i] /\ s[i] # 0
      /\ \A i \in 1..lt : ByteAt(t, i) = t[i] /\ t[i] # 0
      /\ ByteAt(s, ls + 1) = 0 /\ ByteAt(t, lt + 1) = 0
  <2>1. HasBytes(s) /\ HasBytes(t) BY TextByteAt
  <2> QED BY <2>1 DEF HasBytes
<1> HIDE DEF ls, lt
<1>2. D # {}
  <2> SUFFICES ASSUME D = {} PROVE FALSE OBVIOUS
  <2>1. \A i \in 1..n + 1 : ByteAt(s, i) = ByteAt(t, i) OBVIOUS
  <2>2. ls = lt
    <3>1. ASSUME ls < lt PROVE FALSE
      <4>1. ls + 1 \in 1..n + 1 /\ ls + 1 \in 1..lt BY <1>1, <3>1
      <4> QED BY <1>1, <2>1, <4>1
    <3>2. ASSUME lt < ls PROVE FALSE
      <4>1. lt + 1 \in 1..n + 1 /\ lt + 1 \in 1..ls BY <1>1, <3>2
      <4> QED BY <1>1, <2>1, <4>1
    <3> QED BY <1>1, <3>1, <3>2
  <2>3. \A i \in 1..ls : s[i] = t[i]
    <3> TAKE i \in 1..ls
    <3>1. i \in 1..n + 1 /\ i \in 1..lt BY <1>1, <2>2
    <3> QED BY <1>1, <2>1, <3>1
  <2>4. s = t
    <3>1. s \in Seq(CChar) /\ t \in Seq(CChar) BY DEF Line
    <3>2. Len(s) = Len(t) BY <2>2 DEF ls, lt
    <3>3. \A i \in 1..Len(s) : s[i] = t[i] BY <2>3 DEF ls
    <3> QED BY <3>1, <3>2, <3>3, SeqEqual
  <2> QED BY <2>4
<1>3. D \in SUBSET Nat BY <1>1
<1> DEFINE m == Min(D)
<1>4. m \in D /\ \A k \in D : m <= k
  <2> HIDE DEF D
  <2> QED BY <1>2, <1>3, TextMin
<1>5. m \in 1..n + 1 /\ ByteAt(s, m) # ByteAt(t, m)
  <2> HIDE DEF m
  <2> QED BY <1>4
<1>6. \A i \in 1..m - 1 : ByteAt(s, i) = ByteAt(t, i)
  <2> SUFFICES ASSUME NEW i \in 1..m - 1, ByteAt(s, i) # ByteAt(t, i) PROVE FALSE OBVIOUS
  <2> HIDE DEF m
  <2>1. i \in 1..n + 1 /\ i < m BY <1>1, <1>5
  <2>2. i \in D BY <2>1
  <2>3. m <= i BY <1>4, <2>2
  <2> QED BY <1>1, <1>5, <2>1, <2>3
<1> HIDE DEF m
<1>7. m \in 1..ls + 1 /\ m \in 1..lt + 1 BY <1>1, <1>5
<1>8. DifferAt(s, t, m) BY <1>5, <1>6, <1>7 DEF DifferAt, ls, lt
<1> QED BY <1>8

\* A line is equal to itself.
LEMMA TextCompareEqual ==
  ASSUME NEW s \in Line
  PROVE  CompareStr(s, s) = 0
<1>1. Differ(s, s) = {} BY DEF Differ
<1> QED BY <1>1, TextCompareStr

\* Two lines compared the other way round.
LEMMA TextStrOpposite ==
  ASSUME NEW s \in Line, NEW t \in Line
  PROVE  CompareStr(s, t) \in Int /\ CompareStr(t, s) = -CompareStr(s, t)
<1>1. CASE s = t BY <1>1, TextCompareEqual
<1>2. CASE s # t
  <2>1. PICK m : DifferAt(s, t, m) BY <1>2, TextDiffer
  <2>2. DifferAt(t, s, m) BY <2>1 DEF DifferAt
  <2>3. ByteAt(s, m) \in Int /\ ByteAt(t, m) \in Int
    <3>1. HasBytes(s) /\ HasBytes(t) BY TextByteAt
    <3> QED BY <2>1, <3>1 DEF DifferAt, HasBytes
  <2>4. /\ CompareStr(s, t) = ByteAt(s, m) - ByteAt(t, m)
        /\ CompareStr(t, s) = ByteAt(t, m) - ByteAt(s, m)
    BY <2>1, <2>2, TextCompareAt
  <2> QED BY <2>3, <2>4
<1> QED BY <1>1, <1>2

\* The order of the bytes is transitive.
LEMMA TextStrTransitive ==
  ASSUME NEW s \in Line, NEW t \in Line, NEW u \in Line,
         CompareStr(s, t) <= 0, CompareStr(t, u) <= 0
  PROVE  CompareStr(s, u) <= 0
<1>1. CASE s = t BY <1>1
<1>2. CASE t = u BY <1>2
<1>3. CASE s # t /\ t # u
  <2>1. PICK m : DifferAt(s, t, m) BY <1>3, TextDiffer
  <2>2. PICK k : DifferAt(t, u, k) BY <1>3, TextDiffer
  <2>3. /\ CompareStr(s, t) = ByteAt(s, m) - ByteAt(t, m)
        /\ CompareStr(t, u) = ByteAt(t, k) - ByteAt(u, k)
    BY <2>1, <2>2, TextCompareAt
  <2>4. /\ Len(s) \in Nat /\ Len(t) \in Nat /\ Len(u) \in Nat
        /\ \A i \in 1..Len(s) + 1 : ByteAt(s, i) \in Int
        /\ \A i \in 1..Len(t) + 1 : ByteAt(t, i) \in Int
        /\ \A i \in 1..Len(u) + 1 : ByteAt(u, i) \in Int
    <3>1. HasBytes(s) /\ HasBytes(t) /\ HasBytes(u) BY TextByteAt
    <3> QED BY <3>1 DEF HasBytes
  <2>5. /\ m \in Nat /\ k \in Nat /\ m >= 1 /\ k >= 1
        /\ m <= Len(s) + 1 /\ m <= Len(t) + 1 /\ k <= Len(t) + 1 /\ k <= Len(u) + 1
        /\ \A i \in 1..m - 1 : ByteAt(s, i) = ByteAt(t, i)
        /\ \A i \in 1..k - 1 : ByteAt(t, i) = ByteAt(u, i)
        /\ ByteAt(s, m) # ByteAt(t, m)
        /\ ByteAt(t, k) # ByteAt(u, k)
    BY <2>1, <2>2, <2>4 DEF DifferAt
  <2>6. ByteAt(s, m) < ByteAt(t, m) /\ ByteAt(t, k) < ByteAt(u, k)
    BY <2>3, <2>4, <2>5
  <2> DEFINE q == IF m <= k THEN m ELSE k
  <2>7. q \in Nat /\ q >= 1 /\ q <= m /\ q <= k /\ q <= Len(s) + 1 /\ q <= Len(t) + 1 /\ q <= Len(u) + 1
    BY <2>4, <2>5
  <2>8. ByteAt(s, q) < ByteAt(u, q)
    <3>1. CASE m < k
      <4>1. m \in 1..k - 1 BY <2>5, <3>1
      <4>2. ByteAt(t, m) = ByteAt(u, m) BY <2>5, <4>1
      <4>3. q = m BY <3>1, <2>5
      <4> QED BY <4>2, <4>3, <2>6
    <3>2. CASE k < m
      <4>1. k \in 1..m - 1 BY <2>5, <3>2
      <4>2. ByteAt(s, k) = ByteAt(t, k) BY <2>5, <4>1
      <4>3. q = k BY <3>2, <2>5
      <4> QED BY <4>2, <4>3, <2>6
    <3>3. CASE k = m
      <4>1. q = m BY <3>3, <2>5
      <4>2. /\ ByteAt(s, m) \in Int /\ ByteAt(t, m) \in Int /\ ByteAt(u, m) \in Int
        BY <2>4, <2>5, <3>3
      <4> QED BY <4>1, <4>2, <3>3, <2>6
    <3> QED BY <3>1, <3>2, <3>3, <2>5
  <2> HIDE DEF q
  <2>9. DifferAt(s, u, q)
    <3>1. ASSUME NEW i \in 1..q - 1 PROVE ByteAt(s, i) = ByteAt(u, i)
      <4>1. i \in 1..m - 1 /\ i \in 1..k - 1 BY <2>5, <2>7
      <4> QED BY <4>1, <2>5
    <3>2. ByteAt(s, q) \in Int /\ ByteAt(u, q) \in Int
      <4>1. q \in 1..Len(s) + 1 /\ q \in 1..Len(u) + 1 BY <2>4, <2>7
      <4> QED BY <4>1, <2>4
    <3>3. ByteAt(s, q) # ByteAt(u, q) BY <2>8, <3>2
    <3>4. q \in 1..Len(s) + 1 /\ q \in 1..Len(u) + 1 BY <2>4, <2>7
    <3> QED BY <3>1, <3>3, <3>4 DEF DifferAt
  <2>10. CompareStr(s, u) = ByteAt(s, q) - ByteAt(u, q) BY <2>9, TextCompareAt
  <2>11. ByteAt(s, q) \in Int /\ ByteAt(u, q) \in Int
    <3>1. q \in 1..Len(s) + 1 /\ q \in 1..Len(u) + 1 BY <2>4, <2>7
    <3> QED BY <3>1, <2>4
  <2> QED BY <2>8, <2>10, <2>11
<1> QED BY <1>1, <1>2, <1>3

-----------------------------------------------------------------------------
(* Numbers.                                                                *)

\* The first n bytes of a number that are all digits.
LEMMA TextNumber ==
  ASSUME NEW s \in Line
  PROVE  Number(s) \in Int
<1> DEFINE D == {n \in 0..Len(s) : \A i \in 1..n : s[i] \in 48..57}
           digits == Max(D)
           V == Int
           IsValue(f) == f = [n \in 0..digits |-> IF n = 0 THEN 0 ELSE 10 * f[n - 1] + s[n] - 48]
           value == CHOOSE f : IsValue(f)
<1>1. Number(s) = value[digits] BY DEF Number
<1>2. HasBytes(s) BY TextByteAt
<1>3. digits \in 0..Len(s)
  <2>1. 0 \in D BY <1>2 DEF HasBytes
  <2>2. D \in SUBSET Int /\ \A x \in D : x <= Len(s) BY <1>2 DEF HasBytes
  <2>3. digits \in D
    <3>1. Len(s) \in Int BY <1>2 DEF HasBytes
    <3> HIDE DEF D
    <3> QED BY <2>1, <2>2, <3>1, TextMax
  <2> HIDE DEF digits
  <2> QED BY <2>3
<1> HIDE DEF digits
<1>4. digits \in Nat /\ \A n \in 1..digits : s[n] \in Int
  <2>1. Len(s) \in Nat /\ \A i \in 1..Len(s) : s[i] \in Int BY <1>2 DEF HasBytes
  <2> QED BY <1>3, <2>1
<1> DEFINE h == [i \in 1..digits |-> [v \in Int |-> 10 * v + s[i] - 48]]
<1>5. h \in [1..digits -> [Int -> Int]] BY <1>4
<1>6. PICK g \in [0..digits -> Int] : Follows(g, digits, 0, h)
  <2> HIDE DEF h
  <2>1. 0 \in Int OBVIOUS
  <2> QED BY <1>4, <1>5, <2>1, TextRecursion
<1>7. IsValue(g)
  <2>1. ASSUME NEW n \in 0..digits PROVE g[n] = IF n = 0 THEN 0 ELSE 10 * g[n - 1] + s[n] - 48
    <3>1. CASE n = 0 BY <3>1, <1>6 DEF Follows
    <3>2. CASE n # 0
      <4>1. n \in 1..digits /\ n - 1 \in 0..digits BY <3>2, <1>4
      <4>2. g[n - 1] \in Int BY <4>1
      <4>3. g[n] = h[n][g[n - 1]]
        <5> HIDE DEF h
        <5> QED BY <1>6, <4>1 DEF Follows
      <4>4. h[n][g[n - 1]] = 10 * g[n - 1] + s[n] - 48 BY <4>1, <4>2
      <4> QED BY <3>2, <4>3, <4>4
    <3> QED BY <3>1, <3>2
  <2>2. g = [n \in 0..digits |-> g[n]] OBVIOUS
  <2> QED BY <2>1, <2>2
<1>8. IsValue(value)
  <2> HIDE DEF IsValue
  <2> QED BY <1>7
<1>9. \A n \in 0..digits : value[n] \in Int
  <2> HIDE DEF value
  <2>1. value[0] \in Int BY <1>8, <1>4
  <2>2. ASSUME NEW n \in 1..digits, value[n - 1] \in Int PROVE value[n] \in Int
    <3>1. value[n] = 10 * value[n - 1] + s[n] - 48 BY <1>8, <1>4
    <3>2. s[n] \in Int BY <1>4
    <3> QED BY <2>2, <3>1, <3>2
  <2> HIDE DEF IsValue
  <2> QED BY <1>4, <2>1, <2>2, TextRecursionStays
<1>10. digits \in 0..digits BY <1>4
<1> HIDE DEF value
<1> QED BY <1>1, <1>9, <1>10

\* Any two lines are in one of the two orders, whatever the order is.
LEMMA TextOpposite ==
  ASSUME NEW num, NEW s \in Line, NEW t \in Line
  PROVE  Cmp(num, s, t) \in Int /\ Cmp(num, t, s) = -Cmp(num, s, t)
<1>1. CompareStr(s, t) \in Int /\ CompareStr(t, s) = -CompareStr(s, t) BY TextStrOpposite
<1>2. Number(s) \in Int /\ Number(t) \in Int BY TextNumber
<1>3. CompareAsDoubles(s, t) \in Int /\ CompareAsDoubles(t, s) = -CompareAsDoubles(s, t)
  BY <1>2 DEF CompareAsDoubles
<1> QED BY <1>1, <1>3 DEF Cmp

\* The order of the lines it compares in earnest.
LEMMA TextTransitive ==
  ASSUME NEW num, NEW s \in Ordinary(num), NEW t \in Ordinary(num), NEW u \in Ordinary(num),
         Cmp(num, s, t) <= 0, Cmp(num, t, u) <= 0
  PROVE  Cmp(num, s, u) <= 0
<1>1. s \in Line /\ t \in Line /\ u \in Line BY DEF Ordinary
<1>2. CASE num
  <2>1. ~IsNaN(s) /\ ~IsNaN(t) /\ ~IsNaN(u) BY <1>2 DEF Ordinary
  <2>2. Number(s) \in Int /\ Number(t) \in Int /\ Number(u) \in Int BY <1>1, TextNumber
  <2>3. /\ Cmp(num, s, t) = Number(s) - Number(t)
        /\ Cmp(num, t, u) = Number(t) - Number(u)
        /\ Cmp(num, s, u) = Number(s) - Number(u)
    BY <1>2, <2>1 DEF Cmp, CompareAsDoubles
  <2> QED BY <2>2, <2>3
<1>3. CASE ~num
  <2>1. /\ Cmp(num, s, t) = CompareStr(s, t)
        /\ Cmp(num, t, u) = CompareStr(t, u)
        /\ Cmp(num, s, u) = CompareStr(s, u)
    BY <1>3 DEF Cmp
  <2> QED BY <1>1, <2>1, TextStrTransitive
<1> QED BY <1>2, <1>3

-----------------------------------------------------------------------------
(* The insertion sort.                                                     *)

\* t is s with x put in at a place.
HasAt(t, s, x, at) ==
  /\ at \in 1..Len(s) + 1
  /\ Len(t) = Len(s) + 1
  /\ \A k \in 1..Len(s) + 1 : t[k] = IF k < at THEN s[k] ELSE IF k = at THEN x ELSE s[k - 1]

\* InsertAt does so.
LEMMA TextInsertAt ==
  ASSUME NEW S, NEW s \in Seq(S), NEW x \in S, NEW at \in 1..Len(s) + 1
  PROVE  InsertAt(s, at, x) \in Seq(S) /\ HasAt(InsertAt(s, at, x), s, x, at)
<1> DEFINE n == Len(s)
           u == SubSeq(s, 1, at - 1)
           v == SubSeq(s, at, n)
<1>1. n \in Nat /\ at \in Nat /\ at >= 1 /\ at <= n + 1 OBVIOUS
<1>2. \A i \in 1..n : s[i] \in S OBVIOUS
<1>3. u \in Seq(S) /\ Len(u) = at - 1 /\ \A i \in 1..at - 1 : u[i] = s[i]
  <2>1. \A i \in 1..at - 1 : s[i] \in S BY <1>1, <1>2
  <2> QED BY <1>1, <2>1, SubSeqProperties
<1>4. v \in Seq(S) /\ Len(v) = n - at + 1 /\ \A i \in 1..n - at + 1 : v[i] = s[at + i - 1]
  <2>1. \A i \in at..n : s[i] \in S BY <1>1, <1>2
  <2> QED BY <1>1, <2>1, SubSeqProperties
<1> HIDE DEF u, v, n
<1>5. /\ u \o <<x>> \in Seq(S) /\ Len(u \o <<x>>) = at
      /\ \A i \in 1..at : (u \o <<x>>)[i] = IF i < at THEN s[i] ELSE x
  BY <1>1, <1>3
<1> DEFINE w == u \o <<x>>
<1> HIDE DEF w
<1>6. /\ w \o v \in Seq(S) /\ Len(w \o v) = Len(w) + Len(v)
      /\ \A i \in 1..Len(w) + Len(v) : (w \o v)[i] = IF i <= Len(w) THEN w[i] ELSE v[i - Len(w)]
  <2>1. w \in Seq(S) /\ v \in Seq(S) BY <1>4, <1>5 DEF w
  <2> QED BY <2>1, ConcatProperties
<1> DEFINE t == w \o v
<1>7. InsertAt(s, at, x) = t BY DEF InsertAt, w, u, v, n
<1>8. Len(w) = at /\ \A i \in 1..at : w[i] = IF i < at THEN s[i] ELSE x BY <1>5 DEF w
<1>9. Len(w) + Len(v) = n + 1 BY <1>1, <1>4, <1>8
<1>11. t \in Seq(S) /\ Len(t) = n + 1 BY <1>6, <1>9
<1> HIDE DEF t
<1>10. ASSUME NEW k \in 1..n + 1
       PROVE  t[k] = IF k < at THEN s[k] ELSE IF k = at THEN x ELSE s[k - 1]
  <2>1. t[k] = IF k <= at THEN w[k] ELSE v[k - at] BY <1>6, <1>8, <1>9 DEF t
  <2>2. CASE k <= at
    <3>1. k \in 1..at BY <1>1, <2>2
    <3> QED BY <2>1, <2>2, <3>1, <1>8, <1>1
  <2>3. CASE k > at
    <3>1. k - at \in 1..n - at + 1 /\ at + (k - at) - 1 = k - 1 BY <1>1, <2>3
    <3>2. v[k - at] = s[k - 1] BY <1>4, <3>1
    <3>3. ~(k <= at) /\ ~(k < at) /\ k # at BY <1>1, <2>3
    <3> QED BY <2>1, <3>2, <3>3
  <2> QED BY <1>1, <2>2, <2>3
<1>13. HasAt(t, s, x, at) BY <1>1, <1>11, <1>10 DEF HasAt, n
<1> QED BY <1>7, <1>11, <1>13

\* Where Inserted puts a line: after those up to the last one that is not
\* greater, of those from which on all are greater.
LEMMA TextInserted ==
  ASSUME NEW s \in Seq(Line), NEW x \in Line
  PROVE  \E at : /\ Inserted(s, x) \in Seq(Line)
                 /\ HasAt(Inserted(s, x), s, x, at)
                 /\ \A j \in at..Len(s) : Cmp(numeric, s[j], x) > 0
                 /\ at > 1 => Cmp(numeric, s[at - 1], x) <= 0
<1> DEFINE n == Len(s)
           greater(i) == \A j \in i..n : Compare(s[j], x) > 0
           D == {i \in 1..n + 1 : greater(i)}
           at == Min(D)
<1>1. n \in Nat OBVIOUS
<1>2. D \in SUBSET Nat /\ n + 1 \in D BY <1>1
<1>3. at \in D /\ \A k \in D : at <= k
  <2> HIDE DEF D
  <2> QED BY <1>2, TextMin
<1>4. Inserted(s, x) = InsertAt(s, at, x) BY DEF Inserted
<1> HIDE DEF at
<1>5. at \in 1..n + 1 /\ greater(at) BY <1>3
<1>6. Inserted(s, x) \in Seq(Line) /\ HasAt(Inserted(s, x), s, x, at)
  BY <1>4, <1>5, TextInsertAt
<1>7. \A j \in at..n : Cmp(numeric, s[j], x) > 0 BY <1>5 DEF Compare, Cmp
<1>8. at > 1 => Cmp(numeric, s[at - 1], x) <= 0
  <2> SUFFICES ASSUME at > 1, ~(Cmp(numeric, s[at - 1], x) <= 0) PROVE FALSE OBVIOUS
  <2>1. at - 1 \in 1..n BY <1>1, <1>5
  <2>2. Cmp(numeric, s[at - 1], x) \in Int
    <3>1. s[at - 1] \in Line BY <2>1
    <3> QED BY <3>1, TextOpposite
  <2>3. Cmp(numeric, s[at - 1], x) > 0 BY <2>2
  <2>4. ASSUME NEW j \in at - 1..n PROVE Compare(s[j], x) > 0
    <3>1. CASE j = at - 1 BY <3>1, <2>3 DEF Compare, Cmp
    <3>2. CASE j # at - 1
      <4>1. j \in at..n BY <1>1, <1>5, <3>2
      <4> QED BY <4>1, <1>5
    <3> QED BY <3>1, <3>2
  <2>5. at - 1 \in D BY <2>1, <2>4, <1>1
  <2>6. at <= at - 1 BY <1>3, <2>5
  <2> QED BY <2>6, <1>5, <1>1
<1> QED BY <1>6, <1>7, <1>8

\* t has the first n elements of s, each where p says.
TakesSome(t, s, p, n) == Len(t) = n /\ Permutes(p, n) /\ \A i \in 1..n : t[i] = s[p[i]]

\* The next one put in.
LEMMA TextTakesNext ==
  ASSUME NEW s, NEW n \in Nat, NEW t, NEW u, NEW p, NEW at,
         TakesSome(t, s, p, n), HasAt(u, t, s[n + 1], at)
  PROVE  \E q : TakesSome(u, s, q, n + 1)
<1> DEFINE q == [i \in 1..n + 1 |-> IF i < at THEN p[i] ELSE IF i = at THEN n + 1 ELSE p[i - 1]]
<1>1. Len(t) = n /\ p \in [1..n -> 1..n] /\ at \in 1..n + 1 BY DEF TakesSome, HasAt, Permutes
<1>2. \A i \in 1..n + 1 : (i < at => i \in 1..n) /\ (i > at => i - 1 \in 1..n) BY <1>1
<1>3. q \in [1..n + 1 -> 1..n + 1]
  <2>1. ASSUME NEW i \in 1..n + 1 PROVE q[i] \in 1..n + 1
    <3>1. CASE i < at
      <4>1. p[i] \in 1..n BY <1>1, <1>2, <3>1
      <4> QED BY <4>1, <3>1
    <3>2. CASE i = at BY <3>2, <1>1
    <3>3. CASE i > at
      <4>1. p[i - 1] \in 1..n BY <1>1, <1>2, <3>3
      <4>2. ~(i < at) /\ i # at BY <1>1, <3>3
      <4> QED BY <4>1, <4>2
    <3> QED BY <1>1, <3>1, <3>2, <3>3
  <2> QED BY <2>1
<1>4. ASSUME NEW i \in 1..n + 1, NEW j \in 1..n + 1, q[i] = q[j] PROVE i = j
  <2>1. \A k, l \in 1..n : p[k] = p[l] => k = l BY DEF TakesSome, Permutes
  <2>2. \A k \in 1..n : p[k] \in 1..n /\ p[k] # n + 1 BY <1>1
  <2>3. /\ q[i] = IF i < at THEN p[i] ELSE IF i = at THEN n + 1 ELSE p[i - 1]
        /\ q[j] = IF j < at THEN p[j] ELSE IF j = at THEN n + 1 ELSE p[j - 1]
    OBVIOUS
  <2> HIDE DEF q
  <2>4. i \in Int /\ j \in Int /\ at \in Int BY <1>1
  <2>5. CASE i < at /\ j < at BY <2>5, <2>1, <2>3, <1>2, <1>4
  <2>6. CASE i < at /\ ~(j < at) 
    <3>1. CASE j = at BY <3>1, <2>6, <2>2, <2>3, <1>2, <1>4
    <3>2. CASE j # at
      <4>1. j > at BY <2>4, <2>6, <3>2
      <4>2. p[i] = p[j - 1] BY <2>6, <3>2, <2>3, <1>4
      <4>3. i = j - 1 BY <4>1, <4>2, <2>6, <2>1, <1>2
      <4> QED BY <4>1, <4>3, <2>4, <2>6
    <3> QED BY <3>1, <3>2
  <2>7. CASE ~(i < at) /\ j < at
    <3>1. CASE i = at BY <3>1, <2>7, <2>2, <2>3, <1>2, <1>4
    <3>2. CASE i # at
      <4>1. i > at BY <2>4, <2>7, <3>2
      <4>2. p[i - 1] = p[j] BY <2>7, <3>2, <2>3, <1>4
      <4>3. i - 1 = j BY <4>1, <4>2, <2>7, <2>1, <1>2
      <4> QED BY <4>1, <4>3, <2>4, <2>7
    <3> QED BY <3>1, <3>2
  <2>8. CASE ~(i < at) /\ ~(j < at)
    <3>1. CASE i = at /\ j = at BY <3>1
    <3>2. CASE i = at /\ j # at
      <4>1. j > at BY <2>4, <2>8, <3>2
      <4> QED BY <4>1, <3>2, <2>8, <2>2, <2>3, <1>2, <1>4
    <3>3. CASE i # at /\ j = at
      <4>1. i > at BY <2>4, <2>8, <3>3
      <4> QED BY <4>1, <3>3, <2>8, <2>2, <2>3, <1>2, <1>4
    <3>4. CASE i # at /\ j # at
      <4>1. i > at /\ j > at BY <2>4, <2>8, <3>4
      <4>2. i - 1 = j - 1 BY <4>1, <3>4, <2>8, <2>1, <2>3, <1>2, <1>4
      <4> QED BY <4>2, <2>4
    <3> QED BY <3>1, <3>2, <3>3, <3>4
  <2> QED BY <2>5, <2>6, <2>7, <2>8
<1>5. ASSUME NEW i \in 1..n + 1 PROVE u[i] = s[q[i]]
  <2>1. u[i] = IF i < at THEN t[i] ELSE IF i = at THEN s[n + 1] ELSE t[i - 1]
    BY <1>1 DEF HasAt
  <2>2. \A k \in 1..n : t[k] = s[p[k]] BY DEF TakesSome
  <2>3. q[i] = IF i < at THEN p[i] ELSE IF i = at THEN n + 1 ELSE p[i - 1] OBVIOUS
  <2> HIDE DEF q
  <2>4. i < at \/ i = at \/ (i > at /\ ~(i < at) /\ i # at) BY <1>1
  <2> QED BY <2>1, <2>2, <2>3, <2>4, <1>2
<1>6. Len(u) = n + 1 BY <1>1 DEF HasAt
<1>7. TakesSome(u, s, q, n + 1)
  <2> HIDE DEF q
  <2> QED BY <1>3, <1>4, <1>5, <1>6 DEF TakesSome, Permutes
<1> QED BY <1>7

\* It keeps the lines before it in order.
LEMMA TextOrderedNext ==
  ASSUME NEW num, NEW s \in Seq(Ordinary(num)), NEW x \in Ordinary(num), NEW t, NEW at,
         HasAt(t, s, x, at), IsOrdered(num, s),
         \A j \in at..Len(s) : Cmp(num, s[j], x) > 0,
         at > 1 => Cmp(num, s[at - 1], x) <= 0
  PROVE  IsOrdered(num, t)
<1> DEFINE n == Len(s)
<1>1. n \in Nat /\ at \in 1..n + 1 /\ Len(t) = n + 1 BY DEF HasAt
<1>2. \A k \in 1..n + 1 : t[k] = IF k < at THEN s[k] ELSE IF k = at THEN x ELSE s[k - 1]
  BY DEF HasAt
<1>3. \A k \in 1..n : s[k] \in Ordinary(num) OBVIOUS
<1>4. ASSUME NEW k \in 1..n, k < at PROVE Cmp(num, s[k], x) <= 0
  <2>1. at > 1 /\ at - 1 \in 1..n BY <1>1, <1>4
  <2>2. CASE k = at - 1 BY <2>1, <2>2
  <2>3. CASE k < at - 1
    <3>1. Cmp(num, s[k], s[at - 1]) <= 0 BY <2>1, <2>3 DEF IsOrdered
    <3>2. s[k] \in Ordinary(num) /\ s[at - 1] \in Ordinary(num) BY <2>1, <1>3
    <3> QED BY <2>1, <3>1, <3>2, TextTransitive
  <2> QED BY <2>1, <2>2, <2>3, <1>1, <1>4
<1>5. ASSUME NEW k \in 1..n, k >= at PROVE Cmp(num, x, s[k]) <= 0
  <2>1. Cmp(num, s[k], x) > 0 BY <1>1, <1>5
  <2>2. s[k] \in Line /\ x \in Line BY <1>3 DEF Ordinary
  <2>3. Cmp(num, s[k], x) \in Int /\ Cmp(num, x, s[k]) = -Cmp(num, s[k], x) BY <2>2, TextOpposite
  <2> QED BY <2>1, <2>3
<1> HIDE DEF n
<1>6. \A k, l \in 1..n : k < l => Cmp(num, s[k], s[l]) <= 0 BY DEF IsOrdered, n
<1>7. ASSUME NEW i \in 1..n + 1, NEW j \in 1..n + 1, i < j PROVE Cmp(num, t[i], t[j]) <= 0
  <2>1. /\ t[i] = IF i < at THEN s[i] ELSE IF i = at THEN x ELSE s[i - 1]
        /\ t[j] = IF j < at THEN s[j] ELSE IF j = at THEN x ELSE s[j - 1]
    BY <1>2
  <2>2. CASE j < at
    <3>1. i < at /\ i \in 1..n /\ j \in 1..n BY <1>1, <1>7, <2>2
    <3> QED BY <2>1, <2>2, <3>1, <1>6, <1>7
  <2>3. CASE j = at
    <3>1. i < at /\ i \in 1..n /\ ~(j < at) BY <1>1, <1>7, <2>3
    <3> QED BY <2>1, <2>3, <3>1, <1>4
  <2>4. CASE j > at
    <3>1. j - 1 \in 1..n /\ j - 1 >= at /\ ~(j < at) /\ j # at BY <1>1, <2>4
    <3>2. t[j] = s[j - 1] BY <2>1, <3>1
    <3>3. CASE i < at
      <4>1. i \in 1..n /\ i < j - 1 BY <1>1, <3>3, <3>1
      <4> QED BY <2>1, <3>1, <3>2, <3>3, <4>1, <1>6
    <3>4. CASE i = at
      <4>1. ~(i < at) BY <1>1, <3>4
      <4> QED BY <2>1, <3>1, <3>2, <3>4, <4>1, <1>5
    <3>5. CASE i > at
      <4>1. i - 1 \in 1..n /\ i - 1 < j - 1 /\ ~(i < at) /\ i # at BY <1>1, <3>5, <1>7
      <4> QED BY <2>1, <3>1, <3>2, <4>1, <1>6
    <3> QED BY <3>3, <3>4, <3>5, <1>1
  <2> QED BY <2>2, <2>3, <2>4, <1>1
<1> QED BY <1>1, <1>7 DEF IsOrdered

\* The elements inserted one after the other.
IsInsertion(g, seq) ==
  g = [n \in 0..Len(seq) |-> IF n = 0 THEN <<>> ELSE Inserted(g[n - 1], seq[n])]

\* There is such a function.
LEMMA TextInsertionExists ==
  ASSUME NEW seq \in Seq(Line)
  PROVE  \E g : IsInsertion(g, seq)
<1> DEFINE n == Len(seq)
           V == Seq(Line)
           h == [i \in 1..n |-> [v \in V |-> Inserted(v, seq[i])]]
<1>1. n \in Nat /\ \A i \in 1..n : seq[i] \in Line BY ElementOfSeq
<1>2. h \in [1..n -> [V -> V]]
  <2>1. ASSUME NEW i \in 1..n, NEW v \in V PROVE Inserted(v, seq[i]) \in V
    <3>1. seq[i] \in Line BY <1>1
    <3> HIDE DEF h
    <3> QED BY <3>1, TextInserted
  <2> HIDE DEF V, n
  <2> QED BY <2>1
<1>3. PICK g \in [0..n -> V] : Follows(g, n, <<>>, h)
  <2>1. <<>> \in V OBVIOUS
  <2> HIDE DEF h, V, n
  <2> QED BY <1>1, <1>2, <2>1, TextRecursion
<1>4. ASSUME NEW i \in 0..n PROVE g[i] = IF i = 0 THEN <<>> ELSE Inserted(g[i - 1], seq[i])
  <2>1. CASE i = 0 BY <2>1, <1>3 DEF Follows
  <2>2. CASE i # 0
    <3>1. i \in 1..n /\ i - 1 \in 0..n BY <1>1, <2>2
    <3>2. g[i - 1] \in V BY <3>1, <1>3
    <3>3. g[i] = h[i][g[i - 1]]
      <4> HIDE DEF h
      <4> QED BY <1>3, <3>1 DEF Follows
    <3>4. h[i][g[i - 1]] = Inserted(g[i - 1], seq[i]) BY <3>1, <3>2
    <3> QED BY <2>2, <3>3, <3>4
  <2> QED BY <2>1, <2>2
<1>5. g = [i \in 0..n |-> g[i]] OBVIOUS
<1>6. [i \in 0..n |-> g[i]] = [i \in 0..n |-> IF i = 0 THEN <<>> ELSE Inserted(g[i - 1], seq[i])]
  BY <1>4
<1>7. IsInsertion(g, seq) BY <1>5, <1>6 DEF IsInsertion
<1> QED BY <1>7

\* The insertion sort gives the same lines, and in order if they have one.
THEOREM TextInsertSorted ==
  ASSUME NEW seq \in Seq(Line)
  PROVE  /\ InsertSorted(seq) \in Seq(Line)
         /\ IsPermuted(InsertSorted(seq), seq)
         /\ seq \in Seq(Ordinary(numeric)) => IsOrdered(numeric, InsertSorted(seq))
<1> DEFINE n == Len(seq)
           g == CHOOSE f : IsInsertion(f, seq)
<1>1. n \in Nat /\ \A i \in 1..n : seq[i] \in Line BY ElementOfSeq
<1>2. IsInsertion(g, seq) BY TextInsertionExists
<1>3. InsertSorted(seq) = g[n] BY DEF InsertSorted, IsInsertion
<1> HIDE DEF g
<1>4. g[0] = <<>> /\ \A i \in 1..n : g[i] = Inserted(g[i - 1], seq[i])
  <2>1. 0 \in 0..n /\ \A i \in 1..n : i \in 0..n /\ i # 0 BY <1>1
  <2>2. \A i \in 0..n : g[i] = IF i = 0 THEN <<>> ELSE Inserted(g[i - 1], seq[i])
    BY <1>2 DEF IsInsertion
  <2> HIDE DEF n
  <2> QED BY <2>1, <2>2
<1> DEFINE Ok(m) == /\ g[m] \in Seq(Line)
                    /\ \E p : TakesSome(g[m], seq, p, m)
                    /\ seq \in Seq(Ordinary(numeric)) =>
                         g[m] \in Seq(Ordinary(numeric)) /\ IsOrdered(numeric, g[m])
           S == {m \in 0..n : Ok(m)}
<1>5. 0 \in S
  <2>1. TakesSome(<<>>, seq, [i \in 1..0 |-> i], 0) BY DEF TakesSome, Permutes
  <2>2. \A num : IsOrdered(num, <<>>) BY DEF IsOrdered
  <2>3. \A B : <<>> \in Seq(B) OBVIOUS
  <2>4. Ok(0) BY <2>1, <2>2, <2>3, <1>4
  <2> QED BY <1>1, <2>4
<1>6. ASSUME NEW m \in 0..n - 1, m \in S PROVE m + 1 \in S
  <2>1. m + 1 \in 1..n /\ m + 1 \in 0..n /\ m \in Nat /\ (m + 1) - 1 = m BY <1>1
  <2>2. /\ g[m] \in Seq(Line)
        /\ seq \in Seq(Ordinary(numeric)) => g[m] \in Seq(Ordinary(numeric)) /\ IsOrdered(numeric, g[m])
    BY <1>6
  <2>3. PICK p : TakesSome(g[m], seq, p, m) BY <1>6
  <2>4. g[m + 1] = Inserted(g[m], seq[m + 1]) BY <1>4, <2>1
  <2>5. seq[m + 1] \in Line BY <1>1, <2>1
  <2>6. PICK at : /\ g[m + 1] \in Seq(Line)
                  /\ HasAt(g[m + 1], g[m], seq[m + 1], at)
                  /\ \A j \in at..Len(g[m]) : Cmp(numeric, g[m][j], seq[m + 1]) > 0
                  /\ at > 1 => Cmp(numeric, g[m][at - 1], seq[m + 1]) <= 0
    BY <2>2, <2>4, <2>5, TextInserted
  <2>7. \E q : TakesSome(g[m + 1], seq, q, m + 1) BY <2>1, <2>3, <2>6, TextTakesNext
  <2>8. ASSUME seq \in Seq(Ordinary(numeric))
        PROVE  g[m + 1] \in Seq(Ordinary(numeric)) /\ IsOrdered(numeric, g[m + 1])
    <3>1. g[m] \in Seq(Ordinary(numeric)) /\ IsOrdered(numeric, g[m]) BY <2>2, <2>8
    <3>2. seq[m + 1] \in Ordinary(numeric) BY <2>1, <2>8, ElementOfSeq
    <3>3. IsOrdered(numeric, g[m + 1]) BY <2>6, <3>1, <3>2, TextOrderedNext
    <3>4. g[m + 1] \in Seq(Ordinary(numeric))
      <4>1. \A i \in 1..Len(g[m + 1]) : g[m + 1][i] \in Ordinary(numeric)
        <5>1. \A i \in 1..m + 1 : g[m + 1][i] \in Ordinary(numeric)
          <6>1. PICK q : TakesSome(g[m + 1], seq, q, m + 1) BY <2>7
          <6>2. ASSUME NEW i \in 1..m + 1 PROVE g[m + 1][i] \in Ordinary(numeric)
            <7>1. q[i] \in 1..m + 1 /\ g[m + 1][i] = seq[q[i]] BY <6>1 DEF TakesSome, Permutes
            <7>2. q[i] \in 1..n BY <7>1, <2>1, <1>1
            <7> QED BY <7>1, <7>2, <2>8, ElementOfSeq
          <6> QED BY <6>2
        <5>2. Len(g[m + 1]) = m + 1 BY <2>7 DEF TakesSome
        <5> QED BY <5>1, <5>2
      <4> QED BY <4>1, <2>6
    <3> QED BY <3>3, <3>4
  <2>9. Ok(m + 1) BY <2>6, <2>7, <2>8
  <2> HIDE DEF Ok
  <2> QED BY <2>1, <2>9
<1>7. 0..n \subseteq S
  <2> HIDE DEF S, n
  <2> QED BY <1>1, <1>5, <1>6, CountUp
<1>8. Ok(n)
  <2> HIDE DEF Ok
  <2> QED BY <1>7, <1>1
<1>9. IsPermuted(g[n], seq)
  <2>1. PICK p : TakesSome(g[n], seq, p, n) BY <1>8
  <2>2. Takes(g[n], seq, p) BY <2>1 DEF Takes, TakesSome
  <2> QED BY <2>2 DEF IsPermuted
<1> QED BY <1>3, <1>8, <1>9

-----------------------------------------------------------------------------
(* The merge sort.                                                         *)

\* The elements of t from i to k are those of s there, each where p says.
TakesPart(t, s, p, i, k) ==
  /\ p \in [i..k -> i..k]
  /\ \A j, l \in i..k : p[j] = p[l] => j = l
  /\ \A j \in i..k : t[j] = s[p[j]]
IsPermutedIn(t, s, i, k) == \E p : TakesPart(t, s, p, i, k)

\* The lines from i to k are in order.
IsOrderedIn(num, s, i, k) == \A j, l \in i..k : j < l => Cmp(num, s[j], s[l]) <= 0

\* The left part has the next element, when left and right have been copied.
TakesLeft(src, mid, end, left, right) ==
  left < mid /\ (right = end \/ Compare(src[left + 1], src[right + 1]) < 0)

\* How far the left part has been copied, for each place.
IsWalk(f, src, begin, mid, end) ==
  f = [o \in begin..end |->
         IF o = begin THEN begin
         ELSE IF TakesLeft(src, mid, end, f[o - 1], mid + (o - 1) - f[o - 1])
              THEN f[o - 1] + 1 ELSE f[o - 1]]

\* What is known of it.
Walks(f, src, begin, mid, end) ==
  /\ f[begin] = begin
  /\ \A o \in begin + 1..end :
       f[o] = IF TakesLeft(src, mid, end, f[o - 1], mid + (o - 1) - f[o - 1])
              THEN f[o - 1] + 1 ELSE f[o - 1]

\* There is such a function.
LEMMA TextWalkExists ==
  ASSUME NEW src, NEW begin \in Nat, NEW mid \in Nat, NEW end \in Nat, begin <= mid, mid <= end
  PROVE  \E f : IsWalk(f, src, begin, mid, end)
<1> DEFINE n == end - begin
           Next1(o, v) == IF TakesLeft(src, mid, end, v, mid + (o - 1) - v) THEN v + 1 ELSE v
           h == [i \in 1..n |-> [v \in Nat |-> Next1(begin + i, v)]]
<1>1. n \in Nat OBVIOUS
<1>2. h \in [1..n -> [Nat -> Nat]] OBVIOUS
<1>3. PICK g \in [0..n -> Nat] : Follows(g, n, begin, h)
  <2> HIDE DEF h, n
  <2> QED BY <1>1, <1>2, TextRecursion
<1> DEFINE f == [o \in begin..end |-> g[o - begin]]
<1>4. ASSUME NEW o \in begin..end PROVE f[o] = IF o = begin THEN begin ELSE Next1(o, f[o - 1])
  <2>1. CASE o = begin
    <3>1. f[o] = g[0] BY <2>1
    <3> QED BY <3>1, <2>1, <1>3 DEF Follows
  <2>2. CASE o # begin
    <3>1. o - begin \in 1..n /\ (o - begin) - 1 \in 0..n /\ o - 1 \in begin..end BY <2>2
    <3>2. f[o] = g[o - begin] /\ f[o - 1] = g[(o - begin) - 1] BY <3>1
    <3>3. g[o - begin] = h[o - begin][g[(o - begin) - 1]]
      <4> HIDE DEF h, n
      <4> QED BY <1>3, <3>1 DEF Follows
    <3>4. g[(o - begin) - 1] \in Nat BY <3>1, <1>3
    <3>5. h[o - begin][g[(o - begin) - 1]] = Next1(begin + (o - begin), g[(o - begin) - 1])
      <4> HIDE DEF Next1
      <4> QED BY <3>1, <3>4
    <3>6. begin + (o - begin) = o OBVIOUS
    <3> HIDE DEF Next1, f, h
    <3> QED BY <2>2, <3>2, <3>3, <3>5, <3>6
  <2> QED BY <2>1, <2>2
<1>5. f = [o \in begin..end |-> f[o]] OBVIOUS
<1>6. [o \in begin..end |-> f[o]] = [o \in begin..end |-> IF o = begin THEN begin ELSE Next1(o, f[o - 1])]
  <2> HIDE DEF Next1, f
  <2> QED BY <1>4
<1>7. f = [o \in begin..end |-> IF o = begin THEN begin ELSE Next1(o, f[o - 1])]
  <2> HIDE DEF Next1, f
  <2> QED BY <1>5, <1>6
<1>8. IsWalk(f, src, begin, mid, end)
  <2> HIDE DEF f
  <2> QED BY <1>7 DEF IsWalk
<1> QED BY <1>8

\* The place after each is in its part, and one of both parts is taken from.
Stays(f, src, begin, mid, end) ==
  /\ \A o \in begin..end : f[o] \in begin..mid /\ mid + o - f[o] \in mid..end
  /\ \A o \in begin + 1..end :
       \/ f[o] = f[o - 1] + 1 /\ TakesLeft(src, mid, end, f[o - 1], mid + (o - 1) - f[o - 1])
       \/ /\ f[o] = f[o - 1] /\ ~TakesLeft(src, mid, end, f[o - 1], mid + (o - 1) - f[o - 1])
          /\ mid + (o - 1) - f[o - 1] < end

\* Neither part is left before it ends.
LEMMA TextWalkStays ==
  ASSUME NEW src, NEW begin \in Nat, NEW mid \in Nat, NEW end \in Nat, begin <= mid, mid <= end,
         NEW f, Walks(f, src, begin, mid, end)
  PROVE  Stays(f, src, begin, mid, end)
<1> DEFINE n == end - begin
           Ok(o) == f[o] \in begin..mid /\ mid + o - f[o] \in mid..end
           S == {m \in 0..n : Ok(begin + m)}
<1>0. n \in Nat OBVIOUS
<1>1. 0 \in S
  <2>1. f[begin + 0] = begin BY DEF Walks
  <2> QED BY <2>1
<1>2. ASSUME NEW o \in begin + 1..end, Ok(o - 1)
      PROVE  /\ Ok(o)
             /\ \/ f[o] = f[o - 1] + 1 /\ TakesLeft(src, mid, end, f[o - 1], mid + (o - 1) - f[o - 1])
                \/ /\ f[o] = f[o - 1] /\ ~TakesLeft(src, mid, end, f[o - 1], mid + (o - 1) - f[o - 1])
                   /\ mid + (o - 1) - f[o - 1] < end
  <2> DEFINE l == f[o - 1]
             r == mid + (o - 1) - l
  <2>1. l \in begin..mid /\ r \in mid..end /\ o - 1 < end BY <1>2
  <2>2. f[o] = IF TakesLeft(src, mid, end, l, r) THEN l + 1 ELSE l BY DEF Walks
  <2> HIDE DEF l
  <2>3. CASE TakesLeft(src, mid, end, l, r)
    <3>1. l < mid /\ f[o] = l + 1 BY <2>2, <2>3 DEF TakesLeft
    <3>2. Ok(o) BY <3>1, <2>1
    <3> QED BY <3>1, <3>2, <2>3 DEF l
  <2>4. CASE ~TakesLeft(src, mid, end, l, r)
    <3>1. f[o] = l BY <2>2, <2>4
    <3>2. r < end
      <4> SUFFICES ASSUME ~(r < end) PROVE FALSE OBVIOUS
      <4>1. r = end BY <2>1
      <4>2. ~(l < mid) BY <2>4, <4>1 DEF TakesLeft
      <4>3. l = mid BY <4>2, <2>1
      <4> QED BY <4>1, <4>3, <2>1
    <3>3. Ok(o) BY <3>1, <3>2, <2>1
    <3> QED BY <3>1, <3>2, <3>3, <2>4 DEF l
  <2> QED BY <2>3, <2>4
<1>3. ASSUME NEW m \in 0..n - 1, m \in S PROVE m + 1 \in S
  <2>1. begin + m + 1 \in begin + 1..end /\ (begin + m + 1) - 1 = begin + m /\ m + 1 \in 0..n OBVIOUS
  <2>2. Ok(begin + m) BY <1>3
  <2>3. Ok((begin + m + 1) - 1) BY <2>1, <2>2
  <2>4. Ok(begin + m + 1)
    <3> HIDE DEF Ok
    <3> QED BY <1>2, <2>1, <2>3
  <2>5. begin + (m + 1) = begin + m + 1 OBVIOUS
  <2>6. Ok(begin + (m + 1)) BY <2>4, <2>5
  <2> HIDE DEF Ok
  <2> QED BY <2>1, <2>6
<1>4. 0..n \subseteq S
  <2> HIDE DEF S, n
  <2> QED BY <1>0, <1>1, <1>3, CountUp
<1>5. ASSUME NEW o \in begin..end PROVE Ok(o)
  <2>1. o - begin \in 0..n /\ begin + (o - begin) = o OBVIOUS
  <2>2. o - begin \in S BY <1>4, <2>1
  <2> HIDE DEF Ok
  <2> QED BY <2>1, <2>2
<1>6. ASSUME NEW o \in begin + 1..end PROVE Ok(o - 1)
  <2>1. o - 1 \in begin..end OBVIOUS
  <2> HIDE DEF Ok
  <2> QED BY <1>5, <2>1
<1>7. \A o \in begin + 1..end :
        \/ f[o] = f[o - 1] + 1 /\ TakesLeft(src, mid, end, f[o - 1], mid + (o - 1) - f[o - 1])
        \/ /\ f[o] = f[o - 1] /\ ~TakesLeft(src, mid, end, f[o - 1], mid + (o - 1) - f[o - 1])
           /\ mid + (o - 1) - f[o - 1] < end
  <2> HIDE DEF Ok
  <2> QED BY <1>2, <1>6
<1> QED BY <1>5, <1>7 DEF Stays

\* Neither goes back.
LEMMA TextWalkForward ==
  ASSUME NEW src, NEW begin \in Nat, NEW mid \in Nat, NEW end \in Nat, begin <= mid, mid <= end,
         NEW f, Walks(f, src, begin, mid, end), NEW i \in begin..end, NEW k \in i..end
  PROVE  f[i] <= f[k] /\ mid + i - f[i] <= mid + k - f[k]
<1>a. Stays(f, src, begin, mid, end) BY TextWalkStays
<1>1. \A o \in begin..end : f[o] \in Int BY <1>a DEF Stays
<1>2. \A o \in begin + 1..end : f[o] = f[o - 1] + 1 \/ f[o] = f[o - 1] BY <1>a DEF Stays
<1> DEFINE n == end - i
           Ok(m) == f[i] <= f[i + m] /\ mid + i - f[i] <= mid + (i + m) - f[i + m]
           S == {m \in 0..n : Ok(m)}
<1>3. n \in Nat OBVIOUS
<1>4. 0 \in S BY <1>1
<1>5. ASSUME NEW m \in 0..n - 1, m \in S PROVE m + 1 \in S
  <2>1. i + (m + 1) \in begin + 1..end /\ (i + (m + 1)) - 1 = i + m /\ i + m \in begin..end OBVIOUS
  <2>2. f[i + (m + 1)] = f[i + m] + 1 \/ f[i + (m + 1)] = f[i + m] BY <1>2, <2>1
  <2>3. f[i] \in Int /\ f[i + m] \in Int BY <1>1, <2>1
  <2>4. Ok(m) BY <1>5
  <2>5. Ok(m + 1) BY <2>2, <2>3, <2>4
  <2> HIDE DEF Ok
  <2> QED BY <2>5
<1>6. 0..n \subseteq S
  <2> HIDE DEF S, n
  <2> QED BY <1>3, <1>4, <1>5, CountUp
<1>7. k - i \in 0..n /\ i + (k - i) = k OBVIOUS
<1>8. Ok(k - i)
  <2> HIDE DEF Ok
  <2> QED BY <1>6, <1>7
<1> QED BY <1>7, <1>8

\* t is dst with both parts of src merged into it.
IsMerge(t, f, src, dst, begin, mid, end) ==
  t = [i \in 1..Len(dst) |->
         IF i \notin begin + 1..end THEN dst[i]
         ELSE IF f[i] > f[i - 1] THEN src[f[i]] ELSE src[mid + i - f[i]]]

\* The merged array, by how far the left part has been copied.
LEMMA TextMergedBy ==
  ASSUME NEW src, NEW dst, NEW begin \in Nat, NEW mid \in Nat, NEW end \in Nat, begin <= mid, mid <= end
  PROVE  \E f : Walks(f, src, begin, mid, end)
                  /\ IsMerge(Merged(src, dst, begin, mid, end), f, src, dst, begin, mid, end)
<1> DEFINE f == CHOOSE g : IsWalk(g, src, begin, mid, end)
<1>1. IsWalk(f, src, begin, mid, end) BY TextWalkExists
<1>2. Merged(src, dst, begin, mid, end) =
        [i \in 1..Len(dst) |->
           CASE i \notin begin + 1..end -> dst[i]
             [] i \in begin + 1..end /\ f[i] > f[i - 1] -> src[f[i]]
             [] OTHER -> src[mid + i - f[i]]]
  BY DEF Merged, IsWalk, TakesLeft
<1> HIDE DEF f
<1>3. Walks(f, src, begin, mid, end)
  <2>1. \A o \in begin..end :
          f[o] = IF o = begin THEN begin
                 ELSE IF TakesLeft(src, mid, end, f[o - 1], mid + (o - 1) - f[o - 1])
                      THEN f[o - 1] + 1 ELSE f[o - 1]
    BY <1>1 DEF IsWalk
  <2>2. begin \in begin..end /\ \A o \in begin + 1..end : o \in begin..end /\ o # begin OBVIOUS
  <2> QED BY <2>1, <2>2 DEF Walks
<1>4. ASSUME NEW i \in 1..Len(dst)
      PROVE  (CASE i \notin begin + 1..end -> dst[i]
                [] i \in begin + 1..end /\ f[i] > f[i - 1] -> src[f[i]]
                [] OTHER -> src[mid + i - f[i]]) =
             (IF i \notin begin + 1..end THEN dst[i]
              ELSE IF f[i] > f[i - 1] THEN src[f[i]] ELSE src[mid + i - f[i]])
  <2>1. CASE i \notin begin + 1..end BY <2>1
  <2>2. CASE i \in begin + 1..end /\ f[i] > f[i - 1] BY <2>2
  <2>3. CASE i \in begin + 1..end /\ ~(f[i] > f[i - 1]) BY <2>3
  <2> QED BY <2>1, <2>2, <2>3
<1>5. IsMerge(Merged(src, dst, begin, mid, end), f, src, dst, begin, mid, end)
  BY <1>2, <1>4 DEF IsMerge
<1> QED BY <1>3, <1>5

\* Where each element of the merged part comes from.
From(f, mid, i) == IF f[i] > f[i - 1] THEN f[i] ELSE mid + i - f[i]

\* It is the next one of the part that it is from.
ComesFrom(f, src, begin, mid, end, i) ==
  \/ /\ f[i] = f[i - 1] + 1 /\ From(f, mid, i) = f[i] /\ f[i] \in begin + 1..mid
     /\ TakesLeft(src, mid, end, f[i] - 1, mid + i - f[i])
     /\ mid + i - f[i] \in mid..end
  \/ /\ f[i] = f[i - 1] /\ From(f, mid, i) = mid + i - f[i]
     /\ mid + i - f[i] \in mid + 1..end /\ f[i] \in begin..mid
     /\ ~TakesLeft(src, mid, end, f[i], mid + (i - 1) - f[i])

\* It comes from what has not been copied before.
LEMMA TextMergedFrom ==
  ASSUME NEW src, NEW begin \in Nat, NEW mid \in Nat, NEW end \in Nat, begin <= mid, mid <= end,
         NEW f, Walks(f, src, begin, mid, end), NEW i \in begin + 1..end
  PROVE  ComesFrom(f, src, begin, mid, end, i)
<1> DEFINE l == f[i - 1]
           r == mid + (i - 1) - f[i - 1]
<1>1. Stays(f, src, begin, mid, end) BY TextWalkStays
<1>2. i \in begin..end /\ i - 1 \in begin..end OBVIOUS
<1>3. /\ f[i] \in begin..mid /\ mid + i - f[i] \in mid..end
      /\ l \in begin..mid /\ r \in mid..end
  BY <1>1, <1>2 DEF Stays
<1>4. \/ f[i] = l + 1 /\ TakesLeft(src, mid, end, l, r)
      \/ f[i] = l /\ ~TakesLeft(src, mid, end, l, r) /\ r < end
  BY <1>1 DEF Stays
<1>5. From(f, mid, i) = IF f[i] > l THEN f[i] ELSE mid + i - f[i] BY DEF From
<1> DEFINE m == f[i]
<1> HIDE DEF l, m
<1>6. CASE m = l + 1 /\ TakesLeft(src, mid, end, l, r)
  <2>1. m \in begin + 1..mid /\ m > l BY <1>3, <1>6 DEF m
  <2>2. m - 1 = l /\ mid + i - m = r BY <1>3, <1>6 DEF l
  <2>3. From(f, mid, i) = m BY <1>5, <2>1 DEF m
  <2>4. mid + i - m \in mid..end BY <1>3 DEF m
  <2>5. TakesLeft(src, mid, end, m - 1, mid + i - m) BY <1>6, <2>2
  <2> QED BY <2>1, <2>3, <2>4, <2>5, <1>6 DEF m, l, ComesFrom
<1>7. CASE m = l /\ ~TakesLeft(src, mid, end, l, r) /\ r < end
  <2>1. ~(m > l) BY <1>3, <1>7
  <2>2. mid + (i - 1) - m = r BY <1>7 DEF l
  <2>3. From(f, mid, i) = mid + i - m BY <1>5, <2>1 DEF m
  <2>4. mid + i - m \in mid + 1..end /\ m \in begin..mid BY <1>3, <1>7, <2>2 DEF m
  <2>5. ~TakesLeft(src, mid, end, m, mid + (i - 1) - m) BY <1>7, <2>2
  <2> QED BY <2>3, <2>4, <2>5, <1>7 DEF m, l, ComesFrom
<1>8. ComesFrom(f, src, begin, mid, end, i) BY <1>4, <1>6, <1>7 DEF m
<1> QED BY <1>8

\* What is not copied yet.
Ahead(f, mid, end, i) == (f[i] + 1..mid) \union (mid + i - f[i] + 1..end)

\* Later elements are ahead of earlier ones.
LEMMA TextMergedAhead ==
  ASSUME NEW src, NEW begin \in Nat, NEW mid \in Nat, NEW end \in Nat, begin <= mid, mid <= end,
         NEW f, Walks(f, src, begin, mid, end), NEW i \in begin + 1..end, NEW k \in i + 1..end
  PROVE  From(f, mid, k) \in Ahead(f, mid, end, i) /\ From(f, mid, i) # From(f, mid, k)
<1>0. i \in begin..end /\ k \in begin + 1..end /\ k - 1 \in i..end /\ k - 1 \in begin..end OBVIOUS
<1>1. f[i] <= f[k - 1] /\ mid + i - f[i] <= mid + (k - 1) - f[k - 1]
  BY <1>0, TextWalkForward
<1>2. \A o \in begin..end : f[o] \in begin..mid /\ mid + o - f[o] \in mid..end
  <2>1. Stays(f, src, begin, mid, end) BY TextWalkStays
  <2> QED BY <2>1 DEF Stays
<1>3. f[i] \in begin..mid /\ f[k - 1] \in begin..mid /\ f[k] \in begin..mid BY <1>0, <1>2
<1>4. \/ f[i] = f[i - 1] + 1 /\ From(f, mid, i) = f[i]
      \/ From(f, mid, i) = mid + i - f[i] /\ mid + i - f[i] \in mid + 1..end
  <2>1. ComesFrom(f, src, begin, mid, end, i) BY TextMergedFrom
  <2> QED BY <2>1 DEF ComesFrom
<1>5. \/ f[k] = f[k - 1] + 1 /\ From(f, mid, k) = f[k] /\ f[k] \in begin + 1..mid
      \/ f[k] = f[k - 1] /\ From(f, mid, k) = mid + k - f[k] /\ mid + k - f[k] \in mid + 1..end
  <2>1. ComesFrom(f, src, begin, mid, end, k) BY <1>0, TextMergedFrom
  <2> QED BY <2>1 DEF ComesFrom
<1> DEFINE x == From(f, mid, i)
           y == From(f, mid, k)
           fi == f[i]
           fj == f[k - 1]
           fk == f[k]
<1>6. /\ fi \in begin..mid /\ fj \in begin..mid /\ fk \in begin..mid
      /\ fi <= fj /\ mid + i - fi <= mid + (k - 1) - fj
      /\ (x = fi \/ (x = mid + i - fi /\ mid + i - fi \in mid + 1..end))
      /\ \/ fk = fj + 1 /\ y = fk
         \/ fk = fj /\ y = mid + k - fk /\ mid + k - fk \in mid + 1..end
  BY <1>1, <1>3, <1>4, <1>5
<1> HIDE DEF x, y, fi, fj, fk
<1>7. CASE fk = fj + 1 /\ y = fk
  <2>1. y \in fi + 1..mid BY <1>6, <1>7
  <2>2. x # y BY <1>6, <2>1
  <2> QED BY <2>1, <2>2 DEF Ahead, x, y, fi
<1>8. CASE fk = fj /\ y = mid + k - fk /\ mid + k - fk \in mid + 1..end
  <2>1. y \in mid + i - fi + 1..end BY <1>6, <1>8
  <2>2. x # y BY <1>6, <2>1, <1>8
  <2> QED BY <2>1, <2>2 DEF Ahead, x, y, fi
<1> QED BY <1>6, <1>7, <1>8

\* What comes first is not greater than what is ahead.
LEMMA TextMergedFirst ==
  ASSUME NEW src, NEW begin \in Nat, NEW mid \in Nat, NEW end \in Nat, begin <= mid, mid <= end,
         NEW f, Walks(f, src, begin, mid, end), NEW i \in begin + 1..end,
         \A k \in begin + 1..end : src[k] \in Ordinary(numeric),
         IsOrderedIn(numeric, src, begin + 1, mid), IsOrderedIn(numeric, src, mid + 1, end),
         NEW k \in Ahead(f, mid, end, i)
  PROVE  Cmp(numeric, src[From(f, mid, i)], src[k]) <= 0
<1> DEFINE m == f[i]
           x == From(f, mid, i)
<1>1. \/ /\ x = m /\ m \in begin + 1..mid
         /\ TakesLeft(src, mid, end, m - 1, mid + i - m)
         /\ mid + i - m \in mid..end
      \/ /\ x = mid + i - m
         /\ mid + i - m \in mid + 1..end /\ m \in begin..mid
         /\ ~TakesLeft(src, mid, end, m, mid + (i - 1) - m)
  <2>1. ComesFrom(f, src, begin, mid, end, i) BY TextMergedFrom
  <2> QED BY <2>1 DEF ComesFrom
<1>2. k \in m + 1..mid \/ k \in mid + i - m + 1..end BY DEF Ahead
<1> HIDE DEF m, x
<1>3. \A j, l \in begin + 1..end : src[j] \in Line
  BY DEF Ordinary
<1>4. CASE /\ x = m /\ m \in begin + 1..mid
           /\ TakesLeft(src, mid, end, m - 1, mid + i - m)
           /\ mid + i - m \in mid..end
  <2>1. CASE k \in m + 1..mid
    <3>1. k \in begin + 1..mid /\ m < k BY <1>4, <2>1
    <3> QED BY <1>4, <3>1 DEF IsOrderedIn, x
  <2>2. CASE k \in mid + i - m + 1..end
    <3> DEFINE r == mid + i - m
    <3>1. r \in mid..end /\ r # end /\ k \in r + 1..end BY <1>4, <2>2
    <3>2. Compare(src[(m - 1) + 1], src[r + 1]) < 0 BY <1>4, <3>1 DEF TakesLeft
    <3>3. (m - 1) + 1 = m BY <1>4
    <3>4. Cmp(numeric, src[m], src[r + 1]) < 0 BY <3>2, <3>3 DEF Compare, Cmp
    <3> HIDE DEF r
    <3>5. m \in begin + 1..end /\ r + 1 \in begin + 1..end /\ k \in begin + 1..end /\ r + 1 \in mid + 1..end
      BY <1>4, <3>1
    <3>6. Cmp(numeric, src[m], src[r + 1]) <= 0
      <4>1. Cmp(numeric, src[m], src[r + 1]) \in Int BY <1>3, <3>5, TextOpposite
      <4> QED BY <4>1, <3>4
    <3>7. CASE k = r + 1 BY <3>6, <3>7, <1>4 DEF x
    <3>8. CASE k # r + 1
      <4>1. k \in mid + 1..end /\ r + 1 < k BY <3>1, <3>8, <3>5
      <4>2. Cmp(numeric, src[r + 1], src[k]) <= 0 BY <3>5, <4>1 DEF IsOrderedIn
      <4>3. /\ src[m] \in Ordinary(numeric) /\ src[r + 1] \in Ordinary(numeric)
            /\ src[k] \in Ordinary(numeric)
        BY <3>5
      <4>4. Cmp(numeric, src[m], src[k]) <= 0 BY <3>6, <4>2, <4>3, TextTransitive
      <4> QED BY <4>4, <1>4 DEF x
    <3> QED BY <3>7, <3>8
  <2> QED BY <1>2, <2>1, <2>2
<1>5. CASE /\ x = mid + i - m
           /\ mid + i - m \in mid + 1..end /\ m \in begin..mid
           /\ ~TakesLeft(src, mid, end, m, mid + (i - 1) - m)
  <2> DEFINE r == mid + i - m
  <2>0. r \in mid + 1..end /\ mid + (i - 1) - m = r - 1 /\ (r - 1) + 1 = r /\ r - 1 # end /\ x = r
    BY <1>5
  <2>1. CASE k \in r + 1..end
    <3>1. k \in mid + 1..end /\ r < k BY <2>0, <2>1
    <3> HIDE DEF r
    <3> QED BY <2>0, <3>1 DEF IsOrderedIn, x
  <2>2. CASE k \in m + 1..mid
    <3>1. m < mid BY <1>5, <2>2
    <3>2. ~(Compare(src[m + 1], src[(r - 1) + 1]) < 0) BY <1>5, <2>0, <3>1 DEF TakesLeft
    <3> HIDE DEF r
    <3>3. ~(Cmp(numeric, src[m + 1], src[r]) < 0) BY <3>2, <2>0 DEF Compare, Cmp
    <3>4. r \in begin + 1..end /\ m + 1 \in begin + 1..end /\ k \in begin + 1..end /\ m + 1 \in begin + 1..mid
      BY <1>5, <2>0, <2>2, <3>1
    <3>5. Cmp(numeric, src[r], src[m + 1]) <= 0
      <4>1. src[m + 1] \in Line /\ src[r] \in Line BY <1>3, <3>4
      <4>2. /\ Cmp(numeric, src[m + 1], src[r]) \in Int
            /\ Cmp(numeric, src[r], src[m + 1]) = -Cmp(numeric, src[m + 1], src[r])
        BY <4>1, TextOpposite
      <4> QED BY <4>2, <3>3
    <3>6. CASE k = m + 1 BY <3>5, <3>6, <2>0 DEF x
    <3>7. CASE k # m + 1
      <4>1. k \in begin + 1..mid /\ m + 1 < k BY <1>5, <2>2, <3>7
      <4>2. Cmp(numeric, src[m + 1], src[k]) <= 0 BY <3>4, <4>1 DEF IsOrderedIn
      <4>3. /\ src[r] \in Ordinary(numeric) /\ src[m + 1] \in Ordinary(numeric)
            /\ src[k] \in Ordinary(numeric)
        BY <3>4
      <4>4. Cmp(numeric, src[r], src[k]) <= 0 BY <3>5, <4>2, <4>3, TextTransitive
      <4> QED BY <4>4, <2>0 DEF x
    <3> QED BY <3>6, <3>7
  <2> QED BY <1>2, <2>1, <2>2
<1> QED BY <1>1, <1>4, <1>5

\* t is dst, with the lines of src in the part, and in order if both parts were.
IsMerged(t, src, dst, S, begin, mid, end) ==
  /\ t \in [1..Len(dst) -> S]
  /\ \A i \in 1..Len(dst) : i \notin begin + 1..end => t[i] = dst[i]
  /\ IsPermutedIn(t, src, begin + 1, end)
  /\ /\ \A k \in begin + 1..end : src[k] \in Ordinary(numeric)
     /\ IsOrderedIn(numeric, src, begin + 1, mid)
     /\ IsOrderedIn(numeric, src, mid + 1, end)
     => IsOrderedIn(numeric, t, begin + 1, end)

\* The merge takes the lines of both parts, and keeps their order.
LEMMA TextMerged ==
  ASSUME NEW S, NEW src \in Seq(S), NEW dst \in Seq(S), Len(src) = Len(dst),
         NEW begin \in Nat, NEW mid \in Nat, NEW end \in Nat, begin <= mid, mid <= end, end <= Len(dst)
  PROVE  IsMerged(Merged(src, dst, begin, mid, end), src, dst, S, begin, mid, end)
<1> DEFINE n == Len(dst)
<1>0. n \in Nat /\ \A i \in 1..n : src[i] \in S /\ dst[i] \in S
  <2>1. Len(dst) \in Nat OBVIOUS
  <2>2. \A i \in 1..Len(dst) : dst[i] \in S BY ElementOfSeq
  <2>3. \A i \in 1..Len(src) : src[i] \in S BY ElementOfSeq
  <2> QED BY <2>1, <2>2, <2>3
<1> DEFINE t == Merged(src, dst, begin, mid, end)
<1>a. PICK f : Walks(f, src, begin, mid, end)
               /\ IsMerge(Merged(src, dst, begin, mid, end), f, src, dst, begin, mid, end)
  BY TextMergedBy
<1>1. /\ Walks(f, src, begin, mid, end)
      /\ t = [i \in 1..n |->
               IF i \notin begin + 1..end THEN dst[i]
               ELSE IF f[i] > f[i - 1] THEN src[f[i]] ELSE src[mid + i - f[i]]]
  BY <1>a DEF IsMerge
<1> HIDE DEF t, n
<1>2. \A i \in 1..n : i \notin begin + 1..end => t[i] = dst[i] BY <1>1
<1>3. \A i \in begin + 1..end : i \in 1..n BY <1>0 DEF n
<1>4. ASSUME NEW i \in begin + 1..end PROVE t[i] = src[From(f, mid, i)]
  <2>1. i \in 1..n BY <1>3
  <2>2. t[i] = IF f[i] > f[i - 1] THEN src[f[i]] ELSE src[mid + i - f[i]] BY <1>1, <2>1
  <2> QED BY <2>2 DEF From
<1>5. ASSUME NEW i \in begin + 1..end PROVE From(f, mid, i) \in begin + 1..end
  <2>1. \/ From(f, mid, i) = f[i] /\ f[i] \in begin + 1..mid
        \/ From(f, mid, i) = mid + i - f[i] /\ mid + i - f[i] \in mid + 1..end
    <3>1. ComesFrom(f, src, begin, mid, end, i) BY <1>1, TextMergedFrom
    <3> QED BY <3>1 DEF ComesFrom
  <2> QED BY <2>1
<1>6. t \in [1..n -> S]
  <2>1. ASSUME NEW i \in 1..n PROVE t[i] \in S
    <3>1. CASE i \notin begin + 1..end BY <3>1, <1>0, <1>2
    <3>2. CASE i \in begin + 1..end
      <4>1. From(f, mid, i) \in 1..n BY <3>2, <1>3, <1>5
      <4> QED BY <4>1, <3>2, <1>4, <1>0
    <3> QED BY <3>1, <3>2
  <2>2. t = [i \in 1..n |-> t[i]] BY <1>1
  <2> QED BY <2>1, <2>2
<1> DEFINE p == [i \in begin + 1..end |-> From(f, mid, i)]
<1>7. TakesPart(t, src, p, begin + 1, end)
  <2>1. p \in [begin + 1..end -> begin + 1..end] BY <1>5
  <2>2. ASSUME NEW i \in begin + 1..end, NEW k \in begin + 1..end, p[i] = p[k] PROVE i = k
    <3>0. From(f, mid, i) = From(f, mid, k) BY <2>2
    <3>1. CASE i < k
      <4>1. k \in i + 1..end BY <3>1
      <4> QED BY <4>1, <3>0, <1>1, TextMergedAhead
    <3>2. CASE k < i
      <4>1. i \in k + 1..end BY <3>2
      <4> QED BY <4>1, <3>0, <1>1, TextMergedAhead
    <3> QED BY <3>1, <3>2
  <2>3. \A i \in begin + 1..end : t[i] = src[p[i]] BY <1>4
  <2> HIDE DEF p
  <2> QED BY <2>1, <2>2, <2>3 DEF TakesPart
<1>8. IsPermutedIn(t, src, begin + 1, end)
  <2> HIDE DEF p
  <2> QED BY <1>7 DEF IsPermutedIn
<1>9. ASSUME \A k \in begin + 1..end : src[k] \in Ordinary(numeric),
             IsOrderedIn(numeric, src, begin + 1, mid), IsOrderedIn(numeric, src, mid + 1, end)
      PROVE  IsOrderedIn(numeric, t, begin + 1, end)
  <2>1. ASSUME NEW i \in begin + 1..end, NEW k \in begin + 1..end, i < k
        PROVE  Cmp(numeric, t[i], t[k]) <= 0
    <3>1. k \in i + 1..end BY <2>1
    <3>2. From(f, mid, k) \in Ahead(f, mid, end, i) BY <3>1, <1>1, TextMergedAhead
    <3>3. Cmp(numeric, src[From(f, mid, i)], src[From(f, mid, k)]) <= 0
      BY <3>2, <1>1, <1>9, TextMergedFirst
    <3> QED BY <3>3, <1>4
  <2> QED BY <2>1 DEF IsOrderedIn
<1> QED BY <1>2, <1>6, <1>8, <1>9 DEF t, n, IsMerged

\* A part taken as it is.
LEMMA TextPartSelf ==
  ASSUME NEW s, NEW t, NEW i \in Int, NEW k \in Int, \A j \in i..k : t[j] = s[j]
  PROVE  IsPermutedIn(t, s, i, k)
<1>1. TakesPart(t, s, [j \in i..k |-> j], i, k) BY DEF TakesPart
<1> QED BY <1>1 DEF IsPermutedIn

\* A part taken from what was taken.
LEMMA TextPartTwice ==
  ASSUME NEW s, NEW t, NEW u, NEW i \in Int, NEW k \in Int,
         IsPermutedIn(t, s, i, k), IsPermutedIn(u, t, i, k)
  PROVE  IsPermutedIn(u, s, i, k)
<1>1. PICK p : TakesPart(t, s, p, i, k) BY DEF IsPermutedIn
<1>2. PICK q : TakesPart(u, t, q, i, k) BY DEF IsPermutedIn
<1> DEFINE r == [j \in i..k |-> p[q[j]]]
<1>3. \A j \in i..k : q[j] \in i..k /\ p[q[j]] \in i..k BY <1>1, <1>2 DEF TakesPart
<1>4. r \in [i..k -> i..k] BY <1>3
<1>5. ASSUME NEW j \in i..k, NEW l \in i..k, r[j] = r[l] PROVE j = l
  <2>1. p[q[j]] = p[q[l]] BY <1>5
  <2>2. q[j] = q[l] BY <2>1, <1>1, <1>3 DEF TakesPart
  <2> QED BY <2>2, <1>2 DEF TakesPart
<1>6. \A j \in i..k : u[j] = s[r[j]]
  <2> TAKE j \in i..k
  <2>1. u[j] = t[q[j]] /\ t[q[j]] = s[p[q[j]]] BY <1>1, <1>2, <1>3 DEF TakesPart
  <2> QED BY <2>1
<1>7. TakesPart(u, s, r, i, k)
  <2> HIDE DEF r
  <2> QED BY <1>4, <1>5, <1>6 DEF TakesPart
<1> QED BY <1>7 DEF IsPermutedIn

\* Two parts next to each other.
LEMMA TextPartsJoined ==
  ASSUME NEW s, NEW t, NEW i \in Int, NEW m \in Int, NEW k \in Int, i <= m + 1, m <= k,
         IsPermutedIn(t, s, i, m), IsPermutedIn(t, s, m + 1, k)
  PROVE  IsPermutedIn(t, s, i, k)
<1>1. PICK p : TakesPart(t, s, p, i, m) BY DEF IsPermutedIn
<1>2. PICK q : TakesPart(t, s, q, m + 1, k) BY DEF IsPermutedIn
<1> DEFINE r == [j \in i..k |-> IF j <= m THEN p[j] ELSE q[j]]
<1>3. /\ \A j \in i..m : p[j] \in i..m /\ t[j] = s[p[j]]
      /\ \A j \in m + 1..k : q[j] \in m + 1..k /\ t[j] = s[q[j]]
      /\ \A j, l \in i..m : p[j] = p[l] => j = l
      /\ \A j, l \in m + 1..k : q[j] = q[l] => j = l
  BY <1>1, <1>2 DEF TakesPart
<1>4. ASSUME NEW j \in i..k
      PROVE  \/ j \in i..m /\ r[j] = p[j] /\ p[j] \in i..m
             \/ j \in m + 1..k /\ r[j] = q[j] /\ q[j] \in m + 1..k
  <2>1. CASE j <= m
    <3>1. j \in i..m /\ r[j] = p[j] BY <2>1
    <3> QED BY <3>1, <1>3
  <2>2. CASE ~(j <= m)
    <3>1. j \in m + 1..k /\ r[j] = q[j] BY <2>2
    <3> QED BY <3>1, <1>3
  <2> QED BY <2>1, <2>2
<1>5. r \in [i..k -> i..k]
  <2>1. \A j \in i..k : r[j] \in i..k BY <1>4
  <2>2. r = [j \in i..k |-> r[j]] OBVIOUS
  <2> HIDE DEF r
  <2> QED BY <2>1, <2>2
<1> HIDE DEF r
<1>6. ASSUME NEW j \in i..k, NEW l \in i..k, r[j] = r[l] PROVE j = l
  <2>1. \A x \in i..m : \A y \in m + 1..k : x # y OBVIOUS
  <2> QED BY <1>3, <1>4, <1>6, <2>1
<1>7. \A j \in i..k : t[j] = s[r[j]] BY <1>3, <1>4
<1>8. TakesPart(t, s, r, i, k) BY <1>5, <1>6, <1>7 DEF TakesPart
<1> QED BY <1>8 DEF IsPermutedIn

\* Only the elements of the part matter.
LEMMA TextPartSame ==
  ASSUME NEW s, NEW t, NEW u, NEW v, NEW i \in Int, NEW k \in Int, IsPermutedIn(t, s, i, k),
         \A j \in i..k : u[j] = t[j], \A j \in i..k : v[j] = s[j]
  PROVE  IsPermutedIn(u, v, i, k)
<1>1. IsPermutedIn(u, t, i, k) BY TextPartSelf
<1>2. IsPermutedIn(u, s, i, k) BY <1>1, TextPartTwice
<1>3. PICK p : TakesPart(u, s, p, i, k) BY <1>2 DEF IsPermutedIn
<1>4. TakesPart(u, v, p, i, k) BY <1>3 DEF TakesPart
<1> QED BY <1>4 DEF IsPermutedIn

\* The calls of the merge sort of s, and what they leave.
Arrays(s) == [DOMAIN s -> Range(s)]
Calls(s)  == [src : Arrays(s), dst : Arrays(s), begin : 0..Len(s), end : 0..Len(s)]
Pairs(s)  == [src : Arrays(s), dst : Arrays(s)]

\* The calls that a call of the merge sort makes, and what it leaves.
LeftCall(call) ==
  [src |-> call.dst, dst |-> call.src,
   begin |-> call.begin, end |-> Midpoint(call.begin, call.end)]
RightCall(call, left) ==
  [src |-> left.src, dst |-> left.dst,
   begin |-> Midpoint(call.begin, call.end), end |-> call.end]
After(call, right) ==
  [src |-> right.dst,
   dst |-> Merged(right.dst, right.src, call.begin, Midpoint(call.begin, call.end), call.end)]
LeavesOf(f, call) ==
  IF call.end - call.begin <= 1 THEN [src |-> call.src, dst |-> call.dst]
  ELSE After(call, f[RightCall(call, f[LeftCall(call)])])
IsMergesort(f, s) == f = [call \in Calls(s) |-> LeavesOf(f, call)]

\* The middle of a part of more than one element.
LEMMA TextMidpoint ==
  ASSUME NEW i \in Nat, NEW k \in Nat, k - i > 1
  PROVE  Midpoint(i, k) \in Nat /\ i < Midpoint(i, k) /\ Midpoint(i, k) < k
BY DEF Midpoint

\* Arrays are sequences of as many lines.
LEMMA TextArrays ==
  ASSUME NEW S, NEW s \in Seq(S), NEW x \in Arrays(s)
  PROVE  x \in Seq(Range(s)) /\ Len(x) = Len(s)
<1>1. DOMAIN s = 1..Len(s) /\ Len(s) \in Nat OBVIOUS
<1>2. x \in [1..Len(s) -> Range(s)] BY <1>1 DEF Arrays
<1> QED BY <1>1, <1>2

\* The calls of a call, and what they leave.
LEMMA TextCalls ==
  ASSUME NEW S, NEW s \in Seq(S), NEW call \in Calls(s), call.end - call.begin > 1
  PROVE  /\ LeftCall(call) \in Calls(s)
         /\ \A pair \in Pairs(s) : /\ RightCall(call, pair) \in Calls(s)
                                   /\ After(call, pair) \in Pairs(s)
<1> DEFINE mid == Midpoint(call.begin, call.end)
<1>1. /\ call.src \in Arrays(s) /\ call.dst \in Arrays(s)
      /\ call.begin \in 0..Len(s) /\ call.end \in 0..Len(s) /\ Len(s) \in Nat
  BY DEF Calls
<1>2. mid \in Nat /\ call.begin < mid /\ mid < call.end
  <2>1. call.begin \in Nat /\ call.end \in Nat BY <1>1
  <2> QED BY <2>1, TextMidpoint
<1>3. mid \in 0..Len(s) BY <1>1, <1>2
<1>4. LeftCall(call) \in Calls(s) BY <1>1, <1>3 DEF LeftCall, Calls
<1>5. ASSUME NEW pair \in Pairs(s) PROVE RightCall(call, pair) \in Calls(s)
  BY <1>1, <1>3 DEF RightCall, Calls, Pairs
<1>6. ASSUME NEW pair \in Pairs(s) PROVE After(call, pair) \in Pairs(s)
  <2>1. pair.src \in Arrays(s) /\ pair.dst \in Arrays(s) BY DEF Pairs
  <2> DEFINE x == pair.dst
             y == pair.src
             t == Merged(x, y, call.begin, mid, call.end)
  <2>2. /\ x \in Seq(Range(s)) /\ y \in Seq(Range(s)) /\ Len(x) = Len(s) /\ Len(y) = Len(s)
    BY <2>1, TextArrays
  <2>3. IsMerged(t, x, y, Range(s), call.begin, mid, call.end)
    <3>1. /\ call.begin \in Nat /\ mid \in Nat /\ call.end \in Nat /\ call.begin <= mid
          /\ mid <= call.end /\ call.end <= Len(y) /\ Len(x) = Len(y)
      BY <1>1, <1>2, <2>2
    <3> HIDE DEF x, y, mid
    <3> QED BY <3>1, <2>2, TextMerged
  <2>4. t \in [1..Len(s) -> Range(s)]
    <3> HIDE DEF t, x, y, mid
    <3> QED BY <2>2, <2>3 DEF IsMerged
  <2>5. DOMAIN s = 1..Len(s) OBVIOUS
  <2>6. After(call, pair) = [src |-> x, dst |-> t] BY DEF After
  <2> HIDE DEF t
  <2> QED BY <2>1, <2>4, <2>5, <2>6 DEF Pairs, Arrays
<1> QED BY <1>4, <1>5, <1>6

\* A call returns.
LEMMA TextLeaves ==
  ASSUME NEW S, NEW s \in Seq(S), NEW call \in Calls(s), NEW f \in [Calls(s) -> Pairs(s)]
  PROVE  LeavesOf(f, call) \in Pairs(s)
<1>1. /\ call.src \in Arrays(s) /\ call.dst \in Arrays(s)
      /\ call.begin \in 0..Len(s) /\ call.end \in 0..Len(s)
  BY DEF Calls
<1>2. CASE call.end - call.begin <= 1 BY <1>1, <1>2 DEF LeavesOf, Pairs
<1>3. CASE ~(call.end - call.begin <= 1)
  <2>1. call.end - call.begin > 1 BY <1>1, <1>3
  <2>2. LeftCall(call) \in Calls(s) BY <2>1, TextCalls
  <2>3. f[LeftCall(call)] \in Pairs(s) BY <2>2
  <2>4. RightCall(call, f[LeftCall(call)]) \in Calls(s) BY <2>1, <2>3, TextCalls
  <2>5. f[RightCall(call, f[LeftCall(call)])] \in Pairs(s) BY <2>4
  <2>6. After(call, f[RightCall(call, f[LeftCall(call)])]) \in Pairs(s) BY <2>1, <2>5, TextCalls
  <2> QED BY <1>3, <2>6 DEF LeavesOf
<1> QED BY <1>2, <1>3

\* The merge sort is a function of its calls.
LEMMA TextMergesortExists ==
  ASSUME NEW S, NEW s \in Seq(S)
  PROVE  \E f : IsMergesort(f, s)
<1> DEFINE n == Len(s)
           C == Calls(s)
           V == [C -> Pairs(s)]
           h == [i \in 1..n + 2 |-> [v \in V |-> [call \in C |-> LeavesOf(v, call)]]]
           z == [call \in C |-> [src |-> call.src, dst |-> call.dst]]
<1>1. n \in Nat /\ n + 2 \in Nat OBVIOUS
<1>2. h \in [1..n + 2 -> [V -> V]]
  <2>1. ASSUME NEW v \in V, NEW call \in C PROVE LeavesOf(v, call) \in Pairs(s)
    BY TextLeaves
  <2>2. ASSUME NEW v \in V PROVE [call \in C |-> LeavesOf(v, call)] \in V
    <3> HIDE DEF C
    <3> QED BY <2>1
  <2> HIDE DEF V, C, n
  <2> QED BY <2>2
<1>3. z \in V BY DEF Calls, Pairs
<1>4. PICK g \in [0..n + 2 -> V] : Follows(g, n + 2, z, h)
  <2> HIDE DEF h, V, n, z, C
  <2> QED BY <1>1, <1>2, <1>3, TextRecursion
<1>5. ASSUME NEW i \in 1..n + 2 PROVE g[i] = [call \in C |-> LeavesOf(g[i - 1], call)]
  <2>1. i - 1 \in 0..n + 2 BY <1>1
  <2>2. g[i - 1] \in V BY <2>1, <1>4
  <2>3. g[i] = h[i][g[i - 1]]
    <3> HIDE DEF h
    <3> QED BY <1>4 DEF Follows
  <2>4. h[i][g[i - 1]] = [call \in C |-> LeavesOf(g[i - 1], call)]
    <3> HIDE DEF V, C, n
    <3> QED BY <2>2
  <2> HIDE DEF h, C
  <2> QED BY <2>3, <2>4
<1>6. \A i \in 1..n + 2 : \A call \in C : g[i][call] = LeavesOf(g[i - 1], call)
  <2> TAKE i \in 1..n + 2
  <2> HIDE DEF C
  <2> QED BY <1>5
<1> DEFINE Ok(m) == \A call \in C : call.end - call.begin <= m + 1 => g[m + 2][call] = g[m + 1][call]
           M == {m \in 0..n : Ok(m)}
<1>7. 0 \in M
  <2>1. ASSUME NEW call \in C, call.end - call.begin <= 1 PROVE g[2][call] = g[1][call]
    <3>1. g[2][call] = LeavesOf(g[2 - 1], call) /\ g[1][call] = LeavesOf(g[1 - 1], call)
      BY <1>1, <1>6
    <3> QED BY <2>1, <3>1 DEF LeavesOf
  <2>2. Ok(0)
    <3> HIDE DEF C
    <3>1. 0 + 1 = 1 /\ 0 + 2 = 2 OBVIOUS
    <3> QED BY <2>1, <3>1
  <2> HIDE DEF Ok
  <2> QED BY <1>1, <2>2
<1>8. ASSUME NEW m \in 0..n - 1, m \in M PROVE m + 1 \in M
  <2>0. m + 1 \in 0..n /\ m + 3 \in 1..n + 2 /\ m + 2 \in 1..n + 2 /\ m + 1 \in 0..n + 2
        /\ (m + 3) - 1 = m + 2 /\ (m + 2) - 1 = m + 1
        /\ (m + 1) + 1 = m + 2 /\ (m + 1) + 2 = m + 3
    BY <1>1
  <2>1. Ok(m) BY <1>8
  <2>2. ASSUME NEW call \in C, call.end - call.begin <= m + 2 PROVE g[m + 3][call] = g[m + 2][call]
    <3>1. g[m + 3][call] = LeavesOf(g[m + 2], call) /\ g[m + 2][call] = LeavesOf(g[m + 1], call)
      <4> HIDE DEF C
      <4>1. g[m + 3][call] = LeavesOf(g[(m + 3) - 1], call) BY <1>6, <2>0
      <4>2. g[m + 2][call] = LeavesOf(g[(m + 2) - 1], call) BY <1>6, <2>0
      <4> QED BY <4>1, <4>2, <2>0
    <3>2. call.begin \in 0..n /\ call.end \in 0..n BY DEF Calls
    <3>3. CASE call.end - call.begin <= 1 BY <3>1, <3>3 DEF LeavesOf
    <3>4. CASE ~(call.end - call.begin <= 1)
      <4> DEFINE mid == Midpoint(call.begin, call.end)
                 cl == LeftCall(call)
                 cr == RightCall(call, g[m + 1][cl])
      <4>1. call.end - call.begin > 1 BY <3>2, <3>4
      <4>2. mid \in Nat /\ call.begin < mid /\ mid < call.end
        <5>1. call.begin \in Nat /\ call.end \in Nat BY <3>2
        <5> QED BY <4>1, <5>1, TextMidpoint
      <4>3. cl \in C BY <4>1, TextCalls
      <4>4. cl.end - cl.begin <= m + 1
        <5>1. cl.end = mid /\ cl.begin = call.begin BY DEF LeftCall
        <5> HIDE DEF cl, mid
        <5> QED BY <5>1, <4>2, <3>2, <2>2
      <4>5. g[m + 2][cl] = g[m + 1][cl]
        <5> HIDE DEF C, cl
        <5> QED BY <2>1, <4>3, <4>4
      <4>6. g[m + 1][cl] \in Pairs(s)
        <5>1. g[m + 1] \in V BY <1>4, <2>0
        <5> HIDE DEF cl, C
        <5> QED BY <5>1, <4>3
      <4>7. cr \in C
        <5> HIDE DEF cl
        <5> QED BY <4>1, <4>6, TextCalls
      <4>8. cr.end - cr.begin <= m + 1
        <5>1. cr.end = call.end /\ cr.begin = mid BY DEF RightCall
        <5> HIDE DEF cr, mid
        <5> QED BY <5>1, <4>2, <3>2, <2>2
      <4>9. g[m + 2][cr] = g[m + 1][cr]
        <5> HIDE DEF C, cr
        <5> QED BY <2>1, <4>7, <4>8
      <4>10. LeavesOf(g[m + 2], call) = After(call, g[m + 2][RightCall(call, g[m + 2][cl])])
        BY <3>4 DEF LeavesOf
      <4>11. LeavesOf(g[m + 1], call) = After(call, g[m + 1][cr])
        BY <3>4 DEF LeavesOf
      <4>12. RightCall(call, g[m + 2][cl]) = cr
        <5> HIDE DEF cl
        <5> QED BY <4>5
      <4> HIDE DEF cr, cl
      <4> QED BY <3>1, <4>9, <4>10, <4>11, <4>12
    <3> QED BY <3>3, <3>4
  <2>3. Ok(m + 1)
    <3> HIDE DEF C
    <3> QED BY <2>0, <2>2
  <2> HIDE DEF Ok
  <2> QED BY <2>0, <2>3
<1>9. 0..n \subseteq M
  <2> HIDE DEF M, n
  <2> QED BY <1>1, <1>7, <1>8, CountUp
<1>10. Ok(n)
  <2> HIDE DEF Ok
  <2> QED BY <1>9, <1>1
<1>11. \A call \in C : g[n + 2][call] = g[n + 1][call]
  <2> TAKE call \in C
  <2>1. call.end - call.begin <= n + 1 BY DEF Calls
  <2> QED BY <1>10, <2>1
<1>12. g[n + 2] = g[n + 1]
  <2>1. g[n + 2] \in V /\ g[n + 1] \in V BY <1>1, <1>4
  <2> HIDE DEF C
  <2> QED BY <2>1, <1>11
<1>13. g[n + 2] = [call \in C |-> LeavesOf(g[n + 1], call)]
  <2>1. n + 2 \in 1..n + 2 /\ (n + 2) - 1 = n + 1 BY <1>1
  <2>2. g[n + 2] = [call \in C |-> LeavesOf(g[(n + 2) - 1], call)]
    <3> HIDE DEF n, C
    <3> QED BY <1>5, <2>1
  <2> HIDE DEF n, C
  <2> QED BY <2>1, <2>2
<1>14. IsMergesort(g[n + 1], s) BY <1>12, <1>13 DEF IsMergesort
<1> QED BY <1>14

\* What a call leaves: the same outside its part; in it, if both arrays had the
\* same there, the lines of both, and in order if the order compares them.
Sorts(pair, call, n) ==
  LET part == call.begin + 1..call.end
  IN  /\ \A i \in 1..n : i \notin part => pair.src[i] = call.src[i] /\ pair.dst[i] = call.dst[i]
      /\ (\A i \in part : call.src[i] = call.dst[i]) =>
           /\ IsPermutedIn(pair.dst, call.dst, call.begin + 1, call.end)
           /\ (\A i \in part : call.dst[i] \in Ordinary(numeric)) =>
                IsOrderedIn(numeric, pair.dst, call.begin + 1, call.end)

\* Calls on an element or none.
LEMMA TextSortsOne ==
  ASSUME NEW S, NEW s \in Seq(S), NEW call \in Calls(s), call.end - call.begin <= 1
  PROVE  Sorts([src |-> call.src, dst |-> call.dst], call, Len(s))
<1>1. call.begin \in Nat /\ call.end \in Nat
  <2>1. call.begin \in 0..Len(s) /\ call.end \in 0..Len(s) /\ Len(s) \in Nat BY DEF Calls
  <2> QED BY <2>1
<1> DEFINE i == call.begin + 1
           k == call.end
<1>2. i \in Int /\ k \in Int /\ \A j, l \in i..k : ~(j < l)
  <2>1. call.begin + 1 \in Int /\ call.end <= call.begin + 1 BY <1>1
  <2> QED BY <1>1, <2>1
<1>3. IsOrderedIn(numeric, call.dst, i, k) BY <1>2 DEF IsOrderedIn
<1>4. IsPermutedIn(call.dst, call.dst, i, k)
  <2> HIDE DEF i, k
  <2> QED BY <1>2, TextPartSelf
<1> QED BY <1>3, <1>4 DEF Sorts

\* Calls on more, if the calls in them have done so.
LEMMA TextSortsMore ==
  ASSUME NEW S, NEW s \in Seq(S), NEW call \in Calls(s), call.end - call.begin > 1,
         NEW left \in Pairs(s), Sorts(left, LeftCall(call), Len(s)),
         NEW right \in Pairs(s), Sorts(right, RightCall(call, left), Len(s))
  PROVE  Sorts(After(call, right), call, Len(s))
<1> DEFINE n == Len(s)
           b == call.begin
           mid == Midpoint(b, call.end)
           e == call.end
           u == call.src
           v == call.dst
           x == right.dst
           y == right.src
           t == Merged(x, y, b, mid, e)
<1>1. n \in Nat /\ b \in Nat /\ e \in Nat /\ e <= n /\ mid \in Nat /\ b < mid /\ mid < e
  <2>1. b \in 0..n /\ e \in 0..n /\ n \in Nat BY DEF Calls
  <2>2. b \in Nat /\ e \in Nat /\ e <= n BY <2>1
  <2>3. mid \in Nat /\ b < mid /\ mid < e
    <3> HIDE DEF n
    <3> QED BY <2>2, TextMidpoint
  <2> QED BY <2>1, <2>2, <2>3
<1>2. x \in Seq(Range(s)) /\ y \in Seq(Range(s)) /\ Len(x) = n /\ Len(y) = n
  <2>1. x \in Arrays(s) /\ y \in Arrays(s) BY DEF Pairs
  <2> HIDE DEF x, y
  <2> QED BY <2>1, TextArrays
<1>3. IsMerged(t, x, y, Range(s), b, mid, e)
  <2>1. b <= mid /\ mid <= e /\ e <= Len(y) /\ Len(x) = Len(y) BY <1>1, <1>2
  <2> HIDE DEF x, y, b, mid, e, n
  <2> QED BY <1>1, <1>2, <2>1, TextMerged
<1>4. After(call, right).src = x /\ After(call, right).dst = t BY DEF After
<1>5. /\ \A i \in 1..n : i \notin b + 1..mid => left.src[i] = v[i] /\ left.dst[i] = u[i]
      /\ (\A i \in b + 1..mid : v[i] = u[i]) =>
           /\ IsPermutedIn(left.dst, u, b + 1, mid)
           /\ (\A i \in b + 1..mid : u[i] \in Ordinary(numeric)) =>
                IsOrderedIn(numeric, left.dst, b + 1, mid)
  BY DEF Sorts, LeftCall
<1>6. /\ \A i \in 1..n : i \notin mid + 1..e => y[i] = left.src[i] /\ x[i] = left.dst[i]
      /\ (\A i \in mid + 1..e : left.src[i] = left.dst[i]) =>
           /\ IsPermutedIn(x, left.dst, mid + 1, e)
           /\ (\A i \in mid + 1..e : left.dst[i] \in Ordinary(numeric)) =>
                IsOrderedIn(numeric, x, mid + 1, e)
  BY DEF Sorts, RightCall
<1> HIDE DEF n, b, mid, e, u, v, t, x, y
<1>7. /\ \A i \in 1..n : i \notin b + 1..e => i \notin b + 1..mid /\ i \notin mid + 1..e
      /\ \A i \in b + 1..e : i \in 1..n
      /\ \A i \in b + 1..mid : i \in b + 1..e /\ i \notin mid + 1..e
      /\ \A i \in mid + 1..e : i \in b + 1..e /\ i \notin b + 1..mid
      /\ \A i \in b + 1..e : i \in b + 1..mid \/ i \in mid + 1..e
  BY <1>1
<1>8. ASSUME NEW i \in 1..n, i \notin b + 1..e PROVE x[i] = u[i] /\ t[i] = v[i]
  <2>1. y[i] = left.src[i] /\ x[i] = left.dst[i] BY <1>6, <1>7, <1>8
  <2>2. left.src[i] = v[i] /\ left.dst[i] = u[i] BY <1>5, <1>7, <1>8
  <2>3. t[i] = y[i]
    <3>1. i \in 1..Len(y) BY <1>2
    <3> QED BY <3>1, <1>3, <1>8 DEF IsMerged
  <2> QED BY <2>1, <2>2, <2>3
<1>9. ASSUME \A i \in b + 1..e : u[i] = v[i]
      PROVE  /\ IsPermutedIn(t, v, b + 1, e)
             /\ (\A i \in b + 1..e : v[i] \in Ordinary(numeric)) =>
                  IsOrderedIn(numeric, t, b + 1, e)
  <2>1. \A i \in b + 1..mid : v[i] = u[i] BY <1>7, <1>9
  <2>2. IsPermutedIn(left.dst, u, b + 1, mid) BY <1>5, <2>1
  <2>3. \A i \in mid + 1..e : left.src[i] = v[i] /\ left.dst[i] = u[i] BY <1>5, <1>7
  <2>4. \A i \in mid + 1..e : left.src[i] = left.dst[i] BY <2>3, <1>7, <1>9
  <2>5. IsPermutedIn(x, left.dst, mid + 1, e) BY <1>6, <2>4
  <2>6. \A i \in b + 1..mid : x[i] = left.dst[i] BY <1>6, <1>7
  <2>7. b + 1 \in Int /\ mid + 1 \in Int /\ mid \in Int /\ e \in Int /\ b + 1 <= mid + 1 /\ mid <= e
    BY <1>1
  <2>8. IsPermutedIn(x, v, b + 1, mid)
    <3> DEFINE i == b + 1
    <3> HIDE DEF i
    <3>1. i \in Int /\ \A j \in i..mid : x[j] = left.dst[j] BY <2>6, <2>7 DEF i
    <3>2. \A j \in i..mid : v[j] = u[j] BY <2>1 DEF i
    <3>3. IsPermutedIn(left.dst, u, i, mid) BY <2>2 DEF i
    <3>4. IsPermutedIn(x, v, i, mid) BY <2>7, <3>1, <3>2, <3>3, TextPartSame
    <3> QED BY <3>4 DEF i
  <2>9. IsPermutedIn(x, v, mid + 1, e)
    <3> DEFINE i == mid + 1
    <3> HIDE DEF i
    <3>1. i \in Int /\ \A j \in i..e : x[j] = x[j] BY <2>7 DEF i
    <3>2. \A j \in i..e : v[j] = left.dst[j] BY <2>3, <1>7, <1>9 DEF i
    <3>3. IsPermutedIn(x, left.dst, i, e) BY <2>5 DEF i
    <3>4. IsPermutedIn(x, v, i, e) BY <2>7, <3>1, <3>2, <3>3, TextPartSame
    <3> QED BY <3>4 DEF i
  <2>10. IsPermutedIn(x, v, b + 1, e) BY <2>7, <2>8, <2>9, TextPartsJoined
  <2>11. IsPermutedIn(t, x, b + 1, e) BY <1>3 DEF IsMerged
  <2>12. IsPermutedIn(t, v, b + 1, e) BY <2>7, <2>10, <2>11, TextPartTwice
  <2>13. ASSUME \A i \in b + 1..e : v[i] \in Ordinary(numeric)
         PROVE  IsOrderedIn(numeric, t, b + 1, e)
    <3>1. \A i \in b + 1..mid : u[i] \in Ordinary(numeric) BY <1>7, <1>9, <2>13
    <3>2. IsOrderedIn(numeric, left.dst, b + 1, mid) BY <1>5, <2>1, <3>1
    <3>3. IsOrderedIn(numeric, x, b + 1, mid) BY <2>6, <3>2 DEF IsOrderedIn
    <3>4. \A i \in mid + 1..e : left.dst[i] \in Ordinary(numeric) BY <1>7, <1>9, <2>3, <2>13
    <3>5. IsOrderedIn(numeric, x, mid + 1, e) BY <1>6, <2>4, <3>4
    <3>6. \A i \in b + 1..e : x[i] \in Ordinary(numeric)
      <4>1. PICK p : TakesPart(x, v, p, b + 1, e) BY <2>10 DEF IsPermutedIn
      <4> QED BY <4>1, <2>13 DEF TakesPart
    <3> QED BY <1>3, <3>3, <3>5, <3>6 DEF IsMerged
  <2> QED BY <2>12, <2>13
<1> QED BY <1>4, <1>8, <1>9 DEF Sorts, n, b, e, u, v

\* Every call does so.
LEMMA TextMergesortSorts ==
  ASSUME NEW S, NEW s \in Seq(S), NEW f, IsMergesort(f, s), NEW call \in Calls(s)
  PROVE  f[call] \in Pairs(s) /\ Sorts(f[call], call, Len(s))
<1> DEFINE n == Len(s)
           Good(c) == f[c] \in Pairs(s) /\ Sorts(f[c], c, n)
           Ok(m) == \A c \in Calls(s) : c.end - c.begin <= m + 1 => Good(c)
           M == {m \in 0..n : Ok(m)}
<1>0. n \in Nat OBVIOUS
<1>1. \A c \in Calls(s) : f[c] = LeavesOf(f, c) BY DEF IsMergesort
<1>2. ASSUME NEW c \in Calls(s), c.end - c.begin <= 1 PROVE Good(c)
  <2>1. f[c] = [src |-> c.src, dst |-> c.dst] BY <1>1, <1>2 DEF LeavesOf
  <2>2. Sorts([src |-> c.src, dst |-> c.dst], c, n) BY <1>2, TextSortsOne
  <2>3. [src |-> c.src, dst |-> c.dst] \in Pairs(s) BY DEF Calls, Pairs
  <2> HIDE DEF n
  <2> QED BY <2>1, <2>2, <2>3
<1>3. 0 \in M
  <2>1. Ok(0)
    <3> HIDE DEF Good
    <3>1. 0 + 1 = 1 OBVIOUS
    <3> QED BY <1>2, <3>1
  <2> HIDE DEF Ok
  <2> QED BY <1>0, <2>1
<1>4. ASSUME NEW m \in 0..n - 1, m \in M PROVE m + 1 \in M
  <2>0. m + 1 \in 0..n /\ (m + 1) + 1 = m + 2 /\ m \in Nat BY <1>0
  <2>1. Ok(m) BY <1>4
  <2>2. ASSUME NEW c \in Calls(s), c.end - c.begin <= m + 2 PROVE Good(c)
    <3>2. c.begin \in 0..n /\ c.end \in 0..n BY DEF Calls
    <3>3. CASE c.end - c.begin <= 1
      <4> HIDE DEF Good
      <4> QED BY <3>3, <1>2
    <3>4. CASE ~(c.end - c.begin <= 1)
      <4> DEFINE mid == Midpoint(c.begin, c.end)
                 cl == LeftCall(c)
                 left == f[cl]
                 cr == RightCall(c, left)
                 right == f[cr]
      <4>1. c.end - c.begin > 1 BY <3>2, <3>4
      <4>2. mid \in Nat /\ c.begin < mid /\ mid < c.end
        <5>1. c.begin \in Nat /\ c.end \in Nat BY <3>2
        <5> QED BY <4>1, <5>1, TextMidpoint
      <4>3. cl \in Calls(s) BY <4>1, TextCalls
      <4>4. cl.end - cl.begin <= m + 1
        <5>1. cl.end = mid /\ cl.begin = c.begin BY DEF LeftCall
        <5> HIDE DEF cl, mid
        <5> QED BY <5>1, <4>2, <3>2, <2>2, <2>0
      <4>5. Good(cl)
        <5> HIDE DEF cl, Good
        <5> QED BY <2>1, <4>3, <4>4
      <4>6. left \in Pairs(s) /\ Sorts(left, cl, n) BY <4>5
      <4>7. cr \in Calls(s)
        <5> HIDE DEF left
        <5> QED BY <4>1, <4>6, TextCalls
      <4>8. cr.end - cr.begin <= m + 1
        <5>1. cr.end = c.end /\ cr.begin = mid BY DEF RightCall
        <5> HIDE DEF cr, mid
        <5> QED BY <5>1, <4>2, <3>2, <2>2, <2>0
      <4>9. Good(cr)
        <5> HIDE DEF cr, Good
        <5> QED BY <2>1, <4>7, <4>8
      <4>10. right \in Pairs(s) /\ Sorts(right, cr, n) BY <4>9
      <4>11. f[c] = After(c, right)
        <5>1. f[c] = LeavesOf(f, c) BY <1>1
        <5>2. LeavesOf(f, c) = After(c, right) BY <3>4 DEF LeavesOf
        <5> QED BY <5>1, <5>2
      <4>12. After(c, right) \in Pairs(s)
        <5> HIDE DEF right
        <5> QED BY <4>1, <4>10, TextCalls
      <4>13. Sorts(right, RightCall(c, left), n) /\ Sorts(left, LeftCall(c), n) BY <4>6, <4>10
      <4>14. Sorts(After(c, right), c, n)
        <5> HIDE DEF left, right
        <5> QED BY <4>1, <4>6, <4>10, <4>13, TextSortsMore
      <4> HIDE DEF right, n
      <4> QED BY <4>11, <4>12, <4>14
    <3> QED BY <3>3, <3>4
  <2>3. Ok(m + 1)
    <3> HIDE DEF Good
    <3> QED BY <2>0, <2>2
  <2> HIDE DEF Ok
  <2> QED BY <2>0, <2>3
<1>5. 0..n \subseteq M
  <2> HIDE DEF M, n
  <2> QED BY <1>0, <1>3, <1>4, CountUp
<1>6. Ok(n)
  <2> HIDE DEF Ok
  <2> QED BY <1>5, <1>0
<1>7. call.end - call.begin <= n + 1
  <2>1. call.begin \in 0..n /\ call.end \in 0..n BY DEF Calls
  <2> QED BY <2>1, <1>0
<1>8. Good(call)
  <2> HIDE DEF Good
  <2> QED BY <1>6, <1>7
<1> QED BY <1>8

\* The merge sort gives the same lines, and in order if they have one.
THEOREM TextMergeSorted ==
  ASSUME NEW seq \in Seq(Line)
  PROVE  /\ MergeSorted(seq) \in Seq(Line)
         /\ IsPermuted(MergeSorted(seq), seq)
         /\ seq \in Seq(Ordinary(numeric)) => IsOrdered(numeric, MergeSorted(seq))
<1> DEFINE n == Len(seq)
           f == CHOOSE g : IsMergesort(g, seq)
           call == [src |-> seq, dst |-> seq, begin |-> 0, end |-> n]
           t == f[call].dst
<1>1. n \in Nat OBVIOUS
<1>2. IsMergesort(f, seq) BY TextMergesortExists
<1>3. MergeSorted(seq) = t
  BY DEF MergeSorted, IsMergesort, LeavesOf, After, LeftCall, RightCall, Calls, Arrays
<1>4. seq \in Arrays(seq) BY DEF Arrays, Range
<1>5. call \in Calls(seq) BY <1>1, <1>4 DEF Calls
<1>6. f[call] \in Pairs(seq) /\ Sorts(f[call], call, n)
  <2> HIDE DEF f, call
  <2> QED BY <1>2, <1>5, TextMergesortSorts
<1>7. t \in Arrays(seq)
  <2> HIDE DEF f, call
  <2> QED BY <1>6 DEF Pairs
<1>8. t \in Seq(Range(seq)) /\ Len(t) = n
  <2> HIDE DEF t
  <2> QED BY <1>7, TextArrays
<1>9. /\ IsPermutedIn(t, seq, 1, n)
      /\ (\A i \in 1..n : seq[i] \in Ordinary(numeric)) => IsOrderedIn(numeric, t, 1, n)
  <2>1. call.begin = 0 /\ call.end = n /\ call.src = seq /\ call.dst = seq OBVIOUS
  <2>2. call.begin + 1 = 1 BY <2>1
  <2> HIDE DEF f, call
  <2> QED BY <1>6, <2>1, <2>2 DEF Sorts
<1> HIDE DEF t
<1>10. PICK p : TakesPart(t, seq, p, 1, n) BY <1>9 DEF IsPermutedIn
<1>11. Takes(t, seq, p) BY <1>8, <1>10 DEF Takes, TakesPart, Permutes
<1>12. t \in Seq(Line)
  <2>1. \A i \in 1..n : t[i] \in Line
    <3>1. \A i \in 1..n : seq[i] \in Line BY ElementOfSeq
    <3> QED BY <3>1, <1>10 DEF TakesPart
  <2> QED BY <2>1, <1>8
<1>13. ASSUME seq \in Seq(Ordinary(numeric)) PROVE IsOrdered(numeric, t)
  <2>1. \A i \in 1..n : seq[i] \in Ordinary(numeric) BY <1>13, ElementOfSeq
  <2> QED BY <2>1, <1>8, <1>9 DEF IsOrdered, IsOrderedIn
<1> QED BY <1>3, <1>11, <1>12, <1>13 DEF IsPermuted

-----------------------------------------------------------------------------
(* The quicksort.                                                          *)

\* All but the last.
LEMMA TextFront ==
  ASSUME NEW T, NEW s \in Seq(T), s # <<>>
  PROVE  /\ Front(s) \in Seq(T) /\ Len(Front(s)) = Len(s) - 1 /\ Len(s) \in Nat /\ Len(s) >= 1
         /\ \A i \in 1..Len(s) - 1 : Front(s)[i] = s[i]
<1>1. Front(s) = SubSeq(s, 1, Len(s) - 1) BY DEF Front
<1>2. Len(s) \in Nat /\ Len(s) >= 1 BY EmptySeq
<1>3. \A i \in 1..Len(s) - 1 : s[i] \in T BY <1>2, ElementOfSeq
<1> DEFINE n == Len(s) - 1
<1>4. n \in Nat BY <1>2
<1> HIDE DEF n
<1>5. \A i \in 1..n : s[i] \in T BY <1>3 DEF n
<1>6. /\ SubSeq(s, 1, n) \in Seq(T)
      /\ Len(SubSeq(s, 1, n)) = IF 1 <= n THEN n - 1 + 1 ELSE 0
      /\ \A i \in 1..n - 1 + 1 : SubSeq(s, 1, n)[i] = s[1 + i - 1]
  BY <1>4, <1>5, SubSeqProperties
<1>7. \A i \in 1..n : i \in 1..n - 1 + 1 /\ 1 + i - 1 = i BY <1>4
<1>8. Len(SubSeq(s, 1, n)) = n BY <1>4, <1>6
<1>9. \A i \in 1..n : SubSeq(s, 1, n)[i] = s[i] BY <1>6, <1>7
<1> QED BY <1>1, <1>2, <1>6, <1>8, <1>9 DEF n

\* One range less.
LEMMA TextApartFront ==
  ASSUME NEW n \in Nat, NEW rs, RangesApart(rs, n), rs # <<>>
  PROVE  RangesApart(Front(rs), n)
<1> DEFINE T == (1..n) \X (1..n)
           fs == Front(rs)
<1>1. rs \in Seq(T) BY DEF RangesApart
<1>2. /\ fs \in Seq(T) /\ Len(fs) = Len(rs) - 1 /\ Len(rs) \in Nat /\ Len(rs) >= 1
      /\ \A i \in 1..Len(rs) - 1 : fs[i] = rs[i]
  <2> HIDE DEF T
  <2> QED BY <1>1, TextFront
<1> HIDE DEF fs
<1>3. \A k \in 1..Len(fs) : k \in 1..Len(rs) /\ fs[k] = rs[k] BY <1>2
<1>4. \A k \in 1..Len(rs) : rs[k][1] <= rs[k][2] BY DEF RangesApart
<1>5. \A k, l \in 1..Len(rs) : \A i \in 1..n : InRange(rs[k], i) /\ InRange(rs[l], i) => k = l
  BY DEF RangesApart
<1>6. \A k \in 1..Len(fs) : fs[k][1] <= fs[k][2] BY <1>3, <1>4
<1>7. ASSUME NEW k \in 1..Len(fs), NEW l \in 1..Len(fs), NEW i \in 1..n,
             InRange(fs[k], i), InRange(fs[l], i)
      PROVE  k = l
  BY <1>3, <1>5, <1>7
<1>8. RangesApart(fs, n) BY <1>2, <1>6, <1>7 DEF RangesApart
<1> QED BY <1>8 DEF fs

\* At first.
LEMMA TextQuickBegins ==
  ASSUME NEW num, NEW s \in Seq(Line), s # <<>>
  PROVE  QuickInv(num, s, s, << <<1, Len(s)>> >>, NoScan, TRUE)
<1> DEFINE n == Len(s)
           rs == << <<1, n>> >>
<1>1. n \in Nat /\ n >= 1 BY EmptySeq
<1>2. RangesApart(rs, n)
  <2>1. <<1, n>> \in (1..n) \X (1..n) BY <1>1
  <2>2. Len(rs) = 1 /\ rs[1] = <<1, n>> OBVIOUS
  <2>3. rs \in Seq((1..n) \X (1..n)) BY <2>1
  <2>4. \A k \in 1..Len(rs) : k = 1 BY <2>2
  <2> HIDE DEF rs, n
  <2> QED BY <1>1, <2>2, <2>3, <2>4 DEF RangesApart
<1>3. OrderedBut(num, s, rs)
  <2>1. Len(rs) = 1 /\ rs[1] = <<1, n>> OBVIOUS
  <2>2. \A i \in 1..n : InRange(rs[1], i) BY <2>1, <1>1 DEF InRange
  <2>3. 1 \in 1..Len(rs) BY <2>1
  <2> HIDE DEF rs
  <2> QED BY <2>2, <2>3 DEF OrderedBut
<1>4. IsPermuted(s, s) BY TextPermutedSelf
<1> QED BY <1>2, <1>3, <1>4 DEF QuickInv, NoScan

\* At the end.
LEMMA TextQuickEnds ==
  ASSUME NEW num, NEW s0, NEW s, NEW sc, NEW sure, QuickInv(num, s0, s, <<>>, sc, sure)
  PROVE  /\ IsPermuted(s, s0)
         /\ sure /\ s0 \in Seq(Ordinary(num)) => IsOrdered(num, s)
<1>1. ASSUME OrderedBut(num, s, <<>>) PROVE IsOrdered(num, s)
  <2>1. ~\E k \in 1..Len(<<>>) : TRUE OBVIOUS
  <2> QED BY <1>1, <2>1 DEF OrderedBut, IsOrdered
<1> QED BY <1>1 DEF QuickInv

\* The range that is next.
LEMMA TextNextRange ==
  ASSUME NEW s0, NEW sure, QuickInv(numeric, s0, lines, ranges, scan, sure), ranges # <<>>
  PROVE  /\ Len(lines) \in Nat /\ Len(ranges) \in Nat /\ Len(ranges) >= 1
         /\ ranges[Len(ranges)] = <<lo, hi>>
         /\ lo \in 1..Len(lines) /\ hi \in 1..Len(lines) /\ lo <= hi
<1>1. ranges \in Seq((1..Len(lines)) \X (1..Len(lines))) /\ Len(lines) \in Nat
  BY DEF QuickInv, RangesApart
<1>2. Len(ranges) \in Nat /\ Len(ranges) >= 1 BY <1>1, EmptySeq
<1>3. Len(ranges) \in 1..Len(ranges) BY <1>2
<1>4. ranges[Len(ranges)] \in (1..Len(lines)) \X (1..Len(lines)) BY <1>1, <1>3, ElementOfSeq
<1>5. lo = ranges[Len(ranges)][1] /\ hi = ranges[Len(ranges)][2] BY DEF lo, hi, NextRange, Last
<1>6. ranges[Len(ranges)][1] <= ranges[Len(ranges)][2] BY <1>3 DEF QuickInv, RangesApart
<1> QED BY <1>1, <1>2, <1>4, <1>5, <1>6

\* The pairs that are in the last range alone need not be told of.
LEMMA TextOrderedFront ==
  ASSUME NEW num, NEW s \in Seq(Line), NEW rs, RangesApart(rs, Len(s)), rs # <<>>,
         OrderedBut(num, s, rs),
         \A i, j \in 1..Len(s) :
           i < j /\ InRange(rs[Len(rs)], i) /\ InRange(rs[Len(rs)], j) => Cmp(num, s[i], s[j]) <= 0
  PROVE  OrderedBut(num, s, Front(rs))
<1>1. /\ Len(Front(rs)) = Len(rs) - 1 /\ Len(rs) \in Nat /\ Len(rs) >= 1
      /\ \A i \in 1..Len(rs) - 1 : Front(rs)[i] = rs[i]
  BY TextFront DEF RangesApart
<1>2. ASSUME NEW i \in 1..Len(s), NEW j \in 1..Len(s), i < j, ~(Cmp(num, s[i], s[j]) <= 0)
      PROVE  \E k \in 1..Len(Front(rs)) : InRange(Front(rs)[k], i) /\ InRange(Front(rs)[k], j)
  <2>1. PICK k \in 1..Len(rs) : InRange(rs[k], i) /\ InRange(rs[k], j) BY <1>2 DEF OrderedBut
  <2>2. k # Len(rs) BY <1>2, <2>1
  <2>3. k \in 1..Len(rs) - 1 BY <1>1, <2>2
  <2> QED BY <1>1, <2>1, <2>3
<1> QED BY <1>2 DEF OrderedBut

\* A range without more than one element.
LEMMA TextQuickSkips ==
  ASSUME NEW s0, NEW sure, QuickInv(numeric, s0, lines, ranges, scan, sure), SkipRange
  PROVE  QuickInv(numeric', s0, lines', ranges', scan', sure)
<1>1. /\ ranges # <<>> /\ ~scan.active /\ lo >= hi
      /\ lines' = lines /\ numeric' = numeric /\ scan' = scan /\ ranges' = Front(ranges)
  BY DEF SkipRange, Sorting
<1>2. /\ ranges[Len(ranges)] = <<lo, hi>> /\ lo \in 1..Len(lines) /\ hi \in 1..Len(lines)
      /\ Len(lines) \in Nat
  BY <1>1, TextNextRange
<1>3. lines \in Seq(Line) /\ RangesApart(ranges, Len(lines)) BY DEF QuickInv
<1>4. RangesApart(Front(ranges), Len(lines)) BY <1>1, <1>2, <1>3, TextApartFront
<1>5. \A i, j \in 1..Len(lines) :
        i < j /\ InRange(ranges[Len(ranges)], i) /\ InRange(ranges[Len(ranges)], j) =>
          Cmp(numeric, lines[i], lines[j]) <= 0
  BY <1>1, <1>2 DEF InRange
<1>6. ASSUME OrderedBut(numeric, lines, ranges) PROVE OrderedBut(numeric, lines, Front(ranges))
  BY <1>1, <1>3, <1>5, <1>6, TextOrderedFront
<1>7. QuickInv(numeric, s0, lines, Front(ranges), scan, sure)
  BY <1>1, <1>4, <1>6 DEF QuickInv
<1> QED BY <1>1, <1>7

\* A range left as it was.
LEMMA TextQuickLeaves ==
  ASSUME NEW s0, NEW sure, QuickInv(numeric, s0, lines, ranges, scan, sure), LeaveShortRange
  PROVE  QuickInv(numeric', s0, lines', ranges', scan', FALSE)
<1>1. /\ ranges # <<>> /\ ~scan.active
      /\ lines' = lines /\ numeric' = numeric /\ scan' = scan /\ ranges' = Front(ranges)
  BY DEF LeaveShortRange, Sorting
<1>2. Len(lines) \in Nat BY <1>1, TextNextRange
<1>3. RangesApart(ranges, Len(lines)) BY DEF QuickInv
<1>4. RangesApart(Front(ranges), Len(lines)) BY <1>1, <1>2, <1>3, TextApartFront
<1>7. QuickInv(numeric, s0, lines, Front(ranges), scan, FALSE)
  BY <1>1, <1>4 DEF QuickInv
<1> QED BY <1>1, <1>7

\* What is taken is of the kind that it is taken from.
LEMMA TextPermutedKind ==
  ASSUME NEW B, NEW C, NEW s \in Seq(B), NEW t \in Seq(C), IsPermuted(t, s)
  PROVE  t \in Seq(B)
<1>1. PICK p : Takes(t, s, p) BY DEF IsPermuted
<1>2. Len(t) = Len(s) /\ \A i \in 1..Len(s) : p[i] \in 1..Len(s) /\ t[i] = s[p[i]]
  BY <1>1 DEF Takes, Permutes
<1>3. \A i \in 1..Len(s) : s[i] \in B BY ElementOfSeq
<1>4. \A i \in 1..Len(t) : t[i] \in B BY <1>2, <1>3
<1>5. t \in [1..Len(t) -> C] /\ Len(t) \in Nat OBVIOUS
<1>6. t \in [1..Len(t) -> B] BY <1>4, <1>5
<1> QED BY <1>5, <1>6

\* A part rearranged, and the rest left.
Rearranged(t, s, i, k) ==
  /\ Len(t) = Len(s)
  /\ IsPermutedIn(t, s, i, k)
  /\ \A j \in 1..Len(s) : j \notin i..k => t[j] = s[j]

\* The whole has the same elements then.
LEMMA TextRearrangedWhole ==
  ASSUME NEW S, NEW s \in Seq(S), NEW t, NEW i \in 1..Len(s), NEW k \in i..Len(s),
         Rearranged(t, s, i, k)
  PROVE  IsPermuted(t, s)
<1> DEFINE n == Len(s)
           a == i - 1
           b == k + 1
<1>1. n \in Nat /\ i \in Int /\ k \in Int /\ 1 <= i /\ i <= k /\ k <= n
  <2>1. n \in Nat OBVIOUS
  <2> QED BY <2>1
<1>a. a \in Int /\ 1 <= a + 1 /\ a + 1 = i /\ a <= k /\ b \in Int /\ 1 <= k + 1 BY <1>1
<1>2. IsPermutedIn(t, s, 1, a)
  <2>1. \A j \in 1..a : t[j] = s[j] BY <1>1 DEF Rearranged
  <2> HIDE DEF a
  <2> QED BY <1>a, <2>1, TextPartSelf
<1>3. IsPermutedIn(t, s, b, n)
  <2>1. \A j \in b..n : t[j] = s[j] BY <1>1 DEF Rearranged
  <2> HIDE DEF b, n
  <2> QED BY <1>a, <1>1, <2>1, TextPartSelf
<1>4. IsPermutedIn(t, s, 1, k)
  <2>1. IsPermutedIn(t, s, a + 1, k) BY <1>a DEF Rearranged
  <2> HIDE DEF a
  <2> QED BY <1>1, <1>a, <1>2, <2>1, TextPartsJoined
<1>5. IsPermutedIn(t, s, 1, n)
  <2> HIDE DEF n
  <2>1. IsPermutedIn(t, s, k + 1, n) BY <1>3
  <2> QED BY <1>1, <1>a, <1>4, <2>1, TextPartsJoined
<1>6. PICK p : TakesPart(t, s, p, 1, n)
  <2> HIDE DEF n
  <2> QED BY <1>5 DEF IsPermutedIn
<1>7. Takes(t, s, p) BY <1>6 DEF Takes, TakesPart, Permutes, Rearranged
<1> QED BY <1>7 DEF IsPermuted

\* What was in order, but for the ranges, is so when one is rearranged.
LEMMA TextRearrangedOrder ==
  ASSUME NEW num, NEW s \in Seq(Line), NEW t, NEW rs, RangesApart(rs, Len(s)),
         NEW k \in 1..Len(rs), Rearranged(t, s, rs[k][1], rs[k][2]), OrderedBut(num, s, rs)
  PROVE  OrderedBut(num, t, rs)
<1> DEFINE n == Len(s)
           l == rs[k][1]
           h == rs[k][2]
<1>1. n \in Nat /\ l \in 1..n /\ h \in 1..n
  <2>1. rs \in Seq((1..n) \X (1..n)) /\ n \in Nat BY DEF RangesApart
  <2>2. rs[k] \in (1..n) \X (1..n)
    <3> HIDE DEF n
    <3> QED BY <2>1, ElementOfSeq
  <2> HIDE DEF n
  <2> QED BY <2>1, <2>2
<1>2. PICK p : TakesPart(t, s, p, l, h) BY DEF Rearranged, IsPermutedIn
<1>3. /\ \A i \in l..h : p[i] \in l..h /\ t[i] = s[p[i]]
      /\ \A i \in 1..n : i \notin l..h => t[i] = s[i]
  BY <1>2 DEF TakesPart, Rearranged
<1>4. \A i \in 1..n : InRange(rs[k], i) <=> i \in l..h BY <1>1 DEF InRange
<1>5. \A x, y \in 1..Len(rs) : \A i \in 1..n : InRange(rs[x], i) /\ InRange(rs[y], i) => x = y
  BY DEF RangesApart
<1>6. \A i, j \in 1..n :
        i < j => (\/ Cmp(num, s[i], s[j]) <= 0
                  \/ \E x \in 1..Len(rs) : InRange(rs[x], i) /\ InRange(rs[x], j))
  BY DEF OrderedBut
<1> HIDE DEF n, l, h
<1>7. ASSUME NEW i \in 1..n, NEW j \in 1..n, i < j,
             ~\E x \in 1..Len(rs) : InRange(rs[x], i) /\ InRange(rs[x], j)
      PROVE  Cmp(num, t[i], t[j]) <= 0
  <2>1. ~(i \in l..h /\ j \in l..h) BY <1>4, <1>7
  <2>2. CASE i \notin l..h /\ j \notin l..h BY <1>3, <1>6, <1>7, <2>2
  <2>3. CASE i \in l..h /\ j \notin l..h
    <3> DEFINE q == p[i]
    <3>1. q \in l..h /\ t[i] = s[q] /\ t[j] = s[j] BY <1>3, <2>3
    <3> HIDE DEF q
    <3>2. q \in 1..n /\ q < j BY <1>1, <1>7, <2>3, <3>1
    <3>3. InRange(rs[k], q) /\ ~InRange(rs[k], j) BY <1>4, <2>3, <3>1, <3>2
    <3>4. ~\E x \in 1..Len(rs) : InRange(rs[x], q) /\ InRange(rs[x], j) BY <1>5, <3>2, <3>3
    <3> QED BY <1>6, <3>1, <3>2, <3>4
  <2>4. CASE i \notin l..h /\ j \in l..h
    <3> DEFINE q == p[j]
    <3>1. q \in l..h /\ t[j] = s[q] /\ t[i] = s[i] BY <1>3, <2>4
    <3> HIDE DEF q
    <3>2. q \in 1..n /\ i < q BY <1>1, <1>7, <2>4, <3>1
    <3>3. InRange(rs[k], q) /\ ~InRange(rs[k], i) BY <1>4, <2>4, <3>1, <3>2
    <3>4. ~\E x \in 1..Len(rs) : InRange(rs[x], i) /\ InRange(rs[x], q) BY <1>5, <3>2, <3>3
    <3> QED BY <1>6, <3>1, <3>2, <3>4
  <2> QED BY <2>1, <2>2, <2>3, <2>4
<1>8. Len(t) = n BY DEF Rearranged, n
<1> QED BY <1>7, <1>8 DEF OrderedBut

\* t is s, with u in the place of the part from i to k.
IsSpliced(t, s, i, k, u, S) ==
  /\ t \in Seq(S) /\ Len(t) = Len(s)
  /\ \A j \in 1..Len(s) : t[j] = IF j \in i..k THEN u[j - i + 1] ELSE s[j]

\* A part put in the place of another of its length.
LEMMA TextSpliced ==
  ASSUME NEW S, NEW s \in Seq(S), NEW i \in 1..Len(s), NEW k \in i..Len(s),
         NEW u \in Seq(S), Len(u) = k - i + 1
  PROVE  IsSpliced(SubSeq(s, 1, i - 1) \o u \o SubSeq(s, k + 1, Len(s)), s, i, k, u, S)
<1> DEFINE n == Len(s)
           a == SubSeq(s, 1, i - 1)
           c == SubSeq(s, k + 1, n)
           t == (a \o u) \o c
<1>1. n \in Nat /\ i \in Int /\ k \in Int /\ 1 <= i /\ i <= k /\ k <= n
  <2>1. n \in Nat OBVIOUS
  <2> QED BY <2>1
<1>2. \A j \in 1..n : s[j] \in S BY ElementOfSeq
<1>3. a \in Seq(S) /\ Len(a) = i - 1 /\ \A j \in 1..i - 1 : a[j] = s[j]
  <2>1. \A j \in 1..i - 1 : s[j] \in S BY <1>1, <1>2
  <2> QED BY <1>1, <2>1, SubSeqProperties
<1>4. c \in Seq(S) /\ Len(c) = n - k /\ \A j \in 1..n - k : c[j] = s[k + j]
  <2>1. \A j \in k + 1..n : s[j] \in S BY <1>1, <1>2
  <2> QED BY <1>1, <2>1, SubSeqProperties
<1> HIDE DEF a, c, n
<1> DEFINE w == a \o u
<1>5. /\ w \in Seq(S) /\ Len(w) = k
      /\ \A j \in 1..k : w[j] = IF j <= i - 1 THEN a[j] ELSE u[j - (i - 1)]
  <2>1. /\ w \in Seq(S) /\ Len(w) = Len(a) + Len(u)
        /\ \A j \in 1..Len(a) + Len(u) : w[j] = IF j <= Len(a) THEN a[j] ELSE u[j - Len(a)]
    BY <1>3, ConcatProperties
  <2>2. Len(a) = i - 1 /\ Len(u) = k - i + 1 /\ Len(a) + Len(u) = k BY <1>1, <1>3
  <2> HIDE DEF w
  <2> QED BY <2>1, <2>2
<1> HIDE DEF w
<1>6. /\ w \o c \in Seq(S) /\ Len(w \o c) = n
      /\ \A j \in 1..n : (w \o c)[j] = IF j <= k THEN w[j] ELSE c[j - k]
  <2>1. /\ w \o c \in Seq(S) /\ Len(w \o c) = Len(w) + Len(c)
        /\ \A j \in 1..Len(w) + Len(c) : (w \o c)[j] = IF j <= Len(w) THEN w[j] ELSE c[j - Len(w)]
    BY <1>4, <1>5, ConcatProperties
  <2>2. Len(w) = k /\ Len(w) + Len(c) = n BY <1>1, <1>4, <1>5
  <2> DEFINE x == w \o c
  <2> HIDE DEF x
  <2>3. /\ x \in Seq(S) /\ Len(x) = Len(w) + Len(c)
        /\ \A j \in 1..Len(w) + Len(c) : x[j] = IF j <= Len(w) THEN w[j] ELSE c[j - Len(w)]
    BY <2>1 DEF x
  <2>4. x \in Seq(S) /\ Len(x) = n /\ \A j \in 1..n : x[j] = IF j <= k THEN w[j] ELSE c[j - k]
    BY <2>2, <2>3
  <2> QED BY <2>4 DEF x
<1>7. t = w \o c BY DEF w
<1>8. ASSUME NEW j \in 1..n PROVE (w \o c)[j] = IF j \in i..k THEN u[j - i + 1] ELSE s[j]
  <2>1. CASE j < i
    <3>1. j \in 1..i - 1 /\ j <= k /\ j \in 1..k /\ j \notin i..k /\ j <= i - 1 BY <1>1, <2>1
    <3> QED BY <3>1, <1>3, <1>5, <1>6
  <2>2. CASE j \in i..k
    <3>1. j \in 1..k /\ j <= k /\ ~(j <= i - 1) /\ j - (i - 1) = j - i + 1 BY <1>1, <2>2
    <3>2. (w \o c)[j] = w[j] BY <1>6, <3>1
    <3>3. w[j] = u[j - (i - 1)] BY <1>5, <3>1
    <3> QED BY <2>2, <3>1, <3>2, <3>3
  <2>3. CASE j > k
    <3>1. ~(j <= k) /\ j - k \in 1..n - k /\ k + (j - k) = j /\ j \notin i..k BY <1>1, <2>3
    <3>2. (w \o c)[j] = c[j - k] BY <1>6, <3>1
    <3>3. c[j - k] = s[k + (j - k)] BY <1>4, <3>1
    <3> QED BY <3>1, <3>2, <3>3
  <2>4. j < i \/ j \in i..k \/ j > k BY <1>1
  <2> QED BY <2>1, <2>2, <2>3, <2>4
<1>9. IsSpliced(w \o c, s, i, k, u, S) BY <1>6, <1>8 DEF IsSpliced, n
<1> QED BY <1>7, <1>9 DEF a, c, n

\* A short range.
LEMMA TextQuickSorts ==
  ASSUME NEW s0, NEW sure, QuickInv(numeric, s0, lines, ranges, scan, sure), SortShortRange
  PROVE  QuickInv(numeric', s0, lines', ranges', scan', sure)
<1> DEFINE n == Len(lines)
           l == lo
           h == hi
           sub == SubSeq(lines, l, h)
           u == InsertSorted(sub)
           t == SubSeq(lines, 1, l - 1) \o u \o SubSeq(lines, h + 1, n)
<1>1. /\ ranges # <<>> /\ ~scan.active
      /\ lines' = t /\ numeric' = numeric /\ scan' = scan /\ ranges' = Front(ranges)
  BY DEF SortShortRange, Sorting
<1>2. /\ n \in Nat /\ Len(ranges) \in Nat /\ Len(ranges) >= 1
      /\ ranges[Len(ranges)] = <<l, h>> /\ l \in 1..n /\ h \in 1..n /\ l <= h
  BY <1>1, TextNextRange
<1>3. lines \in Seq(Line) /\ RangesApart(ranges, n) /\ IsPermuted(lines, s0) /\ s0 \in Seq(Line)
  BY DEF QuickInv
<1> HIDE DEF l, h
<1>4. sub \in Seq(Line) /\ Len(sub) = h - l + 1 /\ \A i \in 1..h - l + 1 : sub[i] = lines[l + i - 1]
  <2>1. \A i \in l..h : lines[i] \in Line BY <1>2, <1>3, ElementOfSeq
  <2>2. /\ SubSeq(lines, l, h) \in Seq(Line)
        /\ Len(SubSeq(lines, l, h)) = IF l <= h THEN h - l + 1 ELSE 0
        /\ \A i \in 1..h - l + 1 : SubSeq(lines, l, h)[i] = lines[l + i - 1]
    <3>1. l \in Int /\ h \in Int BY <1>2
    <3> QED BY <2>1, <3>1, SubSeqProperties
  <2> QED BY <1>2, <2>2
<1> HIDE DEF sub
<1>5. /\ u \in Seq(Line) /\ IsPermuted(u, sub)
      /\ sub \in Seq(Ordinary(numeric)) => IsOrdered(numeric, u)
  BY <1>4, TextInsertSorted
<1> HIDE DEF u
<1>6. PICK p : Takes(u, sub, p) BY <1>5 DEF IsPermuted
<1> DEFINE m == h - l + 1
<1>7. /\ m \in Nat /\ Len(u) = m /\ Len(sub) = m
      /\ \A i \in 1..m : p[i] \in 1..m /\ u[i] = sub[p[i]]
      /\ \A i, j \in 1..m : p[i] = p[j] => i = j
  <2>1. m \in Nat BY <1>2
  <2>2. Len(u) = Len(sub) /\ Permutes(p, Len(sub)) /\ \A i \in 1..Len(sub) : u[i] = sub[p[i]]
    BY <1>6 DEF Takes
  <2>3. Len(sub) = m BY <1>4
  <2> HIDE DEF m
  <2> QED BY <2>1, <2>2, <2>3 DEF Permutes
<1>8. /\ t \in Seq(Line) /\ Len(t) = n
      /\ \A j \in 1..n : t[j] = IF j \in l..h THEN u[j - l + 1] ELSE lines[j]
  <2>1. l \in 1..Len(lines) /\ h \in l..Len(lines) /\ Len(u) = h - l + 1 BY <1>2, <1>7
  <2>2. IsSpliced(SubSeq(lines, 1, l - 1) \o u \o SubSeq(lines, h + 1, Len(lines)), lines, l, h, u, Line)
    <3> HIDE DEF m
    <3> QED BY <1>3, <1>5, <2>1, TextSpliced
  <2> HIDE DEF m
  <2> QED BY <2>2 DEF IsSpliced
<1> HIDE DEF t
<1>9. ASSUME NEW j \in l..h
      PROVE  j \in 1..n /\ j - l + 1 \in 1..m /\ t[j] = u[j - l + 1]
  <2>1. j \in 1..n /\ j - l + 1 \in 1..m BY <1>2
  <2> QED BY <1>8, <2>1
<1> DEFINE q == [j \in l..h |-> p[j - l + 1] + l - 1]
<1>10. TakesPart(t, lines, q, l, h)
  <2>1. ASSUME NEW j \in l..h PROVE q[j] \in l..h /\ t[j] = lines[q[j]]
    <3> DEFINE r == p[j - l + 1]
    <3>1. r \in 1..m /\ u[j - l + 1] = sub[r] BY <1>7, <1>9
    <3>2. q[j] = r + l - 1 OBVIOUS
    <3> HIDE DEF r, q
    <3>3. sub[r] = lines[l + r - 1] BY <1>4, <3>1
    <3>4. r + l - 1 \in l..h /\ r + l - 1 = l + r - 1 BY <1>2, <3>1
    <3> QED BY <1>9, <3>1, <3>2, <3>3, <3>4
  <2>2. ASSUME NEW i \in l..h, NEW j \in l..h, q[i] = q[j] PROVE i = j
    <3>1. p[i - l + 1] \in 1..m /\ p[j - l + 1] \in 1..m BY <1>7, <1>9
    <3>2. p[i - l + 1] + l - 1 = p[j - l + 1] + l - 1 BY <2>2
    <3>3. p[i - l + 1] = p[j - l + 1]
      <4> DEFINE x == p[i - l + 1]
                 y == p[j - l + 1]
      <4> HIDE DEF x, y
      <4>1. x \in Int /\ y \in Int /\ x + l - 1 = y + l - 1 BY <3>1, <3>2, <1>7 DEF x, y
      <4>2. x = y BY <4>1, <1>2
      <4> QED BY <4>2 DEF x, y
    <3>4. i - l + 1 = j - l + 1 BY <1>7, <1>9, <3>3
    <3> QED BY <1>2, <3>4
  <2>3. q \in [l..h -> l..h]
    <3>1. \A j \in l..h : q[j] \in l..h BY <2>1
    <3>2. q = [j \in l..h |-> q[j]] OBVIOUS
    <3> HIDE DEF q
    <3> QED BY <3>1, <3>2
  <2> HIDE DEF q
  <2> QED BY <2>1, <2>2, <2>3 DEF TakesPart
<1>11. Rearranged(t, lines, l, h)
  <2>1. IsPermutedIn(t, lines, l, h)
    <3> HIDE DEF q
    <3> QED BY <1>10 DEF IsPermutedIn
  <2> QED BY <1>8, <2>1 DEF Rearranged
<1>12. IsPermuted(t, s0)
  <2>1. h \in l..Len(lines) BY <1>2
  <2>2. IsPermuted(t, lines)
    <3>1. l \in 1..Len(lines) BY <1>2
    <3> QED BY <1>3, <2>1, <3>1, <1>11, TextRearrangedWhole
  <2> QED BY <1>3, <2>2, TextPermutedTwice
<1>13. ASSUME sure, s0 \in Seq(Ordinary(numeric))
       PROVE  OrderedBut(numeric, t, Front(ranges))
  <2>1. OrderedBut(numeric, lines, ranges) BY <1>13 DEF QuickInv
  <2>2. OrderedBut(numeric, t, ranges)
    <3>1. Rearranged(t, lines, ranges[Len(ranges)][1], ranges[Len(ranges)][2]) BY <1>2, <1>11
    <3>2. Len(ranges) \in 1..Len(ranges) BY <1>2
    <3> QED BY <1>3, <2>1, <3>1, <3>2, TextRearrangedOrder
  <2>3. lines \in Seq(Ordinary(numeric)) BY <1>3, <1>13, TextPermutedKind
  <2>4. sub \in Seq(Ordinary(numeric))
    <3>1. \A i \in 1..m : sub[i] \in Ordinary(numeric)
      <4> TAKE i \in 1..m
      <4>1. l + i - 1 \in 1..n BY <1>2
      <4> QED BY <1>4, <2>3, <4>1, ElementOfSeq
    <3> QED BY <1>4, <3>1, <1>7
  <2>5. IsOrdered(numeric, u) BY <1>5, <2>4
  <2>6. ASSUME NEW i \in 1..n, NEW j \in 1..n,
               i < j, InRange(ranges[Len(ranges)], i), InRange(ranges[Len(ranges)], j)
        PROVE  Cmp(numeric, t[i], t[j]) <= 0
    <3>1. i \in l..h /\ j \in l..h BY <1>2, <2>6 DEF InRange
    <3>2. i - l + 1 \in 1..Len(u) /\ j - l + 1 \in 1..Len(u) /\ t[i] = u[i - l + 1] /\ t[j] = u[j - l + 1]
      BY <1>7, <1>9, <3>1
    <3>3. i - l + 1 < j - l + 1 BY <1>2, <2>6
    <3> QED BY <2>5, <3>2, <3>3 DEF IsOrdered
  <2>7. RangesApart(ranges, Len(t)) BY <1>3, <1>8
  <2>8. \A i, j \in 1..Len(t) :
          i < j /\ InRange(ranges[Len(ranges)], i) /\ InRange(ranges[Len(ranges)], j) =>
            Cmp(numeric, t[i], t[j]) <= 0
    BY <1>8, <2>6
  <2> QED BY <1>1, <1>8, <2>2, <2>7, <2>8, TextOrderedFront
<1>14. RangesApart(Front(ranges), Len(t)) BY <1>1, <1>2, <1>3, <1>8, TextApartFront
<1>15. QuickInv(numeric, s0, t, Front(ranges), scan, sure)
  BY <1>1, <1>3, <1>8, <1>12, <1>13, <1>14 DEF QuickInv
<1> QED BY <1>1, <1>15

\* A line is not before itself.
LEMMA TextEqual ==
  ASSUME NEW num, NEW s \in Line
  PROVE  Cmp(num, s, s) = 0
<1>1. Cmp(num, s, s) \in Int /\ Cmp(num, s, s) = -Cmp(num, s, s) BY TextOpposite
<1> DEFINE c == Cmp(num, s, s)
<1>2. c \in Int /\ c = -c BY <1>1
<1> HIDE DEF c
<1>3. c = 0 BY <1>2
<1> QED BY <1>3 DEF c

\* The partition begins with the element in the middle as pivot.
LEMMA TextQuickPartitions ==
  ASSUME NEW s0, NEW sure, QuickInv(numeric, s0, lines, ranges, scan, sure), BeginPartition
  PROVE  QuickInv(numeric', s0, lines', ranges', scan', sure)
<1> DEFINE m == Midpoint(lo, hi)
           sc == [active |-> TRUE, lhs |-> lo - 1, rhs |-> hi + 1, pivot |-> lines[m]]
<1>1. /\ ranges # <<>> /\ hi - lo >= THRESHOLD
      /\ lines' = lines /\ numeric' = numeric /\ scan' = sc /\ ranges' = ranges
  BY DEF BeginPartition, Sorting
<1>2. /\ Len(lines) \in Nat /\ ranges[Len(ranges)] = <<lo, hi>>
      /\ lo \in 1..Len(lines) /\ hi \in 1..Len(lines) /\ lo <= hi
  BY <1>1, TextNextRange
<1>3. m \in lo..hi - 1 /\ m \in 1..Len(lines)
  <2>1. hi - lo >= 1 BY <1>1, <1>2, ThresholdAssumption
  <2> DEFINE l == lo
             h == hi
  <2>2. l \in Int /\ h \in Int /\ h - l >= 1 /\ m = (l + h) \div 2 BY <1>2, <2>1 DEF Midpoint
  <2> HIDE DEF l, h, m
  <2>3. l <= m /\ m <= h - 1 /\ m \in Int BY <2>2
  <2>4. m \in l..h - 1 BY <2>2, <2>3
  <2>5. l \in 1..Len(lines) /\ h \in 1..Len(lines) BY <1>2 DEF l, h
  <2>6. m \in 1..Len(lines) BY <1>2, <2>3, <2>5
  <2> QED BY <2>4, <2>6 DEF l, h
<1>4. \E i \in 1..Len(s0) : lines[m] = s0[i]
  <2>1. PICK p : Takes(lines, s0, p) BY DEF QuickInv, IsPermuted
  <2>2. m \in 1..Len(s0) BY <1>3, <2>1 DEF Takes
  <2>3. p[m] \in 1..Len(s0) /\ lines[m] = s0[p[m]] BY <2>1, <2>2 DEF Takes, Permutes
  <2> QED BY <2>3
<1> HIDE DEF m
<1>5. ScanOk(numeric, s0, lines, lo, hi, sc)
  <2>1. sc.lhs = lo - 1 /\ sc.rhs = hi + 1 /\ sc.pivot = lines[m] OBVIOUS
  <2>8. sc \in [active : BOOLEAN, lhs : Int, rhs : Int, pivot : Line]
    <3>1. lo - 1 \in Int /\ hi + 1 \in Int /\ lines[m] \in Line
      <4>1. lines \in Seq(Line) BY DEF QuickInv
      <4> QED BY <1>2, <1>3, <4>1, ElementOfSeq
    <3> QED BY <3>1
  <2> DEFINE l == lo
             h == hi
  <2>2. l \in Int /\ h \in Int /\ l <= h BY <1>2
  <2>3. sc.lhs = l - 1 /\ sc.rhs = h + 1 /\ sc.pivot = lines[m] /\ m \in l..h - 1 BY <1>3, <2>1
  <2> HIDE DEF sc, l, h
  <2>4. sc.lhs \in l - 1..h /\ sc.rhs \in l..h + 1 /\ sc.lhs < sc.rhs BY <2>2, <2>3
  <2>5. \A i \in l..sc.lhs : FALSE BY <2>2, <2>3
  <2>6. \A i \in sc.rhs..h : FALSE BY <2>2, <2>3
  <2>7. ScanOk(numeric, s0, lines, l, h, sc) BY <1>4, <2>8, <2>3, <2>4, <2>5, <2>6 DEF ScanOk
  <2> QED BY <2>7 DEF l, h
<1>6. QuickInv(numeric, s0, lines, ranges, sc, sure)
  <2> HIDE DEF sc
  <2> QED BY <1>1, <1>2, <1>5 DEF QuickInv
<1> QED BY <1>1, <1>6

\* The inner loops stop in the range.
LEMMA TextStops ==
  ASSUME NEW s0, NEW sure, QuickInv(numeric, s0, lines, ranges, scan, sure), scan.active
  PROVE  StopsInRange
<1> DEFINE l == lo
           h == hi
           n == Len(lines)
           Less(i) == ~(Compare(lines[i], scan.pivot) >= 0)
           More(i) == ~(Compare(lines[i], scan.pivot) <= 0)
           L == {i \in (scan.lhs + 1)..h : Compare(lines[i], scan.pivot) >= 0} \union {h + 1}
           R == {i \in l..(scan.rhs - 1) : Compare(lines[i], scan.pivot) <= 0} \union {l - 1}
<1>1. /\ ranges # <<>> /\ ScanOk(numeric, s0, lines, ranges[Len(ranges)][1], ranges[Len(ranges)][2], scan)
      /\ s0 \in Seq(Line) /\ lines \in Seq(Line)
  BY DEF QuickInv
<1>2. /\ n \in Nat /\ ranges[Len(ranges)] = <<l, h>>
      /\ l \in 1..n /\ h \in 1..n /\ l <= h
  BY <1>1, TextNextRange
<1>3. NextLeft = Min(L) /\ NextRight = Max(R) BY DEF NextLeft, NextRight
<1> HIDE DEF l, h
<1>4. ScanOk(numeric, s0, lines, l, h, scan) BY <1>1, <1>2
<1>5. /\ scan.lhs \in l - 1..h /\ scan.rhs \in l..h + 1 /\ scan.lhs < scan.rhs
      /\ scan.pivot \in Line
  <2>1. PICK i \in 1..Len(s0) : scan.pivot = s0[i] BY <1>4 DEF ScanOk
  <2>2. scan.pivot \in Line BY <1>1, <2>1, ElementOfSeq
  <2> QED BY <1>4, <2>2 DEF ScanOk
<1> DEFINE a == scan.lhs
           b == scan.rhs
           x == NextLeft
           y == NextRight
<1>6. \A i \in 1..n : Compare(lines[i], scan.pivot) \in Int
  <2> TAKE i \in 1..n
  <2>1. lines[i] \in Line BY <1>1, ElementOfSeq
  <2>2. Cmp(numeric, lines[i], scan.pivot) \in Int BY <1>5, <2>1, TextOpposite
  <2> QED BY <2>2 DEF Compare, Cmp
<1>7. x \in L /\ \A i \in L : x <= i
  <2>1. L \in SUBSET Nat /\ L # {}
    <3>1. \A i \in (scan.lhs + 1)..h : i \in Nat BY <1>2, <1>5
    <3>2. h + 1 \in Nat BY <1>2
    <3> QED BY <3>1, <3>2
  <2> HIDE DEF L
  <2> QED BY <1>3, <2>1, TextMin
<1>8. y \in R /\ \A i \in R : i <= y
  <2>1. R \in SUBSET Int /\ R # {} /\ h + 1 \in Int /\ \A i \in R : i <= h + 1
    <3>1. \A i \in l..(scan.rhs - 1) : i \in Int /\ i <= h + 1 BY <1>2, <1>5
    <3>2. l - 1 \in Int /\ l - 1 <= h + 1 /\ h + 1 \in Int BY <1>2
    <3> QED BY <3>1, <3>2
  <2> HIDE DEF R
  <2> QED BY <1>3, <2>1, TextMax
<1>9. a \in Int /\ b \in Int /\ l \in Int /\ h \in Int /\ a < b /\ a >= l - 1 /\ b <= h + 1 /\ a <= h /\ b >= l
      /\ n \in Nat /\ l >= 1 /\ h <= n
  BY <1>2, <1>5
<1> HIDE DEF x, y, n
<1>10. x \in a + 1..h + 1 /\ y \in l - 1..b - 1 BY <1>7, <1>8, <1>9
<1>11. \A i \in a + 1..h : Compare(lines[i], scan.pivot) >= 0 => x <= i BY <1>7
<1>12. \A i \in l..b - 1 : Compare(lines[i], scan.pivot) <= 0 => i <= y BY <1>8
<1>13. x <= h => Compare(lines[x], scan.pivot) >= 0 BY <1>7, <1>9
<1>14. y >= l => Compare(lines[y], scan.pivot) <= 0 BY <1>8, <1>9
<1>15. /\ \A i \in l..a : Compare(lines[i], scan.pivot) <= 0
       /\ \A i \in b..h : Compare(lines[i], scan.pivot) >= 0
  BY <1>4 DEF ScanOk, Compare, Cmp
<1>16. x <= h /\ y >= l /\ (x >= y => y < h)
  <2>1. CASE a = l - 1 /\ b = h + 1 /\ \E m \in l..h - 1 : scan.pivot = lines[m]
    <3>1. PICK m \in l..h - 1 : scan.pivot = lines[m] BY <2>1
    <3>2. Cmp(numeric, lines[m], scan.pivot) = 0 BY <3>1, <1>5, TextEqual
    <3>3. Compare(lines[m], scan.pivot) = 0 BY <3>2 DEF Compare, Cmp
    <3>4. m \in a + 1..h /\ m \in l..b - 1 BY <2>1, <1>9
    <3>5. x <= m BY <1>11, <3>3, <3>4
    <3>6. m <= y BY <1>12, <3>3, <3>4
    <3> HIDE DEF a, b
    <3>7. m \in Int /\ m <= h - 1 /\ m >= l /\ x \in Int /\ y \in Int BY <1>9, <1>10
    <3>8. x <= h /\ y >= l BY <3>5, <3>6, <3>7, <1>9
    <3>9. x >= y => y < h BY <3>5, <3>6, <3>7, <1>9
    <3> QED BY <3>8, <3>9
  <2>2. CASE l <= a /\ b <= h
    <3> HIDE DEF a, b
    <3>1. b \in a + 1..h /\ b \in b..h /\ a \in l..a /\ a \in l..b - 1 BY <2>2, <1>9
    <3>2. x <= b BY <1>11, <1>15, <3>1
    <3>3. a <= y BY <1>12, <1>15, <3>1
    <3>4. x <= h /\ y >= l /\ y < h BY <2>2, <3>2, <3>3, <1>9, <1>10
    <3> QED BY <3>4
  <2> QED BY <1>4, <2>1, <2>2 DEF ScanOk
<1>17. ASSUME NEW i \in l..x - 1 PROVE Compare(lines[i], scan.pivot) <= 0
  <2>1. CASE i <= a
    <3>1. i \in l..a BY <2>1, <1>9, <1>10
    <3> QED BY <3>1, <1>15
  <2>2. CASE i > a
    <3> HIDE DEF a
    <3>1. i \in a + 1..h /\ i \in 1..n /\ ~(x <= i) BY <2>2, <1>9, <1>10, <1>16
    <3>2. ~(Compare(lines[i], scan.pivot) >= 0) BY <3>1, <1>11
    <3>3. Compare(lines[i], scan.pivot) \in Int BY <3>1, <1>6
    <3> QED BY <3>2, <3>3
  <2> QED BY <2>1, <2>2, <1>9, <1>10
<1>18. ASSUME NEW i \in y + 1..h PROVE Compare(lines[i], scan.pivot) >= 0
  <2>1. CASE i >= b
    <3>1. i \in b..h BY <2>1, <1>9, <1>10
    <3> QED BY <3>1, <1>15
  <2>2. CASE i < b
    <3> HIDE DEF b
    <3>1. i \in l..b - 1 /\ i \in 1..n /\ ~(i <= y) BY <2>2, <1>9, <1>10, <1>16
    <3>2. ~(Compare(lines[i], scan.pivot) <= 0) BY <3>1, <1>12
    <3>3. Compare(lines[i], scan.pivot) \in Int BY <3>1, <1>6
    <3> QED BY <3>2, <3>3
  <2> QED BY <2>1, <2>2, <1>9, <1>10
<1>19. x \in l..h /\ y \in l..h /\ x > a /\ y < b
  <2> HIDE DEF a, b
  <2> QED BY <1>9, <1>10, <1>16
<1> QED BY <1>13, <1>14, <1>16, <1>17, <1>18, <1>19 DEF StopsInRange, x, y, l, h

\* Both elements change places, and the scan goes on.
LEMMA TextQuickSwaps ==
  ASSUME NEW s0, NEW sure, QuickInv(numeric, s0, lines, ranges, scan, sure),
         scan.active, ~(NextLeft >= NextRight)
  PROVE  QuickInv(numeric, s0, Swapped(lines, NextLeft, NextRight), ranges,
                  [scan EXCEPT !.lhs = NextLeft, !.rhs = NextRight], sure)
<1> DEFINE n == Len(lines)
           l == lo
           h == hi
           x == NextLeft
           y == NextRight
           t == Swapped(lines, x, y)
           sc == [scan EXCEPT !.lhs = x, !.rhs = y]
<1>1. /\ ranges # <<>> /\ ScanOk(numeric, s0, lines, ranges[Len(ranges)][1], ranges[Len(ranges)][2], scan)
      /\ s0 \in Seq(Line) /\ lines \in Seq(Line) /\ IsPermuted(lines, s0) /\ RangesApart(ranges, n)
  BY DEF QuickInv
<1>2. /\ n \in Nat /\ ranges[Len(ranges)] = <<l, h>> /\ Len(ranges) \in Nat /\ Len(ranges) >= 1
      /\ l \in 1..n /\ h \in 1..n /\ l <= h
  BY <1>1, TextNextRange
<1>3. /\ x \in l..h /\ y \in l..h
      /\ Compare(lines[x], scan.pivot) >= 0
      /\ Compare(lines[y], scan.pivot) <= 0
      /\ \A i \in l..x - 1 : Compare(lines[i], scan.pivot) <= 0
      /\ \A i \in y + 1..h : Compare(lines[i], scan.pivot) >= 0
  BY TextStops DEF StopsInRange
<1>4. x < y BY <1>2, <1>3
<1> HIDE DEF l, h, x, y
<1>5. ScanOk(numeric, s0, lines, l, h, scan) BY <1>1, <1>2
<1>6. x \in 1..n /\ y \in 1..n /\ l \in Int /\ h \in Int /\ x \in Int /\ y \in Int BY <1>2, <1>3
<1>7. /\ t \in Seq(Line) /\ IsPermuted(t, lines)
      /\ \A k \in 1..n : t[k] = IF k = y THEN lines[x] ELSE IF k = x THEN lines[y] ELSE lines[k]
  BY <1>1, <1>6, TextPermutedSwap
<1> HIDE DEF t
<1>8. Len(t) = n
  <2>1. PICK p : Takes(t, lines, p) BY <1>7 DEF IsPermuted
  <2> QED BY <2>1 DEF Takes
<1>9. Rearranged(t, lines, l, h)
  <2> DEFINE q == [k \in l..h |-> IF k = y THEN x ELSE IF k = x THEN y ELSE k]
  <2>1. q \in [l..h -> l..h] BY <1>3
  <2>2. \A i, j \in l..h : q[i] = q[j] => i = j BY <1>4, <1>6
  <2>3. ASSUME NEW i \in l..h PROVE t[i] = lines[q[i]]
    <3>1. i \in 1..n BY <1>2
    <3>2. t[i] = IF i = y THEN lines[x] ELSE IF i = x THEN lines[y] ELSE lines[i] BY <1>7, <3>1
    <3> QED BY <3>2
  <2>4. TakesPart(t, lines, q, l, h)
    <3> HIDE DEF q
    <3> QED BY <2>1, <2>2, <2>3 DEF TakesPart
  <2>5. IsPermutedIn(t, lines, l, h)
    <3> HIDE DEF q
    <3> QED BY <2>4 DEF IsPermutedIn
  <2>6. \A j \in 1..n : j \notin l..h => t[j] = lines[j] BY <1>3, <1>7
  <2> HIDE DEF n
  <2> QED BY <1>8, <2>5, <2>6 DEF Rearranged, n
<1>10. IsPermuted(t, s0) BY <1>1, <1>7, TextPermutedTwice
<1>11. ASSUME sure, s0 \in Seq(Ordinary(numeric)) PROVE OrderedBut(numeric, t, ranges)
  <2>1. OrderedBut(numeric, lines, ranges) BY <1>11 DEF QuickInv
  <2>2. Rearranged(t, lines, ranges[Len(ranges)][1], ranges[Len(ranges)][2]) BY <1>2, <1>9
  <2>3. Len(ranges) \in 1..Len(ranges) BY <1>2
  <2> QED BY <1>1, <2>1, <2>2, <2>3, TextRearrangedOrder
<1>12. /\ sc.lhs = x /\ sc.rhs = y /\ sc.pivot = scan.pivot
       /\ sc \in [active : BOOLEAN, lhs : Int, rhs : Int, pivot : Line]
  <2>1. scan \in [active : BOOLEAN, lhs : Int, rhs : Int, pivot : Line] BY <1>5 DEF ScanOk
  <2> QED BY <1>6, <2>1
<1> HIDE DEF sc
<1>13. ScanOk(numeric, s0, t, l, h, sc)
  <2>1. \E i \in 1..Len(s0) : sc.pivot = s0[i] BY <1>5, <1>12 DEF ScanOk
  <2>2. ASSUME NEW i \in l..x PROVE Cmp(numeric, t[i], sc.pivot) <= 0
    <3>1. i \in 1..n /\ i # y /\ i \in Int BY <1>2, <1>3, <1>4, <1>6
    <3>2. t[i] = IF i = x THEN lines[y] ELSE lines[i] BY <1>7, <3>1
    <3>3. i # x => i \in l..x - 1 BY <1>6
    <3>4. Compare(t[i], scan.pivot) <= 0 BY <1>3, <3>2, <3>3
    <3> QED BY <3>4, <1>12 DEF Compare, Cmp
  <2>3. ASSUME NEW i \in y..h PROVE Cmp(numeric, t[i], sc.pivot) >= 0
    <3>1. i \in 1..n /\ i # x /\ i \in Int BY <1>2, <1>3, <1>4, <1>6
    <3>2. t[i] = IF i = y THEN lines[x] ELSE lines[i] BY <1>7, <3>1
    <3>3. i # y => i \in y + 1..h BY <1>6
    <3>4. Compare(t[i], scan.pivot) >= 0 BY <1>3, <3>2, <3>3
    <3> QED BY <3>4, <1>12 DEF Compare, Cmp
  <2>4. sc.lhs \in l - 1..h /\ sc.rhs \in l..h + 1 /\ sc.lhs < sc.rhs /\ l <= sc.lhs /\ sc.rhs <= h
    BY <1>3, <1>4, <1>6, <1>12
  <2>5. \A i \in l..sc.lhs : Cmp(numeric, t[i], sc.pivot) <= 0 BY <2>2, <1>12
  <2>6. \A i \in sc.rhs..h : Cmp(numeric, t[i], sc.pivot) >= 0 BY <2>3, <1>12
  <2> QED BY <2>1, <2>4, <2>5, <2>6, <1>12 DEF ScanOk
<1>14. QuickInv(numeric, s0, t, ranges, sc, sure)
  <2>1. ScanOk(numeric, s0, t, ranges[Len(ranges)][1], ranges[Len(ranges)][2], sc) BY <1>2, <1>13
  <2> QED BY <1>1, <1>7, <1>8, <1>10, <1>11, <2>1 DEF QuickInv
<1> QED BY <1>14 DEF t, sc, x, y

\* Both parts of a range are apart from each other and from the rest.
LEMMA TextApartSplit ==
  ASSUME NEW n \in Nat, NEW rs, RangesApart(rs, n), rs # <<>>,
         NEW qs \in Seq((1..n) \X (1..n)), NEW l \in 1..n, NEW m \in 1..n, NEW h \in 1..n,
         IsSplit(qs, rs, l, m, h)
  PROVE  RangesApart(qs, n)
<1> DEFINE z == Len(rs)
<1>1. rs \in Seq((1..n) \X (1..n)) BY DEF RangesApart
<1>2. z \in Nat /\ z >= 1 BY <1>1, EmptySeq
<1>3. /\ Len(qs) = z + 1 /\ rs[z] = <<l, h>> /\ l <= m /\ m < h
      /\ \A k \in 1..z - 1 : qs[k] = rs[k]
      /\ qs[z] = <<m + 1, h>> /\ qs[z + 1] = <<l, m>>
  BY DEF IsSplit
<1>4. /\ \A k \in 1..z : rs[k][1] <= rs[k][2]
      /\ \A k, j \in 1..z : \A i \in 1..n : InRange(rs[k], i) /\ InRange(rs[j], i) => k = j
  BY DEF RangesApart
<1> HIDE DEF z
<1>5. ASSUME NEW k \in 1..z + 1
      PROVE  \/ k \in 1..z - 1 /\ k # z /\ k \in 1..z /\ qs[k] = rs[k]
             \/ k = z /\ qs[k] = <<m + 1, h>>
             \/ k = z + 1 /\ qs[k] = <<l, m>>
  <2>1. k \in 1..z - 1 \/ k = z \/ k = z + 1 BY <1>2
  <2>2. k \in 1..z - 1 => k # z /\ k \in 1..z BY <1>2
  <2> QED BY <2>1, <2>2, <1>3
<1>6. ASSUME NEW k \in 1..z + 1 PROVE qs[k][1] <= qs[k][2]
  <2>1. l <= m /\ m + 1 <= h BY <1>3
  <2> QED BY <1>4, <1>5, <2>1
<1>7. ASSUME NEW i \in 1..n PROVE ~(InRange(<<m + 1, h>>, i) /\ InRange(<<l, m>>, i))
  BY DEF InRange
<1>8. ASSUME NEW i \in 1..n, InRange(<<m + 1, h>>, i) \/ InRange(<<l, m>>, i)
      PROVE  InRange(rs[z], i)
  <2>1. InRange(<<l, h>>, i) BY <1>3, <1>8 DEF InRange
  <2> QED BY <2>1, <1>3
<1>9. z \in 1..z BY <1>2
<1>10. ASSUME NEW k \in 1..z + 1, NEW j \in 1..z + 1, NEW i \in 1..n,
              InRange(qs[k], i), InRange(qs[j], i)
       PROVE  k = j
  <2>1. CASE k \in 1..z - 1 /\ k # z /\ k \in 1..z /\ qs[k] = rs[k]
    <3>1. CASE j \in 1..z - 1 /\ j # z /\ j \in 1..z /\ qs[j] = rs[j] BY <2>1, <3>1, <1>4, <1>10
    <3>2. CASE j \in {z, z + 1} /\ qs[j] \in {<<m + 1, h>>, <<l, m>>}
      <4>1. InRange(rs[z], i) BY <3>2, <1>8, <1>10
      <4> QED BY <2>1, <4>1, <1>4, <1>9, <1>10
    <3> QED BY <3>1, <3>2, <1>5
  <2>2. CASE k \in {z, z + 1} /\ qs[k] \in {<<m + 1, h>>, <<l, m>>}
    <3>0. InRange(rs[z], i) BY <2>2, <1>8, <1>10
    <3>1. CASE j \in 1..z - 1 /\ j # z /\ j \in 1..z /\ qs[j] = rs[j] BY <3>0, <3>1, <1>4, <1>9, <1>10
    <3>2. CASE j \in {z, z + 1} /\ qs[j] \in {<<m + 1, h>>, <<l, m>>}
      <4>1. qs[z] = <<m + 1, h>> /\ qs[z + 1] = <<l, m>> BY <1>3
      <4>2. ~(InRange(qs[z], i) /\ InRange(qs[z + 1], i)) BY <4>1, <1>7
      <4>3. ~(k = z /\ j = z + 1) BY <4>2, <1>10
      <4>4. ~(k = z + 1 /\ j = z) BY <4>2, <1>10
      <4>5. (k = z \/ k = z + 1) /\ (j = z \/ j = z + 1) BY <2>2, <3>2
      <4> QED BY <4>3, <4>4, <4>5
    <3> QED BY <3>1, <3>2, <1>5
  <2> QED BY <2>1, <2>2, <1>5
<1>11. Len(qs) = z + 1 BY <1>3
<1> QED BY <1>6, <1>10, <1>11 DEF RangesApart

\* What is in one part or the other is in order, if the pivot is between them.
LEMMA TextOrderedSplit ==
  ASSUME NEW num, NEW s \in Seq(Ordinary(num)), NEW rs, RangesApart(rs, Len(s)), rs # <<>>,
         NEW qs, NEW l \in 1..Len(s), NEW m \in 1..Len(s), NEW h \in 1..Len(s),
         IsSplit(qs, rs, l, m, h), OrderedBut(num, s, rs), NEW pivot \in Ordinary(num),
         \A i \in l..m : Cmp(num, s[i], pivot) <= 0,
         \A i \in m + 1..h : Cmp(num, s[i], pivot) >= 0
  PROVE  OrderedBut(num, s, qs)
<1> DEFINE n == Len(s)
           z == Len(rs)
<1>1. rs \in Seq((1..n) \X (1..n)) /\ n \in Nat BY DEF RangesApart
<1>2. z \in Nat /\ z >= 1 BY <1>1, EmptySeq
<1>3. /\ Len(qs) = z + 1 /\ rs[z] = <<l, h>> /\ l <= m /\ m < h
      /\ \A k \in 1..z - 1 : qs[k] = rs[k]
      /\ qs[z] = <<m + 1, h>> /\ qs[z + 1] = <<l, m>>
  BY DEF IsSplit
<1>4. \A i \in 1..n : s[i] \in Ordinary(num) BY ElementOfSeq
<1>5. \A i, j \in 1..n :
        i < j => (\/ Cmp(num, s[i], s[j]) <= 0
                  \/ \E k \in 1..z : InRange(rs[k], i) /\ InRange(rs[k], j))
  BY DEF OrderedBut
<1> HIDE DEF n, z
<1>6. ASSUME NEW i \in 1..n, NEW j \in 1..n, i < j, ~(Cmp(num, s[i], s[j]) <= 0)
      PROVE  \E k \in 1..z + 1 : InRange(qs[k], i) /\ InRange(qs[k], j)
  <2>1. PICK k \in 1..z : InRange(rs[k], i) /\ InRange(rs[k], j) BY <1>5, <1>6
  <2>2. CASE k # z
    <3>1. k \in 1..z - 1 /\ k \in 1..z + 1 BY <1>2, <2>2
    <3> QED BY <3>1, <2>1, <1>3
  <2>3. CASE k = z
    <3>1. InRange(<<l, h>>, i) /\ InRange(<<l, h>>, j) BY <2>1, <2>3, <1>3
    <3>2. l <= i /\ i <= h /\ l <= j /\ j <= h BY <3>1 DEF InRange
    <3>3. CASE j <= m
      <4>1. InRange(<<l, m>>, i) /\ InRange(<<l, m>>, j) BY <3>2, <3>3, <1>6, <1>1 DEF InRange
      <4>2. z + 1 \in 1..z + 1 BY <1>2
      <4> QED BY <4>1, <4>2, <1>3
    <3>4. CASE i > m
      <4>1. InRange(<<m + 1, h>>, i) /\ InRange(<<m + 1, h>>, j) BY <3>2, <3>4, <1>6, <1>1 DEF InRange
      <4>2. z \in 1..z + 1 BY <1>2
      <4> QED BY <4>1, <4>2, <1>3
    <3>5. CASE i <= m /\ j > m
      <4>1. i \in l..m /\ j \in m + 1..h BY <3>2, <3>5
      <4>2. Cmp(num, s[i], pivot) <= 0 /\ Cmp(num, s[j], pivot) >= 0 BY <4>1
      <4>3. s[i] \in Ordinary(num) /\ s[j] \in Ordinary(num) BY <1>4
      <4>4. Cmp(num, pivot, s[j]) <= 0
        <5>1. s[j] \in Line /\ pivot \in Line BY <4>3 DEF Ordinary
        <5>2. Cmp(num, s[j], pivot) \in Int /\ Cmp(num, pivot, s[j]) = -Cmp(num, s[j], pivot)
          BY <5>1, TextOpposite
        <5> QED BY <4>2, <5>2
      <4>5. Cmp(num, s[i], s[j]) <= 0 BY <4>2, <4>3, <4>4, TextTransitive
      <4> QED BY <4>5, <1>6
    <3> QED BY <3>3, <3>4, <3>5
  <2> QED BY <2>2, <2>3
<1> QED BY <1>3, <1>6 DEF OrderedBut, n

\* The scans have met.
LEMMA TextQuickSplits ==
  ASSUME NEW s0, NEW sure, QuickInv(numeric, s0, lines, ranges, scan, sure),
         scan.active, NextLeft >= NextRight
  PROVE  QuickInv(numeric, s0, lines, Front(ranges) \o Parts, NoScan, sure)
<1> DEFINE n == Len(lines)
           T == (1..n) \X (1..n)
           l == lo
           h == hi
           x == NextLeft
           y == NextRight
           fs == Front(ranges)
           ps == Parts
           qs == fs \o ps
           z == Len(ranges)
<1>1. /\ ranges # <<>> /\ ScanOk(numeric, s0, lines, ranges[Len(ranges)][1], ranges[Len(ranges)][2], scan)
      /\ s0 \in Seq(Line) /\ lines \in Seq(Line) /\ IsPermuted(lines, s0) /\ RangesApart(ranges, n)
  BY DEF QuickInv
<1>2. /\ n \in Nat /\ ranges[z] = <<l, h>> /\ z \in Nat /\ z >= 1
      /\ l \in 1..n /\ h \in 1..n /\ l <= h
  BY <1>1, TextNextRange
<1>3. /\ x \in l..h /\ y \in l..h /\ x >= y /\ y < h
      /\ Compare(lines[y], scan.pivot) <= 0
      /\ \A i \in l..x - 1 : Compare(lines[i], scan.pivot) <= 0
      /\ \A i \in y + 1..h : Compare(lines[i], scan.pivot) >= 0
  BY TextStops DEF StopsInRange
<1>4. ps = << <<y + 1, h>>, <<l, y>> >> BY DEF Parts
<1> HIDE DEF l, h, x, y, ps
<1>5. y \in 1..n /\ y + 1 \in 1..n /\ y \in Int /\ l <= y BY <1>2, <1>3
<1>6. /\ fs \in Seq(T) /\ Len(fs) = z - 1 /\ \A i \in 1..z - 1 : fs[i] = ranges[i]
  <2>1. ranges \in Seq(T) BY <1>1 DEF RangesApart
  <2> HIDE DEF T
  <2> QED BY <1>1, <2>1, TextFront
<1>7. ps \in Seq(T) /\ Len(ps) = 2 /\ ps[1] = <<y + 1, h>> /\ ps[2] = <<l, y>>
  <2>1. <<y + 1, h>> \in T /\ <<l, y>> \in T BY <1>2, <1>5
  <2> HIDE DEF T
  <2> QED BY <1>4, <2>1
<1> HIDE DEF fs, z, T
<1>8. /\ qs \in Seq(T) /\ Len(qs) = z + 1
      /\ \A i \in 1..z - 1 : qs[i] = ranges[i]
      /\ qs[z] = <<y + 1, h>> /\ qs[z + 1] = <<l, y>>
  <2>1. /\ qs \in Seq(T) /\ Len(qs) = Len(fs) + Len(ps)
        /\ \A i \in 1..Len(fs) + Len(ps) : qs[i] = IF i <= Len(fs) THEN fs[i] ELSE ps[i - Len(fs)]
    <3>1. fs \in Seq(T) /\ ps \in Seq(T) BY <1>6, <1>7
    <3> QED BY <3>1, ConcatProperties
  <2> HIDE DEF qs
  <2>2. \A i \in 1..z + 1 : qs[i] = IF i <= z - 1 THEN fs[i] ELSE ps[i - (z - 1)]
    BY <1>2, <1>6, <1>7, <2>1
  <2>3. Len(qs) = z + 1 BY <1>2, <1>6, <1>7, <2>1
  <2>4. ASSUME NEW i \in 1..z - 1 PROVE qs[i] = ranges[i]
    <3>1. i \in 1..z + 1 /\ i <= z - 1 BY <1>2
    <3> QED BY <3>1, <2>2, <1>6
  <2>5. qs[z] = ps[1]
    <3>1. z \in 1..z + 1 /\ ~(z <= z - 1) /\ z - (z - 1) = 1 BY <1>2
    <3> QED BY <3>1, <2>2
  <2>6. qs[z + 1] = ps[2]
    <3>1. z + 1 \in 1..z + 1 /\ ~(z + 1 <= z - 1) /\ (z + 1) - (z - 1) = 2 BY <1>2
    <3> QED BY <3>1, <2>2
  <2> QED BY <2>1, <2>3, <2>4, <2>5, <2>6, <1>7
<1> HIDE DEF qs
<1>9. IsSplit(qs, ranges, l, y, h) BY <1>2, <1>3, <1>5, <1>8 DEF IsSplit, z
<1>10. RangesApart(qs, n)
  <2> HIDE DEF n
  <2>1. qs \in Seq((1..n) \X (1..n)) BY <1>8 DEF T
  <2> QED BY <1>1, <1>2, <1>5, <1>9, <2>1, TextApartSplit
<1>11. ASSUME sure, s0 \in Seq(Ordinary(numeric)) PROVE OrderedBut(numeric, lines, qs)
  <2>1. OrderedBut(numeric, lines, ranges) BY <1>11 DEF QuickInv
  <2>2. lines \in Seq(Ordinary(numeric)) BY <1>1, <1>11, TextPermutedKind
  <2>3. scan.pivot \in Ordinary(numeric)
    <3>1. PICK i \in 1..Len(s0) : scan.pivot = s0[i] BY <1>1 DEF ScanOk
    <3> QED BY <3>1, <1>11, ElementOfSeq
  <2>4. ASSUME NEW i \in l..y PROVE Cmp(numeric, lines[i], scan.pivot) <= 0
    <3>1. i = y \/ i \in l..x - 1 BY <1>2, <1>3, <1>5
    <3>2. Compare(lines[i], scan.pivot) <= 0 BY <1>3, <3>1
    <3> QED BY <3>2 DEF Compare, Cmp
  <2>5. ASSUME NEW i \in y + 1..h PROVE Cmp(numeric, lines[i], scan.pivot) >= 0
    <3>1. Compare(lines[i], scan.pivot) >= 0 BY <1>3
    <3> QED BY <3>1 DEF Compare, Cmp
  <2>6. l \in 1..Len(lines) /\ y \in 1..Len(lines) /\ h \in 1..Len(lines) /\ RangesApart(ranges, Len(lines))
    BY <1>1, <1>2, <1>5
  <2> HIDE DEF n
  <2> QED BY <1>1, <2>1, <2>2, <2>3, <2>4, <2>5, <2>6, <1>9, TextOrderedSplit, SMTT(30)
<1>12. ~NoScan.active BY DEF NoScan
<1>13. QuickInv(numeric, s0, lines, qs, NoScan, sure) BY <1>1, <1>10, <1>11, <1>12 DEF QuickInv
<1> QED BY <1>13 DEF qs, fs, ps

\* A turn of the loop.
LEMMA TextQuickScans ==
  ASSUME NEW s0, NEW sure, QuickInv(numeric, s0, lines, ranges, scan, sure), ScanInward
  PROVE  QuickInv(numeric', s0, lines', ranges', scan', sure)
<1>1. scan.active /\ numeric' = numeric BY DEF ScanInward
<1>2. CASE NextLeft >= NextRight
  <2>1. lines' = lines /\ ranges' = Front(ranges) \o Parts /\ scan' = NoScan
    BY <1>2 DEF ScanInward
  <2> QED BY <1>1, <1>2, <2>1, TextQuickSplits
<1>3. CASE ~(NextLeft >= NextRight)
  <2>1. /\ lines' = Swapped(lines, NextLeft, NextRight) /\ ranges' = ranges
        /\ scan' = [scan EXCEPT !.lhs = NextLeft, !.rhs = NextRight]
    BY <1>3 DEF ScanInward
  <2> QED BY <1>1, <1>3, <2>1, TextQuickSwaps
<1> QED BY <1>2, <1>3

-----------------------------------------------------------------------------
(* The places where a pattern is cut out.                                  *)

\* t is what s has from after the place b up to the place e.
IsPart(t, s, b, e) == Len(t) = e - b /\ \A i \in 1..e - b : t[i] = s[b + i]

\* A part of a sequence.
LEMMA TextPart ==
  ASSUME NEW S, NEW s \in Seq(S), NEW b \in Nat, NEW e \in Nat, b <= e, e <= Len(s)
  PROVE  SubSeq(s, b + 1, e) \in Seq(S) /\ IsPart(SubSeq(s, b + 1, e), s, b, e)
<1>1. Len(s) \in Nat OBVIOUS
<1>2. ASSUME NEW i \in b + 1..e PROVE s[i] \in S
  <2>1. i \in 1..Len(s) BY <1>1
  <2> QED BY <2>1, ElementOfSeq
<1> DEFINE t == SubSeq(s, b + 1, e)
<1>3. /\ t \in Seq(S) /\ Len(t) = IF b + 1 <= e THEN e - (b + 1) + 1 ELSE 0
      /\ \A i \in 1..e - (b + 1) + 1 : t[i] = s[b + 1 + i - 1]
  BY <1>2, SubSeqProperties
<1> HIDE DEF t
<1>4. e - (b + 1) + 1 = e - b /\ (~(b + 1 <= e) => e - b = 0) OBVIOUS
<1>5. \A i \in 1..e - b : b + 1 + i - 1 = b + i OBVIOUS
<1>6. t \in Seq(S) /\ Len(t) = e - b BY <1>3, <1>4
<1>7. \A i \in 1..e - b : t[i] = s[b + i] BY <1>3, <1>4, <1>5
<1> QED BY <1>6, <1>7 DEF IsPart, t

\* Two sequences that are the same part are the same.
LEMMA TextPartEqual ==
  ASSUME NEW S, NEW t \in Seq(S), NEW u \in Seq(S), NEW s, NEW b, NEW e,
         IsPart(t, s, b, e), IsPart(u, s, b, e)
  PROVE  t = u
BY SeqEqual DEF IsPart

\* The pattern is n bytes after the beginning.
IsAt(bytes, pattern, n) ==
  n \in 0..(Len(bytes) - Len(pattern)) /\ \A i \in 1..Len(pattern) : bytes[n + i] = pattern[i]

\* Patterns that are not empty, and where they are found.
LEMMA TextFoundAt ==
  ASSUME NEW S, NEW bytes \in Seq(S), NEW pattern \in Seq(S), pattern # <<>>, NEW n
  PROVE  n \in FoundAt(bytes, pattern) <=> IsAt(bytes, pattern, n)
<1> DEFINE len == Len(pattern)
           top == Len(bytes) - len
           part == SubSeq(bytes, n + 1, n + len)
<1>1. len \in Nat /\ len >= 1 /\ Len(bytes) \in Nat /\ top \in Int BY EmptySeq
<1>2. n \in FoundAt(bytes, pattern) <=> n \in 0..top /\ part = pattern BY DEF FoundAt
<1>3. ASSUME n \in 0..top
      PROVE  part = pattern <=> \A i \in 1..len : bytes[n + i] = pattern[i]
  <2>1. n \in Nat /\ n + len \in Nat /\ n <= n + len /\ n + len <= Len(bytes) /\ n + len - n = len
    BY <1>1, <1>3
  <2>4. part \in Seq(S) /\ IsPart(part, bytes, n, n + len)
    <3> HIDE DEF len
    <3> QED BY <2>1, TextPart
  <2>5. len \in Nat BY <1>1
  <2> HIDE DEF part, len
  <2>6. part \in Seq(S) /\ Len(part) = len /\ \A i \in 1..len : part[i] = bytes[n + i]
    <3>1. \A m \in Int : m = n + len => (m - n = len) BY <2>1, <2>5
    <3>2. PICK m \in Int : m = n + len BY <2>1
    <3>3. m - n = len BY <3>1, <3>2
    <3>4. part \in Seq(S) /\ IsPart(part, bytes, n, m) BY <2>4, <3>2
    <3> QED BY <3>3, <3>4 DEF IsPart
  <2>8. ASSUME \A i \in 1..len : part[i] = pattern[i] PROVE part = pattern
    BY <2>6, <2>8, SeqEqual DEF len
  <2> QED BY <2>6, <2>8
<1> QED BY <1>2, <1>3 DEF IsAt

\* What is known of Cuts.
IsCuts(cuts, bytes, pattern) ==
  /\ cuts \in SUBSET FoundAt(bytes, pattern)
  /\ \A n \in FoundAt(bytes, pattern) :
       n \in cuts <=> ~\E m \in cuts : m < n /\ n < m + Len(pattern)

\* There are such cuts.
LEMMA TextCutsExist ==
  ASSUME NEW S, NEW bytes \in Seq(S), NEW pattern \in Seq(S), pattern # <<>>
  PROVE  IsCuts(Cuts(bytes, pattern), bytes, pattern)
<1> DEFINE F == FoundAt(bytes, pattern)
           n == Len(bytes) + 1
           len == Len(pattern)
           To(C, k) == /\ \A c \in C : c \in F /\ c < k
                       /\ \A f \in F : f < k => (f \in C <=> ~\E m \in C : m < f /\ f < m + len)
           M == {k \in 0..n : \E C : To(C, k)}
<1>1. n \in Nat /\ len \in Nat /\ len >= 1 BY EmptySeq
<1>2. \A f \in F : f \in 0..n - 1
  <2> TAKE f \in F
  <2>1. f \in 0..(Len(bytes) - Len(pattern)) BY TextFoundAt DEF IsAt
  <2> QED BY <2>1, <1>1
<1> HIDE DEF F, n, len
<1>3. 0 \in M
  <2>1. \A f \in F : ~(f < 0) BY <1>1, <1>2
  <2>2. To({}, 0) BY <2>1
  <2> HIDE DEF To
  <2> QED BY <1>1, <2>2
<1>4. ASSUME NEW k \in 0..n - 1, k \in M PROVE k + 1 \in M
  <2>1. k \in Nat /\ k + 1 \in 0..n BY <1>1
  <2>2. PICK C : To(C, k)
    <3> HIDE DEF To
    <3> QED BY <1>4
  <2>3. /\ \A c \in C : c \in F /\ c < k /\ c # k /\ c \in Int
        /\ \A f \in F : f < k => (f \in C <=> ~\E m \in C : m < f /\ f < m + len)
    BY <2>1, <2>2, <1>1, <1>2
  <2>4. \A f \in F : f < k + 1 => f < k \/ f = k BY <2>1, <1>1, <1>2
  <2>5. \A c \in C : c < k + 1 BY <2>1, <2>3
  <2>6. CASE k \in F /\ ~\E m \in C : m < k /\ k < m + len
    <3> DEFINE D == C \union {k}
    <3>1. \A c \in D : c \in F /\ c < k + 1 BY <2>1, <2>3, <2>5, <2>6
    <3>2. ASSUME NEW f \in F, f < k + 1
          PROVE  f \in D <=> ~\E m \in D : m < f /\ f < m + len
      <4>1. CASE f = k
        <5>1. ~(k < k) BY <2>1
        <5> QED BY <4>1, <5>1, <2>6
      <4>2. CASE f < k
        <5>1. ~(k < f) /\ f # k BY <4>2, <2>1, <1>1, <1>2
        <5> QED BY <4>2, <5>1, <2>3
      <4> QED BY <4>1, <4>2, <3>2, <2>4
    <3>3. To(D, k + 1)
      <4> HIDE DEF D
      <4> QED BY <3>1, <3>2
    <3> HIDE DEF To, D
    <3> QED BY <2>1, <3>3
  <2>7. CASE ~(k \in F /\ ~\E m \in C : m < k /\ k < m + len)
    <3>1. To(C, k + 1)
      <4>1. ASSUME NEW f \in F, f < k + 1
            PROVE  f \in C <=> ~\E m \in C : m < f /\ f < m + len
        <5>1. CASE f = k BY <5>1, <2>3, <2>7
        <5>2. CASE f < k BY <5>2, <2>3
        <5> QED BY <5>1, <5>2, <4>1, <2>4
      <4> QED BY <4>1, <2>3, <2>5
    <3> HIDE DEF To
    <3> QED BY <2>1, <3>1
  <2> QED BY <2>6, <2>7
<1>5. 0..n \subseteq M
  <2> HIDE DEF M
  <2> QED BY <1>1, <1>3, <1>4, CountUp
<1>6. PICK C : To(C, n)
  <2> HIDE DEF To
  <2>1. n \in M BY <1>1, <1>5
  <2> QED BY <2>1
<1>7. \A f \in F : f < n BY <1>1, <1>2
<1>8. C \in SUBSET F /\ \A f \in F : f \in C <=> ~\E m \in C : m < f /\ f < m + len
  BY <1>6, <1>7
<1>9. \E cuts \in SUBSET FoundAt(bytes, pattern) :
        \A f \in FoundAt(bytes, pattern) :
          f \in cuts <=> ~\E m \in cuts : m < f /\ f < m + Len(pattern)
  BY <1>8 DEF F, len
<1> QED BY <1>9 DEF Cuts, IsCuts

\* The cuts, their number, and what is before one.
LEMMA TextCuts ==
  ASSUME NEW S, NEW bytes \in Seq(S), NEW pattern \in Seq(S), pattern # <<>>,
         NEW cuts, IsCuts(cuts, bytes, pattern)
  PROVE  /\ Len(pattern) \in Nat /\ Len(pattern) >= 1 /\ Len(bytes) \in Nat
         /\ FoundAt(bytes, pattern) \in SUBSET Nat
         /\ \A n \in FoundAt(bytes, pattern) : n + Len(pattern) <= Len(bytes)
         /\ IsFiniteSet(cuts) /\ cuts \in SUBSET Nat
<1> DEFINE F == FoundAt(bytes, pattern)
<1>1. Len(pattern) \in Nat /\ Len(pattern) >= 1 /\ Len(bytes) \in Nat BY EmptySeq
<1>2. \A f \in F : f \in 0..(Len(bytes) - Len(pattern)) BY TextFoundAt DEF IsAt
<1>3. \A f \in F : f \in Nat /\ f + Len(pattern) <= Len(bytes) /\ f \in 0..Len(bytes)
  <2> HIDE DEF F
  <2> QED BY <1>1, <1>2
<1>4. cuts \in SUBSET F BY DEF IsCuts
<1>5. IsFiniteSet(0..Len(bytes)) BY <1>1, FS_Interval
<1>6. cuts \in SUBSET (0..Len(bytes)) BY <1>3, <1>4
<1>7. IsFiniteSet(cuts) BY <1>5, <1>6, FS_Subset
<1> HIDE DEF F
<1> QED BY <1>1, <1>3, <1>4, <1>7 DEF F

\* Ranks are numbers, no more than there are cuts.
LEMMA TextRank ==
  ASSUME NEW cuts \in SUBSET Nat, IsFiniteSet(cuts), NEW n
  PROVE  /\ IsFiniteSet({d \in cuts : d < n}) /\ Rank(cuts, n) \in Nat
         /\ Cardinality(cuts) \in Nat /\ Rank(cuts, n) <= Cardinality(cuts)
<1> DEFINE D == {d \in cuts : d < n}
<1>1. D \in SUBSET cuts OBVIOUS
<1>2. IsFiniteSet(D) /\ Cardinality(D) <= Cardinality(cuts)
  <2> HIDE DEF D
  <2> QED BY <1>1, FS_Subset
<1>3. Cardinality(D) \in Nat /\ Cardinality(cuts) \in Nat
  <2> HIDE DEF D
  <2> QED BY <1>2, FS_CardinalityType
<1> QED BY <1>2, <1>3 DEF Rank

\* The rank after a cut is one more.
LEMMA TextRankAfter ==
  ASSUME NEW cuts \in SUBSET Nat, IsFiniteSet(cuts), NEW c \in cuts, NEW n \in Nat, c < n,
         \A d \in cuts : d < n => d <= c
  PROVE  Rank(cuts, n) = Rank(cuts, c) + 1
<1> DEFINE D == {d \in cuts : d < c}
           E == {d \in cuts : d < n}
<1>1. E = D \union {c}
  <2>1. \A d \in cuts : d < n <=> d < c \/ d = c
    <3> TAKE d \in cuts
    <3>1. d \in Nat /\ c \in Nat OBVIOUS
    <3> QED BY <3>1
  <2> QED BY <2>1
<1>2. c \notin D OBVIOUS
<1>3. IsFiniteSet(D) BY TextRank
<1>4. Cardinality(D \union {c}) = Cardinality(D) + 1
  <2> HIDE DEF D
  <2> QED BY <1>2, <1>3, FS_AddElement
<1> QED BY <1>1, <1>4 DEF Rank

\* No two cuts have the same rank.
LEMMA TextRankOne ==
  ASSUME NEW cuts \in SUBSET Nat, IsFiniteSet(cuts), NEW c \in cuts, NEW e \in cuts,
         Rank(cuts, c) = Rank(cuts, e)
  PROVE  c = e
<1>1. ASSUME NEW x \in cuts, NEW y \in cuts, x < y PROVE Rank(cuts, x) # Rank(cuts, y)
  <2> DEFINE D == {d \in cuts : d < x}
             E == {d \in cuts : d < y}
  <2>1. IsFiniteSet(E) /\ IsFiniteSet(D) BY TextRank
  <2>2. D \in SUBSET E /\ x \in E /\ x \notin D
    <3>1. ASSUME NEW d \in cuts, d < x PROVE d < y
      <4>1. d \in Nat /\ x \in Nat /\ y \in Nat OBVIOUS
      <4> QED BY <4>1, <3>1, <1>1
    <3>2. x \in Nat /\ ~(x < x) BY <1>1
    <3>3. D \in SUBSET E BY <3>1
    <3>4. x \in E BY <1>1
    <3>5. x \notin D BY <3>2
    <3> QED BY <3>3, <3>4, <3>5
  <2>3. D # E BY <2>2
  <2>6. Cardinality(D) # Cardinality(E)
    <3> HIDE DEF D, E
    <3>1. IsFiniteSet(E) /\ D \in SUBSET E BY <2>1, <2>2
    <3>2. Cardinality(E) = Cardinality(D) => E = D BY <3>1, FS_Subset
    <3> QED BY <3>2, <2>3
  <2> QED BY <2>6 DEF Rank
<1>2. c \in Nat /\ e \in Nat OBVIOUS
<1>3. ~(c < e) BY <1>1
<1>4. ~(e < c) BY <1>1
<1> QED BY <1>2, <1>3, <1>4

-----------------------------------------------------------------------------
(* The tokenizer.                                                          *)

\* What is found in the rest of a text is found in the text.
LEMMA TextFoundInRest ==
  ASSUME NEW S, NEW bytes \in Seq(S), NEW pattern \in Seq(S), pattern # <<>>,
         NEW b \in Nat, b <= Len(bytes), NEW rest1 \in Seq(S), IsPart(rest1, bytes, b, Len(bytes)),
         NEW n \in Nat
  PROVE  n \in FoundAt(rest1, pattern) <=> b + n \in FoundAt(bytes, pattern)
<1> DEFINE len == Len(pattern)
           m == Len(bytes)
<1>1. len \in Nat /\ len >= 1 /\ m \in Nat BY EmptySeq
<1>2. Len(rest1) = m - b /\ \A i \in 1..m - b : rest1[i] = bytes[b + i] BY DEF IsPart
<1>3. n \in FoundAt(rest1, pattern) <=> IsAt(rest1, pattern, n) BY TextFoundAt
<1>4. b + n \in FoundAt(bytes, pattern) <=> IsAt(bytes, pattern, b + n)
  <2> DEFINE k == b + n
  <2> HIDE DEF k
  <2> QED BY TextFoundAt
<1>5. n \in 0..(Len(rest1) - len) <=> b + n \in 0..(m - len)
  <2> HIDE DEF len, m
  <2> QED BY <1>1, <1>2
<1>6. ASSUME b + n \in 0..(m - len), NEW i \in 1..len PROVE rest1[n + i] = bytes[b + n + i]
  <2> HIDE DEF len, m
  <2>1. n + i \in 1..m - b /\ b + (n + i) = b + n + i BY <1>1, <1>6
  <2> QED BY <2>1, <1>2
<1> QED BY <1>3, <1>4, <1>5, <1>6 DEF IsAt

\* The next token.
LEMMA TextNextToken ==
  ASSUME NEW S, NEW bytes \in Seq(S), NEW pattern \in Seq(S), pattern # <<>>,
         NEW b \in Nat, b <= Len(bytes)
  PROVE  \E e : IsToken(NextToken(bytes, pattern, b), bytes, pattern, b, e)
<1> DEFINE m == Len(bytes)
           tail == SubSeq(bytes, b + 1, m)
           ends == FoundAt(tail, pattern)
           F == FoundAt(bytes, pattern)
<1>1. m \in Nat /\ Len(pattern) \in Nat /\ Len(pattern) >= 1 BY EmptySeq
<1>2. tail \in Seq(S) /\ IsPart(tail, bytes, b, m) /\ Len(tail) = m - b
  <2> DEFINE k == m
  <2> HIDE DEF m
  <2>1. k \in Nat /\ b <= k /\ k <= m BY <1>1 DEF m
  <2>2. SubSeq(bytes, b + 1, k) \in Seq(S) /\ IsPart(SubSeq(bytes, b + 1, k), bytes, b, k)
    BY <2>1, TextPart DEF m
  <2> QED BY <2>2 DEF IsPart
<1>3. NextToken(bytes, pattern, b) = IF ends = {} THEN tail ELSE SubSeq(tail, 1, Min(ends))
  BY DEF NextToken
<1>4. \A n \in F : n \in Nat /\ n <= m
  <2>1. \A n \in F : n \in 0..m - Len(pattern) BY TextFoundAt DEF IsAt
  <2> HIDE DEF F, m
  <2> QED BY <1>1, <2>1
<1>5. \A n \in ends : n \in Nat /\ n <= m - b
  <2>1. \A n \in ends : n \in 0..Len(tail) - Len(pattern)
    <3> HIDE DEF tail
    <3> QED BY <1>2, TextFoundAt DEF IsAt
  <2> HIDE DEF ends, tail, m
  <2> QED BY <1>1, <1>2, <2>1
<1>6. \A n \in Nat : n \in ends <=> b + n \in F
  <2>1. IsPart(tail, bytes, b, Len(bytes)) /\ tail \in Seq(S) BY <1>2
  <2> HIDE DEF tail
  <2> QED BY <2>1, TextFoundInRest
<1>7. ASSUME NEW n \in F, n >= b PROVE n - b \in ends
  <2>1. n - b \in Nat /\ b + (n - b) = n BY <1>4, <1>7
  <2> QED BY <2>1, <1>6
<1>8. CASE ends = {}
  <2>1. NextToken(bytes, pattern, b) = tail BY <1>3, <1>8
  <2>2. \A n \in F : n < b BY <1>4, <1>7, <1>8
  <2>3. m \in b..m BY <1>1
  <2>4. IsToken(tail, bytes, pattern, b, m) BY <1>2, <2>2, <2>3 DEF IsToken
  <2> QED BY <2>1, <2>4
<1>9. CASE ends # {}
  <2>1. ends \in SUBSET Nat BY <1>5
  <2> DEFINE k == Min(ends)
             e == b + k
             t == SubSeq(tail, 1, k)
             u == SubSeq(bytes, b + 1, e)
  <2>2. k \in ends /\ \A n \in ends : k <= n
    <3> HIDE DEF ends
    <3> QED BY <2>1, <1>9, TextMin
  <2>3. NextToken(bytes, pattern, b) = t BY <1>3, <1>9
  <2> HIDE DEF k
  <2>4. k \in Nat /\ k <= m - b BY <2>2, <1>5
  <2>5. e \in Nat /\ b <= e /\ e <= m /\ e - b = k /\ e \in F /\ k - 0 = k
    BY <2>4, <2>2, <1>6, <1>1
  <2>6. t \in Seq(S) /\ IsPart(t, tail, 0, k)
    <3>1. tail \in Seq(S) /\ 0 \in Nat /\ k \in Nat /\ 0 <= k /\ k <= Len(tail) BY <1>2, <2>4
    <3> HIDE DEF tail, m
    <3>2. SubSeq(tail, 0 + 1, k) \in Seq(S) /\ IsPart(SubSeq(tail, 0 + 1, k), tail, 0, k)
      BY <3>1, TextPart
    <3> QED BY <3>2
  <2>7. u \in Seq(S) /\ IsPart(u, bytes, b, e)
    <3> HIDE DEF e, m
    <3> QED BY <2>5, TextPart DEF m
  <2>8. IsPart(t, bytes, b, e)
    <3>1. Len(t) = e - b BY <2>6, <2>5 DEF IsPart
    <3>2. ASSUME NEW i \in 1..e - b PROVE t[i] = bytes[b + i]
      <4>1. i \in 1..k - 0 /\ i \in 1..m - b /\ 0 + i = i BY <2>5, <2>4, <1>1
      <4>2. t[i] = tail[0 + i] BY <2>6, <4>1 DEF IsPart
      <4>3. tail[i] = bytes[b + i] BY <1>2, <4>1 DEF IsPart
      <4> QED BY <4>1, <4>2, <4>3
    <3> HIDE DEF t, e
    <3> QED BY <3>1, <3>2 DEF IsPart
  <2>9. t = u
    <3> HIDE DEF t, u
    <3> QED BY <2>6, <2>7, <2>8, TextPartEqual
  <2>10. Len(t) = e - b BY <2>8 DEF IsPart
  <2>11. ASSUME NEW n \in F PROVE n < b \/ n >= e
    <3>1. CASE n >= b
      <4>1. k <= n - b BY <1>7, <2>2, <3>1
      <4>2. n \in Nat BY <1>4
      <4> QED BY <4>1, <4>2, <2>4
    <3>2. n \in Nat BY <1>4
    <3> QED BY <3>1, <3>2
  <2>12. IsToken(t, bytes, pattern, b, e)
    <3>1. e \in b..m BY <2>5, <1>1
    <3> HIDE DEF t, e
    <3> QED BY <3>1, <2>5, <2>9, <2>10, <2>11 DEF IsToken, u
  <2> QED BY <2>3, <2>12
<1> QED BY <1>8, <1>9

\* What is between the cuts.
LEMMA TextPieces ==
  ASSUME NEW bytes, NEW pattern
  PROVE  Pieces(bytes, pattern) =
           [i \in 1..(CutCount(bytes, pattern) + 1) |->
              SubSeq(bytes,
                     (IF i = 1 THEN 0 ELSE CutAt(bytes, pattern, i - 1) + Len(pattern)) + 1,
                     IF i > CutCount(bytes, pattern) THEN Len(bytes) ELSE CutAt(bytes, pattern, i))]
BY DEF Pieces, CutAt, CutCount, Rank

\* The first piece.
LEMMA TextPlaceFirst ==
  ASSUME NEW S, NEW bytes \in Seq(S), NEW pattern \in Seq(S), pattern # <<>>
  PROVE  Place(bytes, pattern, 0, 0)
<1> DEFINE C == Cuts(bytes, pattern)
<1>1. IsCuts(C, bytes, pattern) BY TextCutsExist
<1>2. C \in SUBSET Nat
  <2> HIDE DEF C
  <2> QED BY <1>1, TextCuts
<1>3. {d \in C : d < 0} = {}
  <2>1. \A d \in C : ~(d < 0) BY <1>2
  <2> HIDE DEF C
  <2> QED BY <2>1
<1>4. Rank(C, 0) = 0 BY <1>3, FS_EmptySet DEF Rank
<1>5. \A d \in C : ~(d < 0) BY <1>3
<1>6. Len(bytes) \in Nat OBVIOUS
<1> QED BY <1>4, <1>5, <1>6 DEF Place

\* There is a cut at the first place from b on where the pattern is found, and
\* the next piece begins after it.
LEMMA TextPlaceNext ==
  ASSUME NEW S, NEW bytes \in Seq(S), NEW pattern \in Seq(S), pattern # <<>>,
         NEW p, NEW b, Place(bytes, pattern, p, b),
         NEW e \in FoundAt(bytes, pattern), e >= b,
         \A n \in FoundAt(bytes, pattern) : n < b \/ n >= e
  PROVE  /\ Place(bytes, pattern, p + 1, e + Len(pattern))
         /\ p < CutCount(bytes, pattern)
         /\ CutAt(bytes, pattern, p + 1) = e
<1> DEFINE C == Cuts(bytes, pattern)
           F == FoundAt(bytes, pattern)
           len == Len(pattern)
<1>1. IsCuts(C, bytes, pattern) BY TextCutsExist
<1>2. /\ len \in Nat /\ len >= 1 /\ Len(bytes) \in Nat
      /\ F \in SUBSET Nat /\ \A n \in F : n + len <= Len(bytes)
      /\ IsFiniteSet(C) /\ C \in SUBSET Nat
  <2> HIDE DEF C
  <2> QED BY <1>1, TextCuts
<1>3. C \in SUBSET F /\ \A n \in F : n \in C <=> ~\E m \in C : m < n /\ n < m + len
  BY <1>1 DEF IsCuts
<1>4. /\ p \in Nat /\ b \in Nat /\ Rank(C, b) = p /\ \A d \in C : d < b => d + len <= b
  BY DEF Place
<1> HIDE DEF C, F, len
<1>5. e \in Nat /\ e \in F BY <1>2 DEF F
<1>6. \A d \in C : d < b \/ d >= e BY <1>3 DEF F
<1>7. \A d \in C : d \in Nat BY <1>2
<1>8. e \in C
  <2>1. ASSUME NEW m \in C, m < e, e < m + len PROVE FALSE
    <3>1. m < b BY <1>5, <1>6, <1>7, <2>1
    <3>2. m + len <= b BY <3>1, <1>4
    <3> QED BY <3>2, <2>1, <1>4, <1>5, <1>7, <1>2
  <2> QED BY <2>1, <1>3, <1>5
<1>9. Rank(C, e) = p
  <2>1. \A d \in C : d < e <=> d < b BY <1>4, <1>5, <1>6, <1>7
  <2>2. {d \in C : d < e} = {d \in C : d < b} BY <2>1
  <2> QED BY <2>2, <1>4 DEF Rank
<1>10. CutAt(bytes, pattern, p + 1) = e
  <2>1. CutAt(bytes, pattern, p + 1) = CHOOSE c \in C : Rank(C, c) = p BY <1>4 DEF CutAt, C
  <2>2. \A c \in C : Rank(C, c) = p => c = e BY <1>2, <1>8, <1>9, TextRankOne
  <2> QED BY <2>1, <2>2, <1>8, <1>9
<1> DEFINE k == e + len
<1>11. k \in Nat /\ e < k /\ k <= Len(bytes) BY <1>2, <1>5
<1>12. \A d \in C : d < k => d <= e
  <2> TAKE d \in C
  <2>1. ASSUME d < k, d > e PROVE FALSE
    <3>1. e < d /\ d < e + len BY <2>1
    <3>2. ~\E m \in C : m < d /\ d < m + len BY <1>3
    <3> QED BY <3>1, <3>2, <1>8
  <2> QED BY <2>1, <1>5, <1>7
<1>13. Rank(C, k) = p + 1
  <2> HIDE DEF k
  <2>1. Rank(C, k) = Rank(C, e) + 1 BY <1>2, <1>8, <1>11, <1>12, TextRankAfter
  <2> QED BY <2>1, <1>9
<1>14. \A d \in C : d < k => d + len <= k
  <2> TAKE d \in C
  <2>1. d < k => d <= e BY <1>12
  <2> QED BY <2>1, <1>2, <1>5, <1>7
<1>15. Rank(C, k) <= Cardinality(C) /\ Cardinality(C) \in Nat
  <2> HIDE DEF k
  <2> QED BY <1>2, TextRank
<1>16. p < CutCount(bytes, pattern) BY <1>13, <1>15, <1>4 DEF CutCount, C
<1>17. p + 1 \in Nat /\ p + 1 # 0 BY <1>4
<1> HIDE DEF k
<1>18. Place(bytes, pattern, p + 1, k)
  BY <1>17, <1>10, <1>11, <1>13, <1>14, <1>5 DEF Place, C, len, k, F
<1> QED BY <1>18, <1>16, <1>10 DEF k, len

\* After the last cut there is none.
LEMMA TextPlaceLast ==
  ASSUME NEW S, NEW bytes \in Seq(S), NEW pattern \in Seq(S), pattern # <<>>,
         NEW p, NEW b, Place(bytes, pattern, p, b),
         \A n \in FoundAt(bytes, pattern) : n < b
  PROVE  p = CutCount(bytes, pattern)
<1> DEFINE C == Cuts(bytes, pattern)
<1>1. IsCuts(C, bytes, pattern) BY TextCutsExist
<1>2. \A d \in C : d < b BY <1>1 DEF IsCuts
<1>3. {d \in C : d < b} = C BY <1>2
<1>4. Rank(C, b) = Cardinality(C) BY <1>3 DEF Rank
<1> QED BY <1>4 DEF Place, CutCount

\* The tokenizer gives the pieces one after the other.
LEMMA TextTokenIsPiece ==
  ASSUME NEW S, NEW bytes \in Seq(S), NEW pattern \in Seq(S), pattern # <<>>,
         NEW p, NEW b, Place(bytes, pattern, p, b)
  PROVE  \E e : TokenIsPiece(bytes, pattern, p, b, e)
<1> DEFINE t == NextToken(bytes, pattern, b)
           m == Len(bytes)
           F == FoundAt(bytes, pattern)
           count == CutCount(bytes, pattern)
<1>1. b \in Nat /\ b <= Len(bytes) /\ p \in Nat BY DEF Place
<1>2. PICK e : IsToken(t, bytes, pattern, b, e)
  <2> HIDE DEF t
  <2> QED BY <1>1, TextNextToken DEF t
<1>3. /\ e \in b..m /\ t = SubSeq(bytes, b + 1, e)
      /\ \A n \in F : n < b \/ n >= e
      /\ e = m \/ e \in F
  BY <1>2 DEF IsToken
<1>4. IsCuts(Cuts(bytes, pattern), bytes, pattern) BY TextCutsExist
<1>5. /\ Len(pattern) \in Nat /\ Len(pattern) >= 1 /\ m \in Nat /\ F \in SUBSET Nat
      /\ \A n \in F : n + Len(pattern) <= m
      /\ IsFiniteSet(Cuts(bytes, pattern)) /\ Cuts(bytes, pattern) \in SUBSET Nat
  BY <1>4, TextCuts
<1>6. count \in Nat BY <1>5, TextRank DEF CutCount
<1>7. b = IF p = 0 THEN 0 ELSE CutAt(bytes, pattern, p) + Len(pattern) BY DEF Place
<1>8. ASSUME p \in 0..count
      PROVE  Pieces(bytes, pattern)[p + 1] =
               SubSeq(bytes, b + 1, IF p + 1 > count THEN m ELSE CutAt(bytes, pattern, p + 1))
  <2> DEFINE i == p + 1
             begin(j) == IF j = 1 THEN 0 ELSE CutAt(bytes, pattern, j - 1) + Len(pattern)
             end(j) == IF j > count THEN m ELSE CutAt(bytes, pattern, j)
  <2>1. i \in 1..count + 1 /\ i - 1 = p /\ (i = 1 <=> p = 0) BY <1>8, <1>1, <1>6
  <2>2. Pieces(bytes, pattern) = [j \in 1..count + 1 |-> SubSeq(bytes, begin(j) + 1, end(j))]
    BY TextPieces
  <2>3. begin(i) = b BY <2>1, <1>7
  <2> HIDE DEF begin, end, i, count, m
  <2>4. Pieces(bytes, pattern)[i] = SubSeq(bytes, begin(i) + 1, end(i)) BY <2>1, <2>2
  <2> QED BY <2>3, <2>4 DEF end, i
<1>9. CASE e \in F
  <2>1. e >= b BY <1>1, <1>3
  <2>2. /\ Place(bytes, pattern, p + 1, e + Len(pattern))
        /\ p < count
        /\ CutAt(bytes, pattern, p + 1) = e
    BY <2>1, <1>9, <1>3, TextPlaceNext
  <2>3. p \in 0..count /\ ~(p + 1 > count) BY <2>2, <1>1, <1>6
  <2>4. Pieces(bytes, pattern)[p + 1] = t BY <2>2, <2>3, <1>8, <1>3
  <2>5. TokenIsPiece(bytes, pattern, p, b, e)
    <3> HIDE DEF t, count, F, m
    <3> QED BY <2>2, <2>3, <2>4, <1>2, <1>9 DEF TokenIsPiece, count, F, t
  <2> QED BY <2>5
<1>10. CASE e \notin F
  <2>1. e = m BY <1>3, <1>10
  <2>2. ASSUME NEW n \in F PROVE n < b
    <3>1. n \in Nat /\ n + Len(pattern) <= m BY <1>5
    <3>2. ~(n >= m) BY <3>1, <1>5
    <3> QED BY <3>2, <2>1, <1>3
  <2>3. p = count BY <2>2, TextPlaceLast
  <2>4. p \in 0..count /\ p + 1 > count BY <2>3, <1>6
  <2>5. Pieces(bytes, pattern)[p + 1] = t BY <2>4, <2>1, <1>8, <1>3
  <2>6. TokenIsPiece(bytes, pattern, p, b, e)
    <3> HIDE DEF t, count, F, m
    <3> QED BY <2>1, <2>3, <2>4, <2>5, <1>2 DEF TokenIsPiece, count, t, m
  <2> QED BY <2>6
<1> QED BY <1>9, <1>10

\* The number of cuts.
LEMMA TextCutCount ==
  ASSUME NEW S, NEW bytes \in Seq(S), NEW pattern \in Seq(S), pattern # <<>>
  PROVE  CutCount(bytes, pattern) \in Nat
<1>1. IsCuts(Cuts(bytes, pattern), bytes, pattern) BY TextCutsExist
<1>2. IsFiniteSet(Cuts(bytes, pattern)) /\ Cuts(bytes, pattern) \in SUBSET Nat BY <1>1, TextCuts
<1> QED BY <1>2, TextRank DEF CutCount

\* Each piece has its place.
LEMMA TextPlaces ==
  ASSUME NEW S, NEW bytes \in Seq(S), NEW pattern \in Seq(S), pattern # <<>>
  PROVE  \A p \in 0..CutCount(bytes, pattern) : \E b : Place(bytes, pattern, p, b)
<1> DEFINE n == CutCount(bytes, pattern)
           M == {p \in 0..n : \E b : Place(bytes, pattern, p, b)}
<1>1. n \in Nat BY TextCutCount
<1>2. 0 \in M
  <2>1. Place(bytes, pattern, 0, 0) BY TextPlaceFirst
  <2> QED BY <1>1, <2>1
<1>3. ASSUME NEW p \in 0..n - 1, p \in M PROVE p + 1 \in M
  <2>1. PICK b : Place(bytes, pattern, p, b) BY <1>3
  <2>2. PICK e : TokenIsPiece(bytes, pattern, p, b, e) BY <2>1, TextTokenIsPiece
  <2>3. p # n /\ p + 1 \in 0..n BY <1>1
  <2>4. Place(bytes, pattern, p + 1, e + Len(pattern)) BY <2>2, <2>3 DEF TokenIsPiece
  <2> QED BY <2>3, <2>4
<1>4. 0..n \subseteq M
  <2> HIDE DEF M, n
  <2> QED BY <1>1, <1>2, <1>3, CountUp
<1> QED BY <1>4

\* What is known of a piece.
LEMMA TextPiece ==
  ASSUME NEW S, NEW bytes \in Seq(S), NEW pattern \in Seq(S), pattern # <<>>,
         NEW p \in 0..CutCount(bytes, pattern)
  PROVE  \E b, e : Place(bytes, pattern, p, b) /\ TokenIsPiece(bytes, pattern, p, b, e)
<1>1. PICK b : Place(bytes, pattern, p, b) BY TextPlaces
<1>2. PICK e : TokenIsPiece(bytes, pattern, p, b, e) BY <1>1, TextTokenIsPiece
<1> QED BY <1>1, <1>2

\* Pieces are sequences of bytes, one more than there are cuts.
LEMMA TextPiecesType ==
  ASSUME NEW S, NEW bytes \in Seq(S), NEW pattern \in Seq(S), pattern # <<>>
  PROVE  /\ Pieces(bytes, pattern) \in Seq(Seq(S))
         /\ Len(Pieces(bytes, pattern)) = CutCount(bytes, pattern) + 1
<1> DEFINE n == CutCount(bytes, pattern)
           ps == Pieces(bytes, pattern)
<1>1. n \in Nat BY TextCutCount
<1>2. ps = [i \in 1..n + 1 |-> ps[i]] BY TextPieces
<1>3. ASSUME NEW i \in 1..n + 1 PROVE ps[i] \in Seq(S)
  <2> DEFINE p == i - 1
  <2>1. p \in 0..n /\ p + 1 = i BY <1>1
  <2> HIDE DEF p
  <2>2. PICK b, e : Place(bytes, pattern, p, b) /\ TokenIsPiece(bytes, pattern, p, b, e)
    BY <2>1, TextPiece
  <2>3. ps[i] = SubSeq(bytes, b + 1, e) /\ e \in b..Len(bytes)
    BY <2>1, <2>2 DEF TokenIsPiece, IsToken
  <2>4. b \in Nat BY <2>2 DEF Place
  <2>5. e \in Nat /\ b <= e /\ e <= Len(bytes)
    <3>1. Len(bytes) \in Nat OBVIOUS
    <3> QED BY <3>1, <2>3, <2>4
  <2>6. SubSeq(bytes, b + 1, e) \in Seq(S) BY <2>4, <2>5, TextPart
  <2> QED BY <2>3, <2>6
<1> HIDE DEF n, ps
<1>4. ps \in [1..n + 1 -> Seq(S)] BY <1>2, <1>3
<1>5. ps \in Seq(Seq(S)) /\ Len(ps) = n + 1 BY <1>1, <1>4
<1> QED BY <1>5 DEF ps, n

\* The iterator begins at the first piece.
LEMMA TextTokensBegin ==
  ASSUME NEW S, NEW bytes \in Seq(S), NEW pattern \in Seq(S), pattern # <<>>
  PROVE  TokAt(bytes, pattern, Tokens(bytes, pattern)) /\ Tokens(bytes, pattern).pos = 0
<1>1. Place(bytes, pattern, 0, 0) BY TextPlaceFirst
<1>2. PICK e : TokenIsPiece(bytes, pattern, 0, 0, e) BY <1>1, TextTokenIsPiece
<1>3. NextToken(bytes, pattern, 0) = Pieces(bytes, pattern)[0 + 1] /\ 0 \in 0..CutCount(bytes, pattern)
  BY <1>2 DEF TokenIsPiece
<1>4. /\ Tokens(bytes, pattern).pos = 0 /\ Tokens(bytes, pattern).index = 0
      /\ Tokens(bytes, pattern).token = NextToken(bytes, pattern, 0)
  BY DEF Tokens
<1> QED BY <1>1, <1>3, <1>4 DEF TokAt

\* An iterator goes from a piece to the next.
LEMMA TextTokensNext ==
  ASSUME NEW S, NEW bytes \in Seq(S), NEW pattern \in Seq(S), pattern # <<>>,
         NEW it, TokAt(bytes, pattern, it), ~IsDone(it, bytes)
  PROVE  /\ IsAtPiece(bytes, pattern, it, S)
         /\ TokAt(bytes, pattern, Advanced(it, bytes, pattern))
         /\ Advanced(it, bytes, pattern).pos = it.pos + 1
<1> DEFINE n == CutCount(bytes, pattern)
           p == it.pos
           b == it.index
           m == Len(bytes)
           ps == Pieces(bytes, pattern)
           next == Advanced(it, bytes, pattern)
           begin == b + Len(it.token) + Len(pattern)
<1>1. /\ p \in 0..n
      /\ Place(bytes, pattern, p, b)
      /\ it.token = ps[p + 1]
  BY DEF TokAt, IsDone
<1>2. n \in Nat /\ m \in Nat BY TextCutCount
<1>3. ps \in Seq(Seq(S)) /\ Len(ps) = n + 1 BY TextPiecesType
<1>4. it.token \in Seq(S)
  <2>1. p + 1 \in 1..n + 1 BY <1>1, <1>2
  <2> HIDE DEF ps, n, p
  <2> QED BY <2>1, <1>1, <1>3, ElementOfSeq
<1>5. next.pos = p + 1 /\ next.index = Min({begin, m}) /\ next.token = NextToken(bytes, pattern, begin)
  BY DEF Advanced
<1>6. PICK e : TokenIsPiece(bytes, pattern, p, b, e) BY <1>1, TextTokenIsPiece
<1>7. Len(it.token) = e - b /\ e \in b..m BY <1>1, <1>6 DEF TokenIsPiece, IsToken
<1>8. b \in Nat BY <1>1 DEF Place
<1>9. Len(pattern) \in Nat /\ Len(pattern) >= 1 BY EmptySeq
<1>10. begin = e + Len(pattern) /\ begin \in Nat /\ e \in Nat /\ e <= m BY <1>2, <1>7, <1>8, <1>9
<1>11. Min({begin, m}) = IF begin <= m THEN begin ELSE m
  <2> HIDE DEF begin, m
  <2> QED BY <1>2, <1>10, TextMinOfTwo
<1>12. p + 1 \in Nat BY <1>1, <1>2
<1> HIDE DEF begin, next
<1>13. CASE p < n
  <2>1. Place(bytes, pattern, p + 1, begin)
    <3>1. p # n BY <1>13, <1>1, <1>2
    <3> QED BY <1>6, <3>1, <1>10 DEF TokenIsPiece
  <2>2. begin <= m BY <2>1 DEF Place
  <2>3. PICK f : TokenIsPiece(bytes, pattern, p + 1, begin, f) BY <2>1, TextTokenIsPiece
  <2>4. NextToken(bytes, pattern, begin) = ps[(p + 1) + 1] /\ p + 1 \in 0..n BY <2>3 DEF TokenIsPiece
  <2>5. /\ next.pos \in Nat /\ next.index \in Nat /\ next.pos \in 0..n
        /\ Place(bytes, pattern, next.pos, next.index) /\ next.token = ps[next.pos + 1]
    BY <1>5, <1>10, <1>11, <1>12, <2>1, <2>2, <2>4
  <2>6. TokAt(bytes, pattern, next) BY <2>5 DEF TokAt
  <2> QED BY <2>6, <1>1, <1>4, <1>5 DEF IsAtPiece, next
<1>14. CASE ~(p < n)
  <2>1. p = n BY <1>14, <1>1, <1>2
  <2>2. e = m BY <1>6, <1>14 DEF TokenIsPiece
  <2>3. ~(begin <= m) BY <1>2, <1>9, <1>10, <2>2
  <2>4. next.pos \in Nat /\ next.index \in Nat /\ next.pos = n + 1 /\ next.index = m
    <3>1. next.index = m BY <1>5, <1>11, <2>3
    <3> HIDE DEF n, p, m
    <3> QED BY <3>1, <1>2, <1>5, <1>12, <2>1
  <2>5. TokAt(bytes, pattern, next) BY <2>4 DEF TokAt
  <2> QED BY <2>5, <1>1, <1>4, <1>5 DEF IsAtPiece, next
<1> QED BY <1>13, <1>14

\* It is done after the last piece, or at the last piece where that is empty.
LEMMA TextTokensEnd ==
  ASSUME NEW S, NEW bytes \in Seq(S), NEW pattern \in Seq(S), pattern # <<>>,
         NEW it, TokAt(bytes, pattern, it), IsDone(it, bytes)
  PROVE  \/ it.pos = CutCount(bytes, pattern) + 1
         \/ /\ it.pos = CutCount(bytes, pattern)
            /\ Pieces(bytes, pattern)[CutCount(bytes, pattern) + 1] = <<>>
            /\ Place(bytes, pattern, it.pos, Len(bytes))
<1> DEFINE n == CutCount(bytes, pattern)
           p == it.pos
           m == Len(bytes)
           ps == Pieces(bytes, pattern)
<1>1. it.index = m BY DEF IsDone
<1>2. ASSUME p # n + 1 PROVE p = n /\ ps[n + 1] = <<>> /\ Place(bytes, pattern, p, m)
  <2>1. Place(bytes, pattern, p, m) /\ p \in 0..n BY <1>1, <1>2 DEF TokAt
  <2>2. PICK e : TokenIsPiece(bytes, pattern, p, m, e) BY <2>1, TextTokenIsPiece
  <2>3. Len(ps[p + 1]) = e - m /\ e \in m..m BY <2>2 DEF TokenIsPiece, IsToken
  <2>4. m \in Nat /\ Len(pattern) \in Nat /\ Len(pattern) >= 1 /\ n \in Nat BY EmptySeq, TextCutCount
  <2>5. Len(ps[p + 1]) = 0 BY <2>3, <2>4
  <2>6. ps \in Seq(Seq(S)) /\ Len(ps) = n + 1 /\ p + 1 \in 1..n + 1
    <3>1. ps \in Seq(Seq(S)) /\ Len(ps) = n + 1 BY TextPiecesType
    <3> HIDE DEF ps, n, p
    <3> QED BY <3>1, <2>1, <2>4
  <2>7. ps[p + 1] \in Seq(S)
    <3> HIDE DEF ps, n
    <3> QED BY <2>6, ElementOfSeq
  <2>8. ps[p + 1] = <<>>
    <3> HIDE DEF ps
    <3> QED BY <2>5, <2>7, EmptySeq
  <2>9. e \in FoundAt(bytes, pattern) => FALSE
    <3>1. e = m BY <2>3, <2>4
    <3>2. ASSUME e \in FoundAt(bytes, pattern) PROVE e \in 0..m - Len(pattern)
      BY <3>2, TextFoundAt DEF IsAt
    <3> QED BY <3>1, <3>2, <2>4
  <2>10. p = n BY <2>2, <2>9 DEF TokenIsPiece
  <2> QED BY <2>1, <2>8, <2>10
<1> QED BY <1>2

-----------------------------------------------------------------------------
(* The number of cuts.                                                     *)

\* No piece begins where the text ends, unless the text ends with the pattern.
LEMMA TextPlaceAtEnd ==
  ASSUME NEW S, NEW bytes \in Seq(S), NEW pattern \in Seq(S), pattern # <<>>,
         bytes # <<>>, bytes[Len(bytes)] # pattern[Len(pattern)],
         NEW p, Place(bytes, pattern, p, Len(bytes))
  PROVE  FALSE
<1> DEFINE m == Len(bytes)
           len == Len(pattern)
           c == CutAt(bytes, pattern, p)
<1>1. m \in Nat /\ m # 0 /\ len \in Nat /\ len >= 1 BY EmptySeq
<1>2. p # 0 /\ m = c + len /\ c \in FoundAt(bytes, pattern) BY <1>1 DEF Place
<1>3. IsAt(bytes, pattern, c)
  <2> HIDE DEF c
  <2> QED BY <1>2, TextFoundAt
<1>4. bytes[c + len] = pattern[len] BY <1>1, <1>3 DEF IsAt
<1> QED BY <1>2, <1>4

\* An iterator over a text that does not end with the delimiter ends after the
\* last piece.
LEMMA TextTokensEndAfter ==
  ASSUME NEW S, NEW bytes \in Seq(S), NEW pattern \in Seq(S), pattern # <<>>,
         bytes # <<>>, bytes[Len(bytes)] # pattern[Len(pattern)],
         NEW it, TokAt(bytes, pattern, it), IsDone(it, bytes)
  PROVE  it.pos = CutCount(bytes, pattern) + 1
BY TextTokensEnd, TextPlaceAtEnd

\* Where one byte is cut out it is in no piece.
LEMMA TextPieceWithout ==
  ASSUME NEW S, NEW bytes \in Seq(S), NEW c \in S, NEW p \in 0..CutCount(bytes, <<c>>)
  PROVE  \A k \in 1..Len(Pieces(bytes, <<c>>)[p + 1]) : Pieces(bytes, <<c>>)[p + 1][k] # c
<1> DEFINE pat == <<c>>
           t == Pieces(bytes, pat)[p + 1]
<1>1. pat \in Seq(S) /\ pat # <<>> /\ Len(pat) = 1 /\ pat[1] = c OBVIOUS
<1> HIDE DEF pat
<1>2. p \in 0..CutCount(bytes, pat) BY DEF pat
<1>3. PICK b, e : Place(bytes, pat, p, b) /\ TokenIsPiece(bytes, pat, p, b, e)
  BY <1>1, <1>2, TextPiece
<1>4. /\ t = SubSeq(bytes, b + 1, e) /\ e \in b..Len(bytes) /\ Len(t) = e - b
      /\ \A n \in FoundAt(bytes, pat) : n < b \/ n >= e
  BY <1>3 DEF TokenIsPiece, IsToken
<1>5. b \in Nat BY <1>3 DEF Place
<1>6. Len(bytes) \in Nat OBVIOUS
<1>7. e \in Nat /\ b <= e /\ e <= Len(bytes) BY <1>4, <1>5, <1>6
<1>8. IsPart(t, bytes, b, e)
  <2>1. IsPart(SubSeq(bytes, b + 1, e), bytes, b, e) BY <1>5, <1>7, TextPart
  <2> HIDE DEF t
  <2> QED BY <2>1, <1>4
<1> HIDE DEF t
<1>9. ASSUME NEW k \in 1..Len(t), t[k] = c PROVE FALSE
  <2>1. k \in 1..e - b BY <1>4, <1>5, <1>7
  <2>2. bytes[b + k] = c BY <2>1, <1>8, <1>9 DEF IsPart
  <2> DEFINE n == b + k - 1
  <2>3. n \in 0..(Len(bytes) - 1) /\ n + 1 = b + k /\ ~(n < b) /\ ~(n >= e) BY <2>1, <1>5, <1>6, <1>7
  <2> HIDE DEF n
  <2>4. \A i \in 1..1 : bytes[n + i] = pat[i] BY <2>2, <2>3, <1>1
  <2>5. IsAt(bytes, pat, n) BY <2>3, <2>4, <1>1 DEF IsAt
  <2>6. n \in FoundAt(bytes, pat) BY <2>5, <1>1, TextFoundAt
  <2> QED BY <2>6, <2>3, <1>4
<1> QED BY <1>9 DEF t, pat

\* No places that do not overlap are more than the cuts: each is covered by a
\* cut, and no cut covers two.
LEMMA TextFits ==
  ASSUME NEW S, NEW bytes \in Seq(S), NEW pattern \in Seq(S), pattern # <<>>,
         NEW P \in SUBSET FoundAt(bytes, pattern), Apart(P, Len(pattern))
  PROVE  Cardinality(P) \in Nat /\ Cardinality(P) <= CutCount(bytes, pattern)
<1> DEFINE C == Cuts(bytes, pattern)
           F == FoundAt(bytes, pattern)
           len == Len(pattern)
           Covers(m, n) == m <= n /\ n < m + len
           g == [n \in P |-> CHOOSE m \in C : Covers(m, n)]
<1>1. IsCuts(C, bytes, pattern) BY TextCutsExist
<1>2. /\ len \in Nat /\ len >= 1 /\ F \in SUBSET Nat
      /\ IsFiniteSet(C) /\ C \in SUBSET Nat
  <2> HIDE DEF C
  <2> QED BY <1>1, TextCuts
<1>3. C \in SUBSET F /\ \A n \in F : n \in C <=> ~\E m \in C : m < n /\ n < m + len
  BY <1>1 DEF IsCuts
<1>0. P \in SUBSET F OBVIOUS
<1>00. \A m, n \in P : m < n => m + len <= n BY DEF Apart
<1> HIDE DEF C, F, len
<1>4. \A n \in P : n \in Nat /\ n \in F BY <1>0, <1>2
<1>5. ASSUME NEW n \in P PROVE \E m \in C : Covers(m, n)
  <2>1. CASE n \in C
    <3>1. n <= n /\ n < n + len BY <1>2, <1>4
    <3> QED BY <2>1, <3>1
  <2>2. CASE n \notin C
    <3>1. PICK m \in C : m < n /\ n < m + len BY <2>2, <1>3, <1>4
    <3>2. m \in Nat /\ n \in Nat BY <1>2, <1>4
    <3>3. m <= n BY <3>1, <3>2
    <3> QED BY <3>1, <3>3
  <2> QED BY <2>1, <2>2
<1>6. ASSUME NEW n \in P PROVE g[n] \in C /\ Covers(g[n], n)
  <2>1. g[n] = CHOOSE m \in C : Covers(m, n) OBVIOUS
  <2> HIDE DEF g, Covers
  <2> QED BY <2>1, <1>5
<1>7. ASSUME NEW n \in P, NEW k \in P, g[n] = g[k] PROVE n = k
  <2>1. g[n] \in Nat /\ n \in Nat /\ k \in Nat BY <1>2, <1>4, <1>6
  <2>2. g[n] <= n /\ n < g[n] + len /\ g[n] <= k /\ k < g[n] + len BY <1>6, <1>7
  <2> HIDE DEF g
  <2>3. ~(n < k)
    <3>1. n < k => n + len <= k BY <1>00
    <3> QED BY <3>1, <2>1, <2>2, <1>2
  <2>4. ~(k < n)
    <3>1. k < n => k + len <= n BY <1>00
    <3> QED BY <3>1, <2>1, <2>2, <1>2
  <2> QED BY <2>1, <2>3, <2>4
<1>8. g \in Injection(P, C)
  <2>1. g \in [P -> C] BY <1>6
  <2> HIDE DEF g
  <2> QED BY <2>1, <1>7 DEF Injection, IsInjective
<1>9. IsFiniteSet(P) /\ Cardinality(P) <= Cardinality(C)
  <2> HIDE DEF g
  <2> QED BY <1>2, <1>8, FS_Injection
<1> QED BY <1>9, FS_CardinalityType DEF CutCount, C

\* The most places that fit are as many as the cuts.
LEMMA TextMostFit ==
  ASSUME NEW S, NEW bytes \in Seq(S), NEW pattern \in Seq(S), pattern # <<>>
  PROVE  Max(Fits(bytes, pattern)) = CutCount(bytes, pattern)
<1> DEFINE n == CutCount(bytes, pattern)
           C == Cuts(bytes, pattern)
           N == Fits(bytes, pattern)
<1>1. n \in Nat BY TextCutCount
<1>2. IsCuts(C, bytes, pattern) BY TextCutsExist
<1>3. C \in SUBSET FoundAt(bytes, pattern) /\ Apart(C, Len(pattern))
  <2>1. C \in SUBSET Nat /\ Len(pattern) \in Nat BY <1>2, TextCuts
  <2>2. C \in SUBSET FoundAt(bytes, pattern) BY <1>2 DEF IsCuts
  <2>3. \A k, m \in C : m < k => ~(k < m + Len(pattern)) BY <1>2, <2>2 DEF IsCuts
  <2> HIDE DEF C
  <2>4. \A k, m \in C : ~(k < m + Len(pattern)) => m + Len(pattern) <= k BY <2>1
  <2> QED BY <2>2, <2>3, <2>4 DEF Apart
<1>4. n \in N BY <1>3 DEF Fits, CutCount
<1>5. \A x \in N : x \in Int /\ x <= n
  <2> TAKE x \in N
  <2>1. PICK P \in SUBSET FoundAt(bytes, pattern) : Apart(P, Len(pattern)) /\ x = Cardinality(P)
    BY DEF Fits
  <2>2. Cardinality(P) \in Nat /\ Cardinality(P) <= n BY <2>1, TextFits
  <2> QED BY <2>1, <2>2
<1> HIDE DEF n, N
<1>6. N \in SUBSET Int /\ N # {} /\ n \in Int BY <1>1, <1>4, <1>5
<1>7. Max(N) \in N /\ \A x \in N : x <= Max(N) BY <1>5, <1>6, TextMax
<1>8. Max(N) <= n /\ n <= Max(N) /\ Max(N) \in Int BY <1>4, <1>5, <1>7
<1>9. Max(N) = n BY <1>8, <1>6
<1> QED BY <1>9 DEF n, N

\* What the model says that count should find.
LEMMA TextOccurrences ==
  ASSUME NEW S, Text \in Seq(S), job.pattern \in Seq(S), job.pattern # <<>>
  PROVE  Occurrences = CutCount(Text, job.pattern)
<1>1. Occurrences = Max(Fits(Text, job.pattern)) BY DEF Occurrences, Fits, Apart
<1>2. ASSUME NEW bytes \in Seq(S), NEW pattern \in Seq(S), pattern # <<>>
      PROVE  Max(Fits(bytes, pattern)) = CutCount(bytes, pattern)
  BY <1>2, TextMostFit
<1>3. Max(Fits(Text, job.pattern)) = CutCount(Text, job.pattern) BY <1>2
<1> QED BY <1>1, <1>3

-----------------------------------------------------------------------------
(* Lines that are printed and cut apart again.                             *)

\* The line x and a newline are in s from after b up to e.
LineAt(s, x, b, e) ==
  /\ b \in Nat /\ e = b + Len(x) + 1 /\ e <= Len(s)
  /\ s[e] = NEWLINE
  /\ \A k \in 1..Len(x) : s[b + k] = x[k]

\* They stay where they are when more is joined to s.
LEMMA TextLineStays ==
  ASSUME NEW B, NEW s \in Seq(B), NEW a \in Seq(B), NEW x \in Seq(B), NEW b, NEW e, LineAt(s, x, b, e)
  PROVE  LineAt(s \o a, x, b, e)
<1> DEFINE t == s \o a
<1>1. /\ Len(t) = Len(s) + Len(a) /\ Len(s) \in Nat /\ Len(a) \in Nat /\ Len(x) \in Nat
      /\ \A i \in 1..Len(s) + Len(a) : t[i] = IF i <= Len(s) THEN s[i] ELSE a[i - Len(s)]
  BY ConcatProperties
<1> HIDE DEF t
<1>2. \A i \in 1..Len(s) : i \in 1..Len(s) + Len(a) /\ i <= Len(s) BY <1>1
<1>3. \A i \in 1..Len(s) : t[i] = s[i] BY <1>1, <1>2
<1>4. b \in Nat /\ e = b + Len(x) + 1 /\ e <= Len(s) BY DEF LineAt
<1>5. e \in 1..Len(s) /\ e <= Len(t) BY <1>1, <1>4
<1>6. \A k \in 1..Len(x) : b + k \in 1..Len(s) BY <1>1, <1>4
<1>7. t[e] = s[e] /\ \A k \in 1..Len(x) : t[b + k] = s[b + k] BY <1>3, <1>5, <1>6
<1> QED BY <1>4, <1>5, <1>7 DEF LineAt, t

\* A line that is joined is at the end.
LEMMA TextLineJoined ==
  ASSUME NEW B, NEWLINE \in B, NEW s \in Seq(B), NEW x \in Seq(B)
  PROVE  LineAt(s \o Append(x, NEWLINE), x, Len(s), Len(s) + Len(x) + 1)
<1> DEFINE a == Append(x, NEWLINE)
           t == s \o a
<1>0. Len(s) \in Nat /\ Len(x) \in Nat OBVIOUS
<1>1. a \in Seq(B) /\ Len(a) = Len(x) + 1 /\ a[Len(x) + 1] = NEWLINE /\ \A k \in 1..Len(x) : a[k] = x[k]
  OBVIOUS
<1> HIDE DEF a
<1>2. /\ Len(t) = Len(s) + Len(a)
      /\ \A i \in 1..Len(s) + Len(a) : t[i] = IF i <= Len(s) THEN s[i] ELSE a[i - Len(s)]
  BY <1>1, ConcatProperties
<1> HIDE DEF t
<1>3. ASSUME NEW k \in 1..Len(a) PROVE t[Len(s) + k] = a[k]
  <2>1. Len(s) + k \in 1..Len(s) + Len(a) /\ ~(Len(s) + k <= Len(s)) /\ (Len(s) + k) - Len(s) = k
    BY <1>0, <1>1
  <2> QED BY <2>1, <1>2
<1>4. Len(x) + 1 \in 1..Len(a) /\ \A k \in 1..Len(x) : k \in 1..Len(a) BY <1>0, <1>1
<1>5. t[Len(s) + (Len(x) + 1)] = NEWLINE /\ \A k \in 1..Len(x) : t[Len(s) + k] = x[k]
  BY <1>1, <1>3, <1>4
<1>6. Len(s) + (Len(x) + 1) = Len(s) + Len(x) + 1 /\ Len(s) + Len(x) + 1 <= Len(t) BY <1>0, <1>1, <1>2
<1> QED BY <1>0, <1>5, <1>6 DEF LineAt, t, a

\* The first m lines of X are one after the other in s, each up to where q says.
Laid(s, X, q, m) ==
  /\ q[0] = 0 /\ Len(s) = q[m]
  /\ \A i \in 1..m : LineAt(s, X[i], q[i - 1], q[i])

\* That is what is printed.
LEMMA TextLaid ==
  ASSUME NEW B, NEWLINE \in B, NEW X \in Seq(Seq(B))
  PROVE  Printed(X) \in Seq(B) /\ \E q : Laid(Printed(X), X, q, Len(X))
<1> DEFINE n == Len(X)
           seqs == [i \in 1..n |-> Append(X[i], NEWLINE)]
<1>1. n \in Nat /\ \A i \in 1..n : X[i] \in Seq(B) BY ElementOfSeq
<1>2. /\ seqs \in Seq(Seq(B)) /\ Len(seqs) = n
      /\ \A i \in 1..n : seqs[i] = Append(X[i], NEWLINE) /\ seqs[i] \in Seq(B)
  <2>1. \A i \in 1..n : Append(X[i], NEWLINE) \in Seq(B) BY <1>1, AppendProperties
  <2> HIDE DEF n
  <2> QED BY <1>1, <2>1
<1>3. Printed(X) = FlattenSeq(seqs) BY DEF Printed
<1> HIDE DEF seqs
<1>4. PICK f : IsFlatten(f, seqs) /\ FlattenSeq(seqs) = IF Len(seqs) = 0 THEN seqs ELSE f[Len(seqs)]
  BY <1>2, TextFlattened
<1>5. Joins(f, seqs, B) BY <1>2, <1>4, TextIsFlatten
<1> DEFINE G(m) == IF m = 0 THEN <<>> ELSE f[m]
           q == [m \in 0..n |-> Len(G(m))]
<1>6. \A m \in 0..n : G(m) \in Seq(B)
  <2> TAKE m \in 0..n
  <2>1. CASE m = 0 BY <2>1
  <2>2. CASE m # 0
    <3>1. m \in 1..Len(seqs) BY <2>2, <1>2, <1>1
    <3> QED BY <3>1, <2>2, <1>5 DEF Joins
  <2> QED BY <2>1, <2>2
<1>7. ASSUME NEW m \in 0..n - 1 PROVE G(m + 1) = G(m) \o Append(X[m + 1], NEWLINE)
  <2>1. m + 1 \in 1..n /\ m + 1 # 0 BY <1>1
  <2>2. CASE m = 0
    <3>1. f[1] = seqs[1] BY <2>1, <1>1, <1>2, <1>5 DEF Joins
    <3>2. <<>> \o seqs[1] = seqs[1]
      <4>1. seqs[1] \in Seq(B) BY <2>1, <2>2, <1>2
      <4> QED BY <4>1, ConcatEmptySeq
    <3> QED BY <2>1, <2>2, <3>1, <3>2, <1>2
  <2>3. CASE m # 0
    <3>1. m + 1 \in 2..Len(seqs) /\ (m + 1) - 1 = m BY <2>1, <2>3, <1>1, <1>2
    <3>2. f[m + 1] = f[m] \o seqs[m + 1] BY <3>1, <1>5 DEF Joins
    <3> QED BY <2>1, <2>3, <3>2, <1>2
  <2> QED BY <2>2, <2>3
<1>8. q[0] = 0 /\ \A m \in 0..n : q[m] = Len(G(m)) BY <1>1
<1>9. Printed(X) = G(n)
  <2>1. CASE n = 0
    <3>1. seqs = <<>> BY <2>1, <1>2, EmptySeq
    <3> QED BY <3>1, <2>1, <1>2, <1>3, <1>4
  <2>2. CASE n # 0 BY <2>2, <1>2, <1>3, <1>4
  <2> QED BY <2>1, <2>2
<1> HIDE DEF q, G
<1> DEFINE M == {m \in 0..n : Laid(G(m), X, q, m)}
<1>10. 0 \in M
  <2>1. Laid(G(0), X, q, 0) BY <1>1, <1>8 DEF Laid
  <2> QED BY <1>1, <2>1
<1>11. ASSUME NEW m \in 0..n - 1, m \in M PROVE m + 1 \in M
  <2>1. m \in 0..n /\ m + 1 \in 0..n /\ m + 1 \in 1..n BY <1>1
  <2> DEFINE s == G(m)
             x == X[m + 1]
             t == G(m + 1)
  <2>2. s \in Seq(B) /\ t \in Seq(B) /\ x \in Seq(B) /\ Append(x, NEWLINE) \in Seq(B)
    BY <2>1, <1>1, <1>6, AppendProperties
  <2>3. t = s \o Append(x, NEWLINE) BY <1>7
  <2>4. Laid(s, X, q, m) BY <1>11
  <2>5. q[m] = Len(s) /\ q[m + 1] = Len(t) BY <2>1, <1>8
  <2>6. LineAt(t, x, Len(s), Len(s) + Len(x) + 1)
    <3> HIDE DEF s, x, t
    <3> QED BY <2>2, <2>3, TextLineJoined
  <2>7. Len(t) = Len(s) + Len(x) + 1
    <3>1. Len(Append(x, NEWLINE)) = Len(x) + 1 /\ Len(x) \in Nat /\ Len(s) \in Nat BY <2>2
    <3>2. Len(s \o Append(x, NEWLINE)) = Len(s) + Len(Append(x, NEWLINE)) BY <2>2, ConcatProperties
    <3> HIDE DEF s, x, t
    <3> QED BY <3>1, <3>2, <2>3
  <2>8. ASSUME NEW i \in 1..m + 1 PROVE LineAt(t, X[i], q[i - 1], q[i])
    <3>1. CASE i = m + 1
      <4>1. i - 1 = m BY <3>1, <2>1
      <4> HIDE DEF s, t
      <4> QED BY <4>1, <3>1, <2>5, <2>6, <2>7
    <3>2. CASE i # m + 1
      <4>1. i \in 1..m /\ i \in 1..n BY <3>2, <2>1, <1>1
      <4>2. LineAt(s, X[i], q[i - 1], q[i]) BY <4>1, <2>4 DEF Laid
      <4>3. X[i] \in Seq(B) BY <4>1, <1>1
      <4> DEFINE y == X[i]
                 b == q[i - 1]
                 e == q[i]
      <4>4. LineAt(s, y, b, e) /\ y \in Seq(B) BY <4>2, <4>3
      <4> HIDE DEF s, t, x, y, b, e
      <4>5. LineAt(s \o Append(x, NEWLINE), y, b, e) BY <4>4, <2>2, TextLineStays
      <4> QED BY <4>5, <2>3 DEF y, b, e
    <3> QED BY <3>1, <3>2
  <2>9. Laid(t, X, q, m + 1)
    <3> HIDE DEF t
    <3> QED BY <2>5, <2>8, <1>8 DEF Laid
  <2> QED BY <2>1, <2>9
<1>12. 0..n \subseteq M
  <2> HIDE DEF M, n
  <2> QED BY <1>1, <1>10, <1>11, CountUp
<1>13. Laid(G(n), X, q, n) BY <1>12, <1>1
<1>14. G(n) \in Seq(B) BY <1>6, <1>1
<1> QED BY <1>9, <1>13, <1>14

\* Lines are the pieces of what is printed, with an empty one after the last.
LEMMA TextPiecesPrinted ==
  ASSUME NEW B, NEWLINE \in B, NEW X \in Seq(Seq(B)), Plain(X)
  PROVE  Front(Pieces(Printed(X), <<NEWLINE>>)) = X
<1> DEFINE n == Len(X)
           s == Printed(X)
           pat == <<NEWLINE>>
           F == FoundAt(s, pat)
           count == CutCount(s, pat)
           ps == Pieces(s, pat)
<1>1. n \in Nat /\ \A i \in 1..n : X[i] \in Seq(B) /\ Len(X[i]) \in Nat BY ElementOfSeq
<1>2. pat \in Seq(B) /\ pat # <<>> /\ Len(pat) = 1 /\ pat[1] = NEWLINE OBVIOUS
<1>3. s \in Seq(B) BY TextLaid
<1>4. PICK q : Laid(s, X, q, n) BY TextLaid
<1> HIDE DEF pat, s
<1>0. Len(s) \in Nat BY <1>3
<1>5. q[0] = 0 /\ Len(s) = q[n] /\ \A i \in 1..n : LineAt(s, X[i], q[i - 1], q[i])
  BY <1>4 DEF Laid
<1>6. ASSUME NEW k \in Nat
      PROVE  k \in F <=> k \in 0..Len(s) - 1 /\ s[k + 1] = NEWLINE
  <2>1. k \in F <=> IsAt(s, pat, k) BY <1>2, <1>3, TextFoundAt
  <2>2. IsAt(s, pat, k) <=> k \in 0..Len(s) - 1 /\ \A i \in 1..1 : s[k + i] = pat[i] BY <1>2 DEF IsAt
  <2>3. (\A i \in 1..1 : s[k + i] = pat[i]) <=> s[k + 1] = NEWLINE BY <1>2
  <2> QED BY <2>1, <2>2, <2>3
<1>7. F \in SUBSET Nat
  <2>1. \A k \in F : k \in 0..Len(s) - 1 BY <1>2, <1>3, TextFoundAt DEF IsAt
  <2> HIDE DEF F
  <2> QED BY <2>1, <1>0
\* A piece from a line on.
<1> DEFINE Good(i) == Place(s, pat, i, q[i])
<1>8. ASSUME NEW i \in 0..n - 1, Good(i)
      PROVE  Good(i + 1) /\ i < count /\ ps[i + 1] = X[i + 1]
  <2> DEFINE b == q[i]
             x == X[i + 1]
             e == b + Len(x)
  <2>1. i + 1 \in 1..n /\ (i + 1) - 1 = i BY <1>1
  <2>2. LineAt(s, x, b, q[i + 1]) BY <2>1, <1>5
  <2>3. x \in Seq(B) /\ Len(x) \in Nat /\ \A k \in 1..Len(x) : x[k] # NEWLINE
    BY <2>1, <1>1 DEF Plain
  <2>4. /\ b \in Nat /\ q[i + 1] = e + 1 /\ e \in Nat /\ e + 1 <= Len(s) /\ s[e + 1] = NEWLINE
        /\ \A k \in 1..Len(x) : s[b + k] = x[k]
    <3>1. /\ b \in Nat /\ q[i + 1] = b + Len(x) + 1 /\ q[i + 1] <= Len(s)
          /\ s[q[i + 1]] = NEWLINE /\ \A k \in 1..Len(x) : s[b + k] = x[k]
      BY <2>2 DEF LineAt
    <3> HIDE DEF b, x
    <3> QED BY <3>1, <2>3
  <2>5. Place(s, pat, i, b) BY <1>8
  <2> DEFINE newline == q[i + 1]
  <2> HIDE DEF b, x
  <2>6. e \in F
    <3>1. e \in 0..Len(s) - 1 BY <2>4, <1>0
    <3> QED BY <3>1, <2>4, <1>6
  <2>7. ASSUME NEW k \in F PROVE k < b \/ k >= e
    <3>1. ASSUME k >= b, k < e PROVE FALSE
      <4>1. k \in Nat BY <1>7
      <4>2. k + 1 - b \in 1..Len(x) /\ b + (k + 1 - b) = k + 1 BY <4>1, <3>1, <2>3, <2>4
      <4>3. s[k + 1] # NEWLINE BY <4>2, <2>3, <2>4
      <4> QED BY <4>1, <4>3, <1>6
    <3>2. k \in Nat BY <1>7
    <3> QED BY <3>1, <3>2, <2>4
  <2>8. e >= b /\ e - b = Len(x) BY <2>3, <2>4
  <2> DEFINE d == e
  <2> HIDE DEF F, e
  <2>9. /\ Place(s, pat, i + 1, e + Len(pat))
        /\ i < count
    <3>1. e \in FoundAt(s, pat) /\ \A k \in FoundAt(s, pat) : k < b \/ k >= e BY <2>6, <2>7 DEF F
    <3> QED BY <3>1, <2>5, <2>8, <1>2, <1>3, TextPlaceNext
  <2>10. PICK g : TokenIsPiece(s, pat, i, b, g) BY <2>5, <1>2, <1>3, TextTokenIsPiece
  <2>11. g \in F /\ IsToken(ps[i + 1], s, pat, b, g)
    <3>1. i # count
      <4>1. i \in Int BY <1>1
      <4> QED BY <4>1, <2>9
    <3> QED BY <3>1, <2>10 DEF TokenIsPiece, F
  <2>12. /\ g \in b..Len(s) /\ ps[i + 1] = SubSeq(s, b + 1, g)
         /\ \A k \in F : k < b \/ k >= g
    BY <2>11 DEF IsToken, F
  <2>13. g = e
    <3>1. g \in Nat /\ g >= b BY <2>12, <2>4, <1>0
    <3>2. g >= e BY <3>1, <2>7, <2>11, <2>4
    <3>3. e >= g BY <3>1, <2>12, <2>6, <2>8, <2>4
    <3> QED BY <3>1, <3>2, <3>3, <2>4
  <2>14. IsPart(x, s, b, e) BY <2>4, <2>8 DEF IsPart
  <2>15. ps[i + 1] \in Seq(B) /\ IsPart(ps[i + 1], s, b, e)
    <3>1. b <= e /\ e <= Len(s) BY <2>4, <2>8, <1>0
    <3>2. SubSeq(s, b + 1, e) \in Seq(B) /\ IsPart(SubSeq(s, b + 1, e), s, b, e)
      BY <3>1, <2>4, <1>3, TextPart
    <3> QED BY <3>2, <2>12, <2>13
  <2>16. ps[i + 1] = x
    <3> DEFINE y == ps[i + 1]
    <3>1. y \in Seq(B) /\ IsPart(y, s, b, e) BY <2>15
    <3> HIDE DEF y
    <3>2. y = x BY <3>1, <2>3, <2>14, TextPartEqual
    <3> QED BY <3>2 DEF y
  <2>17. e + Len(pat) = q[i + 1] BY <2>4, <1>2
  <2> QED BY <2>9, <2>16, <2>17 DEF x
<1> HIDE DEF F
<1>9. \A i \in 0..n : Good(i)
  <2> DEFINE M == {i \in 0..n : Good(i)}
  <2>1. 0 \in M
    <3>1. Place(s, pat, 0, 0) BY <1>2, <1>3, TextPlaceFirst
    <3> QED BY <3>1, <1>1, <1>5
  <2>2. ASSUME NEW i \in 0..n - 1, i \in M PROVE i + 1 \in M
    <3>1. Good(i) BY <2>2
    <3>2. Good(i + 1) BY <3>1, <1>8
    <3>3. i + 1 \in 0..n BY <1>1
    <3> HIDE DEF Good
    <3> QED BY <3>2, <3>3
  <2>3. 0..n \subseteq M
    <3> HIDE DEF M, n
    <3> QED BY <1>1, <2>1, <2>2, CountUp
  <2> QED BY <2>3
<1>10. n = count
  <2>1. Place(s, pat, n, Len(s)) BY <1>1, <1>5, <1>9
  <2>2. \A k \in FoundAt(s, pat) : k < Len(s)
    <3>1. \A k \in FoundAt(s, pat) : k \in 0..Len(s) - 1 BY <1>2, <1>3, TextFoundAt DEF IsAt
    <3> QED BY <3>1, <1>0
  <2> DEFINE m == Len(s)
  <2> HIDE DEF m
  <2>3. n = CutCount(s, pat) BY <2>1, <2>2, <1>2, <1>3, TextPlaceLast DEF m
  <2> QED BY <2>3
<1>11. ps \in Seq(Seq(B)) /\ Len(ps) = n + 1 BY <1>2, <1>3, <1>10, TextPiecesType
<1>12. \A i \in 1..n : ps[i] = X[i]
  <2> TAKE i \in 1..n
  <2>1. i - 1 \in 0..n - 1 /\ (i - 1) + 1 = i /\ i - 1 \in 0..n BY <1>1
  <2>2. ps[(i - 1) + 1] = X[(i - 1) + 1] BY <2>1, <1>8, <1>9
  <2> QED BY <2>1, <2>2
<1> HIDE DEF ps, count
<1>13. ps # <<>>
  <2>1. Len(ps) # 0 BY <1>1, <1>11
  <2> QED BY <2>1
<1>14. /\ Front(ps) \in Seq(Seq(B)) /\ Len(Front(ps)) = Len(ps) - 1
       /\ \A i \in 1..Len(ps) - 1 : Front(ps)[i] = ps[i]
  BY <1>11, <1>13, TextFront
<1>15. Len(Front(ps)) = n /\ \A i \in 1..n : Front(ps)[i] = X[i] BY <1>1, <1>11, <1>12, <1>14
<1>16. Front(ps) = X
  <2> DEFINE t == Front(ps)
  <2>1. t \in Seq(Seq(B)) /\ Len(t) = n /\ \A i \in 1..n : t[i] = X[i] BY <1>14, <1>15
  <2> HIDE DEF t
  <2>2. t = X BY <2>1, SeqEqual
  <2> QED BY <2>2 DEF t
<1> QED BY <1>16 DEF ps, s, pat

-----------------------------------------------------------------------------
(* What is asked.                                                          *)

\* What is known of a job.
LEMMA TextJobFacts ==
  ASSUME IsJob(job)
  PROVE  JobFacts
BY DEF IsJob, JobFacts, PlainLine, LineCommands, Is

\* Bytes but NUL are bytes.
LEMMA TextCharsAreBytes == \A s \in Seq(1..255) : s \in Seq(Byte)
<1>1. 1..255 \subseteq Byte BY DEF Byte
<1> QED BY <1>1, SeqMonotonic

\* Plain lines are lines, and sequences of bytes.
LEMMA TextPlainLines ==
  /\ \A s \in PlainLine : s \in Line /\ s \in Seq(Byte)
  /\ \A X \in Seq(PlainLine) : X \in Seq(Line) /\ X \in Seq(Seq(Byte))
<1>1. 1..255 \ {10} \subseteq CChar /\ 1..255 \ {10} \subseteq Byte BY DEF CChar, Byte
<1>2. PlainLine \subseteq Line /\ PlainLine \subseteq Seq(Byte)
  BY <1>1, SeqMonotonic DEF PlainLine, Line
<1>3. Seq(PlainLine) \subseteq Seq(Line) /\ Seq(PlainLine) \subseteq Seq(Seq(Byte))
  BY <1>2, SeqMonotonic
<1> QED BY <1>2, <1>3

\* A blank or a sign is no digit.
LEMMA TextDigitFirst ==
  \A c \in Blank \union {PLUS, MINUS} : Digit(c) = -1
BY DEF Digit, Blank, PLUS, MINUS

\* A pair of characters is a byte.
LEMMA TextPair ==
  ASSUME NEW c \in Byte, NEW d \in Byte
  PROVE  Pair(c, d) \in Byte
<1>1. ASSUME NEW x \in Byte PROVE Digit(x) \in -1..15
  <2>1. x \in Int BY DEF Byte
  <2> QED BY <2>1 DEF Digit
<1>2. Digit(c) \in -1..15 /\ Digit(d) \in -1..15 BY <1>1
<1> DEFINE x == Digit(c)
           y == Digit(d)
<1>3. Pair(c, d) =
        IF y < 0 THEN IF x < 0 THEN 0 ELSE x
        ELSE CASE x >= 0                    -> 16 * x + y
               [] c \in Blank \union {PLUS} -> y
               [] c = MINUS                 -> (256 - y) % 256
               [] OTHER                     -> 0
  BY DEF Pair
<1> HIDE DEF x, y
<1>4. x \in -1..15 /\ y \in -1..15 BY <1>2 DEF x, y
<1>5. y >= 0 /\ x < 0 => Pair(c, d) \in {y, (256 - y) % 256, 0}
  <2>1. CASE c \in Blank \union {PLUS} BY <1>3, <1>4, <2>1 DEF Blank, PLUS, MINUS
  <2>2. CASE c = MINUS /\ c \notin Blank \union {PLUS} BY <1>3, <1>4, <2>2
  <2>3. CASE c # MINUS /\ c \notin Blank \union {PLUS} BY <1>3, <1>4, <2>3
  <2> QED BY <2>1, <2>2, <2>3
<1>6. CASE y < 0 BY <1>3, <1>4, <1>6 DEF Byte
<1>7. CASE y >= 0 /\ x >= 0
  <2>1. 16 * x + y \in 0..255 BY <1>4, <1>7
  <2>2. Pair(c, d) = 16 * x + y
    <3>1. CASE c \in Blank \union {PLUS} BY <1>3, <1>4, <1>7, <3>1, TextDigitFirst DEF x
    <3>2. CASE c = MINUS BY <1>3, <1>4, <1>7, <3>2, TextDigitFirst DEF x
    <3>3. CASE c # MINUS /\ c \notin Blank \union {PLUS} BY <1>3, <1>4, <1>7, <3>3
    <3> QED BY <3>1, <3>2, <3>3
  <2> QED BY <2>1, <2>2 DEF Byte
<1>8. CASE y >= 0 /\ x < 0
  <2>1. {y, (256 - y) % 256, 0} \subseteq 0..255 BY <1>4, <1>8
  <2> QED BY <1>5, <1>8, <2>1 DEF Byte
<1> QED BY <1>4, <1>6, <1>7, <1>8

\* An argument of replace stands for bytes, for some if it has some.
LEMMA TextUnhexed ==
  ASSUME NEW arg \in Seq(1..255)
  PROVE  Unhexed(arg) \in Seq(Byte) /\ (arg # <<>> <=> Unhexed(arg) # <<>>)
<1> DEFINE n == Len(arg)
           k == (n - 1) \div 2
           hex == [i \in 1..k |-> Pair(arg[2 * i + 1], Append(arg, 0)[2 * i + 2])]
<1>1. n \in Nat /\ arg \in Seq(Byte) /\ \A i \in 1..n : arg[i] \in Byte
  <2>1. arg \in Seq(Byte) BY TextCharsAreBytes
  <2> QED BY <2>1, ElementOfSeq
<1>2. Unhexed(arg) = IF n > 2 /\ IsPrefix(<<48, 120>>, arg) THEN hex ELSE arg BY DEF Unhexed
<1>3. CASE n > 2 /\ IsPrefix(<<48, 120>>, arg)
  <2> HIDE DEF n
  <2>1. k \in Nat /\ k >= 1 /\ 2 * k <= n - 1 BY <1>1, <1>3
  <2>2. \A i \in 1..n + 1 : Append(arg, 0)[i] \in Byte
    <3>1. Append(arg, 0) \in Seq(Byte) /\ Len(Append(arg, 0)) = n + 1
      <4>1. 0 \in Byte BY DEF Byte
      <4> QED BY <1>1, <4>1, AppendProperties DEF n
    <3> QED BY <3>1, ElementOfSeq
  <2> HIDE DEF k
  <2>3. ASSUME NEW i \in 1..k PROVE Pair(arg[2 * i + 1], Append(arg, 0)[2 * i + 2]) \in Byte
    <3>1. 2 * i + 1 \in 1..n /\ 2 * i + 2 \in 1..n + 1 BY <1>1, <2>1
    <3>2. arg[2 * i + 1] \in Byte /\ Append(arg, 0)[2 * i + 2] \in Byte BY <3>1, <1>1, <2>2
    <3> QED BY <3>2, TextPair
  <2>4. hex \in Seq(Byte) /\ Len(hex) = k
    <3>1. hex \in [1..k -> Byte] BY <2>3
    <3> HIDE DEF hex
    <3> QED BY <3>1, <2>1
  <2> HIDE DEF hex
  <2>5. hex # <<>> BY <2>1, <2>4
  <2>6. arg # <<>> BY <1>3 DEF n
  <2> QED BY <1>2, <1>3, <2>4, <2>5, <2>6
<1>4. CASE ~(n > 2 /\ IsPrefix(<<48, 120>>, arg)) BY <1>1, <1>2, <1>4
<1> QED BY <1>3, <1>4

\* What is known of the delimiter, where there is a pattern.
LEMMA TextDelimiter ==
  ASSUME IsJob(job), Is({"count", "replace"}) => job.pattern # <<>>
  PROVE  DelimiterFacts
<1>1. job.pattern \in Seq(1..255) BY TextJobFacts DEF JobFacts
<1>2. CASE Is({"count"})
  <2>1. Delimiter = job.pattern /\ job.pattern # <<>> BY <1>2 DEF Delimiter, Is
  <2>2. ~Is({"slicelines", "sort"}) /\ ~Is({"replace"}) BY <1>2 DEF Is
  <2>3. job.pattern \in Seq(Byte) BY <1>1, TextCharsAreBytes
  <2>4. job.pattern[Len(job.pattern)] # 0
    <3> DEFINE p == job.pattern
    <3>0. p \in Seq(1..255) /\ p # <<>> BY <1>1, <2>1
    <3> HIDE DEF p
    <3>1. Len(p) \in 1..Len(p)
      <4>1. Len(p) \in Nat /\ Len(p) # 0 BY <3>0, EmptySeq
      <4> QED BY <4>1
    <3>2. p[Len(p)] \in 1..255 BY <3>1, <3>0, ElementOfSeq
    <3>3. \A y \in 1..255 : y # 0 OBVIOUS
    <3>4. p[Len(p)] # 0 BY <3>2, <3>3
    <3> QED BY <3>4 DEF p
  <2> QED BY <2>1, <2>2, <2>3, <2>4 DEF DelimiterFacts
<1>3. CASE Is({"replace"})
  <2>1. Delimiter = Unhexed(job.pattern) /\ job.pattern # <<>> BY <1>3 DEF Delimiter, Is
  <2>2. ~Is({"slicelines", "sort"}) /\ ~Is({"count"}) BY <1>3 DEF Is
  <2>3. Unhexed(job.pattern) \in Seq(Byte) /\ Unhexed(job.pattern) # <<>> BY <1>1, <2>1, TextUnhexed
  <2> QED BY <2>1, <2>2, <2>3, <1>3 DEF DelimiterFacts
<1>4. CASE ~Is({"count"}) /\ ~Is({"replace"})
  <2>1. Delimiter = <<NEWLINE>> BY <1>4 DEF Delimiter
  <2>2. NEWLINE \in Byte /\ NEWLINE # 0 BY DEF NEWLINE, Byte
  <2>3. <<NEWLINE>> \in Seq(Byte) /\ <<NEWLINE>> # <<>> /\ Len(<<NEWLINE>>) = 1 /\ <<NEWLINE>>[1] # 0
    BY <2>2
  <2> QED BY <2>1, <2>3, <1>4 DEF DelimiterFacts
<1> QED BY <1>2, <1>3, <1>4

\* A function on 1..n + 1 is one on 1..n and one more.
LEMMA TextJoinNext ==
  ASSUME NEW B, NEW n \in Nat, NEW h, \A i \in 1..n + 1 : h[i] \in Seq(B)
  PROVE  /\ FlattenSeq([i \in 1..n |-> h[i]]) \in Seq(B)
         /\ FlattenSeq([i \in 1..n + 1 |-> h[i]]) = FlattenSeq([i \in 1..n |-> h[i]]) \o h[n + 1]
<1> DEFINE s == [i \in 1..n |-> h[i]]
           t == [i \in 1..n + 1 |-> h[i]]
           x == h[n + 1]
<1>1. \A i \in 1..n : i \in 1..n + 1 OBVIOUS
<1>2. s \in Seq(Seq(B)) /\ Len(s) = n /\ \A i \in 1..n : s[i] = h[i]
  <2>1. s \in [1..n -> Seq(B)] BY <1>1
  <2> QED BY <2>1
<1>3. t \in Seq(Seq(B)) /\ Len(t) = n + 1 /\ \A i \in 1..n + 1 : t[i] = h[i]
  <2>1. t \in [1..n + 1 -> Seq(B)] OBVIOUS
  <2> QED BY <2>1
<1>4. x \in Seq(B) OBVIOUS
<1> HIDE DEF s, t, x
<1>5. /\ Append(s, x) \in Seq(Seq(B)) /\ Len(Append(s, x)) = n + 1
      /\ \A i \in 1..n : Append(s, x)[i] = s[i]
      /\ Append(s, x)[n + 1] = x
  BY <1>2, <1>4, AppendProperties
<1>6. t = Append(s, x)
  <2> DEFINE u == Append(s, x)
  <2>1. u \in Seq(Seq(B)) /\ Len(u) = n + 1 BY <1>5
  <2>2. \A i \in 1..n + 1 : u[i] = t[i]
    <3> TAKE i \in 1..n + 1
    <3>1. i \in 1..n \/ i = n + 1 OBVIOUS
    <3> QED BY <3>1, <1>1, <1>2, <1>3, <1>5 DEF x
  <2> HIDE DEF u
  <2>3. u = t BY <2>1, <2>2, <1>3, SeqEqual
  <2> QED BY <2>3 DEF u
<1>7. FlattenSeq(Append(s, x)) = FlattenSeq(s) \o x BY <1>2, <1>4, TextFlattenAppend
<1>8. FlattenSeq(s) \in Seq(B) BY <1>2, TextFlattenType
<1> QED BY <1>6, <1>7, <1>8 DEF s, t, x

\* One more of a sequence.
LEMMA TextSubSeqNext ==
  ASSUME NEW S, NEW s \in Seq(S), NEW b \in Nat, NEW e \in Nat, b <= e, e < Len(s)
  PROVE  SubSeq(s, b + 1, e + 1) = Append(SubSeq(s, b + 1, e), s[e + 1])
<1> DEFINE t == SubSeq(s, b + 1, e)
           u == SubSeq(s, b + 1, e + 1)
           x == s[e + 1]
           k == e + 1
           m == e - b
<1>0. Len(s) \in Nat /\ m \in Nat OBVIOUS
<1>1. t \in Seq(S) /\ IsPart(t, s, b, e) BY <1>0, TextPart
<1>2. u \in Seq(S) /\ IsPart(u, s, b, k)
  <2>1. k \in Nat /\ b <= k /\ k <= Len(s) BY <1>0
  <2> HIDE DEF k
  <2>2. SubSeq(s, b + 1, k) \in Seq(S) /\ IsPart(SubSeq(s, b + 1, k), s, b, k) BY <2>1, TextPart
  <2> QED BY <2>2 DEF k
<1>3. x \in S
  <2>1. e + 1 \in 1..Len(s) BY <1>0
  <2> QED BY <2>1, ElementOfSeq
<1>4. k - b = m + 1 /\ b + (m + 1) = e + 1 OBVIOUS
<1>5. Len(t) = m /\ \A i \in 1..m : t[i] = s[b + i] BY <1>1 DEF IsPart
<1>6. Len(u) = m + 1 /\ \A i \in 1..m + 1 : u[i] = s[b + i] BY <1>2, <1>4 DEF IsPart
<1>7. u[m + 1] = x BY <1>0, <1>4, <1>6
<1> HIDE DEF t, u, x, m
<1>8. /\ Append(t, x) \in Seq(S) /\ Len(Append(t, x)) = m + 1
      /\ \A i \in 1..m : Append(t, x)[i] = t[i]
      /\ Append(t, x)[m + 1] = x
  BY <1>1, <1>3, <1>5, AppendProperties
<1>9. \A i \in 1..m + 1 : i \in 1..m \/ i = m + 1 BY <1>0
<1>10. \A i \in 1..m + 1 : Append(t, x)[i] = u[i] BY <1>5, <1>6, <1>7, <1>8, <1>9, <1>0
<1> DEFINE v == Append(t, x)
<1>11. v \in Seq(S) /\ Len(v) = m + 1 /\ \A i \in 1..m + 1 : v[i] = u[i] BY <1>8, <1>10
<1> HIDE DEF v
<1>12. v = u BY <1>2, <1>6, <1>11, SeqEqual
<1> QED BY <1>12 DEF v, t, u, x

-----------------------------------------------------------------------------
(* What the commands print of the pieces.                                  *)

\* A line as it is kept is plain, if it has no newline.
LEMMA TextCString ==
  ASSUME NEW x \in Seq(Byte), \A k \in 1..Len(x) : x[k] # NEWLINE
  PROVE  CString(x) \in PlainLine
<1> DEFINE n == Len(x)
           D == {i \in 0..n : Append(x, 0)[i + 1] = 0}
           m == Min(D)
<1>1. n \in Nat /\ \A k \in 1..n : x[k] \in Byte /\ x[k] # NEWLINE /\ Append(x, 0)[k] = x[k]
  BY ElementOfSeq
<1>2. Append(x, 0)[n + 1] = 0 OBVIOUS
<1>3. D \in SUBSET Nat /\ n \in D BY <1>1, <1>2
<1>4. m \in D /\ \A i \in D : m <= i
  <2>1. D # {} BY <1>3
  <2> HIDE DEF D
  <2> QED BY <2>1, <1>3, TextMin
<1>5. CString(x) = SubSeq(x, 1, m) BY DEF CString
<1>6. m \in Nat /\ m <= n
  <2> HIDE DEF m, D
  <2> QED BY <1>3, <1>4
<1>7. ASSUME NEW k \in 1..m PROVE x[k] # 0
  <2>1. k - 1 \in 0..n /\ (k - 1) + 1 = k /\ k \in 1..n /\ ~(m <= k - 1)
    <3>1. n \in Nat BY <1>1
    <3> HIDE DEF m, n
    <3> QED BY <3>1, <1>6
  <2>2. k - 1 \notin D
    <3> HIDE DEF m, D
    <3> QED BY <2>1, <1>4
  <2>3. Append(x, 0)[k] # 0
    <3> HIDE DEF m, n
    <3> QED BY <2>1, <2>2
  <2> QED BY <2>1, <2>3, <1>1
<1> HIDE DEF m, n
<1>8. ASSUME NEW k \in 1..m PROVE x[k] \in 1..255 \ {10}
  <2>1. k \in 1..n BY <1>1, <1>6
  <2>2. x[k] \in 0..255 /\ x[k] # 10 /\ x[k] # 0 BY <2>1, <1>1, <1>7 DEF Byte, NEWLINE
  <2>3. \A y \in 0..255 : y # 10 /\ y # 0 => y \in 1..255 \ {10} OBVIOUS
  <2> QED BY <2>2, <2>3
<1>9. SubSeq(x, 1, m) \in PlainLine BY <1>6, <1>8, SubSeqProperties DEF PlainLine
<1> QED BY <1>5, <1>9

\* What is kept, piece by piece.
LEMMA TextKeptNext ==
  ASSUME NEW ps \in Seq(Seq(Byte)), Plain(ps), NEW p \in 0..Len(ps)
  PROVE  /\ KeptFrom(ps, p) \in Seq(PlainLine)
         /\ p < Len(ps) => KeptFrom(ps, p + 1) = KeptFrom(ps, p) \o Kept1(ps[p + 1])
<1> DEFINE n == Len(ps)
           h == [i \in 1..n |-> Kept1(ps[i])]
<1>1. n \in Nat /\ p \in Nat /\ p <= n OBVIOUS
<1>2. ASSUME NEW i \in 1..n PROVE Kept1(ps[i]) \in Seq(PlainLine)
  <2> DEFINE x == ps[i]
  <2>1. x \in Seq(Byte) /\ \A k \in 1..Len(x) : x[k] # NEWLINE BY ElementOfSeq DEF Plain
  <2> HIDE DEF x
  <2>2. CString(x) \in PlainLine BY <2>1, TextCString
  <2>3. Kept1(x) \in Seq(PlainLine) BY <2>2 DEF Kept1
  <2> QED BY <2>3 DEF x
<1>3. \A i \in 1..n : h[i] \in Seq(PlainLine) /\ h[i] = Kept1(ps[i]) BY <1>2
<1> HIDE DEF h
<1>4. ASSUME NEW q \in 0..n PROVE KeptFrom(ps, q) = FlattenSeq([i \in 1..q |-> h[i]])
  <2>1. \A i \in 1..q : h[i] = Kept1(ps[i])
    <3>1. \A i \in 1..q : i \in 1..n BY <1>1
    <3> QED BY <3>1, <1>3
  <2>2. [i \in 1..q |-> h[i]] = [i \in 1..q |-> Kept1(ps[i])] BY <2>1
  <2> QED BY <2>2 DEF KeptFrom
<1> DEFINE s(q) == FlattenSeq([i \in 1..q |-> h[i]])
<1>5. ASSUME p < n
      PROVE  s(p) \in Seq(PlainLine) /\ s(p + 1) = s(p) \o h[p + 1]
  <2>1. \A i \in 1..p + 1 : h[i] \in Seq(PlainLine)
    <3>1. \A i \in 1..p + 1 : i \in 1..n BY <1>1, <1>5
    <3> QED BY <3>1, <1>3
  <2> HIDE DEF n
  <2> QED BY <2>1, <1>1, TextJoinNext
<1>6. s(p) \in Seq(PlainLine)
  <2> DEFINE t == [i \in 1..p |-> h[i]]
  <2>1. \A i \in 1..p : h[i] \in Seq(PlainLine)
    <3>1. \A i \in 1..p : i \in 1..n BY <1>1
    <3> QED BY <3>1, <1>3
  <2>2. t \in [1..p -> Seq(PlainLine)] BY <2>1
  <2>3. t \in Seq(Seq(PlainLine)) BY <2>2, <1>1
  <2> HIDE DEF t
  <2>4. FlattenSeq(t) \in Seq(PlainLine) BY <2>3, TextFlattenType
  <2> QED BY <2>4 DEF t
<1>7. KeptFrom(ps, p) = s(p) BY <1>1, <1>4
<1>8. ASSUME p < n PROVE KeptFrom(ps, p + 1) = s(p + 1) /\ h[p + 1] = Kept1(ps[p + 1])
  <2> DEFINE q == p + 1
  <2>1. q \in 0..n /\ q \in 1..n BY <1>1, <1>8
  <2> HIDE DEF q, n
  <2>2. KeptFrom(ps, q) = s(q) BY <2>1, <1>4
  <2> QED BY <2>1, <2>2, <1>3 DEF q
<1> HIDE DEF s
<1> QED BY <1>5, <1>6, <1>7, <1>8

\* Nothing is kept of nothing.
LEMMA TextKeptNone == \A ps : KeptFrom(ps, 0) = <<>>
<1> TAKE ps
<1>1. [i \in 1..0 |-> Kept1(ps[i])] = <<>> OBVIOUS
<1> QED BY <1>1, TextFlattenNone DEF KeptFrom

\* Printing one more line.
LEMMA TextPrintedNext ==
  ASSUME NEW B, NEWLINE \in B, NEW X \in Seq(Seq(B)), NEW x \in Seq(B)
  PROVE  Printed(Append(X, x)) = Printed(X) \o Append(x, NEWLINE)
<1> DEFINE n == Len(X)
           Y == Append(X, x)
           h == [i \in 1..n + 1 |-> Append(Y[i], NEWLINE)]
<1>1. n \in Nat /\ Y \in Seq(Seq(B)) /\ Len(Y) = n + 1 /\ Y[n + 1] = x /\ \A i \in 1..n : Y[i] = X[i]
  BY AppendProperties
<1> HIDE DEF Y
<1>2. ASSUME NEW i \in 1..n + 1 PROVE Append(Y[i], NEWLINE) \in Seq(B)
  <2>1. i \in 1..Len(Y) BY <1>1
  <2>2. Y[i] \in Seq(B) BY <2>1, <1>1, ElementOfSeq
  <2> QED BY <2>2, AppendProperties
<1>3. \A i \in 1..n + 1 : h[i] \in Seq(B) /\ h[i] = Append(Y[i], NEWLINE) BY <1>2
<1>4. \A i \in 1..n : i \in 1..n + 1 BY <1>1
<1> HIDE DEF h, n
<1>5. FlattenSeq([i \in 1..n + 1 |-> h[i]]) = FlattenSeq([i \in 1..n |-> h[i]]) \o h[n + 1]
  BY <1>1, <1>3, TextJoinNext
<1>6. [i \in 1..n + 1 |-> h[i]] = [i \in 1..n + 1 |-> Append(Y[i], NEWLINE)] BY <1>3
<1>7. [i \in 1..n |-> h[i]] = [i \in 1..n |-> Append(X[i], NEWLINE)] BY <1>1, <1>3, <1>4
<1>8. Printed(Y) = FlattenSeq([i \in 1..n + 1 |-> h[i]]) BY <1>1, <1>6 DEF Printed
<1>9. Printed(X) = FlattenSeq([i \in 1..n |-> h[i]]) BY <1>7 DEF Printed, n
<1>10. h[n + 1] = Append(x, NEWLINE)
  <2>1. n + 1 \in 1..n + 1 BY <1>1
  <2> QED BY <2>1, <1>1, <1>3
<1> QED BY <1>5, <1>8, <1>9, <1>10 DEF Y

\* No lines are printed as nothing.
LEMMA TextPrintedNone == Printed(<<>>) = <<>>
<1>1. [i \in 1..Len(<<>>) |-> Append(<<>>[i], NEWLINE)] = <<>> OBVIOUS
<1> QED BY <1>1, TextFlattenNone DEF Printed

\* Before the first piece slicelines has printed nothing.
LEMMA TextSlicedNone ==
  ASSUME NEW ps, NEW b \in Nat, b >= 1, NEW c \in Nat
  PROVE  SlicedFrom(ps, b, c, 0) = <<>>
<1> DEFINE m == Min({b + c - 1, 0})
<1>1. b + c - 1 \in Int /\ b + c - 1 >= 0 OBVIOUS
<1>2. m = 0
  <2> DEFINE x == b + c - 1
  <2>0. x \in Int /\ x >= 0 BY <1>1
  <2> HIDE DEF x
  <2>1. Min({x, 0}) = IF x <= 0 THEN x ELSE 0 BY <2>0, TextMinOfTwo
  <2>2. Min({x, 0}) = 0 BY <2>0, <2>1
  <2> QED BY <2>2 DEF x
<1>3. SubSeq(ps, b, 0) = <<>> BY SubSeqEmpty
<1> QED BY <1>2, <1>3, TextPrintedNone DEF SlicedFrom

\* It prints the next piece where that is one of those asked for.
LEMMA TextSlicedNext ==
  ASSUME NEW ps \in Seq(Seq(Byte)), NEW b \in Nat, b >= 1, NEW c \in Nat, NEW p \in 0..Len(ps) - 1
  PROVE  SlicedFrom(ps, b, c, p + 1) =
           IF p + 1 \in b..(b + c - 1) THEN SlicedFrom(ps, b, c, p) \o Append(ps[p + 1], NEWLINE)
                                       ELSE SlicedFrom(ps, b, c, p)
<1> DEFINE last == b + c - 1
           k == p + 1
<1>1. last \in Int /\ p \in Nat /\ k \in Nat /\ Len(ps) \in Nat /\ p < Len(ps) OBVIOUS
<1>2. /\ Min({last, k}) = IF last <= k THEN last ELSE k
      /\ Min({last, p}) = IF last <= p THEN last ELSE p
  <2> HIDE DEF last, k
  <2>1. Min({last, k}) = IF last <= k THEN last ELSE k
    <3>1. last \in Int /\ k \in Int BY <1>1
    <3> QED BY <3>1, TextMinOfTwo
  <2>2. Min({last, p}) = IF last <= p THEN last ELSE p
    <3>1. last \in Int /\ p \in Int BY <1>1
    <3> QED BY <3>1, TextMinOfTwo
  <2> QED BY <2>1, <2>2
<1>3. CASE k \in b..last
  <2>1. Min({last, k}) = k /\ Min({last, p}) = p
    <3> HIDE DEF last
    <3> QED BY <1>1, <1>2, <1>3
  <2> DEFINE a == b - 1
             X == SubSeq(ps, b, p)
  <2>2. a \in Nat /\ a + 1 = b /\ a <= p BY <1>1, <1>3
  <2> HIDE DEF a
  <2>3. SubSeq(ps, a + 1, p + 1) = Append(SubSeq(ps, a + 1, p), ps[p + 1])
    BY <1>1, <2>2, TextSubSeqNext
  <2>4. SubSeq(ps, b, k) = Append(X, ps[k]) BY <2>2, <2>3
  <2>5. X \in Seq(Seq(Byte))
    <3>1. SubSeq(ps, a + 1, p) \in Seq(Seq(Byte)) BY <1>1, <2>2, TextPart
    <3> QED BY <3>1, <2>2
  <2>6. ps[k] \in Seq(Byte)
    <3>1. k \in 1..Len(ps) BY <1>1
    <3> QED BY <3>1, ElementOfSeq
  <2>7. NEWLINE \in Byte BY DEF NEWLINE, Byte
  <2> DEFINE x == ps[k]
  <2> HIDE DEF X, x
  <2>8. Printed(Append(X, x)) = Printed(X) \o Append(x, NEWLINE)
    BY <2>5, <2>6, <2>7, TextPrintedNext DEF x
  <2> QED BY <2>1, <2>4, <2>8, <1>3 DEF SlicedFrom, X, x
<1>4. CASE k \notin b..last
  <2>1. CASE k < b
    <3>1. Min({last, k}) < b /\ Min({last, p}) < b /\ Min({last, k}) \in Int /\ Min({last, p}) \in Int
      <4> HIDE DEF last
      <4> QED BY <1>1, <1>2, <2>1
    <3>2. SubSeq(ps, b, Min({last, k})) = <<>> /\ SubSeq(ps, b, Min({last, p})) = <<>>
      BY <3>1, SubSeqEmpty
    <3> QED BY <3>2, <1>4 DEF SlicedFrom
  <2>2. CASE ~(k < b)
    <3>1. Min({last, k}) = last /\ Min({last, p}) = last
      <4>1. k > last BY <1>1, <1>4, <2>2
      <4>2. last <= k /\ last <= p BY <4>1, <1>1
      <4> HIDE DEF last
      <4> QED BY <4>2, <1>2
    <3> QED BY <3>1, <1>4 DEF SlicedFrom
  <2> QED BY <2>1, <2>2
<1> QED BY <1>3, <1>4

\* Before the first piece replace has printed nothing.
LEMMA TextReplacedNone == \A ps, r : ReplacedFrom(ps, r, 0) = <<>>
<1> TAKE ps, r
<1>1. [i \in 1..0 |-> PutPiece(ps, r, i)] = <<>> OBVIOUS
<1> QED BY <1>1, TextFlattenNone DEF ReplacedFrom

\* What it prints with one more piece.
LEMMA TextReplacedNext ==
  ASSUME NEW ps \in Seq(Seq(Byte)), NEW r \in Seq(Byte), NEW p \in 0..Len(ps) - 1
  PROVE  /\ ReplacedFrom(ps, r, p) \in Seq(Byte)
         /\ ReplacedFrom(ps, r, p + 1) = ReplacedFrom(ps, r, p) \o PutPiece(ps, r, p + 1)
<1> DEFINE n == Len(ps)
           h == [i \in 1..n |-> PutPiece(ps, r, i)]
           k == p + 1
<1>1. n \in Nat /\ p \in Nat /\ k \in 0..n /\ k \in 1..n /\ p \in 0..n OBVIOUS
<1>2. ASSUME NEW i \in 1..n PROVE PutPiece(ps, r, i) \in Seq(Byte)
  <2>1. ps[i] \in Seq(Byte) BY ElementOfSeq
  <2>2. PutBefore(ps, r, i) \in Seq(Byte) BY DEF PutBefore
  <2>3. PutBefore(ps, r, i) \o ps[i] \in Seq(Byte) BY <2>1, <2>2, ConcatProperties
  <2> QED BY <2>1, <2>3 DEF PutPiece
<1>3. \A i \in 1..n : h[i] \in Seq(Byte) /\ h[i] = PutPiece(ps, r, i) BY <1>2
<1> HIDE DEF h
<1>4. ASSUME NEW q \in 0..n PROVE ReplacedFrom(ps, r, q) = FlattenSeq([i \in 1..q |-> h[i]])
  <2>1. \A i \in 1..q : h[i] = PutPiece(ps, r, i)
    <3>1. \A i \in 1..q : i \in 1..n BY <1>1
    <3> QED BY <3>1, <1>3
  <2>2. [i \in 1..q |-> h[i]] = [i \in 1..q |-> PutPiece(ps, r, i)] BY <2>1
  <2> QED BY <2>2 DEF ReplacedFrom
<1>5. /\ FlattenSeq([i \in 1..p |-> h[i]]) \in Seq(Byte)
      /\ FlattenSeq([i \in 1..p + 1 |-> h[i]]) = FlattenSeq([i \in 1..p |-> h[i]]) \o h[p + 1]
  <2>1. \A i \in 1..p + 1 : h[i] \in Seq(Byte)
    <3>1. \A i \in 1..p + 1 : i \in 1..n BY <1>1
    <3> QED BY <3>1, <1>3
  <2> HIDE DEF n
  <2> QED BY <2>1, <1>1, TextJoinNext
<1>6. ReplacedFrom(ps, r, p) = FlattenSeq([i \in 1..p |-> h[i]]) BY <1>1, <1>4
<1>7. ReplacedFrom(ps, r, k) = FlattenSeq([i \in 1..k |-> h[i]]) /\ h[k] = PutPiece(ps, r, k)
  <2> HIDE DEF k, n
  <2> QED BY <1>1, <1>3, <1>4
<1> QED BY <1>5, <1>6, <1>7

-----------------------------------------------------------------------------
(* Strings and files.                                                      *)

\* A string without its NUL.
LEMMA TextView ==
  /\ \A s \in Seq(Byte) : View(s) \in Seq(Byte)
  /\ \A s \in Seq(Byte) : View(s \o <<0>>) = s
  /\ View(<<>>) = <<>>
<1>0. 0 \in Byte BY DEF Byte
<1>1. ASSUME NEW s \in Seq(Byte) PROVE View(s) \in Seq(Byte)
  <2> DEFINE m == Len(s) - 1
  <2>1. m \in Int /\ \A i \in 1..m : i \in 1..Len(s) OBVIOUS
  <2>2. \A i \in 1..m : s[i] \in Byte BY <2>1, ElementOfSeq
  <2> HIDE DEF m
  <2>3. SubSeq(s, 1, m) \in Seq(Byte) BY <2>1, <2>2, SubSeqProperties
  <2> QED BY <2>3 DEF View, m
<1>2. ASSUME NEW s \in Seq(Byte) PROVE View(s \o <<0>>) = s
  <2> DEFINE t == s \o <<0>>
             n == Len(s)
             u == SubSeq(t, 1, n)
  <2>1. t \in Seq(Byte) /\ Len(t) = n + 1 /\ n \in Nat /\ \A i \in 1..n : t[i] = s[i]
    <3>1. <<0>> \in Seq(Byte) /\ Len(<<0>>) = 1 BY <1>0
    <3>2. /\ t \in Seq(Byte) /\ Len(t) = n + Len(<<0>>)
          /\ \A i \in 1..n + Len(<<0>>) : t[i] = IF i <= n THEN s[i] ELSE <<0>>[i - n]
      BY <3>1, ConcatProperties
    <3> HIDE DEF t
    <3>3. n \in Nat /\ \A i \in 1..n : i \in 1..n + 1 /\ i <= n OBVIOUS
    <3> HIDE DEF n
    <3> QED BY <3>1, <3>2, <3>3
  <2> HIDE DEF t
  <2>2. View(t) = u
    <3>1. Len(t) - 1 = n BY <2>1
    <3> QED BY <3>1 DEF View
  <2>3. u \in Seq(Byte) /\ Len(u) = n /\ \A i \in 1..n : u[i] = t[i]
    <3> HIDE DEF n
    <3>1. \A i \in 1..n : t[i] \in Byte
      <4>1. \A i \in 1..n : i \in 1..Len(t) BY <2>1
      <4> QED BY <4>1, <2>1, ElementOfSeq
    <3>2. /\ u \in Seq(Byte) /\ Len(u) = IF 1 <= n THEN n - 1 + 1 ELSE 0
          /\ \A i \in 1..n - 1 + 1 : u[i] = t[1 + i - 1]
      BY <2>1, <3>1, SubSeqProperties
    <3> HIDE DEF u
    <3> QED BY <2>1, <3>2
  <2> HIDE DEF u
  <2>4. u = s
    <3>1. \A i \in 1..n : u[i] = s[i] BY <2>1, <2>3
    <3> QED BY <3>1, <2>3, SeqEqual
  <2> QED BY <2>2, <2>4 DEF t
<1>3. View(<<>>) = <<>>
  <2>1. Len(<<>>) - 1 < 1 /\ Len(<<>>) - 1 \in Int OBVIOUS
  <2>2. SubSeq(<<>>, 1, Len(<<>>) - 1) = <<>> BY <2>1, SubSeqEmpty
  <2> QED BY <2>2 DEF View
<1> QED BY <1>1, <1>2, <1>3

\* Extending a string.
LEMMA TextExtended ==
  ASSUME NEW s \in Seq(Byte), NEW t \in Seq(Byte)
  PROVE  Extended(s, t) \in Seq(Byte) /\ View(Extended(s, t)) = View(s) \o View(t)
<1>1. View(s) \in Seq(Byte) /\ View(t) \in Seq(Byte) BY TextView
<1> DEFINE u == View(s) \o View(t)
<1>2. u \in Seq(Byte) BY <1>1, ConcatProperties
<1>3. Extended(s, t) = u \o <<0>> BY DEF Extended
<1> HIDE DEF u
<1>4. 0 \in Byte BY DEF Byte
<1>5. <<0>> \in Seq(Byte) BY <1>4
<1>6. u \o <<0>> \in Seq(Byte) BY <1>2, <1>5, ConcatProperties
<1>7. View(u \o <<0>>) = u BY <1>2, TextView
<1> QED BY <1>3, <1>6, <1>7 DEF u

\* A text with its NUL.
LEMMA TextWithNul ==
  ASSUME NEW s \in Seq(Byte)
  PROVE  /\ Append(s, 0) \in Seq(Byte) /\ Append(s, 0) # <<>>
         /\ Append(s, 0)[Len(Append(s, 0))] = 0
         /\ View(Append(s, 0)) = s
<1>1. 0 \in Byte BY DEF Byte
<1>2. Append(s, 0) \in Seq(Byte) BY <1>1, AppendProperties
<1>3. Append(s, 0) = s \o <<0>> BY <1>1, AppendIsConcat
<1>4. View(s \o <<0>>) = s BY TextView
<1>5. Append(s, 0) # <<>> /\ Append(s, 0)[Len(Append(s, 0))] = 0 OBVIOUS
<1> QED BY <1>2, <1>3, <1>4, <1>5

\* Joining one more of the files.
LEMMA TextJoinFile ==
  ASSUME NEW B, NEW F \in Seq(Seq(B)), NEW p \in 1..Len(F)
  PROVE  /\ FlattenSeq(SubSeq(F, 1, p - 1)) \in Seq(B)
         /\ FlattenSeq(SubSeq(F, 1, p)) = FlattenSeq(SubSeq(F, 1, p - 1)) \o F[p]
<1> DEFINE e == p - 1
           X == SubSeq(F, 1, e)
<1>1. e \in Nat /\ e < Len(F) /\ e + 1 = p /\ 0 \in Nat /\ 0 <= e /\ 0 + 1 = 1 /\ Len(F) \in Nat OBVIOUS
<1> HIDE DEF e
<1>2. X \in Seq(Seq(B))
  <2>1. e <= Len(F) BY <1>1
  <2>2. SubSeq(F, 0 + 1, e) \in Seq(Seq(B)) BY <1>1, <2>1, TextPart
  <2> QED BY <2>2, <1>1
<1>3. SubSeq(F, 0 + 1, e + 1) = Append(SubSeq(F, 0 + 1, e), F[e + 1]) BY <1>1, TextSubSeqNext
<1>4. SubSeq(F, 1, p) = Append(X, F[p]) BY <1>1, <1>3
<1>5. F[p] \in Seq(B) BY ElementOfSeq
<1> DEFINE x == F[p]
<1> HIDE DEF X, x
<1>6. FlattenSeq(Append(X, x)) = FlattenSeq(X) \o x BY <1>2, <1>5, TextFlattenAppend DEF x
<1>7. FlattenSeq(X) \in Seq(B) BY <1>2, TextFlattenType
<1> QED BY <1>4, <1>6, <1>7 DEF X, x, e

\* Before the first file nothing is joined.
LEMMA TextJoinNone ==
  ASSUME NEW F
  PROVE  FlattenSeq(SubSeq(F, 1, 0)) = <<>>
<1>1. SubSeq(F, 1, 0) = <<>> BY SubSeqEmpty
<1> QED BY <1>1, TextFlattenNone

\* After the last one all are.
LEMMA TextJoinAll ==
  ASSUME NEW S, NEW F \in Seq(S)
  PROVE  SubSeq(F, 1, Len(F)) = F
BY SubSeqFull

\* Reading on: what is read comes from the rest.
LEMMA TextReadOn ==
  ASSUME NEW x \in Seq(Byte), NEW y \in Seq(Byte), NEW k \in 0..Len(y)
  PROVE  /\ SubSeq(y, 1, k) \in Seq(Byte) /\ SubSeq(y, k + 1, Len(y)) \in Seq(Byte)
         /\ (x \o SubSeq(y, 1, k)) \o SubSeq(y, k + 1, Len(y)) = x \o y
         /\ k = Len(y) => SubSeq(y, 1, k) = y
<1> DEFINE n == Len(y)
           u == SubSeq(y, 1, k)
           v == SubSeq(y, k + 1, n)
<1>1. n \in Nat /\ k \in Nat /\ k <= n /\ 0 + 1 = 1 OBVIOUS
<1>2. u \in Seq(Byte) /\ IsPart(u, y, 0, k)
  <2>1. SubSeq(y, 0 + 1, k) \in Seq(Byte) /\ IsPart(SubSeq(y, 0 + 1, k), y, 0, k) BY <1>1, TextPart
  <2> QED BY <2>1, <1>1
<1>3. v \in Seq(Byte) /\ IsPart(v, y, k, n)
  <2> DEFINE m == n
  <2>0. m \in Nat /\ m <= Len(y) BY <1>1
  <2> HIDE DEF n
  <2>1. SubSeq(y, k + 1, m) \in Seq(Byte) /\ IsPart(SubSeq(y, k + 1, m), y, k, m) BY <2>0, <1>1, TextPart
  <2> QED BY <2>1
<1>4. Len(u) = k /\ \A i \in 1..k : u[i] = y[i] BY <1>1, <1>2 DEF IsPart
<1>5. Len(v) = n - k /\ \A i \in 1..n - k : v[i] = y[k + i] BY <1>3 DEF IsPart
<1>6. u \o v = y
  <2> HIDE DEF u, v
  <2>1. /\ u \o v \in Seq(Byte) /\ Len(u \o v) = Len(u) + Len(v)
        /\ \A i \in 1..Len(u) + Len(v) : (u \o v)[i] = IF i <= Len(u) THEN u[i] ELSE v[i - Len(u)]
    BY <1>2, <1>3, ConcatProperties
  <2> DEFINE t == u \o v
  <2> HIDE DEF t, n
  <2>2. Len(u) + Len(v) = n BY <1>1, <1>4, <1>5
  <2>3. ASSUME NEW i \in 1..n PROVE t[i] = y[i]
    <3>1. t[i] = IF i <= k THEN u[i] ELSE v[i - k] BY <2>1, <2>2, <1>4 DEF t
    <3>2. CASE i <= k
      <4>1. i \in 1..k BY <1>1, <3>2
      <4> QED BY <3>1, <3>2, <4>1, <1>4
    <3>3. CASE ~(i <= k)
      <4>1. i - k \in 1..n - k /\ k + (i - k) = i BY <1>1, <3>3
      <4> QED BY <3>1, <3>3, <4>1, <1>5
    <3> QED BY <3>2, <3>3
  <2>4. t \in Seq(Byte) /\ Len(t) = n BY <2>1, <2>2 DEF t
  <2>5. t = y BY <2>3, <2>4, SeqEqual DEF n
  <2> QED BY <2>5 DEF t
<1>7. (x \o u) \o v = x \o (u \o v)
  <2> HIDE DEF u, v
  <2> QED BY <1>2, <1>3, ConcatAssociative
<1>8. k = n => u = y
  <2>1. k = n => \A i \in 1..k : u[i] = y[i] BY <1>4
  <2> HIDE DEF u
  <2> QED BY <1>2, <1>4, SeqEqual DEF n
<1> QED BY <1>2, <1>3, <1>6, <1>7, <1>8

\* Where an iterator is not done, its token is not an empty last one.
LEMMA TextTokenNotLast ==
  ASSUME NEW S, NEW bytes \in Seq(S), NEW pattern \in Seq(S), pattern # <<>>,
         NEW it, TokAt(bytes, pattern, it), ~IsDone(it, bytes),
         it.pos = CutCount(bytes, pattern)
  PROVE  it.token # <<>>
<1> DEFINE n == CutCount(bytes, pattern)
           p == it.pos
           b == it.index
           m == Len(bytes)
<1>1. Place(bytes, pattern, p, b) /\ it.token = Pieces(bytes, pattern)[p + 1] /\ b # m
  BY DEF TokAt, IsDone
<1>2. PICK e : TokenIsPiece(bytes, pattern, p, b, e) BY <1>1, TextTokenIsPiece
<1>3. e = m /\ Len(it.token) = e - b
  <2>1. n \in Nat BY TextCutCount
  <2>2. ~(p < n) BY <2>1
  <2> QED BY <1>1, <1>2, <2>2 DEF TokenIsPiece, IsToken
<1>4. b \in Nat /\ m \in Nat BY <1>1 DEF Place
<1>5. Len(it.token) # 0 BY <1>1, <1>3, <1>4
<1> QED BY <1>5

\* The pieces of a text cut at newlines are plain.
LEMMA TextPlainPieces ==
  ASSUME NEW bytes \in Seq(Byte)
  PROVE  Plain(Pieces(bytes, <<NEWLINE>>))
<1> DEFINE n == CutCount(bytes, <<NEWLINE>>)
           ps == Pieces(bytes, <<NEWLINE>>)
<1>1. NEWLINE \in Byte /\ <<NEWLINE>> # <<>> BY DEF NEWLINE, Byte
<1>2. <<NEWLINE>> \in Seq(Byte) BY <1>1
<1>3. Len(ps) = n + 1 /\ n \in Nat BY <1>1, <1>2, TextPiecesType, TextCutCount
<1>4. ASSUME NEW p \in 0..n PROVE \A k \in 1..Len(ps[p + 1]) : ps[p + 1][k] # NEWLINE
  BY <1>1, TextPieceWithout
<1> HIDE DEF ps, n
<1>5. ASSUME NEW i \in 1..Len(ps), NEW k \in 1..Len(ps[i]) PROVE ps[i][k] # NEWLINE
  <2>1. i - 1 \in 0..n /\ (i - 1) + 1 = i BY <1>3
  <2>2. \A l \in 1..Len(ps[(i - 1) + 1]) : ps[(i - 1) + 1][l] # NEWLINE BY <2>1, <1>4
  <2> QED BY <2>1, <2>2
<1> QED BY <1>5 DEF Plain, ps

\* Plain lines are plain.
LEMMA TextPlain ==
  ASSUME NEW X \in Seq(PlainLine)
  PROVE  Plain(X)
<1>1. ASSUME NEW i \in 1..Len(X), NEW k \in 1..Len(X[i]) PROVE X[i][k] # NEWLINE
  <2>1. X[i] \in Seq(1..255 \ {10}) BY ElementOfSeq DEF PlainLine
  <2> DEFINE x == X[i]
  <2>2. k \in 1..Len(x) /\ x \in Seq(1..255 \ {10}) BY <2>1
  <2> HIDE DEF x
  <2>3. x[k] \in 1..255 \ {10} BY <2>2, ElementOfSeq
  <2>4. x[k] # 10 BY <2>3
  <2> QED BY <2>4 DEF NEWLINE, x
<1> QED BY <1>1 DEF Plain

\* What is in t is in s if t has the elements of s.
LEMMA TextPermutedBack ==
  ASSUME NEW B, NEW C, NEW s \in Seq(B), NEW t \in Seq(C), IsPermuted(t, s)
  PROVE  s \in Seq(C)
<1> DEFINE n == Len(s)
<1>1. PICK p : Takes(t, s, p) BY DEF IsPermuted
<1>2. Len(t) = n /\ n \in Nat /\ Permutes(p, n) /\ \A i \in 1..n : t[i] = s[p[i]] BY <1>1 DEF Takes
<1> HIDE DEF n
<1>3. \A j \in 1..n : \E i \in 1..n : p[i] = j BY <1>2, TextPermutesOnto
<1>4. \A i \in 1..n : t[i] \in C BY <1>2, ElementOfSeq
<1>5. \A j \in 1..n : s[j] \in C BY <1>2, <1>3, <1>4
<1>6. s \in [1..n -> B] BY DEF n
<1>7. s \in [1..n -> C] BY <1>5, <1>6
<1> QED BY <1>7, <1>2

-----------------------------------------------------------------------------
(* What is shown.                                                          *)

\* Where lines in order are shown backwards, they are in the opposite order.
LEMMA TextShownInOrder ==
  ASSUME lines \in Seq(Line), IsOrdered(numeric, lines)
  PROVE  InOrder(Shown)
<1> DEFINE n == Len(lines)
           X == Shown
<1>1. n \in Nat /\ \A i \in 1..n : lines[i] \in Line BY ElementOfSeq
<1>2. \A i, j \in 1..n : i < j => Cmp(numeric, lines[i], lines[j]) <= 0 BY DEF IsOrdered
<1>3. \A s, t : Compare(s, t) = Cmp(numeric, s, t) BY DEF Compare, Cmp
<1>4. CASE job.reverse
  <2>1. X = [i \in 1..n |-> lines[(n - i) + 1]] BY <1>4 DEF Shown, Reverse
  <2>2. Len(X) = n
    <3>1. \A i \in 1..n : (n - i) + 1 \in 1..n BY <1>1
    <3>2. X \in [1..n -> Line] BY <1>1, <2>1, <3>1
    <3> HIDE DEF X, n
    <3> QED BY <1>1, <3>2
  <2>3. ASSUME NEW i \in 1..n - 1 PROVE Compare(X[i], X[i + 1]) >= 0
    <3> HIDE DEF X, n
    <3>1. i \in 1..n /\ i + 1 \in 1..n /\ n - i \in 1..n /\ (n - i) + 1 \in 1..n /\ (n - (i + 1)) + 1 = n - i
      BY <1>1
    <3>2. X[i] = lines[(n - i) + 1] /\ X[i + 1] = lines[n - i] BY <2>1, <3>1
    <3> DEFINE x == lines[(n - i) + 1]
               y == lines[n - i]
    <3>3. n - i < (n - i) + 1 BY <1>1
    <3>4. Cmp(numeric, y, x) <= 0 BY <1>2, <3>1, <3>3
    <3>5. x \in Line /\ y \in Line BY <1>1, <3>1
    <3> HIDE DEF x, y
    <3>6. Cmp(numeric, x, y) \in Int /\ Cmp(numeric, y, x) = -Cmp(numeric, x, y) BY <3>5, TextOpposite
    <3>7. Cmp(numeric, x, y) >= 0 BY <3>4, <3>6
    <3> QED BY <3>2, <3>7, <1>3 DEF x, y
  <2> HIDE DEF X
  <2>4. InOrder(X) BY <2>2, <2>3, <1>4 DEF InOrder
  <2> QED BY <2>4 DEF X
<1>5. CASE ~job.reverse
  <2>1. X = lines BY <1>5 DEF Shown
  <2>2. ASSUME NEW i \in 1..n - 1 PROVE Compare(lines[i], lines[i + 1]) <= 0
    <3>1. i \in 1..n /\ i + 1 \in 1..n /\ i < i + 1 BY <1>1
    <3> QED BY <3>1, <1>2, <1>3
  <2>3. InOrder(lines) BY <2>2, <1>5 DEF InOrder
  <2> QED BY <2>1, <2>3
<1> QED BY <1>4, <1>5

\* The lines shown after sorting.
LEMMA TextShown ==
  ASSUME NEW s0 \in Seq(PlainLine), lines \in Seq(Line), IsPermuted(lines, s0),
         s0 \in Seq(Ordinary(numeric)) => IsOrdered(numeric, lines)
  PROVE  Shown \in Seq(PlainLine) /\ SameElements(Shown, s0) /\ InOrder(Shown)
<1> DEFINE X == Shown
<1>1. lines \in Seq(PlainLine) BY TextPermutedKind
<1>2. Reverse(lines) \in Seq(PlainLine) /\ IsPermuted(Reverse(lines), lines)
  BY <1>1, TextPermutedReverse
<1>3. X \in Seq(PlainLine) /\ IsPermuted(X, s0)
  <2>1. CASE job.reverse
    <3>1. IsPermuted(Reverse(lines), s0)
      <4> DEFINE u == Reverse(lines)
      <4>1. IsPermuted(u, lines) BY <1>2
      <4> HIDE DEF u
      <4>2. IsPermuted(u, s0) BY <4>1, TextPermutedTwice
      <4> QED BY <4>2 DEF u
    <3> QED BY <3>1, <2>1, <1>2 DEF Shown
  <2>2. CASE ~job.reverse BY <2>2, <1>1 DEF Shown
  <2> QED BY <2>1, <2>2
<1> HIDE DEF X
<1>4. SameElements(X, s0) BY <1>3, TextPermutedSame
<1>5. InOrder(X)
  <2>1. CASE numeric /\ \E i \in 1..Len(X) : IsNaN(X[i]) BY <2>1 DEF InOrder
  <2>2. CASE ~(numeric /\ \E i \in 1..Len(X) : IsNaN(X[i]))
    <3>1. X \in Seq(Line) BY <1>3, TextPlainLines
    <3>2. \A i \in 1..Len(X) : X[i] \in Ordinary(numeric)
      <4>1. \A i \in 1..Len(X) : X[i] \in Line BY <3>1, ElementOfSeq
      <4> QED BY <4>1, <2>2 DEF Ordinary
    <3>3. X \in [1..Len(X) -> Line] /\ Len(X) \in Nat BY <3>1
    <3>4. X \in [1..Len(X) -> Ordinary(numeric)] BY <3>2, <3>3
    <3>5. X \in Seq(Ordinary(numeric)) BY <3>3, <3>4
    <3>6. s0 \in Seq(Ordinary(numeric))
      <4> DEFINE C == Ordinary(numeric)
      <4>1. X \in Seq(C) BY <3>5
      <4> HIDE DEF C
      <4>2. s0 \in Seq(C) BY <4>1, <1>3, TextPermutedBack
      <4> QED BY <4>2 DEF C
    <3>7. InOrder(Shown) BY <3>6, TextShownInOrder
    <3> QED BY <3>7 DEF X
  <2> QED BY <2>1, <2>2
<1> QED BY <1>3, <1>4, <1>5 DEF X

\* What is asked does not change while the job does not.
LEMMA TextSameAsked ==
  ASSUME job' = job
  PROVE  SameAsked
<1>1. Text' = Text BY DEF Text
<1>2. Delimiter' = Delimiter BY DEF Delimiter, Is
<1>3. FirstLine' = FirstLine BY DEF FirstLine
<1>4. SortedText' = SortedText
  <2>1. PieceCount' = PieceCount BY <1>1, <1>2 DEF PieceCount
  <2>2. \A i : PieceOf(i)' = PieceOf(i) BY <1>1, <1>2 DEF PieceOf
  <2>3. \A i : KeptOf(i)' = KeptOf(i) BY <2>2 DEF KeptOf
  <2> QED BY <2>1, <2>3 DEF SortedText, Is
<1>5. Occurrences' = Occurrences BY <1>1 DEF Occurrences
<1>6. Sliced' = Sliced BY <1>1, <1>2, <1>3 DEF Sliced, PieceCount
<1>7. Replaced' = Replaced
  <2>1. PieceCount' = PieceCount BY <1>1, <1>2 DEF PieceCount
  <2>2. \A i : PieceOf(i)' = PieceOf(i) BY <1>1, <1>2 DEF PieceOf
  <2>3. \A i : Replacement(i)' = Replacement(i) BY <2>1, <2>2 DEF Replacement
  <2> QED BY <2>1, <2>2, <2>3 DEF Replaced
<1> QED BY <1>1, <1>2, <1>3, <1>4, <1>5, <1>6, <1>7 DEF SameAsked

\* What is asked, from the pieces of the text.
LEMMA TextAsked ==
  LET ps == Pieces(Text, Delimiter)
  IN  /\ Is({"sort"}) => SortedText = KeptFrom(ps, Len(ps))
      /\ ~Is({"sort"}) => SortedText = job.files
      /\ Sliced = SlicedFrom(ps, FirstLine, job.count, Len(ps))
      /\ Replaced = ReplacedFrom(ps, Unhexed(job.replacement), Len(ps))
<1> DEFINE ps == Pieces(Text, Delimiter)
<1>1. Is({"sort"}) => SortedText = KeptFrom(ps, Len(ps))
  BY DEF SortedText, KeptOf, KeptFrom, Kept1, PieceOf, PieceCount
<1>2. ~Is({"sort"}) => SortedText = job.files BY DEF SortedText
<1>3. Sliced = SlicedFrom(ps, FirstLine, job.count, Len(ps))
  BY DEF Sliced, SlicedFrom, PieceCount
<1>4. Replaced = ReplacedFrom(ps, Unhexed(job.replacement), Len(ps))
  BY DEF Replaced, ReplacedFrom, PutPiece, PutBefore, Replacement, PieceOf, PieceCount
<1> QED BY <1>1, <1>2, <1>3, <1>4

-----------------------------------------------------------------------------
(* How steps end.                                                          *)

\* Reporting nothing.
LEMMA TextMoves ==
  ASSUME errors \in 0..DEPTH, NEW next, NEW verdict, Pushes(0, next, verdict)
  PROVE  Moves(next, verdict)
<1>1. errors \in Int /\ DEPTH \in Int /\ errors + 0 = errors /\ errors <= DEPTH BY BufferAssumption
<1>2. Min({errors, DEPTH}) = errors BY <1>1, TextMinOfTwo
<1>3. ~(errors + 0 > DEPTH) BY <1>1
<1> QED BY <1>1, <1>2, <1>3 DEF Pushes, Moves, Kept

\* Reporting something: then something has been.
LEMMA TextPushed ==
  ASSUME errors \in 0..DEPTH, NEW n \in 1..3, NEW next, NEW verdict, Pushes(n, next, verdict)
  PROVE  /\ Kept /\ errors' \in 0..DEPTH /\ errors' # 0
         /\ \/ step' = next /\ outcome' = verdict
            \/ step' = "ended" /\ outcome' = "aborted"
<1>1. errors \in Int /\ errors >= 0 /\ DEPTH \in Int /\ DEPTH >= 1 /\ n \in Int /\ n >= 1
  BY BufferAssumption
<1>2. errors + n \in Int /\ errors + n >= 1 BY <1>1
<1>3. Min({errors + n, DEPTH}) = IF errors + n <= DEPTH THEN errors + n ELSE DEPTH
  BY <1>1, <1>2, TextMinOfTwo
<1>4. errors' = Min({errors + n, DEPTH}) BY DEF Pushes
<1>5. errors' \in 0..DEPTH /\ errors' # 0 BY <1>1, <1>2, <1>3, <1>4
<1> QED BY <1>5 DEF Pushes, Kept

\* The same, of a step that does not end with success.
LEMMA TextReports ==
  ASSUME errors \in 0..DEPTH, NEW n \in 1..3, NEW next, Pushes(n, next, "running")
  PROVE  Reports(next)
BY TextPushed DEF Reports

\* Failing, with something reported or without, and crashing.
LEMMA TextQuits ==
  ASSUME errors \in 0..DEPTH, Crashes \/ \E n \in 0..3 : Fails(n)
  PROVE  Quits
<1>1. CASE Crashes BY <1>1 DEF Crashes, Quits, Kept, Over
<1>2. CASE Fails(0)
  <2>1. Moves("done", "failure") BY <1>2, TextMoves DEF Fails
  <2> QED BY <2>1 DEF Moves, Quits, Over, Kept
<1>3. ASSUME NEW n \in 1..3, Fails(n) PROVE Quits
  <2>1. Pushes(n, "done", "failure") BY <1>3 DEF Fails
  <2> QED BY <2>1, TextPushed DEF Quits, Over
<1>4. \A n \in 0..3 : n = 0 \/ n \in 1..3 OBVIOUS
<1> QED BY <1>1, <1>2, <1>3, <1>4

\* Printing.
LEMMA TextWrites ==
  ASSUME errors \in 0..DEPTH, NEW bytes, NEW next, NEW verdict, Writes(bytes, next, verdict)
  PROVE  \/ out' = out \o bytes /\ Moves(next, verdict)
         \/ Quits
<1>1. CASE out' = out \o bytes /\ Pushes(0, next, verdict) BY <1>1, TextMoves
<1>2. CASE Fails(0)
  <2>1. \E n \in 0..3 : Fails(n) BY <1>2
  <2> QED BY <2>1, TextQuits
<1> QED BY <1>1, <1>2 DEF Writes

\* Printing a string made of bytes that may not be UTF-8.
LEMMA TextPrints ==
  ASSUME errors \in 0..DEPTH, NEW bytes, NEW next, Prints(bytes, next)
  PROVE  \/ out' = out \o bytes /\ Moves(next, "running")
         \/ Quits
<1>1. CASE Fails(1) \/ Fails(2)
  <2>1. \E n \in 0..3 : Fails(n) BY <1>1
  <2> QED BY <2>1, TextQuits
<1>2. CASE Writes(bytes, next, "running") BY <1>2, TextWrites
<1> QED BY <1>1, <1>2 DEF Prints

\* What is said of the job does not change with the step.
LEMMA TextSameJob ==
  ASSUME Kept
  PROVE  SameAsked /\ (IsJob(job)' <=> IsJob(job)) /\ \A c : Is(c)' <=> Is(c)
BY TextSameAsked DEF Kept, IsJob, Is

\* A command that has quit.
LEMMA TextInvQuits ==
  ASSUME TypeOk, Quits, Typed, ~scan'.active
  PROVE  Inv'
<1>1. job' = job /\ IsJob(job)' BY TextSameJob DEF Quits, Kept, TypeOk
<1>2. TypeOk' BY <1>1 DEF TypeOk, Quits, Typed
<1>3. step' \notin {"start"} \union Reads \union Uses \union {"sort", "print"}
  BY DEF Quits, Over, Reads, Uses
<1>4. Placed' BY <1>3 DEF Placed, Uses, Reads
<1>5. QuickOk' BY <1>3 DEF QuickOk
<1>6. Progress' BY <1>3 DEF Progress, ReadOk, UseOk, SortOk, PrintOk
<1>7. EndOk' BY DEF EndOk, Quits
<1> QED BY <1>2, <1>4, <1>5, <1>6, <1>7 DEF Inv

\* A command that goes on with a file after something has been reported.
LEMMA TextInvReports ==
  ASSUME Inv, step \in Reads, NEW next \in Reads, Reports(next), Typed, path' = path, scan' = scan
  PROVE  Inv'
<1>1. CASE step' = "ended" /\ outcome' = "aborted"
  <2>1. Quits BY <1>1 DEF Quits, Reports, Over
  <2>2. ~scan'.active BY DEF Inv, Placed, Reads
  <2> QED BY <2>1, <2>2, TextInvQuits DEF Inv
<1>2. CASE step' = next /\ outcome' = "running"
  <2>1. job' = job /\ IsJob(job)' BY TextSameJob DEF Reports, Kept, Inv, TypeOk
  <2>2. TypeOk' BY <1>2, <2>1 DEF Inv, TypeOk, Reports, Typed
  <2>3. step' \in Reads /\ step' \notin Uses /\ step' \notin {"sort", "print", "replacement", "done", "ended"}
    BY <1>2 DEF Reads, Uses
  <2>8. scan = NoScan /\ ~scan.active BY DEF Inv, Placed, Reads
  <2>4. Placed' BY <2>1, <2>3, <2>8 DEF Inv, Placed, Is
  <2>5. QuickOk' BY <2>3 DEF QuickOk
  <2>6. EndOk' BY <2>3 DEF EndOk
  <2>7. errors' # 0 BY DEF Reports
  <2> QED BY <2>2, <2>4, <2>5, <2>6, <2>7 DEF Inv
<1> QED BY <1>1, <1>2 DEF Reports

\* A command that goes on with a file.
LEMMA TextInvReads ==
  ASSUME Inv, step \in {"start"} \union Reads, NEW next \in Reads, Moves(next, "running"), Typed,
         scan' = scan, lines' = lines, out' = out,
         path' \in 1..Len(job.files),
         ~Is({"insertsort", "mergesort"}),
         Is({"count", "replace"}) => job.pattern # <<>>,
         errors = 0 => ReadOk'
  PROVE  Inv'
<1>1. job' = job /\ IsJob(job)' BY TextSameJob DEF Moves, Kept, Inv, TypeOk
<1>2. TypeOk' BY <1>1 DEF Inv, TypeOk, Moves, Typed
<1>3. step' \in Reads /\ step' \notin Uses /\ step' \notin {"sort", "print", "replacement", "done", "ended"}
  BY DEF Reads, Uses, Moves
<1>8. scan = NoScan /\ ~scan.active BY DEF Inv, Placed, Reads
<1>4. Placed' BY <1>1, <1>3, <1>8 DEF Inv, Placed, Is
<1>5. QuickOk' BY <1>3 DEF QuickOk
<1>6. EndOk' BY <1>3 DEF EndOk
<1>7. errors' = 0 => Progress' BY <1>3 DEF Progress, UseOk, SortOk, PrintOk, Moves
<1> QED BY <1>2, <1>4, <1>5, <1>6, <1>7 DEF Inv

\* A command that comes to print what it has made.
LEMMA TextInvPrint ==
  ASSUME TypeOk, Moves("print", "running"), Typed, ~scan'.active,
         Is({"concat", "sort", "insertsort", "mergesort"}),
         errors = 0 => PrintOk'
  PROVE  Inv'
<1>1. job' = job /\ IsJob(job)' BY TextSameJob DEF Moves, Kept, TypeOk
<1>2. TypeOk' BY <1>1 DEF TypeOk, Moves, Typed
<1>3. step' \notin {"start"} \union Reads \union Uses \union {"sort", "replacement", "done", "ended"}
  BY DEF Reads, Uses, Moves
<1>4. Placed' BY <1>1, <1>3 DEF Placed, Is
<1>5. QuickOk' BY <1>3 DEF QuickOk
<1>6. EndOk' BY <1>3 DEF EndOk
<1>7. errors' = 0 => Progress' BY <1>3 DEF Progress, UseOk, SortOk, ReadOk, Moves
<1> QED BY <1>2, <1>4, <1>5, <1>6, <1>7 DEF Inv

\* A command that has come to its end.
LEMMA TextInvDone ==
  ASSUME TypeOk, Moves("done", "success"), Typed, ~scan'.active, errors = 0 => Right'
  PROVE  Inv'
<1>1. job' = job /\ IsJob(job)' BY TextSameJob DEF Moves, Kept, TypeOk
<1>2. TypeOk' BY <1>1 DEF TypeOk, Moves, Typed, Over
<1>3. step' \notin {"start"} \union Reads \union Uses \union {"sort", "replacement", "print", "ended"}
  BY DEF Reads, Uses, Moves
<1>4. Placed' BY <1>1, <1>3 DEF Placed, Is
<1>5. QuickOk' BY <1>3 DEF QuickOk
<1>6. EndOk' BY <1>3 DEF EndOk, Moves
<1>7. Progress' BY <1>3 DEF Progress, UseOk, SortOk, ReadOk, PrintOk
<1> QED BY <1>2, <1>4, <1>5, <1>6, <1>7 DEF Inv

-----------------------------------------------------------------------------
(* Reading the files.                                                      *)

\* The first step of a command.
LEMMA TextStart ==
  ASSUME Inv, Start
  PROVE  Inv'
<1>1. errors \in 0..DEPTH /\ ~scan.active BY DEF Inv, TypeOk, Placed, Start
<1>2. Typed /\ scan' = scan /\ lines' = lines /\ out' = out /\ path' = path /\ result' = result
  BY DEF Start, Typed, Inv, TypeOk, sortVars, file
<1>3. CASE Is({"count", "replace"}) /\ job.pattern = <<>>
  <2>1. Fails(1) BY <1>3 DEF Start
  <2>2. \E n \in 0..3 : Fails(n) BY <2>1
  <2>3. Quits BY <1>1, <2>2, TextQuits
  <2> QED BY <1>1, <1>2, <2>3, TextInvQuits DEF Inv
<1>4. CASE ~(Is({"count", "replace"}) /\ job.pattern = <<>>)
  <2>1. Moves("open", "running")
    <3>1. Pushes(0, "open", "running") BY <1>4 DEF Start, Goes
    <3> QED BY <3>1, <1>1, TextMoves
  <2>2. job' = job /\ step' = "open" BY <2>1 DEF Moves, Kept
  <2>3. errors = 0 => ReadOk'
    <3> SUFFICES ASSUME errors = 0 PROVE ReadOk' OBVIOUS
    <3>1. ReadOk BY DEF Inv, Progress
    <3> QED BY <3>1, <1>2, <2>2 DEF ReadOk, Start, Is
  <2>4. path \in 1..Len(job.files) /\ step \in {"start"} \union Reads BY DEF Inv, Placed, Start
  <2>5. ~Is({"insertsort", "mergesort"}) BY DEF Start
  <2>6. "open" \in Reads BY DEF Reads
  <2> QED BY <1>2, <1>4, <2>1, <2>3, <2>4, <2>5, <2>6, TextInvReads
<1> QED BY <1>3, <1>4

\* What is known while a file is being read.
LEMMA TextReading ==
  ASSUME Inv, step \in Reads
  PROVE  Reading
<1>1. JobFacts BY TextJobFacts DEF Inv, TypeOk
<1>2. path \in 1..Len(job.files) BY DEF Inv, Placed
<1>3. job.files[path] \in Seq(Byte) /\ job.files \in Seq(Seq(Byte)) BY <1>1, <1>2 DEF JobFacts
<1>4. ~scan.active BY DEF Inv, Placed, Reads
<1>5. /\ ~Is({"insertsort", "mergesort"})
      /\ Is({"count", "replace"}) => job.pattern # <<>> BY DEF Inv, Placed
<1>6. errors \in 0..DEPTH BY DEF Inv, TypeOk
<1>7. errors = 0 => ReadOk BY DEF Inv, Progress
<1> QED BY <1>2, <1>3, <1>4, <1>5, <1>6, <1>7 DEF Reading

\* Opening a file.
LEMMA TextOpen ==
  ASSUME Inv, Open
  PROVE  Inv'
<1>1. step \in Reads BY DEF Open, Reads
<1>2. Reading BY <1>1, TextReading
<1>3. scan' = scan /\ lines' = lines /\ out' = out /\ path' = path /\ result' = result
  BY DEF Open, sortVars
<1>4. CASE Goes("read") /\ rest' = job.files[path]
  <2>1. Moves("read", "running")
    <3>1. Pushes(0, "read", "running") BY <1>4 DEF Goes
    <3> QED BY <3>1, <1>2, TextMoves DEF Reading
  <2>2. job' = job /\ step' = "read" BY <2>1 DEF Moves, Kept
  <2>3. Typed BY <1>2, <1>4 DEF Open, Typed, Inv, TypeOk, sortVars, Reading
  <2>4. errors = 0 => ReadOk'
    <3> SUFFICES ASSUME errors = 0 PROVE ReadOk' OBVIOUS
    <3>1. ReadOk BY <1>2 DEF Reading
    <3>2. data' \o rest' = job.files[path]
      <4>1. data' = <<>> BY DEF Open
      <4> QED BY <4>1, <1>2, <1>4 DEF Reading
    <3> QED BY <3>1, <3>2, <1>3, <2>2, <1>1 DEF ReadOk, Is
  <2>5. "read" \in Reads BY DEF Reads
  <2> QED BY <1>1, <1>2, <1>3, <2>1, <2>3, <2>4, <2>5, TextInvReads DEF Reading
<1>5. CASE Pushes(1, "decode", "running") /\ UNCHANGED rest
  <2>1. Reports("decode") BY <1>2, <1>5, TextReports DEF Reading
  <2>2. Typed BY <1>5 DEF Open, Typed, Inv, TypeOk, sortVars
  <2>3. "decode" \in Reads BY DEF Reads
  <2> QED BY <1>1, <1>3, <2>1, <2>2, <2>3, TextInvReports
<1> QED BY <1>4, <1>5 DEF Open

\* How much is read.
LEMMA TextReadSize ==
  ASSUME rest \in Seq(Byte)
  PROVE  ReadSize \in 0..Len(rest) /\ (ReadSize < BUFFER => ReadSize = Len(rest))
<1> DEFINE n == Len(rest)
<1>1. n \in Nat /\ BUFFER \in Nat BY BufferAssumption
<1>2. ReadSize = Min({BUFFER, n}) BY DEF ReadSize
<1> HIDE DEF n
<1>3. Min({BUFFER, n}) = IF BUFFER <= n THEN BUFFER ELSE n BY <1>1, TextMinOfTwo
<1>4. ReadSize \in 0..n /\ (ReadSize < BUFFER => ReadSize = n) BY <1>1, <1>2, <1>3
<1> QED BY <1>4 DEF n

\* Reading on.
LEMMA TextReadChunk ==
  ASSUME Inv, ReadChunk
  PROVE  Inv'
<1>1. step = "read" /\ step \in Reads BY DEF ReadChunk, Reads
<1>2. Reading BY <1>1, TextReading
<1>3. scan' = scan /\ lines' = lines /\ out' = out /\ path' = path /\ result' = result
  BY DEF ReadChunk, sortVars
<1>4. rest \in Seq(Byte) /\ data \in Seq(Byte) BY DEF Inv, TypeOk
<1>5. ReadSize \in 0..Len(rest) /\ (ReadSize < BUFFER => ReadSize = Len(rest)) BY <1>4, TextReadSize
<1>6. rest' = SubSeq(rest, ReadSize + 1, Len(rest)) BY DEF ReadChunk
<1>7. /\ Chunk \in Seq(Byte) /\ rest' \in Seq(Byte)
      /\ (data \o Chunk) \o rest' = data \o rest
      /\ ReadSize = Len(rest) => Chunk = rest
  <2> DEFINE k == ReadSize
  <2>1. k \in 0..Len(rest) BY <1>5
  <2> HIDE DEF k
  <2>2. /\ SubSeq(rest, 1, k) \in Seq(Byte) /\ SubSeq(rest, k + 1, Len(rest)) \in Seq(Byte)
        /\ (data \o SubSeq(rest, 1, k)) \o SubSeq(rest, k + 1, Len(rest)) = data \o rest
        /\ k = Len(rest) => SubSeq(rest, 1, k) = rest
    BY <2>1, <1>4, TextReadOn
  <2> QED BY <2>2, <1>6 DEF Chunk, k
<1>8. CASE data' = data \o Chunk /\ Goes(IF ReadSize < BUFFER THEN "decode" ELSE "read")
  <2> DEFINE next == IF ReadSize < BUFFER THEN "decode" ELSE "read"
  <2>1. Moves(next, "running")
    <3>1. Pushes(0, next, "running") BY <1>8 DEF Goes
    <3> HIDE DEF next
    <3> QED BY <3>1, <1>2, TextMoves DEF Reading
  <2>2. job' = job /\ step' = next BY <2>1 DEF Moves, Kept
  <2>3. Typed
    <3>1. data \o Chunk \in Seq(Byte) BY <1>4, <1>7
    <3> QED BY <3>1, <1>7, <1>8 DEF ReadChunk, Typed, Inv, TypeOk, sortVars
  <2>4. errors = 0 => ReadOk'
    <3> SUFFICES ASSUME errors = 0 PROVE ReadOk' OBVIOUS
    <3>1. ReadOk BY <1>2 DEF Reading
    <3>2. data \o rest = job.files[path] BY <3>1, <1>1 DEF ReadOk
    <3>3. data' \o rest' = job.files[path] BY <3>2, <1>7, <1>8
    <3>4. step' = "decode" => data' = job.files[path]
      <4>1. step' = "decode" => ReadSize = Len(rest) BY <2>2, <1>5
      <4> QED BY <4>1, <3>2, <1>7, <1>8
    <3> QED BY <3>1, <3>3, <3>4, <1>3, <2>2, <1>1 DEF ReadOk, Is
  <2>5. next \in Reads BY DEF Reads
  <2> HIDE DEF next
  <2> QED BY <1>1, <1>2, <1>3, <2>1, <2>3, <2>4, <2>5, TextInvReads DEF Reading
<1>9. CASE Pushes(3, "decode", "running") /\ UNCHANGED data
  <2>1. Reports("decode") BY <1>2, <1>9, TextReports DEF Reading
  <2>2. Typed BY <1>9, <1>7 DEF ReadChunk, Typed, Inv, TypeOk, sortVars
  <2>3. "decode" \in Reads BY DEF Reads
  <2> QED BY <1>1, <1>3, <2>1, <2>2, <2>3, TextInvReports
<1> QED BY <1>8, <1>9 DEF ReadChunk

\* A read that fails.
LEMMA TextReadError ==
  ASSUME Inv, ReadError
  PROVE  Inv'
<1>1. step \in Reads BY DEF ReadError, Reads
<1>2. Reading BY <1>1, TextReading
<1>3. scan' = scan /\ path' = path /\ Typed BY DEF ReadError, Typed, Inv, TypeOk, sortVars, file
<1>4. Reports("decode") BY <1>2, TextReports DEF Reading, ReadError
<1>5. "decode" \in Reads BY DEF Reads
<1> QED BY <1>1, <1>3, <1>4, <1>5, TextInvReports

\* Making a string of what has been read.
LEMMA TextDecode ==
  ASSUME Inv, Decode
  PROVE  Inv'
<1>1. step = "decode" /\ step \in Reads BY DEF Decode, Reads
<1>2. Reading BY <1>1, TextReading
<1>3. scan' = scan /\ lines' = lines /\ out' = out /\ path' = path /\ result' = result /\ data' = data
  BY DEF Decode, sortVars, file
<1>4. "use" \in Reads BY DEF Reads
<1>5. CASE content' = Append(data, 0) /\ Goes("use")
  <2>1. Moves("use", "running")
    <3>1. Pushes(0, "use", "running") BY <1>5 DEF Goes
    <3> QED BY <3>1, <1>2, TextMoves DEF Reading
  <2>2. job' = job /\ step' = "use" BY <2>1 DEF Moves, Kept
  <2>3. Typed
    <3>1. Append(data, 0) \in Seq(Byte) BY TextWithNul DEF Inv, TypeOk
    <3> QED BY <3>1, <1>5 DEF Decode, Typed, Inv, TypeOk, sortVars, file
  <2>4. errors = 0 => ReadOk'
    <3> SUFFICES ASSUME errors = 0 PROVE ReadOk' OBVIOUS
    <3>1. ReadOk BY <1>2 DEF Reading
    <3>2. data = job.files[path] BY <3>1, <1>1 DEF ReadOk
    <3>3. content' = Append(job.files[path], 0) BY <3>2, <1>5
    <3> QED BY <3>1, <3>3, <1>3, <2>2, <1>1 DEF ReadOk, Is
  <2> QED BY <1>1, <1>2, <1>3, <1>4, <2>1, <2>3, <2>4, TextInvReads DEF Reading
<1>6. ASSUME content' = NoContent, Pushes(1, "use", "running") \/ Pushes(2, "use", "running")
      PROVE  Inv'
  <2>1. Reports("use") BY <1>2, <1>6, TextReports DEF Reading
  <2>2. Typed BY <1>6 DEF Decode, Typed, Inv, TypeOk, sortVars, file, NoContent
  <2> QED BY <1>1, <1>3, <1>4, <2>1, <2>2, TextInvReports
<1> QED BY <1>5, <1>6 DEF Decode

\* Joining the content of one file more.
LEMMA TextAddContent ==
  ASSUME Inv, AddContent
  PROVE  Inv'
<1>1. step = "use" /\ step \in Reads BY DEF AddContent, Reads
<1>2. Reading BY <1>1, TextReading
<1>3. scan' = scan /\ lines' = lines /\ out' = out /\ content' = content /\ ~scan'.active
  BY <1>2 DEF AddContent, sortVars, Reading
<1>4. result \in Seq(Byte) /\ content \in Seq(Byte) BY DEF Inv, TypeOk
<1>5. Extended(result, content) \in Seq(Byte)
      /\ View(Extended(result, content)) = View(result) \o View(content)
  BY <1>4, TextExtended
<1>6. ASSUME UNCHANGED result, \E n \in 0..3 : Fails(n) PROVE Inv'
  <2>1. Quits BY <1>6, <1>2, TextQuits DEF Reading
  <2>2. Typed BY <1>6 DEF AddContent, Typed, Inv, TypeOk, sortVars
  <2> QED BY <2>1, <2>2, <1>3, TextInvQuits DEF Inv
<1>7. CASE result' = Extended(result, content) /\ path' = path + 1
           /\ Goes(IF path < Len(job.files) THEN "open" ELSE "print")
  <2> DEFINE next == IF path < Len(job.files) THEN "open" ELSE "print"
  <2>1. Moves(next, "running")
    <3>1. Pushes(0, next, "running") BY <1>7 DEF Goes
    <3> HIDE DEF next
    <3> QED BY <3>1, <1>2, TextMoves DEF Reading
  <2>2. job' = job /\ step' = next BY <2>1 DEF Moves, Kept
  <2>3. Typed BY <1>7, <1>5 DEF AddContent, Typed, Inv, TypeOk, sortVars
  <2> DEFINE F == job.files
             n == Len(F)
  <2>4. n \in Nat /\ path \in 1..n /\ F \in Seq(Seq(Byte)) BY <1>2 DEF Reading
  <2>5. Is({"concat"}) BY DEF AddContent
  <2>6. ASSUME errors = 0
        PROVE  out = <<>> /\ lines = <<>> /\ View(result') = FlattenSeq(SubSeq(F, 1, path))
    <3>1. ReadOk BY <1>2, <2>6 DEF Reading
    <3>2. out = <<>> /\ lines = <<>> /\ content = Append(F[path], 0)
          /\ View(result) = FlattenSeq(SubSeq(F, 1, path - 1))
      BY <3>1, <1>1, <2>5 DEF ReadOk
    <3>3. F[path] \in Seq(Byte) BY <1>2 DEF Reading
    <3>4. View(content) = F[path] BY <3>2, <3>3, TextWithNul
    <3> HIDE DEF F, n, next
    <3>5. FlattenSeq(SubSeq(F, 1, path)) = FlattenSeq(SubSeq(F, 1, path - 1)) \o F[path]
      BY <2>4, TextJoinFile DEF n
    <3> QED BY <3>2, <3>4, <3>5, <1>5, <1>7
  <2>7. CASE path < n
    <3>1. next = "open" BY <2>7
    <3>2. path' \in 1..n /\ path' - 1 = path
      <4> HIDE DEF n
      <4> QED BY <2>4, <2>7, <1>7
    <3>3. errors = 0 => ReadOk'
      <4> SUFFICES ASSUME errors = 0 PROVE ReadOk' OBVIOUS
      <4>1. /\ out' = <<>> /\ lines' = <<>>
            /\ View(result') = FlattenSeq(SubSeq(F, 1, path' - 1)) BY <2>6, <3>2, <1>3
      <4>2. job' = job /\ step' = "open" BY <2>2, <3>1
      <4> HIDE DEF next, n
      <4> QED BY <4>1, <4>2, <2>5 DEF ReadOk, Is
    <3>4. "open" \in Reads BY DEF Reads
    <3>5. Moves("open", "running") BY <2>1, <3>1
    <3> HIDE DEF next
    <3> QED BY <1>1, <1>2, <1>3, <2>3, <3>2, <3>3, <3>4, <3>5, TextInvReads DEF Reading
  <2>8. CASE ~(path < n)
    <3>1. Moves("print", "running") BY <2>1, <2>8
    <3>2. path = n
      <4> HIDE DEF n
      <4> QED BY <2>4, <2>8
    <3>3. errors = 0 => PrintOk'
      <4> SUFFICES ASSUME errors = 0 PROVE PrintOk' OBVIOUS
      <4>1. SubSeq(F, 1, n) = F BY <2>4, TextJoinAll
      <4>2. out' = <<>> /\ View(result') = FlattenSeq(job.files) BY <2>6, <3>2, <4>1, <1>3
      <4> HIDE DEF F, n, next
      <4> QED BY <4>2, <2>2, <2>5 DEF PrintOk, Is
    <3>4. Is({"concat", "sort", "insertsort", "mergesort"}) BY <2>5 DEF Is
    <3> HIDE DEF next
    <3> QED BY <1>3, <2>3, <3>1, <3>3, <3>4, TextInvPrint DEF Inv
  <2> QED BY <2>7, <2>8
<1>8. Fails(0) \/ Fails(2) => \E k \in 0..3 : Fails(k) OBVIOUS
<1> QED BY <1>6, <1>7, <1>8 DEF AddContent

\* Printing what is joined.
LEMMA TextPrintResult ==
  ASSUME Inv, PrintResult
  PROVE  Inv'
<1>1. step = "print" /\ Is({"concat"}) BY DEF PrintResult
<1>2. Typed BY DEF PrintResult, Typed, Inv, TypeOk, sortVars, file
<1>3. ~scan'.active BY <1>1 DEF Inv, Placed, PrintResult, sortVars
<1>4. errors \in 0..DEPTH BY DEF Inv, TypeOk
<1>5. CASE Quits BY <1>5, <1>2, <1>3, TextInvQuits DEF Inv
<1>6. CASE out' = out \o View(result) /\ Moves("done", "success")
  <2>1. errors = 0 => Right'
    <3> SUFFICES ASSUME errors = 0 PROVE Right' OBVIOUS
    <3>1. out = <<>> /\ View(result) = FlattenSeq(job.files)
      BY <1>1 DEF Inv, Progress, PrintOk
    <3>2. View(result) \in Seq(Byte) BY TextView DEF Inv, TypeOk
    <3>3. out' = FlattenSeq(job.files) BY <3>1, <3>2, <1>6
    <3>4. job' = job BY <1>6 DEF Moves, Kept
    <3> QED BY <3>3, <3>4, <1>1 DEF Right, Is
  <2> QED BY <2>1, <1>6, <1>2, <1>3, TextInvDone DEF Inv
<1> QED BY <1>4, <1>5, <1>6, TextWrites DEF PrintResult

-----------------------------------------------------------------------------
(* Taking the tokens.                                                      *)

\* What is known while the tokens are taken.
LEMMA TextUsing ==
  ASSUME Inv, step \in Uses
  PROVE  Using
<1>1. JobFacts BY TextJobFacts DEF Inv, TypeOk
<1>2. Is({"count", "replace"}) => job.pattern # <<>> BY DEF Inv, Placed
<1>3. DelimiterFacts BY <1>2, TextDelimiter DEF Inv, TypeOk
<1>4. Is(LineCommands) /\ content # <<>> /\ TokAt(content, Delimiter, iter) BY DEF Inv, Placed
<1>5. scan = NoScan /\ ~scan.active BY DEF Inv, Placed, Uses
<1>6. errors \in 0..DEPTH /\ content \in Seq(Byte) BY DEF Inv, TypeOk
<1>7. errors = 0 => UseOk BY DEF Inv, Progress
<1> QED BY <1>1, <1>3, <1>4, <1>5, <1>6, <1>7 DEF Using

\* A command that goes on with the tokens.
LEMMA TextInvUses ==
  ASSUME Inv, step \in {"use"} \union Uses, NEW next \in Uses, Moves(next, "running"), Typed,
         scan' = scan, content' = content, content # <<>>, Is(LineCommands),
         TokAt(content, Delimiter, iter'), next = "replacement" => Is({"replace"}) /\ iter'.pos # 0,
         errors = 0 => UseOk'
  PROVE  Inv'
<1>1. job' = job /\ IsJob(job)' BY TextSameJob DEF Moves, Kept, Inv, TypeOk
<1>2. Delimiter' = Delimiter BY <1>1, TextSameAsked DEF SameAsked
<1>3. TypeOk' BY <1>1 DEF Inv, TypeOk, Moves, Typed
<1>4. step' = next /\ step' \in Uses /\ step' \notin Reads /\ step' \notin {"start", "sort", "print", "done", "ended"}
  BY DEF Reads, Uses, Moves
<1>5. scan = NoScan /\ ~scan.active BY DEF Inv, Placed, Reads, Uses
<1>6. /\ ~Is({"insertsort", "mergesort"})
      /\ Is({"count", "replace"}) => job.pattern # <<>>
  BY DEF Inv, Placed, Reads, Uses
<1>7. TokAt(content', Delimiter', iter') BY <1>2
<1>8. Placed' BY <1>1, <1>4, <1>5, <1>6, <1>7 DEF Placed, Is
<1>9. QuickOk' BY <1>4 DEF QuickOk
<1>10. EndOk' BY <1>4 DEF EndOk
<1>11. errors' = 0 => Progress' BY <1>4 DEF Progress, ReadOk, SortOk, PrintOk, Moves
<1> QED BY <1>3, <1>8, <1>9, <1>10, <1>11 DEF Inv

\* What is known of the pieces.
LEMMA TextPieceFacts ==
  ASSUME JobFacts, DelimiterFacts
  PROVE  /\ Text \in Seq(Byte) /\ Text # <<>> /\ Text[Len(Text)] = 0
         /\ PieceFacts(Pieces(Text, Delimiter))
<1>1. job.files[1] \in Seq(Byte)
  <2>1. 1 \in 1..Len(job.files) BY DEF JobFacts
  <2> QED BY <2>1 DEF JobFacts
<1>2. Text \in Seq(Byte) /\ Text # <<>> /\ Text[Len(Text)] = 0 BY <1>1, TextWithNul DEF Text
<1>3. Delimiter \in Seq(Byte) /\ Delimiter # <<>> BY DEF DelimiterFacts
<1>4. /\ Pieces(Text, Delimiter) \in Seq(Seq(Byte))
      /\ Len(Pieces(Text, Delimiter)) = CutCount(Text, Delimiter) + 1
  BY <1>2, <1>3, TextPiecesType
<1>5. CutCount(Text, Delimiter) \in Nat BY <1>2, <1>3, TextCutCount
<1>6. Delimiter = <<NEWLINE>> => Plain(Pieces(Text, Delimiter)) BY <1>2, TextPlainPieces
<1> QED BY <1>2, <1>4, <1>5, <1>6 DEF PieceFacts

\* The first line that slicelines prints.
LEMMA TextFirstLine ==
  ASSUME JobFacts
  PROVE  FirstLine \in Nat /\ FirstLine >= 1 /\ job.count \in Nat
<1> DEFINE x == job.begin
<1>1. x \in Nat /\ job.count \in Nat BY DEF JobFacts
<1>2. FirstLine = Max({x, 1}) BY DEF FirstLine
<1> HIDE DEF x
<1>3. Max({x, 1}) = IF x <= 1 THEN 1 ELSE x BY <1>1, TextMaxOfTwo
<1> QED BY <1>1, <1>2, <1>3

\* Creating the iterator.
LEMMA TextBeginTokens ==
  ASSUME Inv, BeginTokens
  PROVE  Inv'
<1>1. step = "use" /\ step \in Reads /\ step \in {"use"} \union Uses BY DEF BeginTokens, Reads
<1>2. Reading BY <1>1, TextReading
<1>3. scan' = scan /\ lines' = lines /\ out' = out /\ content' = content /\ ~scan'.active
  BY <1>2 DEF BeginTokens, sortVars, Reading
<1>4. Typed BY DEF BeginTokens, Typed, Inv, TypeOk, sortVars, file
<1>5. ASSUME Crashes \/ \E n \in 0..3 : Fails(n) PROVE Inv'
  <2>1. Quits BY <1>5, <1>2, TextQuits DEF Reading
  <2> QED BY <2>1, <1>3, <1>4, TextInvQuits DEF Inv
<1>6. ASSUME (Is({"count", "sort"}) /\ content # NoContent) \/ (Is({"slicelines", "replace"}) /\ HasText),
             iter' = Tokens(content, Delimiter), Goes("tokens")
      PROVE  Inv'
  <2>1. Moves("tokens", "running")
    <3>1. Pushes(0, "tokens", "running") BY <1>6 DEF Goes
    <3> QED BY <3>1, <1>2, TextMoves DEF Reading
  <2>2. job' = job /\ step' = "tokens" BY <2>1 DEF Moves, Kept
  <2>3. content \in Seq(Byte) /\ content # <<>> BY <1>6 DEF Inv, TypeOk, HasText, NoContent
  <2>4. Is(LineCommands) /\ ~Is({"concat"}) BY <1>6 DEF Is, LineCommands
  <2>5. JobFacts /\ DelimiterFacts BY <1>2, TextDelimiter, TextJobFacts DEF Inv, TypeOk, Reading
  <2>6. TokAt(content, Delimiter, iter') /\ iter'.pos = 0
    BY <2>3, <2>5, <1>6, TextTokensBegin DEF DelimiterFacts
  <2>7. errors = 0 => UseOk'
    <3> SUFFICES ASSUME errors = 0 PROVE UseOk' OBVIOUS
    <3>1. ReadOk BY <1>2 DEF Reading
    <3>2. out = <<>> /\ lines = <<>> /\ content = Text BY <3>1, <1>1, <2>4 DEF ReadOk, Text
    <3>3. SameAsked BY <2>2, TextSameAsked
    <3>4. FirstLine \in Nat /\ FirstLine >= 1 /\ job.count \in Nat BY <2>5, TextFirstLine
    <3> DEFINE ps == Pieces(Text, Delimiter)
               r == Unhexed(job.replacement)
    <3>5. SlicedFrom(ps, FirstLine, job.count, 0) = <<>> BY <3>4, TextSlicedNone
    <3>6. ReplacedFrom(ps, r, 0) = <<>> /\ KeptFrom(ps, 0) = <<>> BY TextReplacedNone, TextKeptNone
    <3>7. /\ Pieces(Text, Delimiter)' = ps /\ Unhexed(job.replacement)' = r
          /\ FirstLine' = FirstLine /\ Text' = Text /\ job' = job
      BY <3>3, <2>2 DEF SameAsked
    <3>8. content' = Text' BY <3>2, <3>7, <1>3
    <3>9. out' = <<>> /\ lines' = <<>> BY <3>2, <1>3
    <3> HIDE DEF ps, r
    <3>10. Is({"replace"})' => out' = IF step' = "replacement" \/ iter'.pos = 0 \/ IsDone(iter', content')
                   THEN ReplacedFrom(ps, r, iter'.pos) ELSE ReplacedFrom(ps, r, iter'.pos) \o r
      BY <3>6, <3>9, <2>6
    <3>11. Is({"slicelines"})' => out' = SlicedFrom(ps, FirstLine', job'.count, iter'.pos)
      BY <3>5, <3>7, <3>9, <2>6
    <3>12. Is({"sort"})' => lines' = KeptFrom(ps, iter'.pos) BY <3>6, <3>9, <2>6
    <3> QED BY <3>7, <3>8, <3>9, <3>10, <3>11, <3>12 DEF UseOk
  <2>8. "tokens" \in Uses BY DEF Uses
  <2> QED BY <1>1, <1>3, <1>4, <2>1, <2>3, <2>4, <2>6, <2>7, <2>8, TextInvUses
<1>7. DestroysUninitialised(0) \/ DestroysUninitialised(2) => Crashes \/ \E k \in 0..3 : Fails(k)
  BY DEF DestroysUninitialised
<1>8. Fails(0) => \E k \in 0..3 : Fails(k) OBVIOUS
<1> QED BY <1>5, <1>6, <1>7, <1>8 DEF BeginTokens

\* The iterator goes on where it is not done.
LEMMA TextStepping ==
  ASSUME Using, AtToken, iter' = NextIter
  PROVE  Stepping
<1>1. /\ content \in Seq(Byte) /\ Delimiter \in Seq(Byte) /\ Delimiter # <<>>
      /\ TokAt(content, Delimiter, iter) /\ ~IsDone(iter, content)
  BY DEF Using, DelimiterFacts, AtToken
<1>2. /\ IsAtPiece(content, Delimiter, iter, Byte)
      /\ TokAt(content, Delimiter, Advanced(iter, content, Delimiter))
      /\ Advanced(iter, content, Delimiter).pos = iter.pos + 1
  BY <1>1, TextTokensNext
<1>3. iter.pos = CutCount(content, Delimiter) => iter.token # <<>>
  BY <1>1, TextTokenNotLast
<1>4. iter.pos \in 0..CutCount(content, Delimiter) /\ iter.pos \in Nat
      /\ iter.token = Pieces(content, Delimiter)[iter.pos + 1] /\ iter.token \in Seq(Byte)
  BY <1>1, <1>2 DEF IsAtPiece, TokAt
<1>5. iter' = Advanced(iter, content, Delimiter) BY DEF NextIter
<1>6. iter'.pos = iter.pos + 1 BY <1>2, <1>5
<1>7. iter'.pos # 0
  <2> DEFINE n == iter.pos
  <2>1. n \in Nat /\ iter'.pos = n + 1 BY <1>4, <1>6
  <2> HIDE DEF n
  <2> QED BY <2>1
<1> QED BY <1>2, <1>3, <1>4, <1>5, <1>6, <1>7 DEF Stepping

\* What is to be shown of the step of a command that goes on with its tokens.
LEMMA TextUseNext ==
  ASSUME Kept, content' = content, content = Text,
         Is({"count"}) => out' = <<>>,
         Is({"slicelines"}) =>
           out' = SlicedFrom(Pieces(Text, Delimiter), FirstLine, job.count, iter'.pos),
         Is({"replace"}) =>
           out' = IF step' = "replacement" \/ iter'.pos = 0 \/ IsDone(iter', content)
                  THEN ReplacedFrom(Pieces(Text, Delimiter), Unhexed(job.replacement), iter'.pos)
                  ELSE ReplacedFrom(Pieces(Text, Delimiter), Unhexed(job.replacement), iter'.pos)
                       \o Unhexed(job.replacement),
         Is({"sort"}) => lines' = KeptFrom(Pieces(Text, Delimiter), iter'.pos)
  PROVE  UseOk'
<1>1. job' = job /\ SameAsked BY TextSameAsked DEF Kept
<1> DEFINE ps == Pieces(Text, Delimiter)
           r == Unhexed(job.replacement)
<1>2. /\ Pieces(Text, Delimiter)' = ps /\ Unhexed(job.replacement)' = r
      /\ FirstLine' = FirstLine /\ Text' = Text /\ job'.count = job.count
  BY <1>1 DEF SameAsked
<1>3. content' = Text' BY <1>2
<1>4. \A c : Is(c)' <=> Is(c) BY <1>1 DEF Is
<1>5. Is({"replace"})' => out' = IF step' = "replacement" \/ iter'.pos = 0 \/ IsDone(iter', content')
                 THEN ReplacedFrom(ps, r, iter'.pos) ELSE ReplacedFrom(ps, r, iter'.pos) \o r
  BY <1>4
<1>6. Is({"slicelines"})' => out' = SlicedFrom(ps, FirstLine', job'.count, iter'.pos) BY <1>2, <1>4
<1>7. Is({"sort"})' => lines' = KeptFrom(ps, iter'.pos) BY <1>4
<1>8. Is({"count"})' => out' = <<>> BY <1>4
<1> HIDE DEF ps, r
<1> QED BY <1>2, <1>3, <1>5, <1>6, <1>7, <1>8 DEF UseOk

\* A command is one command.
LEMMA TextOneCommand ==
  /\ Is({"count"}) => ~Is({"slicelines"}) /\ ~Is({"replace"}) /\ ~Is({"sort"}) /\ ~Is({"concat"})
  /\ Is({"slicelines"}) => ~Is({"count"}) /\ ~Is({"replace"}) /\ ~Is({"sort"}) /\ ~Is({"concat"})
  /\ Is({"replace"}) => ~Is({"count"}) /\ ~Is({"slicelines"}) /\ ~Is({"sort"}) /\ ~Is({"concat"})
  /\ Is({"sort"}) => ~Is({"count"}) /\ ~Is({"slicelines"}) /\ ~Is({"replace"}) /\ ~Is({"concat"})
BY DEF Is

\* Passing a token.
LEMMA TextCountToken ==
  ASSUME Inv, CountToken
  PROVE  Inv'
<1>1. step = "tokens" /\ step \in Uses /\ step \in {"use"} \union Uses BY DEF CountToken, AtToken, Uses
<1>2. Using BY <1>1, TextUsing
<1>3. Stepping BY <1>2, TextStepping DEF CountToken
<1>4. scan' = scan /\ content' = content /\ out' = out BY DEF CountToken, sortVars
<1>5. Typed BY DEF CountToken, Typed, Inv, TypeOk, sortVars, file
<1>6. Moves("tokens", "running")
  <2>1. Pushes(0, "tokens", "running") BY DEF CountToken, Goes
  <2> QED BY <2>1, <1>2, TextMoves DEF Using
<1>7. errors = 0 => UseOk'
  <2> SUFFICES ASSUME errors = 0 PROVE UseOk' OBVIOUS
  <2>1. UseOk /\ Is({"count"}) BY <1>2 DEF Using, CountToken
  <2>2. content = Text /\ out = <<>> BY <2>1, <1>1 DEF UseOk
  <2> QED BY <2>1, <2>2, <1>4, <1>6, TextOneCommand, TextUseNext DEF Moves
<1>8. "tokens" \in Uses BY DEF Uses
<1> QED BY <1>1, <1>2, <1>3, <1>4, <1>5, <1>6, <1>7, <1>8, TextInvUses DEF Using, Stepping

\* Printing a line, or passing it.
LEMMA TextSliceLine ==
  ASSUME Inv, SliceLine
  PROVE  Inv'
<1>1. step = "tokens" /\ step \in Uses /\ step \in {"use"} \union Uses BY DEF SliceLine, AtToken, Uses
<1>2. Using BY <1>1, TextUsing
<1>3. Stepping BY <1>2, TextStepping DEF SliceLine
<1>4. scan' = scan /\ content' = content /\ ~scan'.active BY <1>2 DEF SliceLine, sortVars, Using
<1>5. Typed BY DEF SliceLine, Typed, Inv, TypeOk, sortVars, file
<1>6. \/ Quits
      \/ /\ Moves("tokens", "running")
         /\ out' = IF IsSelected THEN out \o Append(iter.token, NEWLINE) ELSE out
  <2>1. CASE IsSelected
    <3> DEFINE line == Append(iter.token, NEWLINE)
    <3>1. Prints(line, "tokens") BY <2>1 DEF SliceLine
    <3> HIDE DEF line
    <3>2. Quits \/ (out' = out \o line /\ Moves("tokens", "running"))
      BY <3>1, <1>2, TextPrints DEF Using
    <3> QED BY <2>1, <3>2 DEF line
  <2>2. CASE ~IsSelected
    <3>1. Pushes(0, "tokens", "running") /\ out' = out BY <2>2 DEF SliceLine, Goes
    <3>2. Moves("tokens", "running") BY <3>1, <1>2, TextMoves DEF Using
    <3> QED BY <2>2, <3>1, <3>2
  <2> QED BY <2>1, <2>2
<1>7. CASE Quits BY <1>4, <1>5, <1>7, TextInvQuits DEF Inv
<1>8. ASSUME Moves("tokens", "running"),
             out' = IF IsSelected THEN out \o Append(iter.token, NEWLINE) ELSE out
      PROVE  Inv'
  <2>1. errors = 0 => UseOk'
    <3> SUFFICES ASSUME errors = 0 PROVE UseOk' OBVIOUS
    <3> DEFINE ps == Pieces(Text, Delimiter)
               p == iter.pos
               x == iter.token
    <3>1. UseOk /\ Is({"slicelines"}) /\ JobFacts /\ DelimiterFacts BY <1>2 DEF Using, SliceLine
    <3>2. content = Text /\ out = SlicedFrom(ps, FirstLine, job.count, p) BY <3>1, <1>1 DEF UseOk
    <3>3. PieceFacts(ps) BY <3>1, TextPieceFacts
    <3>4. p \in 0..CutCount(Text, Delimiter) /\ x = ps[p + 1] /\ iter'.pos = p + 1
      BY <1>3, <3>2 DEF Stepping
    <3>5. IsSelected <=> p + 1 \in FirstLine..(FirstLine + job.count - 1) BY DEF IsSelected, LineNumber
    <3> HIDE DEF ps, p, x
    <3>6. p \in 0..Len(ps) - 1 /\ ps \in Seq(Seq(Byte)) BY <3>3, <3>4 DEF PieceFacts
    <3> DEFINE b == FirstLine
               c == job.count
    <3>7. b \in Nat /\ b >= 1 /\ c \in Nat BY <3>1, TextFirstLine
    <3> HIDE DEF b, c
    <3>8. SlicedFrom(ps, b, c, p + 1) =
             IF p + 1 \in b..(b + c - 1) THEN SlicedFrom(ps, b, c, p) \o Append(ps[p + 1], NEWLINE)
                                         ELSE SlicedFrom(ps, b, c, p)
      BY <3>6, <3>7, TextSlicedNext
    <3>9. out' = SlicedFrom(ps, FirstLine, job.count, iter'.pos)
      BY <3>2, <3>4, <3>5, <3>8, <1>8 DEF b, c, x
    <3> QED BY <3>1, <3>2, <3>9, <1>4, <1>8, TextOneCommand, TextUseNext DEF Moves, ps
  <2>2. "tokens" \in Uses BY DEF Uses
  <2> QED BY <1>1, <1>2, <1>3, <1>4, <1>5, <1>8, <2>1, <2>2, TextInvUses DEF Using, Stepping
<1> QED BY <1>6, <1>7, <1>8

\* Joining is associative.
LEMMA TextJoinThrice ==
  ASSUME NEW S, NEW s1 \in Seq(S), NEW s2 \in Seq(S), NEW s3 \in Seq(S)
  PROVE  (s1 \o s2) \o s3 = s1 \o (s2 \o s3)
BY ConcatAssociative

\* Printing a token.
LEMMA TextReplaceToken ==
  ASSUME Inv, ReplaceToken
  PROVE  Inv'
<1>1. step = "tokens" /\ step \in Uses /\ step \in {"use"} \union Uses
  BY DEF ReplaceToken, AtToken, Uses
<1>2. Using BY <1>1, TextUsing
<1>3. Stepping BY <1>2, TextStepping DEF ReplaceToken
<1>4. scan' = scan /\ content' = content /\ ~scan'.active BY <1>2 DEF ReplaceToken, sortVars, Using
<1>5. Typed BY DEF ReplaceToken, Typed, Inv, TypeOk, sortVars, file
<1> DEFINE x == iter.token
<1>6. Quits \/ (out' = out \o x /\ Moves("replacement", "running"))
  <2>1. Prints(x, "replacement") BY DEF ReplaceToken
  <2> HIDE DEF x
  <2> QED BY <2>1, <1>2, TextPrints DEF Using
<1>7. CASE Quits BY <1>4, <1>5, <1>7, TextInvQuits DEF Inv
<1>8. ASSUME out' = out \o x, Moves("replacement", "running") PROVE Inv'
  <2>1. errors = 0 => UseOk'
    <3> SUFFICES ASSUME errors = 0 PROVE UseOk' OBVIOUS
    <3> DEFINE ps == Pieces(Text, Delimiter)
               r == Unhexed(job.replacement)
               p == iter.pos
    <3>1. UseOk /\ Is({"replace"}) /\ JobFacts /\ DelimiterFacts BY <1>2 DEF Using, ReplaceToken
    <3>2. content = Text BY <3>1, <1>1 DEF UseOk
    <3>3. PieceFacts(ps) BY <3>1, TextPieceFacts
    <3>4. /\ p \in 0..CutCount(Text, Delimiter) /\ x = ps[p + 1] /\ iter'.pos = p + 1
          /\ p = CutCount(Text, Delimiter) => x # <<>>
          /\ x \in Seq(Byte)
      BY <1>3, <3>2 DEF Stepping
    <3>5. r \in Seq(Byte) BY <3>1, TextUnhexed DEF JobFacts
    <3>6. out = IF p = 0 THEN ReplacedFrom(ps, r, p) ELSE ReplacedFrom(ps, r, p) \o r
      <4>1. ~IsDone(iter, content) BY DEF ReplaceToken, AtToken
      <4> QED BY <4>1, <3>1, <1>1 DEF UseOk
    <3> HIDE DEF ps, p, x, r
    <3> DEFINE n == CutCount(Text, Delimiter)
    <3>7. ps \in Seq(Seq(Byte)) /\ Len(ps) = n + 1 /\ n \in Nat /\ p \in 0..n /\ (p = n => x # <<>>)
      BY <3>3, <3>4 DEF PieceFacts
    <3> HIDE DEF n
    <3>8. p \in 0..Len(ps) - 1 /\ p \in Nat /\ (p + 1 = Len(ps) => p = n) BY <3>7
    <3>9. /\ ReplacedFrom(ps, r, p) \in Seq(Byte)
          /\ ReplacedFrom(ps, r, p + 1) = ReplacedFrom(ps, r, p) \o PutPiece(ps, r, p + 1)
      BY <3>5, <3>7, <3>8, TextReplacedNext
    <3>10. CASE p = 0
      <4>1. PutPiece(ps, r, p + 1) = x BY <3>4, <3>10 DEF PutPiece
      <4>2. out' = ReplacedFrom(ps, r, p + 1) BY <4>1, <3>6, <3>9, <3>10, <1>8
      <4> QED BY <4>2, <3>1, <3>2, <3>4, <1>4, <1>8, TextOneCommand, TextUseNext DEF Moves, ps, r
    <3>11. CASE p # 0
      <4>1. p + 1 # 1 BY <3>8, <3>11
      <4>2. PutBefore(ps, r, p + 1) = r BY <3>4, <3>7, <3>8 DEF PutBefore
      <4>3. PutPiece(ps, r, p + 1) = r \o x BY <4>1, <4>2, <3>4 DEF PutPiece
      <4> DEFINE d == ReplacedFrom(ps, r, p)
      <4>4. out' = (d \o r) \o x /\ ReplacedFrom(ps, r, p + 1) = d \o (r \o x) /\ d \in Seq(Byte)
        BY <4>3, <3>6, <3>9, <3>11, <1>8
      <4> HIDE DEF d
      <4>5. (d \o r) \o x = d \o (r \o x)
        <5>1. d \in Seq(Byte) /\ r \in Seq(Byte) /\ x \in Seq(Byte) BY <4>4, <3>4, <3>5
        <5> QED BY <5>1, TextJoinThrice
      <4>6. out' = ReplacedFrom(ps, r, p + 1) BY <4>4, <4>5
      <4> QED BY <4>6, <3>1, <3>2, <3>4, <1>4, <1>8, TextOneCommand, TextUseNext DEF Moves, ps, r
    <3> QED BY <3>10, <3>11
  <2>2. "replacement" \in Uses BY DEF Uses
  <2>3. Is({"replace"}) BY DEF ReplaceToken
  <2> QED BY <1>1, <1>2, <1>3, <1>4, <1>5, <1>8, <2>1, <2>2, <2>3, TextInvUses DEF Using, Stepping
<1> QED BY <1>6, <1>7, <1>8

\* Printing what is put for the pattern.
LEMMA TextPrintReplacement ==
  ASSUME Inv, PrintReplacement
  PROVE  Inv'
<1>1. step = "replacement" /\ step \in Uses /\ step \in {"use"} \union Uses
  BY DEF PrintReplacement, Uses
<1>2. Using BY <1>1, TextUsing
<1>3. Is({"replace"}) /\ iter.pos # 0 BY <1>1 DEF Inv, Placed
<1>4. scan' = scan /\ content' = content /\ iter' = iter /\ ~scan'.active
  BY <1>2 DEF PrintReplacement, sortVars, Using
<1>5. Typed BY DEF PrintReplacement, Typed, Inv, TypeOk, sortVars, file
<1> DEFINE r == Unhexed(job.replacement)
<1>6. r \in Seq(Byte) /\ (job.replacement = <<>> => r = <<>>) BY <1>2, TextUnhexed DEF Using, JobFacts
<1>7. \/ Quits
      \/ /\ Moves("tokens", "running")
         /\ out' = IF IsDone(iter, content) \/ job.replacement = <<>> THEN out ELSE out \o r
  <2>1. CASE IsDone(iter, content) \/ job.replacement = <<>>
    <3>1. Pushes(0, "tokens", "running") /\ out' = out BY <2>1 DEF PrintReplacement, Goes
    <3>2. Moves("tokens", "running") BY <3>1, <1>2, TextMoves DEF Using
    <3> QED BY <2>1, <3>1, <3>2
  <2>2. CASE ~(IsDone(iter, content) \/ job.replacement = <<>>)
    <3>1. Prints(r, "tokens") BY <2>2 DEF PrintReplacement
    <3> HIDE DEF r
    <3>2. Quits \/ (out' = out \o r /\ Moves("tokens", "running"))
      BY <3>1, <1>2, TextPrints DEF Using
    <3> QED BY <2>2, <3>2
  <2> QED BY <2>1, <2>2
<1>8. CASE Quits BY <1>4, <1>5, <1>8, TextInvQuits DEF Inv
<1>9. ASSUME Moves("tokens", "running"),
             out' = IF IsDone(iter, content) \/ job.replacement = <<>> THEN out ELSE out \o r
      PROVE  Inv'
  <2>1. errors = 0 => UseOk'
    <3> SUFFICES ASSUME errors = 0 PROVE UseOk' OBVIOUS
    <3> DEFINE ps == Pieces(Text, Delimiter)
               d == ReplacedFrom(ps, r, iter.pos)
    <3>1. UseOk /\ JobFacts /\ DelimiterFacts BY <1>2 DEF Using
    <3>2. content = Text /\ out = d BY <3>1, <1>1, <1>3 DEF UseOk
    <3>3. d \o <<>> = d
      <4>1. PieceFacts(ps) BY <3>1, TextPieceFacts
      <4> DEFINE p == iter.pos
                 n == CutCount(Text, Delimiter)
      <4>2. ps \in Seq(Seq(Byte)) /\ Len(ps) = n + 1 /\ n \in Nat BY <4>1 DEF PieceFacts
      <4>3. p \in 0..n \/ p = n + 1 BY <1>2, <3>2 DEF Using, TokAt
      <4> HIDE DEF ps, p, n, r
      <4>4. CASE p \in 0..n
        <5>1. p \in 0..Len(ps) - 1 BY <4>2, <4>4
        <5>2. ReplacedFrom(ps, r, p) \in Seq(Byte) BY <5>1, <4>2, <1>6, TextReplacedNext
        <5> QED BY <5>2 DEF p
      <4>5. CASE p = n + 1
        <5>1. n \in 0..Len(ps) - 1 BY <4>2
        <5>2. ReplacedFrom(ps, r, n) \in Seq(Byte)
              /\ ReplacedFrom(ps, r, n + 1) = ReplacedFrom(ps, r, n) \o PutPiece(ps, r, n + 1)
          BY <5>1, <4>2, <1>6, TextReplacedNext
        <5>3. PutPiece(ps, r, n + 1) \in Seq(Byte)
          <6>1. n + 1 \in 1..Len(ps) BY <4>2
          <6>2. ps[n + 1] \in Seq(Byte) /\ ps[1] \in Seq(Byte)
            <7>1. 1 \in 1..Len(ps) BY <4>2
            <7> QED BY <6>1, <7>1, <4>2
          <6> QED BY <6>2, <1>6 DEF PutPiece, PutBefore
        <5> DEFINE e == ReplacedFrom(ps, r, n)
                   f == PutPiece(ps, r, n + 1)
        <5>6. e \in Seq(Byte) BY <5>2
        <5>7. f \in Seq(Byte) BY <5>3
        <5>8. ReplacedFrom(ps, r, n + 1) = e \o f BY <5>2, Zenon
        <5> HIDE DEF e, f
        <5>9. e \o f \in Seq(Byte) BY <5>6, <5>7
        <5>4. ReplacedFrom(ps, r, n + 1) \in Seq(Byte) BY <5>8, <5>9, Zenon
        <5> QED BY <5>4, <4>5 DEF p
      <4> QED BY <4>3, <4>4, <4>5
    <3>4. out' = IF IsDone(iter, content) THEN d ELSE d \o r
      <4> HIDE DEF d, r
      <4> QED BY <3>2, <3>3, <1>6, <1>9
    <3>5. step' = "tokens" /\ Kept BY <1>9 DEF Moves
    <3>6. out' = IF step' = "replacement" \/ iter'.pos = 0 \/ IsDone(iter', content)
                 THEN ReplacedFrom(ps, r, iter'.pos) ELSE ReplacedFrom(ps, r, iter'.pos) \o r
      BY <3>4, <3>5, <1>3, <1>4
    <3> HIDE DEF d
    <3> QED BY <3>2, <3>5, <3>6, <1>3, <1>4, TextOneCommand, TextUseNext
  <2>2. "tokens" \in Uses BY DEF Uses
  <2> HIDE DEF r
  <2> QED BY <1>1, <1>2, <1>4, <1>5, <1>9, <2>1, <2>2, TextInvUses DEF Using
<1> HIDE DEF r
<1> QED BY <1>7, <1>8, <1>9

\* Taking a line to sort.
LEMMA TextReadLine ==
  ASSUME Inv, ReadLine
  PROVE  Inv'
<1>1. step = "tokens" /\ step \in Uses /\ step \in {"use"} \union Uses BY DEF ReadLine, AtToken, Uses
<1>2. Using /\ Is({"sort"}) BY <1>1, TextUsing DEF ReadLine
<1>3. Stepping BY <1>2, TextStepping DEF ReadLine
<1>4. scan' = scan /\ content' = content /\ out' = out /\ ~scan'.active BY <1>2 DEF ReadLine, Using
<1> DEFINE x == iter.token
<1>5. CString(x) \in PlainLine
  <2> DEFINE p == iter.pos
             ps == Pieces(content, Delimiter)
  <2>1. Delimiter = <<NEWLINE>> /\ Delimiter \in Seq(Byte) /\ Delimiter # <<>> /\ content \in Seq(Byte)
    BY <1>2 DEF Using, DelimiterFacts, Is
  <2>2. Plain(ps) BY <2>1, TextPlainPieces
  <2>3. Len(ps) = CutCount(content, Delimiter) + 1 /\ CutCount(content, Delimiter) \in Nat
    BY <2>1, TextPiecesType, TextCutCount
  <2>4. p \in 0..CutCount(content, Delimiter) /\ x = ps[p + 1] /\ x \in Seq(Byte) BY <1>3 DEF Stepping
  <2> DEFINE n == CutCount(content, Delimiter)
  <2> HIDE DEF p, ps, x, n
  <2>5. p + 1 \in 1..Len(ps) BY <2>3, <2>4 DEF n
  <2>6. \A k \in 1..Len(x) : x[k] # NEWLINE BY <2>2, <2>4, <2>5 DEF Plain
  <2> QED BY <2>4, <2>6, TextCString
<1>6. CString(x) \in Line BY <1>5, TextPlainLines
<1>7. ASSUME UNCHANGED lines, Crashes \/ \E n \in 0..3 : Fails(n) PROVE Inv'
  <2>1. Quits BY <1>7, <1>2, TextQuits DEF Using
  <2>2. Typed BY <1>7 DEF ReadLine, Typed, Inv, TypeOk, file
  <2> QED BY <2>1, <2>2, <1>4, TextInvQuits DEF Inv
<1>8. ASSUME Goes("tokens"), x # <<>>,
             lines' = IF x[1] = 0 THEN lines ELSE Append(lines, CString(x))
      PROVE  Inv'
  <2>1. Moves("tokens", "running")
    <3>1. Pushes(0, "tokens", "running") BY <1>8 DEF Goes
    <3> QED BY <3>1, <1>2, TextMoves DEF Using
  <2>2. Typed
    <3>1. lines \in Seq(Line) BY DEF Inv, TypeOk
    <3> HIDE DEF x
    <3>2. lines' \in Seq(Line) BY <3>1, <1>6, <1>8
    <3> QED BY <3>2 DEF ReadLine, Typed, Inv, TypeOk, file
  <2>3. errors = 0 => UseOk'
    <3> SUFFICES ASSUME errors = 0 PROVE UseOk' OBVIOUS
    <3> DEFINE ps == Pieces(Text, Delimiter)
               p == iter.pos
    <3>1. UseOk /\ JobFacts /\ DelimiterFacts BY <1>2 DEF Using
    <3>2. content = Text /\ lines = KeptFrom(ps, p) BY <3>1, <1>1, <1>2 DEF UseOk
    <3>3. PieceFacts(ps) BY <3>1, TextPieceFacts
    <3>4. p \in 0..CutCount(Text, Delimiter) /\ x = ps[p + 1] /\ iter'.pos = p + 1
      BY <1>3, <3>2 DEF Stepping
    <3>5. Delimiter = <<NEWLINE>> BY <3>1, <1>2 DEF DelimiterFacts, Is
    <3> HIDE DEF ps, p, x
    <3> DEFINE n == CutCount(Text, Delimiter)
    <3>6. ps \in Seq(Seq(Byte)) /\ Plain(ps) /\ Len(ps) = n + 1 /\ n \in Nat /\ p \in 0..n
      BY <3>3, <3>4, <3>5 DEF PieceFacts
    <3> HIDE DEF n
    <3>7. p \in 0..Len(ps) /\ p < Len(ps) BY <3>6
    <3>8. KeptFrom(ps, p) \in Seq(PlainLine) /\ KeptFrom(ps, p + 1) = KeptFrom(ps, p) \o Kept1(x)
      BY <3>4, <3>6, <3>7, TextKeptNext
    <3>9. lines' = lines \o Kept1(x)
      <4>1. lines \in Seq(PlainLine) BY <3>2, <3>8
      <4>2. CASE x[1] = 0
        <5>1. Kept1(x) = <<>> BY <4>2 DEF Kept1
        <5> QED BY <5>1, <4>1, <4>2, <1>8
      <4>3. CASE x[1] # 0
        <5> DEFINE l == CString(x)
        <5>1. Kept1(x) = << l >> /\ lines' = Append(lines, l) /\ l \in PlainLine
          BY <4>3, <1>5, <1>8 DEF Kept1
        <5> HIDE DEF l
        <5>2. Append(lines, l) = lines \o << l >> BY <4>1, <5>1
        <5> QED BY <5>1, <5>2
      <4> QED BY <4>2, <4>3
    <3>10. lines' = KeptFrom(ps, iter'.pos) BY <3>2, <3>4, <3>8, <3>9
    <3> QED BY <3>2, <3>10, <1>2, <1>4, <2>1, TextOneCommand, TextUseNext DEF Moves, ps
  <2>4. "tokens" \in Uses BY DEF Uses
  <2> QED BY <1>1, <1>2, <1>3, <1>4, <2>1, <2>2, <2>3, <2>4, TextInvUses DEF Using, Stepping
<1>9. Fails(2) => \E n \in 0..3 : Fails(n) OBVIOUS
<1> HIDE DEF x
<1> QED BY <1>7, <1>8, <1>9 DEF ReadLine, x

-----------------------------------------------------------------------------
(* The end of the text.                                                    *)

\* What is known at the end of the text.
LEMMA TextAllPassed ==
  ASSUME Using, AtEnd, errors = 0
  PROVE  AllPassed
<1>1. UseOk /\ JobFacts /\ DelimiterFacts BY DEF Using
<1>2. step \in Uses BY DEF AtEnd, Uses
<1>3. content = Text BY <1>1, <1>2 DEF UseOk
<1>4. IsDone(iter, content) BY DEF AtEnd
<1>5. /\ Text \in Seq(Byte) /\ Text # <<>> /\ Text[Len(Text)] = 0
      /\ PieceFacts(Pieces(Text, Delimiter))
  BY <1>1, TextPieceFacts
<1>6. Delimiter \in Seq(Byte) /\ Delimiter # <<>> BY <1>1 DEF DelimiterFacts
<1>7. TokAt(Text, Delimiter, iter) /\ IsDone(iter, Text) BY <1>3, <1>4 DEF Using
<1>8. CASE ~Is({"replace"})
  <2>1. Text[Len(Text)] # Delimiter[Len(Delimiter)] BY <1>1, <1>5, <1>8 DEF DelimiterFacts
  <2>2. iter.pos = CutCount(Text, Delimiter) + 1 BY <1>5, <1>6, <1>7, <2>1, TextTokensEndAfter
  <2> QED BY <1>1, <1>3, <1>4, <1>5, <2>2 DEF AllPassed
<1>9. CASE Is({"replace"})
  <2>1. \/ iter.pos = CutCount(Text, Delimiter) + 1
        \/ /\ iter.pos = CutCount(Text, Delimiter)
           /\ Pieces(Text, Delimiter)[CutCount(Text, Delimiter) + 1] = <<>>
    BY <1>5, <1>6, <1>7, TextTokensEnd
  <2> QED BY <1>1, <1>3, <1>4, <1>5, <1>9, <2>1 DEF AllPassed
<1> QED BY <1>8, <1>9

\* After an empty last piece replace has printed all.
LEMMA TextReplacedAll ==
  ASSUME NEW ps \in Seq(Seq(Byte)), NEW r \in Seq(Byte), NEW n \in Nat, Len(ps) = n + 1,
         ps[n + 1] = <<>>
  PROVE  ReplacedFrom(ps, r, n) = ReplacedFrom(ps, r, n + 1)
<1>1. n \in 0..Len(ps) - 1 OBVIOUS
<1>2. /\ ReplacedFrom(ps, r, n) \in Seq(Byte)
      /\ ReplacedFrom(ps, r, n + 1) = ReplacedFrom(ps, r, n) \o PutPiece(ps, r, n + 1)
  BY <1>1, TextReplacedNext
<1>3. PutPiece(ps, r, n + 1) = <<>>
  <2>1. CASE n + 1 = 1 BY <2>1 DEF PutPiece
  <2>2. CASE n + 1 # 1
    <3>1. PutBefore(ps, r, n + 1) = <<>> BY DEF PutBefore
    <3>2. PutPiece(ps, r, n + 1) = PutBefore(ps, r, n + 1) \o ps[n + 1] BY <2>2 DEF PutPiece
    <3>3. <<>> \o <<>> = <<>> OBVIOUS
    <3> QED BY <3>1, <3>2, <3>3
  <2> QED BY <2>1, <2>2
<1> DEFINE d == ReplacedFrom(ps, r, n)
<1>4. d \in Seq(Byte) /\ ReplacedFrom(ps, r, n + 1) = d \o <<>> BY <1>2, <1>3
<1> HIDE DEF d
<1>5. d \o <<>> = d BY <1>4
<1>6. ReplacedFrom(ps, r, n + 1) = d BY <1>4, <1>5, Zenon
<1> QED BY <1>6 DEF d

\* The end of slicelines and of replace.
LEMMA TextFinishTokens ==
  ASSUME Inv, FinishTokens
  PROVE  Inv'
<1>1. step = "tokens" /\ step \in Uses BY DEF FinishTokens, AtEnd, Uses
<1>2. Using BY <1>1, TextUsing
<1>3. scan' = scan /\ out' = out /\ ~scan'.active BY <1>2 DEF FinishTokens, sortVars, Using
<1>4. Typed BY DEF FinishTokens, Typed, Inv, TypeOk, sortVars, file
<1>5. Moves("done", "success")
  <2>1. Pushes(0, "done", "success") BY DEF FinishTokens
  <2> QED BY <2>1, <1>2, TextMoves DEF Using
<1>6. job' = job /\ SameAsked BY <1>5, TextSameAsked DEF Moves, Kept
<1>7. errors = 0 => Right'
  <2> SUFFICES ASSUME errors = 0 PROVE Right' OBVIOUS
  <2> DEFINE ps == Pieces(Text, Delimiter)
             r == Unhexed(job.replacement)
             n == CutCount(Text, Delimiter)
  <2>1. AllPassed BY <1>2, TextAllPassed DEF FinishTokens
  <2>2. ps \in Seq(Seq(Byte)) /\ Len(ps) = n + 1 /\ n \in Nat BY <2>1 DEF AllPassed, PieceFacts
  <2>3. iter.pos = n + 1 \/ (Is({"replace"}) /\ iter.pos = n /\ ps[n + 1] = <<>>)
    BY <2>1 DEF AllPassed
  <2>4. CASE Is({"slicelines"})
    <3>1. iter.pos = Len(ps) BY <2>2, <2>3, <2>4, TextOneCommand
    <3>2. out = SlicedFrom(ps, FirstLine, job.count, iter.pos)
      BY <2>1, <2>4, <1>1 DEF AllPassed, UseOk
    <3>3. out = Sliced BY <3>1, <3>2, TextAsked
    <3>4. out' = Sliced' BY <3>3, <1>3, <1>6 DEF SameAsked
    <3> QED BY <3>4, <2>4, <1>6 DEF Right, Is
  <2>5. CASE Is({"replace"})
    <3>1. out = ReplacedFrom(ps, r, iter.pos) BY <2>1, <2>5, <1>1 DEF AllPassed, UseOk
    <3>2. r \in Seq(Byte) BY <1>2, TextUnhexed DEF Using, JobFacts
    <3>3. out = ReplacedFrom(ps, r, n + 1)
      <4> HIDE DEF ps, r, n
      <4>1. CASE iter.pos = n + 1 BY <4>1, <3>1
      <4>2. CASE iter.pos = n /\ ps[n + 1] = <<>>
        <5>1. ReplacedFrom(ps, r, n) = ReplacedFrom(ps, r, n + 1)
          BY <4>2, <2>2, <3>2, TextReplacedAll
        <5> QED BY <5>1, <4>2, <3>1
      <4> QED BY <4>1, <4>2, <2>3
    <3>4. out = Replaced BY <3>3, <2>2, TextAsked
    <3>5. out' = Replaced' BY <3>4, <1>3, <1>6 DEF SameAsked
    <3> QED BY <3>5, <2>5, <1>6 DEF Right, Is
  <2>6. Is({"slicelines"}) \/ Is({"replace"}) BY DEF FinishTokens, Is
  <2> QED BY <2>4, <2>5, <2>6
<1> QED BY <1>3, <1>4, <1>5, <1>7, TextInvDone DEF Inv

\* The end of count.
LEMMA TextPrintCount ==
  ASSUME Inv, PrintCount
  PROVE  Inv'
<1>1. step = "tokens" /\ step \in Uses BY DEF PrintCount, AtEnd, Uses
<1>2. Using /\ Is({"count"}) BY <1>1, TextUsing DEF PrintCount
<1>3. scan' = scan /\ ~scan'.active BY <1>2 DEF PrintCount, sortVars, Using
<1>4. Typed BY DEF PrintCount, Typed, Inv, TypeOk, sortVars, file
<1> DEFINE number == <<Max({iter.pos - 1, 0})>>
<1>5. Quits \/ (out' = out \o number /\ Moves("done", "success"))
  <2>1. Writes(number, "done", "success") BY DEF PrintCount
  <2> HIDE DEF number
  <2> QED BY <2>1, <1>2, TextWrites DEF Using
<1>6. CASE Quits BY <1>3, <1>4, <1>6, TextInvQuits DEF Inv
<1>7. ASSUME out' = out \o number, Moves("done", "success") PROVE Inv'
  <2>1. errors = 0 => Right'
    <3> SUFFICES ASSUME errors = 0 PROVE Right' OBVIOUS
    <3> DEFINE n == CutCount(Text, Delimiter)
               p == iter.pos
    <3>1. AllPassed BY <1>2, TextAllPassed DEF PrintCount
    <3>2. out = <<>> BY <3>1, <1>1, <1>2 DEF AllPassed, UseOk
    <3>3. p = n + 1 /\ n \in Nat BY <3>1, <1>2, TextOneCommand DEF AllPassed, PieceFacts
    <3>4. Occurrences = n
      <4>1. Delimiter = job.pattern /\ Delimiter \in Seq(Byte) /\ Delimiter # <<>>
        BY <1>2 DEF Using, DelimiterFacts
      <4>2. Text \in Seq(Byte) BY <1>2, TextPieceFacts DEF Using
      <4> QED BY <4>1, <4>2, TextOccurrences
    <3>5. Max({p - 1, 0}) = n
      <4> HIDE DEF p, n
      <4>1. p - 1 = n BY <3>3
      <4>2. Max({n, 0}) = IF n <= 0 THEN 0 ELSE n BY <3>3, TextMaxOfTwo
      <4> QED BY <4>1, <4>2, <3>3
    <3>6. number = <<Occurrences>> BY <3>4, <3>5
    <3>7. out' = <<Occurrences>> BY <3>2, <3>6, <1>7
    <3>8. job' = job /\ SameAsked BY <1>7, TextSameAsked DEF Moves, Kept
    <3>9. out' = <<Occurrences'>> BY <3>7, <3>8 DEF SameAsked
    <3> QED BY <3>8, <3>9, <1>2 DEF Right, Is
  <2> QED BY <1>3, <1>4, <1>7, <2>1, TextInvDone DEF Inv
<1> HIDE DEF number
<1> QED BY <1>5, <1>6, <1>7

-----------------------------------------------------------------------------
(* Sorting.                                                                *)

\* What is to be sorted are plain lines.
LEMMA TextSortedText ==
  ASSUME IsJob(job), Is({"sort", "insertsort", "mergesort"})
  PROVE  SortedText \in Seq(PlainLine)
<1>1. JobFacts BY TextJobFacts
<1>2. CASE ~Is({"sort"})
  <2>1. Is({"insertsort", "mergesort"}) BY <1>2 DEF Is
  <2> QED BY <1>1, <1>2, <2>1, TextAsked DEF JobFacts
<1>3. CASE Is({"sort"})
  <2> DEFINE ps == Pieces(Text, Delimiter)
  <2>1. ~Is({"count", "replace"}) BY <1>3 DEF Is
  <2>2. DelimiterFacts BY <2>1, TextDelimiter
  <2>3. PieceFacts(ps) /\ Delimiter = <<NEWLINE>> BY <1>1, <1>3, <2>2, TextPieceFacts DEF DelimiterFacts, Is
  <2>4. SortedText = KeptFrom(ps, Len(ps)) BY <1>3, TextAsked
  <2> HIDE DEF ps
  <2>5. ps \in Seq(Seq(Byte)) /\ Plain(ps) BY <2>3 DEF PieceFacts
  <2>6. Len(ps) \in 0..Len(ps) BY <2>5
  <2>7. KeptFrom(ps, Len(ps)) \in Seq(PlainLine) BY <2>5, <2>6, TextKeptNext
  <2> QED BY <2>4, <2>7
<1> QED BY <1>2, <1>3

\* What is known with certainty is known.
LEMMA TextQuickUnsure ==
  ASSUME NEW num, NEW s0, NEW s, NEW rs, NEW sc, QuickInv(num, s0, s, rs, sc, TRUE)
  PROVE  QuickInv(num, s0, s, rs, sc, FALSE)
BY DEF QuickInv

\* A command that sorts, or goes on sorting.
LEMMA TextInvSort ==
  ASSUME TypeOk, Kept, step' = "sort", outcome' = "running", errors' \in 0..DEPTH, Typed,
         Is({"sort"}),
         \E s0 : QuickInv(numeric, s0, lines', ranges', scan', FALSE),
         errors' = 0 => QuickInv(numeric, SortedText, lines', ranges', scan', TRUE)
  PROVE  Inv'
<1>1. job' = job /\ IsJob(job)' BY TextSameJob DEF Kept, TypeOk
<1>2. TypeOk' BY <1>1 DEF TypeOk, Typed
<1>3. step' \notin {"start"} \union Reads \union Uses \union {"done", "replacement", "print", "ended"}
  BY DEF Reads, Uses
<1>4. Placed' BY <1>1, <1>3 DEF Placed, Is
<1>5. QuickOk' BY DEF QuickOk, Typed
<1>6. EndOk' BY <1>3 DEF EndOk
<1>7. SortedText' = SortedText BY <1>1, TextSameAsked DEF SameAsked
<1>8. errors' = 0 => SortOk' BY <1>7 DEF SortOk, Typed
<1>9. errors' = 0 => Progress' BY <1>3, <1>8 DEF Progress, UseOk, PrintOk, ReadOk
<1> QED BY <1>2, <1>4, <1>5, <1>6, <1>9 DEF Inv

\* Calling the quicksort.
LEMMA TextBeginSort ==
  ASSUME Inv, BeginSort
  PROVE  Inv'
<1>1. step = "tokens" /\ step \in Uses BY DEF BeginSort, AtEnd, Uses
<1>2. Using /\ Is({"sort"}) BY <1>1, TextUsing DEF BeginSort
<1>3. lines' = lines /\ scan' = scan /\ numeric' = numeric /\ scan = NoScan /\ ~scan.active
  BY <1>2 DEF BeginSort, sortVars, BeginQuicksort, Using
<1>4. Typed BY <1>3 DEF BeginSort, Typed, Inv, TypeOk, file
<1>5. ASSUME Crashes \/ \E n \in 0..3 : Fails(n) PROVE Inv'
  <2>1. Quits BY <1>2, <1>5, TextQuits DEF Using
  <2> QED BY <2>1, <1>3, <1>4, TextInvQuits DEF Inv
<1>6. CASE lines # <<>> /\ Goes("sort") /\ BeginQuicksort
  <2>1. Moves("sort", "running")
    <3>1. Pushes(0, "sort", "running") BY <1>6 DEF Goes
    <3> QED BY <3>1, <1>2, TextMoves DEF Using
  <2>2. ranges' = << <<1, Len(lines)>> >> BY <1>6 DEF BeginQuicksort
  <2>3. lines \in Seq(Line) BY DEF Inv, TypeOk
  <2>4. QuickInv(numeric, lines, lines', ranges', scan', TRUE)
    <3>1. QuickInv(numeric, lines, lines, << <<1, Len(lines)>> >>, NoScan, TRUE)
      BY <2>3, <1>6, TextQuickBegins
    <3> QED BY <3>1, <2>2, <1>3
  <2>5. \E s0 : QuickInv(numeric, s0, lines', ranges', scan', FALSE) BY <2>4, TextQuickUnsure
  <2>6. errors = 0 => lines = SortedText
    <3> SUFFICES ASSUME errors = 0 PROVE lines = SortedText OBVIOUS
    <3> DEFINE ps == Pieces(Text, Delimiter)
               n == CutCount(Text, Delimiter)
    <3>1. AllPassed BY <1>2, TextAllPassed DEF BeginSort
    <3>2. lines = KeptFrom(ps, iter.pos) BY <3>1, <1>1, <1>2 DEF AllPassed, UseOk
    <3>3. iter.pos = n + 1 /\ Len(ps) = n + 1
      BY <3>1, <1>2, TextOneCommand DEF AllPassed, PieceFacts
    <3> QED BY <3>2, <3>3, <1>2, TextAsked
  <2>7. errors' = 0 => QuickInv(numeric, SortedText, lines', ranges', scan', TRUE)
    BY <2>1, <2>4, <2>6 DEF Moves
  <2> QED BY <1>2, <1>4, <2>1, <2>5, <2>7, TextInvSort DEF Moves, Inv, Using
<1>7. Fails(2) => \E n \in 0..3 : Fails(n) OBVIOUS
<1> QED BY <1>5, <1>6, <1>7 DEF BeginSort

\* A turn of the quicksort.
LEMMA TextQuickStep ==
  ASSUME NEW s0, NEW sure, QuickInv(numeric, s0, lines, ranges, scan, sure),
         SkipRange \/ SortShortRange \/ BeginPartition \/ ScanInward
  PROVE  QuickInv(numeric', s0, lines', ranges', scan', sure)
BY TextQuickSkips, TextQuickSorts, TextQuickPartitions, TextQuickScans

\* A turn of the quicksort, or a short range that it leaves as it was.
LEMMA TextQuicksort ==
  ASSUME Inv, Quicksort
  PROVE  Inv'
<1>1. step = "sort" BY DEF Quicksort
<1>2. Is({"sort"}) /\ errors \in 0..DEPTH BY <1>1 DEF Inv, Placed, TypeOk
<1>3. PICK s0 : QuickInv(numeric, s0, lines, ranges, scan, FALSE) BY <1>1 DEF Inv, QuickOk
<1>4. numeric' = numeric
  BY DEF Quicksort, SkipRange, SortShortRange, BeginPartition, ScanInward, LeaveShortRange
<1>5. ASSUME lines' \in Seq(Line) PROVE Typed
  BY <1>4, <1>5 DEF Quicksort, Typed, Inv, TypeOk, file
<1>6. CASE (SkipRange \/ SortShortRange \/ BeginPartition \/ ScanInward) /\ Goes("sort")
  <2>1. Moves("sort", "running")
    <3>1. Pushes(0, "sort", "running") BY <1>6 DEF Goes
    <3> QED BY <3>1, <1>2, TextMoves
  <2>2. QuickInv(numeric', s0, lines', ranges', scan', FALSE) BY <1>3, <1>6, TextQuickStep
  <2>3. \E t : QuickInv(numeric, t, lines', ranges', scan', FALSE) BY <2>2, <1>4
  <2>4. errors' = 0 => QuickInv(numeric, SortedText, lines', ranges', scan', TRUE)
    <3> SUFFICES ASSUME errors' = 0
                 PROVE  QuickInv(numeric, SortedText, lines', ranges', scan', TRUE)
      OBVIOUS
    <3>1. errors = 0 BY <2>1 DEF Moves
    <3> DEFINE st == SortedText
    <3>2. QuickInv(numeric, st, lines, ranges, scan, TRUE) BY <3>1, <1>1 DEF Inv, Progress, SortOk
    <3> HIDE DEF st
    <3>3. QuickInv(numeric', st, lines', ranges', scan', TRUE) BY <3>2, <1>6, TextQuickStep
    <3> QED BY <3>3, <1>4 DEF st
  <2>5. Typed BY <2>2, <1>5 DEF QuickInv
  <2> QED BY <1>2, <2>1, <2>3, <2>4, <2>5, TextInvSort DEF Moves, Inv
<1>7. CASE LeaveShortRange /\ Pushes(1, "sort", "running")
  <2>1. Reports("sort") BY <1>2, <1>7, TextReports
  <2>2. QuickInv(numeric', s0, lines', ranges', scan', FALSE) BY <1>3, <1>7, TextQuickLeaves
  <2>3. \E t : QuickInv(numeric, t, lines', ranges', scan', FALSE) BY <2>2, <1>4
  <2>4. Typed BY <2>2, <1>5 DEF QuickInv
  <2>5. CASE step' = "ended" /\ outcome' = "aborted"
    <3>1. Quits BY <2>1, <2>5 DEF Quits, Reports, Over
    <3>2. ~scan'.active BY <1>7 DEF LeaveShortRange, Sorting
    <3> QED BY <3>1, <3>2, <2>4, TextInvQuits DEF Inv
  <2>6. CASE step' = "sort" /\ outcome' = "running"
    BY <2>1, <2>3, <2>4, <2>6, <1>2, TextInvSort DEF Reports, Inv
  <2> QED BY <2>1, <2>5, <2>6 DEF Reports
<1> QED BY <1>6, <1>7 DEF Quicksort

\* The end of the quicksort.
LEMMA TextEndSort ==
  ASSUME Inv, EndSort
  PROVE  Inv'
<1>1. step = "sort" /\ ranges = <<>> /\ ~scan.active BY DEF EndSort
<1>2. Is({"sort"}) /\ errors \in 0..DEPTH BY <1>1 DEF Inv, Placed, TypeOk
<1>3. Typed BY DEF EndSort, Typed, Inv, TypeOk, file, sortVars
<1>4. Moves("print", "running")
  <2>1. Pushes(0, "print", "running") BY DEF EndSort, Goes
  <2> QED BY <2>1, <1>2, TextMoves
<1>5. lines' = lines /\ numeric' = numeric /\ scan' = scan BY DEF EndSort, sortVars
<1>6. job' = job /\ SortedText' = SortedText BY <1>4, TextSameAsked DEF Moves, Kept, SameAsked
<1>7. errors = 0 => PrintOk'
  <2> SUFFICES ASSUME errors = 0 PROVE PrintOk' OBVIOUS
  <2> DEFINE st == SortedText
  <2>1. QuickInv(numeric, st, lines, <<>>, scan, TRUE) BY <1>1 DEF Inv, Progress, SortOk
  <2> HIDE DEF st
  <2>2. IsPermuted(lines, st) /\ (st \in Seq(Ordinary(numeric)) => IsOrdered(numeric, lines))
    BY <2>1, TextQuickEnds
  <2>3. ~Is({"concat"}) BY <1>2 DEF Is
  <2> QED BY <2>2, <2>3, <1>5, <1>6 DEF PrintOk, Is, st
<1>8. Is({"concat", "sort", "insertsort", "mergesort"}) BY <1>2 DEF Is
<1> QED BY <1>1, <1>3, <1>4, <1>5, <1>7, <1>8, TextInvPrint DEF Inv

\* Calling another sort of the library.
LEMMA TextCallLibrary ==
  ASSUME Inv, CallLibrary
  PROVE  Inv'
<1>1. step = "start" /\ Is({"insertsort", "mergesort"}) BY DEF CallLibrary
<1>2. errors \in 0..DEPTH /\ ~scan.active BY <1>1 DEF Inv, TypeOk, Placed
<1>3. scan' = scan /\ numeric' = numeric BY DEF CallLibrary
<1> DEFINE F == job.files
<1>4. F \in Seq(Line) BY <1>1, TextJobFacts, TextPlainLines DEF Inv, TypeOk, JobFacts
<1> DEFINE sorted == IF Is({"insertsort"}) THEN InsertSorted(F) ELSE MergeSorted(F)
<1>5. /\ sorted \in Seq(Line) /\ IsPermuted(sorted, F)
      /\ F \in Seq(Ordinary(numeric)) => IsOrdered(numeric, sorted)
  <2> HIDE DEF F
  <2>1. CASE Is({"insertsort"}) BY <2>1, <1>4, TextInsertSorted
  <2>2. CASE ~Is({"insertsort"}) BY <2>2, <1>4, TextMergeSorted
  <2> QED BY <2>1, <2>2
<1>6. CASE lines' = sorted /\ Goes("print")
  <2>1. Moves("print", "running")
    <3>1. Pushes(0, "print", "running") BY <1>6 DEF Goes
    <3> QED BY <3>1, <1>2, TextMoves
  <2> HIDE DEF sorted
  <2>2. Typed BY <1>5, <1>6 DEF CallLibrary, Typed, Inv, TypeOk, file
  <2>3. errors = 0 => PrintOk'
    <3> SUFFICES ASSUME errors = 0 PROVE PrintOk' OBVIOUS
    <3>1. job' = job /\ SortedText' = SortedText BY <2>1, TextSameAsked DEF Moves, Kept, SameAsked
    <3>2. ~Is({"concat"}) /\ ~Is({"sort"}) BY <1>1 DEF Is
    <3>3. SortedText = F BY <3>2, TextAsked
    <3> HIDE DEF F
    <3> QED BY <3>1, <3>2, <3>3, <1>3, <1>5, <1>6 DEF PrintOk, Is
  <2>4. Is({"concat", "sort", "insertsort", "mergesort"}) BY <1>1 DEF Is
  <2> QED BY <1>2, <1>3, <2>1, <2>2, <2>3, <2>4, TextInvPrint DEF Inv
<1>7. CASE Fails(1) /\ UNCHANGED lines
  <2>1. \E n \in 0..3 : Fails(n) BY <1>7
  <2>2. Quits BY <2>1, <1>2, TextQuits
  <2>3. Typed BY <1>7 DEF CallLibrary, Typed, Inv, TypeOk, file
  <2> QED BY <2>2, <2>3, <1>2, <1>3, TextInvQuits DEF Inv
<1> QED BY <1>6, <1>7 DEF CallLibrary

-----------------------------------------------------------------------------
(* The end.                                                                *)

\* InOrder is InOrderAs, before and after a step.
LEMMA TextInOrderAs ==
  /\ \A sorted : InOrder(sorted) <=> InOrderAs(numeric, job.reverse, sorted)
  /\ InOrder(Front(Pieces(out, <<NEWLINE>>)))' <=>
       InOrderAs(numeric', job'.reverse, Front(Pieces(out', <<NEWLINE>>)))
BY DEF InOrder, InOrderAs, Compare, Cmp

\* Printing the lines.
LEMMA TextPrintLines ==
  ASSUME Inv, PrintLines
  PROVE  Inv'
<1>1. step = "print" /\ ~Is({"concat"}) BY DEF PrintLines
<1>2. /\ Is({"sort", "insertsort", "mergesort"})
      /\ ~Is({"count"}) /\ ~Is({"slicelines"}) /\ ~Is({"replace"})
  BY <1>1 DEF Inv, Placed, Is
<1>3. errors \in 0..DEPTH /\ ~scan.active /\ lines \in Seq(Line) /\ IsJob(job)
  BY <1>1 DEF Inv, Placed, TypeOk
<1>4. Typed /\ scan' = scan /\ numeric' = numeric
  BY DEF PrintLines, Typed, Inv, TypeOk, file, sortVars
<1>5. Moves("done", "success")
  <2>1. Pushes(0, "done", "success") BY DEF PrintLines
  <2> QED BY <2>1, <1>3, TextMoves
<1>6. job' = job /\ fault' = fault /\ SortedText' = SortedText
  BY <1>5, TextSameAsked DEF Moves, Kept, SameAsked
<1>7. errors = 0 => Right'
  <2> SUFFICES ASSUME errors = 0 PROVE Right' OBVIOUS
  <2>1. CASE "write" \in fault BY <2>1, <1>1, <1>2, <1>6 DEF Right, Is
  <2>2. CASE "write" \notin fault
    <3> DEFINE st == SortedText
               X == Shown
    <3>1. st \in Seq(PlainLine) BY <1>2, <1>3, TextSortedText
    <3>2. /\ IsPermuted(lines, st)
          /\ st \in Seq(Ordinary(numeric)) => IsOrdered(numeric, lines)
      BY <1>1 DEF Inv, Progress, PrintOk
    <3>3. out' = Printed(X) BY <2>2 DEF PrintLines, Shown
    <3> HIDE DEF st
    <3>4. X \in Seq(PlainLine) /\ SameElements(X, st) /\ InOrder(X) BY <1>3, <3>1, <3>2, TextShown
    <3>5. InOrderAs(numeric, job.reverse, X) BY <3>4, TextInOrderAs
    <3> HIDE DEF X
    <3>6. Front(Pieces(Printed(X), <<NEWLINE>>)) = X
      <4>1. X \in Seq(Seq(Byte)) /\ Plain(X) BY <3>4, TextPlain, TextPlainLines
      <4>2. NEWLINE \in Byte BY DEF NEWLINE, Byte
      <4> QED BY <4>1, <4>2, TextPiecesPrinted
    <3> DEFINE Y == Front(Pieces(out, <<NEWLINE>>))
    <3>7. Y' = X BY <3>3, <3>6
    <3>8. InOrder(Y)' BY <3>5, <3>7, <1>4, <1>6, TextInOrderAs
    <3>9. SameElements(Y', SortedText') BY <3>4, <3>7, <1>6 DEF st
    <3> QED BY <3>8, <3>9, <1>1, <1>2, <1>6 DEF Right, Is
  <2> QED BY <2>1, <2>2
<1> QED BY <1>3, <1>4, <1>5, <1>7, TextInvDone DEF Inv

\* What is right stays right.
LEMMA TextStaysRight ==
  ASSUME Right, UNCHANGED <<job, fault, out, numeric>>
  PROVE  Right'
<1>1. SameAsked BY TextSameAsked
<1> DEFINE Y == Front(Pieces(out, <<NEWLINE>>))
<1>2. Y' = Y OBVIOUS
<1>3. InOrder(Y)' <=> InOrder(Y) BY <1>2, TextInOrderAs
<1>4. SameElements(Y', SortedText') <=> SameElements(Y, SortedText) BY <1>1, <1>2 DEF SameAsked
<1>5. \A c : Is(c)' <=> Is(c) BY DEF Is
<1>6. CASE Is({"concat"}) BY <1>6 DEF Right, Is
<1>7. CASE Is({"count"}) BY <1>7, <1>1 DEF Right, Is, SameAsked
<1>8. CASE Is({"slicelines"}) BY <1>8, <1>1 DEF Right, Is, SameAsked
<1>9. CASE Is({"replace"}) BY <1>9, <1>1 DEF Right, Is, SameAsked
<1>10. CASE ~Is({"concat"}) /\ ~Is({"count"}) /\ ~Is({"slicelines"}) /\ ~Is({"replace"})
  <2>1. "write" \in fault \/ (SameElements(Y, SortedText) /\ InOrder(Y)) BY <1>10 DEF Right
  <2>2. "write" \in fault' \/ (SameElements(Y', SortedText') /\ InOrder(Y)') BY <2>1, <1>3, <1>4
  <2>3. /\ ~Is({"concat"})' /\ ~Is({"count"})' /\ ~Is({"slicelines"})' /\ ~Is({"replace"})'
    BY <1>10, <1>5
  <2> QED BY <2>2, <2>3 DEF Right
<1> QED BY <1>6, <1>7, <1>8, <1>9, <1>10

\* Reporting the errors.
LEMMA TextUnwind ==
  ASSUME Inv, Unwind
  PROVE  Inv'
<1>1. step = "done" /\ step' = "ended" /\ errors' = 0 BY DEF Unwind
<1>2. UNCHANGED <<job, fault, path, rest, data, content, iter, result, out, lines, numeric, ranges, scan>>
  BY DEF Unwind, file, sortVars
<1>3. IsJob(job)' BY <1>2 DEF Inv, TypeOk
<1>4. TypeOk'
  <2>1. errors' \in 0..DEPTH BY <1>1, BufferAssumption
  <2> QED BY <1>1, <1>2, <1>3, <2>1 DEF Inv, TypeOk, Over
<1>5. step' \notin {"start"} \union Reads \union Uses \union {"done", "replacement", "print", "sort"}
  BY <1>1 DEF Reads, Uses
<1>6. ~scan'.active BY <1>1, <1>2 DEF Inv, Placed
<1>7. Placed' BY <1>5, <1>6 DEF Placed
<1>8. QuickOk' BY <1>5 DEF QuickOk
<1>9. Progress' BY <1>5 DEF Progress, ReadOk, UseOk, SortOk, PrintOk
<1>10. EndOk'
  <2> SUFFICES ASSUME outcome' = "success", reported' = 0 PROVE Right'
    BY <1>5 DEF EndOk
  <2>1. reported' = errors /\ outcome' = outcome BY DEF Unwind
  <2>2. Right BY <2>1, <1>1 DEF Inv, EndOk
  <2> QED BY <2>2, <1>2, TextStaysRight
<1> QED BY <1>4, <1>7, <1>8, <1>9, <1>10 DEF Inv

\* Nothing changes.
LEMMA TextStutters ==
  ASSUME Inv, UNCHANGED vars
  PROVE  Inv'
<1>1. /\ UNCHANGED <<job, fault, step, path, rest, data, content, iter, result, out, errors>>
      /\ UNCHANGED <<reported, outcome, lines, numeric, ranges, scan>>
  BY DEF vars, file, sortVars
<1>2. SameAsked /\ \A c : Is(c)' <=> Is(c) BY <1>1, TextSameAsked DEF Is
<1>3. TypeOk' BY <1>1 DEF Inv, TypeOk, IsJob
<1>4. Placed' BY <1>1, <1>2 DEF Inv, Placed, SameAsked
<1>5. QuickOk' BY <1>1 DEF Inv, QuickOk
<1>6. EndOk'
  <2>1. Right => Right' BY <1>1, TextStaysRight
  <2> QED BY <2>1, <1>1 DEF Inv, EndOk
<1>7. errors' = 0 => Progress'
  <2> SUFFICES ASSUME errors' = 0 PROVE Progress' OBVIOUS
  <2>1. ReadOk /\ UseOk /\ SortOk /\ PrintOk BY <1>1 DEF Inv, Progress
  <2>2. ReadOk' BY <2>1, <1>1 DEF ReadOk, Is
  <2>3. UseOk' BY <2>1, <1>1, <1>2 DEF UseOk, Is, SameAsked
  <2>4. SortOk' BY <2>1, <1>1, <1>2 DEF SortOk, SameAsked
  <2>5. PrintOk' BY <2>1, <1>1, <1>2 DEF PrintOk, Is, SameAsked
  <2> QED BY <2>2, <2>3, <2>4, <2>5 DEF Progress
<1> QED BY <1>3, <1>4, <1>5, <1>6, <1>7 DEF Inv

\* The invariant holds at first.
LEMMA TextInit ==
  ASSUME Init
  PROVE  Inv
<1>1. PICK run \in Runs : job = run.job /\ fault = run.fault BY DEF Init
<1>2. IsJob(job) BY <1>1, RunsAssumption
<1>3. JobFacts BY <1>2, TextJobFacts
<1>4. /\ step = "start" /\ path = 1 /\ rest = <<>> /\ data = <<>> /\ content = <<>>
      /\ result = <<>> /\ out = <<>> /\ errors = 0 /\ outcome = "running"
      /\ lines = <<>> /\ numeric = job.numeric /\ scan = NoScan
  BY DEF Init, NoContent
<1>5. TypeOk
  <2>1. <<>> \in Seq(Byte) /\ <<>> \in Seq(Line) OBVIOUS
  <2>2. 0 \in 0..DEPTH BY BufferAssumption
  <2> QED BY <1>2, <1>4, <2>1, <2>2 DEF TypeOk
<1>6. step \notin Reads \union Uses \union Over \union {"replacement", "print", "sort"}
  BY <1>4 DEF Reads, Uses, Over
<1>7. path \in 1..Len(job.files)
  <2>1. Len(job.files) \in Nat /\ Len(job.files) # 0 BY <1>3 DEF JobFacts
  <2> DEFINE n == Len(job.files)
  <2>2. n \in Nat /\ n # 0 BY <2>1
  <2> HIDE DEF n
  <2>3. 1 \in 1..n BY <2>2
  <2> QED BY <2>3, <1>4 DEF n
<1>8. ~scan.active BY <1>4 DEF NoScan
<1>9. Placed BY <1>4, <1>6, <1>7, <1>8 DEF Placed
<1>10. QuickOk BY <1>6 DEF QuickOk
<1>11. ReadOk
  <2>1. View(result) = <<>> BY <1>4, TextView
  <2>2. FlattenSeq(SubSeq(job.files, 1, path - 1)) = <<>>
    <3>1. path - 1 = 0 BY <1>4
    <3> QED BY <3>1, TextJoinNone
  <2> QED BY <2>1, <2>2, <1>4 DEF ReadOk
<1>12. Progress BY <1>6, <1>11 DEF Progress, UseOk, SortOk, PrintOk
<1>13. EndOk BY <1>6 DEF EndOk, Over
<1> QED BY <1>5, <1>9, <1>10, <1>12, <1>13 DEF Inv

\* Every step keeps it.
LEMMA TextNext ==
  ASSUME Inv, [Next]_vars
  PROVE  Inv'
<1>1. CASE Ended \/ UNCHANGED vars BY <1>1, TextStutters DEF Ended
<1>2. CASE \/ Start \/ Open \/ ReadChunk \/ ReadError \/ Decode \/ AddContent \/ PrintResult
  BY <1>2, TextStart, TextOpen, TextReadChunk, TextReadError, TextDecode, TextAddContent,
     TextPrintResult
<1>3. CASE \/ BeginTokens \/ CountToken \/ SliceLine \/ ReplaceToken \/ PrintReplacement
           \/ ReadLine \/ PrintCount \/ FinishTokens
  BY <1>3, TextBeginTokens, TextCountToken, TextSliceLine, TextReplaceToken,
     TextPrintReplacement, TextReadLine, TextPrintCount, TextFinishTokens
<1>4. CASE BeginSort \/ Quicksort \/ EndSort \/ CallLibrary \/ PrintLines \/ Unwind
  BY <1>4, TextBeginSort, TextQuicksort, TextEndSort, TextCallLibrary, TextPrintLines, TextUnwind
<1> QED BY <1>1, <1>2, <1>3, <1>4 DEF Next

\* What the invariant says of the properties.
LEMMA TextInvImplies ==
  ASSUME Inv
  PROVE  OutputIsRight /\ ScansStayInRange
<1>1. OutputIsRight BY DEF Inv, EndOk, OutputIsRight, Right
<1>2. ScansStayInRange
  <2> SUFFICES ASSUME scan.active PROVE StopsInRange BY DEF ScansStayInRange
  <2>1. step = "sort" BY DEF Inv, Placed
  <2>2. PICK s0 : QuickInv(numeric, s0, lines, ranges, scan, FALSE) BY <2>1 DEF Inv, QuickOk
  <2> QED BY <2>2, TextStops
<1> QED BY <1>1, <1>2

\* The invariant is inductive.
THEOREM TextInv == Spec => []Inv
BY TextInit, TextNext, PTL DEF Spec

\* A command that ends well with no error reported has printed what it was asked
\* for, whatever failed on the way and however the reads cut the files: for every
\* job, every buffer size, every threshold of the quicksort and every depth of the
\* error stack.
THEOREM TextOutputIsRight == Spec => []OutputIsRight
BY TextInv, TextInvImplies, PTL

\* No inner loop of the partition of sort.c runs out of its part of the array,
\* for any lines, also those that the order does not order.
THEOREM TextScansStayInRange == Spec => []ScansStayInRange
BY TextInv, TextInvImplies, PTL

-----------------------------------------------------------------------------
(* What the decoder takes for UTF-8.                                       *)

\* The one range of a state that has the byte says what it leads to.
LEMMA TextDecodedTo ==
  ASSUME NEW state, NEW byte, NEW t \in Transitions(state), byte \in t[1]..t[2],
         \A u \in Transitions(state) : byte \in u[1]..u[2] => u = t
  PROVE  Decoded(state, byte) = t[3]
<1> DEFINE next == {u \in Transitions(state) : byte \in u[1]..u[2]}
<1>1. next = {t} OBVIOUS
<1>2. (CHOOSE u \in next : TRUE) = t BY <1>1
<1>3. next # {} BY <1>1
<1> QED BY <1>2, <1>3 DEF Decoded

\* A byte that is in no range of a state leads nowhere.
LEMMA TextDecodedNot ==
  ASSUME NEW state, NEW byte, \A u \in Transitions(state) : ~(byte \in u[1]..u[2])
  PROVE  Decoded(state, byte) = "error"
BY DEF Decoded

\* A state with one range.
OneRange(state, first, last, to) ==
  \A byte \in Byte :
    Decoded(state, byte) = IF byte \in first..last THEN to ELSE "error"

\* What such a state leads to.
LEMMA TextOneRange ==
  ASSUME NEW state, NEW first, NEW last, NEW to, Transitions(state) = {<<first, last, to>>}
  PROVE  OneRange(state, first, last, to)
<1> SUFFICES ASSUME NEW byte \in Byte
    PROVE Decoded(state, byte) = IF byte \in first..last THEN to ELSE "error"
  BY DEF OneRange
<1> DEFINE t == <<first, last, to>>
<1>1. t \in Transitions(state) /\ t[1] = first /\ t[2] = last /\ t[3] = to OBVIOUS
<1>2. \A u \in Transitions(state) : u = t OBVIOUS
<1> HIDE DEF t
<1>3. CASE byte \in first..last
  <2>1. Decoded(state, byte) = t[3] BY <1>1, <1>2, <1>3, TextDecodedTo
  <2> QED BY <2>1, <1>1, <1>3
<1>4. CASE byte \notin first..last
  <2>1. Decoded(state, byte) = "error" BY <1>1, <1>2, <1>4, TextDecodedNot
  <2> QED BY <2>1, <1>4
<1> QED BY <1>3, <1>4

\* What the states lead to on a byte.
LEMMA TextDecodes ==
  /\ OneRange("byte2_e", 128, 191, "byte4_f")
  /\ OneRange("byte2_e0", 160, 191, "byte4_f")
  /\ OneRange("byte2_ed", 128, 159, "byte4_f")
  /\ OneRange("byte2_f", 128, 191, "byte3_f")
  /\ OneRange("byte2_f0", 144, 191, "byte3_f")
  /\ OneRange("byte2_f4", 128, 143, "byte3_f")
  /\ OneRange("byte3_f", 128, 191, "byte4_f")
  /\ OneRange("byte4_f", 128, 191, "end")
<1>1. /\ Transitions("byte2_e")  = {<<128, 191, "byte4_f">>}
      /\ Transitions("byte2_e0") = {<<160, 191, "byte4_f">>}
      /\ Transitions("byte2_ed") = {<<128, 159, "byte4_f">>}
      /\ Transitions("byte2_f")  = {<<128, 191, "byte3_f">>}
      /\ Transitions("byte2_f0") = {<<144, 191, "byte3_f">>}
      /\ Transitions("byte2_f4") = {<<128, 143, "byte3_f">>}
      /\ Transitions("byte3_f")  = {<<128, 191, "byte4_f">>}
      /\ Transitions("byte4_f")  = {<<128, 191, "end">>}
  BY DEF Transitions
<1> QED BY <1>1, TextOneRange

\* Nothing follows the end and an error.
LEMMA TextDecodedEnd ==
  ASSUME NEW byte
  PROVE  Decoded("end", byte) = "error" /\ Decoded("error", byte) = "error"
<1>1. Transitions("end") = {} /\ Transitions("error") = {} BY DEF Transitions
<1> QED BY <1>1, TextDecodedNot

\* What the first byte leads to.
LeadsTo(byte) ==
  IF byte <= 127 THEN "end" ELSE IF byte <= 193 THEN "error" ELSE IF byte <= 223 THEN "byte4_f"
  ELSE IF byte = 224 THEN "byte2_e0" ELSE IF byte = 237 THEN "byte2_ed"
  ELSE IF byte <= 239 THEN "byte2_e" ELSE IF byte = 240 THEN "byte2_f0"
  ELSE IF byte <= 243 THEN "byte2_f" ELSE IF byte = 244 THEN "byte2_f4" ELSE "error"

\* It leads to that.
LEMMA TextDecodedFirst ==
  ASSUME NEW byte \in Byte
  PROVE  Decoded("start", byte) = LeadsTo(byte)
<1> DEFINE T == {<<0, 127, "end">>, <<194, 223, "byte4_f">>, <<224, 224, "byte2_e0">>,
                 <<225, 236, "byte2_e">>, <<237, 237, "byte2_ed">>, <<238, 239, "byte2_e">>,
                 <<240, 240, "byte2_f0">>, <<241, 243, "byte2_f">>, <<244, 244, "byte2_f4">>}
<1>1. Transitions("start") = T BY DEF Transitions
<1>2. byte \in 0..255 BY DEF Byte
<1>3. ASSUME NEW t \in T, byte \in t[1]..t[2] PROVE t[3] = LeadsTo(byte)
  BY <1>2, <1>3 DEF LeadsTo
<1>4. ASSUME NEW t \in T, NEW u \in T, byte \in t[1]..t[2], byte \in u[1]..u[2] PROVE t = u
  BY <1>2, <1>4
<1>5. ASSUME \A t \in T : ~(byte \in t[1]..t[2]) PROVE LeadsTo(byte) = "error"
  BY <1>2, <1>5 DEF LeadsTo
<1> HIDE DEF T
<1>6. CASE \E t \in T : byte \in t[1]..t[2]
  <2>1. PICK t \in T : byte \in t[1]..t[2] BY <1>6
  <2>2. \A u \in Transitions("start") : byte \in u[1]..u[2] => u = t BY <1>1, <1>4, <2>1
  <2>3. Decoded("start", byte) = t[3] BY <1>1, <2>1, <2>2, TextDecodedTo
  <2> QED BY <2>1, <2>3, <1>3
<1>7. CASE ~\E t \in T : byte \in t[1]..t[2]
  <2>1. Decoded("start", byte) = "error" BY <1>1, <1>7, TextDecodedNot
  <2> QED BY <2>1, <1>5, <1>7
<1> QED BY <1>6, <1>7

\* The states of the decoder.
States == {"start", "end", "error", "byte2_e", "byte2_e0", "byte2_ed", "byte2_f", "byte2_f0",
           "byte2_f4", "byte3_f", "byte4_f"}

\* A byte leads from one to one.
LEMMA TextStates ==
  ASSUME NEW state \in States, NEW byte \in Byte
  PROVE  Decoded(state, byte) \in States
<1>1. CASE state = "start"
  <2>1. LeadsTo(byte) \in States BY DEF LeadsTo, States
  <2> QED BY <2>1, <1>1, TextDecodedFirst
<1>2. CASE state \in {"end", "error"}
  <2>1. Decoded(state, byte) = "error" BY <1>2, TextDecodedEnd
  <2> QED BY <2>1 DEF States
<1>3. CASE state \notin {"start", "end", "error"}
  BY <1>3, TextDecodes DEF OneRange, States
<1> QED BY <1>1, <1>2, <1>3

\* The bytes that a codepoint may have are bytes of the text.
LEMMA TextMost ==
  ASSUME NEW bytes \in Seq(Byte), NEW n \in 0..Len(bytes)
  PROVE  /\ Most(bytes, n) \in 0..4
         /\ \A i \in 1..Most(bytes, n) : n + i \in 1..Len(bytes) /\ n + i \in n + 1..Len(bytes)
                                        /\ bytes[n + i] \in Byte
         /\ \A i \in 1..4 : n + i <= Len(bytes) => i \in 1..Most(bytes, n)
<1> DEFINE k == Len(bytes) - n
<1>1. k \in Nat /\ Len(bytes) \in Nat OBVIOUS
<1>2. Most(bytes, n) = IF 4 <= k THEN 4 ELSE k
  <2> HIDE DEF k
  <2>1. Min({4, k}) = IF 4 <= k THEN 4 ELSE k BY <1>1, TextMinOfTwo
  <2> QED BY <2>1 DEF Most, k
<1>3. \A i \in 1..Most(bytes, n) : n + i \in 1..Len(bytes) /\ n + i \in n + 1..Len(bytes)
  BY <1>1, <1>2
<1>4. \A i \in 1..Len(bytes) : bytes[i] \in Byte BY ElementOfSeq
<1> QED BY <1>1, <1>2, <1>3, <1>4

\* The decoder's states along the bytes of a codepoint.
IsDecoding(g, bytes, n) ==
  g = [i \in 0..Most(bytes, n) |-> IF i = 0 THEN "start" ELSE Decoded(g[i - 1], bytes[n + i])]

\* There are such states.
LEMMA TextDecodingExists ==
  ASSUME NEW bytes \in Seq(Byte), NEW n \in 0..Len(bytes)
  PROVE  \E g : IsDecoding(g, bytes, n)
<1> DEFINE m == Most(bytes, n)
           h == [i \in 1..m |-> [v \in States |-> Decoded(v, bytes[n + i])]]
<1>1. m \in Nat /\ \A i \in 1..m : bytes[n + i] \in Byte BY TextMost
<1> HIDE DEF m
<1>2. h \in [1..m -> [States -> States]]
  <2>1. ASSUME NEW i \in 1..m, NEW v \in States PROVE Decoded(v, bytes[n + i]) \in States
    BY <1>1, TextStates
  <2> QED BY <2>1
<1>3. PICK g \in [0..m -> States] : Follows(g, m, "start", h)
  <2>1. "start" \in States BY DEF States
  <2> HIDE DEF h
  <2> QED BY <1>1, <1>2, <2>1, TextRecursion
<1>4. ASSUME NEW i \in 0..m PROVE g[i] = IF i = 0 THEN "start" ELSE Decoded(g[i - 1], bytes[n + i])
  <2>1. CASE i = 0 BY <2>1, <1>3 DEF Follows
  <2>2. CASE i # 0
    <3>1. i \in 1..m /\ i - 1 \in 0..m BY <1>1, <2>2
    <3>2. g[i - 1] \in States BY <3>1, <1>3
    <3>3. g[i] = h[i][g[i - 1]]
      <4> HIDE DEF h
      <4> QED BY <1>3, <3>1 DEF Follows
    <3>4. h[i][g[i - 1]] = Decoded(g[i - 1], bytes[n + i]) BY <3>1, <3>2
    <3> QED BY <2>2, <3>3, <3>4
  <2> QED BY <2>1, <2>2
<1>5. g = [i \in 0..m |-> g[i]] OBVIOUS
<1>6. [i \in 0..m |-> g[i]] =
      [i \in 0..m |-> IF i = 0 THEN "start" ELSE Decoded(g[i - 1], bytes[n + i])]
  BY <1>4
<1>7. IsDecoding(g, bytes, n) BY <1>5, <1>6 DEF IsDecoding, m
<1> QED BY <1>7

\* The first byte of a codepoint tells how many bytes it has.
Begins(byte, w) ==
  \/ w = 1 /\ byte <= 127
  \/ w = 2 /\ byte \in 194..223
  \/ w = 3 /\ byte \in 224..239
  \/ w = 4 /\ byte \in 240..244

\* So it does.
LEMMA TextEncodesFirst ==
  ASSUME NEW bytes, NEW n, NEW w, Encodes(bytes, n, w)
  PROVE  Begins(bytes[n + 1], w)
BY Zenon DEF Encodes, Begins

\* What the second byte leads to.
LeadsTo2(b, c) ==
  IF b <= 193 \/ b >= 245 \/ c \notin 128..191 THEN "error"
  ELSE IF b <= 223 THEN "end"
  ELSE IF b <= 239 THEN IF (b = 224 /\ c < 160) \/ (b = 237 /\ c > 159) THEN "error" ELSE "byte4_f"
  ELSE IF (b = 240 /\ c < 144) \/ (b = 244 /\ c > 143) THEN "error" ELSE "byte3_f"

\* The decoder does so.
LEMMA TextSecond ==
  ASSUME NEW b \in Byte, NEW c \in Byte
  PROVE  Decoded(LeadsTo(b), c) = LeadsTo2(b, c)
<1>1. b \in 0..255 /\ c \in 0..255 BY DEF Byte
<1> DEFINE s == LeadsTo(b)
<1>2. /\ s \in {"end", "error"} => Decoded(s, c) = "error"
      /\ s = "byte4_f" => Decoded(s, c) = IF c \in 128..191 THEN "end" ELSE "error"
      /\ s = "byte2_e0" => Decoded(s, c) = IF c \in 160..191 THEN "byte4_f" ELSE "error"
      /\ s = "byte2_ed" => Decoded(s, c) = IF c \in 128..159 THEN "byte4_f" ELSE "error"
      /\ s = "byte2_e" => Decoded(s, c) = IF c \in 128..191 THEN "byte4_f" ELSE "error"
      /\ s = "byte2_f0" => Decoded(s, c) = IF c \in 144..191 THEN "byte3_f" ELSE "error"
      /\ s = "byte2_f" => Decoded(s, c) = IF c \in 128..191 THEN "byte3_f" ELSE "error"
      /\ s = "byte2_f4" => Decoded(s, c) = IF c \in 128..143 THEN "byte3_f" ELSE "error"
  <2> HIDE DEF s
  <2> QED BY TextDecodes, TextDecodedEnd DEF OneRange
<1> DEFINE d == Decoded(s, c)
<1>3. CASE b <= 193 BY <1>1, <1>2, <1>3 DEF LeadsTo, LeadsTo2
<1>4. CASE b \in 194..223 BY <1>1, <1>2, <1>4 DEF LeadsTo, LeadsTo2
<1>5. CASE b \in {224, 237} BY <1>1, <1>2, <1>5 DEF LeadsTo, LeadsTo2
<1>6. CASE b \in 225..239 /\ b # 237 BY <1>1, <1>2, <1>6 DEF LeadsTo, LeadsTo2
<1>7. CASE b \in {240, 244} BY <1>1, <1>2, <1>7 DEF LeadsTo, LeadsTo2
<1>8. CASE b \in 241..243 BY <1>1, <1>2, <1>8 DEF LeadsTo, LeadsTo2
<1>9. CASE b >= 245 BY <1>1, <1>2, <1>9 DEF LeadsTo, LeadsTo2
<1> QED BY <1>1, <1>3, <1>4, <1>5, <1>6, <1>7, <1>8, <1>9

\* The third and the fourth.
LeadsOn(state, c) ==
  IF c \notin 128..191 THEN "error"
  ELSE IF state = "byte3_f" THEN "byte4_f"
  ELSE IF state = "byte4_f" THEN "end" ELSE "error"

\* It does so.
LEMMA TextThird ==
  ASSUME NEW state \in {"end", "error", "byte3_f", "byte4_f"}, NEW c \in Byte
  PROVE  Decoded(state, c) = LeadsOn(state, c)
<1>1. CASE state \in {"end", "error"} BY <1>1, TextDecodedEnd DEF LeadsOn
<1>2. CASE state \in {"byte3_f", "byte4_f"} BY <1>2, TextDecodes DEF OneRange, LeadsOn
<1> QED BY <1>1, <1>2

\* Where the decoder comes to the end.
LEMMA TextDecodingEnds ==
  ASSUME NEW bytes \in Seq(Byte), NEW n \in 0..Len(bytes), NEW g, IsDecoding(g, bytes, n)
  PROVE  \A i \in 1..Most(bytes, n) : g[i] = "end" <=> Encodes(bytes, n, i)
<1> DEFINE m == Most(bytes, n)
           b1 == bytes[n + 1]
           b2 == bytes[n + 2]
           b3 == bytes[n + 3]
           b4 == bytes[n + 4]
<1>1. m \in 0..4 /\ \A i \in 1..m : bytes[n + i] \in Byte BY TextMost
<1>2. \A i \in 1..m : g[i] = Decoded(g[i - 1], bytes[n + i]) /\ (i - 1 = 0 => g[i - 1] = "start")
  <2>1. \A i \in 0..m : g[i] = IF i = 0 THEN "start" ELSE Decoded(g[i - 1], bytes[n + i])
    BY DEF IsDecoding
  <2>2. \A i \in 1..m : i \in 0..m /\ i # 0 /\ 0 \in 0..m BY <1>1
  <2> HIDE DEF m
  <2> QED BY <2>1, <2>2
<1> HIDE DEF m
<1>3. m >= 1 => b1 \in Byte /\ g[1] = LeadsTo(b1)
  <2> SUFFICES ASSUME m >= 1 PROVE b1 \in Byte /\ g[1] = LeadsTo(b1) OBVIOUS
  <2>1. 1 \in 1..m /\ 1 - 1 = 0 BY <1>1
  <2>2. b1 \in Byte BY <2>1, <1>1
  <2>3. g[1] = Decoded("start", b1) BY <2>1, <1>2
  <2> QED BY <2>2, <2>3, TextDecodedFirst
<1>4. m >= 2 => b2 \in Byte /\ g[2] = LeadsTo2(b1, b2)
  <2> SUFFICES ASSUME m >= 2 PROVE b2 \in Byte /\ g[2] = LeadsTo2(b1, b2) OBVIOUS
  <2>1. 2 \in 1..m /\ 2 - 1 = 1 /\ m >= 1 BY <1>1
  <2>2. b2 \in Byte BY <2>1, <1>1
  <2>3. g[2] = Decoded(g[1], b2) BY <2>1, <1>2
  <2> QED BY <2>1, <2>2, <2>3, <1>3, TextSecond
<1>5. LeadsTo2(b1, b2) \in {"end", "error", "byte3_f", "byte4_f"} BY DEF LeadsTo2
<1>6. m >= 3 => b3 \in Byte /\ g[3] = LeadsOn(LeadsTo2(b1, b2), b3)
  <2> SUFFICES ASSUME m >= 3 PROVE b3 \in Byte /\ g[3] = LeadsOn(LeadsTo2(b1, b2), b3) OBVIOUS
  <2>1. 3 \in 1..m /\ 3 - 1 = 2 /\ m >= 2 BY <1>1
  <2>2. b3 \in Byte BY <2>1, <1>1
  <2>3. g[3] = Decoded(g[2], b3) BY <2>1, <1>2
  <2> QED BY <2>1, <2>2, <2>3, <1>4, <1>5, TextThird
<1>7. LeadsOn(LeadsTo2(b1, b2), b3) \in {"end", "error", "byte3_f", "byte4_f"} BY DEF LeadsOn
<1>8. m >= 4 => b4 \in Byte /\ g[4] = LeadsOn(LeadsOn(LeadsTo2(b1, b2), b3), b4)
  <2> SUFFICES ASSUME m >= 4 PROVE b4 \in Byte /\ g[4] = LeadsOn(LeadsOn(LeadsTo2(b1, b2), b3), b4)
    OBVIOUS
  <2>1. 4 \in 1..m /\ 4 - 1 = 3 /\ m >= 3 BY <1>1
  <2>2. b4 \in Byte BY <2>1, <1>1
  <2>3. g[4] = Decoded(g[3], b4) BY <2>1, <1>2
  <2> QED BY <2>1, <2>2, <2>3, <1>6, <1>7, TextThird
<1> HIDE DEF b1, b2, b3, b4
<1>9. m >= 1 => (g[1] = "end" <=> Encodes(bytes, n, 1))
  BY <1>3 DEF Encodes, LeadsTo, b1, Byte
<1>10. m >= 2 => (g[2] = "end" <=> Encodes(bytes, n, 2))
  <2> SUFFICES ASSUME m >= 2 PROVE g[2] = "end" <=> Encodes(bytes, n, 2) OBVIOUS
  <2>1. b1 \in 0..255 /\ b2 \in 0..255 BY <1>1, <1>3, <1>4 DEF Byte
  <2>2. Encodes(bytes, n, 2) <=> b1 \in 194..223 /\ b2 \in 128..191 BY DEF Encodes, b1, b2
  <2> QED BY <2>1, <2>2, <1>4 DEF LeadsTo2
<1>11. m >= 3 => (g[3] = "end" <=> Encodes(bytes, n, 3))
  <2> SUFFICES ASSUME m >= 3 PROVE g[3] = "end" <=> Encodes(bytes, n, 3) OBVIOUS
  <2>1. b1 \in 0..255 /\ b2 \in 0..255 /\ b3 \in 0..255 BY <1>1, <1>3, <1>4, <1>6 DEF Byte
  <2>2. Encodes(bytes, n, 3) <=> /\ b1 \in 224..239 /\ b2 \in 128..191 /\ b3 \in 128..191
                                 /\ b1 = 224 => b2 >= 160
                                 /\ b1 = 237 => b2 <= 159
    BY DEF Encodes, b1, b2, b3
  <2>3. LeadsTo2(b1, b2) = "byte4_f" <=> /\ b1 \in 224..239 /\ b2 \in 128..191
                                         /\ b1 = 224 => b2 >= 160
                                         /\ b1 = 237 => b2 <= 159
    BY <2>1 DEF LeadsTo2
  <2>4. g[3] = "end" <=> b3 \in 128..191 /\ LeadsTo2(b1, b2) = "byte4_f" BY <1>6 DEF LeadsOn
  <2> QED BY <2>2, <2>3, <2>4
<1>12. m >= 4 => (g[4] = "end" <=> Encodes(bytes, n, 4))
  <2> SUFFICES ASSUME m >= 4 PROVE g[4] = "end" <=> Encodes(bytes, n, 4) OBVIOUS
  <2>1. b1 \in 0..255 /\ b2 \in 0..255 /\ b3 \in 0..255 /\ b4 \in 0..255
    BY <1>1, <1>3, <1>4, <1>6, <1>8 DEF Byte
  <2>2. Encodes(bytes, n, 4) <=> /\ b1 \in 240..244 /\ b2 \in 128..191
                                 /\ b3 \in 128..191 /\ b4 \in 128..191
                                 /\ b1 = 240 => b2 >= 144
                                 /\ b1 = 244 => b2 <= 143
    BY DEF Encodes, b1, b2, b3, b4
  <2>3. LeadsTo2(b1, b2) = "byte3_f" <=> /\ b1 \in 240..244 /\ b2 \in 128..191
                                         /\ b1 = 240 => b2 >= 144
                                         /\ b1 = 244 => b2 <= 143
    BY <2>1 DEF LeadsTo2
  <2>4. g[4] = "end" <=> /\ b3 \in 128..191 /\ b4 \in 128..191
                         /\ LeadsTo2(b1, b2) = "byte3_f"
    BY <1>8 DEF LeadsOn
  <2> QED BY <2>2, <2>3, <2>4
<1>13. \A i \in 1..m : i \in {1, 2, 3, 4} /\ m >= i BY <1>1
<1> QED BY <1>9, <1>10, <1>11, <1>12, <1>13 DEF m

\* The width the decoder gives.
LEMMA TextWidthAt ==
  ASSUME NEW bytes \in Seq(Byte), NEW n \in 0..Len(bytes)
  PROVE  /\ WidthAt(bytes, n) \in 0..Most(bytes, n)
         /\ \A w \in 1..Most(bytes, n) : WidthAt(bytes, n) = w <=> Encodes(bytes, n, w)
<1> DEFINE m == Most(bytes, n)
           f == CHOOSE g : IsDecoding(g, bytes, n)
           ends == {i \in 1..m : f[i] = "end"}
<1>1. m \in 0..4 /\ \A i \in 1..m : bytes[n + i] \in Byte BY TextMost
<1>2. IsDecoding(f, bytes, n) BY TextDecodingExists
<1>3. \A i \in 1..m : f[i] = "end" <=> Encodes(bytes, n, i)
  <2> HIDE DEF f
  <2> QED BY <1>2, TextDecodingEnds
<1>4. WidthAt(bytes, n) = IF ends = {} THEN 0 ELSE Min(ends)
  BY DEF WidthAt, IsDecoding, Most, ERROR_WIDTH
<1> HIDE DEF f, m
<1>5. ASSUME NEW i \in ends, NEW j \in ends PROVE i = j
  <2>1. i \in 1..m /\ j \in 1..m /\ Encodes(bytes, n, i) /\ Encodes(bytes, n, j) BY <1>3
  <2>2. bytes[n + 1] \in 0..255
    <3>1. 1 \in 1..m BY <2>1, <1>1
    <3> QED BY <3>1, <1>1 DEF Byte
  <2> DEFINE b == bytes[n + 1]
  <2> HIDE DEF b
  <2>4. b \in 0..255 BY <2>2 DEF b
  <2>5. ASSUME NEW w \in 1..m, Encodes(bytes, n, w)
        PROVE  w = IF b <= 127 THEN 1 ELSE IF b <= 223 THEN 2 ELSE IF b <= 239 THEN 3 ELSE 4
    <3>1. Begins(b, w) BY <2>5, TextEncodesFirst DEF b
    <3> HIDE DEF ends
    <3> QED BY <2>4, <3>1 DEF Begins
  <2> QED BY <2>1, <2>5
<1>6. ends \in SUBSET Nat /\ ends \subseteq 1..m BY <1>1
<1>7. ASSUME NEW w \in ends PROVE WidthAt(bytes, n) = w
  <2>1. Min(ends) \in ends
    <3> HIDE DEF ends
    <3> QED BY <1>6, TextMin
  <2> QED BY <2>1, <1>4, <1>5
<1>8. \A w \in 1..m : w \in ends <=> Encodes(bytes, n, w) BY <1>3
<1> HIDE DEF ends
<1>9. ASSUME NEW w \in 1..m, WidthAt(bytes, n) = w PROVE w \in ends
  <2>1. ends # {} BY <1>4, <1>9
  <2>2. Min(ends) \in ends BY <2>1, <1>6, TextMin
  <2> QED BY <2>1, <2>2, <1>4, <1>9
<1>10. WidthAt(bytes, n) \in 0..m
  <2>1. CASE ends = {} BY <2>1, <1>1, <1>4
  <2>2. CASE ends # {}
    <3>1. Min(ends) \in ends BY <2>2, <1>6, TextMin
    <3>2. Min(ends) \in 1..m /\ WidthAt(bytes, n) = Min(ends) BY <3>1, <2>2, <1>4, <1>6
    <3>3. \A i \in 1..m : i \in 0..m BY <1>1
    <3> QED BY <3>2, <3>3
  <2> QED BY <2>1, <2>2
<1> QED BY <1>7, <1>8, <1>9, <1>10 DEF m

\* What remains of a byte.
Mod(byte, k) == byte % k

\* The number that the bytes of a codepoint make.
Two(b1, b2)           == 64 * Mod(b1, 32) + Mod(b2, 64)
Three(b1, b2, b3)     == 64 * (64 * Mod(b1, 16) + Mod(b2, 64)) + Mod(b3, 64)
Four(b1, b2, b3, b4)  == 64 * (64 * (64 * Mod(b1, 8) + Mod(b2, 64)) + Mod(b3, 64)) + Mod(b4, 64)
Value(s) ==
  IF Len(s) = 1 THEN Mod(s[1], 128)
  ELSE IF Len(s) = 2 THEN Two(s[1], s[2])
  ELSE IF Len(s) = 3 THEN Three(s[1], s[2], s[3])
  ELSE Four(s[1], s[2], s[3], s[4])

IsValue(g, s) ==
  g = [i \in 1..Len(s) |-> IF i = 1 THEN Mod(s[1], <<128, 32, 16, 8>>[Len(s)])
                           ELSE 64 * g[i - 1] + Mod(s[i], 64)]

\* There is such a function.
LEMMA TextValueExists ==
  ASSUME NEW s, Len(s) \in 1..4
  PROVE  \E g : IsValue(g, s)
<1> DEFINE L == Len(s)
           u1 == Mod(s[1], <<128, 32, 16, 8>>[L])
           u2 == 64 * u1 + Mod(s[2], 64)
           u3 == 64 * u2 + Mod(s[3], 64)
           u4 == 64 * u3 + Mod(s[4], 64)
           g == [i \in 1..L |-> IF i = 1 THEN u1 ELSE IF i = 2 THEN u2 ELSE IF i = 3 THEN u3 ELSE u4]
<1> HIDE DEF u1
<1>1. ASSUME NEW i \in 1..L PROVE g[i] = IF i = 1 THEN u1 ELSE 64 * g[i - 1] + Mod(s[i], 64)
  <2>0. L \in 1..4 /\ i \in 1..4
    <3>1. L \in 1..4 OBVIOUS
    <3> HIDE DEF g, L, u2, u3, u4
    <3> QED BY <3>1
  <2>1. CASE i = 1
    <3>1. 1 \in 1..L BY <2>0, <2>1
    <3> HIDE DEF u2, u3, u4
    <3>2. g[1] = u1 BY <3>1
    <3> HIDE DEF g
    <3> QED BY <2>1, <3>2
  <2>2. CASE i = 2
    <3>1. 1 \in 1..L /\ i - 1 = 1 BY <2>0, <2>2
    <3>2. g[i - 1] = u1 BY <3>1
    <3>3. g[i] = u2 BY <2>2
    <3> HIDE DEF g, u1
    <3> QED BY <2>2, <3>2, <3>3
  <2>3. CASE i = 3
    <3>1. 2 \in 1..L /\ i - 1 = 2 BY <2>0, <2>3
    <3>2. g[i - 1] = u2 BY <3>1
    <3>3. g[i] = u3 BY <2>3
    <3> HIDE DEF g, u2
    <3> QED BY <2>3, <3>2, <3>3
  <2>4. CASE i = 4
    <3>1. 3 \in 1..L /\ i - 1 = 3 BY <2>0, <2>4
    <3>2. g[i - 1] = u3 BY <3>1
    <3>3. g[i] = u4 BY <2>4
    <3> HIDE DEF g, u3
    <3> QED BY <2>4, <3>2, <3>3
  <2> QED BY <2>0, <2>1, <2>2, <2>3, <2>4
<1>2. g = [i \in 1..L |-> g[i]] OBVIOUS
<1>3. g = [i \in 1..L |-> IF i = 1 THEN u1 ELSE 64 * g[i - 1] + Mod(s[i], 64)]
  <2> HIDE DEF g, u1
  <2> QED BY <1>1, <1>2
<1> HIDE DEF g
<1> QED BY <1>3 DEF IsValue, u1

\* The model decodes that number.
LEMMA TextCodepoint ==
  ASSUME NEW s, Len(s) \in 1..4
  PROVE  Codepoint(s) = Value(s)
<1> DEFINE L == Len(s)
           f == CHOOSE g : IsValue(g, s)
           lead == Mod(s[1], <<128, 32, 16, 8>>[L])
<1>1. IsValue(f, s) BY TextValueExists
<1>2. Codepoint(s) = f[L] BY DEF Codepoint, IsValue, Mod
<1> HIDE DEF f
<1>3. \A i \in 1..L : f[i] = IF i = 1 THEN lead ELSE 64 * f[i - 1] + Mod(s[i], 64)
  BY <1>1 DEF IsValue
<1>4. /\ L = 1 => lead = Mod(s[1], 128)
      /\ L = 2 => lead = Mod(s[1], 32)
      /\ L = 3 => lead = Mod(s[1], 16)
      /\ L = 4 => lead = Mod(s[1], 8)
  <2>1. /\ <<128, 32, 16, 8>>[1] = 128 /\ <<128, 32, 16, 8>>[2] = 32
        /\ <<128, 32, 16, 8>>[3] = 16 /\ <<128, 32, 16, 8>>[4] = 8
    OBVIOUS
  <2> QED BY <2>1
<1> HIDE DEF lead
<1>5. f[1] = lead BY <1>3
<1>6. L >= 2 => f[2] = 64 * lead + Mod(s[2], 64) BY <1>3, <1>5
<1>7. L >= 3 => f[3] = 64 * (64 * lead + Mod(s[2], 64)) + Mod(s[3], 64)
  <2> SUFFICES ASSUME L >= 3 PROVE f[3] = 64 * (64 * lead + Mod(s[2], 64)) + Mod(s[3], 64) OBVIOUS
  <2>1. 3 \in 1..L /\ L >= 2 /\ 3 - 1 = 2 /\ 3 # 1 OBVIOUS
  <2>2. f[3] = 64 * f[2] + Mod(s[3], 64) BY <2>1, <1>3
  <2> QED BY <2>1, <2>2, <1>6
<1>8. L >= 4 => f[4] = 64 * (64 * (64 * lead + Mod(s[2], 64)) + Mod(s[3], 64)) + Mod(s[4], 64)
  <2> SUFFICES ASSUME L >= 4
      PROVE f[4] = 64 * (64 * (64 * lead + Mod(s[2], 64)) + Mod(s[3], 64)) + Mod(s[4], 64)
    OBVIOUS
  <2>1. 4 \in 1..L /\ L >= 3 /\ 4 - 1 = 3 /\ 4 # 1 OBVIOUS
  <2>2. f[4] = 64 * f[3] + Mod(s[4], 64) BY <2>1, <1>3
  <2> QED BY <2>1, <2>2, <1>7
<1>9. CASE L = 1 BY <1>9, <1>2, <1>4, <1>5 DEF Value
<1>10. CASE L = 2 BY <1>10, <1>2, <1>4, <1>6 DEF Value, Two
<1>11. CASE L = 3 BY <1>11, <1>2, <1>4, <1>7 DEF Value, Three
<1>12. CASE L = 4 BY <1>12, <1>2, <1>4, <1>8 DEF Value, Four
<1> QED BY <1>9, <1>10, <1>11, <1>12

\* Of a byte in its place.
LEMMA TextLowBits ==
  /\ \A b \in 0..127 : Mod(b, 128) = b
  /\ \A b \in 192..223 : Mod(b, 32) = b - 192
  /\ \A b \in 224..239 : Mod(b, 16) = b - 224
  /\ \A b \in 240..247 : Mod(b, 8) = b - 240
  /\ \A b \in 128..191 : Mod(b, 64) = b - 128
BY DEF Mod

\* How many bytes a number takes.
LEMMA TextCodepointWidth ==
  ASSUME NEW v \in Nat
  PROVE  /\ CodepointWidth(v) = 1 <=> v < 128
         /\ CodepointWidth(v) = 2 <=> v >= 128 /\ v < 2048
         /\ CodepointWidth(v) = 3 <=> v >= 2048 /\ v < 65536
         /\ CodepointWidth(v) = 4 <=> v >= 65536 /\ v < 1114112
<1>1. CASE v < 128 BY <1>1 DEF CodepointWidth
<1>2. CASE v >= 128 /\ v < 2048 BY <1>2 DEF CodepointWidth
<1>3. CASE v >= 2048 /\ v < 65536 BY <1>3 DEF CodepointWidth
<1>4. CASE v >= 65536 /\ v < 1114112 BY <1>4 DEF CodepointWidth
<1>5. CASE v >= 1114112 BY <1>5 DEF CodepointWidth, ERROR_WIDTH
<1> QED BY <1>1, <1>2, <1>3, <1>4, <1>5

\* A number that takes its width and is not half of a pair.
IsProper(v, w) == CodepointWidth(v) = w /\ v \notin 55296..57343

\* The numbers that one, two, three and four bytes make, if they are proper.
LEMMA TextProper1 ==
  ASSUME NEW b1 \in 0..127
  PROVE  IsProper(Mod(b1, 128), 1)
<1> DEFINE v == Mod(b1, 128)
<1>1. v = b1 BY TextLowBits
<1> HIDE DEF v
<1>2. v \in Nat /\ v < 128 /\ v \notin 55296..57343 BY <1>1
<1>3. CodepointWidth(v) = 1 BY <1>2, TextCodepointWidth
<1>4. IsProper(v, 1) BY <1>2, <1>3 DEF IsProper
<1> QED BY <1>4 DEF v

\* Two bytes make a proper one unless fewer would do.
LEMMA TextProper2 ==
  ASSUME NEW b1 \in 192..223, NEW b2 \in 128..191
  PROVE  IsProper(Two(b1, b2), 2) <=> b1 >= 194
<1> DEFINE v == 64 * (b1 - 192) + (b2 - 128)
<1>1. Mod(b1, 32) = b1 - 192 /\ Mod(b2, 64) = b2 - 128 BY TextLowBits
<1>2. v \in Nat /\ v < 2048 /\ (v >= 128 <=> b1 >= 194) OBVIOUS
<1> HIDE DEF v
<1>4. CodepointWidth(v) = 2 <=> v >= 128 BY <1>2, TextCodepointWidth
<1>5. v \notin 55296..57343 BY <1>2
<1>3. IsProper(v, 2) <=> b1 >= 194 BY <1>2, <1>4, <1>5 DEF IsProper
<1> QED BY <1>1, <1>3 DEF v, Two

\* So do three, but for the surrogates, which begin with 237.
LEMMA TextProper3 ==
  ASSUME NEW b1 \in 224..239, NEW b2 \in 128..191, NEW b3 \in 128..191
  PROVE  IsProper(Three(b1, b2, b3), 3) <=>
           (b1 = 224 => b2 >= 160) /\ (b1 = 237 => b2 <= 159)
<1> DEFINE v == 64 * (64 * (b1 - 224) + (b2 - 128)) + (b3 - 128)
<1>1. Mod(b1, 16) = b1 - 224 /\ Mod(b2, 64) = b2 - 128 /\ Mod(b3, 64) = b3 - 128 BY TextLowBits
<1> DEFINE x == b1 - 224
           y == b2 - 128
           z == b3 - 128
<1>4. /\ x \in 0..15 /\ y \in 0..63 /\ z \in 0..63 /\ v = 64 * (64 * x + y) + z
      /\ b1 = 224 <=> x = 0
      /\ b1 = 237 <=> x = 13
      /\ b2 >= 160 <=> y >= 32
      /\ b2 <= 159 <=> y <= 31
  OBVIOUS
<1> HIDE DEF v, x, y, z
<1>5. v \in Nat /\ v < 65536 BY <1>4
<1>6. v >= 2048 <=> (x = 0 => y >= 32) BY <1>4
<1>7. v \notin 55296..57343 <=> (x = 13 => y <= 31)
  <2>1. CASE x <= 12 BY <2>1, <1>4
  <2>2. CASE x = 13
    <3>1. v = 53248 + 64 * y + z BY <2>2, <1>4
    <3> QED BY <3>1, <2>2, <1>4
  <2>3. CASE x >= 14 BY <2>3, <1>4
  <2> QED BY <2>1, <2>2, <2>3, <1>4
<1>2. /\ v \in Nat /\ v < 65536
      /\ v >= 2048 <=> (b1 = 224 => b2 >= 160)
      /\ v \notin 55296..57343 <=> (b1 = 237 => b2 <= 159)
  BY <1>4, <1>5, <1>6, <1>7
<1> HIDE DEF v
<1>8. CodepointWidth(v) = 3 <=> v >= 2048 BY <1>2, TextCodepointWidth
<1>3. IsProper(v, 3) <=> (b1 = 224 => b2 >= 160) /\ (b1 = 237 => b2 <= 159)
  BY <1>2, <1>8 DEF IsProper
<1> QED BY <1>1, <1>3 DEF v, Three

InFour(b1, b2) == (b1 = 240 => b2 >= 144) /\ b1 <= 244 /\ (b1 = 244 => b2 <= 143)

\* So do four, but for numbers above 1114111.
LEMMA TextProper4 ==
  ASSUME NEW b1 \in 240..247, NEW b2 \in 128..191, NEW b3 \in 128..191, NEW b4 \in 128..191
  PROVE  IsProper(Four(b1, b2, b3, b4), 4) <=> InFour(b1, b2)
<1> DEFINE v == 64 * (64 * (64 * (b1 - 240) + (b2 - 128)) + (b3 - 128)) + (b4 - 128)
<1>1. /\ Mod(b1, 8) = b1 - 240 /\ Mod(b2, 64) = b2 - 128 /\ Mod(b3, 64) = b3 - 128
      /\ Mod(b4, 64) = b4 - 128
  BY TextLowBits
<1> DEFINE x == b1 - 240
           y == b2 - 128
           z == 64 * (b3 - 128) + (b4 - 128)
<1>4. /\ x \in 0..7 /\ y \in 0..63 /\ z \in 0..4095 /\ v = 262144 * x + 4096 * y + z
      /\ b1 = 240 <=> x = 0
      /\ b1 = 244 <=> x = 4
      /\ b1 <= 244 <=> x <= 4
      /\ b2 >= 144 <=> y >= 16
      /\ b2 <= 143 <=> y <= 15
  OBVIOUS
<1> HIDE DEF v, x, y, z
<1>5. v \in Nat BY <1>4
<1>6. v >= 65536 <=> (x = 0 => y >= 16) BY <1>4
<1>7. v < 1114112 <=> x <= 4 /\ (x = 4 => y <= 15) BY <1>4
<1>2. /\ v \in Nat
      /\ v >= 65536 <=> (b1 = 240 => b2 >= 144)
      /\ v < 1114112 <=> b1 <= 244 /\ (b1 = 244 => b2 <= 143)
  BY <1>4, <1>5, <1>6, <1>7
<1>3. IsProper(v, 4) <=> (b1 = 240 => b2 >= 144) /\ b1 <= 244 /\ (b1 = 244 => b2 <= 143)
  <2>1. CodepointWidth(v) = 4 <=> v >= 65536 /\ v < 1114112 BY <1>2, TextCodepointWidth
  <2>2. v >= 65536 => v \notin 55296..57343 BY <1>2
  <2> QED BY <1>2, <2>1, <2>2 DEF IsProper
<1> QED BY <1>1, <1>3 DEF v, Four, InFour

\* The bytes of a codepoint.
LEMMA TextScalar ==
  ASSUME NEW bytes \in Seq(Byte), NEW n \in 0..Len(bytes), NEW w \in 1..Most(bytes, n)
  PROVE  IsScalar(SubSeq(bytes, n + 1, n + w)) <=> Encodes(bytes, n, w)
<1> DEFINE s == SubSeq(bytes, n + 1, n + w)
<1>1. /\ Most(bytes, n) \in 0..4
      /\ \A i \in 1..Most(bytes, n) : n + i \in 1..Len(bytes) /\ bytes[n + i] \in Byte
  BY TextMost
<1>2. w \in 1..4 /\ n \in Nat /\ Len(bytes) \in Nat /\ n + w <= Len(bytes) BY <1>1
<1>3. Len(s) = w /\ \A i \in 1..w : s[i] = bytes[n + i] /\ s[i] \in Byte
  <2>1. \A i \in n + 1..n + w : bytes[i] \in Byte
    <3>1. \A i \in 1..Len(bytes) : bytes[i] \in Byte BY ElementOfSeq
    <3> QED BY <3>1, <1>2
  <2>2. /\ s \in Seq(Byte)
        /\ Len(s) = IF n + 1 <= n + w THEN (n + w) - (n + 1) + 1 ELSE 0
        /\ \A i \in 1..(n + w) - (n + 1) + 1 : s[i] = bytes[(n + 1) + i - 1]
    BY <2>1, <1>2, SubSeqProperties
  <2> HIDE DEF s
  <2>3. Len(s) = w /\ (n + w) - (n + 1) + 1 = w BY <2>2, <1>2
  <2>4. \A i \in 1..w : (n + 1) + i - 1 = n + i BY <1>2
  <2>5. \A i \in 1..w : s[i] = bytes[n + i] BY <2>2, <2>3, <2>4
  <2>6. \A i \in 1..w : s[i] \in Byte BY <2>2, <2>3, ElementOfSeq
  <2> QED BY <2>3, <2>5, <2>6
<1> HIDE DEF s
<1>4. Codepoint(s) = Value(s) BY <1>2, <1>3, TextCodepoint
<1> DEFINE v == Value(s)
           b1 == bytes[n + 1]
           b2 == bytes[n + 2]
           b3 == bytes[n + 3]
           b4 == bytes[n + 4]
<1>5. IsScalar(s) <=>
        /\ IF w = 1 THEN s[1] \in 0..127
           ELSE /\ s[1] \in <<{}, 192..223, 224..239, 240..247>>[w]
                /\ \A i \in 2..w : s[i] \in 128..191
        /\ IsProper(v, w)
  BY <1>3, <1>4 DEF IsScalar, IsProper
<1> HIDE DEF v
<1>6. ASSUME w = 1 PROVE IsScalar(s) <=> Encodes(bytes, n, w)
  <2>1. s[1] = b1 /\ b1 \in 0..255
    <3>1. 1 \in 1..w BY <1>6
    <3> QED BY <3>1, <1>3 DEF Byte
  <2> HIDE DEF b1
  <2>2. v = Mod(b1, 128) BY <2>1, <1>3, <1>6 DEF v, Value
  <2>3. IsScalar(s) <=> b1 \in 0..127 /\ IsProper(v, 1)
    BY <1>5, <1>6, <2>1
  <2>4. Encodes(bytes, n, w) <=> b1 <= 127 BY <1>6 DEF Encodes, b1
  <2>5. b1 \in 0..127 => IsProper(v, 1)
    <3> SUFFICES ASSUME b1 \in 0..127 PROVE IsProper(v, 1) OBVIOUS
    <3>1. IsProper(Mod(b1, 128), 1) BY TextProper1
    <3> QED BY <3>1, <2>2
  <2> QED BY <2>1, <2>3, <2>4, <2>5
<1>7. ASSUME w = 2 PROVE IsScalar(s) <=> Encodes(bytes, n, w)
  <2>1. s[1] = b1 /\ b1 \in 0..255 /\ s[2] = b2 /\ b2 \in 0..255
    <3>1. 1 \in 1..w /\ 2 \in 1..w BY <1>7
    <3> QED BY <3>1, <1>3 DEF Byte
  <2> HIDE DEF b1, b2
  <2>2. v = Two(b1, b2) BY <2>1, <1>3, <1>7 DEF v, Value
  <2>3. IsScalar(s) <=> /\ b1 \in 192..223 /\ b2 \in 128..191
                        /\ IsProper(v, 2)
    <3>1. <<{}, 192..223, 224..239, 240..247>>[2] = 192..223 OBVIOUS
    <3>2. (\A i \in 2..w : s[i] \in 128..191) <=> s[2] \in 128..191 BY <1>7
    <3> QED BY <1>5, <1>7, <2>1, <3>1, <3>2
  <2>4. Encodes(bytes, n, w) <=> b1 \in 194..223 /\ b2 \in 128..191 BY <1>7 DEF Encodes, b1, b2
  <2>5. b1 \in 192..223 /\ b2 \in 128..191 =>
          (IsProper(v, 2) <=> b1 >= 194)
    <3> SUFFICES ASSUME b1 \in 192..223, b2 \in 128..191
                 PROVE  IsProper(v, 2) <=> b1 >= 194
      OBVIOUS
    <3>1. IsProper(Two(b1, b2), 2) <=> b1 >= 194 BY TextProper2
    <3>2. IsProper(v, 2) = IsProper(Two(b1, b2), 2) BY <2>2
    <3> QED BY <3>1, <3>2
  <2> QED BY <2>1, <2>3, <2>4, <2>5
<1>8. ASSUME w = 3 PROVE IsScalar(s) <=> Encodes(bytes, n, w)
  <2>1. s[1] = b1 /\ b1 \in 0..255 /\ s[2] = b2 /\ b2 \in 0..255 /\ s[3] = b3 /\ b3 \in 0..255
    <3>1. 1 \in 1..w /\ 2 \in 1..w /\ 3 \in 1..w BY <1>8
    <3> QED BY <3>1, <1>3 DEF Byte
  <2> HIDE DEF b1, b2, b3
  <2>2. v = Three(b1, b2, b3) BY <2>1, <1>3, <1>8 DEF v, Value
  <2>3. IsScalar(s) <=> /\ b1 \in 224..239 /\ b2 \in 128..191 /\ b3 \in 128..191
                        /\ IsProper(v, 3)
    <3>1. <<{}, 192..223, 224..239, 240..247>>[3] = 224..239 OBVIOUS
    <3>2. (\A i \in 2..w : s[i] \in 128..191) <=> s[2] \in 128..191 /\ s[3] \in 128..191
      <4>1. \A i : i \in 2..3 <=> i = 2 \/ i = 3 OBVIOUS
      <4> QED BY <4>1, <1>8
    <3> QED BY <1>5, <1>8, <2>1, <3>1, <3>2
  <2>4. Encodes(bytes, n, w) <=> /\ b1 \in 224..239 /\ b2 \in 128..191 /\ b3 \in 128..191
                                 /\ b1 = 224 => b2 >= 160
                                 /\ b1 = 237 => b2 <= 159
    BY <1>8 DEF Encodes, b1, b2, b3
  <2>5. b1 \in 224..239 /\ b2 \in 128..191 /\ b3 \in 128..191 =>
          (IsProper(v, 3) <=>
             (b1 = 224 => b2 >= 160) /\ (b1 = 237 => b2 <= 159))
    <3> SUFFICES ASSUME b1 \in 224..239, b2 \in 128..191, b3 \in 128..191
                 PROVE  IsProper(v, 3) <=>
                          (b1 = 224 => b2 >= 160) /\ (b1 = 237 => b2 <= 159)
      OBVIOUS
    <3>1. IsProper(Three(b1, b2, b3), 3) <=>
            (b1 = 224 => b2 >= 160) /\ (b1 = 237 => b2 <= 159)
      BY TextProper3
    <3>2. IsProper(v, 3) = IsProper(Three(b1, b2, b3), 3) BY <2>2
    <3> QED BY <3>1, <3>2
  <2> QED BY <2>1, <2>3, <2>4, <2>5
<1>9. ASSUME w = 4 PROVE IsScalar(s) <=> Encodes(bytes, n, w)
  <2>1. /\ s[1] = b1 /\ b1 \in 0..255 /\ s[2] = b2 /\ b2 \in 0..255
        /\ s[3] = b3 /\ b3 \in 0..255 /\ s[4] = b4 /\ b4 \in 0..255
    <3>1. 1 \in 1..w /\ 2 \in 1..w /\ 3 \in 1..w /\ 4 \in 1..w BY <1>9
    <3> QED BY <3>1, <1>3 DEF Byte
  <2> HIDE DEF b1, b2, b3, b4
  <2>2. v = Four(b1, b2, b3, b4)
    BY <2>1, <1>3, <1>9 DEF v, Value
  <2>3. IsScalar(s) <=> /\ b1 \in 240..247 /\ b2 \in 128..191 /\ b3 \in 128..191 /\ b4 \in 128..191
                        /\ IsProper(v, 4)
    <3>1. <<{}, 192..223, 224..239, 240..247>>[4] = 240..247 OBVIOUS
    <3>2. (\A i \in 2..w : s[i] \in 128..191) <=>
          s[2] \in 128..191 /\ s[3] \in 128..191 /\ s[4] \in 128..191
      <4>1. \A i : i \in 2..4 <=> i = 2 \/ i = 3 \/ i = 4 OBVIOUS
      <4> QED BY <4>1, <1>9
    <3> QED BY <1>5, <1>9, <2>1, <3>1, <3>2
  <2>4. Encodes(bytes, n, w) <=> /\ b1 \in 240..244 /\ b2 \in 128..191
                                 /\ b3 \in 128..191 /\ b4 \in 128..191
                                 /\ b1 = 240 => b2 >= 144
                                 /\ b1 = 244 => b2 <= 143
    BY <1>9 DEF Encodes, b1, b2, b3, b4
  <2>5. b1 \in 240..247 /\ b2 \in 128..191 /\ b3 \in 128..191 /\ b4 \in 128..191 =>
          (IsProper(v, 4) <=>
             (b1 = 240 => b2 >= 144) /\ b1 <= 244 /\ (b1 = 244 => b2 <= 143))
    <3> SUFFICES ASSUME b1 \in 240..247, b2 \in 128..191, b3 \in 128..191, b4 \in 128..191
                 PROVE  IsProper(v, 4) <=> InFour(b1, b2)
      BY DEF InFour
    <3>1. IsProper(Four(b1, b2, b3, b4), 4) <=> InFour(b1, b2) BY TextProper4
    <3>2. IsProper(v, 4) = IsProper(Four(b1, b2, b3, b4), 4) BY <2>2
    <3> QED BY <3>1, <3>2
  <2> QED BY <2>1, <2>3, <2>4, <2>5
<1>10. IsScalar(s) <=> Encodes(bytes, n, w) BY <1>2, <1>6, <1>7, <1>8, <1>9
<1> QED BY <1>10 DEF s

-----------------------------------------------------------------------------
(* Texts: sequences of codepoints.                                         *)

\* There are only codepoints from the end, and from a codepoint before such a place.
LEMMA TextSoundNext ==
  ASSUME NEW bytes \in Seq(Byte), NEW n \in 0..Len(bytes)
  PROVE  IsSound(bytes, n) <=>
           n = Len(bytes) \/ \E w \in 1..Most(bytes, n) : Encodes(bytes, n, w) /\ IsSound(bytes, n + w)
<1>1. ASSUME IsSound(bytes, n), n # Len(bytes)
      PROVE  \E w \in 1..Most(bytes, n) : Encodes(bytes, n, w) /\ IsSound(bytes, n + w)
  BY <1>1 DEF IsSound, AreBounds
<1>2. ASSUME n = Len(bytes) PROVE IsSound(bytes, n)
  <2>1. AreBounds({n}, bytes) BY <1>2 DEF AreBounds
  <2> QED BY <2>1 DEF IsSound
<1>3. ASSUME NEW w \in 1..Most(bytes, n), Encodes(bytes, n, w), IsSound(bytes, n + w)
      PROVE  IsSound(bytes, n)
  <2>1. PICK B : AreBounds(B, bytes) /\ n + w \in B BY <1>3 DEF IsSound
  <2>2. AreBounds(B \union {n}, bytes)
    <3>1. B \union {n} \subseteq 0..Len(bytes) BY <2>1 DEF AreBounds
    <3>2. ASSUME NEW m \in B \union {n}
          PROVE  m = Len(bytes) \/ \E v \in 1..Most(bytes, m) : Encodes(bytes, m, v) /\ m + v \in B \union {n}
      <4>1. CASE m \in B BY <4>1, <2>1 DEF AreBounds
      <4>2. CASE m = n BY <4>2, <2>1, <1>3
      <4> QED BY <4>1, <4>2
    <3> QED BY <3>1, <3>2 DEF AreBounds
  <2> QED BY <2>2 DEF IsSound
<1> QED BY <1>1, <1>2, <1>3

\* Whatever says of each place what its successors say, says this.
LEMMA TextSoundOnly ==
  ASSUME NEW bytes \in Seq(Byte), NEW S,
         \A n \in 0..Len(bytes) :
           n \in S <=> n = Len(bytes) \/ \E w \in 1..Most(bytes, n) : Encodes(bytes, n, w) /\ n + w \in S
  PROVE  \A n \in 0..Len(bytes) : n \in S <=> IsSound(bytes, n)
<1> DEFINE N == Len(bytes)
           D == {n \in 0..N : ~(n \in S <=> IsSound(bytes, n))}
<1>1. SUFFICES ASSUME D # {} PROVE FALSE OBVIOUS
<1>2. N \in Nat OBVIOUS
<1> HIDE DEF N
<1>3. D \in SUBSET Int /\ \A x \in D : x <= N
  <2>1. D \subseteq 0..N OBVIOUS
  <2>2. 0..N \subseteq Int /\ \A x \in 0..N : x <= N BY <1>2
  <2> HIDE DEF D
  <2> QED BY <2>1, <2>2
<1>4. Max(D) \in D /\ \A m \in D : m <= Max(D)
  <2> HIDE DEF D
  <2>1. D # {} BY <1>1
  <2>2. N \in Int BY <1>2
  <2> QED BY <2>1, <2>2, <1>3, TextMax
<1> DEFINE n == Max(D)
<1>5. n \in 0..N /\ ~(n \in S <=> IsSound(bytes, n)) /\ \A m \in 0..N : m > n => (m \in S <=> IsSound(bytes, m))
  <2> DEFINE k == Max(D)
  <2>1. k \in 0..N /\ ~(k \in S <=> IsSound(bytes, k)) BY <1>4
  <2>2. ASSUME NEW m \in 0..N, m > k PROVE m \in S <=> IsSound(bytes, m)
    <3>1. ~(m <= k)
      <4> HIDE DEF k
      <4> QED BY <2>1, <2>2, <1>2
    <3>2. m \notin D BY <3>1, <1>4
    <3> QED BY <3>2
  <2> QED BY <2>1, <2>2
<1> HIDE DEF n, D
<1>6. n \in 0..Len(bytes) BY <1>5 DEF N
<1>7. ASSUME NEW w \in 1..Most(bytes, n) PROVE n + w \in S <=> IsSound(bytes, n + w)
  <2>1. n + w \in 1..Len(bytes) BY <1>6, TextMost
  <2>2. Most(bytes, n) \in 0..4 BY <1>6, TextMost
  <2>3. n + w \in 0..N /\ n + w > n BY <2>1, <2>2, <1>5, <1>2 DEF N
  <2> QED BY <2>3, <1>5
<1>8. n \in S <=> n = N \/ \E w \in 1..Most(bytes, n) : Encodes(bytes, n, w) /\ n + w \in S
  BY <1>6 DEF N
<1>9. IsSound(bytes, n) <=>
        n = N \/ \E w \in 1..Most(bytes, n) : Encodes(bytes, n, w) /\ IsSound(bytes, n + w)
  BY <1>6, TextSoundNext DEF N
<1>10. n \in S <=> IsSound(bytes, n) BY <1>7, <1>8, <1>9
<1> QED BY <1>10, <1>5

\* The functions by which the model says it.
SaysText(g, bytes) ==
  g = [n \in 0..Len(bytes) |->
         \/ n = Len(bytes)
         \/ \E width \in 1..Min({4, Len(bytes) - n}) :
               IsScalar(SubSeq(bytes, n + 1, n + width)) /\ g[n + width]]
SaysValid(g, bytes) ==
  g = [n \in 0..Len(bytes) |->
         \/ n = Len(bytes)
         \/ \E width \in {WidthAt(bytes, n)} \ {ERROR_WIDTH} : g[n + width]]

\* What they say of a place: a codepoint and what they say of the place after it.
LEMMA TextSaysSame ==
  ASSUME NEW bytes \in Seq(Byte), NEW n \in 0..Len(bytes), NEW g
  PROVE  /\ (\E width \in 1..Min({4, Len(bytes) - n}) :
               IsScalar(SubSeq(bytes, n + 1, n + width)) /\ g[n + width])
            <=> \E w \in 1..Most(bytes, n) : Encodes(bytes, n, w) /\ g[n + w]
         /\ (\E width \in {WidthAt(bytes, n)} \ {ERROR_WIDTH} : g[n + width])
            <=> \E w \in 1..Most(bytes, n) : Encodes(bytes, n, w) /\ g[n + w]
<1>1. \A w \in 1..Most(bytes, n) : IsScalar(SubSeq(bytes, n + 1, n + w)) <=> Encodes(bytes, n, w)
  BY TextScalar
<1>2. (\E width \in 1..Min({4, Len(bytes) - n}) :
               IsScalar(SubSeq(bytes, n + 1, n + width)) /\ g[n + width])
      <=> \E w \in 1..Most(bytes, n) : Encodes(bytes, n, w) /\ g[n + w]
  BY <1>1 DEF Most
<1> DEFINE wd == WidthAt(bytes, n)
<1>3. /\ wd \in 0..Most(bytes, n) /\ Most(bytes, n) \in 0..4
      /\ \A w \in 1..Most(bytes, n) : wd = w <=> Encodes(bytes, n, w)
  BY TextWidthAt, TextMost
<1> HIDE DEF wd
<1>4. (\E width \in {wd} \ {ERROR_WIDTH} : g[n + width]) <=> wd # 0 /\ g[n + wd] BY DEF ERROR_WIDTH
<1>5. wd # 0 <=> wd \in 1..Most(bytes, n) BY <1>3
<1>6. wd # 0 /\ g[n + wd] <=> \E w \in 1..Most(bytes, n) : Encodes(bytes, n, w) /\ g[n + w]
  BY <1>3, <1>5
<1> QED BY <1>2, <1>4, <1>6 DEF wd

\* There are such functions.
LEMMA TextSaysExist ==
  ASSUME NEW bytes \in Seq(Byte)
  PROVE  (\E g : SaysText(g, bytes)) /\ (\E g : SaysValid(g, bytes))
<1> DEFINE N == Len(bytes)
           g == [n \in 0..N |-> IsSound(bytes, n)]
<1>1. ASSUME NEW n \in 0..N
      PROVE  IsSound(bytes, n) = (n = N \/ \E w \in 1..Most(bytes, n) : Encodes(bytes, n, w) /\ g[n + w])
  <2>1. \A w \in 1..Most(bytes, n) : g[n + w] = IsSound(bytes, n + w)
    <3>1. \A w \in 1..Most(bytes, n) : n + w \in 0..N
      <4>1. \A w \in 1..Most(bytes, n) : n + w \in 1..N BY TextMost
      <4> QED BY <4>1
    <3> QED BY <3>1
  <2> HIDE DEF g
  <2>2. IsSound(bytes, n) \in BOOLEAN BY DEF IsSound
  <2>3. IsSound(bytes, n) <=> (n = N \/ \E w \in 1..Most(bytes, n) : Encodes(bytes, n, w) /\ g[n + w])
    BY <2>1, TextSoundNext
  <2> QED BY <2>2, <2>3
<1>2. SaysText(g, bytes)
  <2>1. ASSUME NEW n \in 0..N
        PROVE  IsSound(bytes, n) =
                 \/ n = N
                 \/ \E width \in 1..Min({4, N - n}) : IsScalar(SubSeq(bytes, n + 1, n + width)) /\ g[n + width]
    <3> HIDE DEF g
    <3> QED BY <1>1, TextSaysSame
  <2> QED BY <2>1 DEF SaysText
<1>3. SaysValid(g, bytes)
  <2>1. ASSUME NEW n \in 0..N
        PROVE  IsSound(bytes, n) =
                 \/ n = N
                 \/ \E width \in {WidthAt(bytes, n)} \ {ERROR_WIDTH} : g[n + width]
    <3> HIDE DEF g
    <3> QED BY <1>1, TextSaysSame
  <2> QED BY <2>1 DEF SaysValid
<1> QED BY <1>2, <1>3

\* They say whether there are only codepoints.
LEMMA TextSays ==
  ASSUME NEW bytes \in Seq(Byte), NEW g, SaysText(g, bytes) \/ SaysValid(g, bytes)
  PROVE  g[0] <=> IsSound(bytes, 0)
<1> DEFINE N == Len(bytes)
           S == {n \in 0..N : g[n]}
<1>1. ASSUME NEW n \in 0..N
      PROVE  g[n] <=> (n = N \/ \E w \in 1..Most(bytes, n) : Encodes(bytes, n, w) /\ g[n + w])
  BY TextSaysSame DEF SaysText, SaysValid
<1>2. ASSUME NEW n \in 0..N
      PROVE  n \in S <=> (n = N \/ \E w \in 1..Most(bytes, n) : Encodes(bytes, n, w) /\ n + w \in S)
  <2>1. \A w \in 1..Most(bytes, n) : n + w \in 0..N
    <3>1. \A w \in 1..Most(bytes, n) : n + w \in 1..N BY TextMost
    <3> QED BY <3>1
  <2> QED BY <1>1, <2>1
<1>3. \A n \in 0..N : n \in S <=> IsSound(bytes, n)
  <2> HIDE DEF S
  <2> QED BY <1>2, TextSoundOnly
<1>4. 0 \in 0..N OBVIOUS
<1> QED BY <1>3, <1>4

\* The decoder takes for UTF-8 what is the UTF-8 of scalar values.
LEMMA TextSound ==
  ASSUME NEW bytes \in Seq(Byte)
  PROVE  (IsText(bytes) <=> IsSound(bytes, 0)) /\ (IsValidUtf8(bytes) <=> IsSound(bytes, 0))
<1> DEFINE t == CHOOSE g : SaysText(g, bytes)
           v == CHOOSE g : SaysValid(g, bytes)
<1>1. SaysText(t, bytes) /\ SaysValid(v, bytes) BY TextSaysExist
<1>2. IsText(bytes) = t[0] BY DEF IsText, SaysText
<1>3. IsValidUtf8(bytes) = v[0] BY DEF IsValidUtf8, SaysValid
<1> HIDE DEF t, v
<1>4. (t[0] <=> IsSound(bytes, 0)) /\ (v[0] <=> IsSound(bytes, 0)) BY <1>1, TextSays
<1> QED BY <1>2, <1>3, <1>4

\* The decoder of unicode.c takes for UTF-8 exactly the sequences of scalar values,
\* each in as few bytes as it takes: for every sequence of bytes.
THEOREM TextDecodesScalars ==
  \A bytes \in Seq(Byte) : IsValidUtf8(bytes) <=> IsText(bytes)
BY TextSound

\* How far the iterator goes from a place.
Strides(bytes, n) == Max({WidthAt(bytes, n), 1})

\* At least a byte, and not over the end.
LEMMA TextStrides ==
  ASSUME NEW bytes \in Seq(Byte), NEW n \in 0..Len(bytes), n # Len(bytes)
  PROVE  Strides(bytes, n) \in 1..Len(bytes) - n
<1> DEFINE N == Len(bytes)
           w == WidthAt(bytes, n)
           m == Most(bytes, n)
<1>1. w \in 0..m /\ m \in 0..4 /\ \A i \in 1..m : n + i \in 1..N BY TextWidthAt, TextMost
<1>2. n \in Nat /\ N \in Nat /\ n < N BY DEF N
<1> HIDE DEF w, m, N
<1>3. m <= N - n
  <2>1. CASE m = 0 BY <2>1, <1>2
  <2>2. CASE m # 0
    <3>1. m \in 1..m BY <2>2, <1>1
    <3>2. n + m \in 1..N BY <3>1, <1>1
    <3> QED BY <3>2, <1>1, <1>2
  <2> QED BY <2>1, <2>2
<1>4. Max({w, 1}) = IF w <= 1 THEN 1 ELSE w BY <1>1, TextMaxOfTwo
<1>5. Max({w, 1}) \in 1..N - n BY <1>1, <1>2, <1>3, <1>4
<1> QED BY <1>5 DEF Strides, w, N

\* The function that counts the turns of the iterator.
CountsTurns(g, bytes) ==
  g = [n \in 0..Len(bytes) |->
         IF n = Len(bytes) THEN 0 ELSE 1 + g[n + Max({WidthAt(bytes, n), 1})]]

\* What it counts from a place on.
TurnsAt(g, bytes, n) == g[n] = IF n = Len(bytes) THEN 0 ELSE 1 + g[n + Strides(bytes, n)]

\* There is one.
LEMMA TextTurnsExist ==
  ASSUME NEW bytes \in Seq(Byte)
  PROVE  \E g : CountsTurns(g, bytes)
<1> DEFINE N == Len(bytes)
           Some(k) == \E g \in [N - k..N -> Nat] : \A n \in N - k..N : TurnsAt(g, bytes, n)
           S == {k \in 0..N : Some(k)}
<1>1. N \in Nat OBVIOUS
<1>2. \A n \in 0..N : n # N => Strides(bytes, n) \in 1..N - n BY TextStrides
<1>3. Some(0)
  <2> DEFINE g == [n \in N - 0..N |-> 0]
  <2>1. g \in [N - 0..N -> Nat] /\ \A n \in N - 0..N : n = N /\ g[n] = 0 BY <1>1
  <2> HIDE DEF g
  <2>2. \A n \in N - 0..N : TurnsAt(g, bytes, n) BY <2>1 DEF TurnsAt
  <2> QED BY <2>1, <2>2
<1>4. ASSUME NEW k \in 0..N - 1, Some(k) PROVE Some(k + 1)
  <2>1. PICK g \in [N - k..N -> Nat] : \A n \in N - k..N : TurnsAt(g, bytes, n) BY <1>4
  <2> DEFINE b == N - (k + 1)
             turns == 1 + g[b + Strides(bytes, b)]
             f == [n \in b..N |-> IF n = b THEN turns ELSE g[n]]
  <2> HIDE DEF N
  <2>2. b \in 0..N /\ b # N /\ N - k = b + 1 BY <1>1
  <2>3. \A n \in N - k..N : n \in b..N /\ n # b /\ n \in 0..N BY <1>1, <2>2
  <2>4. Strides(bytes, b) \in 1..N - b BY <1>2, <2>2
  <2>5. b + Strides(bytes, b) \in N - k..N BY <2>2, <2>4, <1>1
  <2>6. turns \in Nat
    <3>1. g[b + Strides(bytes, b)] \in Nat BY <2>1, <2>5
    <3> QED BY <3>1
  <2>7. \A n \in N - k..N : f[n] = g[n] BY <2>3
  <2>8. b \in b..N BY <2>2, <1>1
  <2>9. f[b] = turns BY <2>8
  <2>10. TurnsAt(f, bytes, b)
    <3>1. f[b + Strides(bytes, b)] = g[b + Strides(bytes, b)] BY <2>5, <2>7
    <3> HIDE DEF f, b
    <3> QED BY <3>1, <2>2, <2>9 DEF TurnsAt, N
  <2>11. ASSUME NEW n \in N - k..N PROVE TurnsAt(f, bytes, n)
    <3>1. TurnsAt(g, bytes, n) /\ f[n] = g[n] BY <2>1, <2>7
    <3>2. n # N => f[n + Strides(bytes, n)] = g[n + Strides(bytes, n)]
      <4> SUFFICES ASSUME n # N PROVE n + Strides(bytes, n) \in N - k..N BY <2>7
      <4>1. Strides(bytes, n) \in 1..N - n /\ n \in 0..N BY <1>2, <2>3
      <4> HIDE DEF b, f
      <4> QED BY <4>1, <1>1
    <3> HIDE DEF f, b
    <3> QED BY <3>1, <3>2 DEF TurnsAt, N
  <2>12. \A n \in b..N : n = b \/ n \in N - k..N
    <3> HIDE DEF b
    <3> QED BY <2>2, <1>1
  <2>13. \A n \in b..N : TurnsAt(f, bytes, n)
    <3> HIDE DEF f, b
    <3> QED BY <2>10, <2>11, <2>12
  <2>14. f \in [b..N -> Nat]
    <3>1. \A n \in b..N : n # b => g[n] \in Nat BY <2>1, <2>12
    <3> HIDE DEF b, turns
    <3> QED BY <3>1, <2>6
  <2> HIDE DEF f
  <2> QED BY <2>13, <2>14
<1>5. 0..N \subseteq S
  <2>1. 0 \in S BY <1>1, <1>3
  <2>2. ASSUME NEW k \in 0..N - 1, k \in S PROVE k + 1 \in S
    <3>1. k + 1 \in 0..N BY <1>1
    <3>2. Some(k + 1) BY <2>2, <1>4
    <3> HIDE DEF Some
    <3> QED BY <3>1, <3>2
  <2> HIDE DEF S, N
  <2> QED BY <1>1, <2>1, <2>2, CountUp
<1>6. Some(N)
  <2> HIDE DEF Some, N
  <2> QED BY <1>1, <1>5
<1>7. N - N = 0 BY <1>1
<1>8. PICK g \in [0..N -> Nat] : \A n \in 0..N : TurnsAt(g, bytes, n) BY <1>6, <1>7
<1>9. g = [n \in 0..N |-> g[n]] OBVIOUS
<1>10. \A n \in 0..N : g[n] = IF n = N THEN 0 ELSE 1 + g[n + Max({WidthAt(bytes, n), 1})]
  BY <1>8 DEF TurnsAt, Strides
<1>11. CountsTurns(g, bytes) BY <1>9, <1>10 DEF CountsTurns
<1> QED BY <1>11

\* It counts.
LEMMA TextTurnsAreNat ==
  ASSUME NEW bytes \in Seq(Byte), NEW g, \A n \in 0..Len(bytes) : TurnsAt(g, bytes, n)
  PROVE  \A n \in 0..Len(bytes) : g[n] \in Nat
<1> DEFINE N == Len(bytes)
           S == {k \in 0..N : \A n \in N - k..N : g[n] \in Nat}
<1>1. N \in Nat OBVIOUS
<1>2. \A n \in 0..N : n # N => Strides(bytes, n) \in 1..N - n BY TextStrides
<1>3. \A n \in 0..N : g[n] = IF n = N THEN 0 ELSE 1 + g[n + Strides(bytes, n)] BY DEF TurnsAt
<1> HIDE DEF N
<1>4. 0 \in S
  <2>1. \A n \in N - 0..N : n = N /\ n \in 0..N BY <1>1
  <2>2. \A n \in N - 0..N : g[n] \in Nat BY <2>1, <1>3
  <2> QED BY <2>2, <1>1
<1>5. ASSUME NEW k \in 0..N - 1, k \in S PROVE k + 1 \in S
  <2> DEFINE b == N - (k + 1)
  <2>1. b \in 0..N /\ b # N /\ N - k = b + 1 /\ k + 1 \in 0..N BY <1>1
  <2>2. \A n \in N - k..N : g[n] \in Nat BY <1>5
  <2>3. \A n \in b..N : n = b \/ n \in N - k..N
    <3> HIDE DEF b
    <3> QED BY <2>1, <1>1
  <2>4. Strides(bytes, b) \in 1..N - b BY <1>2, <2>1
  <2> HIDE DEF b
  <2>5. b + Strides(bytes, b) \in N - k..N BY <2>1, <2>4, <1>1
  <2>6. g[b + Strides(bytes, b)] \in Nat BY <2>2, <2>5
  <2>7. g[b] \in Nat BY <2>1, <2>6, <1>3
  <2>8. \A n \in b..N : g[n] \in Nat BY <2>2, <2>3, <2>7
  <2> QED BY <2>1, <2>8 DEF b
<1>6. 0..N \subseteq S
  <2> HIDE DEF S
  <2> QED BY <1>1, <1>4, <1>5, CountUp
<1>7. N \in S /\ N - N = 0 BY <1>1, <1>6
<1> QED BY <1>7 DEF N

\* A text has a length if it is not empty.
LEMMA TextLength ==
  ASSUME NEW bytes \in Seq(Byte), IsValidUtf8(bytes)
  PROVE  Length(bytes) > 0 <=> bytes # <<>>
<1> DEFINE f == CHOOSE g : CountsTurns(g, bytes)
           N == Len(bytes)
<1>1. CountsTurns(f, bytes) BY TextTurnsExist
<1>2. Length(bytes) = f[0] BY DEF Length, CountsTurns
<1> HIDE DEF f
<1>3. \A n \in 0..N : TurnsAt(f, bytes, n) BY <1>1 DEF CountsTurns, TurnsAt, Strides
<1>4. \A n \in 0..N : f[n] \in Nat BY <1>3, TextTurnsAreNat
<1>5. 0 \in 0..N /\ N \in Nat /\ (N = 0 <=> bytes = <<>>) OBVIOUS
<1>6. N = 0 => f[0] = 0 BY <1>3, <1>5 DEF TurnsAt
<1>7. N # 0 => f[0] > 0
  <2> SUFFICES ASSUME N # 0 PROVE f[0] > 0 OBVIOUS
  <2>1. Strides(bytes, 0) \in 1..N - 0 BY <1>5, TextStrides
  <2>2. 0 + Strides(bytes, 0) \in 0..N BY <2>1, <1>5
  <2>3. f[0 + Strides(bytes, 0)] \in Nat BY <2>2, <1>4
  <2>4. f[0] = 1 + f[0 + Strides(bytes, 0)] BY <1>3, <1>5 DEF TurnsAt
  <2> QED BY <2>3, <2>4
<1> QED BY <1>2, <1>5, <1>6, <1>7

\* The first byte of a codepoint is no byte that follows, the others are.
LEMMA TextEncodesBytes ==
  ASSUME NEW bytes \in Seq(Byte), NEW n \in 0..Len(bytes), NEW w \in 1..Most(bytes, n),
         Encodes(bytes, n, w)
  PROVE  /\ bytes[n + 1] \notin 128..191
         /\ bytes[n + 1] <= 127 => w = 1
         /\ \A i \in 2..w : bytes[n + i] \in 128..191
<1>1. Most(bytes, n) \in 0..4 /\ \A i \in 1..Most(bytes, n) : bytes[n + i] \in Byte BY TextMost
<1>2. bytes[n + 1] \in 0..255 /\ w \in 1..4
  <2>1. 1 \in 1..Most(bytes, n) BY <1>1
  <2> QED BY <2>1, <1>1 DEF Byte
<1> DEFINE b == bytes[n + 1]
<1>3. Begins(b, w) BY TextEncodesFirst
<1> HIDE DEF b
<1>4. b \in 0..255 BY <1>2 DEF b
<1>5. b \notin 128..191 /\ (b <= 127 => w = 1) BY <1>3, <1>4 DEF Begins
<1>6. ASSUME NEW i \in 2..w PROVE bytes[n + i] \in 128..191
  <2>1. i = 2 \/ i = 3 \/ i = 4 BY <1>2
  <2>2. w = 2 \/ w = 3 \/ w = 4 BY <1>2
  <2>3. w = 2 => bytes[n + 2] \in 128..191 BY DEF Encodes
  <2>4. w = 3 => bytes[n + 2] \in 128..191 /\ bytes[n + 3] \in 128..191 BY DEF Encodes
  <2>5. w = 4 => bytes[n + 2] \in 128..191 /\ bytes[n + 3] \in 128..191 /\ bytes[n + 4] \in 128..191
    BY DEF Encodes
  <2>6. CASE w = 2
    <3>1. i = 2 BY <2>6
    <3> QED BY <3>1, <2>3, <2>6
  <2>7. CASE w = 3
    <3>1. i = 2 \/ i = 3 BY <2>7
    <3> QED BY <3>1, <2>4, <2>7
  <2>8. CASE w = 4 BY <2>1, <2>5, <2>8
  <2> QED BY <2>2, <2>6, <2>7, <2>8
<1> QED BY <1>5, <1>6 DEF b

\* A codepoint is its bytes.
LEMMA TextEncodesSame ==
  ASSUME NEW s, NEW t, NEW m, NEW n, NEW w \in 1..4, \A i \in 1..w : s[m + i] = t[n + i],
         Encodes(s, m, w)
  PROVE  Encodes(t, n, w)
<1>1. /\ w >= 1 => s[m + 1] = t[n + 1]
      /\ w >= 2 => s[m + 2] = t[n + 2]
      /\ w >= 3 => s[m + 3] = t[n + 3]
      /\ w >= 4 => s[m + 4] = t[n + 4]
  <2>1. /\ w >= 1 => 1 \in 1..w
        /\ w >= 2 => 2 \in 1..w
        /\ w >= 3 => 3 \in 1..w
        /\ w >= 4 => 4 \in 1..w
    OBVIOUS
  <2> QED BY <2>1
<1> DEFINE s1 == s[m + 1]
           s2 == s[m + 2]
           s3 == s[m + 3]
           s4 == s[m + 4]
           t1 == t[n + 1]
           t2 == t[n + 2]
           t3 == t[n + 3]
           t4 == t[n + 4]
<1>2. CASE w = 1
  <2>1. s1 = t1 BY <1>1, <1>2
  <2>2. Encodes(s, m, w) <=> s1 <= 127 BY <1>2 DEF Encodes
  <2>3. Encodes(t, n, w) <=> t1 <= 127 BY <1>2 DEF Encodes
  <2> HIDE DEF s1, t1
  <2> QED BY <2>1, <2>2, <2>3
<1>3. CASE w = 2
  <2>1. s1 = t1 /\ s2 = t2 BY <1>1, <1>3
  <2>2. Encodes(s, m, w) <=> s1 \in 194..223 /\ s2 \in 128..191 BY <1>3 DEF Encodes
  <2>3. Encodes(t, n, w) <=> t1 \in 194..223 /\ t2 \in 128..191 BY <1>3 DEF Encodes
  <2> HIDE DEF s1, t1, s2, t2
  <2> QED BY <2>1, <2>2, <2>3
<1>4. CASE w = 3
  <2>1. s1 = t1 /\ s2 = t2 /\ s3 = t3 BY <1>1, <1>4
  <2>2. Encodes(s, m, w) <=> /\ s1 \in 224..239 /\ s2 \in 128..191 /\ s3 \in 128..191
                             /\ s1 = 224 => s2 >= 160
                             /\ s1 = 237 => s2 <= 159
    BY <1>4 DEF Encodes
  <2>3. Encodes(t, n, w) <=> /\ t1 \in 224..239 /\ t2 \in 128..191 /\ t3 \in 128..191
                             /\ t1 = 224 => t2 >= 160
                             /\ t1 = 237 => t2 <= 159
    BY <1>4 DEF Encodes
  <2> HIDE DEF s1, t1, s2, t2, s3, t3
  <2> QED BY <2>1, <2>2, <2>3
<1>5. CASE w = 4
  <2>1. s1 = t1 /\ s2 = t2 /\ s3 = t3 /\ s4 = t4 BY <1>1, <1>5
  <2>2. Encodes(s, m, w) <=> /\ s1 \in 240..244 /\ s2 \in 128..191 /\ s3 \in 128..191 /\ s4 \in 128..191
                             /\ s1 = 240 => s2 >= 144
                             /\ s1 = 244 => s2 <= 143
    BY <1>5 DEF Encodes
  <2>3. Encodes(t, n, w) <=> /\ t1 \in 240..244 /\ t2 \in 128..191 /\ t3 \in 128..191 /\ t4 \in 128..191
                             /\ t1 = 240 => t2 >= 144
                             /\ t1 = 244 => t2 <= 143
    BY <1>5 DEF Encodes
  <2> HIDE DEF s1, t1, s2, t2, s3, t3, s4, t4
  <2> QED BY <2>1, <2>2, <2>3
<1>6. w = 1 \/ w = 2 \/ w = 3 \/ w = 4 OBVIOUS
<1> QED BY <1>2, <1>3, <1>4, <1>5, <1>6

\* How far a codepoint goes, and how far it may go.
LEMMA TextWidths ==
  ASSUME NEW bytes \in Seq(Byte), NEW n \in 0..Len(bytes)
  PROVE  \A w \in Nat : w \in 1..Most(bytes, n) <=> w \in 1..4 /\ n + w <= Len(bytes)
<1> DEFINE m == Most(bytes, n)
           N == Len(bytes)
<1>1. m \in 0..4 /\ (\A i \in 1..m : n + i \in 1..N) /\ \A i \in 1..4 : n + i <= N => i \in 1..m
  BY TextMost
<1>2. N \in Nat OBVIOUS
<1> HIDE DEF m, N
<1>3. ASSUME NEW w \in Nat, w \in 1..m PROVE w \in 1..4 /\ n + w <= N
  <2>1. n + w \in 1..N BY <1>1, <1>3
  <2> QED BY <2>1, <1>1, <1>2, <1>3
<1> QED BY <1>1, <1>3 DEF m, N

\* Each byte that follows none is at such a place, and so is the end.
LEMMA TextBoundAt ==
  ASSUME NEW bytes \in Seq(Byte), NEW B, AreBounds(B, bytes), 0 \in B, NEW n \in 0..Len(bytes),
         n = Len(bytes) \/ bytes[n + 1] \notin 128..191
  PROVE  n \in B
<1> DEFINE N == Len(bytes)
           D == {m \in B : m <= n}
<1>1. N \in Nat /\ n \in Nat /\ n <= N /\ B \subseteq 0..N BY DEF AreBounds
<1>2. 0 \in D BY <1>1
<1>3. D \in SUBSET Int /\ \A x \in D : x <= n
  <2>1. D \subseteq B /\ \A x \in D : x <= n OBVIOUS
  <2>2. B \subseteq Int BY <1>1
  <2> HIDE DEF D
  <2> QED BY <2>1, <2>2
<1>4. Max(D) \in D /\ \A m \in D : m <= Max(D)
  <2> HIDE DEF D
  <2>1. D # {} /\ n \in Int BY <1>1, <1>2
  <2> QED BY <2>1, <1>3, TextMax
<1> DEFINE m == Max(D)
<1>5. m \in B /\ m <= n BY <1>4
<1>6. \A k \in B : k <= n => k <= m BY <1>4
<1> HIDE DEF m, D
<1>7. ASSUME m # n PROVE FALSE
  <2>1. m \in 0..N /\ m # N /\ m < n BY <1>1, <1>5, <1>7
  <2>2. PICK w \in 1..Most(bytes, m) : Encodes(bytes, m, w) /\ m + w \in B
    BY <2>1, <1>5 DEF AreBounds
  <2>3. w \in Nat /\ w \in 1..4 /\ m + w <= N
    <3>1. Most(bytes, m) \in 0..4 BY <2>1, TextMost
    <3>2. w \in Nat BY <3>1
    <3> QED BY <3>2, <2>1, TextWidths
  <2>4. ~(m + w <= n)
    <3>1. m + w <= n => m + w <= m BY <2>2, <1>6
    <3> QED BY <3>1, <2>1, <2>3
  <2> DEFINE i == n - m + 1
  <2>5. i \in 2..w /\ m + i = n + 1 /\ n # N BY <2>1, <2>3, <2>4, <1>1
  <2>6. bytes[m + i] \in 128..191
    <3> HIDE DEF i
    <3> QED BY <2>1, <2>2, <2>5, TextEncodesBytes
  <2> QED BY <2>5, <2>6
<1> QED BY <1>5, <1>7

\* What is between two such places has them too.
LEMMA TextPartSound ==
  ASSUME NEW bytes \in Seq(Byte), NEW B, AreBounds(B, bytes), NEW b \in B, NEW e \in B, b <= e,
         NEW t \in Seq(Byte), IsPart(t, bytes, b, e)
  PROVE  IsSound(t, 0)
<1> DEFINE N == Len(bytes)
           L == Len(t)
           C == {k \in 0..L : b + k \in B}
<1>1. N \in Nat /\ b \in 0..N /\ e \in 0..N /\ L = e - b BY DEF AreBounds, IsPart
<1>2. \A i \in 1..e - b : t[i] = bytes[b + i] BY DEF IsPart
<1>3. L \in Nat /\ 0 \in C
  <2>1. L \in Nat /\ b + 0 = b BY <1>1
  <2> HIDE DEF L
  <2>2. 0 \in 0..L BY <2>1
  <2> QED BY <2>1, <2>2
<1> HIDE DEF N, L
<1>4. ASSUME NEW k \in C, k # L PROVE \E w \in 1..Most(t, k) : Encodes(t, k, w) /\ k + w \in C
  <2> DEFINE n == b + k
  <2>1. k \in 0..L /\ n \in B /\ n \in 0..N /\ n # N /\ n < e BY <1>1, <1>4
  <2> HIDE DEF n
  <2>2. PICK w \in 1..Most(bytes, n) : Encodes(bytes, n, w) /\ n + w \in B
    BY <2>1 DEF AreBounds, N
  <2>3. w \in Nat /\ w \in 1..4 /\ n + w <= N
    <3>1. Most(bytes, n) \in 0..4 BY <2>1, TextMost DEF N
    <3>2. w \in Nat BY <3>1
    <3> QED BY <3>2, <2>1, TextWidths DEF N
  <2>4. ASSUME ~(n + w <= e) PROVE FALSE
    <3> DEFINE i == e - n + 1
    <3>1. i \in 2..w /\ n + i = e + 1 /\ e # N BY <2>1, <2>3, <2>4, <1>1
    <3> HIDE DEF i
    <3>2. bytes[e + 1] \in 128..191
      <4>1. bytes[n + i] \in 128..191 BY <2>1, <2>2, <3>1, TextEncodesBytes DEF N
      <4> QED BY <4>1, <3>1
    <3>3. PICK v \in 1..Most(bytes, e) : Encodes(bytes, e, v) BY <3>1 DEF AreBounds, N
    <3>4. bytes[e + 1] \notin 128..191 BY <3>3, <1>1, TextEncodesBytes DEF N
    <3> QED BY <3>2, <3>4
  <2>5. k + w <= L /\ k + w \in 0..L /\ b + (k + w) = n + w BY <2>1, <2>3, <2>4, <1>1 DEF n
  <2>6. w \in 1..Most(t, k) BY <2>1, <2>3, <2>5, TextWidths DEF L
  <2>7. \A i \in 1..w : bytes[n + i] = t[k + i]
    <3>1. \A i \in 1..w : k + i \in 1..e - b /\ b + (k + i) = n + i BY <2>1, <2>3, <2>5, <1>1 DEF n
    <3> QED BY <3>1, <1>2
  <2>8. Encodes(t, k, w) BY <2>2, <2>3, <2>7, TextEncodesSame
  <2>9. k + w \in C BY <2>2, <2>5
  <2> QED BY <2>6, <2>8, <2>9
<1>5. AreBounds(C, t)
  <2>1. C \subseteq 0..Len(t) BY DEF L
  <2> HIDE DEF C
  <2> QED BY <2>1, <1>4 DEF AreBounds, L
<1> HIDE DEF C
<1> QED BY <1>3, <1>5 DEF IsSound

\* Two texts joined are a text.
LEMMA TextJoinSound ==
  ASSUME NEW s \in Seq(Byte), NEW t \in Seq(Byte), IsSound(s, 0), IsSound(t, 0)
  PROVE  IsSound(s \o t, 0)
<1> DEFINE u == s \o t
           M == Len(s)
           N == Len(t)
<1>1. /\ M \in Nat /\ N \in Nat /\ u \in Seq(Byte) /\ Len(u) = M + N
      /\ \A i \in 1..M + N : u[i] = IF i <= M THEN s[i] ELSE t[i - M]
  BY ConcatProperties
<1>2. PICK A : AreBounds(A, s) /\ 0 \in A BY DEF IsSound
<1>3. PICK B : AreBounds(B, t) /\ 0 \in B BY DEF IsSound
<1>4. A \subseteq 0..M /\ B \subseteq 0..N BY <1>2, <1>3 DEF AreBounds
<1> HIDE DEF u
<1> DEFINE C == A \union {M + k : k \in B}
<1>5. ASSUME NEW m \in A, m # M PROVE \E w \in 1..Most(u, m) : Encodes(u, m, w) /\ m + w \in C
  <2>1. PICK w \in 1..Most(s, m) : Encodes(s, m, w) /\ m + w \in A BY <1>2, <1>5 DEF AreBounds
  <2>2. m \in 0..M BY <1>4
  <2>3. w \in Nat /\ w \in 1..4 /\ m + w <= M
    <3>1. Most(s, m) \in 0..4 BY <2>2, TextMost
    <3>2. w \in Nat BY <3>1
    <3> QED BY <3>2, <2>2, TextWidths
  <2> HIDE DEF M, N
  <2>4. ASSUME NEW i \in 1..w PROVE s[m + i] = u[m + i]
    <3> DEFINE j == m + i
    <3>1. j \in 1..M + N /\ j <= M BY <2>2, <2>3, <1>1
    <3> HIDE DEF j
    <3>2. u[j] = s[j] BY <3>1, <1>1
    <3> QED BY <3>2 DEF j
  <2>5. Encodes(u, m, w) BY <2>1, <2>3, <2>4, TextEncodesSame
  <2>6. w \in 1..Most(u, m)
    <3>1. m \in 0..Len(u) /\ m + w <= Len(u) BY <2>2, <2>3, <1>1
    <3> QED BY <3>1, <2>3, <1>1, TextWidths
  <2> QED BY <2>1, <2>5, <2>6
<1>6. ASSUME NEW k \in B, k # N PROVE \E w \in 1..Most(u, M + k) : Encodes(u, M + k, w) /\ (M + k) + w \in C
  <2>1. PICK w \in 1..Most(t, k) : Encodes(t, k, w) /\ k + w \in B BY <1>3, <1>6 DEF AreBounds
  <2>2. k \in 0..N BY <1>4
  <2>3. w \in Nat /\ w \in 1..4 /\ k + w <= N
    <3>1. Most(t, k) \in 0..4 BY <2>2, TextMost
    <3>2. w \in Nat BY <3>1
    <3> QED BY <3>2, <2>2, TextWidths
  <2> HIDE DEF M, N
  <2>4. ASSUME NEW i \in 1..w PROVE t[k + i] = u[(M + k) + i]
    <3> DEFINE j == (M + k) + i
    <3>1. j \in 1..M + N /\ ~(j <= M) /\ j - M = k + i BY <2>2, <2>3, <1>1
    <3> HIDE DEF j
    <3>2. u[j] = t[j - M] BY <3>1, <1>1
    <3> QED BY <3>1, <3>2 DEF j
  <2>5. Encodes(u, M + k, w) BY <2>1, <2>3, <2>4, TextEncodesSame
  <2>6. w \in 1..Most(u, M + k)
    <3>1. M + k \in 0..Len(u) /\ (M + k) + w <= Len(u) BY <2>2, <2>3, <1>1
    <3> QED BY <3>1, <2>3, <1>1, TextWidths
  <2>7. (M + k) + w \in C
    <3>1. (M + k) + w = M + (k + w) BY <2>2, <2>3, <1>1
    <3> QED BY <3>1, <2>1
  <2> QED BY <2>5, <2>6, <2>7
<1>7. M + 0 = M /\ M + N = Len(u) /\ M \in {M + k : k \in B}
  <2>1. M + 0 = M BY <1>1
  <2> QED BY <2>1, <1>1, <1>3
<1> DEFINE E == {k \in C : k # M} \union {M}
<1>8. AreBounds(C, u)
  <2>1. C \subseteq 0..Len(u)
    <3> HIDE DEF M, N
    <3>1. \A m \in 0..M : m \in 0..M + N BY <1>1
    <3>2. \A k \in 0..N : M + k \in 0..M + N BY <1>1
    <3> QED BY <3>1, <3>2, <1>1, <1>4
  <2>2. ASSUME NEW m \in C
        PROVE  m = Len(u) \/ \E w \in 1..Most(u, m) : Encodes(u, m, w) /\ m + w \in C
    <3>1. CASE m \in A /\ m # M BY <3>1, <1>5
    <3>2. ASSUME NEW k \in B, m = M + k
          PROVE  m = Len(u) \/ \E w \in 1..Most(u, m) : Encodes(u, m, w) /\ m + w \in C
      <4>1. CASE k = N BY <4>1, <3>2, <1>7
      <4>2. CASE k # N
        <5> HIDE DEF C, M, N
        <5> QED BY <4>2, <3>2, <1>6
      <4> QED BY <4>1, <4>2
    <3>3. (m \in A /\ m # M) \/ \E k \in B : m = M + k BY <1>7
    <3> HIDE DEF C, M, N
    <3> QED BY <3>1, <3>2, <3>3
  <2> HIDE DEF C
  <2> QED BY <2>1, <2>2 DEF AreBounds
<1>9. 0 \in C BY <1>2
<1> HIDE DEF C
<1> QED BY <1>8, <1>9 DEF IsSound, u

\* Of one byte and of none.
LEMMA TextOneSound ==
  /\ IsSound(<<>>, 0)
  /\ \A x \in 0..127 : <<x>> \in Seq(Byte) /\ IsSound(<<x>>, 0)
<1>1. IsSound(<<>>, 0)
  <2>1. Len(<<>>) = 0 /\ {0} \subseteq 0..0 OBVIOUS
  <2>2. AreBounds({0}, <<>>) BY <2>1 DEF AreBounds
  <2> QED BY <2>2 DEF IsSound
<1>2. ASSUME NEW x \in 0..127 PROVE <<x>> \in Seq(Byte) /\ IsSound(<<x>>, 0)
  <2> DEFINE s == <<x>>
  <2>1. x \in Byte BY DEF Byte
  <2>2. s \in Seq(Byte) /\ Len(s) = 1 /\ s[1] = x BY <2>1
  <2> HIDE DEF s
  <2>3. Encodes(s, 0, 1)
    <3>1. 0 + 1 = 1 /\ x <= 127 OBVIOUS
    <3> QED BY <3>1, <2>2 DEF Encodes
  <2>4. 1 \in 1..Most(s, 0)
    <3>1. 0 \in 0..Len(s) /\ 1 \in Nat /\ 1 \in 1..4 /\ 0 + 1 <= Len(s) BY <2>2
    <3> QED BY <3>1, <2>2, TextWidths
  <2>5. AreBounds({0, 1}, s)
    <3>1. {0, 1} \subseteq 0..Len(s) BY <2>2
    <3>2. 0 + 1 \in {0, 1} OBVIOUS
    <3> QED BY <3>1, <3>2, <2>2, <2>3, <2>4 DEF AreBounds
  <2>6. IsSound(s, 0) BY <2>5 DEF IsSound
  <2> QED BY <2>2, <2>6 DEF s
<1> QED BY <1>1, <1>2

\* A text and a newline, or its NUL, is a text.
LEMMA TextAppendSound ==
  ASSUME NEW s \in Seq(Byte), IsSound(s, 0), NEW x \in 0..127
  PROVE  Append(s, x) \in Seq(Byte) /\ IsSound(Append(s, x), 0)
<1>0. x \in Byte BY DEF Byte
<1>1. <<x>> \in Seq(Byte) /\ IsSound(<<x>>, 0) /\ x \in Byte BY <1>0, TextOneSound
<1>2. Append(s, x) = s \o <<x>> BY <1>1, AppendIsConcat
<1>3. IsSound(s \o <<x>>, 0) BY <1>1, TextJoinSound
<1> QED BY <1>1, <1>2, <1>3

\* A line of a text is a text.
LEMMA TextLineSound ==
  ASSUME NEW bytes \in Seq(Byte), IsSound(bytes, 0), NEW p \in 0..CutCount(bytes, <<NEWLINE>>)
  PROVE  IsSound(Pieces(bytes, <<NEWLINE>>)[p + 1], 0)
<1> DEFINE pat == <<NEWLINE>>
           t == Pieces(bytes, pat)[p + 1]
           N == Len(bytes)
<1>1. pat \in Seq(Byte) /\ pat # <<>> /\ Len(pat) = 1 /\ pat[1] = 10 BY DEF NEWLINE, Byte
<1>2. p \in 0..CutCount(bytes, pat) OBVIOUS
<1> HIDE DEF pat
<1>3. PICK b, e : Place(bytes, pat, p, b) /\ TokenIsPiece(bytes, pat, p, b, e)
  BY <1>1, <1>2, TextPiece
<1>4. t = SubSeq(bytes, b + 1, e) /\ e \in b..N BY <1>3 DEF TokenIsPiece, IsToken
<1>5. b \in Nat /\ N \in Nat BY <1>3 DEF Place
<1>6. e \in Nat /\ b <= e /\ e <= N BY <1>4, <1>5
<1>7. t \in Seq(Byte) /\ IsPart(t, bytes, b, e)
  <2>1. SubSeq(bytes, b + 1, e) \in Seq(Byte) /\ IsPart(SubSeq(bytes, b + 1, e), bytes, b, e)
    BY <1>5, <1>6, TextPart
  <2> HIDE DEF t
  <2> QED BY <2>1, <1>4
<1>8. PICK B : AreBounds(B, bytes) /\ 0 \in B BY DEF IsSound
<1>9. ASSUME NEW n \in FoundAt(bytes, pat) PROVE n \in B /\ n + 1 \in B
  <2>1. IsAt(bytes, pat, n) BY <1>1, TextFoundAt
  <2>2. n \in 0..N - 1 /\ bytes[n + 1] = 10
    <3>1. 1 \in 1..Len(pat) BY <1>1
    <3> QED BY <3>1, <2>1, <1>1 DEF IsAt
  <2>3. n \in 0..N /\ n # N /\ bytes[n + 1] \notin 128..191 /\ bytes[n + 1] <= 127 BY <2>2, <1>5
  <2>4. n \in B BY <2>3, <1>8, TextBoundAt
  <2>5. PICK w \in 1..Most(bytes, n) : Encodes(bytes, n, w) /\ n + w \in B
    BY <2>3, <2>4, <1>8 DEF AreBounds
  <2>6. w = 1 BY <2>3, <2>5, TextEncodesBytes
  <2> QED BY <2>4, <2>5, <2>6
<1>10. N \in B
  <2>1. N \in 0..N BY <1>5
  <2> QED BY <2>1, <1>8, TextBoundAt
<1>11. e \in B
  <2>1. e \in FoundAt(bytes, pat) \/ e = N BY <1>3 DEF TokenIsPiece
  <2> QED BY <2>1, <1>9, <1>10
<1>12. b \in B
  <2>1. CASE p = 0 BY <2>1, <1>3, <1>8 DEF Place
  <2>2. CASE p # 0
    <3>1. b = CutAt(bytes, pat, p) + 1 /\ CutAt(bytes, pat, p) \in FoundAt(bytes, pat)
      BY <2>2, <1>1, <1>3 DEF Place
    <3> QED BY <3>1, <1>9
  <2> QED BY <2>1, <2>2
<1> HIDE DEF t
<1>13. IsSound(t, 0) BY <1>6, <1>7, <1>8, <1>11, <1>12, TextPartSound
<1> QED BY <1>13 DEF t, pat

-----------------------------------------------------------------------------
(* How a command ends where nothing fails.                                 *)

\* What is given, for each command.
LEMMA TextGiven ==
  /\ Is({"concat"}) =>
       (IsGiven <=> \A i \in 1..Len(job.files) : job.files[i] # <<>> /\ IsText(job.files[i]))
  /\ Is({"count"}) => (IsGiven <=> job.pattern # <<>> /\ IsText(job.files[1]))
  /\ Is({"slicelines"}) => (IsGiven <=> job.files[1] # <<>> /\ IsText(job.files[1]))
  /\ Is({"replace"}) =>
       (IsGiven <=> /\ job.pattern # <<>>
                    /\ job.files[1] # <<>>
                    /\ IsText(job.files[1])
                    /\ \A i \in 1..PieceCount : IsText(PieceOf(i))
                    /\ \A i \in 2..PieceCount : IsText(Replacement(i)))
  /\ Is({"sort"}) =>
       (IsGiven <=> /\ IsText(job.files[1])
                    /\ \A i \in 1..PieceCount : PieceOf(i) # <<>>
                    /\ \E i \in 1..PieceCount : PieceOf(i)[1] # 0)
  /\ Is({"insertsort", "mergesort"}) => IsGiven
<1>1. CASE Is({"concat"})
  <2>1. job.command = "concat" BY <1>1 DEF Is
  <2> QED BY <2>1 DEF IsGiven, Is
<1>2. CASE Is({"count"})
  <2>1. job.command = "count" BY <1>2 DEF Is
  <2> QED BY <2>1 DEF IsGiven, Is
<1>3. CASE Is({"slicelines"})
  <2>1. job.command = "slicelines" BY <1>3 DEF Is
  <2> QED BY <2>1 DEF IsGiven, Is
<1>4. CASE Is({"replace"})
  <2>1. job.command = "replace" BY <1>4 DEF Is
  <2> QED BY <2>1 DEF IsGiven, Is
<1>5. CASE Is({"sort"})
  <2>1. job.command = "sort" BY <1>5 DEF Is
  <2> QED BY <2>1 DEF IsGiven, Is
<1>6. CASE Is({"insertsort", "mergesort"})
  <2>1. job.command = "insertsort" \/ job.command = "mergesort" BY <1>6 DEF Is
  <2> QED BY <2>1 DEF IsGiven, Is
<1> QED BY <1>1, <1>2, <1>3, <1>4, <1>5, <1>6

\* What is given does not change while the job does not.
LEMMA TextSameGiven ==
  ASSUME job' = job
  PROVE  SameGiven
<1>1. Text' = Text /\ Delimiter' = Delimiter BY TextSameAsked DEF SameAsked
<1>2. PieceCount' = PieceCount BY <1>1 DEF PieceCount
<1>3. \A i : PieceOf(i)' = PieceOf(i) BY <1>1 DEF PieceOf
<1>4. \A i : Replacement(i)' = Replacement(i) BY <1>2, <1>3 DEF Replacement
<1>5. \A commands : Is(commands)' = Is(commands) BY DEF Is
<1>6. IsGiven' = IsGiven BY <1>2, <1>3, <1>4 DEF IsGiven, Is
<1> QED BY <1>2, <1>3, <1>4, <1>5, <1>6 DEF SameGiven

\* A command that does not end well.
LEMMA TextEndsBadly ==
  ASSUME Quits, ~IsGiven
  PROVE  EndsOk'
<1>1. job' = job /\ step' \in Over /\ outcome' # "success" BY DEF Quits, Kept
<1>2. step' \notin {"start", "tokens", "replacement", "sort", "print"} \union Reads BY <1>1 DEF Over, Reads
<1>3. IsGiven' = IsGiven BY <1>1, TextSameGiven DEF SameGiven
<1> QED BY <1>1, <1>2, <1>3 DEF EndsOk, EndsReads, EndsUses, Uses, Over

\* One that does.
LEMMA TextEndsWell ==
  ASSUME Moves("done", "success"), IsGiven
  PROVE  EndsOk'
<1>1. job' = job /\ step' = "done" /\ outcome' = "success" BY DEF Moves, Kept
<1>2. IsGiven' = IsGiven BY <1>1, TextSameGiven DEF SameGiven
<1> QED BY <1>1, <1>2 DEF EndsOk, EndsReads, EndsUses, Uses, Reads, Over

\* One that sorts, or is about to print.
LEMMA TextEndsSorting ==
  ASSUME NEW next \in {"sort", "print"}, Moves(next, "running"), errors = 0, IsGiven
  PROVE  EndsOk'
<1>1. job' = job /\ step' = next /\ errors' = 0 BY DEF Moves, Kept
<1>2. IsGiven' = IsGiven BY <1>1, TextSameGiven DEF SameGiven
<1> QED BY <1>1, <1>2 DEF EndsOk, EndsReads, EndsUses, Uses, Reads, Over

\* One that reads on.
LEMMA TextEndsReading ==
  ASSUME NEW next \in {"open", "read", "decode"}, Moves(next, "running"), errors = 0,
         Is({"concat"}) => \A i \in 1..path' - 1 : job.files[i] # <<>> /\ IsText(job.files[i]),
         ~Is({"concat"}) => path' = 1
  PROVE  EndsOk'
<1>1. job' = job /\ step' = next /\ errors' = 0 BY DEF Moves, Kept
<1>2. next \notin {"use", "tokens", "replacement", "sort", "print", "done", "ended"} OBVIOUS
<1>3. EndsUses' BY <1>1, <1>2 DEF EndsUses, Uses
<1>4. EndsReads' BY <1>1, <1>2 DEF EndsReads, Is
<1> QED BY <1>1, <1>2, <1>3, <1>4 DEF EndsOk, Over

\* One that takes its tokens.
LEMMA TextEndsUsing ==
  ASSUME NEW next \in Uses, Moves(next, "running"), errors = 0,
         IsText(job.files[1]),
         Is({"slicelines", "replace"}) => job.files[1] # <<>>,
         Is({"replace"}) =>
           /\ \A i \in 1..iter'.pos : i <= PieceCount => IsText(PieceOf(i))
           /\ \A i \in 2..PieceCount :
                i <= (IF next = "tokens" THEN iter'.pos + 1 ELSE iter'.pos) => IsText(Replacement(i)),
         Is({"sort"}) =>
           /\ \A i \in 1..iter'.pos : PieceOf(i) # <<>>
           /\ lines' # <<>> <=> \E i \in 1..iter'.pos : PieceOf(i)[1] # 0
  PROVE  EndsOk'
<1>1. job' = job /\ step' = next /\ errors' = 0 BY DEF Moves, Kept
<1>2. next \notin {"start", "sort", "print", "done", "ended"} \union Reads BY DEF Uses, Reads
<1>3. SameGiven BY <1>1, TextSameGiven
<1>4. EndsReads' BY <1>1, <1>2 DEF EndsReads
<1>5. Is({"replace"})' => /\ \A i \in 1..iter'.pos : i <= PieceCount' => IsText(PieceOf(i)')
                          /\ \A i \in 2..PieceCount' :
                               i <= (IF step' = "tokens" THEN iter'.pos + 1 ELSE iter'.pos)
                                 => IsText(Replacement(i)')
  BY <1>1, <1>3 DEF SameGiven
<1>6. Is({"sort"})' => /\ \A i \in 1..iter'.pos : PieceOf(i)' # <<>>
                       /\ lines' # <<>> <=> \E i \in 1..iter'.pos : PieceOf(i)'[1] # 0
  BY <1>3 DEF SameGiven
<1>7. IsText(job'.files[1]) /\ (Is({"slicelines", "replace"})' => job'.files[1] # <<>>)
  BY <1>1, <1>3 DEF SameGiven
<1>8. EndsUses' BY <1>5, <1>6, <1>7 DEF EndsUses
<1> QED BY <1>1, <1>2, <1>4, <1>8 DEF EndsOk, Over

\* Printing where nothing fails.
LEMMA TextWritesWell ==
  ASSUME fault = {}, errors \in 0..DEPTH, NEW bytes, NEW next, NEW verdict, Writes(bytes, next, verdict)
  PROVE  Moves(next, verdict)
<1>1. Pushes(0, next, verdict) BY DEF Writes
<1> QED BY <1>1, TextMoves

\* Printing a string where nothing fails: it is a text or the command ends.
LEMMA TextPrintsWell ==
  ASSUME fault = {}, errors \in 0..DEPTH, NEW bytes \in Seq(Byte), NEW next, Prints(bytes, next)
  PROVE  IF IsText(bytes) THEN Moves(next, "running") ELSE Quits
<1>1. IsText(bytes) <=> IsValidUtf8(bytes) BY TextSound
<1>2. CASE IsText(bytes)
  <2>1. Writes(bytes, next, "running") BY <1>1, <1>2 DEF Prints
  <2> QED BY <2>1, <1>2, TextWritesWell
<1>3. CASE ~IsText(bytes)
  <2>1. Fails(1) BY <1>1, <1>3 DEF Prints
  <2>2. \E n \in 0..3 : Fails(n) BY <2>1
  <2> QED BY <2>2, <1>3, TextQuits
<1> QED BY <1>2, <1>3

\* While nothing has failed and nothing been reported a file is read as it should be.
LEMMA TextEndsAt ==
  ASSUME EndsOk, fault = {}
  PROVE  /\ step \notin {"use"} \union Over => errors = 0
         /\ EndsReads /\ EndsUses
         /\ step \in {"sort", "print"} => IsGiven
         /\ step \in Over => (outcome = "success" <=> IsGiven)
BY DEF EndsOk

\* The first step of a command.
LEMMA TextEndsStart ==
  ASSUME Inv, EndsOk, fault = {}, Start
  PROVE  EndsOk'
<1>1. step = "start" /\ step \notin {"use"} \union Over BY DEF Start, Over
<1>2. errors = 0 /\ EndsReads BY <1>1, TextEndsAt
<1>3. errors \in 0..DEPTH BY DEF Inv, TypeOk
<1>4. CASE Is({"count", "replace"}) /\ job.pattern = <<>>
  <2>1. Fails(1) BY <1>4 DEF Start
  <2>2. \E n \in 0..3 : Fails(n) BY <2>1
  <2>3. Quits BY <1>3, <2>2, TextQuits
  <2>4. Is({"count"}) \/ Is({"replace"}) BY <1>4 DEF Is
  <2>5. ~IsGiven BY <1>4, <2>4, TextGiven
  <2> QED BY <2>3, <2>5, TextEndsBadly
<1>5. CASE ~(Is({"count", "replace"}) /\ job.pattern = <<>>)
  <2>1. Pushes(0, "open", "running") BY <1>5 DEF Start, Goes
  <2>2. Moves("open", "running") BY <2>1, <1>3, TextMoves
  <2>3. path' = path BY DEF Start, file
  <2> QED BY <2>2, <2>3, <1>1, <1>2, TextEndsReading DEF EndsReads
<1> QED BY <1>4, <1>5

\* Opening a file.
LEMMA TextEndsOpen ==
  ASSUME Inv, EndsOk, fault = {}, Open
  PROVE  EndsOk'
<1>1. step = "open" /\ step \notin {"use"} \union Over /\ step \in Reads BY DEF Open, Over, Reads
<1>2. errors = 0 /\ EndsReads BY <1>1, TextEndsAt
<1>3. errors \in 0..DEPTH BY DEF Inv, TypeOk
<1>4. Pushes(0, "read", "running") BY DEF Open, Goes
<1>5. Moves("read", "running") BY <1>3, <1>4, TextMoves
<1>6. path' = path BY DEF Open
<1> QED BY <1>1, <1>2, <1>5, <1>6, TextEndsReading DEF EndsReads

\* Reading on.
LEMMA TextEndsChunk ==
  ASSUME Inv, EndsOk, fault = {}, ReadChunk
  PROVE  EndsOk'
<1>1. step = "read" /\ step \notin {"use"} \union Over /\ step \in Reads
  BY DEF ReadChunk, Over, Reads
<1>2. errors = 0 /\ EndsReads BY <1>1, TextEndsAt
<1>3. errors \in 0..DEPTH BY DEF Inv, TypeOk
<1> DEFINE next == IF ReadSize < BUFFER THEN "decode" ELSE "read"
<1>4. Pushes(0, next, "running") BY DEF ReadChunk, Goes
<1>5. next \in {"open", "read", "decode"} OBVIOUS
<1> HIDE DEF next
<1>6. Moves(next, "running") BY <1>3, <1>4, TextMoves
<1>7. path' = path BY DEF ReadChunk
<1> QED BY <1>1, <1>2, <1>5, <1>6, <1>7, TextEndsReading DEF EndsReads

\* Making a string of what has been read, which is done if it is a text.
LEMMA TextEndsDecode ==
  ASSUME Inv, EndsOk, fault = {}, Decode
  PROVE  EndsOk'
<1>1. step = "decode" /\ step \notin {"use"} \union Over /\ step \in Reads
  BY DEF Decode, Over, Reads
<1>2. errors = 0 /\ EndsReads BY <1>1, TextEndsAt
<1>3. errors \in 0..DEPTH BY DEF Inv, TypeOk
<1>4. Reading /\ ReadOk BY <1>1, <1>2, TextReading DEF Reading
<1> DEFINE bytes == job.files[path]
<1>5. data = bytes /\ bytes \in Seq(Byte) BY <1>1, <1>4 DEF ReadOk, Reading
<1>6. IsValidUtf8(data) <=> IsText(bytes) BY <1>5, TextSound
<1>7. /\ job' = job /\ step' = "use" /\ path' = path
      /\ IF errors' = 0 THEN IsText(bytes) ELSE content' = NoContent /\ ~IsText(bytes)
  <2>1. CASE IsValidUtf8(data)
    <3>1. Pushes(0, "use", "running") BY <2>1 DEF Decode, Goes
    <3>2. Moves("use", "running") BY <3>1, <1>3, TextMoves
    <3> QED BY <2>1, <3>2, <1>2, <1>6 DEF Moves, Kept, Decode, file
  <2>2. CASE ~IsValidUtf8(data)
    <3>1. Pushes(1, "use", "running") /\ content' = NoContent BY <2>2 DEF Decode
    <3>2. errors' # 0 BY <3>1, <1>3, TextReports DEF Reports
    <3>3. ~(errors + 1 > DEPTH) BY <1>2, BufferAssumption
    <3> QED BY <2>2, <3>1, <3>2, <3>3, <1>6 DEF Pushes, Decode, file
  <2> QED BY <2>1, <2>2
<1>8. IF errors' = 0 THEN IsText(job'.files[path'])
      ELSE content' = NoContent' /\ ~IsText(job'.files[path']) BY <1>7 DEF NoContent
<1>9. \A commands : Is(commands)' = Is(commands) BY <1>7 DEF Is
<1>10. EndsReads'
  <2>1. /\ Is({"concat"})' => \A i \in 1..path' - 1 : job'.files[i] # <<>> /\ IsText(job'.files[i])
        /\ ~Is({"concat"})' => path' = 1
    BY <1>1, <1>2, <1>7, <1>9 DEF EndsReads
  <2> HIDE DEF bytes
  <2> QED BY <2>1, <1>8 DEF EndsReads
<1>11. step' \notin Over \union Uses \union {"sort", "print"} BY <1>7 DEF Over, Uses
<1> HIDE DEF bytes
<1> QED BY <1>7, <1>10, <1>11 DEF EndsOk, EndsUses

\* The content at hand, where something can be made of it.
LEMMA TextEndsContent ==
  ASSUME Inv, EndsOk, fault = {}, step = "use"
  PROVE  /\ Reading /\ EndsReads
         /\ errors = 0 => /\ content = Append(job.files[path], 0) /\ content # NoContent
                          /\ IsText(job.files[path])
                          /\ HasText <=> job.files[path] # <<>>
         /\ errors # 0 => content = NoContent /\ ~HasText /\ ~IsText(job.files[path])
<1>1. step \in Reads BY DEF Reads
<1>2. Reading /\ EndsReads BY <1>1, TextReading, TextEndsAt
<1> DEFINE bytes == job.files[path]
<1>3. bytes \in Seq(Byte) BY <1>2 DEF Reading
<1>4. ASSUME errors = 0
      PROVE  /\ content = Append(bytes, 0) /\ content # NoContent /\ IsText(bytes)
             /\ HasText <=> bytes # <<>>
  <2>1. ReadOk BY <1>2, <1>4 DEF Reading
  <2>2. content = Append(bytes, 0) BY <2>1, <1>1 DEF ReadOk
  <2>3. IsText(bytes) BY <1>1, <1>2, <1>4 DEF EndsReads
  <2> HIDE DEF bytes
  <2>4. content # <<>> /\ View(content) = bytes BY <2>2, <1>3, TextWithNul
  <2>5. IsValidUtf8(bytes) BY <2>3, <1>3, TextSound
  <2>6. Length(bytes) > 0 <=> bytes # <<>> BY <2>5, <1>3, TextLength
  <2> QED BY <2>2, <2>3, <2>4, <2>6 DEF HasText, NoContent
<1>5. errors # 0 => content = NoContent /\ ~HasText /\ ~IsText(bytes)
  BY <1>1, <1>2 DEF EndsReads, HasText
<1> QED BY <1>2, <1>4, <1>5

\* Joining the content of one file more.
LEMMA TextEndsAdd ==
  ASSUME Inv, EndsOk, fault = {}, AddContent
  PROVE  EndsOk'
<1>1. step = "use" /\ step \in Reads /\ Is({"concat"}) BY DEF AddContent, Reads
<1> DEFINE F == job.files
           n == Len(F)
<1>2. /\ Reading /\ EndsReads
      /\ errors = 0 => IsText(F[path]) /\ (HasText <=> F[path] # <<>>)
      /\ errors # 0 => ~HasText /\ ~IsText(F[path])
  BY <1>1, TextEndsContent
<1>3. errors \in 0..DEPTH /\ path \in 1..n /\ F \in Seq(Seq(Byte)) BY <1>2 DEF Reading
<1>4. IsGiven <=> \A i \in 1..n : F[i] # <<>> /\ IsText(F[i]) BY <1>1, TextGiven
<1>5. \A i \in 1..path - 1 : F[i] # <<>> /\ IsText(F[i]) BY <1>1, <1>2 DEF EndsReads
<1>6. CASE ~HasText
  <2>1. Fails(0) BY <1>6 DEF AddContent
  <2>2. \E k \in 0..3 : Fails(k) BY <2>1
  <2>3. Quits BY <1>3, <2>2, TextQuits
  <2>4. ~IsGiven BY <1>2, <1>3, <1>4, <1>6
  <2> QED BY <2>3, <2>4, TextEndsBadly
<1>7. CASE HasText
  <2> DEFINE next == IF path < Len(job.files) THEN "open" ELSE "print"
  <2>1. Goes(next) /\ path' = path + 1 BY <1>7 DEF AddContent
  <2>2. Pushes(0, next, "running") BY <2>1 DEF Goes
  <2> HIDE DEF next
  <2>3. Moves(next, "running") BY <2>2, <1>3, TextMoves
  <2>4. errors = 0 /\ F[path] # <<>> /\ IsText(F[path]) BY <1>2, <1>7
  <2> HIDE DEF F, n
  <2>5. n \in Nat BY <1>3 DEF n
  <2>6. \A i \in 1..path : F[i] # <<>> /\ IsText(F[i])
    <3>1. \A i \in 1..path : i = path \/ i \in 1..path - 1 BY <1>3, <2>5
    <3> QED BY <3>1, <2>4, <1>5
  <2>7. CASE path < n
    <3>1. next = "open" BY <2>7 DEF next, n, F
    <3>2. path' - 1 = path BY <2>1, <1>3, <2>5
    <3>3. \A i \in 1..path' - 1 : job.files[i] # <<>> /\ IsText(job.files[i]) BY <2>6, <3>2 DEF F
    <3> QED BY <3>1, <3>3, <2>3, <2>4, <1>1, TextEndsReading
  <2>8. CASE ~(path < n)
    <3>1. next = "print" BY <2>8 DEF next, n, F
    <3>2. path = n BY <2>8, <1>3, <2>5
    <3>3. IsGiven BY <3>2, <2>6, <1>4
    <3> QED BY <3>1, <3>3, <2>3, <2>4, TextEndsSorting
  <2> QED BY <2>7, <2>8
<1> QED BY <1>6, <1>7

\* Printing what is joined.
LEMMA TextEndsResult ==
  ASSUME Inv, EndsOk, fault = {}, PrintResult
  PROVE  EndsOk'
<1>1. step \in {"sort", "print"} BY DEF PrintResult
<1>2. IsGiven BY <1>1, TextEndsAt
<1>3. errors \in 0..DEPTH BY DEF Inv, TypeOk
<1>4. Writes(View(result), "done", "success") BY DEF PrintResult
<1>5. Moves("done", "success") BY <1>3, <1>4, TextWritesWell
<1> QED BY <1>2, <1>5, TextEndsWell

\* Creating the iterator.
LEMMA TextEndsBegin ==
  ASSUME Inv, EndsOk, fault = {}, BeginTokens
  PROVE  EndsOk'
<1>1. step = "use" /\ step \in Reads BY DEF BeginTokens, Reads
<1> DEFINE bytes == job.files[1]
<1>2. /\ Reading /\ EndsReads
      /\ errors = 0 => /\ content = Append(job.files[path], 0) /\ content # NoContent
                       /\ IsText(job.files[path])
                       /\ HasText <=> job.files[path] # <<>>
      /\ errors # 0 => content = NoContent /\ ~HasText /\ ~IsText(job.files[path])
  BY <1>1, TextEndsContent
<1>3. Is({"slicelines"}) \/ Is({"replace"}) \/ Is({"count"}) \/ Is({"sort"}) BY DEF BeginTokens, Is
<1>4. path = 1 BY <1>1, <1>2, <1>3, TextOneCommand DEF EndsReads
<1>5. errors \in 0..DEPTH BY <1>2 DEF Reading
<1>6. ASSUME ~HasText, Is({"slicelines"}) \/ Is({"replace"}) PROVE ~IsGiven
  BY <1>2, <1>4, <1>6, TextGiven
<1>7. ASSUME content = NoContent, Is({"count"}) \/ Is({"sort"}) PROVE ~IsGiven
  BY <1>2, <1>4, <1>7, TextGiven
<1>8. ASSUME ~IsGiven, Crashes \/ \E n \in 0..3 : Fails(n) PROVE EndsOk'
  <2>1. Quits BY <1>5, <1>8, TextQuits
  <2> QED BY <2>1, <1>8, TextEndsBadly
<1>9. ASSUME (Is({"count", "sort"}) /\ content # NoContent) \/ (Is({"slicelines", "replace"}) /\ HasText),
             iter' = Tokens(content, Delimiter), Goes("tokens")
      PROVE  EndsOk'
  <2>1. Pushes(0, "tokens", "running") BY <1>9 DEF Goes
  <2>2. Moves("tokens", "running") BY <2>1, <1>5, TextMoves
  <2>3. errors = 0 /\ IsText(bytes) BY <1>2, <1>4, <1>9
  <2>4. Is({"slicelines", "replace"}) => bytes # <<>>
    <3>1. ~(Is({"slicelines", "replace"}) /\ Is({"count", "sort"})) BY DEF Is
    <3> QED BY <3>1, <2>3, <1>2, <1>4, <1>9
  <2>5. DelimiterFacts BY <1>2, TextDelimiter DEF Inv, TypeOk, Reading
  <2>6. content \in Seq(Byte) BY DEF Inv, TypeOk
  <2>7. iter'.pos = 0 BY <2>5, <2>6, <1>9, TextTokensBegin DEF DelimiterFacts
  <2>8. lines' = <<>>
    <3>1. ReadOk BY <2>3, <1>2 DEF Reading
    <3> QED BY <3>1, <1>1 DEF ReadOk, BeginTokens, sortVars
  <2>9. /\ ~\E i \in 1..iter'.pos : TRUE
        /\ \A i \in 2..PieceCount : ~(i <= iter'.pos + 1)
    BY <2>7
  <2>10. "tokens" \in Uses BY DEF Uses
  <2> HIDE DEF bytes
  <2> QED BY <2>2, <2>3, <2>4, <2>8, <2>9, <2>10, TextEndsUsing DEF bytes
<1>10. DestroysUninitialised(0) => Crashes \/ \E k \in 0..3 : Fails(k) BY DEF DestroysUninitialised
<1>11. Fails(0) => \E k \in 0..3 : Fails(k) OBVIOUS
<1>12. Is({"count", "sort"}) => Is({"count"}) \/ Is({"sort"}) BY DEF Is
<1> HIDE DEF bytes
<1> QED BY <1>6, <1>7, <1>8, <1>9, <1>10, <1>11, <1>12 DEF BeginTokens

\* What is known while the tokens are taken and nothing fails.
LEMMA TextEndsHere ==
  ASSUME Inv, EndsOk, fault = {}, step \in Uses
  PROVE  EndsHere
<1>1. step \notin {"use"} \union Over BY DEF Uses, Over
<1>2. errors = 0 /\ EndsUses BY <1>1, TextEndsAt
<1>3. Using BY TextUsing
<1>4. UseOk /\ JobFacts /\ DelimiterFacts /\ errors \in 0..DEPTH BY <1>2, <1>3 DEF Using
<1>5. content = Text BY <1>4 DEF UseOk
<1>6. Text \in Seq(Byte) /\ PieceFacts(Pieces(Text, Delimiter)) BY <1>4, TextPieceFacts
<1>7. PieceCount = CutCount(Text, Delimiter) + 1 /\ CutCount(Text, Delimiter) \in Nat
  BY <1>6 DEF PieceFacts, PieceCount
<1>8. job.files[1] \in Seq(Byte)
  <2>1. 1 \in 1..Len(job.files) BY <1>4 DEF JobFacts
  <2> QED BY <2>1, <1>4 DEF JobFacts
<1>9. Is({"count", "replace"}) => job.pattern # <<>> BY DEF Inv, Placed
<1> QED BY <1>2, <1>3, <1>4, <1>5, <1>6, <1>7, <1>8, <1>9 DEF EndsHere, Text

\* What is known of the token that is passed, where nothing fails.
LEMMA TextEndsToken ==
  ASSUME Inv, EndsOk, fault = {}, AtToken, iter' = NextIter
  PROVE  EndsToken
<1>1. step \in Uses BY DEF AtToken, Uses
<1>2. EndsHere BY <1>1, TextEndsHere
<1>3. Stepping BY <1>2, TextStepping DEF EndsHere
<1> DEFINE p == iter.pos
           n == CutCount(Text, Delimiter)
<1>4. p \in 0..n /\ p \in Nat /\ iter.token \in Seq(Byte) /\ iter'.pos = p + 1
  BY <1>2, <1>3 DEF Stepping, EndsHere
<1>5. iter.token = PieceOf(p + 1) BY <1>2, <1>3 DEF Stepping, EndsHere, PieceOf
<1>6. PieceCount = n + 1 /\ n \in Nat BY <1>2 DEF EndsHere
<1> HIDE DEF p, n
<1>7. p + 1 \in 1..PieceCount BY <1>4, <1>6
<1> QED BY <1>2, <1>4, <1>5, <1>7 DEF EndsToken, p, n

\* Passing a token.
LEMMA TextEndsCount ==
  ASSUME Inv, EndsOk, fault = {}, CountToken
  PROVE  EndsOk'
<1>1. EndsToken /\ Is({"count"}) BY TextEndsToken DEF CountToken
<1>2. Pushes(0, "tokens", "running") BY DEF CountToken, Goes
<1>3. Moves("tokens", "running") /\ errors = 0 BY <1>1, <1>2, TextMoves DEF EndsToken, EndsHere
<1>4. IsText(job.files[1]) BY <1>1 DEF EndsToken, EndsHere, EndsUses
<1>5. ~Is({"slicelines", "replace"}) /\ ~Is({"replace"}) /\ ~Is({"sort"}) BY <1>1 DEF Is
<1>6. "tokens" \in Uses BY DEF Uses
<1> QED BY <1>3, <1>4, <1>5, <1>6, TextEndsUsing

\* Printing a line, or passing it: a line of a text is one.
LEMMA TextEndsSlice ==
  ASSUME Inv, EndsOk, fault = {}, SliceLine
  PROVE  EndsOk'
<1>1. EndsToken /\ Is({"slicelines"}) BY TextEndsToken DEF SliceLine
<1>2. EndsHere /\ errors = 0 /\ errors \in 0..DEPTH BY <1>1 DEF EndsToken, EndsHere
<1>3. IsText(job.files[1]) /\ job.files[1] # <<>>
  <2>1. Is({"slicelines", "replace"}) BY <1>1 DEF Is
  <2> QED BY <2>1, <1>2 DEF EndsHere, EndsUses
<1> DEFINE x == iter.token
           line == Append(x, NEWLINE)
<1>4. IsText(line) /\ line \in Seq(Byte)
  <2>1. job.files[1] \in Seq(Byte) /\ IsSound(job.files[1], 0) BY <1>2, <1>3, TextSound DEF EndsHere
  <2>2. Text \in Seq(Byte) /\ Text = Append(job.files[1], 0) BY <1>2 DEF EndsHere
  <2>3. 0 \in 0..127 /\ NEWLINE \in 0..127 BY DEF NEWLINE
  <2>4. IsSound(Text, 0) BY <2>1, <2>2, <2>3, TextAppendSound
  <2>5. Delimiter = <<NEWLINE>>
    <3>1. Is({"slicelines", "sort"}) BY <1>1 DEF Is
    <3> QED BY <3>1, <1>2 DEF EndsHere, Using, DelimiterFacts
  <2> DEFINE p == iter.pos
  <2>6. p \in 0..CutCount(Text, <<NEWLINE>>) /\ x = Pieces(Text, <<NEWLINE>>)[p + 1] /\ x \in Seq(Byte)
    BY <1>1, <2>5 DEF EndsToken, PieceOf
  <2> HIDE DEF p, x
  <2>7. IsSound(x, 0) BY <2>2, <2>4, <2>6, TextLineSound
  <2>8. line \in Seq(Byte) /\ IsSound(line, 0) BY <2>3, <2>6, <2>7, TextAppendSound
  <2> HIDE DEF line
  <2> QED BY <2>8, TextSound
<1>5. Moves("tokens", "running")
  <2>1. CASE IsSelected
    <3>1. Prints(line, "tokens") BY <2>1 DEF SliceLine
    <3> HIDE DEF line
    <3> QED BY <3>1, <1>2, <1>4, TextPrintsWell
  <2>2. CASE ~IsSelected
    <3>1. Pushes(0, "tokens", "running") BY <2>2 DEF SliceLine, Goes
    <3> QED BY <3>1, <1>2, TextMoves
  <2> QED BY <2>1, <2>2
<1>6. ~Is({"replace"}) /\ ~Is({"sort"}) BY <1>1 DEF Is
<1>7. "tokens" \in Uses BY DEF Uses
<1> HIDE DEF line, x
<1> QED BY <1>2, <1>3, <1>5, <1>6, <1>7, TextEndsUsing

\* Printing a piece, if it is a text.
LEMMA TextEndsPiece ==
  ASSUME Inv, EndsOk, fault = {}, ReplaceToken
  PROVE  EndsOk'
<1>1. EndsToken /\ Is({"replace"}) BY TextEndsToken DEF ReplaceToken
<1>2. EndsHere /\ errors = 0 /\ errors \in 0..DEPTH /\ EndsUses BY <1>1 DEF EndsToken, EndsHere
<1>3. step = "tokens" /\ step \in Uses BY DEF ReplaceToken, AtToken, Uses
<1> DEFINE p == iter.pos
           x == iter.token
<1>4. /\ p \in Nat /\ x = PieceOf(p + 1) /\ x \in Seq(Byte) /\ p + 1 \in 1..PieceCount
      /\ iter'.pos = p + 1
  BY <1>1 DEF EndsToken
<1>5. Is({"slicelines", "replace"}) BY <1>1 DEF Is
<1>6. /\ IsText(job.files[1]) /\ job.files[1] # <<>>
      /\ \A i \in 1..p : i <= PieceCount => IsText(PieceOf(i))
      /\ \A i \in 2..PieceCount : i <= p + 1 => IsText(Replacement(i))
  BY <1>1, <1>2, <1>3, <1>5 DEF EndsUses
<1>7. Prints(x, "replacement") BY DEF ReplaceToken
<1> HIDE DEF p, x
<1>8. IF IsText(x) THEN Moves("replacement", "running") ELSE Quits
  BY <1>2, <1>4, <1>7, TextPrintsWell
<1>9. CASE ~IsText(x)
  <2>1. ~IsGiven BY <1>1, <1>4, <1>9, TextGiven
  <2> QED BY <2>1, <1>8, <1>9, TextEndsBadly
<1>10. CASE IsText(x)
  <2>1. \A i \in 1..iter'.pos : i <= PieceCount => IsText(PieceOf(i))
    <3>1. \A i \in 1..iter'.pos : i = p + 1 \/ i \in 1..p BY <1>4
    <3> QED BY <3>1, <1>4, <1>6, <1>10
  <2>2. \A i \in 2..PieceCount : i <= iter'.pos => IsText(Replacement(i)) BY <1>4, <1>6
  <2>3. ~Is({"sort"}) BY <1>1 DEF Is
  <2>4. "replacement" \in Uses BY DEF Uses
  <2> QED BY <2>1, <2>2, <2>3, <2>4, <1>2, <1>6, <1>8, <1>10, TextEndsUsing
<1> QED BY <1>9, <1>10

\* Printing what is put for the pattern, if it is a text.
LEMMA TextEndsReplacement ==
  ASSUME Inv, EndsOk, fault = {}, PrintReplacement
  PROVE  EndsOk'
<1>1. step = "replacement" /\ step \in Uses BY DEF PrintReplacement, Uses
<1>2. EndsHere BY <1>1, TextEndsHere
<1>3. errors = 0 /\ errors \in 0..DEPTH /\ EndsUses /\ Using BY <1>2 DEF EndsHere
<1>4. Is({"replace"}) /\ iter.pos # 0 BY <1>1 DEF Inv, Placed
<1>5. Is({"slicelines", "replace"}) BY <1>4 DEF Is
<1> DEFINE p == iter.pos
           n == CutCount(Text, Delimiter)
           r == Unhexed(job.replacement)
           given == job.replacement
<1>6. /\ IsText(job.files[1]) /\ job.files[1] # <<>>
      /\ \A i \in 1..p : i <= PieceCount => IsText(PieceOf(i))
      /\ \A i \in 2..PieceCount : i <= p => IsText(Replacement(i))
  BY <1>1, <1>3, <1>4, <1>5 DEF EndsUses
<1>7. PieceCount = n + 1 /\ n \in Nat BY <1>2 DEF EndsHere
<1>8. given \in Seq(1..255) BY <1>3 DEF Using, JobFacts
<1>9. r \in Seq(Byte) /\ (given = <<>> => r = <<>>) BY <1>8, TextUnhexed
<1>10. iter' = iter BY DEF PrintReplacement
<1>11. \A i : Replacement(i) = IF i = PieceCount /\ PieceOf(i) = <<>> THEN <<>> ELSE r
  BY DEF Replacement
<1>12. /\ Text \in Seq(Byte) /\ Text # <<>> /\ Delimiter \in Seq(Byte) /\ Delimiter # <<>>
       /\ TokAt(Text, Delimiter, iter) /\ content = Text
  <2>1. TokAt(content, Delimiter, iter) /\ DelimiterFacts /\ content # <<>> BY <1>3 DEF Using
  <2>2. content = Text /\ Text \in Seq(Byte) BY <1>2 DEF EndsHere
  <2> QED BY <2>1, <2>2 DEF DelimiterFacts
<1>13. IsText(<<>>)
  <2>1. <<>> \in Seq(Byte) OBVIOUS
  <2> QED BY <2>1, TextOneSound, TextSound
<1>14. IsDone(iter, content) =>
         p = n + 1 \/ (p = n /\ PieceOf(n + 1) = <<>>)
  BY <1>12, TextTokensEnd DEF PieceOf
<1>15. ~IsDone(iter, content) =>
         p \in 0..n /\ (p = n => PieceOf(n + 1) # <<>>)
  <2> SUFFICES ASSUME ~IsDone(iter, content)
               PROVE  p \in 0..n /\ (p = n => PieceOf(n + 1) # <<>>)
    OBVIOUS
  <2>1. p \in 0..n /\ iter.token = PieceOf(p + 1) BY <1>12 DEF TokAt, IsDone, PieceOf
  <2>2. p = n => iter.token # <<>> BY <1>12, TextTokenNotLast
  <2> QED BY <2>1, <2>2
<1>16. p \in Nat BY <1>12 DEF TokAt
<1> HIDE DEF p, n, r, given
<1>17. ASSUME Moves("tokens", "running"),
              p + 1 \in 2..PieceCount => IsText(Replacement(p + 1))
       PROVE  EndsOk'
  <2>1. iter'.pos = p BY <1>10 DEF p
  <2>2. \A i \in 2..PieceCount : i <= iter'.pos + 1 => IsText(Replacement(i))
    <3>1. \A i \in 2..PieceCount : i <= p + 1 => i <= p \/ i = p + 1 BY <1>16
    <3> QED BY <3>1, <2>1, <1>6, <1>17
  <2>3. \A i \in 1..iter'.pos : i <= PieceCount => IsText(PieceOf(i)) BY <2>1, <1>6
  <2>4. ~Is({"sort"}) BY <1>4 DEF Is
  <2>5. "tokens" \in Uses BY DEF Uses
  <2> QED BY <2>2, <2>3, <2>4, <2>5, <1>3, <1>6, <1>17, TextEndsUsing
<1>18. CASE IsDone(iter, content) \/ given = <<>>
  <2>1. Pushes(0, "tokens", "running") BY <1>18 DEF PrintReplacement, Goes, given
  <2>2. Moves("tokens", "running") BY <2>1, <1>3, TextMoves
  <2>3. p + 1 \in 2..PieceCount => IsText(Replacement(p + 1))
    <3> SUFFICES ASSUME p + 1 \in 2..PieceCount PROVE Replacement(p + 1) = <<>> BY <1>13
    <3>1. CASE given = <<>>
      <4>1. r = <<>> BY <3>1, <1>9
      <4> QED BY <4>1, <1>11
    <3>2. CASE IsDone(iter, content)
      <4>1. p # n + 1 BY <1>7
      <4>2. p = n /\ PieceOf(n + 1) = <<>> BY <4>1, <3>2, <1>14
      <4> QED BY <4>2, <1>7, <1>11
    <3> QED BY <3>1, <3>2, <1>18
  <2> QED BY <2>2, <2>3, <1>17
<1>19. CASE ~(IsDone(iter, content) \/ given = <<>>)
  <2>1. Prints(r, "tokens") BY <1>19 DEF PrintReplacement, r, given
  <2>2. IF IsText(r) THEN Moves("tokens", "running") ELSE Quits BY <2>1, <1>3, <1>9, TextPrintsWell
  <2>3. p \in 0..n /\ (p = n => PieceOf(n + 1) # <<>>) BY <1>15, <1>19
  <2>4. p + 1 \in 2..PieceCount
    <3>1. p # 0 BY <1>4 DEF p
    <3> QED BY <3>1, <2>3, <1>7
  <2>5. Replacement(p + 1) = r
    <3>1. p + 1 = PieceCount => p = n BY <2>3, <1>7
    <3> QED BY <3>1, <2>3, <1>11
  <2>6. CASE IsText(r) BY <2>2, <2>5, <2>6, <1>17
  <2>7. CASE ~IsText(r)
    <3>1. ~IsGiven BY <2>4, <2>5, <2>7, <1>4, TextGiven
    <3> QED BY <3>1, <2>2, <2>7, TextEndsBadly
  <2> QED BY <2>6, <2>7
<1> QED BY <1>18, <1>19

\* Taking a line to sort, which may not be empty.
LEMMA TextEndsLine ==
  ASSUME Inv, EndsOk, fault = {}, ReadLine
  PROVE  EndsOk'
<1>1. EndsToken /\ Is({"sort"}) BY TextEndsToken DEF ReadLine
<1>2. EndsHere /\ errors = 0 /\ errors \in 0..DEPTH /\ EndsUses BY <1>1 DEF EndsToken, EndsHere
<1>3. step \in Uses BY <1>2 DEF EndsHere
<1> DEFINE p == iter.pos
           x == iter.token
<1>4. /\ p \in Nat /\ x = PieceOf(p + 1) /\ x \in Seq(Byte) /\ p + 1 \in 1..PieceCount
      /\ iter'.pos = p + 1
  BY <1>1 DEF EndsToken
<1>5. /\ IsText(job.files[1])
      /\ \A i \in 1..p : PieceOf(i) # <<>>
      /\ lines # <<>> <=> \E i \in 1..p : PieceOf(i)[1] # 0
  BY <1>1, <1>2, <1>3 DEF EndsUses
<1>6. ~Is({"slicelines", "replace"}) /\ ~Is({"replace"}) BY <1>1 DEF Is
<1>7. CASE x = <<>>
  <2>1. Crashes BY <1>7 DEF ReadLine
  <2>2. Quits BY <2>1, <1>2, TextQuits
  <2> HIDE DEF p, x
  <2>3. ~IsGiven BY <1>1, <1>4, <1>7, TextGiven
  <2> QED BY <2>2, <2>3, TextEndsBadly
<1>8. CASE x # <<>>
  <2>1. Pushes(0, "tokens", "running") BY <1>8 DEF ReadLine, Goes
  <2>2. Moves("tokens", "running") BY <2>1, <1>2, TextMoves
  <2>3. lines' # <<>> <=> lines # <<>> \/ x[1] # 0
    <3>1. CASE x[1] = 0
      <4>1. lines' = lines BY <3>1, <1>8 DEF ReadLine
      <4> QED BY <4>1, <3>1
    <3>2. CASE x[1] # 0
      <4> DEFINE l == CString(x)
      <4>1. lines' = Append(lines, l) BY <3>2, <1>8 DEF ReadLine
      <4>2. lines \in Seq(Line) BY DEF Inv, TypeOk
      <4> HIDE DEF l
      <4>3. Len(Append(lines, l)) = Len(lines) + 1 /\ Len(lines) \in Nat BY <4>2
      <4>4. Append(lines, l) # <<>>
        <5>1. Len(<<>>) = 0 OBVIOUS
        <5> QED BY <5>1, <4>3
      <4> QED BY <4>1, <4>4, <3>2
    <3> QED BY <3>1, <3>2
  <2> HIDE DEF p, x
  <2>4. \A i \in 1..iter'.pos : i = p + 1 \/ i \in 1..p BY <1>4
  <2>5. \A i \in 1..iter'.pos : PieceOf(i) # <<>> BY <2>4, <1>4, <1>5, <1>8
  <2>6. lines' # <<>> <=> \E i \in 1..iter'.pos : PieceOf(i)[1] # 0
    <3>1. p + 1 \in 1..iter'.pos /\ \A i \in 1..p : i \in 1..iter'.pos BY <1>4
    <3> QED BY <3>1, <2>3, <2>4, <1>4, <1>5
  <2>7. "tokens" \in Uses BY DEF Uses
  <2> QED BY <2>2, <2>5, <2>6, <2>7, <1>1, <1>2, <1>5, <1>6, TextEndsUsing
<1> QED BY <1>7, <1>8

\* The end of count.
LEMMA TextEndsNumber ==
  ASSUME Inv, EndsOk, fault = {}, PrintCount
  PROVE  EndsOk'
<1>1. step \in Uses /\ Is({"count"}) BY DEF PrintCount, AtEnd, Uses
<1>2. EndsHere BY <1>1, TextEndsHere
<1>3. errors \in 0..DEPTH /\ IsText(job.files[1]) BY <1>1, <1>2 DEF EndsHere, EndsUses
<1>4. job.pattern # <<>>
  <2>1. Is({"count", "replace"}) BY <1>1 DEF Is
  <2> QED BY <2>1, <1>2 DEF EndsHere
<1>5. IsGiven BY <1>1, <1>3, <1>4, TextGiven
<1> DEFINE number == <<Max({iter.pos - 1, 0})>>
<1>6. Writes(number, "done", "success") BY DEF PrintCount
<1> HIDE DEF number
<1>7. Moves("done", "success") BY <1>3, <1>6, TextWritesWell
<1> QED BY <1>5, <1>7, TextEndsWell

\* The end of slicelines and of replace: all of the text has been looked at.
LEMMA TextEndsFinish ==
  ASSUME Inv, EndsOk, fault = {}, FinishTokens
  PROVE  EndsOk'
<1>1. step = "tokens" /\ step \in Uses BY DEF FinishTokens, AtEnd, Uses
<1>2. EndsHere BY <1>1, TextEndsHere
<1>3. errors = 0 /\ errors \in 0..DEPTH /\ EndsUses /\ Using BY <1>2 DEF EndsHere
<1>4. Is({"slicelines", "replace"}) BY DEF FinishTokens
<1>5. IsText(job.files[1]) /\ job.files[1] # <<>> BY <1>1, <1>3, <1>4 DEF EndsUses
<1>6. IsGiven
  <2>1. CASE Is({"slicelines"}) BY <2>1, <1>5, TextGiven
  <2>2. CASE Is({"replace"})
    <3> DEFINE p == iter.pos
               n == CutCount(Text, Delimiter)
    <3>1. AllPassed BY <1>3, TextAllPassed DEF FinishTokens
    <3>2. p = n + 1 \/ (p = n /\ PieceOf(n + 1) = <<>>) BY <3>1 DEF AllPassed, PieceOf
    <3>3. PieceCount = n + 1 /\ n \in Nat BY <1>2 DEF EndsHere
    <3>4. /\ \A i \in 1..p : i <= PieceCount => IsText(PieceOf(i))
          /\ \A i \in 2..PieceCount : i <= p + 1 => IsText(Replacement(i))
      BY <2>2, <1>1, <1>3 DEF EndsUses
    <3>5. IsText(<<>>)
      <4>1. <<>> \in Seq(Byte) OBVIOUS
      <4> QED BY <4>1, TextOneSound, TextSound
    <3> HIDE DEF p, n
    <3>6. \A i \in 1..PieceCount : IsText(PieceOf(i))
      <4>1. CASE p = n + 1 BY <4>1, <3>3, <3>4
      <4>2. CASE p = n /\ PieceOf(n + 1) = <<>>
        <5>1. \A i \in 1..PieceCount : i \in 1..p \/ i = n + 1 BY <4>2, <3>3
        <5> QED BY <5>1, <4>2, <3>4, <3>5
      <4> QED BY <4>1, <4>2, <3>2
    <3>7. \A i \in 2..PieceCount : IsText(Replacement(i))
      <4>1. \A i \in 2..PieceCount : i <= p + 1 BY <3>2, <3>3
      <4> QED BY <4>1, <3>4
    <3>8. job.pattern # <<>>
      <4>1. Is({"count", "replace"}) BY <2>2 DEF Is
      <4> QED BY <4>1, <1>2 DEF EndsHere
    <3> QED BY <2>2, <3>6, <3>7, <3>8, <1>5, TextGiven
  <2>3. Is({"slicelines"}) \/ Is({"replace"}) BY <1>4 DEF Is
  <2> QED BY <2>1, <2>2, <2>3
<1>7. Pushes(0, "done", "success") BY DEF FinishTokens
<1>8. Moves("done", "success") BY <1>3, <1>7, TextMoves
<1> QED BY <1>6, <1>8, TextEndsWell

\* Calling the quicksort, which needs a line.
LEMMA TextEndsBeginSort ==
  ASSUME Inv, EndsOk, fault = {}, BeginSort
  PROVE  EndsOk'
<1>1. step = "tokens" /\ step \in Uses /\ Is({"sort"}) BY DEF BeginSort, AtEnd, Uses
<1>2. EndsHere BY <1>1, TextEndsHere
<1>3. errors = 0 /\ errors \in 0..DEPTH /\ EndsUses /\ Using BY <1>2 DEF EndsHere
<1>4. iter.pos = PieceCount
  <2>1. AllPassed BY <1>3, TextAllPassed DEF BeginSort
  <2>2. ~Is({"replace"}) BY <1>1 DEF Is
  <2> QED BY <2>1, <2>2, <1>2 DEF AllPassed, EndsHere
<1>5. /\ IsText(job.files[1])
      /\ \A i \in 1..PieceCount : PieceOf(i) # <<>>
      /\ lines # <<>> <=> \E i \in 1..PieceCount : PieceOf(i)[1] # 0
  BY <1>1, <1>3, <1>4 DEF EndsUses
<1>6. IsGiven <=> lines # <<>> BY <1>1, <1>5, TextGiven
<1>7. CASE lines = <<>>
  <2>1. Crashes BY <1>7 DEF BeginSort
  <2>2. Quits BY <2>1, <1>3, TextQuits
  <2> QED BY <2>2, <1>6, <1>7, TextEndsBadly
<1>8. CASE lines # <<>>
  <2>1. Pushes(0, "sort", "running") BY <1>8 DEF BeginSort, Goes
  <2>2. Moves("sort", "running") BY <2>1, <1>3, TextMoves
  <2> QED BY <2>2, <1>3, <1>6, <1>8, TextEndsSorting
<1> QED BY <1>7, <1>8

\* Sorting, to its end.
LEMMA TextEndsSort ==
  ASSUME Inv, EndsOk, fault = {}, Quicksort \/ EndSort
  PROVE  EndsOk'
<1>1. step = "sort" /\ step \notin {"use"} \union Over BY DEF Quicksort, EndSort, Over
<1>2. errors = 0 /\ IsGiven /\ errors \in 0..DEPTH BY <1>1, TextEndsAt DEF Inv, TypeOk
<1>3. PICK next \in {"sort", "print"} : Pushes(0, next, "running") BY DEF Quicksort, EndSort, Goes
<1>4. Moves(next, "running") BY <1>2, <1>3, TextMoves
<1> QED BY <1>2, <1>4, TextEndsSorting

\* Calling another sort of the library.
LEMMA TextEndsLibrary ==
  ASSUME Inv, EndsOk, fault = {}, CallLibrary
  PROVE  EndsOk'
<1>1. step = "start" /\ step \notin {"use"} \union Over BY DEF CallLibrary, Over
<1>2. errors = 0 /\ errors \in 0..DEPTH BY <1>1, TextEndsAt DEF Inv, TypeOk
<1>3. IsGiven BY TextGiven DEF CallLibrary
<1>4. Pushes(0, "print", "running") BY DEF CallLibrary, Goes
<1>5. Moves("print", "running") BY <1>2, <1>4, TextMoves
<1> QED BY <1>2, <1>3, <1>5, TextEndsSorting

\* Printing the lines.
LEMMA TextEndsLines ==
  ASSUME Inv, EndsOk, fault = {}, PrintLines
  PROVE  EndsOk'
<1>1. step \in {"sort", "print"} BY DEF PrintLines
<1>2. IsGiven /\ errors \in 0..DEPTH BY <1>1, TextEndsAt DEF Inv, TypeOk
<1>3. Pushes(0, "done", "success") BY DEF PrintLines
<1>4. Moves("done", "success") BY <1>2, <1>3, TextMoves
<1> QED BY <1>2, <1>4, TextEndsWell

\* Reporting the errors.
LEMMA TextEndsUnwind ==
  ASSUME Inv, EndsOk, fault = {}, Unwind
  PROVE  EndsOk'
<1>1. step = "done" /\ step' = "ended" /\ job' = job /\ outcome' = outcome BY DEF Unwind
<1>2. step \in Over /\ step' \in Over BY <1>1 DEF Over
<1>3. outcome = "success" <=> IsGiven BY <1>2, TextEndsAt
<1>4. IsGiven' = IsGiven BY <1>1, TextSameGiven DEF SameGiven
<1>5. step' \notin {"start", "sort", "print"} \union Reads \union Uses BY <1>1 DEF Reads, Uses
<1> QED BY <1>1, <1>2, <1>3, <1>4, <1>5 DEF EndsOk, EndsReads, EndsUses

\* Nothing changes.
LEMMA TextEndsStutters ==
  ASSUME EndsOk, fault = {}, UNCHANGED vars
  PROVE  EndsOk'
<1>1. UNCHANGED <<job, step, path, content, iter, errors, outcome, lines>>
  BY DEF vars, file, sortVars
<1>2. SameGiven BY <1>1, TextSameGiven
<1>3. errors = 0 \/ step \in {"use"} \union Over BY TextEndsAt
<1>4. EndsReads' BY <1>1, TextEndsAt DEF EndsReads, Is, NoContent
<1>5. EndsUses' BY <1>1, <1>2, TextEndsAt DEF EndsUses, SameGiven
<1>6. step' \in {"sort", "print"} => IsGiven' BY <1>1, <1>2, TextEndsAt DEF SameGiven
<1>7. step' \in Over => (outcome' = "success" <=> IsGiven') BY <1>1, <1>2, TextEndsAt DEF SameGiven
<1> QED BY <1>1, <1>3, <1>4, <1>5, <1>6, <1>7 DEF EndsOk

\* What may fail stays the same.
LEMMA TextSameFault ==
  ASSUME [Next]_vars
  PROVE  fault' = fault
<1>1. \A n, next, verdict : Pushes(n, next, verdict) => fault' = fault BY DEF Pushes
<1>2. Crashes => fault' = fault BY DEF Crashes
<1>3. \A n : Fails(n) => fault' = fault BY <1>1 DEF Fails
<1>4. \A next : Goes(next) => fault' = fault BY <1>1 DEF Goes
<1>5. \A bytes, next, verdict : Writes(bytes, next, verdict) => fault' = fault
  BY <1>1, <1>3 DEF Writes
<1>6. \A bytes, next : Prints(bytes, next) => fault' = fault BY <1>3, <1>5 DEF Prints
<1>7. \A n : DestroysUninitialised(n) => fault' = fault BY <1>2, <1>3 DEF DestroysUninitialised
<1>8. CASE Ended \/ UNCHANGED vars BY <1>8 DEF Ended, vars
<1>9. CASE \/ Start \/ Open \/ ReadChunk \/ ReadError \/ Decode \/ AddContent \/ PrintResult
  BY <1>9, <1>1, <1>3, <1>4, <1>5
     DEF Start, Open, ReadChunk, ReadError, Decode, AddContent, PrintResult
<1>10. CASE \/ BeginTokens \/ CountToken \/ SliceLine \/ ReplaceToken \/ PrintReplacement
  BY <1>10, <1>2, <1>3, <1>4, <1>6, <1>7
     DEF BeginTokens, CountToken, SliceLine, ReplaceToken, PrintReplacement
<1>11. CASE \/ ReadLine \/ PrintCount \/ FinishTokens
  BY <1>11, <1>1, <1>2, <1>3, <1>4, <1>5 DEF ReadLine, PrintCount, FinishTokens
<1>12. CASE BeginSort \/ Quicksort \/ EndSort \/ CallLibrary \/ PrintLines \/ Unwind
  BY <1>12, <1>1, <1>2, <1>3, <1>4
     DEF BeginSort, Quicksort, EndSort, CallLibrary, PrintLines, Unwind
<1> QED BY <1>8, <1>9, <1>10, <1>11, <1>12 DEF Next

\* At first nothing has been read.
LEMMA TextEndsInit ==
  ASSUME Init
  PROVE  EndsOk
<1>1. step = "start" /\ path = 1 /\ errors = 0 BY DEF Init
<1>2. step \notin {"use", "sort", "print"} \union Over \union Uses BY <1>1 DEF Over, Uses
<1>3. EndsReads
  <2>1. \A i \in 1..path - 1 : FALSE BY <1>1
  <2> QED BY <2>1, <1>1 DEF EndsReads
<1> QED BY <1>1, <1>2, <1>3 DEF EndsOk, EndsUses

\* Every step keeps it.
LEMMA TextEndsNext ==
  ASSUME Inv, EndsOk, [Next]_vars
  PROVE  EndsOk'
<1>1. fault' = fault BY TextSameFault
<1>2. CASE fault # {} BY <1>1, <1>2 DEF EndsOk
<1>3. CASE fault = {}
  <2>1. CASE Ended \/ UNCHANGED vars BY <2>1, <1>3, TextEndsStutters DEF Ended
  <2>2. CASE \/ Start \/ Open \/ ReadChunk \/ Decode \/ AddContent \/ PrintResult
    BY <2>2, <1>3, TextEndsStart, TextEndsOpen, TextEndsChunk, TextEndsDecode, TextEndsAdd,
       TextEndsResult
  <2>3. CASE ReadError BY <2>3, <1>3 DEF ReadError
  <2>4. CASE \/ BeginTokens \/ CountToken \/ SliceLine \/ ReplaceToken \/ PrintReplacement
             \/ ReadLine \/ PrintCount \/ FinishTokens
    BY <2>4, <1>3, TextEndsBegin, TextEndsCount, TextEndsSlice, TextEndsPiece,
       TextEndsReplacement, TextEndsLine, TextEndsNumber, TextEndsFinish
  <2>5. CASE BeginSort \/ Quicksort \/ EndSort \/ CallLibrary \/ PrintLines \/ Unwind
    BY <2>5, <1>3, TextEndsBeginSort, TextEndsSort, TextEndsLibrary, TextEndsLines, TextEndsUnwind
  <2> QED BY <2>1, <2>2, <2>3, <2>4, <2>5 DEF Next
<1> QED BY <1>2, <1>3

\* A command in which nothing fails ends well exactly if it was given what it needs:
\* the UTF-8 of scalar values where it reads and where it prints, and something of it;
\* for every job, every buffer size, every threshold of the quicksort and every depth
\* of the error stack.
THEOREM TextEndsAsDeserved == Spec => []EndsAsDeserved
<1>1. EndsOk => EndsAsDeserved
  <2>1. step = "ended" => step \in Over BY DEF Over
  <2> QED BY <2>1 DEF EndsOk, EndsAsDeserved
<1>2. Spec => []Inv BY TextInv
<1>3. Init => EndsOk BY TextEndsInit
<1>4. Inv /\ EndsOk /\ [Next]_vars => EndsOk' BY TextEndsNext
<1> QED BY <1>1, <1>2, <1>3, <1>4, PTL DEF Spec
=============================================================================
