------------------------------ MODULE Rcv1Proofs ------------------------------
(***************************************************************************)
(* Proofs about Rcv1, for any documents, text files, length of a batch and *)
(* number of conversions.                                                  *)
(*                                                                         *)
(* What a conversion leaves on the disk is a beginning of what it would    *)
(* have written in the end, and every size in the metadata is the size of  *)
(* all of it.  A later conversion and svm start from no more than that.    *)
(***************************************************************************)
EXTENDS Rcv1, FiniteSetTheorems, TLAPS

-----------------------------------------------------------------------------
(* What takes the place of induction: facts that are stated over sets, and *)
(* need no operator parameter.                                             *)

\* The order of the natural numbers as a relation.
LessThan == {ss \in Nat \X Nat : ss[1] < ss[2]}

\* There is no endless descent in the natural numbers.
LEMMA LessThanWellFounded == IsWellFoundedOn(LessThan, Nat)
BY NatLessThanWellFounded DEF OpToRel, LessThan

\* A set of natural numbers that is not empty has a least element.
LEMMA LeastNumber ==
  ASSUME NEW S \in SUBSET Nat, S # {}
  PROVE  \E n \in S : \A m \in S : n <= m
<1>1. PICK n \in S : \A m \in S : ~(<<m, n>> \in LessThan)
  BY LessThanWellFounded, WFMin, Zenon
<1>2. \A m \in S : ~(m < n) BY <1>1 DEF LessThan
<1> QED BY <1>2

\* Induction over the natural numbers up to a bound: a set that has 0, and with
\* each number below the bound the next one, has all of them.
LEMMA CountUp ==
  ASSUME NEW n \in Nat, NEW S, 0 \in S, \A m \in 0 .. n - 1 : m \in S => m + 1 \in S
  PROVE  0 .. n \subseteq S
<1> SUFFICES ASSUME ~(0 .. n \subseteq S) PROVE FALSE OBVIOUS
<1> DEFINE B == {m \in 0 .. n : m \notin S}
<1>1. B \in SUBSET Nat /\ B # {} OBVIOUS
<1>2. PICK k \in B : \A m \in B : k <= m BY <1>1, LeastNumber
<1>3. k # 0 /\ k \in 0 .. n BY <1>2
<1>4. k - 1 \in 0 .. n - 1 /\ k - 1 \notin B BY <1>2, <1>3
<1>5. (k - 1) + 1 \in S BY <1>4
<1> QED BY <1>2, <1>3, <1>5

-----------------------------------------------------------------------------

Pair == [row : Nat, doc : Doc]

\* The pairs of the first r lines of a set end at place Ends(s)[r] of its file.
EndsOf(lines, pairs) ==
  LET end[r \in 0 .. Len(lines)] == IF r = 0 THEN 0 ELSE end[r - 1] + pairs[lines[r]]
  IN  end

Ends(s) == EndsOf(input.lines[s], input.pairs)
LinesOf(s) == Len(input.lines[s])
AllPairs(s) == Ends(s)[LinesOf(s)]

\* The step of the script that writes the metadata of a file.
MetaAt(f) ==
  IF f[2] = "samples" THEN IF f[1] = "train" THEN 4 ELSE 5
                      ELSE IF f[1] = "train" THEN 11 ELSE 12

Uncertain == Nat \cup {NoMeta}

TypeInv ==
  /\ input \in Input
  /\ data \in [File -> Seq(Pair) \cup Seq(Doc)]
  /\ \A s \in Set : data[Samples(s)] \in Seq(Pair) /\ data[Classes(s)] \in Seq(Doc)
  /\ meta \in [File -> Uncertain]
  /\ opened \subseteq File
  /\ pc \in 0 .. 15
  /\ next \in Nat \ {0}
  /\ rows \in [Set -> Nat]
  /\ inTrain \subseteq Doc
  /\ runs \in Nat
  /\ result \in {"none", "ok", "failed"} /\ lost \in BOOLEAN

\* Metadata of the last conversion agrees with the data, unless some was lost.
DiskInv ==
  /\ svm # "idle" => pc = 0
  /\ ~lost => \A f \in File :
       pc > MetaAt(f) \/ (pc = 0 /\ result = "ok") => meta[f] = Len(data[f])

FailInv == svm = "failed" => result # "ok" \/ lost

\* A beginning of the file of samples with these lines.
IsPart(lines, pairs, file) ==
  LET end == EndsOf(lines, pairs)
  IN  /\ Len(file) <= end[Len(lines)]
      /\ \A r \in 0 .. Len(lines) - 1 : \A p \in end[r] + 1 .. end[r + 1] :
           p <= Len(file) => file[p] = [row |-> r, doc |-> lines[r + 1]]

SamplesInv ==
  \A s \in Set :
    /\ IsPart(input.lines[s], input.pairs, data[Samples(s)])
    /\ meta[Samples(s)] \in {NoMeta, AllPairs(s)}

TrainDocs(n) == {input.lines["train"][i] : i \in 1 .. n}

\* How far the conversion has come with the lines.
LinesInv ==
  /\ pc \in 0 .. 2 => next = 1 /\ inTrain = {} /\ \A s \in Set : rows[s] = 0
  /\ pc = 2 => data[Samples("train")] = <<>>
  /\ pc = 3 =>
       /\ next - 1 = rows["test"] + rows["train"]
       /\ rows["test"] <= LinesOf("test") /\ rows["train"] <= LinesOf("train")
       /\ rows["train"] > 0 => rows["test"] = LinesOf("test")
       /\ inTrain = TrainDocs(rows["train"])
       /\ \A s \in Set : Len(data[Samples(s)]) = Ends(s)[rows[s]]
  /\ pc \in 4 .. 5 => \A s \in Set : Len(data[Samples(s)]) = AllPairs(s)
  /\ pc \in 4 .. 10 => inTrain = TrainDocs(LinesOf("train"))

Below(d) == {e \in Doc : e < d}
Rank(d) == Cardinality(Below(d)) + 1

\* A beginning of the classes, in the order of the lines, if that is the order
\* of the documents.
StartsWith(lines, file) ==
  Len(file) <= Len(lines) /\ \A i \in 1 .. Len(file) : file[i] = lines[i]

ClassesInv ==
  InOrder => \A s \in Set :
    /\ StartsWith(input.lines[s], data[Classes(s)])
    /\ meta[Classes(s)] \in {NoMeta, LinesOf(s)}
    /\ pc = 9 => data[Classes("train")] = <<>>
    /\ pc = 10 => \A i \in 1 .. LinesOf(s) :
         i <= Len(data[Classes(s)]) <=> Rank(input.lines[s][i]) < next
    /\ pc \in 11 .. 12 => Len(data[Classes(s)]) = LinesOf(s)

UsedRow == [row : Nat, docs : SUBSET Doc, pairs : Nat, label : Doc \cup {NoClass}]

SvmTypeInv ==
  /\ svm \in {"idle", "meta", "classes", "ok", "failed"} \cup Passes
  /\ trainSet \in Set
  /\ labels \in [Set -> Seq(Doc)]
  /\ batch \in Nat /\ nRead \in Nat
  /\ used \in [Set -> Seq(SUBSET UsedRow)]
  /\ svm \in {"classes"} \cup Passes => meta \in [File -> Nat]

\* The batches of a set hold what they should, and all of them have been read.
BatchesInv ==
  \A s \in Set : \A k \in 1 .. Len(used[s]) :
    {[row |-> u.row, docs |-> u.docs, pairs |-> u.pairs] : u \in used[s][k]} = Expected(s, k)
Complete(s) == \A r \in Rows(s) : BatchOf(r) <= Len(used[s])

RowsBefore(s, b) == IF b * ReadLen <= LinesOf(s) THEN b * ReadLen ELSE LinesOf(s)

PassInv ==
  /\ svm \in {"idle", "meta", "classes"} => batch = 0 /\ nRead = 0
  /\ svm \in {"idle", "meta", "classes", "minmax"} => \A s \in Set : used[s] = <<>>
  /\ svm \in Passes =>
       nRead = Ends(PassSet)[RowsBefore(PassSet, batch)] /\ nRead <= Len(Pairs)
  /\ svm = "fit" => Len(used[trainSet]) = batch /\ used[Other(trainSet)] = <<>>
  /\ svm = "test" => Complete(trainSet) /\ Len(used[Other(trainSet)]) = batch
  /\ svm = "ok" => \A s \in Set : Complete(s)

LabelsInv ==
  InOrder =>
    /\ svm \in Passes => \A s \in Set :
         Len(labels[s]) = LinesOf(s) /\ \A i \in 1 .. LinesOf(s) : labels[s][i] = input.lines[s][i]
    /\ \A s \in Set : \A k \in 1 .. Len(used[s]) : \A u \in used[s][k] : u.docs = {u.label}

------------------------------------------------------------------------------
(* The script, sequences and the ends of rows *)

\* What the conversion does in its steps, and with which files.
LEMMA ScriptSteps ==
  ASSUME pc \in 0 .. 15
  PROVE  /\ Len(Script) = 14
         /\ Running <=> pc \in 1 .. 14
         /\ At("open") <=> pc \in {1, 2, 8, 9}
         /\ At("lines") <=> pc = 3
         /\ At("meta") <=> pc \in {4, 5, 11, 12}
         /\ At("close") <=> pc \in {6, 7, 13, 14}
         /\ At("docs") <=> pc = 10
         /\ pc \in {1, 4, 6} => Now = Samples("train")
         /\ pc \in {2, 5, 7} => Now = Samples("test")
         /\ pc \in {8, 11, 13} => Now = Classes("train")
         /\ pc \in {9, 12, 14} => Now = Classes("test")
BY DEF Script, Running, At, Now, Step

\* The first n elements of a sequence.
LEMMA Beginning ==
  ASSUME NEW S, NEW q \in Seq(S), NEW n \in 0 .. Len(q)
  PROVE  /\ SubSeq(q, 1, n) \in Seq(S)
         /\ Len(SubSeq(q, 1, n)) = n
         /\ \A i \in 1 .. n : SubSeq(q, 1, n)[i] = q[i]
OBVIOUS

Accumulates(g, lines, pairs, n) ==
  g = [r \in 0 .. n |-> IF r = 0 THEN 0 ELSE g[r - 1] + pairs[lines[r]]]

\* The first row begins at the start of the file and each next one where the
\* one before it ends.
LEMMA EndsAddUp ==
  ASSUME NEW lines \in Seq(Doc), NEW pairs \in [Doc -> Nat]
  PROVE  /\ EndsOf(lines, pairs) \in [0 .. Len(lines) -> Nat]
         /\ EndsOf(lines, pairs)[0] = 0
         /\ \A r \in 1 .. Len(lines) :
              EndsOf(lines, pairs)[r] = EndsOf(lines, pairs)[r - 1] + pairs[lines[r]]
<1> DEFINE S == {n \in 0 .. Len(lines) : \E g : Accumulates(g, lines, pairs, n)}
<1>1. 0 \in S
  <2>1. Accumulates([r \in 0 .. 0 |-> 0], lines, pairs, 0) BY DEF Accumulates
  <2> QED BY <2>1
<1>2. ASSUME NEW n \in 0 .. Len(lines) - 1, n \in S PROVE n + 1 \in S
  <2>1. PICK g : Accumulates(g, lines, pairs, n) BY <1>2
  <2> DEFINE last == g[n] + pairs[lines[n + 1]]
             f == [r \in 0 .. n + 1 |-> IF r <= n THEN g[r] ELSE last]
  <2>2. ASSUME NEW r \in 0 .. n + 1
        PROVE  f[r] = IF r = 0 THEN 0 ELSE f[r - 1] + pairs[lines[r]]
    <3>1. r # 0 => r - 1 \in 0 .. n + 1 /\ r - 1 <= n OBVIOUS
    <3>2. r # 0 => f[r - 1] = g[r - 1] BY <3>1
    <3>3. CASE r <= n
      <4>1. r \in 0 .. n BY <3>3
      <4>2. g[r] = IF r = 0 THEN 0 ELSE g[r - 1] + pairs[lines[r]] BY <2>1, <4>1 DEF Accumulates
      <4> QED BY <3>2, <3>3, <4>2
    <3>4. CASE r = n + 1 BY <3>2, <3>4
    <3> QED BY <3>3, <3>4
  <2>3. Accumulates(f, lines, pairs, n + 1)
    <3>1. f = [r \in 0 .. n + 1 |-> f[r]] OBVIOUS
    <3> HIDE DEF f
    <3>2. [r \in 0 .. n + 1 |-> f[r]] =
          [r \in 0 .. n + 1 |-> IF r = 0 THEN 0 ELSE f[r - 1] + pairs[lines[r]]]
      BY <2>2
    <3> QED BY <3>1, <3>2 DEF Accumulates
  <2>4. n + 1 \in 0 .. Len(lines) OBVIOUS
  <2> QED BY <2>3, <2>4
<1>3. Len(lines) \in S
  <2>1. Len(lines) \in Nat OBVIOUS
  <2>2. 0 .. Len(lines) \subseteq S
    <3> HIDE DEF S
    <3> QED BY <1>1, <1>2, <2>1, CountUp
  <2> QED BY <2>1, <2>2
<1>4. \E g : Accumulates(g, lines, pairs, Len(lines)) BY <1>3
<1>5. EndsOf(lines, pairs) = CHOOSE g : Accumulates(g, lines, pairs, Len(lines))
  BY DEF EndsOf, Accumulates
<1>6. Accumulates(EndsOf(lines, pairs), lines, pairs, Len(lines)) BY <1>4, <1>5
<1> DEFINE end == EndsOf(lines, pairs)
<1>7. end = [r \in 0 .. Len(lines) |-> end[r]] BY <1>6 DEF Accumulates
<1>8. \A r \in 0 .. Len(lines) : end[r] = IF r = 0 THEN 0 ELSE end[r - 1] + pairs[lines[r]]
  BY <1>6 DEF Accumulates
<1> HIDE DEF end
<1>9. end[0] = 0 /\ \A r \in 1 .. Len(lines) : end[r] = end[r - 1] + pairs[lines[r]] BY <1>8
<1>10. \A r \in 0 .. Len(lines) : end[r] \in Nat
  <2> DEFINE T == {r \in 0 .. Len(lines) : end[r] \in Nat}
  <2>1. 0 \in T BY <1>9
  <2>2. ASSUME NEW r \in 0 .. Len(lines) - 1, r \in T PROVE r + 1 \in T
    <3>1. r + 1 \in 1 .. Len(lines) /\ (r + 1) - 1 = r OBVIOUS
    <3>2. pairs[lines[r + 1]] \in Nat BY <3>1
    <3> QED BY <2>2, <3>1, <3>2, <1>9
  <2>3. 0 .. Len(lines) \subseteq T
    <3>1. Len(lines) \in Nat OBVIOUS
    <3> HIDE DEF T
    <3> QED BY <2>1, <2>2, <3>1, CountUp
  <2> QED BY <2>3
<1> QED BY <1>7, <1>9, <1>10 DEF end

\* What later proofs know of the text files and of the ends of the rows.
Regular(s) ==
  /\ input.lines[s] \in Seq(Doc) /\ LinesOf(s) \in Nat
  /\ \A r \in 0 .. LinesOf(s) : Ends(s)[r] \in Nat
  /\ Ends(s)[0] = 0
  /\ \A r \in 0 .. LinesOf(s) - 1 :
       /\ input.lines[s][r + 1] \in Doc
       /\ input.pairs[input.lines[s][r + 1]] \in Nat
       /\ Ends(s)[r + 1] = Ends(s)[r] + input.pairs[input.lines[s][r + 1]]

\* What a regular input is to the proofs: lines that are documents, and ends that add up.
LEMMA InputRegular ==
  ASSUME input \in Input, NEW s \in Set
  PROVE  Regular(s)
<1>1. input.lines[s] \in Seq(Doc) /\ input.pairs \in [Doc -> Nat] BY Rcv1Assumption
<1>2. PICK e : e = Ends(s) OBVIOUS
<1>3. e \in [0 .. LinesOf(s) -> Nat] /\ e[0] = 0
      /\ \A r \in 1 .. LinesOf(s) : e[r] = e[r - 1] + input.pairs[input.lines[s][r]]
  BY <1>1, <1>2, EndsAddUp DEF Ends, LinesOf
<1>4. LinesOf(s) \in Nat BY <1>1 DEF LinesOf
<1>5. ASSUME NEW r \in 0 .. LinesOf(s) - 1
      PROVE  /\ input.lines[s][r + 1] \in Doc
             /\ input.pairs[input.lines[s][r + 1]] \in Nat
             /\ e[r + 1] = e[r] + input.pairs[input.lines[s][r + 1]]
  <2>1. r + 1 \in 1 .. LinesOf(s) /\ (r + 1) - 1 = r BY <1>4
  <2>2. input.lines[s][r + 1] \in Doc BY <1>1, <2>1 DEF LinesOf
  <2> QED BY <1>1, <1>3, <2>1, <2>2
<1> QED BY <1>1, <1>2, <1>3, <1>4, <1>5 DEF Regular

\* No row ends before an earlier one.
LEMMA EndsGrow ==
  ASSUME NEW s, Regular(s)
  PROVE  \A r, q \in 0 .. LinesOf(s) : r <= q => Ends(s)[r] <= Ends(s)[q]
<1> DEFINE n == LinesOf(s)
           S == {q \in 0 .. n : \A r \in 0 .. n : r <= q => Ends(s)[r] <= Ends(s)[q]}
<1>1. n \in Nat /\ \A r \in 0 .. n : Ends(s)[r] \in Nat BY DEF Regular
<1>2. 0 \in S BY <1>1
<1>3. ASSUME NEW q \in 0 .. n - 1, q \in S PROVE q + 1 \in S
  <2>1. q + 1 \in 0 .. n /\ q \in 0 .. n BY <1>1
  <2>2. Ends(s)[q] <= Ends(s)[q + 1]
    <3>1. PICK x \in Nat : Ends(s)[q + 1] = Ends(s)[q] + x BY <1>3 DEF Regular
    <3> QED BY <1>1, <2>1, <3>1
  <2>3. ASSUME NEW r \in 0 .. n, r <= q + 1 PROVE Ends(s)[r] <= Ends(s)[q + 1]
    <3>1. CASE r <= q
      <4>1. Ends(s)[r] <= Ends(s)[q] BY <1>3, <3>1
      <4> QED BY <4>1, <2>2, <1>1, <2>1
    <3>2. CASE r = q + 1 BY <3>2, <1>1
    <3> QED BY <3>1, <3>2, <2>3, <1>1
  <2> QED BY <2>1, <2>3
<1>4. 0 .. n \subseteq S
  <2> HIDE DEF S, n
  <2> QED BY <1>1, <1>2, <1>3, CountUp
<1> QED BY <1>4

\* Every pair of the file is one of a row.
LEMMA PairHasRow ==
  ASSUME NEW s, Regular(s), NEW p \in 1 .. AllPairs(s)
  PROVE  \E r \in 0 .. LinesOf(s) - 1 : p \in Ends(s)[r] + 1 .. Ends(s)[r + 1]
<1> DEFINE S == {q \in 0 .. LinesOf(s) : p <= Ends(s)[q]}
<1>1. LinesOf(s) \in Nat /\ (\A r \in 0 .. LinesOf(s) : Ends(s)[r] \in Nat) /\ Ends(s)[0] = 0
  BY DEF Regular
<1>2. p \in Nat /\ p > 0 /\ p <= Ends(s)[LinesOf(s)] BY <1>1 DEF AllPairs
<1>3. S \in SUBSET Nat /\ S # {} BY <1>1, <1>2
<1>4. PICK q \in S : \A m \in S : q <= m
  <2> HIDE DEF S
  <2> QED BY <1>3, LeastNumber
<1>5. q # 0 BY <1>1, <1>2, <1>4
<1>6. q - 1 \in 0 .. LinesOf(s) - 1 /\ (q - 1) + 1 = q BY <1>1, <1>5
<1>7. q - 1 \notin S BY <1>4, <1>6
<1>8. Ends(s)[q - 1] < p BY <1>7, <1>6, <1>1, <1>2
<1> QED BY <1>4, <1>6, <1>8, <1>1, <1>2

------------------------------------------------------------------------------
(* Files, lines and documents *)

\* The four files.
LEMMA Files ==
  /\ \A s \in Set : Samples(s) \in File /\ Classes(s) \in File
  /\ \A s, t \in Set : Samples(s) # Classes(t)
  /\ \A s, t \in Set : (Samples(s) = Samples(t) \/ Classes(s) = Classes(t)) => s = t
  /\ \A f \in File : \E s \in Set : f = Samples(s) \/ f = Classes(s)
BY DEF File, Set, Samples, Classes

\* The lines of the test set come first.
LEMMA LineOfSet ==
  ASSUME input \in Input
  PROVE  /\ Len(Lines) = LinesOf("test") + LinesOf("train")
         /\ \A n \in 1 .. Len(Lines) :
              /\ n <= LinesOf("test") => SetAt(n) = "test" /\ Lines[n] = input.lines["test"][n]
              /\ n > LinesOf("test") =>
                   /\ SetAt(n) = "train"
                   /\ n - LinesOf("test") \in 1 .. LinesOf("train")
                   /\ Lines[n] = input.lines["train"][n - LinesOf("test")]
<1>1. input.lines["test"] \in Seq(Doc) /\ input.lines["train"] \in Seq(Doc)
  BY Rcv1Assumption DEF Set
<1>2. PICK a \in Seq(Doc), b \in Seq(Doc) : a = input.lines["test"] /\ b = input.lines["train"]
  BY <1>1
<1>3. Len(a \o b) = Len(a) + Len(b)
      /\ \A n \in 1 .. Len(a) + Len(b) :
           (a \o b)[n] = IF n <= Len(a) THEN a[n] ELSE b[n - Len(a)]
  OBVIOUS
<1>4. Len(a) \in Nat /\ Len(b) \in Nat OBVIOUS
<1>5. Lines = a \o b /\ Len(Lines) = Len(a) + Len(b) BY <1>2, <1>3 DEF Lines
<1>6. LinesOf("test") = Len(a) /\ LinesOf("train") = Len(b) BY <1>2 DEF LinesOf
<1> SUFFICES ASSUME NEW n \in 1 .. Len(Lines)
             PROVE  /\ n <= Len(a) => SetAt(n) = "test" /\ Lines[n] = a[n]
                    /\ n > Len(a) => /\ SetAt(n) = "train"
                                     /\ n - Len(a) \in 1 .. Len(b)
                                     /\ Lines[n] = b[n - Len(a)]
  BY <1>2, <1>5, <1>6
<1>7. n \in 1 .. Len(a) + Len(b) BY <1>5
<1>8. Lines[n] = IF n <= Len(a) THEN a[n] ELSE b[n - Len(a)] BY <1>3, <1>5, <1>7
<1>9. SetAt(n) = IF n <= Len(a) THEN "test" ELSE "train" BY <1>2 DEF SetAt
<1> QED BY <1>4, <1>7, <1>8, <1>9

\* Every line is of a document.
LEMMA LineHasDoc ==
  ASSUME input \in Input, NEW n \in 1 .. Len(Lines)
  PROVE  SetAt(n) \in Set /\ Lines[n] \in Doc
<1>1. Regular("test") /\ Regular("train") BY InputRegular DEF Set
<1>2. SetAt(n) \in Set BY DEF SetAt, Set
<1>3. CASE n <= LinesOf("test")
  <2>1. n - 1 \in 0 .. LinesOf("test") - 1 /\ (n - 1) + 1 = n BY <1>1, <1>3, LineOfSet DEF Regular
  <2>2. input.lines["test"][n] \in Doc BY <1>1, <2>1 DEF Regular
  <2> QED BY <1>2, <1>3, <2>2, LineOfSet
<1>4. CASE n > LinesOf("test")
  <2>1. PICK m : m = n - LinesOf("test") OBVIOUS
  <2>2. m \in 1 .. LinesOf("train") /\ Lines[n] = input.lines["train"][m]
    BY <1>4, <2>1, LineOfSet
  <2>3. m - 1 \in 0 .. LinesOf("train") - 1 /\ (m - 1) + 1 = m BY <1>1, <2>2 DEF Regular
  <2>4. input.lines["train"][m] \in Doc BY <1>1, <2>3 DEF Regular
  <2> QED BY <1>2, <2>2, <2>4
<1>5. LinesOf("test") \in Nat /\ n \in Int BY <1>1, LineOfSet DEF Regular
<1> QED BY <1>3, <1>4, <1>5

\* The documents are ranked by their IDs, and DocAt finds the one of each rank.
LEMMA Ranks ==
  /\ Cardinality(Doc) \in Nat
  /\ \A d \in Doc : Rank(d) \in 1 .. Cardinality(Doc)
  /\ \A d, e \in Doc : d < e => Rank(d) < Rank(e)
  /\ \A d, e \in Doc : Rank(d) = Rank(e) => d = e
  /\ \A n \in 1 .. Cardinality(Doc) : DocAt(n) \in Doc /\ Rank(DocAt(n)) = n
<1>1. Doc \subseteq Nat /\ IsFiniteSet(Doc) BY Rcv1Assumption
<1>2. PICK N \in Nat : N = Cardinality(Doc) BY <1>1, FS_CardinalityType
<1>3. \A d \in Doc : IsFiniteSet(Below(d)) /\ Cardinality(Below(d)) \in Nat
                     /\ Cardinality(Below(d)) < N
  <2> SUFFICES ASSUME NEW d \in Doc
               PROVE  IsFiniteSet(Below(d)) /\ Cardinality(Below(d)) \in Nat
                      /\ Cardinality(Below(d)) < N
    OBVIOUS
  <2>1. Below(d) \in SUBSET Doc /\ d \notin Below(d) BY <1>1 DEF Below
  <2>2. IsFiniteSet(Below(d)) /\ Cardinality(Below(d)) <= N /\ Cardinality(Below(d)) # N
    BY <1>1, <1>2, <2>1, FS_Subset
  <2>3. Cardinality(Below(d)) \in Nat BY <2>2, FS_CardinalityType
  <2> QED BY <2>2, <2>3
<1>4. ASSUME NEW d \in Doc, NEW e \in Doc, d < e PROVE Cardinality(Below(d)) < Cardinality(Below(e))
  <2>1. ASSUME NEW x \in Below(d) PROVE x \in Below(e)
    <3>1. x \in Doc /\ x \in Nat /\ x < d /\ d \in Nat /\ e \in Nat BY <1>1 DEF Below
    <3>2. x < e BY <3>1, <1>4
    <3> QED BY <3>1, <3>2 DEF Below
  <2>2. d \in Below(e) /\ d \notin Below(d) BY <1>1, <1>4 DEF Below
  <2>3. Cardinality(Below(d)) <= Cardinality(Below(e)) /\ Cardinality(Below(d)) # Cardinality(Below(e))
    BY <1>3, <2>1, <2>2, FS_Subset
  <2> QED BY <1>3, <2>3
<1>5. \A d \in Doc : Rank(d) \in 1 .. N BY <1>3 DEF Rank
<1>6. \A d, e \in Doc : d < e => Rank(d) < Rank(e) BY <1>3, <1>4 DEF Rank
<1>7. \A d, e \in Doc : Rank(d) = Rank(e) => d = e BY <1>1, <1>5, <1>6
<1>8. \A n \in 1 .. N : \E d \in Doc : Rank(d) = n
  <2> DEFINE f == [d \in Doc |-> Rank(d)]
  <2>1. f \in Injection(Doc, 1 .. N) BY <1>5, <1>7 DEF Injection, IsInjective
  <2>2. IsFiniteSet(1 .. N) /\ Cardinality(1 .. N) = N BY FS_Interval
  <2>3. f \in Surjection(Doc, 1 .. N) BY <1>1, <1>2, <2>1, <2>2, FS_Injection
  <2> QED BY <2>3 DEF Surjection
<1>9. ASSUME NEW n \in 1 .. N PROVE DocAt(n) \in Doc /\ Rank(DocAt(n)) = n
  <2>1. PICK d \in Doc : Rank(d) = n BY <1>8
  <2>2. Cardinality(Below(d)) = n - 1 BY <1>3, <2>1 DEF Rank
  <2>3. DocAt(n) \in Doc /\ Cardinality(Below(DocAt(n))) = n - 1 BY <2>2 DEF DocAt, Below
  <2>4. n \in Int BY <1>2
  <2> QED BY <2>3, <2>4 DEF Rank
<1> QED BY <1>2, <1>5, <1>6, <1>7, <1>9

------------------------------------------------------------------------------
(* Types *)

\* What svm does leaves the disk and the conversion alone.
SvmStep == StartSvm \/ ReadMeta \/ ReadClasses \/ ReadBatch \/ EndPass

\* svm writes no file, and touches no variable of the conversion.
LEMMA SvmOnlyReads == SvmStep => UNCHANGED <<input, disk, conversion>>
BY DEF SvmStep, StartSvm, ReadMeta, ReadClasses, ReadBatch, EndPass

\* What the conversion does leaves svm alone.
ConversionStep ==
  \/ Start \/ OpenData \/ WriteSample \/ WriteClass \/ EndLoop
  \/ WriteMeta \/ CloseData \/ Finish \/ Stop

\* A step of the conversion leaves svm alone.
LEMMA ConversionOnlyWrites == ConversionStep => UNCHANGED <<input, reading>>
BY DEF ConversionStep, Start, OpenData, WriteSample, WriteClass, EndLoop, WriteMeta, CloseData,
       Finish, Stop

\* Every step is one of the conversion or one of svm.
LEMMA NextIsEither == Next <=> ConversionStep \/ SvmStep
BY DEF Next, ConversionStep, SvmStep

\* The row that a line makes.
LEMMA RowType ==
  ASSUME NEW n \in Nat, NEW r \in Nat, NEW d \in Doc
  PROVE  LET row == [i \in 1 .. n |-> [row |-> r, doc |-> d]]
         IN  /\ row \in Seq(Pair)
             /\ Len(row) = n
             /\ \A i \in 1 .. Len(row) : row[i] = [row |-> r, doc |-> d]
BY DEF Pair

\* The conversion keeps its variables and the disk in their types.
LEMMA TypeStep == TypeInv /\ [Next]_vars => TypeInv'
<1> SUFFICES ASSUME TypeInv, [Next]_vars PROVE TypeInv'
  OBVIOUS
<1> USE DEF disk, conversion, reading, vars
<1>1. /\ data \in [File -> Seq(Pair) \cup Seq(Doc)]
      /\ meta \in [File -> Uncertain] /\ opened \subseteq File
      /\ pc \in 0 .. 15 /\ next \in Nat \ {0}
  BY DEF TypeInv
<1>2. CASE Start
  <2>1. /\ UNCHANGED <<input, data, meta, opened, next, inTrain, rows>>
        /\ runs' = runs + 1 /\ pc' = 1 /\ result' = "none" /\ lost' = FALSE
    BY <1>2 DEF Start
  <2>2. runs' \in Nat /\ pc' \in 0 .. 15 BY <2>1 DEF TypeInv
  <2>3. lost' \in BOOLEAN /\ result' \in {"none", "ok", "failed"} BY <2>1
  <2>4. UNCHANGED <<input, data, meta, opened, next, inTrain, rows>> BY <2>1
  <2> QED BY <2>2, <2>3, <2>4 DEF TypeInv
<1>3. CASE OpenData
  <2>1. Now \in File /\ pc + 1 \in 0 .. 15 BY <1>1, <1>3, ScriptSteps, Files DEF OpenData, Set
  <2>2. <<>> \in Seq(Pair) /\ <<>> \in Seq(Doc) OBVIOUS
  <2>3. \A f \in File : data'[f] = data[f] \/ data'[f] = <<>> BY <1>1, <1>3, <2>1 DEF OpenData, Opened
  <2>4. data' \in [File -> Seq(Pair) \cup Seq(Doc)] BY <1>1, <1>3, <2>1, <2>2 DEF OpenData, Opened
  <2> QED BY <1>3, <2>1, <2>2, <2>3, <2>4, Files DEF TypeInv, OpenData, Continue
<1>4. CASE WriteSample
  <2>1. next \in 1 .. Len(Lines) /\ Len(Lines) \in Nat
    <3>1. Regular("test") /\ Regular("train") BY InputRegular DEF TypeInv, Set
    <3>2. Len(Lines) \in Nat BY <3>1, LineOfSet DEF TypeInv, Regular
    <3> QED BY <1>4, <3>2 DEF TypeInv, WriteSample
  <2>2. PICK s \in Set, d \in Doc : s = SetAt(next) /\ d = Lines[next]
    BY <2>1, LineHasDoc DEF TypeInv
  <2>3. input.pairs[d] \in Nat /\ rows[s] \in Nat BY Rcv1Assumption DEF TypeInv
  <2> DEFINE row == [i \in 1 .. input.pairs[d] |-> [row |-> rows[s], doc |-> d]]
  <2>4. row \in Seq(Pair) BY <2>3, RowType
  <2>5. /\ inTrain' = IF s = "train" THEN inTrain \cup {d} ELSE inTrain \ {d}
        /\ data' = [data EXCEPT ![Samples(s)] = @ \o row]
        /\ rows' = [rows EXCEPT ![s] = @ + 1]
        /\ next' = next + 1
        /\ UNCHANGED <<input, meta, opened, pc, runs, result, lost>>
    BY <1>4, <2>2 DEF WriteSample
  <2> HIDE DEF row
  <2>6. data[Samples(s)] \o row \in Seq(Pair) BY <2>2, <2>4 DEF TypeInv
  <2>7. data' \in [File -> Seq(Pair) \cup Seq(Doc)] BY <1>1, <2>5, <2>6, Files
  <2>8. \A t \in Set : data'[Samples(t)] \in Seq(Pair) /\ data'[Classes(t)] \in Seq(Doc)
    BY <1>1, <2>5, <2>6, Files DEF TypeInv
  <2>9. rows' \in [Set -> Nat] BY <2>3, <2>5 DEF TypeInv
  <2>10. inTrain' \subseteq Doc BY <2>2, <2>5 DEF TypeInv
  <2>11. next' \in Nat \ {0} BY <1>1, <2>5
  <2> QED BY <2>5, <2>7, <2>8, <2>9, <2>10, <2>11 DEF TypeInv
<1>5. CASE WriteClass
  <2>1. next \in 1 .. Cardinality(Doc) BY <1>1, <1>5, Ranks DEF WriteClass
  <2>2. PICK d \in Doc : d = DocAt(next) BY <2>1, Ranks
  <2>3. PICK s \in Set : s = SetOf(d) BY DEF SetOf, Set
  <2>4. /\ data' = [data EXCEPT ![Classes(s)] = Append(@, d)]
        /\ next' = next + 1
        /\ UNCHANGED <<input, meta, opened, pc, rows, inTrain, runs, result, lost>>
    BY <1>5, <2>2, <2>3 DEF WriteClass
  <2>5. Append(data[Classes(s)], d) \in Seq(Doc) BY <2>2, <2>3 DEF TypeInv
  <2>6. data' \in [File -> Seq(Pair) \cup Seq(Doc)] BY <1>1, <2>4, <2>5, Files
  <2>7. \A t \in Set : data'[Samples(t)] \in Seq(Pair) /\ data'[Classes(t)] \in Seq(Doc)
    BY <1>1, <2>4, <2>5, Files DEF TypeInv
  <2> QED BY <1>1, <2>4, <2>6, <2>7 DEF TypeInv
<1>6. CASE EndLoop
  <2>1. pc + 1 \in 0 .. 15 BY <1>1, <1>6, ScriptSteps DEF EndLoop
  <2> QED BY <1>6, <2>1 DEF TypeInv, EndLoop, Continue
<1>7. CASE WriteMeta
  <2>1. Now \in File /\ pc + 1 \in 0 .. 15 BY <1>1, <1>7, ScriptSteps, Files DEF WriteMeta, Set
  <2>2. Size(Now) \in Nat
    <3>1. data[Now] \in Seq(Pair) \/ data[Now] \in Seq(Doc) BY <1>1, <2>1
    <3> QED BY <3>1 DEF Size
  <2>3. meta' \in [File -> Uncertain] /\ lost' \in BOOLEAN
    BY <1>1, <1>7, <2>1, <2>2 DEF WriteMeta, Uncertain, TypeInv
  <2> QED BY <1>7, <2>1, <2>3 DEF TypeInv, WriteMeta, Continue
<1>8. CASE CloseData
  <2>1. Now \in File /\ pc + 1 \in 0 .. 15 BY <1>1, <1>8, ScriptSteps, Files DEF CloseData, Set
  <2>2. PICK n \in 0 .. Len(data[Now]) :
          /\ data' = [data EXCEPT ![Now] = SubSeq(@, 1, n)]
          /\ lost' = (lost \/ n < Len(data[Now]))
    BY <1>8 DEF CloseData
  <2>3. ASSUME NEW S, data[Now] \in Seq(S) PROVE SubSeq(data[Now], 1, n) \in Seq(S)
    BY <2>2, <2>3, Beginning
  <2>4. data' \in [File -> Seq(Pair) \cup Seq(Doc)] BY <1>1, <2>1, <2>2, <2>3
  <2>5. \A t \in Set : data'[Samples(t)] \in Seq(Pair) /\ data'[Classes(t)] \in Seq(Doc)
    BY <1>1, <2>1, <2>2, <2>3, Files DEF TypeInv
  <2>6. lost' \in BOOLEAN BY <2>2 DEF TypeInv
  <2> QED BY <1>8, <2>1, <2>4, <2>5, <2>6 DEF TypeInv, CloseData, Continue
<1>9. CASE Finish BY <1>9 DEF TypeInv, Finish, Return
<1>10. CASE Stop
  <2>1. PICK n \in [opened -> UNION {0 .. Len(data[f]) : f \in opened}] :
          /\ \A f \in opened : n[f] <= Len(data[f])
          /\ data' = [f \in File |-> IF f \in opened THEN SubSeq(data[f], 1, n[f]) ELSE data[f]]
    BY <1>10 DEF Stop
  <2>2. ASSUME NEW S, NEW f \in File, data[f] \in Seq(S) PROVE data'[f] \in Seq(S)
    <3>1. CASE f \in opened
      <4>1. n[f] \in 0 .. Len(data[f])
        <5>1. PICK g \in opened : n[f] \in 0 .. Len(data[g]) BY <2>1, <3>1
        <5>2. Len(data[f]) \in Nat BY <2>2
        <5> QED BY <2>1, <3>1, <5>1, <5>2
      <4>2. SubSeq(data[f], 1, n[f]) \in Seq(S) BY <2>2, <4>1, Beginning
      <4> QED BY <2>1, <3>1, <4>2
    <3>2. CASE f \notin opened BY <2>1, <2>2, <3>2
    <3> QED BY <3>1, <3>2
  <2>3. data' \in [File -> Seq(Pair) \cup Seq(Doc)]
    <3>1. \A f \in File : data'[f] \in Seq(Pair) \cup Seq(Doc) BY <1>1, <2>2
    <3>2. data' = [f \in File |-> data'[f]] BY <2>1
    <3> QED BY <3>1, <3>2
  <2>4. \A t \in Set : data'[Samples(t)] \in Seq(Pair) /\ data'[Classes(t)] \in Seq(Doc)
    BY <2>2, Files DEF TypeInv
  <2>5. meta' \in [File -> Uncertain]
    <3>1. meta' = meta \/ meta' = [meta EXCEPT ![Now] = NoMeta] BY <1>10 DEF Stop
    <3>2. NoMeta \in Uncertain BY DEF Uncertain
    <3> QED BY <1>1, <3>1, <3>2
  <2>6. /\ pc' \in 0 .. 15 /\ next' \in Nat \ {0} /\ rows' \in [Set -> Nat]
        /\ inTrain' \subseteq Doc /\ opened' \subseteq File
        /\ result' \in {"none", "ok", "failed"}
    BY <1>10 DEF Stop, Return
  <2>7. UNCHANGED <<input, runs, lost>> BY <1>10 DEF Stop
  <2> QED BY <2>3, <2>4, <2>5, <2>6, <2>7 DEF TypeInv
<1>11. CASE SvmStep BY <1>11, SvmOnlyReads DEF TypeInv
<1>12. CASE UNCHANGED vars BY <1>12 DEF TypeInv
<1> QED BY <1>2, <1>3, <1>4, <1>5, <1>6, <1>7, <1>8, <1>9, <1>10, <1>11, <1>12, NextIsEither
        DEF ConversionStep

------------------------------------------------------------------------------
(* Metadata and data of a conversion that has succeeded *)

\* The metadata of a file is written in its step of the script.
LEMMA MetaSteps ==
  ASSUME pc \in 0 .. 15, NEW f \in File
  PROVE  /\ MetaAt(f) \in {4, 5, 11, 12}
         /\ pc = MetaAt(f) <=> At("meta") /\ f = Now
         /\ At("open") /\ f = Now => pc < MetaAt(f)
         /\ (\E s \in Set : f = Samples(s)) => MetaAt(f) \in {4, 5}
         /\ (\E s \in Set : f = Classes(s)) => MetaAt(f) \in {11, 12}
<1>1. f \in {<<"train", "samples">>, <<"test", "samples">>, <<"train", "classes">>, <<"test", "classes">>}
  BY DEF File, Set
<1>2. /\ MetaAt(<<"train", "samples">>) = 4 /\ MetaAt(<<"test", "samples">>) = 5
      /\ MetaAt(<<"train", "classes">>) = 11 /\ MetaAt(<<"test", "classes">>) = 12
  BY DEF MetaAt
<1>3. CASE At("meta")
  <2>1. \/ pc = 4 /\ Now = <<"train", "samples">>
        \/ pc = 5 /\ Now = <<"test", "samples">>
        \/ pc = 11 /\ Now = <<"train", "classes">>
        \/ pc = 12 /\ Now = <<"test", "classes">>
    BY <1>3, ScriptSteps DEF Samples, Classes
  <2>2. ~At("open") BY <1>3, ScriptSteps
  <2> QED BY <1>1, <1>2, <1>3, <2>1, <2>2 DEF Samples, Classes, Set
<1>4. CASE At("open")
  <2>1. \/ pc = 1 /\ Now = <<"train", "samples">>
        \/ pc = 2 /\ Now = <<"test", "samples">>
        \/ pc = 8 /\ Now = <<"train", "classes">>
        \/ pc = 9 /\ Now = <<"test", "classes">>
    BY <1>4, ScriptSteps DEF Samples, Classes
  <2>2. ~At("meta") BY <1>4, ScriptSteps
  <2> QED BY <1>1, <1>2, <1>4, <2>1, <2>2 DEF Samples, Classes, Set
<1>5. CASE ~At("meta") /\ ~At("open")
  <2>1. pc \notin {4, 5, 11, 12} BY <1>5, ScriptSteps
  <2> QED BY <1>1, <1>2, <1>5, <2>1 DEF Samples, Classes, Set
<1> QED BY <1>3, <1>4, <1>5

\* While a conversion runs svm does not.
LEMMA ConvertsAlone ==
  ASSUME TypeInv, DiskInv, ConversionStep
  PROVE  svm = "idle" /\ svm' = "idle" /\ UNCHANGED <<input, trainSet, labels, batch, nRead, used>>
<1>1. UNCHANGED <<input, svm, trainSet, labels, batch, nRead, used>>
  BY ConversionOnlyWrites DEF reading
<1>2. svm = "idle"
  <2>1. CASE Start BY <2>1 DEF Start
  <2>2. CASE ~Start
    <3>1. pc # 0
      BY <2>2, ScriptSteps DEF TypeInv, ConversionStep, OpenData, WriteSample, WriteClass, EndLoop,
         WriteMeta, CloseData, Finish, Stop
    <3> QED BY <3>1 DEF DiskInv
  <2> QED BY <2>1, <2>2
<1> QED BY <1>1, <1>2

\* Until data is lost the metadata that has been written agrees with the data.
LEMMA DiskStep == TypeInv /\ DiskInv /\ [Next]_vars => DiskInv'
<1> SUFFICES ASSUME TypeInv, DiskInv, [Next]_vars PROVE DiskInv'
  OBVIOUS
<1>1. pc \in 0 .. 15 /\ lost \in BOOLEAN BY DEF TypeInv
<1>2. data \in [File -> Seq(Pair) \cup Seq(Doc)] /\ meta \in [File -> Uncertain] BY DEF TypeInv
<1>3. \A f \in File : Len(data[f]) \in Nat /\ MetaAt(f) \in {4, 5, 11, 12}
  <2> SUFFICES ASSUME NEW f \in File PROVE Len(data[f]) \in Nat /\ MetaAt(f) \in {4, 5, 11, 12}
    OBVIOUS
  <2>1. data[f] \in Seq(Pair) \/ data[f] \in Seq(Doc) BY <1>2
  <2> QED BY <2>1, <1>1, MetaSteps
<1> DEFINE Agrees(f) == pc > MetaAt(f) \/ (pc = 0 /\ result = "ok") => meta[f] = Len(data[f])
<1>4. CASE ConversionStep
  <2>1. svm' = "idle" BY <1>4, ConvertsAlone
  <2> SUFFICES ASSUME ~lost', NEW f \in File
               PROVE  pc' > MetaAt(f) \/ (pc' = 0 /\ result' = "ok") => meta'[f] = Len(data'[f])
    BY <2>1, <1>2 DEF DiskInv, MetaAt
  <2>2. ~lost => Agrees(f) BY DEF DiskInv
  <2>3. CASE Start BY <2>3, <1>3 DEF Start
  <2>4. CASE OpenData
    <3>1. ~lost /\ pc' = pc + 1 /\ pc # 0 /\ meta' = meta
      BY <2>4, <1>1, ScriptSteps DEF OpenData, Continue
    <3>2. CASE f = Now
      <4>1. pc' <= MetaAt(f) /\ pc' # 0 BY <2>4, <3>1, <3>2, <1>1, <1>3, MetaSteps DEF OpenData
      <4> QED BY <4>1, <1>1, <1>3, <3>1
    <3>3. CASE f # Now
      <4>1. data'[f] = data[f] BY <2>4, <3>3, <1>2 DEF OpenData
      <4>2. pc # MetaAt(f) BY <2>4, <1>1, MetaSteps, ScriptSteps DEF OpenData
      <4> QED BY <2>2, <3>1, <4>1, <4>2, <1>1, <1>3
    <3> QED BY <3>2, <3>3
  <2>5. CASE WriteSample
    <3>1. ~lost /\ pc' = pc /\ pc = 3 BY <2>5, <1>1, ScriptSteps DEF WriteSample
    <3> QED BY <3>1, <1>3
  <2>6. CASE WriteClass
    <3>1. ~lost /\ pc' = pc /\ pc = 10 /\ meta' = meta BY <2>6, <1>1, ScriptSteps DEF WriteClass
    <3>2. PICK s \in Set : s = SetOf(DocAt(next)) BY DEF SetOf, Set
    <3>3. data' = [data EXCEPT ![Classes(s)] = Append(@, DocAt(next))] BY <2>6, <3>2 DEF WriteClass
    <3>4. f = Classes(s) => MetaAt(f) > 10 BY <1>1, MetaSteps
    <3>5. f # Classes(s) => data'[f] = data[f] BY <3>3, <1>2
    <3> QED BY <2>2, <3>1, <3>4, <3>5, <1>3
  <2>7. CASE EndLoop
    <3>1. ~lost /\ pc' = pc + 1 /\ pc \in {3, 10} /\ meta' = meta /\ data' = data
      BY <2>7, <1>1, ScriptSteps DEF EndLoop, Continue, disk
    <3> QED BY <2>2, <3>1, <1>1, <1>3
  <2>8. CASE WriteMeta
    <3>1. meta' = [meta EXCEPT ![Now] = Size(Now)] /\ ~lost BY <2>8, <1>1 DEF WriteMeta
    <3>2. pc' = pc + 1 /\ pc # 0 /\ data' = data
      BY <2>8, <1>1, ScriptSteps DEF WriteMeta, Continue
    <3>3. CASE f = Now BY <3>1, <3>2, <3>3, <1>2 DEF Size
    <3>4. CASE f # Now
      <4>1. meta'[f] = meta[f] /\ pc # MetaAt(f) BY <3>1, <3>4, <1>1, <1>2, MetaSteps
      <4> QED BY <2>2, <3>1, <3>2, <4>1, <1>1, <1>3
    <3> QED BY <3>3, <3>4
  <2>9. CASE CloseData
    <3>1. PICK n \in 0 .. Len(data[Now]) :
            /\ data' = [data EXCEPT ![Now] = SubSeq(@, 1, n)]
            /\ lost' = (lost \/ n < Len(data[Now]))
      BY <2>9 DEF CloseData
    <3>2. pc' = pc + 1 /\ pc \in {6, 7, 13, 14} /\ meta' = meta
      BY <2>9, <1>1, ScriptSteps DEF CloseData, Continue
    <3>3. Now \in File BY <3>2, <1>1, ScriptSteps, Files DEF Set
    <3>4. ~lost /\ n = Len(data[Now])
      <4>1. ~(lost \/ n < Len(data[Now])) BY <3>1, Zenon
      <4> QED BY <4>1, <3>1, <3>3, <1>3
    <3>5. Len(data'[f]) = Len(data[f])
      <4>1. CASE f = Now
        <5>1. data[f] \in Seq(Pair) \/ data[f] \in Seq(Doc) BY <1>2
        <5>2. Len(SubSeq(data[f], 1, n)) = n BY <5>1, <4>1, <3>1, Beginning
        <5> QED BY <5>2, <4>1, <3>1, <3>4, <1>2
      <4>2. CASE f # Now BY <4>2, <3>1, <1>2
      <4> QED BY <4>1, <4>2
    <3> QED BY <2>2, <3>2, <3>4, <3>5, <1>1, <1>3
  <2>10. CASE Finish
    <3>1. pc = 15
      <4>1. Len(Script) = 14 BY <1>1, ScriptSteps
      <4>2. pc = Len(Script) + 1 BY <2>10 DEF Finish
      <4> QED BY <4>1, <4>2
    <3>2. ~lost /\ meta' = meta /\ data' = data BY <2>10 DEF Finish, disk
    <3> QED BY <2>2, <3>1, <3>2, <1>3
  <2>11. CASE Stop
    <3>1. pc' = 0 /\ result' = "failed" BY <2>11 DEF Stop, Return
    <3> QED BY <3>1, <1>3
  <2> QED BY <2>3, <2>4, <2>5, <2>6, <2>7, <2>8, <2>9, <2>10, <2>11, <1>4 DEF ConversionStep
<1>5. CASE SvmStep
  <2>1. UNCHANGED <<data, meta, pc, result, lost>> BY <1>5, SvmOnlyReads DEF disk, conversion
  <2>2. pc = 0
    <3>1. svm # "idle" \/ pc = 0
      BY <1>5 DEF SvmStep, StartSvm, ReadMeta, ReadClasses, ReadBatch, EndPass, Passes
    <3> QED BY <3>1 DEF DiskInv
  <2> QED BY <2>1, <2>2 DEF DiskInv, MetaAt
<1>6. CASE UNCHANGED vars BY <1>6 DEF vars, disk, conversion, reading, DiskInv, MetaAt
<1> QED BY <1>4, <1>5, <1>6, NextIsEither

------------------------------------------------------------------------------
(* Types of svm, and its failures *)

\* The pairs of a batch are between the one before and the end of the file.
LEMMA BatchIsFinite ==
  ASSUME TypeInv, SvmTypeInv, svm \in Passes
  PROVE  /\ PassSet \in Set /\ Pairs \in Seq(Pair) /\ SizeRead \in Nat
         /\ InBatch \subseteq nRead + 1 .. SizeRead
         /\ IsFiniteSet(InBatch) /\ ReadAfter \in Nat
<1>1. PassSet \in Set BY DEF SvmTypeInv, PassSet, Other, Set
<1>2. Pairs \in Seq(Pair) /\ SizeRead \in Nat BY <1>1, Files DEF TypeInv, SvmTypeInv, Pairs, SizeRead
<1>3. InBatch \subseteq nRead + 1 .. SizeRead BY DEF InBatch
<1>4. nRead \in Nat BY DEF SvmTypeInv
<1>5. IsFiniteSet(nRead + 1 .. SizeRead) BY <1>2, <1>4, FS_Interval
<1>6. IsFiniteSet(InBatch) /\ Cardinality(InBatch) \in Nat
  BY <1>3, <1>5, FS_Subset, FS_CardinalityType
<1> QED BY <1>1, <1>2, <1>3, <1>4, <1>6 DEF ReadAfter

\* The pairs of the row at place i of the batch.
PairsAt(i) == {p \in InBatch : Pairs[p].row % ReadLen = i}

\* What BatchRows has of that row.
RowAt(i) ==
  [ row   |-> ReadLen * batch + i,
    docs  |-> {Pairs[p].doc : p \in PairsAt(i)},
    pairs |-> Cardinality(PairsAt(i)),
    label |-> Label(i) ]

\* A batch holds a row for each of its places that has a pair.
LEMMA RowsOfBatch == BatchRows = {RowAt(i) : i \in {j \in 0 .. ReadLen - 1 : PairsAt(j) # {}}}
BY DEF BatchRows, RowAt, PairsAt

\* A batch is a set of rows.
LEMMA BatchType ==
  ASSUME TypeInv, SvmTypeInv, svm \in Passes
  PROVE  BatchRows \in SUBSET UsedRow
<1> SUFFICES ASSUME NEW i \in 0 .. ReadLen - 1 PROVE RowAt(i) \in UsedRow
  BY RowsOfBatch
<1>1. ReadLen * batch + i \in Nat
  <2>1. ReadLen \in Nat /\ batch \in Nat /\ i \in Nat BY Rcv1Assumption DEF SvmTypeInv
  <2> QED BY <2>1
<1>2. PairsAt(i) \subseteq InBatch BY DEF PairsAt
<1>3. IsFiniteSet(PairsAt(i)) BY <1>2, BatchIsFinite, FS_Subset
<1>4. Cardinality(PairsAt(i)) \in Nat BY <1>3, FS_CardinalityType
<1>5. \A p \in InBatch : Pairs[p].doc \in Doc
  <2> SUFFICES ASSUME NEW p \in InBatch PROVE Pairs[p].doc \in Doc
    OBVIOUS
  <2>1. p \in 1 .. Len(Pairs)
    <3>1. p \in nRead + 1 .. SizeRead /\ p <= Len(Pairs) BY DEF InBatch
    <3>2. nRead \in Nat BY DEF SvmTypeInv
    <3>3. SizeRead \in Nat /\ Len(Pairs) \in Nat BY BatchIsFinite
    <3> QED BY <3>1, <3>2, <3>3
  <2>2. Pairs[p] \in Pair BY <2>1, BatchIsFinite
  <2> QED BY <2>2 DEF Pair
<1>6. {Pairs[p].doc : p \in PairsAt(i)} \in SUBSET Doc BY <1>2, <1>5
<1>7. Label(i) \in Doc \cup {NoClass}
  <2>1. labels[PassSet] \in Seq(Doc) BY BatchIsFinite DEF SvmTypeInv
  <2>2. ClassIdx(i) \in Nat BY <1>1 DEF ClassIdx
  <2>3. PICK c \in Nat : c = ClassIdx(i) BY <2>2
  <2>4. c < Len(labels[PassSet]) => c + 1 \in 1 .. Len(labels[PassSet]) BY <2>1
  <2> QED BY <2>1, <2>3, <2>4 DEF Label
<1> QED BY <1>1, <1>4, <1>6, <1>7 DEF RowAt, UsedRow

\* svm keeps its types, and reads no metadata that is missing.
LEMMA SvmTypeStep == TypeInv /\ DiskInv /\ SvmTypeInv /\ [Next]_vars => SvmTypeInv'
<1> SUFFICES ASSUME TypeInv, DiskInv, SvmTypeInv, [Next]_vars PROVE SvmTypeInv'
  OBVIOUS
<1>1. CASE ConversionStep
  <2>1. svm' = "idle" /\ svm = "idle" /\ UNCHANGED <<trainSet, labels, batch, nRead, used>>
    BY <1>1, ConvertsAlone
  <2> QED BY <2>1 DEF SvmTypeInv, Passes
<1>2. ASSUME SvmStep PROVE UNCHANGED <<data, meta>> BY <1>2, SvmOnlyReads DEF disk
<1> USE DEF Passes
<1>3. CASE StartSvm
  <2>1. UNCHANGED <<meta, labels, batch, nRead, used>> /\ trainSet' \in Set /\ svm' = "meta"
    BY <1>3, <1>2 DEF StartSvm, SvmStep
  <2> QED BY <2>1 DEF SvmTypeInv
<1>4. CASE ReadMeta
  <2>1. UNCHANGED <<meta, trainSet, labels, batch, nRead, used>>
    BY <1>4, <1>2 DEF ReadMeta, SvmStep
  <2>2. svm' = "failed" \/ (svm' = "classes" /\ \A f \in File : meta[f] # NoMeta)
    BY <1>4 DEF ReadMeta
  <2>3. (\A f \in File : meta[f] # NoMeta) => meta \in [File -> Nat]
    BY DEF TypeInv, Uncertain
  <2> QED BY <2>1, <2>2, <2>3 DEF SvmTypeInv
<1>5. CASE ReadClasses
  <2>1. UNCHANGED <<meta, trainSet, batch, nRead, used>> /\ svm = "classes"
    BY <1>5, <1>2 DEF ReadClasses, SvmStep
  <2>2. CASE \E s \in Set : Len(data[Classes(s)]) < meta[Classes(s)]
    <3>1. svm' = "failed" /\ labels' = labels BY <1>5, <2>2 DEF ReadClasses
    <3> QED BY <2>1, <3>1 DEF SvmTypeInv
  <2>3. CASE ~\E s \in Set : Len(data[Classes(s)]) < meta[Classes(s)]
    <3>1. svm' = "minmax" /\ labels' = [s \in Set |-> SubSeq(data[Classes(s)], 1, meta[Classes(s)])]
      BY <1>5, <2>3 DEF ReadClasses
    <3>2. ASSUME NEW s \in Set PROVE SubSeq(data[Classes(s)], 1, meta[Classes(s)]) \in Seq(Doc)
      <4>1. data[Classes(s)] \in Seq(Doc) /\ meta[Classes(s)] \in Nat
        BY <2>1, Files DEF TypeInv, SvmTypeInv
      <4>2. meta[Classes(s)] \in 0 .. Len(data[Classes(s)]) BY <2>3, <4>1
      <4> QED BY <4>1, <4>2, Beginning
    <3>3. labels' \in [Set -> Seq(Doc)] BY <3>1, <3>2
    <3> QED BY <2>1, <3>1, <3>3 DEF SvmTypeInv
  <2> QED BY <2>2, <2>3
<1>6. CASE ReadBatch
  <2>1. UNCHANGED <<meta, trainSet, labels>> /\ svm \in Passes BY <1>6, <1>2 DEF ReadBatch, SvmStep
  <2>2. \/ svm' = "failed" /\ UNCHANGED <<batch, nRead, used>>
        \/ /\ nRead' = ReadAfter /\ batch' = batch + 1 /\ svm' = svm
           /\ used' = IF svm = "minmax" THEN used
                      ELSE [used EXCEPT ![PassSet] = Append(@, BatchRows)]
    BY <1>6 DEF ReadBatch
  <2>3. ReadAfter \in Nat /\ PassSet \in Set /\ BatchRows \in SUBSET UsedRow
    BY <2>1, BatchIsFinite, BatchType
  <2>4. Append(used[PassSet], BatchRows) \in Seq(SUBSET UsedRow) BY <2>3 DEF SvmTypeInv
  <2>5. used' \in [Set -> Seq(SUBSET UsedRow)] BY <2>2, <2>3, <2>4 DEF SvmTypeInv
  <2>6. batch' \in Nat /\ nRead' \in Nat BY <2>2, <2>3 DEF SvmTypeInv
  <2>7. svm' = "failed" \/ svm' = svm BY <2>2
  <2> QED BY <2>1, <2>5, <2>6, <2>7 DEF SvmTypeInv
<1>7. CASE EndPass
  <2>1. UNCHANGED <<meta, trainSet, labels, used>> BY <1>7, <1>2 DEF EndPass, SvmStep
  <2>2. svm \in Passes /\ svm' \in {"fit", "test", "ok"} /\ batch' = 0 /\ nRead' = 0
    BY <1>7 DEF EndPass, AfterPass
  <2> QED BY <2>1, <2>2 DEF SvmTypeInv
<1>8. CASE UNCHANGED vars BY <1>8 DEF vars, disk, conversion, reading, SvmTypeInv
<1> QED BY <1>1, <1>3, <1>4, <1>5, <1>6, <1>7, <1>8, NextIsEither DEF SvmStep

\* svm fails only on a conversion that has not succeeded or has lost data.
LEMMA FailStep == TypeInv /\ DiskInv /\ SvmTypeInv /\ FailInv /\ [Next]_vars => FailInv'
<1> SUFFICES ASSUME TypeInv, DiskInv, SvmTypeInv, FailInv, [Next]_vars, svm' = "failed"
             PROVE  result' # "ok" \/ lost'
  BY DEF FailInv
<1>1. ~ConversionStep BY ConvertsAlone
<1>2. UNCHANGED <<data, meta, pc, result, lost>>
  <2>1. CASE SvmStep BY <2>1, SvmOnlyReads DEF disk, conversion
  <2>2. CASE UNCHANGED vars BY <2>2 DEF vars, disk, conversion
  <2> QED BY <1>1, <2>1, <2>2, NextIsEither
<1>3. CASE svm = "failed" BY <1>2, <1>3 DEF FailInv
<1>4. CASE svm # "failed"
  <2> SUFFICES ASSUME result = "ok", ~lost PROVE FALSE
    BY <1>2
  <2>1. svm # "idle" \/ svm' # "failed" BY <1>1, <1>4, NextIsEither
    DEF SvmStep, StartSvm, ReadMeta, ReadClasses, ReadBatch, EndPass, Passes, vars, reading
  <2>2. \A f \in File : meta[f] = Len(data[f]) BY <2>1 DEF DiskInv
  <2>3. \A f \in File : Len(data[f]) \in Nat
    <3> SUFFICES ASSUME NEW f \in File PROVE Len(data[f]) \in Nat
      OBVIOUS
    <3>1. data[f] \in Seq(Pair) \/ data[f] \in Seq(Doc) BY DEF TypeInv
    <3> QED BY <3>1
  <2>4. ~ReadMeta
    <3>1. \A f \in File : meta[f] # NoMeta BY <2>2, <2>3, Rcv1Assumption
    <3> QED BY <3>1 DEF ReadMeta
  <2>5. ~ReadClasses
    <3>1. ~\E s \in Set : Len(data[Classes(s)]) < meta[Classes(s)] BY <2>2, <2>3, Files
    <3> QED BY <3>1 DEF ReadClasses
  <2>6. ~ReadBatch
    <3> SUFFICES ASSUME ReadBatch PROVE FALSE
      OBVIOUS
    <3>1. svm \in Passes BY DEF ReadBatch
    <3>2. PassSet \in Set BY <3>1, BatchIsFinite
    <3>3. SizeRead = Len(Pairs) /\ SizeRead \in Nat BY <2>2, <2>3, <3>2, Files DEF SizeRead, Pairs
    <3>4. ~(ReadAfter < SizeRead /\ ReadAfter = Len(Pairs)) BY <3>3
    <3>5. svm' = svm BY <3>4 DEF ReadBatch
    <3> QED BY <3>5, <1>4
  <2>7. ~StartSvm /\ ~EndPass
    BY DEF StartSvm, EndPass, AfterPass, Passes
  <2>8. ~UNCHANGED vars BY <1>4 DEF vars, reading
  <2> QED BY <1>1, <2>4, <2>5, <2>6, <2>7, <2>8, NextIsEither DEF SvmStep
<1> QED BY <1>3, <1>4

------------------------------------------------------------------------------
(* Samples *)

\* Nothing is a beginning of any file.
LEMMA NothingIsPart ==
  ASSUME NEW s, Regular(s)
  PROVE  IsPart(input.lines[s], input.pairs, <<>>)
<1>1. AllPairs(s) \in Nat /\ LinesOf(s) \in Nat BY DEF Regular, AllPairs
<1>2. \A r \in 0 .. LinesOf(s) - 1 : Ends(s)[r] \in Nat BY <1>1 DEF Regular
<1> QED BY <1>1, <1>2 DEF IsPart, Ends, LinesOf, AllPairs

\* A beginning of a beginning is one.
LEMMA PartOfPart ==
  ASSUME NEW s, Regular(s), NEW file \in Seq(Pair), NEW n \in 0 .. Len(file),
         IsPart(input.lines[s], input.pairs, file)
  PROVE  IsPart(input.lines[s], input.pairs, SubSeq(file, 1, n))
<1>1. PICK part \in Seq(Pair) :
        part = SubSeq(file, 1, n) /\ Len(part) = n /\ \A i \in 1 .. n : part[i] = file[i]
  BY Beginning
<1>2. AllPairs(s) \in Nat /\ Len(file) \in Nat /\ LinesOf(s) \in Nat BY DEF Regular, AllPairs
<1>3. Len(part) <= AllPairs(s) BY <1>1, <1>2 DEF IsPart, AllPairs, Ends, LinesOf
<1>4. ASSUME NEW r \in 0 .. LinesOf(s) - 1, NEW p \in Ends(s)[r] + 1 .. Ends(s)[r + 1],
             p <= Len(part)
      PROVE  part[p] = [row |-> r, doc |-> input.lines[s][r + 1]]
  <2>1. Ends(s)[r] \in Nat /\ Ends(s)[r + 1] \in Nat BY <1>2 DEF Regular
  <2>2. p \in 1 .. n /\ p <= Len(file) BY <1>1, <1>2, <1>4, <2>1
  <2>3. file[p] = [row |-> r, doc |-> input.lines[s][r + 1]] BY <2>2 DEF IsPart, Ends, LinesOf
  <2> QED BY <1>1, <2>2, <2>3
<1> QED BY <1>1, <1>3, <1>4 DEF IsPart, AllPairs, Ends, LinesOf

\* A sequence with one element more.
LEMMA Appended ==
  ASSUME NEW S, NEW q \in Seq(S), NEW x \in S
  PROVE  /\ Append(q, x) \in Seq(S) /\ Len(Append(q, x)) = Len(q) + 1
         /\ \A i \in 1 .. Len(q) : Append(q, x)[i] = q[i]
         /\ Append(q, x)[Len(q) + 1] = x
OBVIOUS

\* What is in two sequences one after the other.
LEMMA ConcatElements ==
  ASSUME NEW S, NEW a \in Seq(S), NEW b \in Seq(S)
  PROVE  /\ a \o b \in Seq(S) /\ Len(a \o b) = Len(a) + Len(b)
         /\ \A i \in 1 .. Len(a) : (a \o b)[i] = a[i]
         /\ \A i \in 1 .. Len(b) : (a \o b)[Len(a) + i] = b[i]
OBVIOUS

\* The pairs of the next line continue a beginning that ends with a line.
LEMMA PartAndRow ==
  ASSUME NEW s, Regular(s), NEW file \in Seq(Pair), NEW r \in 0 .. LinesOf(s) - 1,
         NEW row \in Seq(Pair)
  PROVE  /\ IsPart(input.lines[s], input.pairs, file) /\ Len(file) = Ends(s)[r]
         /\ Len(row) = input.pairs[input.lines[s][r + 1]]
         /\ \A i \in 1 .. Len(row) : row[i] = [row |-> r, doc |-> input.lines[s][r + 1]]
         => /\ IsPart(input.lines[s], input.pairs, file \o row)
            /\ Len(file \o row) = Ends(s)[r + 1]
<1> DEFINE all == file \o row
<1>1. /\ all \in Seq(Pair) /\ Len(all) = Len(file) + Len(row)
      /\ \A i \in 1 .. Len(file) : all[i] = file[i]
      /\ \A i \in 1 .. Len(row) : all[Len(file) + i] = row[i]
  BY ConcatElements
<1> HIDE DEF all
<1>2. LinesOf(s) \in Nat /\ Len(file) \in Nat /\ Len(row) \in Nat BY DEF Regular
<1>3. r \in 0 .. LinesOf(s) /\ r + 1 \in 0 .. LinesOf(s) /\ LinesOf(s) \in 0 .. LinesOf(s) BY <1>2
<1>4. ASSUME IsPart(input.lines[s], input.pairs, file), Len(file) = Ends(s)[r],
             Len(row) = input.pairs[input.lines[s][r + 1]],
             \A i \in 1 .. Len(row) : row[i] = [row |-> r, doc |-> input.lines[s][r + 1]]
      PROVE  IsPart(input.lines[s], input.pairs, all) /\ Len(all) = Ends(s)[r + 1]
  <2>1. Len(all) = Ends(s)[r + 1] BY <1>1, <1>4 DEF Regular
  <2>2. Len(all) <= AllPairs(s) BY <1>2, <1>3, <2>1, EndsGrow DEF AllPairs
  <2>3. ASSUME NEW q \in 0 .. LinesOf(s) - 1, NEW p \in Ends(s)[q] + 1 .. Ends(s)[q + 1],
               p <= Len(all)
        PROVE  all[p] = [row |-> q, doc |-> input.lines[s][q + 1]]
    <3>1. q \in 0 .. LinesOf(s) /\ q + 1 \in 0 .. LinesOf(s) BY <1>2
    <3>2. Ends(s)[q] \in Nat /\ Ends(s)[q + 1] \in Nat /\ Ends(s)[r] \in Nat /\ Ends(s)[r + 1] \in Nat
      BY <1>3, <3>1 DEF Regular
    <3>3. p \in 1 .. Len(all) BY <1>1, <1>2, <2>3, <3>2
    <3>4. CASE p <= Len(file)
      <4>1. file[p] = [row |-> q, doc |-> input.lines[s][q + 1]] BY <1>4, <2>3, <3>4 DEF IsPart, Ends, LinesOf
      <4> QED BY <1>1, <3>3, <3>4, <4>1
    <3>5. CASE p > Len(file)
      <4>1. ~(q + 1 <= r) BY <1>3, <1>4, <2>3, <3>1, <3>2, <3>5, EndsGrow
      <4>2. ~(r + 1 <= q) BY <1>3, <2>1, <2>3, <3>1, <3>2, EndsGrow
      <4>3. q = r BY <4>1, <4>2
      <4>4. PICK i \in 1 .. Len(row) : p = Len(file) + i
        <5>1. PICK i \in Int : i = p - Len(file) BY <1>2
        <5>2. i \in 1 .. Len(row) /\ p = Len(file) + i BY <1>1, <1>2, <3>3, <3>5, <5>1
        <5> QED BY <5>2
      <4>5. all[p] = row[i] BY <1>1, <4>4
      <4> QED BY <1>4, <4>3, <4>4, <4>5
    <3> QED BY <1>2, <3>3, <3>4, <3>5
  <2> QED BY <1>1, <2>1, <2>2, <2>3 DEF IsPart, AllPairs, Ends, LinesOf
<1> QED BY <1>4 DEF all

\* What the conversion does to the samples, step by step.
LEMMA SamplesStep ==
  TypeInv /\ SamplesInv /\ LinesInv /\ ConversionStep => SamplesInv' /\ LinesInv'
<1> SUFFICES ASSUME TypeInv, SamplesInv, LinesInv, ConversionStep PROVE SamplesInv' /\ LinesInv'
  OBVIOUS
<1>1. UNCHANGED input BY ConversionOnlyWrites
<1>2. /\ pc \in 0 .. 15 /\ next \in Nat \ {0} /\ rows \in [Set -> Nat] /\ inTrain \subseteq Doc
      /\ data \in [File -> Seq(Pair) \cup Seq(Doc)] /\ meta \in [File -> Uncertain]
      /\ input \in Input
  BY DEF TypeInv
<1>3. \A s \in Set : Regular(s) BY <1>2, InputRegular
<1>4. \A s \in Set : data[Samples(s)] \in Seq(Pair) /\ Len(data[Samples(s)]) \in Nat
  <2> TAKE s \in Set
  <2>1. data[Samples(s)] \in Seq(Pair) BY DEF TypeInv
  <2> QED BY <2>1
\* What is to be shown.
<1> DEFINE Part(s, file) == IsPart(input.lines[s], input.pairs, file)
           Size0(s) == meta'[Samples(s)] \in {NoMeta, AllPairs(s)}
<1>5. ASSUME \A s \in Set : Part(s, data'[Samples(s)]) /\ Size0(s) PROVE SamplesInv'
  BY <1>1, <1>5 DEF SamplesInv, AllPairs, Ends, LinesOf
<1>6. \A s \in Set : Part(s, data[Samples(s)]) /\ meta[Samples(s)] \in {NoMeta, AllPairs(s)}
  BY DEF SamplesInv
<1> HIDE DEF Part
<1>7. ASSUME \A s \in Set : data'[Samples(s)] = data[Samples(s)] /\ meta'[Samples(s)] = meta[Samples(s)]
      PROVE  SamplesInv'
  BY <1>5, <1>6, <1>7
<1>8. CASE Start
  <2>1. UNCHANGED <<data, meta, next, inTrain, rows>> /\ pc = 0 /\ pc' = 1
    BY <1>8 DEF Start, disk
  <2> QED BY <1>7, <2>1 DEF LinesInv
<1>9. CASE OpenData
  <2>1. UNCHANGED <<meta, rows, inTrain>> /\ next' = 1 /\ pc' = pc + 1 /\ pc \in {1, 2, 8, 9}
        /\ data' = [data EXCEPT ![Now] = <<>>]
    BY <1>2, <1>9, ScriptSteps DEF OpenData, Continue, Opened
  <2>2. \A s \in Set : data'[Samples(s)] = data[Samples(s)] \/ data'[Samples(s)] = <<>>
    BY <1>2, <2>1, Files
  <2>3. \A s \in Set : Part(s, data'[Samples(s)]) BY <1>3, <1>6, <2>2, NothingIsPart DEF Part
  <2>4. SamplesInv' BY <1>5, <1>6, <2>1, <2>3
  <2>5. CASE pc = 1
    <3>1. data'[Samples("train")] = <<>> BY <1>2, <2>1, <2>5, ScriptSteps, Files DEF Set
    <3>2. pc' = 2 BY <2>1, <2>5
    <3>3. LinesInv' BY <2>1, <2>5, <3>1, <3>2 DEF LinesInv
    <3> QED BY <2>4, <3>3
  <2>6. CASE pc = 2
    <3>1. pc' = 3 BY <2>1, <2>6
    <3>2. data'[Samples("test")] = <<>> BY <1>2, <2>1, <2>6, ScriptSteps, Files DEF Set
    <3>3. data'[Samples("train")] = <<>> BY <1>2, <2>1, <2>2, <2>6, Files DEF LinesInv, Set
    <3>4. inTrain' = {} /\ \A s \in Set : rows'[s] = 0 BY <2>1, <2>6 DEF LinesInv
    <3>5. \A s \in Set : Len(data'[Samples(s)]) = Ends(s)[0] BY <1>3, <3>2, <3>3 DEF Set, Regular
    <3>6. \A s \in Set : LinesOf(s) \in Nat BY <1>3 DEF Regular
    <3>7. TrainDocs(0) = {} BY DEF TrainDocs
    <3>8. /\ next' - 1 = rows'["test"] + rows'["train"]
          /\ rows'["test"] <= LinesOf("test") /\ rows'["train"] <= LinesOf("train")
          /\ ~(rows'["train"] > 0)
          /\ inTrain' = TrainDocs(rows'["train"])
          /\ \A s \in Set : Len(data'[Samples(s)]) = Ends(s)[rows'[s]]
      BY <2>1, <3>4, <3>5, <3>6, <3>7 DEF Set
    <3>9. LinesInv' BY <1>1, <3>1, <3>8 DEF LinesInv, LinesOf, Ends, TrainDocs
    <3> QED BY <2>4, <3>9
  <2>7. CASE pc \in {8, 9}
    <3>1. pc' \in {9, 10} /\ inTrain' = TrainDocs(LinesOf("train"))
      BY <2>1, <2>7 DEF LinesInv
    <3>2. LinesInv' BY <1>1, <3>1 DEF LinesInv, TrainDocs, LinesOf
    <3> QED BY <2>4, <3>2
  <2> QED BY <2>1, <2>5, <2>6, <2>7
<1>10. CASE WriteSample
  <2>1. pc = 3 /\ UNCHANGED <<meta, pc>> /\ next' = next + 1
    BY <1>2, <1>10, ScriptSteps DEF WriteSample
  <2>2. /\ next - 1 = rows["test"] + rows["train"]
        /\ rows["test"] <= LinesOf("test") /\ rows["train"] <= LinesOf("train")
        /\ rows["train"] > 0 => rows["test"] = LinesOf("test")
        /\ inTrain = TrainDocs(rows["train"])
        /\ \A s \in Set : Len(data[Samples(s)]) = Ends(s)[rows[s]]
    BY <2>1 DEF LinesInv
  <2>3. LinesOf("test") \in Nat /\ LinesOf("train") \in Nat /\ rows["test"] \in Nat /\ rows["train"] \in Nat
    BY <1>2, <1>3 DEF Regular, Set
  <2>4. next \in 1 .. Len(Lines) /\ Len(Lines) = LinesOf("test") + LinesOf("train")
    BY <1>2, <1>10, <2>3, LineOfSet DEF WriteSample
  <2>5. PICK s \in Set, r \in Nat :
          s = SetAt(next) /\ r = rows[s] /\ r < LinesOf(s) /\ Lines[next] = input.lines[s][r + 1]
          /\ (s = "test" => rows["train"] = 0) /\ (s = "train" => rows["test"] = LinesOf("test"))
    <3>1. CASE next <= LinesOf("test")
      <4>1. SetAt(next) = "test" /\ Lines[next] = input.lines["test"][next]
        BY <1>2, <2>4, <3>1, LineOfSet
      <4>2. rows["train"] = 0 BY <2>2, <2>3, <3>1, <1>2
      <4>3. next = rows["test"] + 1 BY <2>2, <2>3, <4>2, <1>2
      <4>4. rows["test"] < LinesOf("test") BY <2>3, <3>1, <4>3
      <4> QED BY <2>3, <4>1, <4>2, <4>3, <4>4 DEF Set
    <3>2. CASE next > LinesOf("test")
      <4>1. SetAt(next) = "train" /\ Lines[next] = input.lines["train"][next - LinesOf("test")]
            /\ next - LinesOf("test") \in 1 .. LinesOf("train")
        BY <1>2, <2>4, <3>2, LineOfSet
      <4>2. rows["test"] = LinesOf("test") BY <2>2, <2>3, <3>2, <1>2
      <4>3. next - LinesOf("test") = rows["train"] + 1
        <5>1. next - 1 = LinesOf("test") + rows["train"] BY <2>2, <4>2
        <5> QED BY <5>1, <2>3, <1>2
      <4>4. rows["train"] < LinesOf("train") BY <2>3, <4>1, <4>3
      <4> QED BY <2>3, <4>1, <4>2, <4>3, <4>4 DEF Set
    <3> QED BY <3>1, <3>2, <2>3, <2>4
  <2>6. PICK d : d = input.lines[s][r + 1] OBVIOUS
  <2>7. r \in 0 .. LinesOf(s) - 1 BY <2>5, <1>3 DEF Regular
  <2>8. d \in Doc /\ input.pairs[d] \in Nat BY <1>3, <2>6, <2>7 DEF Regular
  <2> DEFINE row == [i \in 1 .. input.pairs[d] |-> [row |-> r, doc |-> d]]
  <2>9. /\ row \in Seq(Pair) /\ Len(row) = input.pairs[d]
        /\ \A i \in 1 .. Len(row) : row[i] = [row |-> r, doc |-> d]
    BY <2>8, RowType
  <2>10. /\ inTrain' = IF s = "train" THEN inTrain \cup {d} ELSE inTrain \ {d}
         /\ data' = [data EXCEPT ![Samples(s)] = @ \o row]
         /\ rows' = [rows EXCEPT ![s] = @ + 1]
    BY <1>10, <2>5, <2>6 DEF WriteSample
  <2> HIDE DEF row
  <2>11. /\ Part(s, data[Samples(s)] \o row) /\ Len(data[Samples(s)] \o row) = Ends(s)[r + 1]
    <3>1. PICK file \in Seq(Pair) : file = data[Samples(s)] BY <1>4
    <3>2. Part(s, file) /\ Len(file) = Ends(s)[r] BY <1>6, <2>2, <2>5, <3>1
    <3>3. Part(s, file \o row) /\ Len(file \o row) = Ends(s)[r + 1]
      BY <1>3, <2>6, <2>7, <2>9, <3>2, PartAndRow DEF Part
    <3> QED BY <3>1, <3>3
  <2>12. \A t \in Set : data'[Samples(t)] = IF t = s THEN data[Samples(t)] \o row ELSE data[Samples(t)]
    BY <1>2, <2>10, Files
  <2>13. SamplesInv' BY <1>5, <1>6, <2>1, <2>11, <2>12
  <2>14. \A t \in Set : rows'[t] = IF t = s THEN rows[t] + 1 ELSE rows[t] BY <1>2, <2>10
  <2>15. \A t \in Set : Len(data'[Samples(t)]) = Ends(t)[rows'[t]]
    BY <2>2, <2>5, <2>11, <2>12, <2>14
  <2>16. inTrain' = TrainDocs(rows'["train"])
    <3>1. CASE s = "train"
      <4>1. rows'["train"] = r + 1 /\ inTrain' = TrainDocs(r) \cup {input.lines["train"][r + 1]}
        BY <2>2, <2>5, <2>6, <2>10, <2>14, <3>1
      <4>2. TrainDocs(r + 1) = TrainDocs(r) \cup {input.lines["train"][r + 1]}
        <5>1. 1 .. r + 1 = (1 .. r) \cup {r + 1} BY <2>5
        <5> QED BY <5>1 DEF TrainDocs
      <4> QED BY <4>1, <4>2
    <3>2. CASE s = "test"
      <4>1. rows'["train"] = 0 /\ inTrain = {} /\ inTrain' = inTrain \ {d}
        BY <2>2, <2>5, <2>10, <2>14, <3>2 DEF TrainDocs, Set
      <4> QED BY <4>1 DEF TrainDocs
    <3> QED BY <3>1, <3>2 DEF Set
  <2>17. /\ next' - 1 = rows'["test"] + rows'["train"]
         /\ rows'["test"] <= LinesOf("test") /\ rows'["train"] <= LinesOf("train")
         /\ rows'["train"] > 0 => rows'["test"] = LinesOf("test")
    <3>1. CASE s = "train" BY <1>2, <2>1, <2>2, <2>3, <2>5, <2>14, <3>1 DEF Set
    <3>2. CASE s = "test" BY <1>2, <2>1, <2>2, <2>3, <2>5, <2>14, <3>2 DEF Set
    <3> QED BY <3>1, <3>2 DEF Set
  <2>18. LinesInv' BY <1>1, <2>1, <2>15, <2>16, <2>17 DEF LinesInv, LinesOf, Ends, TrainDocs
  <2> QED BY <2>13, <2>18
<1>11. CASE WriteClass
  <2>1. pc = 10 /\ UNCHANGED <<meta, pc, inTrain>> BY <1>2, <1>11, ScriptSteps DEF WriteClass
  <2>2. \A s \in Set : data'[Samples(s)] = data[Samples(s)]
    <3>1. PICK s \in Set : s = SetOf(DocAt(next)) BY DEF SetOf, Set
    <3>2. data' = [data EXCEPT ![Classes(s)] = Append(@, DocAt(next))] BY <1>11, <3>1 DEF WriteClass
    <3> QED BY <1>2, <3>2, Files
  <2>3. SamplesInv' BY <1>7, <2>1, <2>2
  <2>4. inTrain = TrainDocs(LinesOf("train")) BY <2>1 DEF LinesInv
  <2>5. LinesInv' BY <1>1, <2>1, <2>4 DEF LinesInv, TrainDocs, LinesOf
  <2> QED BY <2>3, <2>5
<1>12. CASE EndLoop
  <2>1. UNCHANGED <<data, meta, rows, inTrain>> /\ pc' = pc + 1 BY <1>12 DEF EndLoop, Continue, disk
  <2>2. SamplesInv' BY <1>7, <2>1
  <2>3. CASE pc = 3
    <3>1. /\ next - 1 = rows["test"] + rows["train"]
          /\ rows["test"] <= LinesOf("test") /\ rows["train"] <= LinesOf("train")
          /\ inTrain = TrainDocs(rows["train"])
          /\ \A s \in Set : Len(data[Samples(s)]) = Ends(s)[rows[s]]
      BY <2>3 DEF LinesInv
    <3>2. next > LinesOf("test") + LinesOf("train")
      BY <1>2, <1>12, <2>3, ScriptSteps, LineOfSet DEF EndLoop
    <3>3. \A s \in Set : LinesOf(s) \in Nat /\ rows[s] \in Nat BY <1>2, <1>3 DEF Regular
    <3>4. rows["test"] = LinesOf("test") /\ rows["train"] = LinesOf("train")
      BY <1>2, <3>1, <3>2, <3>3 DEF Set
    <3>5. \A s \in Set : Len(data'[Samples(s)]) = AllPairs(s) BY <2>1, <3>1, <3>4 DEF AllPairs, Set
    <3>6. pc' = 4 /\ inTrain' = TrainDocs(LinesOf("train")) BY <2>1, <2>3, <3>1, <3>4
    <3>7. LinesInv' BY <1>1, <3>5, <3>6 DEF LinesInv, LinesOf, Ends, AllPairs, TrainDocs
    <3> QED BY <2>2, <3>7
  <2>4. CASE pc = 10
    <3>1. pc' = 11 BY <2>1, <2>4
    <3>2. LinesInv' BY <3>1 DEF LinesInv
    <3> QED BY <2>2, <3>2
  <2> QED BY <1>2, <1>12, <2>3, <2>4, ScriptSteps DEF EndLoop
<1>13. CASE WriteMeta
  <2>1. UNCHANGED <<data, inTrain>> /\ pc' = pc + 1 /\ pc \in {4, 5, 11, 12}
    BY <1>2, <1>13, ScriptSteps DEF WriteMeta, Continue
  <2>2. meta' = [meta EXCEPT ![Now] = Size(Now)] \/ meta' = [meta EXCEPT ![Now] = NoMeta]
    BY <1>13 DEF WriteMeta
  <2>3. ASSUME NEW s \in Set PROVE Part(s, data'[Samples(s)]) /\ Size0(s)
    <3>1. CASE Now = Samples(s)
      <4>1. pc \in {4, 5} BY <1>2, <2>1, <3>1, ScriptSteps, Files DEF Set
      <4>2. Size(Now) = AllPairs(s) BY <3>1, <4>1 DEF LinesInv, Size
      <4>3. Size0(s) BY <1>2, <2>2, <3>1, <4>2, Files
      <4> QED BY <1>6, <2>1, <4>3
    <3>2. CASE Now # Samples(s)
      <4>1. meta'[Samples(s)] = meta[Samples(s)] BY <1>2, <2>2, <3>2, Files
      <4> QED BY <1>6, <2>1, <4>1
    <3> QED BY <3>1, <3>2
  <2>4. SamplesInv' BY <1>5, <2>3
  <2>5. CASE pc \in {4, 5}
    <3>1. inTrain = TrainDocs(LinesOf("train")) /\ \A s \in Set : Len(data[Samples(s)]) = AllPairs(s)
      BY <2>5 DEF LinesInv
    <3>2. pc' \in {5, 6} BY <2>1, <2>5
    <3>3. LinesInv' BY <1>1, <2>1, <3>1, <3>2 DEF LinesInv, LinesOf, Ends, AllPairs, TrainDocs
    <3> QED BY <2>4, <3>3
  <2>6. CASE pc \in {11, 12}
    <3>1. pc' \in {12, 13} BY <2>1, <2>6
    <3>2. LinesInv' BY <3>1 DEF LinesInv
    <3> QED BY <2>4, <3>2
  <2> QED BY <2>1, <2>5, <2>6
<1>14. CASE CloseData
  <2>1. UNCHANGED <<meta, inTrain>> /\ pc' = pc + 1 /\ pc \in {6, 7, 13, 14}
    BY <1>2, <1>14, ScriptSteps DEF CloseData, Continue
  <2>2. PICK n \in 0 .. Len(data[Now]) : data' = [data EXCEPT ![Now] = SubSeq(@, 1, n)]
    BY <1>14 DEF CloseData
  <2>3. ASSUME NEW s \in Set PROVE Part(s, data'[Samples(s)])
    <3>1. CASE Now = Samples(s)
      <4>1. data'[Samples(s)] = SubSeq(data[Samples(s)], 1, n) /\ n \in 0 .. Len(data[Samples(s)])
        BY <1>2, <2>2, <3>1, Files
      <4>2. PICK file \in Seq(Pair) : file = data[Samples(s)] BY <1>4
      <4>3. Part(s, SubSeq(file, 1, n)) BY <1>3, <1>6, <4>1, <4>2, PartOfPart DEF Part
      <4> QED BY <4>1, <4>2, <4>3
    <3>2. CASE Now # Samples(s)
      <4>1. data'[Samples(s)] = data[Samples(s)] BY <1>2, <2>2, <3>2, Files
      <4> QED BY <1>6, <4>1
    <3> QED BY <3>1, <3>2
  <2>4. SamplesInv' BY <1>5, <1>6, <2>1, <2>3
  <2>5. pc' \in {7, 8, 14, 15} BY <2>1
  <2>6. pc' \in {7, 8} => inTrain = TrainDocs(LinesOf("train")) BY <2>1 DEF LinesInv
  <2>7. LinesInv' BY <1>1, <2>1, <2>5, <2>6 DEF LinesInv, TrainDocs, LinesOf
  <2> QED BY <2>4, <2>7
<1>15. CASE Finish
  <2>1. UNCHANGED <<data, meta>> BY <1>15 DEF Finish, disk
  <2>2. pc' = 0 /\ next' = 1 /\ inTrain' = {} /\ \A s \in Set : rows'[s] = 0
    BY <1>15 DEF Finish, Return
  <2>3. SamplesInv' BY <1>7, <2>1
  <2>4. LinesInv' BY <2>2 DEF LinesInv
  <2> QED BY <2>3, <2>4
<1>16. CASE Stop
  <2>1. PICK n \in [opened -> UNION {0 .. Len(data[f]) : f \in opened}] :
          /\ \A f \in opened : n[f] <= Len(data[f])
          /\ data' = [f \in File |-> IF f \in opened THEN SubSeq(data[f], 1, n[f]) ELSE data[f]]
    BY <1>16 DEF Stop
  <2>2. meta' = meta \/ meta' = [meta EXCEPT ![Now] = NoMeta] BY <1>16 DEF Stop
  <2>3. pc' = 0 /\ next' = 1 /\ inTrain' = {} /\ \A s \in Set : rows'[s] = 0
    BY <1>16 DEF Stop, Return
  <2>4. ASSUME NEW s \in Set PROVE Part(s, data'[Samples(s)]) /\ Size0(s)
    <3>1. PICK file \in Seq(Pair) : file = data[Samples(s)] BY <1>4
    <3>2. CASE Samples(s) \in opened
      <4>1. PICK m \in 0 .. Len(file) : m = n[Samples(s)]
        <5>1. PICK g \in opened : n[Samples(s)] \in 0 .. Len(data[g]) BY <2>1, <3>2
        <5>2. n[Samples(s)] <= Len(file) /\ Len(file) \in Nat BY <2>1, <3>1, <3>2
        <5> QED BY <5>1, <5>2
      <4>2. data'[Samples(s)] = SubSeq(file, 1, m) BY <2>1, <3>1, <3>2, <4>1, Files
      <4>3. Part(s, SubSeq(file, 1, m)) BY <1>3, <1>6, <3>1, PartOfPart DEF Part
      <4> QED BY <1>2, <1>6, <2>2, <4>2, <4>3, Files
    <3>3. CASE Samples(s) \notin opened
      <4>1. data'[Samples(s)] = data[Samples(s)] BY <2>1, <3>3, Files
      <4> QED BY <1>2, <1>6, <2>2, <4>1, Files
    <3> QED BY <3>2, <3>3
  <2>5. SamplesInv' BY <1>5, <2>4
  <2>6. LinesInv' BY <2>3 DEF LinesInv
  <2> QED BY <2>5, <2>6
<1> QED BY <1>8, <1>9, <1>10, <1>11, <1>12, <1>13, <1>14, <1>15, <1>16 DEF ConversionStep

------------------------------------------------------------------------------
(* Classes *)

\* Text files in order list every document at one place.
LEMMA OrderOfLines ==
  ASSUME input \in Input, InOrder
  PROVE  /\ \A s \in Set : \A i, j \in 1 .. LinesOf(s) :
              i < j => input.lines[s][i] < input.lines[s][j]
         /\ \A s \in Set : \A i \in 1 .. LinesOf(s) : input.lines[s][i] \in Doc
         /\ \A d \in Doc : \E s \in Set : \E i \in 1 .. LinesOf(s) : input.lines[s][i] = d
         /\ \A i \in 1 .. LinesOf("train") : \A j \in 1 .. LinesOf("test") :
              input.lines["train"][i] # input.lines["test"][j]
<1>1. \A s \in Set : input.lines[s] \in Seq(Doc) BY Rcv1Assumption
<1>2. \A s \in Set : DOMAIN input.lines[s] = 1 .. LinesOf(s) BY <1>1 DEF LinesOf
<1>3. \A s \in Set : \A i \in 1 .. LinesOf(s) : input.lines[s][i] \in Doc BY <1>1 DEF LinesOf
<1> QED BY <1>2, <1>3 DEF InOrder, Set

\* A document of a set is where its own set begins to be written.
LEMMA SetOfLine ==
  ASSUME input \in Input, InOrder, inTrain = TrainDocs(LinesOf("train")),
         NEW d \in Doc
  PROVE  /\ SetOf(d) \in Set
         /\ \E i \in 1 .. LinesOf(SetOf(d)) : input.lines[SetOf(d)][i] = d
         /\ \A t \in Set : t # SetOf(d) => \A i \in 1 .. LinesOf(t) : input.lines[t][i] # d
<1>1. PICK s \in Set : \E i \in 1 .. LinesOf(s) : input.lines[s][i] = d BY OrderOfLines
<1>2. CASE s = "train"
  <2>1. d \in inTrain BY <1>1, <1>2 DEF TrainDocs
  <2>2. SetOf(d) = "train" BY <2>1 DEF SetOf
  <2>3. \A j \in 1 .. LinesOf("test") : input.lines["test"][j] # d BY <1>1, <1>2, OrderOfLines
  <2> QED BY <1>1, <1>2, <2>2, <2>3 DEF Set
<1>3. CASE s = "test"
  <2>1. \A j \in 1 .. LinesOf("train") : input.lines["train"][j] # d BY <1>1, <1>3, OrderOfLines
  <2>2. d \notin inTrain BY <2>1 DEF TrainDocs
  <2>3. SetOf(d) = "test" BY <2>2 DEF SetOf
  <2> QED BY <1>1, <1>3, <2>1, <2>3 DEF Set
<1> QED BY <1>2, <1>3 DEF Set

\* The class of the next document continues the classes of its set.
LEMMA NextClass ==
  ASSUME input \in Input, InOrder, inTrain = TrainDocs(LinesOf("train")),
         NEW d \in Doc, NEW n \in Nat,
         NEW files \in [Set -> Seq(Doc)],
         \A s \in Set : /\ StartsWith(input.lines[s], files[s])
                        /\ \A i \in 1 .. LinesOf(s) :
                             i <= Len(files[s]) <=> Rank(input.lines[s][i]) < n
  PROVE  Rank(d) = n =>
           LET s == SetOf(d)
               file(t) == IF t = s THEN Append(files[t], d) ELSE files[t]
           IN  \A t \in Set : /\ StartsWith(input.lines[t], file(t))
                              /\ \A i \in 1 .. LinesOf(t) :
                                   i <= Len(file(t)) <=> Rank(input.lines[t][i]) < n + 1
<1> SUFFICES ASSUME NEW t \in Set
             PROVE  Rank(d) = n =>
                      LET file == IF t = SetOf(d) THEN Append(files[t], d) ELSE files[t]
                      IN  /\ StartsWith(input.lines[t], file)
                          /\ \A i \in 1 .. LinesOf(t) :
                               i <= Len(file) <=> Rank(input.lines[t][i]) < n + 1
  OBVIOUS
<1>1. \A e \in Doc : Rank(e) \in Nat BY Ranks
<1>2. \A i \in 1 .. LinesOf(t) : input.lines[t][i] \in Doc BY OrderOfLines
<1>3. files[t] \in Seq(Doc) /\ Len(files[t]) \in Nat /\ LinesOf(t) \in Nat BY InputRegular DEF Regular
<1>4. /\ Len(files[t]) <= LinesOf(t)
      /\ \A i \in 1 .. Len(files[t]) : files[t][i] = input.lines[t][i]
      /\ \A i \in 1 .. LinesOf(t) : i <= Len(files[t]) <=> Rank(input.lines[t][i]) < n
  BY DEF StartsWith, LinesOf
<1>5. ASSUME t # SetOf(d), Rank(d) = n
      PROVE  /\ StartsWith(input.lines[t], files[t])
             /\ \A i \in 1 .. LinesOf(t) :
                  i <= Len(files[t]) <=> Rank(input.lines[t][i]) < n + 1
  <2>1. \A i \in 1 .. LinesOf(t) : input.lines[t][i] # d BY <1>5, SetOfLine
  <2>2. \A i \in 1 .. LinesOf(t) : Rank(input.lines[t][i]) # n BY <1>2, <1>5, <2>1, Ranks
  <2>3. \A i \in 1 .. LinesOf(t) : Rank(input.lines[t][i]) < n <=> Rank(input.lines[t][i]) < n + 1
    BY <1>1, <1>2, <2>2
  <2> QED BY <1>4, <2>3
<1>6. ASSUME t = SetOf(d), Rank(d) = n
      PROVE  /\ StartsWith(input.lines[t], Append(files[t], d))
             /\ \A i \in 1 .. LinesOf(t) :
                  i <= Len(Append(files[t], d)) <=> Rank(input.lines[t][i]) < n + 1
  <2>1. PICK k \in 1 .. LinesOf(t) : input.lines[t][k] = d BY <1>6, SetOfLine
  <2>2. ~(k <= Len(files[t])) BY <1>1, <1>4, <1>6, <2>1
  <2>3. \A i \in 1 .. LinesOf(t) : i < k => Rank(input.lines[t][i]) < n
    BY <1>2, <1>6, <2>1, OrderOfLines, Ranks
  <2>4. k = Len(files[t]) + 1
    <3>1. CASE k = 1 BY <1>3, <2>2, <3>1
    <3>2. CASE k > 1
      <4>1. k - 1 \in 1 .. LinesOf(t) /\ k - 1 < k BY <1>3, <3>2
      <4>2. k - 1 <= Len(files[t]) BY <1>4, <2>3, <4>1
      <4> QED BY <1>3, <2>2, <4>2
    <3> QED BY <3>1, <3>2
  <2>5. Len(Append(files[t], d)) = k
        /\ \A i \in 1 .. k : Append(files[t], d)[i] = input.lines[t][i]
    BY <1>3, <1>4, <2>1, <2>4
  <2>6. StartsWith(input.lines[t], Append(files[t], d)) BY <2>5, <1>3 DEF StartsWith, LinesOf
  <2>7. ASSUME NEW i \in 1 .. LinesOf(t) PROVE i <= k <=> Rank(input.lines[t][i]) < n + 1
    <3>1. CASE i < k
      <4>1. Rank(input.lines[t][i]) < n BY <2>3, <3>1
      <4> QED BY <1>1, <1>2, <3>1, <4>1
    <3>2. CASE i = k BY <1>6, <2>1, <3>2
    <3>3. CASE i > k
      <4>1. Rank(d) < Rank(input.lines[t][i]) BY <1>2, <2>1, <3>3, OrderOfLines, Ranks
      <4> QED BY <1>1, <1>2, <1>6, <3>3, <4>1
    <3> QED BY <3>1, <3>2, <3>3
  <2> QED BY <2>5, <2>6, <2>7
<1> QED BY <1>5, <1>6

\* A beginning of a beginning, and nothing, are beginnings.
LEMMA StartOfStart ==
  ASSUME NEW lines \in Seq(Doc), NEW file \in Seq(Doc), NEW n \in 0 .. Len(file)
  PROVE  /\ StartsWith(lines, <<>>)
         /\ StartsWith(lines, file) => StartsWith(lines, SubSeq(file, 1, n))
<1>1. StartsWith(lines, <<>>) BY DEF StartsWith
<1>2. /\ SubSeq(file, 1, n) \in Seq(Doc) /\ Len(SubSeq(file, 1, n)) = n
      /\ \A i \in 1 .. n : SubSeq(file, 1, n)[i] = file[i]
  BY Beginning
<1>3. Len(file) \in Nat /\ Len(lines) \in Nat /\ n \in Nat /\ n <= Len(file) OBVIOUS
<1>4. \A i \in 1 .. n : i \in 1 .. Len(file) BY <1>3
<1> QED BY <1>1, <1>2, <1>3, <1>4 DEF StartsWith

\* What the conversion does to the classes, step by step.
LEMMA ClassesStep == TypeInv /\ LinesInv /\ ClassesInv /\ ConversionStep => ClassesInv'
<1> SUFFICES ASSUME TypeInv, LinesInv, ClassesInv, ConversionStep, InOrder PROVE ClassesInv'
  BY ConversionOnlyWrites DEF ClassesInv, InOrder
<1>1. UNCHANGED input BY ConversionOnlyWrites
<1>2. /\ pc \in 0 .. 15 /\ next \in Nat \ {0}
      /\ data \in [File -> Seq(Pair) \cup Seq(Doc)] /\ meta \in [File -> Uncertain]
      /\ input \in Input
  BY DEF TypeInv
<1>3. \A s \in Set : Regular(s) BY <1>2, InputRegular
<1>4. \A s \in Set : /\ data[Classes(s)] \in Seq(Doc) /\ Len(data[Classes(s)]) \in Nat
                     /\ input.lines[s] \in Seq(Doc) /\ LinesOf(s) \in Nat
  <2> TAKE s \in Set
  <2>1. data[Classes(s)] \in Seq(Doc) BY DEF TypeInv
  <2> QED BY <1>3, <2>1 DEF Regular
<1> DEFINE Start0(s, file) == StartsWith(input.lines[s], file)
           Size0(s) == meta'[Classes(s)] \in {NoMeta, LinesOf(s)}
           Order0(s) == \A i \in 1 .. LinesOf(s) :
                          i <= Len(data'[Classes(s)]) <=> Rank(input.lines[s][i]) < next'
\* What is to be shown.
<1>5. ASSUME \A s \in Set : Start0(s, data'[Classes(s)]) /\ Size0(s),
             pc' = 9 => data'[Classes("train")] = <<>>,
             pc' = 10 => \A s \in Set : Order0(s),
             pc' \in 11 .. 12 => \A s \in Set : Len(data'[Classes(s)]) = LinesOf(s)
      PROVE  ClassesInv'
  BY <1>1, <1>5 DEF ClassesInv, LinesOf, Rank, Below
<1>6. \A s \in Set : Start0(s, data[Classes(s)]) /\ meta[Classes(s)] \in {NoMeta, LinesOf(s)}
  BY DEF ClassesInv
<1>7. ASSUME \A s \in Set : data'[Classes(s)] = data[Classes(s)] /\ meta'[Classes(s)] = meta[Classes(s)]
      PROVE  \A s \in Set : Start0(s, data'[Classes(s)]) /\ Size0(s)
  BY <1>6, <1>7
<1>8. CASE Start
  <2>1. UNCHANGED <<data, meta>> /\ pc' = 1 BY <1>8 DEF Start, disk
  <2> QED BY <1>5, <1>7, <2>1
<1>9. CASE OpenData
  <2>1. UNCHANGED meta /\ next' = 1 /\ pc' = pc + 1 /\ pc \in {1, 2, 8, 9}
        /\ data' = [data EXCEPT ![Now] = <<>>]
    BY <1>2, <1>9, ScriptSteps DEF OpenData, Continue, Opened
  <2>2. \A s \in Set : data'[Classes(s)] = data[Classes(s)] \/ data'[Classes(s)] = <<>>
    BY <1>2, <2>1, Files
  <2>3. \A s \in Set : Start0(s, <<>>) BY <1>4, StartOfStart
  <2>4. \A s \in Set : Start0(s, data'[Classes(s)]) /\ Size0(s) BY <1>6, <2>1, <2>2, <2>3
  <2>5. pc' = 9 => data'[Classes("train")] = <<>>
    <3> SUFFICES ASSUME pc' = 9 PROVE data'[Classes("train")] = <<>>
      OBVIOUS
    <3>1. pc = 8 BY <2>1
    <3> QED BY <1>2, <2>1, <3>1, ScriptSteps, Files DEF Set
  <2>6. pc' = 10 => \A s \in Set : Order0(s)
    <3> SUFFICES ASSUME pc' = 10, NEW s \in Set PROVE Order0(s)
      OBVIOUS
    <3>1. pc = 9 BY <2>1
    <3>2. data'[Classes("test")] = <<>> BY <1>2, <2>1, <3>1, ScriptSteps, Files DEF Set
    <3>3. data[Classes("train")] = <<>> BY <3>1 DEF ClassesInv, Set
    <3>4. data'[Classes(s)] = <<>> BY <2>2, <3>2, <3>3 DEF Set
    <3>5. ASSUME NEW i \in 1 .. LinesOf(s) PROVE ~(Rank(input.lines[s][i]) < 1)
      <4>1. Rank(input.lines[s][i]) \in 1 .. Cardinality(Doc) BY <1>2, OrderOfLines, Ranks
      <4> QED BY <4>1, Ranks
    <3> QED BY <2>1, <3>4, <3>5
  <2>7. pc' \notin 11 .. 12 BY <2>1
  <2> QED BY <1>5, <2>4, <2>5, <2>6, <2>7
<1>10. CASE WriteSample
  <2>1. pc = 3 /\ UNCHANGED <<meta, pc>> BY <1>2, <1>10, ScriptSteps DEF WriteSample
  <2>2. \A s \in Set : data'[Classes(s)] = data[Classes(s)]
    <3>1. PICK s, row : s = SetAt(next) /\ data' = [data EXCEPT ![Samples(s)] = @ \o row]
      BY <1>10 DEF WriteSample
    <3>2. s \in Set BY <3>1 DEF SetAt, Set
    <3> QED BY <1>2, <3>1, <3>2, Files
  <2> QED BY <1>5, <1>7, <2>1, <2>2
<1>11. CASE WriteClass
  <2>1. pc = 10 /\ UNCHANGED <<meta, pc>> /\ next' = next + 1
    BY <1>2, <1>11, ScriptSteps DEF WriteClass
  <2>2. next \in 1 .. Cardinality(Doc) BY <1>2, <1>11, Ranks DEF WriteClass
  <2>3. PICK d \in Doc : d = DocAt(next) /\ Rank(d) = next BY <2>2, Ranks
  <2>4. inTrain = TrainDocs(LinesOf("train")) BY <2>1 DEF LinesInv
  <2>5. SetOf(d) \in Set BY <1>2, <2>4, SetOfLine
  <2>6. data' = [data EXCEPT ![Classes(SetOf(d))] = Append(@, d)] BY <1>11, <2>3 DEF WriteClass
  <2>7. PICK files \in [Set -> Seq(Doc)] : \A s \in Set : files[s] = data[Classes(s)]
    <3>1. [s \in Set |-> data[Classes(s)]] \in [Set -> Seq(Doc)] BY <1>4
    <3> QED BY <3>1
  <2>8. \A t \in Set : data'[Classes(t)] = IF t = SetOf(d) THEN Append(files[t], d) ELSE files[t]
    BY <1>2, <2>5, <2>6, <2>7, Files
  <2>9. \A s \in Set : /\ StartsWith(input.lines[s], files[s])
                       /\ \A i \in 1 .. LinesOf(s) :
                            i <= Len(files[s]) <=> Rank(input.lines[s][i]) < next
    BY <2>1, <2>7 DEF ClassesInv
  <2>10. PICK n \in Nat : n = next BY <1>2
  <2>11. \A t \in Set :
           LET file == IF t = SetOf(d) THEN Append(files[t], d) ELSE files[t]
           IN  /\ StartsWith(input.lines[t], file)
               /\ \A i \in 1 .. LinesOf(t) : i <= Len(file) <=> Rank(input.lines[t][i]) < n + 1
    BY <1>2, <2>3, <2>4, <2>9, <2>10, NextClass
  <2>12. \A t \in Set : Start0(t, data'[Classes(t)]) /\ Order0(t) BY <2>1, <2>8, <2>10, <2>11
  <2> QED BY <1>5, <1>6, <2>1, <2>12
<1>12. CASE EndLoop
  <2>1. UNCHANGED <<data, meta>> /\ pc' = pc + 1 BY <1>12 DEF EndLoop, Continue, disk
  <2>2. CASE pc = 3 BY <1>5, <1>7, <2>1, <2>2
  <2>3. CASE pc = 10
    <3>1. next > Cardinality(Doc) BY <1>2, <1>12, <2>3, ScriptSteps DEF EndLoop
    <3>2. ASSUME NEW s \in Set PROVE Len(data[Classes(s)]) = LinesOf(s)
      <4>1. Len(data[Classes(s)]) <= LinesOf(s) BY <1>6 DEF StartsWith, LinesOf
      <4>2. CASE LinesOf(s) = 0 BY <1>4, <4>1, <4>2
      <4>3. CASE LinesOf(s) # 0
        <5>1. LinesOf(s) \in 1 .. LinesOf(s) BY <1>4, <4>3
        <5>2. Rank(input.lines[s][LinesOf(s)]) \in 1 .. Cardinality(Doc)
          BY <1>2, <5>1, OrderOfLines, Ranks
        <5>3. Rank(input.lines[s][LinesOf(s)]) < next BY <1>2, <3>1, <5>2, Ranks
        <5>4. LinesOf(s) <= Len(data[Classes(s)]) BY <2>3, <5>1, <5>3 DEF ClassesInv
        <5> QED BY <1>4, <4>1, <5>4
      <4> QED BY <4>2, <4>3
    <3>3. pc' = 11 BY <2>1, <2>3
    <3> QED BY <1>5, <1>7, <2>1, <3>2, <3>3
  <2> QED BY <1>2, <1>12, <2>2, <2>3, ScriptSteps DEF EndLoop
<1>13. CASE WriteMeta
  <2>1. UNCHANGED data /\ pc' = pc + 1 /\ pc \in {4, 5, 11, 12}
    BY <1>2, <1>13, ScriptSteps DEF WriteMeta, Continue
  <2>2. meta' = [meta EXCEPT ![Now] = Size(Now)] \/ meta' = [meta EXCEPT ![Now] = NoMeta]
    BY <1>13 DEF WriteMeta
  <2>3. ASSUME NEW s \in Set PROVE Start0(s, data'[Classes(s)]) /\ Size0(s)
    <3>1. CASE Now = Classes(s)
      <4>1. pc \in {11, 12} BY <1>2, <2>1, <3>1, ScriptSteps, Files DEF Set
      <4>2. Size(Now) = LinesOf(s) BY <3>1, <4>1 DEF ClassesInv, Size
      <4>3. Size0(s) BY <1>2, <2>2, <3>1, <4>2, Files
      <4> QED BY <1>6, <2>1, <4>3
    <3>2. CASE Now # Classes(s)
      <4>1. meta'[Classes(s)] = meta[Classes(s)] BY <1>2, <2>2, <3>2, Files
      <4> QED BY <1>6, <2>1, <4>1
    <3> QED BY <3>1, <3>2
  <2>4. pc' \notin {9, 10} /\ (pc' \in 11 .. 12 => pc = 11) BY <2>1
  <2>5. pc' \in 11 .. 12 => \A s \in Set : Len(data'[Classes(s)]) = LinesOf(s)
    BY <2>1, <2>4 DEF ClassesInv
  <2> QED BY <1>5, <2>3, <2>4, <2>5
<1>14. CASE CloseData
  <2>1. UNCHANGED meta /\ pc' = pc + 1 /\ pc \in {6, 7, 13, 14}
    BY <1>2, <1>14, ScriptSteps DEF CloseData, Continue
  <2>2. PICK n \in 0 .. Len(data[Now]) : data' = [data EXCEPT ![Now] = SubSeq(@, 1, n)]
    BY <1>14 DEF CloseData
  <2>3. ASSUME NEW s \in Set PROVE Start0(s, data'[Classes(s)]) /\ Size0(s)
    <3>1. CASE Now = Classes(s)
      <4>1. data'[Classes(s)] = SubSeq(data[Classes(s)], 1, n) /\ n \in 0 .. Len(data[Classes(s)])
        BY <1>2, <2>2, <3>1, Files
      <4>2. Start0(s, SubSeq(data[Classes(s)], 1, n)) BY <1>4, <1>6, <4>1, StartOfStart
      <4> QED BY <1>6, <2>1, <4>1, <4>2
    <3>2. CASE Now # Classes(s)
      <4>1. data'[Classes(s)] = data[Classes(s)] BY <1>2, <2>2, <3>2, Files
      <4> QED BY <1>6, <2>1, <4>1
    <3> QED BY <3>1, <3>2
  <2>4. pc' \notin 9 .. 12 BY <2>1
  <2> QED BY <1>5, <2>3, <2>4
<1>15. CASE Finish
  <2>1. UNCHANGED <<data, meta>> /\ pc' = 0 BY <1>15 DEF Finish, Return, disk
  <2> QED BY <1>5, <1>7, <2>1
<1>16. CASE Stop
  <2>1. PICK n \in [opened -> UNION {0 .. Len(data[f]) : f \in opened}] :
          /\ \A f \in opened : n[f] <= Len(data[f])
          /\ data' = [f \in File |-> IF f \in opened THEN SubSeq(data[f], 1, n[f]) ELSE data[f]]
    BY <1>16 DEF Stop
  <2>2. meta' = meta \/ meta' = [meta EXCEPT ![Now] = NoMeta] BY <1>16 DEF Stop
  <2>3. pc' = 0 BY <1>16 DEF Stop, Return
  <2>4. ASSUME NEW s \in Set PROVE Start0(s, data'[Classes(s)]) /\ Size0(s)
    <3>1. Size0(s) BY <1>2, <1>6, <2>2, Files
    <3>2. CASE Classes(s) \in opened
      <4>1. PICK m \in 0 .. Len(data[Classes(s)]) : m = n[Classes(s)]
        <5>1. PICK g \in opened : n[Classes(s)] \in 0 .. Len(data[g]) BY <2>1, <3>2
        <5>2. n[Classes(s)] <= Len(data[Classes(s)]) BY <2>1, <3>2
        <5> QED BY <1>4, <5>1, <5>2
      <4>2. data'[Classes(s)] = SubSeq(data[Classes(s)], 1, m) BY <2>1, <3>2, <4>1, Files
      <4>3. Start0(s, SubSeq(data[Classes(s)], 1, m)) BY <1>4, <1>6, StartOfStart
      <4> QED BY <3>1, <4>2, <4>3
    <3>3. CASE Classes(s) \notin opened
      <4>1. data'[Classes(s)] = data[Classes(s)] BY <2>1, <3>3, Files
      <4> QED BY <1>6, <3>1, <4>1
    <3> QED BY <3>2, <3>3
  <2> QED BY <1>5, <2>3, <2>4
<1> QED BY <1>8, <1>9, <1>10, <1>11, <1>12, <1>13, <1>14, <1>15, <1>16 DEF ConversionStep

------------------------------------------------------------------------------
(* Batches *)

\* A number is in the batch that its quotient says, at the place of its rest.
LEMMA Division ==
  ASSUME NEW r \in Nat, NEW len \in Nat \ {0}, NEW b \in Nat
  PROVE  /\ r \div len \in Nat /\ r % len \in 0 .. len - 1
         /\ r = len * (r \div len) + (r % len)
         /\ r \div len = b <=> b * len <= r /\ r < (b + 1) * len
         /\ r < b * len => r \div len < b
         /\ \A i \in 0 .. len - 1 : /\ len * b + i \in Nat
                                    /\ b * len <= len * b + i /\ len * b + i < (b + 1) * len
<1>1. r \div len \in Nat /\ r % len \in 0 .. len - 1 /\ r = len * (r \div len) + (r % len) OBVIOUS
<1>2. PICK k \in Nat, m \in 0 .. len - 1 : k = r \div len /\ m = r % len BY <1>1
<1>3. PICK x \in Nat : x = len * k OBVIOUS
<1>4. PICK y \in Nat : y = len * b OBVIOUS
<1>5. b * len = y /\ (b + 1) * len = y + len BY <1>4
<1>6. r = x + m /\ m < len /\ m >= 0 BY <1>1, <1>2, <1>3
<1>7. k >= b + 1 => x >= y + len
  <2>1. ASSUME k >= b + 1 PROVE x >= y + len
    <3>1. PICK z \in Nat : k = b + 1 + z BY <2>1
    <3>2. x = y + len + len * z BY <1>3, <1>4, <3>1
    <3>3. len * z \in Nat OBVIOUS
    <3> QED BY <3>2, <3>3
  <2> QED BY <2>1
<1>8. b >= k + 1 => y >= x + len
  <2>1. ASSUME b >= k + 1 PROVE y >= x + len
    <3>1. PICK z \in Nat : b = k + 1 + z BY <2>1
    <3>2. y = x + len + len * z BY <1>3, <1>4, <3>1
    <3>3. len * z \in Nat OBVIOUS
    <3> QED BY <3>2, <3>3
  <2> QED BY <2>1
<1>9. k = b <=> y <= r /\ r < y + len
  <2>1. k = b => x = y BY <1>3, <1>4
  <2> QED BY <2>1, <1>6, <1>7, <1>8
<1>10. \A i \in 0 .. len - 1 : y + i \in Nat /\ y <= y + i /\ y + i < y + len OBVIOUS
<1>11. r < y => k < b
  <2>1. k = b => x = y BY <1>3, <1>4
  <2> QED BY <2>1, <1>6, <1>7
<1> QED BY <1>1, <1>2, <1>4, <1>5, <1>9, <1>10, <1>11

\* What the batches before b have left of a set.
LEMMA RowsBeforeBatch ==
  ASSUME NEW s, Regular(s), NEW b \in Nat
  PROVE  /\ RowsBefore(s, b) \in 0 .. LinesOf(s) /\ RowsBefore(s, b + 1) \in 0 .. LinesOf(s)
         /\ RowsBefore(s, 0) = 0
         /\ RowsBefore(s, b) <= RowsBefore(s, b + 1)
         /\ \A r \in 0 .. LinesOf(s) - 1 : r < RowsBefore(s, b) <=> r < b * ReadLen
<1>1. LinesOf(s) \in Nat /\ ReadLen \in Nat BY Rcv1Assumption DEF Regular
<1>2. PICK x \in Nat : x = b * ReadLen BY <1>1
<1>3. (b + 1) * ReadLen = x + ReadLen /\ 0 * ReadLen = 0 BY <1>1, <1>2
<1> QED BY <1>1, <1>2, <1>3 DEF RowsBefore

\* The rows of pairs.
LEMMA RowOfPair ==
  ASSUME TypeInv, SamplesInv, NEW s \in Set, NEW p \in 1 .. Len(data[Samples(s)])
  PROVE  \E r \in 0 .. LinesOf(s) - 1 :
           /\ p \in Ends(s)[r] + 1 .. Ends(s)[r + 1]
           /\ data[Samples(s)][p].row = r /\ data[Samples(s)][p].doc = input.lines[s][r + 1]
<1>1. Regular(s) BY InputRegular DEF TypeInv
<1>2. Len(data[Samples(s)]) \in Nat
  <2>1. data[Samples(s)] \in Seq(Pair) BY DEF TypeInv
  <2> QED BY <2>1
<1>3. Len(data[Samples(s)]) <= AllPairs(s) BY DEF SamplesInv, IsPart, AllPairs, Ends, LinesOf
<1>4. AllPairs(s) \in Nat BY <1>1 DEF Regular, AllPairs
<1>5. p \in 1 .. AllPairs(s) BY <1>2, <1>3, <1>4
<1>6. PICK r \in 0 .. LinesOf(s) - 1 : p \in Ends(s)[r] + 1 .. Ends(s)[r + 1]
  BY <1>1, <1>5, PairHasRow
<1>7. data[Samples(s)][p] = [row |-> r, doc |-> input.lines[s][r + 1]]
  BY <1>2, <1>6 DEF SamplesInv, IsPart, Ends, LinesOf
<1> QED BY <1>6, <1>7

\* A batch ends where its last row does, or with the file.
LEMMA BatchEnds ==
  ASSUME TypeInv, SvmTypeInv, SamplesInv, PassInv, svm \in Passes
  PROVE  LET end == Ends(PassSet)[RowsBefore(PassSet, batch + 1)]
             last == IF end <= Len(Pairs) THEN end ELSE Len(Pairs)
         IN  /\ InBatch = nRead + 1 .. last
             /\ ReadAfter = last
             /\ nRead <= last /\ end <= SizeRead
             /\ end \in Nat /\ Len(Pairs) \in Nat /\ SizeRead = AllPairs(PassSet)
<1>1. PICK s : s = PassSet OBVIOUS
<1>2. /\ s \in Set /\ Regular(s) /\ Len(Pairs) \in Nat
      /\ Pairs = data[Samples(s)] /\ SizeRead = meta[Samples(s)] /\ SizeRead \in Nat
  BY <1>1, BatchIsFinite, InputRegular DEF TypeInv, Pairs, SizeRead
<1>3. SizeRead = AllPairs(s) BY <1>2, Rcv1Assumption DEF SamplesInv
<1>4. batch \in Nat /\ nRead \in Nat BY DEF SvmTypeInv
<1>5. PICK lo \in 0 .. LinesOf(s), hi \in 0 .. LinesOf(s) :
        lo = RowsBefore(s, batch) /\ hi = RowsBefore(s, batch + 1)
  BY <1>2, <1>4, RowsBeforeBatch
<1>6. lo <= hi /\ LinesOf(s) \in Nat BY <1>2, <1>4, <1>5, RowsBeforeBatch DEF Regular
<1>7. nRead = Ends(s)[lo] /\ nRead <= Len(Pairs) BY <1>1, <1>5 DEF PassInv
<1>8. PICK end \in Nat : end = Ends(s)[hi] BY <1>2 DEF Regular
<1>9. nRead <= end /\ end <= SizeRead
  <2>1. Ends(s)[lo] <= Ends(s)[hi] /\ Ends(s)[hi] <= Ends(s)[LinesOf(s)]
    BY <1>2, <1>6, EndsGrow
  <2> QED BY <1>3, <1>7, <1>8, <2>1 DEF AllPairs
<1> DEFINE last == IF end <= Len(Pairs) THEN end ELSE Len(Pairs)
<1>10. last \in Nat /\ nRead <= last /\ last <= Len(Pairs) /\ last <= end
  BY <1>2, <1>7, <1>8, <1>9
<1>11. ASSUME NEW p \in 1 .. Len(Pairs) PROVE Pairs[p].row < (batch + 1) * ReadLen <=> p <= end
  <2>1. PICK r \in 0 .. LinesOf(s) - 1 :
          p \in Ends(s)[r] + 1 .. Ends(s)[r + 1] /\ Pairs[p].row = r
    BY <1>2, RowOfPair
  <2>2. r \in 0 .. LinesOf(s) /\ r + 1 \in 0 .. LinesOf(s) BY <1>6
  <2>3. r < hi <=> r < (batch + 1) * ReadLen
    <3>1. batch + 1 \in Nat BY <1>4
    <3> QED BY <1>2, <1>5, <3>1, RowsBeforeBatch
  <2>4. Ends(s)[r] \in Nat /\ Ends(s)[r + 1] \in Nat BY <1>2, <2>2 DEF Regular
  <2>5. CASE r < hi
    <3>1. Ends(s)[r + 1] <= Ends(s)[hi] BY <1>2, <2>2, <2>5, EndsGrow
    <3> QED BY <1>8, <2>1, <2>3, <2>4, <2>5, <3>1
  <2>6. CASE ~(r < hi)
    <3>1. Ends(s)[hi] <= Ends(s)[r] BY <1>2, <2>2, <2>6, EndsGrow
    <3> QED BY <1>8, <2>1, <2>3, <2>4, <2>6, <3>1
  <2> QED BY <2>5, <2>6
<1>12. InBatch = nRead + 1 .. last
  <2>1. ASSUME NEW p \in InBatch PROVE p \in nRead + 1 .. last
    <3>1. p \in nRead + 1 .. SizeRead /\ p <= Len(Pairs) /\ Pairs[p].row < (batch + 1) * ReadLen
      BY DEF InBatch
    <3>2. p \in 1 .. Len(Pairs) BY <1>2, <1>4, <3>1
    <3>3. p <= end BY <1>11, <3>1, <3>2
    <3> QED BY <1>2, <1>4, <1>8, <3>1, <3>3
  <2>2. ASSUME NEW p \in nRead + 1 .. last PROVE p \in InBatch
    <3>1. p \in 1 .. Len(Pairs) /\ p <= end /\ p \in nRead + 1 .. SizeRead /\ p <= Len(Pairs)
      BY <1>2, <1>4, <1>8, <1>9, <1>10, <2>2
    <3> QED BY <1>11, <3>1 DEF InBatch
  <2> QED BY <2>1, <2>2
<1>13. ReadAfter = last
  <2>1. Cardinality(nRead + 1 .. last) = last - nRead
    <3>1. PICK a \in Int, c \in Int : a = nRead + 1 /\ c = last BY <1>4, <1>10
    <3>2. Cardinality(a .. c) = IF a > c THEN 0 ELSE c - a + 1 BY FS_Interval
    <3> HIDE DEF last
    <3> QED BY <1>4, <1>10, <3>1, <3>2
  <2> QED BY <1>4, <1>10, <1>12, <2>1 DEF ReadAfter
<1> QED BY <1>1, <1>2, <1>3, <1>5, <1>8, <1>9, <1>10, <1>12, <1>13

\* A batch that has not failed has the rows from batch * ReadLen on, as many as
\* fit, each with all of its pairs.
LEMMA RowsInBatch ==
  ASSUME TypeInv, SvmTypeInv, SamplesInv, PassInv, svm \in Passes,
         ReadAfter = Ends(PassSet)[RowsBefore(PassSet, batch + 1)],
         NEW i \in 0 .. ReadLen - 1
  PROVE  LET q == ReadLen * batch + i
         IN  /\ q \in Nat
             /\ q < LinesOf(PassSet) =>
                  /\ PairsAt(i) = Ends(PassSet)[q] + 1 .. Ends(PassSet)[q + 1]
                  /\ \A p \in PairsAt(i) : Pairs[p].doc = input.lines[PassSet][q + 1]
             /\ q >= LinesOf(PassSet) => PairsAt(i) = {}
<1>1. PICK s : s = PassSet OBVIOUS
<1>2. s \in Set /\ Regular(s) /\ Pairs = data[Samples(s)] /\ LinesOf(s) \in Nat
  BY <1>1, BatchIsFinite, InputRegular DEF TypeInv, Pairs, Regular
<1>3. batch \in Nat /\ nRead \in Nat /\ ReadLen \in Nat \ {0} BY Rcv1Assumption DEF SvmTypeInv
<1>4. PICK q \in Nat : q = ReadLen * batch + i /\ batch * ReadLen <= q /\ q < (batch + 1) * ReadLen
  BY <1>3, Division
<1>5. PICK lo \in 0 .. LinesOf(s), hi \in 0 .. LinesOf(s) :
        lo = RowsBefore(s, batch) /\ hi = RowsBefore(s, batch + 1)
  BY <1>2, <1>3, RowsBeforeBatch
<1>6. nRead = Ends(s)[lo] /\ nRead <= Len(Pairs) BY <1>1, <1>5 DEF PassInv
<1>7. PICK end \in Nat : end = Ends(s)[hi] BY <1>2, <1>5 DEF Regular
<1>8. InBatch = nRead + 1 .. end /\ end <= Len(Pairs) /\ Len(Pairs) \in Nat
  BY <1>1, <1>5, <1>7, BatchEnds
<1>9. \A r \in 0 .. LinesOf(s) - 1 : (r < lo <=> r < batch * ReadLen)
                                     /\ (r < hi <=> r < (batch + 1) * ReadLen)
  <2>1. batch + 1 \in Nat BY <1>3
  <2> QED BY <1>2, <1>3, <1>5, <2>1, RowsBeforeBatch
<1>10. ASSUME NEW p \in InBatch
       PROVE  \E r \in 0 .. LinesOf(s) - 1 :
                /\ p \in Ends(s)[r] + 1 .. Ends(s)[r + 1]
                /\ Pairs[p].row = r /\ Pairs[p].doc = input.lines[s][r + 1]
                /\ r % ReadLen = i <=> r = q
  <2>1. p \in 1 .. Len(Pairs) /\ p > nRead /\ p <= end BY <1>3, <1>7, <1>8, <1>10
  <2>2. PICK r \in 0 .. LinesOf(s) - 1 :
          /\ p \in Ends(s)[r] + 1 .. Ends(s)[r + 1]
          /\ Pairs[p].row = r /\ Pairs[p].doc = input.lines[s][r + 1]
    BY <1>2, <2>1, RowOfPair
  <2>3. r \in 0 .. LinesOf(s) /\ r + 1 \in 0 .. LinesOf(s) BY <1>2
  <2>4. Ends(s)[r] \in Nat /\ Ends(s)[r + 1] \in Nat BY <1>2, <2>3 DEF Regular
  <2>5. ~(r < lo)
    <3>1. r < lo => Ends(s)[r + 1] <= Ends(s)[lo] BY <1>2, <2>3, EndsGrow
    <3> QED BY <1>3, <1>6, <2>1, <2>2, <2>4, <3>1
  <2>6. r < hi
    <3>1. ~(r < hi) => Ends(s)[hi] <= Ends(s)[r] BY <1>2, <2>3, EndsGrow
    <3> QED BY <1>7, <2>1, <2>2, <2>4, <3>1
  <2>7. r \in Nat /\ batch * ReadLen <= r /\ r < (batch + 1) * ReadLen
    <3>1. PICK x \in Nat : x = batch * ReadLen BY <1>3
    <3> QED BY <1>9, <2>5, <2>6, <3>1
  <2>8. r % ReadLen = i <=> r = q
    <3>1. r \div ReadLen = batch BY <1>3, <2>7, Division
    <3>2. r % ReadLen \in 0 .. ReadLen - 1 /\ r = ReadLen * (r \div ReadLen) + (r % ReadLen)
      BY <1>3, <2>7, Division
    <3>3. PICK m \in 0 .. ReadLen - 1, y \in Nat : m = r % ReadLen /\ y = ReadLen * batch
      BY <1>3, <3>2
    <3>4. r = y + m /\ q = y + i BY <1>4, <3>1, <3>2, <3>3
    <3> QED BY <3>3, <3>4
  <2> QED BY <2>2, <2>8
<1>11. ASSUME NEW p \in PairsAt(i)
       PROVE  /\ q < LinesOf(s) /\ p \in Ends(s)[q] + 1 .. Ends(s)[q + 1]
              /\ Pairs[p].doc = input.lines[s][q + 1]
  <2>1. p \in InBatch /\ Pairs[p].row % ReadLen = i BY DEF PairsAt
  <2>2. PICK r \in 0 .. LinesOf(s) - 1 :
          /\ p \in Ends(s)[r] + 1 .. Ends(s)[r + 1]
          /\ Pairs[p].row = r /\ Pairs[p].doc = input.lines[s][r + 1]
          /\ r % ReadLen = i <=> r = q
    BY <1>10, <2>1
  <2>3. r = q BY <2>1, <2>2
  <2> QED BY <1>2, <2>2, <2>3
<1>12. ASSUME q < LinesOf(s), NEW p \in Ends(s)[q] + 1 .. Ends(s)[q + 1] PROVE p \in PairsAt(i)
  <2>1. q \in 0 .. LinesOf(s) - 1 /\ q \in 0 .. LinesOf(s) /\ q + 1 \in 0 .. LinesOf(s)
    BY <1>2, <1>12
  <2>2. lo <= q /\ q + 1 <= hi
    <3>1. PICK x \in Nat : x = batch * ReadLen BY <1>3
    <3> QED BY <1>4, <1>9, <2>1, <3>1
  <2>3. Ends(s)[lo] <= Ends(s)[q] /\ Ends(s)[q + 1] <= Ends(s)[hi]
    BY <1>2, <2>1, <2>2, EndsGrow
  <2>4. Ends(s)[q] \in Nat /\ Ends(s)[q + 1] \in Nat BY <1>2, <2>1 DEF Regular
  <2>5. p \in InBatch
    <3>1. nRead <= Ends(s)[q] /\ Ends(s)[q + 1] <= end BY <1>6, <1>7, <2>3
    <3>2. p \in Int /\ nRead < p /\ p <= end BY <1>3, <1>12, <2>4, <3>1
    <3> QED BY <1>3, <1>8, <3>2
  <2>6. PICK r \in 0 .. LinesOf(s) - 1 :
          /\ p \in Ends(s)[r] + 1 .. Ends(s)[r + 1] /\ Pairs[p].row = r
          /\ r % ReadLen = i <=> r = q
    BY <1>10, <2>5
  <2>7. r \in 0 .. LinesOf(s) /\ r + 1 \in 0 .. LinesOf(s) BY <1>2
  <2>8. Ends(s)[r] \in Nat /\ Ends(s)[r + 1] \in Nat BY <1>2, <2>7 DEF Regular
  <2>9. ~(r + 1 <= q)
    <3>1. r + 1 <= q => Ends(s)[r + 1] <= Ends(s)[q] BY <1>2, <2>1, <2>7, EndsGrow
    <3> QED BY <1>12, <2>4, <2>6, <2>8, <3>1
  <2>10. ~(q + 1 <= r)
    <3>1. q + 1 <= r => Ends(s)[q + 1] <= Ends(s)[r] BY <1>2, <2>1, <2>7, EndsGrow
    <3> QED BY <1>12, <2>4, <2>6, <2>8, <3>1
  <2>11. r = q BY <2>1, <2>9, <2>10
  <2> QED BY <2>5, <2>6, <2>11 DEF PairsAt
<1>13. q < LinesOf(s) => PairsAt(i) = Ends(s)[q] + 1 .. Ends(s)[q + 1] BY <1>11, <1>12
<1>14. q >= LinesOf(s) => PairsAt(i) = {} BY <1>2, <1>11
<1> QED BY <1>1, <1>4, <1>11, <1>13, <1>14

\* The rows of such a batch are the ones expected of it.
LEMMA BatchIsExpected ==
  ASSUME TypeInv, SvmTypeInv, SamplesInv, PassInv, svm \in Passes,
         ReadAfter = Ends(PassSet)[RowsBefore(PassSet, batch + 1)]
  PROVE  {[row |-> u.row, docs |-> u.docs, pairs |-> u.pairs] : u \in BatchRows}
           = Expected(PassSet, batch + 1)
<1>1. PICK s : s = PassSet OBVIOUS
<1>2. s \in Set /\ Regular(s) /\ LinesOf(s) \in Nat
  BY <1>1, BatchIsFinite, InputRegular DEF TypeInv, Regular
<1>3. batch \in Nat /\ ReadLen \in Nat \ {0} BY Rcv1Assumption DEF SvmTypeInv
<1> DEFINE Doc0(q) == input.lines[s][q + 1]
           Row(q) == [row |-> q, docs |-> {Doc0(q)}, pairs |-> input.pairs[Doc0(q)]]
           Place(i) == ReadLen * batch + i
           Shown(u) == [row |-> u.row, docs |-> u.docs, pairs |-> u.pairs]
\* A row of the batch that is not empty.
<1>4. ASSUME NEW i \in 0 .. ReadLen - 1, Place(i) < LinesOf(s), input.pairs[Doc0(Place(i))] > 0
      PROVE  PairsAt(i) # {} /\ Shown(RowAt(i)) = Row(Place(i))
  <2>1. PICK q \in 0 .. LinesOf(s) - 1 : q = Place(i) BY <1>1, <1>2, <1>4, RowsInBatch
  <2>2. PairsAt(i) = Ends(s)[q] + 1 .. Ends(s)[q + 1]
        /\ \A p \in PairsAt(i) : Pairs[p].doc = Doc0(q)
    BY <1>1, <1>2, <2>1, RowsInBatch
  <2>3. q \in 0 .. LinesOf(s) /\ q + 1 \in 0 .. LinesOf(s) BY <1>2
  <2>4. PICK a \in Nat, n \in Nat : a = Ends(s)[q] /\ n = input.pairs[Doc0(q)]
    BY <1>2, <2>3 DEF Regular
  <2>5. Ends(s)[q + 1] = a + n /\ n > 0 BY <1>2, <1>4, <2>1, <2>4 DEF Regular
  <2>6. PairsAt(i) = a + 1 .. a + n BY <2>2, <2>4, <2>5
  <2>7. PairsAt(i) # {}
    <3>1. a + 1 \in a + 1 .. a + n BY <2>5
    <3> QED BY <2>6, <3>1
  <2>8. {Pairs[p].doc : p \in PairsAt(i)} = {Doc0(q)} BY <2>2, <2>7
  <2>9. Cardinality(PairsAt(i)) = n
    <3>1. PICK b \in Int, c \in Int : b = a + 1 /\ c = a + n OBVIOUS
    <3>2. Cardinality(b .. c) = IF b > c THEN 0 ELSE c - b + 1 BY FS_Interval
    <3> QED BY <2>5, <2>6, <3>1, <3>2
  <2> QED BY <2>1, <2>4, <2>7, <2>8, <2>9 DEF RowAt
\* A place of the batch without pairs.
<1>5. ASSUME NEW i \in 0 .. ReadLen - 1, PairsAt(i) # {}
      PROVE  /\ Place(i) \in Rows(s) /\ BatchOf(Place(i)) = batch + 1
             /\ Place(i) < LinesOf(s) /\ input.pairs[Doc0(Place(i))] > 0
  <2>1. PICK q \in Nat : q = Place(i) BY <1>1, RowsInBatch
  <2>2. q < LinesOf(s) BY <1>1, <1>2, <1>5, <2>1, RowsInBatch
  <2>3. PairsAt(i) = Ends(s)[q] + 1 .. Ends(s)[q + 1] BY <1>1, <2>1, <2>2, RowsInBatch
  <2>4. q \in 0 .. LinesOf(s) - 1 /\ q \in 0 .. LinesOf(s) BY <1>2, <2>2
  <2>5. PICK a \in Nat, n \in Nat : a = Ends(s)[q] /\ n = input.pairs[Doc0(q)]
    BY <1>2, <2>4 DEF Regular
  <2>6. Ends(s)[q + 1] = a + n BY <1>2, <2>4, <2>5 DEF Regular
  <2>7. n > 0 BY <1>5, <2>3, <2>5, <2>6
  <2>8. q \in Rows(s) BY <2>4, <2>5, <2>7 DEF Rows, LinesOf
  <2>9. batch * ReadLen <= q /\ q < (batch + 1) * ReadLen BY <1>3, <2>1, Division
  <2>10. q \div ReadLen = batch BY <1>3, <2>9, Division
  <2> QED BY <2>1, <2>2, <2>5, <2>7, <2>8, <2>10 DEF BatchOf
\* A row that is expected.
<1>6. ASSUME NEW q \in Rows(s), BatchOf(q) = batch + 1
      PROVE  \E i \in 0 .. ReadLen - 1 :
               q = Place(i) /\ Place(i) < LinesOf(s) /\ input.pairs[Doc0(Place(i))] > 0
  <2>1. q \in Nat /\ q < LinesOf(s) /\ input.pairs[Doc0(q)] > 0 BY <1>2 DEF Rows, LinesOf
  <2>2. q \div ReadLen \in Nat BY <1>3, <2>1, Division
  <2>3. q \div ReadLen = batch BY <1>3, <1>6, <2>2 DEF BatchOf
  <2>4. PICK i \in 0 .. ReadLen - 1 : i = q % ReadLen BY <1>3, <2>1, Division
  <2>5. q = ReadLen * batch + i BY <1>3, <2>1, <2>3, <2>4, Division
  <2> QED BY <2>1, <2>5
<1>7. ASSUME NEW x \in {Shown(u) : u \in BatchRows} PROVE x \in Expected(s, batch + 1)
  <2>1. PICK i \in 0 .. ReadLen - 1 : PairsAt(i) # {} /\ x = Shown(RowAt(i)) BY <1>7, RowsOfBatch
  <2>2. x = Row(Place(i)) /\ Place(i) \in Rows(s) /\ BatchOf(Place(i)) = batch + 1
    BY <1>4, <1>5, <2>1
  <2> QED BY <2>2 DEF Expected
<1>8. ASSUME NEW x \in Expected(s, batch + 1) PROVE x \in {Shown(u) : u \in BatchRows}
  <2>1. PICK q \in Rows(s) : BatchOf(q) = batch + 1 /\ x = Row(q) BY <1>8 DEF Expected
  <2>2. PICK i \in 0 .. ReadLen - 1 :
          q = Place(i) /\ Place(i) < LinesOf(s) /\ input.pairs[Doc0(Place(i))] > 0
    BY <1>6, <2>1
  <2>3. PairsAt(i) # {} /\ x = Shown(RowAt(i)) BY <1>4, <2>1, <2>2
  <2>4. RowAt(i) \in BatchRows BY <2>3, RowsOfBatch
  <2> QED BY <2>3, <2>4
<1> QED BY <1>1, <1>7, <1>8

\* A batch that is read ends where its last row does.
LEMMA BatchIsWhole ==
  ASSUME TypeInv, SvmTypeInv, SamplesInv, PassInv, svm \in Passes,
         ~(ReadAfter < SizeRead /\ ReadAfter = Len(Pairs))
  PROVE  /\ ReadAfter = Ends(PassSet)[RowsBefore(PassSet, batch + 1)]
         /\ ReadAfter <= Len(Pairs)
<1>1. PICK end : end = Ends(PassSet)[RowsBefore(PassSet, batch + 1)] OBVIOUS
<1>2. /\ end \in Nat /\ Len(Pairs) \in Nat /\ end <= SizeRead
      /\ ReadAfter = IF end <= Len(Pairs) THEN end ELSE Len(Pairs)
  BY <1>1, BatchEnds
<1>3. SizeRead \in Nat BY BatchIsFinite
<1>4. CASE end <= Len(Pairs) BY <1>1, <1>2, <1>4
<1>5. CASE ~(end <= Len(Pairs)) BY <1>2, <1>3, <1>5
<1> QED BY <1>4, <1>5

\* A pass that has read all pairs has gone through the batches of all rows.
LEMMA PassIsComplete ==
  ASSUME TypeInv, SvmTypeInv, SamplesInv, PassInv, svm \in Passes, nRead >= SizeRead
  PROVE  \A r \in Rows(PassSet) : BatchOf(r) <= batch
<1>1. PICK s : s = PassSet OBVIOUS
<1>2. s \in Set /\ Regular(s) /\ LinesOf(s) \in Nat
  BY <1>1, BatchIsFinite, InputRegular DEF TypeInv, Regular
<1>3. batch \in Nat /\ ReadLen \in Nat \ {0} BY Rcv1Assumption DEF SvmTypeInv
<1>4. PICK lo \in 0 .. LinesOf(s) : lo = RowsBefore(s, batch) BY <1>2, <1>3, RowsBeforeBatch
<1>5. Ends(s)[LinesOf(s)] <= Ends(s)[lo]
  <2>1. nRead = Ends(s)[lo] BY <1>1, <1>4 DEF PassInv
  <2>2. SizeRead = Ends(s)[LinesOf(s)] BY <1>1, BatchEnds DEF AllPairs
  <2>3. nRead \in Nat /\ SizeRead \in Nat BY BatchIsFinite DEF SvmTypeInv
  <2> QED BY <2>1, <2>2, <2>3
<1>6. ASSUME NEW r \in Rows(s) PROVE BatchOf(r) <= batch
  <2>1. r \in 0 .. LinesOf(s) - 1 /\ input.pairs[input.lines[s][r + 1]] > 0 BY DEF Rows, LinesOf
  <2>2. r \in 0 .. LinesOf(s) /\ r + 1 \in 0 .. LinesOf(s) /\ LinesOf(s) \in 0 .. LinesOf(s)
    BY <1>2, <2>1
  <2>3. PICK a \in Nat, n \in Nat : a = Ends(s)[r] /\ n = input.pairs[input.lines[s][r + 1]]
    BY <1>2, <2>1, <2>2 DEF Regular
  <2>4. Ends(s)[r + 1] = a + n /\ n > 0 BY <1>2, <2>1, <2>3 DEF Regular
  <2>5. Ends(s)[r + 1] <= Ends(s)[LinesOf(s)] BY <1>2, <2>2, EndsGrow
  <2>6. ~(lo <= r)
    <3>1. lo <= r => Ends(s)[lo] <= a BY <1>2, <2>2, <2>3, EndsGrow
    <3>2. Ends(s)[lo] \in Nat /\ Ends(s)[LinesOf(s)] \in Nat BY <1>2, <2>2 DEF Regular
    <3> QED BY <1>5, <2>4, <2>5, <3>1, <3>2
  <2>7. r < batch * ReadLen
    <3>1. r < lo BY <2>2, <2>6
    <3> QED BY <1>2, <1>3, <1>4, <2>1, <3>1, RowsBeforeBatch
  <2>8. r \div ReadLen < batch /\ r \div ReadLen \in Nat
    <3>1. r \in Nat BY <2>2
    <3> QED BY <1>3, <2>7, <3>1, Division
  <2> QED BY <1>3, <2>8 DEF BatchOf
<1> QED BY <1>1, <1>6

\* What svm reads, batch by batch and pass by pass.
LEMMA PassStep ==
  TypeInv /\ DiskInv /\ SvmTypeInv /\ SamplesInv /\ BatchesInv /\ PassInv /\ [Next]_vars
    => BatchesInv' /\ PassInv'
<1> SUFFICES ASSUME TypeInv, DiskInv, SvmTypeInv, SamplesInv, BatchesInv, PassInv, [Next]_vars
             PROVE  BatchesInv' /\ PassInv'
  OBVIOUS
<1> DEFINE Shown(batch0) == {[row |-> u.row, docs |-> u.docs, pairs |-> u.pairs] : u \in batch0}
<1>1. UNCHANGED input
  BY ConversionOnlyWrites, SvmOnlyReads, NextIsEither DEF vars
<1>2. \A s \in Set : Regular(s) /\ Ends(s)[RowsBefore(s, 0)] = 0
  <2> TAKE s \in Set
  <2>1. Regular(s) BY InputRegular DEF TypeInv
  <2>2. RowsBefore(s, 0) = 0 BY <2>1, RowsBeforeBatch
  <2> QED BY <2>1, <2>2 DEF Regular
<1>3. ASSUME used' = used PROVE BatchesInv'
  BY <1>1, <1>3 DEF BatchesInv, Expected, Rows, BatchOf
<1>4. \A s \in Set : used[s] \in Seq(SUBSET UsedRow) /\ Len(used[s]) \in Nat
  <2> TAKE s \in Set
  <2>1. used[s] \in Seq(SUBSET UsedRow) BY DEF SvmTypeInv
  <2> QED BY <2>1
<1>5. trainSet \in Set /\ Other(trainSet) \in Set /\ Other(trainSet) # trainSet
      /\ Set = {trainSet, Other(trainSet)}
  BY DEF SvmTypeInv, Other, Set
<1>6. CASE ConversionStep
  <2>1. svm' = "idle" /\ svm = "idle" /\ UNCHANGED <<batch, nRead, used>>
    BY <1>6, ConvertsAlone
  <2>2. PassInv' BY <2>1 DEF PassInv, Passes
  <2> QED BY <1>3, <2>1, <2>2
<1>7. ASSUME SvmStep PROVE UNCHANGED <<data, meta>> BY <1>7, SvmOnlyReads DEF disk
<1>8. CASE StartSvm
  <2>1. svm' = "meta" /\ svm = "idle" /\ UNCHANGED <<batch, nRead, used>> BY <1>8 DEF StartSvm
  <2>2. PassInv' BY <2>1 DEF PassInv, Passes
  <2> QED BY <1>3, <2>1, <2>2
<1>9. CASE ReadMeta
  <2>1. svm' \in {"failed", "classes"} /\ svm = "meta" /\ UNCHANGED <<batch, nRead, used>>
    BY <1>9 DEF ReadMeta
  <2>2. PassInv' BY <2>1 DEF PassInv, Passes
  <2> QED BY <1>3, <2>1, <2>2
<1>10. CASE ReadClasses
  <2>1. svm' \in {"failed", "minmax"} /\ svm = "classes" /\ UNCHANGED <<trainSet, batch, nRead, used>>
    BY <1>10 DEF ReadClasses
  <2>2. batch = 0 /\ nRead = 0 /\ \A s \in Set : used[s] = <<>> BY <2>1 DEF PassInv
  <2>3. PassInv'
    <3>1. CASE svm' = "failed" BY <3>1 DEF PassInv, Passes
    <3>2. CASE svm' = "minmax"
      <4>1. PassSet' = trainSet BY <2>1, <3>2 DEF PassSet
      <4>2. Len(Pairs') \in Nat
        <5>1. Pairs' = data[Samples(trainSet)] BY <1>7, <1>10, <4>1 DEF Pairs, SvmStep
        <5>2. data[Samples(trainSet)] \in Seq(Pair) BY <1>5 DEF TypeInv
        <5> QED BY <5>1, <5>2
      <4>3. nRead' = Ends(trainSet)[RowsBefore(trainSet, batch')] /\ nRead' <= Len(Pairs')
        BY <1>2, <1>5, <2>1, <2>2, <4>2
      <4> QED BY <1>1, <2>1, <2>2, <3>2, <4>1, <4>3 DEF PassInv, Ends, RowsBefore, LinesOf
    <3> QED BY <2>1, <3>1, <3>2
  <2> QED BY <1>3, <2>1, <2>3
<1>11. CASE ReadBatch
  <2>1. svm \in Passes /\ UNCHANGED <<data, trainSet>> BY <1>7, <1>11 DEF ReadBatch, SvmStep
  <2>2. CASE ReadAfter < SizeRead /\ ReadAfter = Len(Pairs)
    <3>1. svm' = "failed" /\ UNCHANGED <<batch, nRead, used>> BY <1>11, <2>2 DEF ReadBatch
    <3>2. PassInv' BY <3>1 DEF PassInv, Passes
    <3> QED BY <1>3, <3>1, <3>2
  <2>3. CASE ~(ReadAfter < SizeRead /\ ReadAfter = Len(Pairs))
    <3>1. /\ nRead' = ReadAfter /\ batch' = batch + 1 /\ svm' = svm
          /\ used' = IF svm = "minmax" THEN used ELSE [used EXCEPT ![PassSet] = Append(@, BatchRows)]
      BY <1>11, <2>3 DEF ReadBatch
    <3>2. PICK s \in Set : s = PassSet /\ PassSet' = s /\ Pairs' = Pairs
      BY <2>1, <3>1, BatchIsFinite DEF PassSet, Pairs
    <3>3. ReadAfter = Ends(s)[RowsBefore(s, batch + 1)] /\ ReadAfter <= Len(Pairs)
      BY <2>1, <2>3, <3>2, BatchIsWhole
    <3>4. nRead' = Ends(s)[RowsBefore(s, batch')] /\ nRead' <= Len(Pairs')
      BY <3>1, <3>2, <3>3
    <3>5. (Ends(PassSet)[RowsBefore(PassSet, batch)])' = Ends(s)[RowsBefore(s, batch')]
      BY <1>1, <3>2 DEF Ends, RowsBefore, LinesOf
    <3>6. CASE svm = "minmax"
      <4>1. PassInv' BY <3>1, <3>4, <3>5, <3>6 DEF PassInv, Passes
      <4> QED BY <1>3, <3>1, <3>6, <4>1
    <3>7. CASE svm \in {"fit", "test"}
      <4>1. \A t \in Set : used'[t] = IF t = s THEN Append(used[s], BatchRows) ELSE used[t]
        BY <3>1, <3>2, <3>7 DEF SvmTypeInv
      <4>2. Len(used[s]) = batch
        BY <3>2, <3>7 DEF PassInv, PassSet
      <4>3. BatchRows \in SUBSET UsedRow BY <2>1, BatchType
      <4>4. /\ Len(Append(used[s], BatchRows)) = batch + 1
            /\ \A k \in 1 .. batch : Append(used[s], BatchRows)[k] = used[s][k]
            /\ Append(used[s], BatchRows)[batch + 1] = BatchRows
        BY <1>4, <4>2, <4>3, Appended
      <4>5. Shown(BatchRows) = Expected(s, batch + 1)
        BY <2>1, <3>2, <3>3, BatchIsExpected
      <4>6. \A t \in Set : \A k \in 1 .. Len(used[t]) : Shown(used[t][k]) = Expected(t, k)
        BY DEF BatchesInv
      <4>7. ASSUME NEW t \in Set, NEW k \in 1 .. Len(used'[t]) PROVE Shown(used'[t][k]) = Expected(t, k)
        <5>1. CASE t # s BY <4>1, <4>6, <5>1
        <5>2. CASE t = s
          <6>1. k \in 1 .. batch + 1 /\ batch \in Nat BY <4>1, <4>4, <5>2 DEF SvmTypeInv
          <6>2. CASE k = batch + 1 BY <4>1, <4>4, <4>5, <5>2, <6>2
          <6>3. CASE k # batch + 1
            <7>1. k \in 1 .. batch BY <6>1, <6>3
            <7>2. used'[t][k] = used[s][k] BY <4>1, <4>4, <5>2, <7>1
            <7>3. Shown(used[s][k]) = Expected(s, k) BY <4>2, <4>6, <7>1
            <7> QED BY <5>2, <7>2, <7>3
          <6> QED BY <6>2, <6>3
        <5> QED BY <5>1, <5>2
      <4>8. BatchesInv'
        <5>1. \A t \in Set : \A k : Expected(t, k)' = Expected(t, k)
          BY <1>1 DEF Expected, Rows, BatchOf
        <5>2. \A t \in Set : \A k \in 1 .. Len(used'[t]) :
                 {[row |-> u.row, docs |-> u.docs, pairs |-> u.pairs] : u \in used'[t][k]} =
                 Expected(t, k)'
          BY <4>7, <5>1
        <5> QED BY <5>2 DEF BatchesInv
      <4>9. Len(used'[s]) = batch' BY <3>1, <4>1, <4>4
      <4>10. \A t \in Set : t # s => used'[t] = used[t] BY <4>1
      <4>11. CASE svm = "fit"
        <5>1. s = trainSet BY <3>2, <4>11 DEF PassSet
        <5>2. used'[Other(trainSet)] = <<>> BY <1>5, <4>10, <4>11, <5>1 DEF PassInv
        <5>3. PassInv' BY <2>1, <3>1, <3>4, <3>5, <4>9, <4>11, <5>1, <5>2 DEF PassInv, Passes, Other
        <5> QED BY <4>8, <5>3
      <4>12. CASE svm = "test"
        <5>1. s = Other(trainSet) BY <3>2, <4>12 DEF PassSet
        <5>2. used'[trainSet] = used[trainSet] BY <1>5, <4>10, <5>1
        <5>3. Complete(trainSet)
          BY <4>12 DEF PassInv
        <5>4. Complete(trainSet)' BY <1>1, <2>1, <5>2, <5>3 DEF Complete, Rows, BatchOf
        <5>5. PassInv' BY <2>1, <3>1, <3>4, <3>5, <4>9, <4>12, <5>1, <5>4 DEF PassInv, Passes, Other
        <5> QED BY <4>8, <5>5
      <4> QED BY <3>7, <4>11, <4>12
    <3> QED BY <2>1, <3>6, <3>7 DEF Passes
  <2> QED BY <2>2, <2>3
<1>12. CASE EndPass
  <2>1. svm \in Passes /\ svm' = AfterPass /\ batch' = 0 /\ nRead' = 0 /\ nRead >= SizeRead
        /\ UNCHANGED <<data, trainSet, used>>
    BY <1>7, <1>12 DEF EndPass, SvmStep
  <2>2. \A r \in Rows(PassSet) : BatchOf(r) <= batch BY <2>1, PassIsComplete
  <2>3. ASSUME svm' \in Passes
        PROVE  (nRead = Ends(PassSet)[RowsBefore(PassSet, batch)] /\ nRead <= Len(Pairs))'
    <3>1. PICK s \in Set : s = PassSet' BY <1>5, <2>1 DEF PassSet, Other, Set
    <3>2. Len(Pairs') \in Nat
      <4>1. Pairs' = data[Samples(s)] BY <2>1, <3>1 DEF Pairs
      <4>2. data[Samples(s)] \in Seq(Pair) BY DEF TypeInv
      <4> QED BY <4>1, <4>2
    <3>3. nRead' = Ends(s)[RowsBefore(s, batch')] /\ nRead' <= Len(Pairs') BY <1>2, <2>1, <3>2
    <3> QED BY <1>1, <3>1, <3>3 DEF Ends, RowsBefore, LinesOf
  <2>4. CASE svm = "minmax"
    <3>1. svm' = "fit" BY <2>1, <2>4 DEF AfterPass
    <3>2. \A s \in Set : used[s] = <<>> BY <2>4 DEF PassInv
    <3>3. PassInv' BY <1>5, <2>1, <2>3, <3>1, <3>2 DEF PassInv, Passes, Other
    <3> QED BY <1>3, <2>1, <3>3
  <2>5. CASE svm = "fit"
    <3>1. svm' = "test" BY <2>1, <2>5 DEF AfterPass
    <3>2. Len(used[trainSet]) = batch /\ used[Other(trainSet)] = <<>> BY <2>5 DEF PassInv
    <3>3. Complete(trainSet) BY <2>2, <2>5, <3>2 DEF Complete, PassSet
    <3>4. Complete(trainSet)' BY <1>1, <2>1, <3>3 DEF Complete, Rows, BatchOf
    <3>5. PassInv' BY <2>1, <2>3, <3>1, <3>2, <3>4 DEF PassInv, Passes, Other
    <3> QED BY <1>3, <2>1, <3>5
  <2>6. CASE svm = "test"
    <3>1. svm' = "ok" BY <2>1, <2>6 DEF AfterPass
    <3>2. Complete(trainSet) /\ Len(used[Other(trainSet)]) = batch BY <2>6 DEF PassInv
    <3>3. Complete(Other(trainSet)) BY <2>2, <2>6, <3>2 DEF Complete, PassSet
    <3>4. \A s \in Set : Complete(s) BY <1>5, <3>2, <3>3
    <3>5. \A s \in Set : Complete(s)' BY <1>1, <2>1, <3>4 DEF Complete, Rows, BatchOf
    <3>6. PassInv' BY <3>1, <3>5 DEF PassInv, Passes
    <3> QED BY <1>3, <2>1, <3>6
  <2> QED BY <2>1, <2>4, <2>5, <2>6 DEF Passes
<1>13. CASE UNCHANGED vars
  <2>1. UNCHANGED <<data, svm, trainSet, batch, nRead, used>> BY <1>13 DEF vars, disk, reading
  <2>2. PassInv'
    BY <1>1, <2>1 DEF PassInv, PassSet, Pairs, Ends, RowsBefore, LinesOf, Complete, Rows, BatchOf, Other
  <2> QED BY <1>3, <2>1, <2>2
<1> QED BY <1>6, <1>8, <1>9, <1>10, <1>11, <1>12, <1>13, NextIsEither DEF SvmStep

\* The classes that svm has read are those of the rows.
LEMMA LabelsStep ==
  /\ TypeInv /\ DiskInv /\ SvmTypeInv /\ SamplesInv /\ ClassesInv /\ PassInv /\ LabelsInv
  /\ [Next]_vars
  => LabelsInv'
<1> SUFFICES ASSUME TypeInv, DiskInv, SvmTypeInv, SamplesInv, ClassesInv, PassInv, LabelsInv,
                    [Next]_vars, InOrder
             PROVE  LabelsInv'
  BY ConversionOnlyWrites, SvmOnlyReads, NextIsEither DEF vars, LabelsInv, InOrder
<1> DEFINE Read(s) == /\ Len(labels'[s]) = LinesOf(s)
                      /\ \A i \in 1 .. LinesOf(s) : labels'[s][i] = input.lines[s][i]
           Right(rows0) == \A u \in rows0 : u.docs = {u.label}
<1>1. UNCHANGED input
  BY ConversionOnlyWrites, SvmOnlyReads, NextIsEither DEF vars
<1>2. ASSUME svm' \in Passes => \A s \in Set : Read(s),
             \A s \in Set : \A k \in 1 .. Len(used'[s]) : Right(used'[s][k])
      PROVE  LabelsInv'
  BY <1>1, <1>2 DEF LabelsInv, LinesOf, Passes
<1>3. \A s \in Set : \A k \in 1 .. Len(used[s]) : Right(used[s][k]) BY DEF LabelsInv
<1>4. ASSUME svm \in Passes, labels' = labels PROVE \A s \in Set : Read(s)
  BY <1>4 DEF LabelsInv
<1>5. CASE ConversionStep
  <2>1. svm' = "idle" /\ used' = used BY <1>5, ConvertsAlone
  <2> QED BY <1>2, <1>3, <2>1 DEF Passes
<1>6. CASE StartSvm
  <2>1. svm' = "meta" /\ used' = used BY <1>6 DEF StartSvm
  <2> QED BY <1>2, <1>3, <2>1 DEF Passes
<1>7. CASE ReadMeta
  <2>1. svm' \in {"failed", "classes"} /\ used' = used BY <1>7 DEF ReadMeta
  <2> QED BY <1>2, <1>3, <2>1 DEF Passes
<1>8. CASE ReadClasses
  <2>1. svm = "classes" /\ used' = used BY <1>8 DEF ReadClasses
  <2>2. CASE \E s \in Set : Len(data[Classes(s)]) < meta[Classes(s)]
    <3>1. svm' = "failed" BY <1>8, <2>2 DEF ReadClasses
    <3> QED BY <1>2, <1>3, <2>1, <3>1 DEF Passes
  <2>3. CASE ~\E s \in Set : Len(data[Classes(s)]) < meta[Classes(s)]
    <3>1. labels' = [s \in Set |-> SubSeq(data[Classes(s)], 1, meta[Classes(s)])]
      BY <1>8, <2>3 DEF ReadClasses
    <3>2. ASSUME NEW s \in Set PROVE Read(s)
      <4>1. meta[Classes(s)] \in Nat BY <2>1, Files DEF SvmTypeInv
      <4>2. meta[Classes(s)] = LinesOf(s) BY <4>1, Rcv1Assumption DEF ClassesInv
      <4>3. PICK file \in Seq(Doc) : file = data[Classes(s)] BY DEF TypeInv
      <4>4. Len(file) <= LinesOf(s) /\ \A i \in 1 .. Len(file) : file[i] = input.lines[s][i]
        BY <4>3 DEF ClassesInv, StartsWith, LinesOf
      <4>5. Len(file) \in Nat /\ LinesOf(s) \in Nat /\ ~(Len(file) < LinesOf(s))
        BY <2>3, <4>1, <4>2, <4>3
      <4>6. PICK n \in 0 .. Len(file) : n = LinesOf(s) BY <4>4, <4>5
      <4>7. labels'[s] = SubSeq(file, 1, n) BY <3>1, <4>2, <4>3, <4>6
      <4>8. Len(SubSeq(file, 1, n)) = n /\ \A i \in 1 .. n : SubSeq(file, 1, n)[i] = file[i]
        BY Beginning
      <4> QED BY <4>4, <4>5, <4>6, <4>7, <4>8
    <3> QED BY <1>2, <1>3, <2>1, <3>2
  <2> QED BY <2>2, <2>3
<1>9. CASE ReadBatch
  <2>1. svm \in Passes /\ labels' = labels BY <1>9 DEF ReadBatch
  <2>2. CASE ReadAfter < SizeRead /\ ReadAfter = Len(Pairs)
    <3>1. svm' = "failed" /\ used' = used BY <1>9, <2>2 DEF ReadBatch
    <3> QED BY <1>2, <1>3, <3>1 DEF Passes
  <2>3. CASE ~(ReadAfter < SizeRead /\ ReadAfter = Len(Pairs))
    <3>1. used' = IF svm = "minmax" THEN used ELSE [used EXCEPT ![PassSet] = Append(@, BatchRows)]
      BY <1>9, <2>3 DEF ReadBatch
    <3>2. PICK s \in Set : s = PassSet BY <2>1, BatchIsFinite
    <3>3. ReadAfter = Ends(s)[RowsBefore(s, batch + 1)] BY <2>1, <2>3, <3>2, BatchIsWhole
    <3>4. Right(BatchRows)
      <4> SUFFICES ASSUME NEW i \in 0 .. ReadLen - 1, PairsAt(i) # {}
                   PROVE  RowAt(i).docs = {RowAt(i).label}
        BY RowsOfBatch
      <4>1. PICK q \in Nat : q = ReadLen * batch + i BY <2>1, <3>2, <3>3, RowsInBatch
      <4>2. LinesOf(s) \in Nat BY InputRegular DEF TypeInv, Regular
      <4>3. q < LinesOf(s) BY <2>1, <3>2, <3>3, <4>1, <4>2, RowsInBatch
      <4>4. \A p \in PairsAt(i) : Pairs[p].doc = input.lines[s][q + 1]
        BY <2>1, <3>2, <3>3, <4>1, <4>3, RowsInBatch
      <4>5. Len(labels[s]) = LinesOf(s) /\ \A j \in 1 .. LinesOf(s) : labels[s][j] = input.lines[s][j]
        BY <2>1 DEF LabelsInv
      <4>6. q + 1 \in 1 .. LinesOf(s) BY <4>2, <4>3
      <4>7. Label(i) = input.lines[s][q + 1] BY <3>2, <4>1, <4>3, <4>5, <4>6 DEF Label, ClassIdx
      <4>8. {Pairs[p].doc : p \in PairsAt(i)} = {input.lines[s][q + 1]} BY <4>4
      <4> QED BY <4>7, <4>8 DEF RowAt
    <3>5. CASE svm = "minmax" BY <1>2, <1>3, <1>4, <2>1, <3>1, <3>5
    <3>6. CASE svm # "minmax"
      <4>1. \A t \in Set : used'[t] = IF t = s THEN Append(used[s], BatchRows) ELSE used[t]
        BY <3>1, <3>2, <3>6 DEF SvmTypeInv
      <4>2. used[s] \in Seq(SUBSET UsedRow) /\ BatchRows \in SUBSET UsedRow
        BY <2>1, BatchType DEF SvmTypeInv
      <4>3. PICK n \in Nat : n = Len(used[s]) BY <4>2
      <4>4. /\ Len(Append(used[s], BatchRows)) = n + 1
            /\ \A k \in 1 .. n : Append(used[s], BatchRows)[k] = used[s][k]
            /\ Append(used[s], BatchRows)[n + 1] = BatchRows
        BY <4>2, <4>3, Appended
      <4>5. ASSUME NEW t \in Set, NEW k \in 1 .. Len(used'[t]) PROVE Right(used'[t][k])
        <5>1. CASE t # s BY <1>3, <4>1, <5>1
        <5>2. CASE t = s
          <6>1. k \in 1 .. n + 1 /\ used'[t] = Append(used[s], BatchRows) BY <4>1, <4>4, <5>2
          <6>2. CASE k = n + 1 BY <3>4, <4>4, <6>1, <6>2
          <6>3. CASE k # n + 1
            <7>1. k \in 1 .. n BY <6>1, <6>3
            <7>2. used'[t][k] = used[s][k] BY <4>4, <6>1, <7>1
            <7> QED BY <1>3, <4>3, <7>1, <7>2
          <6> QED BY <6>2, <6>3
        <5> QED BY <5>1, <5>2
      <4> QED BY <1>2, <1>4, <2>1, <4>5
    <3> QED BY <3>5, <3>6
  <2> QED BY <2>2, <2>3
<1>10. CASE EndPass
  <2>1. svm \in Passes /\ labels' = labels /\ used' = used BY <1>10 DEF EndPass
  <2> QED BY <1>2, <1>3, <1>4, <2>1
<1>11. CASE UNCHANGED vars
  <2>1. svm' = svm /\ labels' = labels /\ used' = used BY <1>11 DEF vars, reading
  <2> QED BY <1>2, <1>3, <1>4, <2>1
<1> QED BY <1>5, <1>6, <1>7, <1>8, <1>9, <1>10, <1>11, NextIsEither DEF SvmStep

------------------------------------------------------------------------------
(* Theorems *)

IInv ==
  /\ TypeInv /\ DiskInv /\ SvmTypeInv /\ FailInv
  /\ SamplesInv /\ LinesInv /\ ClassesInv
  /\ BatchesInv /\ PassInv /\ LabelsInv

\* Before the first run there are no files, and nothing has been read.
LEMMA InitInvariant == Init => IInv
<1> SUFFICES ASSUME Init PROVE IInv
  OBVIOUS
<1>1. /\ input \in Input
      /\ data = [f \in File |-> <<>>] /\ meta = [f \in File |-> NoMeta]
      /\ opened = {} /\ pc = 0 /\ next = 1 /\ inTrain = {} /\ rows = [s \in Set |-> 0]
      /\ runs = 0 /\ result = "none" /\ lost = FALSE
      /\ svm = "idle" /\ trainSet = "train" /\ batch = 0 /\ nRead = 0
      /\ labels = [s \in Set |-> <<>>] /\ used = [s \in Set |-> <<>>]
  BY DEF Init
<1>2. \A s \in Set : /\ data[Samples(s)] = <<>> /\ data[Classes(s)] = <<>>
                     /\ meta[Samples(s)] = NoMeta /\ meta[Classes(s)] = NoMeta
                     /\ used[s] = <<>> /\ rows[s] = 0
  BY <1>1, Files
<1>3. TypeInv
  <2>1. data \in [File -> Seq(Pair) \cup Seq(Doc)] BY <1>1
  <2>2. \A s \in Set : data[Samples(s)] \in Seq(Pair) /\ data[Classes(s)] \in Seq(Doc)
    <3>1. <<>> \in Seq(Pair) /\ <<>> \in Seq(Doc) OBVIOUS
    <3> QED BY <1>2, <3>1
  <2>3. meta \in [File -> Uncertain] BY <1>1 DEF Uncertain
  <2>4. lost \in BOOLEAN /\ result \in {"none", "ok", "failed"} BY <1>1
  <2>5. /\ opened \subseteq File /\ pc \in 0 .. 15 /\ next \in Nat \ {0} /\ rows \in [Set -> Nat]
        /\ inTrain \subseteq Doc /\ runs \in Nat
    BY <1>1
  <2> QED BY <1>1, <2>1, <2>2, <2>3, <2>4, <2>5 DEF TypeInv
<1>4. DiskInv
  <2>1. \A f \in File : MetaAt(f) \in {4, 5, 11, 12} BY <1>3, MetaSteps DEF TypeInv
  <2>2. \A f \in File : ~(pc > MetaAt(f)) /\ ~(pc = 0 /\ result = "ok") BY <1>1, <2>1
  <2> QED BY <1>1, <2>2 DEF DiskInv
<1>5. SvmTypeInv
  <2>1. labels \in [Set -> Seq(Doc)] /\ used \in [Set -> Seq(SUBSET UsedRow)] BY <1>1
  <2> QED BY <1>1, <2>1 DEF SvmTypeInv, Passes, Set
<1>6. FailInv BY <1>1 DEF FailInv
<1>7. SamplesInv
  <2> SUFFICES ASSUME NEW s \in Set PROVE IsPart(input.lines[s], input.pairs, <<>>)
    BY <1>2 DEF SamplesInv
  <2>1. Regular(s) BY <1>1, InputRegular
  <2> QED BY <2>1, NothingIsPart
<1>8. LinesInv BY <1>1, <1>2 DEF LinesInv
<1>9. ClassesInv
  <2>1. \A s \in Set : StartsWith(input.lines[s], <<>>)
    <3> TAKE s \in Set
    <3>1. Regular(s) BY <1>1, InputRegular
    <3> QED BY <3>1 DEF StartsWith, Regular, LinesOf
  <2> QED BY <1>1, <1>2, <2>1 DEF ClassesInv
<1>10. BatchesInv BY <1>2 DEF BatchesInv
<1>11. PassInv BY <1>1, <1>2 DEF PassInv, Passes
<1>12. LabelsInv BY <1>1, <1>2 DEF LabelsInv, Passes
<1> QED BY <1>3, <1>4, <1>5, <1>6, <1>7, <1>8, <1>9, <1>10, <1>11, <1>12 DEF IInv

\* Every step of the conversion, of svm, of a kill or a lost write keeps it all.
LEMMA InvariantStep == IInv /\ [Next]_vars => IInv'
<1> SUFFICES ASSUME IInv, [Next]_vars PROVE IInv'
  OBVIOUS
<1>1. TypeInv' /\ DiskInv' /\ SvmTypeInv' /\ FailInv'
  BY TypeStep, DiskStep, SvmTypeStep, FailStep DEF IInv
<1>2. SamplesInv' /\ LinesInv' /\ ClassesInv'
  <2>1. CASE ConversionStep BY <2>1, SamplesStep, ClassesStep DEF IInv
  <2>2. CASE SvmStep \/ UNCHANGED vars
    <3>1. UNCHANGED <<input, data, meta, pc, next, rows, inTrain>>
      BY <2>2, SvmOnlyReads DEF vars, disk, conversion
    <3>2. SamplesInv' BY <3>1 DEF IInv, SamplesInv, AllPairs, Ends, LinesOf
    <3>3. LinesInv' BY <3>1 DEF IInv, LinesInv, AllPairs, Ends, LinesOf, TrainDocs
    <3>4. ClassesInv' BY <3>1 DEF IInv, ClassesInv, InOrder, LinesOf
    <3> QED BY <3>2, <3>3, <3>4
  <2> QED BY <2>1, <2>2, NextIsEither
<1>3. BatchesInv' /\ PassInv' BY PassStep DEF IInv
<1>4. LabelsInv' BY LabelsStep DEF IInv
<1> QED BY <1>1, <1>2, <1>3, <1>4 DEF IInv

\* Whatever is killed, lost or run again, the disk holds beginnings of what a
\* conversion writes, and svm has read whole batches of it.
THEOREM Rcv1Invariant == Spec => []IInv
<1> QED BY InitInvariant, InvariantStep, PTL DEF Spec

\* svm fails only after a conversion that has failed or lost data unnoticed.
THEOREM Rcv1Readable == Spec => []Readable
<1>1. IInv => Readable BY DEF IInv, FailInv, Readable
<1> QED BY <1>1, Rcv1Invariant, PTL

\* An experiment that ends well has used every document that is not empty once,
\* at its row, in its batch and with all of its features.
THEOREM Rcv1SvmWhole == Spec => []SvmWhole
<1>1. IInv => SvmWhole
  <2> SUFFICES ASSUME IInv, svm = "ok", NEW s \in Set
               PROVE  /\ \A k \in DOMAIN used[s] :
                           {[row |-> u.row, docs |-> u.docs, pairs |-> u.pairs] : u \in used[s][k]}
                             = Expected(s, k)
                      /\ \A r \in Rows(s) : BatchOf(r) \in DOMAIN used[s]
    BY DEF SvmWhole
  <2>1. used[s] \in Seq(SUBSET UsedRow) BY DEF IInv, SvmTypeInv
  <2>2. DOMAIN used[s] = 1 .. Len(used[s]) /\ Len(used[s]) \in Nat BY <2>1
  <2>3. Regular(s) BY InputRegular DEF IInv, TypeInv
  <2>4. ASSUME NEW r \in Rows(s) PROVE BatchOf(r) \in 1 .. Len(used[s])
    <3>1. r \in Nat BY <2>3 DEF Rows, Regular, LinesOf
    <3>2. r \div ReadLen \in Nat BY <3>1, Rcv1Assumption, Division
    <3>3. BatchOf(r) <= Len(used[s]) BY DEF IInv, PassInv, Complete
    <3>4. BatchOf(r) \in Nat \ {0} BY <3>2 DEF BatchOf
    <3> QED BY <2>2, <3>3, <3>4
  <2> QED BY <2>2, <2>4 DEF IInv, BatchesInv
<1> QED BY <1>1, Rcv1Invariant, PTL

\* When the vector files list the documents in the order of their IDs, every
\* row is used with the class of its own document.
THEOREM Rcv1LabelsAgree == Spec => []LabelsAgree
<1>1. IInv => LabelsAgree
  <2> SUFFICES ASSUME IInv, InOrder, NEW s \in Set, NEW k \in DOMAIN used[s], NEW u \in used[s][k]
               PROVE  u.docs = {u.label}
    BY DEF LabelsAgree
  <2>1. used[s] \in Seq(SUBSET UsedRow) BY DEF IInv, SvmTypeInv
  <2>2. k \in 1 .. Len(used[s]) BY <2>1
  <2> QED BY <2>2 DEF IInv, LabelsInv
<1> QED BY <1>1, Rcv1Invariant, PTL
===============================================================================
