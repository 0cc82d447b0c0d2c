--------------------------- MODULE JsonCountProofs ---------------------------
(***************************************************************************)
(* Proofs about JsonCount, for texts of any length and any nesting limit:  *)
(* the parser accepts what the grammar derives and no more, counts its     *)
(* nodes, and keeps the brackets that are still to close.                  *)
(*                                                                         *)
(* The argument, in the order of the parts below: what Settle makes of a   *)
(* set of derivations is the union of what it makes of each (Final), so    *)
(* that it is enough to follow one derivation; what each symbol of the     *)
(* grammar has next (Quick, Leads, Ends); which brackets a derivation has  *)
(* still to close (Closing, Kept); what is left to match in each state of  *)
(* the parser (Expected), and what reading a character makes of it         *)
(* (Reads, Finishes), state by state; what is left around each open        *)
(* container (Tails); the inductive invariant (IInv); and the invariant    *)
(* over each action.                                                       *)
(***************************************************************************)
EXTENDS JsonCount, SequenceTheorems, FiniteSetTheorems, TLAPS

-----------------------------------------------------------------------------
(* What takes the place of induction: facts that are stated over sets, and *)
(* need no operator parameter.                                             *)

\* The order of the natural numbers as a relation.
LessThan == {ss \in Nat \X Nat : ss[1] < ss[2]}

\* There is no endless descent in the natural numbers.
LEMMA LessThanWellFounded == IsWellFoundedOn(LessThan, Nat)
BY NatLessThanWellFounded DEF OpToRel, LessThan

\* A set of natural numbers that is not empty has a least element.
LEMMA LeastNumber ==
  ASSUME NEW S \in SUBSET Nat, S # {}
  PROVE  \E n \in S : \A m \in S : n <= m
<1>1. PICK n \in S : \A m \in S : ~(<<m, n>> \in LessThan)
  BY LessThanWellFounded, WFMin, Zenon
<1>2. \A m \in S : ~(m < n) BY <1>1 DEF LessThan
<1> QED BY <1>2

\* Induction over the natural numbers up to a bound: a set that has 0, and with
\* each number below the bound the next one, has all of them.
LEMMA CountUp ==
  ASSUME NEW n \in Nat, NEW S, 0 \in S, \A m \in 0 .. n - 1 : m \in S => m + 1 \in S
  PROVE  0 .. n \subseteq S
<1> SUFFICES ASSUME ~(0 .. n \subseteq S) PROVE FALSE OBVIOUS
<1> DEFINE B == {m \in 0 .. n : m \notin S}
<1>1. B \in SUBSET Nat /\ B # {} OBVIOUS
<1>2. PICK k \in B : \A m \in B : k <= m BY <1>1, LeastNumber
<1>3. k # 0 /\ k \in 0 .. n BY <1>2
<1>4. k - 1 \in 0 .. n - 1 /\ k - 1 \notin B BY <1>2, <1>3
<1>5. (k - 1) + 1 \in S BY <1>4
<1> QED BY <1>2, <1>3, <1>5


------------------------------------------------------------------------------
(* Rounds of expansion *)

\* One round over all derivations.
Expanded(ds) == UNION {Expand(d) : d \in ds}

\* g is the function of the first k rounds.
Repeats(g, ds, k) == g = [i \in 0 .. k |-> IF i = 0 THEN ds ELSE UNION {Expand(d) : d \in g[i - 1]}]

\* The rounds of Settle.
Rounds(ds) == CHOOSE g : Repeats(g, ds, LongestChain)

\* Each round expands the derivations of the one before.
LEMMA RoundsRepeat ==
  ASSUME NEW ds
  PROVE  /\ Rounds(ds)[0] = ds
         /\ \A i \in 0 .. 9 : Rounds(ds)[i + 1] = Expanded(Rounds(ds)[i])
         /\ Settle(ds) = Rounds(ds)[10]
<1> DEFINE S == {k \in 0 .. 10 : \E g : Repeats(g, ds, k)}
<1>1. 0 \in S
  <2>1. Repeats([i \in 0 .. 0 |-> ds], ds, 0) BY DEF Repeats
  <2> QED BY <2>1
<1>2. ASSUME NEW k \in 0 .. 10 - 1, k \in S PROVE k + 1 \in S
  <2>1. PICK g : Repeats(g, ds, k) BY <1>2
  <2> DEFINE last == Expanded(g[k])
             f == [i \in 0 .. k + 1 |-> IF i <= k THEN g[i] ELSE last]
  <2>2. ASSUME NEW i \in 0 .. k + 1
        PROVE  f[i] = IF i = 0 THEN ds ELSE Expanded(f[i - 1])
    <3>1. i # 0 => i - 1 \in 0 .. k + 1 /\ i - 1 <= k OBVIOUS
    <3>2. i # 0 => f[i - 1] = g[i - 1] BY <3>1
    <3>3. CASE i <= k
      <4>1. i \in 0 .. k BY <3>3
      <4>2. g[i] = IF i = 0 THEN ds ELSE Expanded(g[i - 1]) BY <2>1, <4>1 DEF Repeats, Expanded
      <4> QED BY <3>2, <3>3, <4>2
    <3>4. CASE i = k + 1 BY <3>2, <3>4
    <3> QED BY <3>3, <3>4
  <2>3. Repeats(f, ds, k + 1)
    <3>1. f = [i \in 0 .. k + 1 |-> f[i]] OBVIOUS
    <3> HIDE DEF f
    <3>2. [i \in 0 .. k + 1 |-> f[i]] =
          [i \in 0 .. k + 1 |-> IF i = 0 THEN ds ELSE Expanded(f[i - 1])]
      BY <2>2
    <3> QED BY <3>1, <3>2 DEF Repeats, Expanded
  <2> QED BY <2>3
<1>3. 10 \in S
  <2>1. 0 .. 10 \subseteq S
    <3> HIDE DEF S
    <3> QED BY <1>1, <1>2, CountUp
  <2> QED BY <2>1
<1>4. Repeats(Rounds(ds), ds, 10) BY <1>3 DEF Rounds, LongestChain
<1>5. Settle(ds) = Rounds(ds)[10] BY DEF Settle, Rounds, Repeats, LongestChain
<1> DEFINE r == Rounds(ds)
<1>6. \A i \in 0 .. 10 : r[i] = IF i = 0 THEN ds ELSE UNION {Expand(d) : d \in r[i - 1]}
  BY <1>4 DEF Repeats
<1> HIDE DEF r
<1>7. r[0] = ds BY <1>6
<1>8. \A i \in 0 .. 9 : r[i + 1] = Expanded(r[i])
  <2> TAKE i \in 0 .. 9
  <2>1. i + 1 \in 0 .. 10 /\ i + 1 # 0 /\ (i + 1) - 1 = i OBVIOUS
  <2> QED BY <1>6, <2>1 DEF Expanded
<1> QED BY <1>5, <1>7, <1>8 DEF r

\* The rounds of one derivation.
Of(d) == Rounds({d})

\* The rounds of one derivation.
LEMMA RoundsOf ==
  ASSUME NEW d
  PROVE  /\ Of(d)[0] = {d}
         /\ \A i \in 0 .. 9 : Of(d)[i + 1] = Expanded(Of(d)[i])
         /\ Settle({d}) = Of(d)[10]
BY RoundsRepeat DEF Of

\* What is expanded from some derivations.
LEMMA ExpandedFrom ==
  ASSUME NEW ds, NEW x
  PROVE  x \in Expanded(ds) <=> \E d \in ds : x \in Expand(d)
BY DEF Expanded

\* The rounds of some derivations are those of each of them together.
LEMMA RoundsTogether ==
  ASSUME NEW ds
  PROVE  \A i \in 0 .. 10 : \A x : x \in Rounds(ds)[i] <=> \E d \in ds : x \in Of(d)[i]
<1> DEFINE Together(i) == \A x : x \in Rounds(ds)[i] <=> \E d \in ds : x \in Of(d)[i]
           S == {i \in 0 .. 10 : Together(i)}
<1>1. Together(0)
  <2> SUFFICES ASSUME NEW x PROVE x \in Rounds(ds)[0] <=> \E d \in ds : x \in Of(d)[0]
    OBVIOUS
  <2>1. \A d : Of(d)[0] = {d} BY RoundsOf
  <2>2. Rounds(ds)[0] = ds BY RoundsRepeat
  <2> QED BY <2>1, <2>2
<1>2. ASSUME NEW i \in 0 .. 10 - 1, Together(i) PROVE Together(i + 1)
  <2> SUFFICES ASSUME NEW x
               PROVE  x \in Rounds(ds)[i + 1] <=> \E d \in ds : x \in Of(d)[i + 1]
    OBVIOUS
  <2>1. i \in 0 .. 9 OBVIOUS
  <2>2. Rounds(ds)[i + 1] = Expanded(Rounds(ds)[i]) BY <2>1, RoundsRepeat
  <2>3. \A d : Of(d)[i + 1] = Expanded(Of(d)[i]) BY <2>1, RoundsOf
  <2>4. x \in Rounds(ds)[i + 1] <=> \E e \in Rounds(ds)[i] : x \in Expand(e)
    BY <2>2, ExpandedFrom
  <2>5. ASSUME NEW d
        PROVE  x \in Of(d)[i + 1] <=> \E e \in Of(d)[i] : x \in Expand(e)
    BY <2>3, ExpandedFrom
  <2>6. \A e : e \in Rounds(ds)[i] <=> \E d \in ds : e \in Of(d)[i] BY <1>2
  <2> QED BY <2>4, <2>5, <2>6
<1>3. 0 .. 10 \subseteq S
  <2> HIDE DEF Together
  <2>1. 0 \in S BY <1>1
  <2>2. \A i \in 0 .. 10 - 1 : i \in S => i + 1 \in S BY <1>2
  <2> HIDE DEF S
  <2> QED BY <2>1, <2>2, CountUp
<1>4. ASSUME NEW i \in 0 .. 10 PROVE Together(i)
  <2> HIDE DEF Together
  <2> QED BY <1>3
<1> QED BY <1>4

\* The first round can be taken alone.
LEMMA FirstRound ==
  ASSUME NEW ds
  PROVE  \A i \in 0 .. 9 : Rounds(ds)[i + 1] = Rounds(Expanded(ds))[i]
<1> DEFINE S == {i \in 0 .. 9 : Rounds(ds)[i + 1] = Rounds(Expanded(ds))[i]}
<1>1. 0 \in S
  <2>1. Rounds(ds)[0] = ds /\ Rounds(Expanded(ds))[0] = Expanded(ds) BY RoundsRepeat
  <2>2. Rounds(ds)[0 + 1] = Expanded(Rounds(ds)[0]) BY RoundsRepeat
  <2> QED BY <2>1, <2>2
<1>2. ASSUME NEW i \in 0 .. 9 - 1, i \in S PROVE i + 1 \in S
  <2>1. i + 1 \in 0 .. 9 /\ i \in 0 .. 9 OBVIOUS
  <2>2. Rounds(ds)[(i + 1) + 1] = Expanded(Rounds(ds)[i + 1]) BY <2>1, RoundsRepeat
  <2>3. Rounds(Expanded(ds))[i + 1] = Expanded(Rounds(Expanded(ds))[i]) BY <2>1, RoundsRepeat
  <2> QED BY <1>2, <2>1, <2>2, <2>3
<1>3. 0 .. 9 \subseteq S
  <2> HIDE DEF S
  <2> QED BY <1>1, <1>2, CountUp
<1> QED BY <1>3

\* No derivation begins with a symbol to expand.
AllSettled(ds) == \A d \in ds : Settled(d)

\* Nothing changes once all are settled.
LEMMA RoundsStay ==
  ASSUME NEW ds, NEW k \in 0 .. 10, AllSettled(Rounds(ds)[k])
  PROVE  \A i \in k .. 10 : Rounds(ds)[i] = Rounds(ds)[k]
<1> DEFINE S == {j \in 0 .. 10 - k : Rounds(ds)[k + j] = Rounds(ds)[k]}
<1>1. 0 \in S OBVIOUS
<1>2. ASSUME NEW j \in 0 .. (10 - k) - 1, j \in S PROVE j + 1 \in S
  <2>1. k + j \in 0 .. 9 /\ k + (j + 1) = (k + j) + 1 /\ j + 1 \in 0 .. 10 - k OBVIOUS
  <2>2. Rounds(ds)[(k + j) + 1] = Expanded(Rounds(ds)[k + j]) BY <2>1, RoundsRepeat
  <2>3. Expanded(Rounds(ds)[k]) = Rounds(ds)[k] BY DEF AllSettled, Expanded, Expand
  <2> QED BY <1>2, <2>1, <2>2, <2>3
<1>3. 0 .. 10 - k \subseteq S
  <2>1. 10 - k \in Nat OBVIOUS
  <2> HIDE DEF S
  <2> QED BY <1>1, <1>2, <2>1, CountUp
<1> TAKE i \in k .. 10
<1>4. i - k \in 0 .. 10 - k /\ k + (i - k) = i OBVIOUS
<1> QED BY <1>3, <1>4

\* What a derivation settles to, and that k rounds are enough for it.
Final(d) == Settle({d})
Settles(k, d) == AllSettled(Of(d)[k])

\* Each derivation settles on its own.
LEMMA SettleTogether ==
  ASSUME NEW ds, NEW x
  PROVE  x \in Settle(ds) <=> \E d \in ds : x \in Final(d)
<1>1. x \in Rounds(ds)[10] <=> \E d \in ds : x \in Of(d)[10]
  <2>1. 10 \in 0 .. 10 OBVIOUS
  <2> QED BY <2>1, RoundsTogether
<1>2. Settle(ds) = Rounds(ds)[10] BY RoundsRepeat
<1>3. \A d : Final(d) = Of(d)[10] BY RoundsOf DEF Final
<1> QED BY <1>1, <1>2, <1>3

\* A settled derivation stays as it is.
LEMMA SettledAlready ==
  ASSUME NEW d, Settled(d)
  PROVE  Settles(0, d) /\ Final(d) = {d}
<1>1. Of(d)[0] = {d} /\ Settle({d}) = Of(d)[10] BY RoundsOf
<1>2. AllSettled(Of(d)[0]) BY <1>1 DEF AllSettled
<1>3. Of(d)[10] = Of(d)[0] BY <1>2, RoundsStay DEF Of
<1> QED BY <1>1, <1>2, <1>3 DEF Settles, Final

\* More rounds than needed do no harm.
LEMMA SettlesLater ==
  ASSUME NEW d, NEW k \in 0 .. 10, Settles(k, d)
  PROVE  \A i \in k .. 10 : Settles(i, d)
BY RoundsStay DEF Settles, Of

\* A derivation settles to what its expansions settle to.
LEMMA SettlesNext ==
  ASSUME NEW d, NEW k \in 0 .. 9, \A e \in Expand(d) : Settles(k, e)
  PROVE  /\ Settles(k + 1, d)
         /\ \A x : x \in Final(d) <=> \E e \in Expand(d) : x \in Final(e)
<1>1. Expanded({d}) = Expand(d) BY DEF Expanded
<1>2. ASSUME NEW i \in 0 .. 9, NEW x
      PROVE  x \in Of(d)[i + 1] <=> \E e \in Expand(d) : x \in Of(e)[i]
  <2>1. Of(d)[i + 1] = Rounds(Expand(d))[i] BY <1>1, FirstRound DEF Of
  <2>2. i \in 0 .. 10 OBVIOUS
  <2>3. x \in Rounds(Expand(d))[i] <=> \E e \in Expand(d) : x \in Of(e)[i]
    BY <2>2, RoundsTogether
  <2> QED BY <2>1, <2>3
<1>3. Settles(k + 1, d) BY <1>2 DEF Settles, AllSettled
<1>4. ASSUME NEW e \in Expand(d) PROVE Of(e)[9] = Of(e)[10]
  <2>1. AllSettled(Of(e)[k]) BY DEF Settles
  <2>2. 9 \in k .. 10 /\ 10 \in k .. 10 /\ k \in 0 .. 10 OBVIOUS
  <2>3. \A i \in k .. 10 : Of(e)[i] = Of(e)[k] BY <2>1, <2>2, RoundsStay DEF Of
  <2> QED BY <2>2, <2>3
<1>5. \A e : Final(e) = Of(e)[10] BY RoundsOf DEF Final
<1>6. ASSUME NEW x PROVE x \in Final(d) <=> \E e \in Expand(d) : x \in Final(e)
  <2>1. 9 \in 0 .. 9 /\ 9 + 1 = 10 OBVIOUS
  <2>2. x \in Of(d)[10] <=> \E e \in Expand(d) : x \in Of(e)[9] BY <1>2, <2>1
  <2> QED BY <1>4, <1>5, <2>2
<1> QED BY <1>3, <1>6

------------------------------------------------------------------------------
(* Sequences of symbols, taken from the front *)

Nonterminal ==
  {"json", "element", "ws", "value", "members", "member", "elements", "string", "characters",
   "number", "int", "digits", "frac", "exp"}

\* The symbols of the grammar, and what a derivation can have left.
Symbol == Char \cup Nonterminal \cup {"node"}

Rest == Seq(Symbol)

Cons(x, r) == <<x>> \o r

D(r, n) == [rest |-> r, nodes |-> n]

\* Two sequences of symbols with the same elements are one.
LEMMA SameRest ==
  ASSUME NEW r \in Rest, NEW s \in Rest, Len(r) = Len(s), \A i \in 1 .. Len(r) : r[i] = s[i]
  PROVE  r = s
BY SeqEqual DEF Rest

\* The first symbol and the rest.
LEMMA ConsParts ==
  ASSUME NEW x \in Symbol, NEW r \in Rest
  PROVE  /\ Cons(x, r) \in Rest /\ Cons(x, r) # <<>>
         /\ Head(Cons(x, r)) = x /\ Tail(Cons(x, r)) = r /\ Cons(x, r)[1] = x
         /\ Len(Cons(x, r)) = Len(r) + 1
         /\ \A i \in 1 .. Len(r) : Cons(x, r)[i + 1] = r[i]
<1>1. <<x>> \in Rest /\ Len(<<x>>) = 1 /\ <<x>>[1] = x BY DEF Rest
<1>2. /\ Cons(x, r) \in Rest /\ Len(Cons(x, r)) = 1 + Len(r)
      /\ \A i \in 1 .. 1 + Len(r) : Cons(x, r)[i] = IF i <= 1 THEN <<x>>[i] ELSE r[i - 1]
  BY <1>1, ConcatProperties DEF Cons, Rest
<1>3. Len(r) \in Nat BY DEF Rest
<1>4. \A i \in 1 .. Len(r) : Cons(x, r)[i + 1] = r[i]
  <2> TAKE i \in 1 .. Len(r)
  <2>1. i + 1 \in 1 .. 1 + Len(r) /\ ~(i + 1 <= 1) /\ (i + 1) - 1 = i BY <1>3
  <2> QED BY <1>2, <2>1
<1>5. Cons(x, r) # <<>> BY <1>2, <1>3
<1>6. Head(Cons(x, r)) = x /\ Cons(x, r)[1] = x
  <2>1. 1 \in 1 .. 1 + Len(r) BY <1>3
  <2>2. Cons(x, r)[1] = x BY <1>1, <1>2, <2>1
  <2> QED BY <1>2, <1>5, <2>2 DEF Rest
<1>7. Tail(Cons(x, r)) = r
  <2>1. Tail(Cons(x, r)) \in Rest /\ Len(Tail(Cons(x, r))) = Len(r)
    BY <1>2, <1>3, <1>5 DEF Rest
  <2>2. \A i \in 1 .. Len(r) : Tail(Cons(x, r))[i] = Cons(x, r)[i + 1]
    BY <1>2, <1>3, <1>5 DEF Rest
  <2> QED BY <1>4, <2>1, <2>2, SameRest
<1> QED BY <1>2, <1>3, <1>4, <1>5, <1>6, <1>7

\* Several symbols at once.
LEMMA ConsMore ==
  ASSUME NEW x \in Symbol, NEW s \in Rest, NEW r \in Rest
  PROVE  Cons(x, s) \o r = Cons(x, s \o r)
BY ConcatAssociative DEF Cons, Rest

\* Sequences that are written out.
LEMMA ConsSome ==
  ASSUME NEW r \in Rest
  PROVE  /\ <<>> \o r = r
         /\ \A a \in Symbol : <<a>> \o r = Cons(a, r)
         /\ \A a, b \in Symbol : <<a, b>> \o r = Cons(a, Cons(b, r))
         /\ \A a, b, c \in Symbol : <<a, b, c>> \o r = Cons(a, Cons(b, Cons(c, r)))
         /\ \A a, b, c, d \in Symbol :
              <<a, b, c, d>> \o r = Cons(a, Cons(b, Cons(c, Cons(d, r))))
         /\ \A a, b, c, d, e \in Symbol :
              <<a, b, c, d, e>> \o r = Cons(a, Cons(b, Cons(c, Cons(d, Cons(e, r)))))
<1>1. <<>> \o r = r BY ConcatEmptySeq DEF Rest
<1>2. \A a \in Symbol : <<a>> \o r = Cons(a, r) BY DEF Cons
<1>3. ASSUME NEW a \in Symbol, NEW b \in Symbol
      PROVE  <<a, b>> \o r = Cons(a, Cons(b, r))
  <2>1. <<b>> \in Rest /\ <<a, b>> \in Rest BY DEF Rest
  <2>2. <<a, b>> = Cons(a, <<b>>)
    <3>1. /\ Cons(a, <<b>>) \in Rest /\ Len(Cons(a, <<b>>)) = 1 + 1
          /\ Cons(a, <<b>>)[1] = a
          /\ \A i \in 1 .. 1 : Cons(a, <<b>>)[i + 1] = <<b>>[i]
      BY <2>1, ConsParts
    <3> DEFINE s == Cons(a, <<b>>)
    <3>2. s[1 + 1] = b BY <3>1
    <3>3. Len(s) = 2 /\ s[1] = a /\ s[2] = b BY <3>1, <3>2
    <3>4. s \in Rest BY <3>1
    <3> HIDE DEF s
    <3>5. \A i \in 1 .. 2 : s[i] = <<a, b>>[i] BY <3>3
    <3> QED BY <2>1, <3>3, <3>4, <3>5, SameRest DEF s
  <2>3. Cons(a, <<b>>) \o r = Cons(a, <<b>> \o r) BY <2>1, ConsMore
  <2>4. <<b>> \o r = Cons(b, r) BY <1>2
  <2> QED BY <2>2, <2>3, <2>4
<1>4. ASSUME NEW a \in Symbol, NEW b \in Symbol, NEW c \in Symbol
      PROVE  <<a, b, c>> \o r = Cons(a, Cons(b, Cons(c, r)))
  <2>1. <<b, c>> \in Rest /\ <<a, b, c>> \in Rest BY DEF Rest
  <2>2. <<a, b, c>> = Cons(a, <<b, c>>)
    <3>1. /\ Cons(a, <<b, c>>) \in Rest /\ Len(Cons(a, <<b, c>>)) = 2 + 1
          /\ Cons(a, <<b, c>>)[1] = a
          /\ \A i \in 1 .. 2 : Cons(a, <<b, c>>)[i + 1] = <<b, c>>[i]
      BY <2>1, ConsParts
    <3> DEFINE s == Cons(a, <<b, c>>)
    <3>2. s[1 + 1] = b /\ s[2 + 1] = c BY <3>1
    <3>3. Len(s) = 3 /\ s[1] = a /\ s[2] = b /\ s[3] = c BY <3>1, <3>2
    <3>4. s \in Rest BY <3>1
    <3> HIDE DEF s
    <3>5. \A i \in 1 .. 3 : s[i] = <<a, b, c>>[i] BY <3>3
    <3> QED BY <2>1, <3>3, <3>4, <3>5, SameRest DEF s
  <2>3. Cons(a, <<b, c>>) \o r = Cons(a, <<b, c>> \o r) BY <2>1, ConsMore
  <2>4. <<b, c>> \o r = Cons(b, Cons(c, r)) BY <1>3
  <2> QED BY <2>2, <2>3, <2>4
<1>5. ASSUME NEW a \in Symbol, NEW b \in Symbol, NEW c \in Symbol, NEW d \in Symbol
      PROVE  <<a, b, c, d>> \o r = Cons(a, Cons(b, Cons(c, Cons(d, r))))
  <2>1. <<b, c, d>> \in Rest /\ <<a, b, c, d>> \in Rest BY DEF Rest
  <2>2. <<a, b, c, d>> = Cons(a, <<b, c, d>>)
    <3>1. /\ Cons(a, <<b, c, d>>) \in Rest /\ Len(Cons(a, <<b, c, d>>)) = 3 + 1
          /\ Cons(a, <<b, c, d>>)[1] = a
          /\ \A i \in 1 .. 3 : Cons(a, <<b, c, d>>)[i + 1] = <<b, c, d>>[i]
      BY <2>1, ConsParts
    <3> DEFINE s == Cons(a, <<b, c, d>>)
    <3>2. s[1 + 1] = b /\ s[2 + 1] = c /\ s[3 + 1] = d BY <3>1
    <3>3. Len(s) = 4 /\ s[1] = a /\ s[2] = b /\ s[3] = c /\ s[4] = d BY <3>1, <3>2
    <3>4. s \in Rest BY <3>1
    <3> HIDE DEF s
    <3>5. \A i \in 1 .. 4 : s[i] = <<a, b, c, d>>[i] BY <3>3
    <3> QED BY <2>1, <3>3, <3>4, <3>5, SameRest DEF s
  <2>3. Cons(a, <<b, c, d>>) \o r = Cons(a, <<b, c, d>> \o r) BY <2>1, ConsMore
  <2>4. <<b, c, d>> \o r = Cons(b, Cons(c, Cons(d, r))) BY <1>4
  <2> QED BY <2>2, <2>3, <2>4
<1>6. ASSUME NEW a \in Symbol, NEW b \in Symbol, NEW c \in Symbol, NEW d \in Symbol,
             NEW e \in Symbol
      PROVE  <<a, b, c, d, e>> \o r = Cons(a, Cons(b, Cons(c, Cons(d, Cons(e, r)))))
  <2>1. <<b, c, d, e>> \in Rest /\ <<a, b, c, d, e>> \in Rest BY DEF Rest
  <2>2. <<a, b, c, d, e>> = Cons(a, <<b, c, d, e>>)
    <3>1. /\ Cons(a, <<b, c, d, e>>) \in Rest /\ Len(Cons(a, <<b, c, d, e>>)) = 4 + 1
          /\ Cons(a, <<b, c, d, e>>)[1] = a
          /\ \A i \in 1 .. 4 : Cons(a, <<b, c, d, e>>)[i + 1] = <<b, c, d, e>>[i]
      BY <2>1, ConsParts
    <3> DEFINE s == Cons(a, <<b, c, d, e>>)
    <3>2. s[1 + 1] = b /\ s[2 + 1] = c /\ s[3 + 1] = d /\ s[4 + 1] = e BY <3>1
    <3>3. Len(s) = 5 /\ s[1] = a /\ s[2] = b /\ s[3] = c /\ s[4] = d /\ s[5] = e BY <3>1, <3>2
    <3>4. s \in Rest BY <3>1
    <3> HIDE DEF s
    <3>5. \A i \in 1 .. 5 : s[i] = <<a, b, c, d, e>>[i] BY <3>3
    <3> QED BY <2>1, <3>3, <3>4, <3>5, SameRest DEF s
  <2>3. Cons(a, <<b, c, d, e>>) \o r = Cons(a, <<b, c, d, e>> \o r) BY <2>1, ConsMore
  <2>4. <<b, c, d, e>> \o r = Cons(b, Cons(c, Cons(d, Cons(e, r)))) BY <1>5
  <2> QED BY <2>2, <2>3, <2>4
<1> QED BY <1>1, <1>2, <1>3, <1>4, <1>5, <1>6

\* The characters are different from the other symbols.
LEMMA Symbols ==
  /\ Char \subseteq Symbol /\ Nonterminal \subseteq Symbol /\ "node" \in Symbol
  /\ Escaped \subseteq Char /\ Plain \subseteq Char /\ Space \subseteq Char /\ Digit \subseteq Char
  /\ DQ \in Char /\ BS \in Char /\ NL \in Char /\ NUL \in Char
  /\ Char \cap Nonterminal = {} /\ "node" \notin Char \cup Nonterminal
BY DEF Char, Plain, Escaped, Space, Digit, DQ, BS, NL, NUL, Symbol, Nonterminal

------------------------------------------------------------------------------
(* What the symbols settle to *)

\* A derivation is settled at its end and before a character.
LEMMA SettledRests ==
  ASSUME NEW r \in Rest, NEW x \in Symbol, NEW n
  PROVE  /\ Settled(D(<<>>, n))
         /\ Settled(D(Cons(x, r), n)) <=> x \in Char
BY ConsParts DEF Settled, D

\* The rests after the first symbol is replaced.
Alternatives(x, r) == {alternative \o r : alternative \in Rule[x]}

\* A symbol that is not a character is replaced in every way there is.
LEMMA ExpandNonterminal ==
  ASSUME NEW r \in Rest, NEW x \in Nonterminal, NEW n
  PROVE  \A e : e \in Expand(D(Cons(x, r), n)) <=> \E s \in Alternatives(x, r) : e = D(s, n)
<1> DEFINE d == D(Cons(x, r), n)
<1>1. x \in Symbol /\ x \notin Char /\ x # "node" BY Symbols
<1>2. ~Settled(d) BY <1>1, SettledRests
<1>3. d.rest = Cons(x, r) /\ Head(d.rest) = x /\ Tail(d.rest) = r BY <1>1, ConsParts DEF D
<1>4. Expand(d) = {[d EXCEPT !.rest = alternative \o r] : alternative \in Rule[x]}
  BY <1>1, <1>2, <1>3 DEF Expand
<1>5. \A s : [d EXCEPT !.rest = s] = D(s, n) BY DEF D
<1>6. Expand(d) = {D(alternative \o r, n) : alternative \in Rule[x]} BY <1>4, <1>5
<1> QED BY <1>6 DEF Alternatives

\* The mark of a node is counted.
LEMMA ExpandNode ==
  ASSUME NEW r \in Rest, NEW n
  PROVE  Expand(D(Cons("node", r), n)) = {D(r, n + 1)}
<1> DEFINE d == D(Cons("node", r), n)
<1>1. "node" \in Symbol /\ "node" \notin Char BY Symbols
<1>2. ~Settled(d) BY <1>1, SettledRests
<1>3. d.rest = Cons("node", r) /\ Head(d.rest) = "node" /\ Tail(d.rest) = r /\ d.nodes = n
  BY <1>1, ConsParts DEF D
<1>4. Expand(d) = {[rest |-> r, nodes |-> n + 1]} BY <1>2, <1>3 DEF Expand
<1> QED BY <1>4 DEF D

\* k rounds are enough for this rest, whatever was counted.
Quick(k, r) == \A n \in Nat : Settles(k, D(r, n))

\* A rest that begins with a character, or is empty.
LEMMA CharFinal ==
  ASSUME NEW r \in Rest, NEW c \in Char
  PROVE  /\ \A k \in 0 .. 10 : Quick(k, <<>>) /\ Quick(k, Cons(c, r))
         /\ \A n \in Nat : Final(D(<<>>, n)) = {D(<<>>, n)}
         /\ \A n \in Nat : Final(D(Cons(c, r), n)) = {D(Cons(c, r), n)}
<1>1. \A n \in Nat : Settled(D(<<>>, n)) /\ Settled(D(Cons(c, r), n)) BY SettledRests, Symbols
<1>2. \A n \in Nat : /\ Settles(0, D(<<>>, n)) /\ Final(D(<<>>, n)) = {D(<<>>, n)}
                     /\ Settles(0, D(Cons(c, r), n))
                     /\ Final(D(Cons(c, r), n)) = {D(Cons(c, r), n)}
  BY <1>1, SettledAlready
<1>3. \A k \in 0 .. 10, n \in Nat : Settles(k, D(<<>>, n)) /\ Settles(k, D(Cons(c, r), n))
  <2>1. 0 \in 0 .. 10 OBVIOUS
  <2> QED BY <1>2, <2>1, SettlesLater
<1> QED BY <1>2, <1>3 DEF Quick

\* More rounds than needed do no harm.
LEMMA QuickLater ==
  ASSUME NEW r, NEW k \in 0 .. 10, Quick(k, r)
  PROVE  \A i \in k .. 10 : Quick(i, r)
BY SettlesLater DEF Quick

\* A symbol settles to what its alternatives settle to.
LEMMA SymbolFinal ==
  ASSUME NEW r \in Rest, NEW x \in Nonterminal, NEW k \in 0 .. 9,
         \A s \in Alternatives(x, r) : Quick(k, s)
  PROVE  /\ Quick(k + 1, Cons(x, r))
         /\ \A n \in Nat : \A e : e \in Final(D(Cons(x, r), n)) <=>
              \E s \in Alternatives(x, r) : e \in Final(D(s, n))
<1>1. ASSUME NEW n \in Nat
      PROVE  /\ Settles(k + 1, D(Cons(x, r), n))
             /\ \A e : e \in Final(D(Cons(x, r), n)) <=>
                  \E s \in Alternatives(x, r) : e \in Final(D(s, n))
  <2>1. \A e : e \in Expand(D(Cons(x, r), n)) <=> \E s \in Alternatives(x, r) : e = D(s, n)
    BY ExpandNonterminal
  <2>2. \A e \in Expand(D(Cons(x, r), n)) : Settles(k, e) BY <2>1 DEF Quick
  <2>3. /\ Settles(k + 1, D(Cons(x, r), n))
        /\ \A e : e \in Final(D(Cons(x, r), n)) <=>
             \E f \in Expand(D(Cons(x, r), n)) : e \in Final(f)
    BY <2>2, SettlesNext
  <2> QED BY <2>1, <2>3
<1> QED BY <1>1 DEF Quick

\* The mark of a node settles to what follows it, with one node more.
LEMMA NodeFinal ==
  ASSUME NEW r \in Rest, NEW k \in 0 .. 9, Quick(k, r)
  PROVE  /\ Quick(k + 1, Cons("node", r))
         /\ \A n \in Nat : Final(D(Cons("node", r), n)) = Final(D(r, n + 1))
<1>1. ASSUME NEW n \in Nat
      PROVE  /\ Settles(k + 1, D(Cons("node", r), n))
             /\ Final(D(Cons("node", r), n)) = Final(D(r, n + 1))
  <2>1. Expand(D(Cons("node", r), n)) = {D(r, n + 1)} BY ExpandNode
  <2>2. \A e \in Expand(D(Cons("node", r), n)) : Settles(k, e) BY <2>1 DEF Quick
  <2>3. /\ Settles(k + 1, D(Cons("node", r), n))
        /\ \A e : e \in Final(D(Cons("node", r), n)) <=>
             \E f \in Expand(D(Cons("node", r), n)) : e \in Final(f)
    BY <2>2, SettlesNext
  <2>4. \A e : e \in Final(D(Cons("node", r), n)) <=> e \in Final(D(r, n + 1)) BY <2>1, <2>3
  <2> QED BY <2>3, <2>4 DEF Final, Settle
<1> QED BY <1>1 DEF Quick

\* Names for characters.
OB == "{"
CB == "}"
CM == ","
SP == " "

\* The symbols of the rules, one by one.
LEMMA WrittenOut ==
  /\ "ws" \in Symbol /\ "value" \in Symbol /\ "members" \in Symbol /\ "member" \in Symbol
  /\ "elements" \in Symbol /\ "element" \in Symbol /\ "string" \in Symbol
  /\ "characters" \in Symbol /\ "number" \in Symbol /\ "int" \in Symbol
  /\ "digits" \in Symbol /\ "frac" \in Symbol /\ "exp" \in Symbol /\ "node" \in Symbol
  /\ "json" \in Symbol
  /\ OB \in Symbol /\ CB \in Symbol /\ "[" \in Symbol /\ "]" \in Symbol
  /\ CM \in Symbol /\ ":" \in Symbol /\ "-" \in Symbol /\ "+" \in Symbol
  /\ "." \in Symbol /\ "e" \in Symbol /\ "true" \in Symbol /\ "0" \in Symbol /\ "1" \in Symbol
  /\ DQ \in Symbol /\ BS \in Symbol
  /\ \A c \in Space \cup Digit \cup Plain \cup Escaped : c \in Symbol
BY DEF Symbol, Nonterminal, Char, Plain, Digit, Space, Escaped, DQ, BS, NL, OB, CB, CM

\* Sequences of 1 symbols.
LEMMA WithRest1 ==
  \A r \in Rest : \A a \in Symbol : <<a>> \o r = Cons(a, r)
BY ConsSome

\* Sequences of 2 symbols.
LEMMA WithRest2 ==
  \A r \in Rest : \A a, b \in Symbol : <<a, b>> \o r = Cons(a, Cons(b, r))
BY ConsSome

\* Sequences of 3 symbols.
LEMMA WithRest3 ==
  \A r \in Rest : \A a, b, c \in Symbol : <<a, b, c>> \o r = Cons(a, Cons(b, Cons(c, r)))
BY ConsSome

\* Sequences of 4 symbols.
LEMMA WithRest4 ==
  \A r \in Rest : \A a, b, c, d \in Symbol : <<a, b, c, d>> \o r = Cons(a, Cons(b, Cons(c, Cons(d, r))))
BY ConsSome

\* Sequences of 5 symbols.
LEMMA WithRest5 ==
  \A r \in Rest : \A a, b, c, d, e \in Symbol : <<a, b, c, d, e>> \o r = Cons(a, Cons(b, Cons(c, Cons(d, Cons(e, r)))))
BY ConsSome

\* The alternatives of each symbol.
LEMMA RuleElement ==
  ASSUME NEW r \in Rest, NEW s
  PROVE  s \in Alternatives("element", r) <=>
           \/ s = Cons("ws", Cons("value", Cons("ws", r)))
<1>1. \A a : a \in Rule["element"] <=>
        \/ a = <<"ws", "value", "ws">>
  BY DEF Rule
<1>2. <<"ws", "value", "ws">> \o r = Cons("ws", Cons("value", Cons("ws", r))) BY WrittenOut, WithRest3
<1>3. s \in Alternatives("element", r) <=> \E a \in Rule["element"] : s = a \o r BY DEF Alternatives
<1> QED BY <1>1, <1>2, <1>3

\* Those of "ws".
LEMMA RuleWs ==
  ASSUME NEW r \in Rest, NEW s
  PROVE  s \in Alternatives("ws", r) <=>
           \/ s = r
           \/ \E c \in Space : s = Cons(c, Cons("ws", r))
<1>1. \A a : a \in Rule["ws"] <=>
        \/ a = <<>>
        \/ \E c \in Space : a = <<c, "ws">>
  BY DEF Rule
<1>2. <<>> \o r = r BY ConsSome
<1>3. \A c \in Space : <<c, "ws">> \o r = Cons(c, Cons("ws", r)) BY WrittenOut, WithRest2
<1>4. s \in Alternatives("ws", r) <=> \E a \in Rule["ws"] : s = a \o r BY DEF Alternatives
<1> QED BY <1>1, <1>2, <1>3, <1>4

\* Those of "value".
LEMMA RuleValue ==
  ASSUME NEW r \in Rest, NEW s
  PROVE  s \in Alternatives("value", r) <=>
           \/ s = Cons(OB, Cons("ws", Cons(CB, Cons("node", r))))
           \/ s = Cons(OB, Cons("members", Cons(CB, Cons("node", r))))
           \/ s = Cons("[", Cons("ws", Cons("]", Cons("node", r))))
           \/ s = Cons("[", Cons("elements", Cons("]", Cons("node", r))))
           \/ s = Cons("string", Cons("node", r))
           \/ s = Cons("number", Cons("node", r))
           \/ s = Cons("true", Cons("node", r))
<1>1. \A a : a \in Rule["value"] <=>
        \/ a = <<OB, "ws", CB, "node">>
        \/ a = <<OB, "members", CB, "node">>
        \/ a = <<"[", "ws", "]", "node">>
        \/ a = <<"[", "elements", "]", "node">>
        \/ a = <<"string", "node">>
        \/ a = <<"number", "node">>
        \/ a = <<"true", "node">>
  BY DEF Rule, OB, CB
<1>2. <<OB, "ws", CB, "node">> \o r = Cons(OB, Cons("ws", Cons(CB, Cons("node", r))))
  <2>1. OB \in Symbol /\ "ws" \in Symbol /\ CB \in Symbol /\ "node" \in Symbol BY WrittenOut
  <2> QED BY <2>1, WithRest4, SMTT(60)
<1>3. <<OB, "members", CB, "node">> \o r = Cons(OB, Cons("members", Cons(CB, Cons("node", r))))
  <2>1. OB \in Symbol /\ "members" \in Symbol /\ CB \in Symbol /\ "node" \in Symbol BY WrittenOut
  <2> QED BY <2>1, WithRest4, SMTT(60)
<1>4. <<"[", "ws", "]", "node">> \o r = Cons("[", Cons("ws", Cons("]", Cons("node", r))))
  <2>1. "[" \in Symbol /\ "ws" \in Symbol /\ "]" \in Symbol /\ "node" \in Symbol BY WrittenOut
  <2> QED BY <2>1, WithRest4, SMTT(60)
<1>5. <<"[", "elements", "]", "node">> \o r = Cons("[", Cons("elements", Cons("]", Cons("node", r))))
  <2>1. "[" \in Symbol /\ "elements" \in Symbol /\ "]" \in Symbol /\ "node" \in Symbol BY WrittenOut
  <2> QED BY <2>1, WithRest4, SMTT(60)
<1>6. <<"string", "node">> \o r = Cons("string", Cons("node", r)) BY WrittenOut, WithRest2
<1>7. <<"number", "node">> \o r = Cons("number", Cons("node", r)) BY WrittenOut, WithRest2
<1>8. <<"true", "node">> \o r = Cons("true", Cons("node", r)) BY WrittenOut, WithRest2
<1>9. s \in Alternatives("value", r) <=> \E a \in Rule["value"] : s = a \o r BY DEF Alternatives
<1> QED BY <1>1, <1>2, <1>3, <1>4, <1>5, <1>6, <1>7, <1>8, <1>9

\* Those of "members".
LEMMA RuleMembers ==
  ASSUME NEW r \in Rest, NEW s
  PROVE  s \in Alternatives("members", r) <=>
           \/ s = Cons("member", r)
           \/ s = Cons("member", Cons(CM, Cons("members", r)))
<1>1. \A a : a \in Rule["members"] <=>
        \/ a = <<"member">>
        \/ a = <<"member", CM, "members">>
  BY DEF Rule, CM
<1>2. <<"member">> \o r = Cons("member", r)
  <2>1. "member" \in Symbol BY WrittenOut
  <2> QED BY <2>1, WithRest1
<1>3. <<"member", CM, "members">> \o r = Cons("member", Cons(CM, Cons("members", r)))
  <2>1. "member" \in Symbol /\ CM \in Symbol /\ "members" \in Symbol BY WrittenOut
  <2> QED BY <2>1, WithRest3
<1>4. s \in Alternatives("members", r) <=> \E a \in Rule["members"] : s = a \o r BY DEF Alternatives
<1> QED BY <1>1, <1>2, <1>3, <1>4

\* Those of "member".
LEMMA RuleMember ==
  ASSUME NEW r \in Rest, NEW s
  PROVE  s \in Alternatives("member", r) <=>
           \/ s = Cons("ws", Cons("string", Cons("ws", Cons(":", Cons("element", r)))))
<1>1. \A a : a \in Rule["member"] <=>
        \/ a = <<"ws", "string", "ws", ":", "element">>
  BY DEF Rule
<1>2. <<"ws", "string", "ws", ":", "element">> \o r = Cons("ws", Cons("string", Cons("ws", Cons(":", Cons("element", r)))))
  <2>1. "ws" \in Symbol /\ "string" \in Symbol /\ ":" \in Symbol /\ "element" \in Symbol BY WrittenOut
  <2> QED BY <2>1, WithRest5
<1>3. s \in Alternatives("member", r) <=> \E a \in Rule["member"] : s = a \o r BY DEF Alternatives
<1> QED BY <1>1, <1>2, <1>3

\* Those of "elements".
LEMMA RuleElements ==
  ASSUME NEW r \in Rest, NEW s
  PROVE  s \in Alternatives("elements", r) <=>
           \/ s = Cons("element", r)
           \/ s = Cons("element", Cons(CM, Cons("elements", r)))
<1>1. \A a : a \in Rule["elements"] <=>
        \/ a = <<"element">>
        \/ a = <<"element", CM, "elements">>
  BY DEF Rule, CM
<1>2. <<"element">> \o r = Cons("element", r) BY WrittenOut, WithRest1
<1>3. <<"element", CM, "elements">> \o r = Cons("element", Cons(CM, Cons("elements", r))) BY WrittenOut, WithRest3
<1>4. s \in Alternatives("elements", r) <=> \E a \in Rule["elements"] : s = a \o r BY DEF Alternatives
<1> QED BY <1>1, <1>2, <1>3, <1>4

\* Those of "string".
LEMMA RuleString ==
  ASSUME NEW r \in Rest, NEW s
  PROVE  s \in Alternatives("string", r) <=>
           \/ s = Cons(DQ, Cons("characters", Cons(DQ, r)))
<1>1. \A a : a \in Rule["string"] <=>
        \/ a = <<DQ, "characters", DQ>>
  BY DEF Rule
<1>2. <<DQ, "characters", DQ>> \o r = Cons(DQ, Cons("characters", Cons(DQ, r))) BY WrittenOut, WithRest3
<1>3. s \in Alternatives("string", r) <=> \E a \in Rule["string"] : s = a \o r BY DEF Alternatives
<1> QED BY <1>1, <1>2, <1>3

\* Those of "characters".
LEMMA RuleCharacters ==
  ASSUME NEW r \in Rest, NEW s
  PROVE  s \in Alternatives("characters", r) <=>
           \/ s = r
           \/ \E c \in Plain : s = Cons(c, Cons("characters", r))
           \/ \E c \in Escaped : s = Cons(BS, Cons(c, Cons("characters", r)))
<1>1. \A a : a \in Rule["characters"] <=>
        \/ a = <<>>
        \/ \E c \in Plain : a = <<c, "characters">>
        \/ \E c \in Escaped : a = <<BS, c, "characters">>
  BY DEF Rule
<1>2. <<>> \o r = r BY ConsSome
<1>3. \A c \in Plain : <<c, "characters">> \o r = Cons(c, Cons("characters", r)) BY WrittenOut, WithRest2
<1>4. \A c \in Escaped : <<BS, c, "characters">> \o r = Cons(BS, Cons(c, Cons("characters", r))) BY WrittenOut, WithRest3
<1>5. s \in Alternatives("characters", r) <=> \E a \in Rule["characters"] : s = a \o r BY DEF Alternatives
<1>6. ASSUME NEW a \in Rule["characters"], s = a \o r
      PROVE  \/ s = r
             \/ \E c \in Plain : s = Cons(c, Cons("characters", r))
             \/ \E c \in Escaped : s = Cons(BS, Cons(c, Cons("characters", r)))
  <2>1. CASE a = <<>> BY <1>6, <2>1, <1>2
  <2>2. CASE \E c \in Plain : a = <<c, "characters">>
    <3>1. PICK c \in Plain : a = <<c, "characters">> BY <2>2
    <3>2. s = Cons(c, Cons("characters", r)) BY <1>6, <1>3, <3>1
    <3> QED BY <3>2
  <2>3. CASE \E c \in Escaped : a = <<BS, c, "characters">>
    <3>1. PICK c \in Escaped : a = <<BS, c, "characters">> BY <2>3
    <3>2. s = Cons(BS, Cons(c, Cons("characters", r))) BY <1>6, <1>4, <3>1
    <3> QED BY <3>2
  <2> QED BY <1>1, <2>1, <2>2, <2>3
<1>7. <<>> \in Rule["characters"] /\ (s = r => s = <<>> \o r) BY <1>1, <1>2
<1>8. ASSUME NEW c \in Plain, s = Cons(c, Cons("characters", r)) PROVE \E a \in Rule["characters"] : s = a \o r
  <2>1. <<c, "characters">> \in Rule["characters"] BY <1>1
  <2>2. s = <<c, "characters">> \o r BY <1>8, <1>3
  <2> QED BY <2>1, <2>2
<1>9. ASSUME NEW c \in Escaped, s = Cons(BS, Cons(c, Cons("characters", r))) PROVE \E a \in Rule["characters"] : s = a \o r
  <2>1. <<BS, c, "characters">> \in Rule["characters"] BY <1>1
  <2>2. s = <<BS, c, "characters">> \o r BY <1>9, <1>4
  <2> QED BY <2>1, <2>2
<1> QED BY <1>5, <1>6, <1>7, <1>8, <1>9

\* Those of "number".
LEMMA RuleNumber ==
  ASSUME NEW r \in Rest, NEW s
  PROVE  s \in Alternatives("number", r) <=>
           \/ s = Cons("int", Cons("frac", Cons("exp", r)))
           \/ s = Cons("-", Cons("int", Cons("frac", Cons("exp", r))))
<1>1. \A a : a \in Rule["number"] <=>
        \/ a = <<"int", "frac", "exp">>
        \/ a = <<"-", "int", "frac", "exp">>
  BY DEF Rule
<1>2. <<"int", "frac", "exp">> \o r = Cons("int", Cons("frac", Cons("exp", r))) BY WrittenOut, WithRest3
<1>3. <<"-", "int", "frac", "exp">> \o r = Cons("-", Cons("int", Cons("frac", Cons("exp", r))))
  <2>1. "-" \in Symbol /\ "int" \in Symbol /\ "frac" \in Symbol /\ "exp" \in Symbol BY WrittenOut
  <2> QED BY <2>1, WithRest4, SMTT(60)
<1>4. s \in Alternatives("number", r) <=> \E a \in Rule["number"] : s = a \o r BY DEF Alternatives
<1> QED BY <1>1, <1>2, <1>3, <1>4

\* Those of "int".
LEMMA RuleInt ==
  ASSUME NEW r \in Rest, NEW s
  PROVE  s \in Alternatives("int", r) <=>
           \/ s = Cons("0", r)
           \/ s = Cons("1", Cons("digits", r))
<1>1. \A a : a \in Rule["int"] <=>
        \/ a = <<"0">>
        \/ a = <<"1", "digits">>
  BY DEF Rule
<1>2. <<"0">> \o r = Cons("0", r) BY WrittenOut, WithRest1
<1>3. <<"1", "digits">> \o r = Cons("1", Cons("digits", r)) BY WrittenOut, WithRest2
<1>4. s \in Alternatives("int", r) <=> \E a \in Rule["int"] : s = a \o r BY DEF Alternatives
<1> QED BY <1>1, <1>2, <1>3, <1>4

\* Those of "digits".
LEMMA RuleDigits ==
  ASSUME NEW r \in Rest, NEW s
  PROVE  s \in Alternatives("digits", r) <=>
           \/ s = r
           \/ \E c \in Digit : s = Cons(c, Cons("digits", r))
<1>1. \A a : a \in Rule["digits"] <=>
        \/ a = <<>>
        \/ \E c \in Digit : a = <<c, "digits">>
  BY DEF Rule
<1>2. <<>> \o r = r BY ConsSome
<1>3. \A c \in Digit : <<c, "digits">> \o r = Cons(c, Cons("digits", r)) BY WrittenOut, WithRest2
<1>4. s \in Alternatives("digits", r) <=> \E a \in Rule["digits"] : s = a \o r BY DEF Alternatives
<1> QED BY <1>1, <1>2, <1>3, <1>4

\* Those of "frac".
LEMMA RuleFrac ==
  ASSUME NEW r \in Rest, NEW s
  PROVE  s \in Alternatives("frac", r) <=>
           \/ s = r
           \/ \E c \in Digit : s = Cons(".", Cons(c, Cons("digits", r)))
<1>1. \A a : a \in Rule["frac"] <=>
        \/ a = <<>>
        \/ \E c \in Digit : a = <<".", c, "digits">>
  BY DEF Rule
<1>2. <<>> \o r = r BY ConsSome
<1>3. \A c \in Digit : <<".", c, "digits">> \o r = Cons(".", Cons(c, Cons("digits", r))) BY WrittenOut, WithRest3
<1>4. s \in Alternatives("frac", r) <=> \E a \in Rule["frac"] : s = a \o r BY DEF Alternatives
<1>5. ASSUME NEW a \in Rule["frac"], s = a \o r
      PROVE  \/ s = r
             \/ \E c \in Digit : s = Cons(".", Cons(c, Cons("digits", r)))
  <2>1. CASE a = <<>> BY <1>5, <2>1, <1>2
  <2>2. CASE \E c \in Digit : a = <<".", c, "digits">>
    <3>1. PICK c \in Digit : a = <<".", c, "digits">> BY <2>2
    <3>2. s = Cons(".", Cons(c, Cons("digits", r))) BY <1>5, <1>3, <3>1
    <3> QED BY <3>2
  <2> QED BY <1>1, <2>1, <2>2
<1>6. <<>> \in Rule["frac"] /\ (s = r => s = <<>> \o r) BY <1>1, <1>2
<1>7. ASSUME NEW c \in Digit, s = Cons(".", Cons(c, Cons("digits", r))) PROVE \E a \in Rule["frac"] : s = a \o r
  <2>1. <<".", c, "digits">> \in Rule["frac"] BY <1>1
  <2>2. s = <<".", c, "digits">> \o r BY <1>7, <1>3
  <2> QED BY <2>1, <2>2
<1> QED BY <1>4, <1>5, <1>6, <1>7

\* Those of "exp".
LEMMA RuleExp ==
  ASSUME NEW r \in Rest, NEW s
  PROVE  s \in Alternatives("exp", r) <=>
           \/ s = r
           \/ \E c \in Digit : s = Cons("e", Cons(c, Cons("digits", r)))
           \/ \E g \in {"+", "-"}, c \in Digit : s = Cons("e", Cons(g, Cons(c, Cons("digits", r))))
<1>1. \A a : a \in Rule["exp"] <=>
        \/ a = <<>>
        \/ \E c \in Digit : a = <<"e", c, "digits">>
        \/ \E g \in {"+", "-"}, c \in Digit : a = <<"e", g, c, "digits">>
  BY DEF Rule
<1>2. <<>> \o r = r BY ConsSome
<1>3. \A c \in Digit : <<"e", c, "digits">> \o r = Cons("e", Cons(c, Cons("digits", r))) BY WrittenOut, WithRest3
<1>4. \A g \in {"+", "-"}, c \in Digit : <<"e", g, c, "digits">> \o r = Cons("e", Cons(g, Cons(c, Cons("digits", r))))
  <2>1. TAKE g \in {"+", "-"}, c \in Digit
  <2>2. "e" \in Symbol /\ g \in Symbol /\ c \in Symbol /\ "digits" \in Symbol BY WrittenOut
  <2> QED BY <2>2, WithRest4, SMTT(60)
<1>5. s \in Alternatives("exp", r) <=> \E a \in Rule["exp"] : s = a \o r BY DEF Alternatives
<1>6. ASSUME NEW a \in Rule["exp"], s = a \o r
      PROVE  \/ s = r
             \/ \E c \in Digit : s = Cons("e", Cons(c, Cons("digits", r)))
             \/ \E g \in {"+", "-"}, c \in Digit : s = Cons("e", Cons(g, Cons(c, Cons("digits", r))))
  <2>1. CASE a = <<>> BY <1>6, <2>1, <1>2
  <2>2. CASE \E c \in Digit : a = <<"e", c, "digits">>
    <3>1. PICK c \in Digit : a = <<"e", c, "digits">> BY <2>2
    <3>2. s = Cons("e", Cons(c, Cons("digits", r))) BY <1>6, <1>3, <3>1
    <3> QED BY <3>2
  <2>3. CASE \E g \in {"+", "-"}, c \in Digit : a = <<"e", g, c, "digits">>
    <3>1. PICK g \in {"+", "-"}, c \in Digit : a = <<"e", g, c, "digits">> BY <2>3
    <3>2. s = Cons("e", Cons(g, Cons(c, Cons("digits", r)))) BY <1>6, <1>4, <3>1
    <3> QED BY <3>2
  <2> QED BY <1>1, <2>1, <2>2, <2>3
<1>7. <<>> \in Rule["exp"] /\ (s = r => s = <<>> \o r) BY <1>1, <1>2
<1>8. ASSUME NEW c \in Digit, s = Cons("e", Cons(c, Cons("digits", r))) PROVE \E a \in Rule["exp"] : s = a \o r
  <2>1. <<"e", c, "digits">> \in Rule["exp"] BY <1>1
  <2>2. s = <<"e", c, "digits">> \o r BY <1>8, <1>3
  <2> QED BY <2>1, <2>2
<1>9. ASSUME NEW g \in {"+", "-"}, NEW c \in Digit, s = Cons("e", Cons(g, Cons(c, Cons("digits", r)))) PROVE \E a \in Rule["exp"] : s = a \o r
  <2>1. <<"e", g, c, "digits">> \in Rule["exp"] BY <1>1
  <2>2. s = <<"e", g, c, "digits">> \o r BY <1>9, <1>4
  <2> QED BY <2>1, <2>2
<1> QED BY <1>5, <1>6, <1>7, <1>8, <1>9

\* Those of "json".
LEMMA RuleJson ==
  ASSUME NEW r \in Rest, NEW s
  PROVE  s \in Alternatives("json", r) <=>
           \/ s = Cons("element", r)
<1>1. \A a : a \in Rule["json"] <=>
        \/ a = <<"element">>
  BY DEF Rule
<1>2. <<"element">> \o r = Cons("element", r) BY WrittenOut, WithRest1
<1>3. s \in Alternatives("json", r) <=> \E a \in Rule["json"] : s = a \o r BY DEF Alternatives
<1> QED BY <1>1, <1>2, <1>3

------------------------------------------------------------------------------
(* What a derivation can go on with *)

\* The derivations of a set that have a character next, after it.
Step(ds, c) ==
  {[d EXCEPT !.rest = Tail(d.rest)] : d \in {e \in ds : e.rest # <<>> /\ Head(e.rest) = c}}

\* After(ds, c) is Settle(Step(ds, c)).
Lead(d, c) == Step(Final(d), c)

\* The numbers of nodes with which a derivation can end.
Ends(d) == {m \in Nat : D(<<>>, m) \in Final(d)}

\* One derivation after a character it has next.
StepOf(d, c) == Step({d}, c)

\* A derivation that has a symbol next, and one that has none.
LEMMA StepChar ==
  ASSUME NEW r \in Rest, NEW x \in Symbol, NEW n, NEW c
  PROVE  /\ \A y : y \in StepOf(D(Cons(x, r), n), c) <=> c = x /\ y = D(r, n)
         /\ \A y : y \notin StepOf(D(<<>>, n), c)
<1>1. /\ Cons(x, r) # <<>> /\ Head(Cons(x, r)) = x /\ Tail(Cons(x, r)) = r
  BY ConsParts
<1> DEFINE d == D(Cons(x, r), n)
<1>2. d.rest = Cons(x, r) /\ [d EXCEPT !.rest = r] = D(r, n) BY DEF D
<1>3. ASSUME NEW y PROVE y \in StepOf(d, c) <=> c = x /\ y = D(r, n)
  <2>1. y \in StepOf(d, c) <=>
          d.rest # <<>> /\ Head(d.rest) = c /\ y = [d EXCEPT !.rest = Tail(d.rest)]
    BY DEF StepOf, Step
  <2> QED BY <2>1, <1>1, <1>2
<1>4. \A y : y \notin StepOf(D(<<>>, n), c) BY DEF StepOf, Step, D
<1> QED BY <1>3, <1>4

\* Sets of derivations are stepped one by one.
LEMMA StepTogether ==
  ASSUME NEW ds, NEW c, NEW y
  PROVE  y \in Step(ds, c) <=> \E d \in ds : y \in StepOf(d, c)
BY DEF Step, StepOf

\* A character leads to what follows it, and an empty rest ends.
LEMMA CharLead ==
  ASSUME NEW r \in Rest, NEW x \in Char, NEW n \in Nat
  PROVE  /\ \A c, y : y \in Lead(D(Cons(x, r), n), c) <=> c = x /\ y = D(r, n)
         /\ \A m : m \notin Ends(D(Cons(x, r), n))
         /\ \A c, y : y \notin Lead(D(<<>>, n), c)
         /\ \A m : m \in Ends(D(<<>>, n)) <=> m = n
<1>1. x \in Symbol BY Symbols
<1>2. Final(D(Cons(x, r), n)) = {D(Cons(x, r), n)} /\ Final(D(<<>>, n)) = {D(<<>>, n)}
  BY CharFinal
<1>3. \A m : D(<<>>, m) # D(Cons(x, r), n) BY <1>1, ConsParts DEF D
<1>4. \A m : D(<<>>, m) = D(<<>>, n) <=> m = n BY DEF D
<1>5. \A c : /\ Lead(D(Cons(x, r), n), c) = StepOf(D(Cons(x, r), n), c)
             /\ Lead(D(<<>>, n), c) = StepOf(D(<<>>, n), c)
  BY <1>2 DEF Lead, StepOf
<1>6. \A m : /\ m \notin Ends(D(Cons(x, r), n))
             /\ m \in Ends(D(<<>>, n)) <=> m = n
  BY <1>2, <1>3, <1>4 DEF Ends
<1>7. \A c, y : /\ y \in StepOf(D(Cons(x, r), n), c) <=> c = x /\ y = D(r, n)
                /\ y \notin StepOf(D(<<>>, n), c)
  BY <1>1, StepChar
<1> QED BY <1>5, <1>6, <1>7

\* A symbol leads to what its alternatives lead to.
LEMMA SymbolLead ==
  ASSUME NEW r \in Rest, NEW x \in Nonterminal, NEW k \in 0 .. 9,
         \A s \in Alternatives(x, r) : Quick(k, s)
  PROVE  /\ Quick(k + 1, Cons(x, r))
         /\ \A n \in Nat : \A c, y : y \in Lead(D(Cons(x, r), n), c) <=>
              \E s \in Alternatives(x, r) : y \in Lead(D(s, n), c)
         /\ \A n \in Nat : \A m : m \in Ends(D(Cons(x, r), n)) <=>
              \E s \in Alternatives(x, r) : m \in Ends(D(s, n))
<1>1. /\ Quick(k + 1, Cons(x, r))
      /\ \A n \in Nat : \A e : e \in Final(D(Cons(x, r), n)) <=>
           \E s \in Alternatives(x, r) : e \in Final(D(s, n))
  BY SymbolFinal
<1>2. ASSUME NEW n \in Nat, NEW c, NEW y
      PROVE  y \in Lead(D(Cons(x, r), n), c) <=>
               \E s \in Alternatives(x, r) : y \in Lead(D(s, n), c)
  <2>1. y \in Lead(D(Cons(x, r), n), c) <=>
          \E e \in Final(D(Cons(x, r), n)) : y \in StepOf(e, c)
    BY StepTogether DEF Lead
  <2>2. \A s : y \in Lead(D(s, n), c) <=> \E e \in Final(D(s, n)) : y \in StepOf(e, c)
    BY StepTogether DEF Lead
  <2> QED BY <2>1, <2>2, <1>1
<1>3. ASSUME NEW n \in Nat, NEW m
      PROVE  m \in Ends(D(Cons(x, r), n)) <=>
               \E s \in Alternatives(x, r) : m \in Ends(D(s, n))
  BY <1>1 DEF Ends
<1> QED BY <1>1, <1>2, <1>3

\* The mark of a node leads where what follows it leads, with one node more.
LEMMA NodeLead ==
  ASSUME NEW r \in Rest, NEW k \in 0 .. 9, Quick(k, r)
  PROVE  /\ Quick(k + 1, Cons("node", r))
         /\ \A n \in Nat : \A c, y :
              y \in Lead(D(Cons("node", r), n), c) <=> y \in Lead(D(r, n + 1), c)
         /\ \A n \in Nat : \A m : m \in Ends(D(Cons("node", r), n)) <=> m \in Ends(D(r, n + 1))
BY NodeFinal DEF Lead, Ends

\* The characters of the rules, one by one.
LEMMA Chars ==
  /\ OB \in Char /\ CB \in Char /\ "[" \in Char /\ "]" \in Char
  /\ CM \in Char /\ ":" \in Char /\ "-" \in Char /\ "+" \in Char
  /\ "." \in Char /\ "e" \in Char /\ "true" \in Char /\ "0" \in Char /\ "1" \in Char
  /\ DQ \in Char /\ BS \in Char /\ NUL \in Char /\ NL \in Char
  /\ \A c \in Space \cup Digit \cup Plain \cup Escaped : c \in Char
BY DEF Char, Plain, Digit, Space, Escaped, OB, CB, CM

\* What the symbols lead to: first "ws".
LEMMA LeadWs ==
  ASSUME NEW r \in Rest, NEW k \in 0 .. 9, Quick(k, r)
  PROVE  /\ Quick(k + 1, Cons("ws", r))
         /\ \A n \in Nat : \A c, y : y \in Lead(D(Cons("ws", r), n), c) <=>
                \/ y \in Lead(D(r, n), c)
                \/ c \in Space /\ y = D(Cons("ws", r), n)
         /\ \A n \in Nat : \A m : m \in Ends(D(Cons("ws", r), n)) <=> m \in Ends(D(r, n))
<1>1. /\ "ws" \in Symbol
      /\ "ws" \in Nonterminal
  BY WrittenOut DEF Nonterminal
<1>2. ASSUME NEW b \in Space
      PROVE  /\ b \in Char
             /\ Cons("ws", r) \in Rest
  <2>1. b \in Char /\ b \in Symbol BY Symbols, Chars
  <2>2. Cons("ws", r) \in Rest BY <1>1, <2>1, ConsParts
  <2> QED BY <2>1, <2>2
<1>3. \A b \in Space : Quick(k, Cons(b, Cons("ws", r))) BY <1>2, CharFinal
<1>4. \A b \in Space : \A n \in Nat :
        /\ \A c, y : y \in Lead(D(Cons(b, Cons("ws", r)), n), c) <=> c = b /\ y = D(Cons("ws", r), n)
        /\ \A m : m \notin Ends(D(Cons(b, Cons("ws", r)), n))
  BY <1>2, CharLead
<1>5. \A s \in Alternatives("ws", r) : Quick(k, s) BY <1>3, RuleWs
<1>6. /\ Quick(k + 1, Cons("ws", r))
      /\ \A n \in Nat : \A c, y : y \in Lead(D(Cons("ws", r), n), c) <=>
           \E s \in Alternatives("ws", r) : y \in Lead(D(s, n), c)
      /\ \A n \in Nat : \A m : m \in Ends(D(Cons("ws", r), n)) <=>
           \E s \in Alternatives("ws", r) : m \in Ends(D(s, n))
  BY <1>1, <1>5, SymbolLead
<1>7. ASSUME NEW n \in Nat, NEW c, NEW y
      PROVE  y \in Lead(D(Cons("ws", r), n), c) <=>
                \/ y \in Lead(D(r, n), c)
                \/ c \in Space /\ y = D(Cons("ws", r), n)
  <2>1. \A s : s \in Alternatives("ws", r) <=>
          \/ s = r
          \/ \E b \in Space : s = Cons(b, Cons("ws", r))
    BY RuleWs
  <2> QED BY <2>1, <1>6, <1>4
<1>8. ASSUME NEW n \in Nat, NEW m
      PROVE  m \in Ends(D(Cons("ws", r), n)) <=> m \in Ends(D(r, n))
  BY <1>6, <1>4, RuleWs
<1> QED BY <1>6, <1>7, <1>8

\* "digits".
LEMMA LeadDigits ==
  ASSUME NEW r \in Rest, NEW k \in 0 .. 9, Quick(k, r)
  PROVE  /\ Quick(k + 1, Cons("digits", r))
         /\ \A n \in Nat : \A c, y : y \in Lead(D(Cons("digits", r), n), c) <=>
                \/ y \in Lead(D(r, n), c)
                \/ c \in Digit /\ y = D(Cons("digits", r), n)
         /\ \A n \in Nat : \A m : m \in Ends(D(Cons("digits", r), n)) <=> m \in Ends(D(r, n))
<1>1. /\ "digits" \in Symbol
      /\ "digits" \in Nonterminal
  BY WrittenOut DEF Nonterminal
<1>2. ASSUME NEW b \in Digit
      PROVE  /\ b \in Char
             /\ Cons("digits", r) \in Rest
  <2>1. b \in Char /\ b \in Symbol BY Symbols, Chars
  <2>2. Cons("digits", r) \in Rest BY <1>1, <2>1, ConsParts
  <2> QED BY <2>1, <2>2
<1>3. \A b \in Digit : Quick(k, Cons(b, Cons("digits", r))) BY <1>2, CharFinal
<1>4. \A b \in Digit : \A n \in Nat :
        /\ \A c, y : y \in Lead(D(Cons(b, Cons("digits", r)), n), c) <=> c = b /\ y = D(Cons("digits", r), n)
        /\ \A m : m \notin Ends(D(Cons(b, Cons("digits", r)), n))
  BY <1>2, CharLead
<1>5. \A s \in Alternatives("digits", r) : Quick(k, s) BY <1>3, RuleDigits
<1>6. /\ Quick(k + 1, Cons("digits", r))
      /\ \A n \in Nat : \A c, y : y \in Lead(D(Cons("digits", r), n), c) <=>
           \E s \in Alternatives("digits", r) : y \in Lead(D(s, n), c)
      /\ \A n \in Nat : \A m : m \in Ends(D(Cons("digits", r), n)) <=>
           \E s \in Alternatives("digits", r) : m \in Ends(D(s, n))
  BY <1>1, <1>5, SymbolLead
<1>7. ASSUME NEW n \in Nat, NEW c, NEW y
      PROVE  y \in Lead(D(Cons("digits", r), n), c) <=>
                \/ y \in Lead(D(r, n), c)
                \/ c \in Digit /\ y = D(Cons("digits", r), n)
  <2>1. \A s : s \in Alternatives("digits", r) <=>
          \/ s = r
          \/ \E b \in Digit : s = Cons(b, Cons("digits", r))
    BY RuleDigits
  <2> QED BY <2>1, <1>6, <1>4
<1>8. ASSUME NEW n \in Nat, NEW m
      PROVE  m \in Ends(D(Cons("digits", r), n)) <=> m \in Ends(D(r, n))
  BY <1>6, <1>4, RuleDigits
<1> QED BY <1>6, <1>7, <1>8

\* "frac".
LEMMA LeadFrac ==
  ASSUME NEW r \in Rest, NEW k \in 0 .. 9, Quick(k, r)
  PROVE  /\ Quick(k + 1, Cons("frac", r))
         /\ \A n \in Nat : \A c, y : y \in Lead(D(Cons("frac", r), n), c) <=>
                \/ y \in Lead(D(r, n), c)
                \/ c = "." /\ \E b \in Digit : y = D(Cons(b, Cons("digits", r)), n)
         /\ \A n \in Nat : \A m : m \in Ends(D(Cons("frac", r), n)) <=> m \in Ends(D(r, n))
<1>1. /\ "." \in Symbol
      /\ "digits" \in Symbol
      /\ "frac" \in Nonterminal
  BY WrittenOut DEF Nonterminal
<1>2. ASSUME NEW b \in Digit
      PROVE  /\ "." \in Char
             /\ Cons("digits", r) \in Rest
             /\ Cons(b, Cons("digits", r)) \in Rest
  <2>1. "." \in Char /\ b \in Symbol BY Symbols, Chars
  <2>2. Cons("digits", r) \in Rest BY <1>1, <2>1, ConsParts
  <2>3. Cons(b, Cons("digits", r)) \in Rest BY <1>1, <2>1, <2>2, ConsParts
  <2> QED BY <2>1, <2>2, <2>3
<1>3. \A b \in Digit : Quick(k, Cons(".", Cons(b, Cons("digits", r)))) BY <1>2, CharFinal
<1>4. \A b \in Digit : \A n \in Nat :
        /\ \A c, y : y \in Lead(D(Cons(".", Cons(b, Cons("digits", r))), n), c) <=> c = "." /\ y = D(Cons(b, Cons("digits", r)), n)
        /\ \A m : m \notin Ends(D(Cons(".", Cons(b, Cons("digits", r))), n))
  BY <1>2, CharLead
<1>5. \A s \in Alternatives("frac", r) : Quick(k, s) BY <1>3, RuleFrac
<1>6. /\ Quick(k + 1, Cons("frac", r))
      /\ \A n \in Nat : \A c, y : y \in Lead(D(Cons("frac", r), n), c) <=>
           \E s \in Alternatives("frac", r) : y \in Lead(D(s, n), c)
      /\ \A n \in Nat : \A m : m \in Ends(D(Cons("frac", r), n)) <=>
           \E s \in Alternatives("frac", r) : m \in Ends(D(s, n))
  BY <1>1, <1>5, SymbolLead
<1>7. ASSUME NEW n \in Nat, NEW c, NEW y
      PROVE  y \in Lead(D(Cons("frac", r), n), c) <=>
                \/ y \in Lead(D(r, n), c)
                \/ c = "." /\ \E b \in Digit : y = D(Cons(b, Cons("digits", r)), n)
  <2>1. \A s : s \in Alternatives("frac", r) <=>
          \/ s = r
          \/ \E b \in Digit : s = Cons(".", Cons(b, Cons("digits", r)))
    BY RuleFrac
  <2> QED BY <2>1, <1>6, <1>4
<1>8. ASSUME NEW n \in Nat, NEW m
      PROVE  m \in Ends(D(Cons("frac", r), n)) <=> m \in Ends(D(r, n))
  BY <1>6, <1>4, RuleFrac
<1> QED BY <1>6, <1>7, <1>8

\* "exp".
LEMMA LeadExp ==
  ASSUME NEW r \in Rest, NEW k \in 0 .. 9, Quick(k, r)
  PROVE  /\ Quick(k + 1, Cons("exp", r))
         /\ \A n \in Nat : \A c, y : y \in Lead(D(Cons("exp", r), n), c) <=>
                \/ y \in Lead(D(r, n), c)
                \/ c = "e" /\ \E b \in Digit : y = D(Cons(b, Cons("digits", r)), n)
                \/ c = "e" /\ \E g \in {"+", "-"}, b \in Digit : y = D(Cons(g, Cons(b, Cons("digits", r))), n)
         /\ \A n \in Nat : \A m : m \in Ends(D(Cons("exp", r), n)) <=> m \in Ends(D(r, n))
<1>1. /\ "e" \in Symbol
      /\ "digits" \in Symbol
      /\ "exp" \in Nonterminal
  BY WrittenOut DEF Nonterminal
<1>2. ASSUME NEW b \in Digit
      PROVE  /\ "e" \in Char
             /\ Cons("digits", r) \in Rest
             /\ Cons(b, Cons("digits", r)) \in Rest
  <2>1. "e" \in Char /\ b \in Symbol BY Symbols, Chars
  <2>2. Cons("digits", r) \in Rest BY <1>1, <2>1, ConsParts
  <2>3. Cons(b, Cons("digits", r)) \in Rest BY <1>1, <2>1, <2>2, ConsParts
  <2> QED BY <2>1, <2>2, <2>3
<1>3. \A b \in Digit : Quick(k, Cons("e", Cons(b, Cons("digits", r)))) BY <1>2, CharFinal
<1>4. \A b \in Digit : \A n \in Nat :
        /\ \A c, y : y \in Lead(D(Cons("e", Cons(b, Cons("digits", r))), n), c) <=> c = "e" /\ y = D(Cons(b, Cons("digits", r)), n)
        /\ \A m : m \notin Ends(D(Cons("e", Cons(b, Cons("digits", r))), n))
  BY <1>2, CharLead
<1>5. ASSUME NEW g \in {"+", "-"}, NEW b \in Digit
      PROVE  /\ "e" \in Char
             /\ Cons("digits", r) \in Rest
             /\ Cons(b, Cons("digits", r)) \in Rest
             /\ Cons(g, Cons(b, Cons("digits", r))) \in Rest
  <2>1. "e" \in Char /\ g \in Symbol /\ b \in Symbol BY Symbols, Chars
  <2>2. Cons("digits", r) \in Rest BY <1>1, <2>1, ConsParts
  <2>3. Cons(b, Cons("digits", r)) \in Rest BY <1>1, <2>1, <2>2, ConsParts
  <2>4. Cons(g, Cons(b, Cons("digits", r))) \in Rest BY <1>1, <2>1, <2>2, <2>3, ConsParts
  <2> QED BY <2>1, <2>2, <2>3, <2>4
<1>6. \A g \in {"+", "-"} : \A b \in Digit : Quick(k, Cons("e", Cons(g, Cons(b, Cons("digits", r))))) BY <1>5, CharFinal
<1>7. \A g \in {"+", "-"} : \A b \in Digit : \A n \in Nat :
        /\ \A c, y : y \in Lead(D(Cons("e", Cons(g, Cons(b, Cons("digits", r)))), n), c) <=> c = "e" /\ y = D(Cons(g, Cons(b, Cons("digits", r))), n)
        /\ \A m : m \notin Ends(D(Cons("e", Cons(g, Cons(b, Cons("digits", r)))), n))
  BY <1>5, CharLead
<1>8. \A s \in Alternatives("exp", r) : Quick(k, s) BY <1>3, <1>6, RuleExp
<1>9. /\ Quick(k + 1, Cons("exp", r))
      /\ \A n \in Nat : \A c, y : y \in Lead(D(Cons("exp", r), n), c) <=>
           \E s \in Alternatives("exp", r) : y \in Lead(D(s, n), c)
      /\ \A n \in Nat : \A m : m \in Ends(D(Cons("exp", r), n)) <=>
           \E s \in Alternatives("exp", r) : m \in Ends(D(s, n))
  BY <1>1, <1>8, SymbolLead
<1>10. ASSUME NEW n \in Nat, NEW c, NEW y
      PROVE  y \in Lead(D(Cons("exp", r), n), c) <=>
                \/ y \in Lead(D(r, n), c)
                \/ c = "e" /\ \E b \in Digit : y = D(Cons(b, Cons("digits", r)), n)
                \/ c = "e" /\ \E g \in {"+", "-"}, b \in Digit : y = D(Cons(g, Cons(b, Cons("digits", r))), n)
  <2>1. \A s : s \in Alternatives("exp", r) <=>
          \/ s = r
          \/ \E b \in Digit : s = Cons("e", Cons(b, Cons("digits", r)))
          \/ \E g \in {"+", "-"}, b \in Digit : s = Cons("e", Cons(g, Cons(b, Cons("digits", r))))
    BY RuleExp
  <2>2. ASSUME NEW s \in Alternatives("exp", r), y \in Lead(D(s, n), c)
        PROVE  \/ y \in Lead(D(r, n), c)
               \/ c = "e" /\ \E b \in Digit : y = D(Cons(b, Cons("digits", r)), n)
               \/ c = "e" /\ \E g \in {"+", "-"}, b \in Digit : y = D(Cons(g, Cons(b, Cons("digits", r))), n)
    <3>1. CASE s = r BY <2>2, <3>1
    <3>2. CASE \E b \in Digit : s = Cons("e", Cons(b, Cons("digits", r)))
      <4>1. PICK b \in Digit : s = Cons("e", Cons(b, Cons("digits", r))) BY <3>2
      <4>2. c = "e" /\ y = D(Cons(b, Cons("digits", r)), n) BY <2>2, <4>1, <1>4
      <4> QED BY <4>1, <4>2
    <3>3. CASE \E g \in {"+", "-"}, b \in Digit : s = Cons("e", Cons(g, Cons(b, Cons("digits", r))))
      <4>1. PICK g \in {"+", "-"}, b \in Digit : s = Cons("e", Cons(g, Cons(b, Cons("digits", r)))) BY <3>3
      <4>2. c = "e" /\ y = D(Cons(g, Cons(b, Cons("digits", r))), n) BY <2>2, <4>1, <1>7
      <4> QED BY <4>1, <4>2
    <3> QED BY <2>1, <3>1, <3>2, <3>3
  <2>3. r \in Alternatives("exp", r) BY <2>1
  <2>4. ASSUME NEW b \in Digit, c = "e", y = D(Cons(b, Cons("digits", r)), n)
        PROVE  \E s \in Alternatives("exp", r) : y \in Lead(D(s, n), c)
    <3>1. Cons("e", Cons(b, Cons("digits", r))) \in Alternatives("exp", r) BY <2>1
    <3>2. y \in Lead(D(Cons("e", Cons(b, Cons("digits", r))), n), c) BY <2>4, <1>4
    <3> QED BY <3>1, <3>2
  <2>5. ASSUME NEW g \in {"+", "-"}, NEW b \in Digit, c = "e", y = D(Cons(g, Cons(b, Cons("digits", r))), n)
        PROVE  \E s \in Alternatives("exp", r) : y \in Lead(D(s, n), c)
    <3>1. Cons("e", Cons(g, Cons(b, Cons("digits", r)))) \in Alternatives("exp", r) BY <2>1
    <3>2. y \in Lead(D(Cons("e", Cons(g, Cons(b, Cons("digits", r)))), n), c) BY <2>5, <1>7
    <3> QED BY <3>1, <3>2
  <2> QED BY <1>9, <2>2, <2>3, <2>4, <2>5
<1>11. ASSUME NEW n \in Nat, NEW m
      PROVE  m \in Ends(D(Cons("exp", r), n)) <=> m \in Ends(D(r, n))
  BY <1>9, <1>4, <1>7, RuleExp
<1> QED BY <1>9, <1>10, <1>11

\* "characters".
LEMMA LeadCharacters ==
  ASSUME NEW r \in Rest, NEW k \in 0 .. 9, Quick(k, r)
  PROVE  /\ Quick(k + 1, Cons("characters", r))
         /\ \A n \in Nat : \A c, y : y \in Lead(D(Cons("characters", r), n), c) <=>
                \/ y \in Lead(D(r, n), c)
                \/ c \in Plain /\ y = D(Cons("characters", r), n)
                \/ c = BS /\ \E b \in Escaped : y = D(Cons(b, Cons("characters", r)), n)
         /\ \A n \in Nat : \A m : m \in Ends(D(Cons("characters", r), n)) <=> m \in Ends(D(r, n))
<1>1. /\ "characters" \in Symbol
      /\ BS \in Symbol
      /\ "characters" \in Nonterminal
  BY WrittenOut DEF Nonterminal
<1>2. ASSUME NEW b \in Plain
      PROVE  /\ b \in Char
             /\ Cons("characters", r) \in Rest
  <2>1. b \in Char /\ b \in Symbol BY Symbols, Chars
  <2>2. Cons("characters", r) \in Rest BY <1>1, <2>1, ConsParts
  <2> QED BY <2>1, <2>2
<1>3. \A b \in Plain : Quick(k, Cons(b, Cons("characters", r))) BY <1>2, CharFinal
<1>4. \A b \in Plain : \A n \in Nat :
        /\ \A c, y : y \in Lead(D(Cons(b, Cons("characters", r)), n), c) <=> c = b /\ y = D(Cons("characters", r), n)
        /\ \A m : m \notin Ends(D(Cons(b, Cons("characters", r)), n))
  BY <1>2, CharLead
<1>5. ASSUME NEW b \in Escaped
      PROVE  /\ BS \in Char
             /\ Cons("characters", r) \in Rest
             /\ Cons(b, Cons("characters", r)) \in Rest
  <2>1. BS \in Char /\ b \in Symbol BY Symbols, Chars
  <2>2. Cons("characters", r) \in Rest BY <1>1, <2>1, ConsParts
  <2>3. Cons(b, Cons("characters", r)) \in Rest BY <1>1, <2>1, <2>2, ConsParts
  <2> QED BY <2>1, <2>2, <2>3
<1>6. \A b \in Escaped : Quick(k, Cons(BS, Cons(b, Cons("characters", r)))) BY <1>5, CharFinal
<1>7. \A b \in Escaped : \A n \in Nat :
        /\ \A c, y : y \in Lead(D(Cons(BS, Cons(b, Cons("characters", r))), n), c) <=> c = BS /\ y = D(Cons(b, Cons("characters", r)), n)
        /\ \A m : m \notin Ends(D(Cons(BS, Cons(b, Cons("characters", r))), n))
  BY <1>5, CharLead
<1>8. \A s \in Alternatives("characters", r) : Quick(k, s) BY <1>3, <1>6, RuleCharacters
<1>9. /\ Quick(k + 1, Cons("characters", r))
      /\ \A n \in Nat : \A c, y : y \in Lead(D(Cons("characters", r), n), c) <=>
           \E s \in Alternatives("characters", r) : y \in Lead(D(s, n), c)
      /\ \A n \in Nat : \A m : m \in Ends(D(Cons("characters", r), n)) <=>
           \E s \in Alternatives("characters", r) : m \in Ends(D(s, n))
  BY <1>1, <1>8, SymbolLead
<1>10. ASSUME NEW n \in Nat, NEW c, NEW y
      PROVE  y \in Lead(D(Cons("characters", r), n), c) <=>
                \/ y \in Lead(D(r, n), c)
                \/ c \in Plain /\ y = D(Cons("characters", r), n)
                \/ c = BS /\ \E b \in Escaped : y = D(Cons(b, Cons("characters", r)), n)
  <2>1. \A s : s \in Alternatives("characters", r) <=>
          \/ s = r
          \/ \E b \in Plain : s = Cons(b, Cons("characters", r))
          \/ \E b \in Escaped : s = Cons(BS, Cons(b, Cons("characters", r)))
    BY RuleCharacters
  <2>2. ASSUME NEW s \in Alternatives("characters", r), y \in Lead(D(s, n), c)
        PROVE  \/ y \in Lead(D(r, n), c)
               \/ c \in Plain /\ y = D(Cons("characters", r), n)
               \/ c = BS /\ \E b \in Escaped : y = D(Cons(b, Cons("characters", r)), n)
    <3>1. CASE s = r BY <2>2, <3>1
    <3>2. CASE \E b \in Plain : s = Cons(b, Cons("characters", r))
      <4>1. PICK b \in Plain : s = Cons(b, Cons("characters", r)) BY <3>2
      <4>2. c = b /\ y = D(Cons("characters", r), n) BY <2>2, <4>1, <1>4
      <4> QED BY <4>1, <4>2
    <3>3. CASE \E b \in Escaped : s = Cons(BS, Cons(b, Cons("characters", r)))
      <4>1. PICK b \in Escaped : s = Cons(BS, Cons(b, Cons("characters", r))) BY <3>3
      <4>2. c = BS /\ y = D(Cons(b, Cons("characters", r)), n) BY <2>2, <4>1, <1>7
      <4> QED BY <4>1, <4>2
    <3> QED BY <2>1, <3>1, <3>2, <3>3
  <2>3. r \in Alternatives("characters", r) BY <2>1
  <2>4. ASSUME NEW b \in Plain, c = b, y = D(Cons("characters", r), n)
        PROVE  \E s \in Alternatives("characters", r) : y \in Lead(D(s, n), c)
    <3>1. Cons(b, Cons("characters", r)) \in Alternatives("characters", r) BY <2>1
    <3>2. y \in Lead(D(Cons(b, Cons("characters", r)), n), c) BY <2>4, <1>4
    <3> QED BY <3>1, <3>2
  <2>5. ASSUME NEW b \in Escaped, c = BS, y = D(Cons(b, Cons("characters", r)), n)
        PROVE  \E s \in Alternatives("characters", r) : y \in Lead(D(s, n), c)
    <3>1. Cons(BS, Cons(b, Cons("characters", r))) \in Alternatives("characters", r) BY <2>1
    <3>2. y \in Lead(D(Cons(BS, Cons(b, Cons("characters", r))), n), c) BY <2>5, <1>7
    <3> QED BY <3>1, <3>2
  <2> QED BY <1>9, <2>2, <2>3, <2>4, <2>5
<1>11. ASSUME NEW n \in Nat, NEW m
      PROVE  m \in Ends(D(Cons("characters", r), n)) <=> m \in Ends(D(r, n))
  BY <1>9, <1>4, <1>7, RuleCharacters
<1> QED BY <1>9, <1>10, <1>11

\* "int".
LEMMA LeadInt ==
  ASSUME NEW r \in Rest
  PROVE  /\ Quick(1, Cons("int", r))
         /\ \A n \in Nat : \A c, y : y \in Lead(D(Cons("int", r), n), c) <=>
                \/ c = "0" /\ y = D(r, n)
                \/ c = "1" /\ y = D(Cons("digits", r), n)
         /\ \A n \in Nat : \A m : m \notin Ends(D(Cons("int", r), n))
<1>1. /\ "0" \in Symbol
      /\ "1" \in Symbol
      /\ "digits" \in Symbol
      /\ "int" \in Nonterminal
  BY WrittenOut DEF Nonterminal
<1>2. /\ "0" \in Char
  <2>1. "0" \in Char BY Symbols, Chars
  <2> QED BY <2>1
<1>3. Quick(0, Cons("0", r)) BY <1>2, CharFinal
<1>4. \A n \in Nat :
        /\ \A c, y : y \in Lead(D(Cons("0", r), n), c) <=> c = "0" /\ y = D(r, n)
        /\ \A m : m \notin Ends(D(Cons("0", r), n))
  BY <1>2, CharLead
<1>5. /\ "1" \in Char
      /\ Cons("digits", r) \in Rest
  <2>1. "1" \in Char BY Symbols, Chars
  <2>2. Cons("digits", r) \in Rest BY <1>1, <2>1, ConsParts
  <2> QED BY <2>1, <2>2
<1>6. Quick(0, Cons("1", Cons("digits", r))) BY <1>5, CharFinal
<1>7. \A n \in Nat :
        /\ \A c, y : y \in Lead(D(Cons("1", Cons("digits", r)), n), c) <=> c = "1" /\ y = D(Cons("digits", r), n)
        /\ \A m : m \notin Ends(D(Cons("1", Cons("digits", r)), n))
  BY <1>5, CharLead
<1>8. \A s \in Alternatives("int", r) : Quick(0, s) BY <1>3, <1>6, RuleInt
<1>9. /\ Quick(0 + 1, Cons("int", r))
      /\ \A n \in Nat : \A c, y : y \in Lead(D(Cons("int", r), n), c) <=>
           \E s \in Alternatives("int", r) : y \in Lead(D(s, n), c)
      /\ \A n \in Nat : \A m : m \in Ends(D(Cons("int", r), n)) <=>
           \E s \in Alternatives("int", r) : m \in Ends(D(s, n))
  BY <1>1, <1>8, SymbolLead
<1>10. ASSUME NEW n \in Nat, NEW c, NEW y
      PROVE  y \in Lead(D(Cons("int", r), n), c) <=>
                \/ c = "0" /\ y = D(r, n)
                \/ c = "1" /\ y = D(Cons("digits", r), n)
  <2>1. \A s : s \in Alternatives("int", r) <=>
          \/ s = Cons("0", r)
          \/ s = Cons("1", Cons("digits", r))
    BY RuleInt
  <2> QED BY <2>1, <1>9, <1>4, <1>7
<1>11. ASSUME NEW n \in Nat, NEW m
      PROVE  m \notin Ends(D(Cons("int", r), n))
  BY <1>9, <1>4, <1>7, RuleInt
<1> QED BY <1>9, <1>10, <1>11

\* "string".
LEMMA LeadString ==
  ASSUME NEW r \in Rest
  PROVE  /\ Quick(1, Cons("string", r))
         /\ \A n \in Nat : \A c, y : y \in Lead(D(Cons("string", r), n), c) <=>
                c = DQ /\ y = D(Cons("characters", Cons(DQ, r)), n)
         /\ \A n \in Nat : \A m : m \notin Ends(D(Cons("string", r), n))
<1>1. /\ DQ \in Symbol
      /\ "characters" \in Symbol
      /\ "string" \in Nonterminal
  BY WrittenOut DEF Nonterminal
<1>2. /\ DQ \in Char
      /\ Cons(DQ, r) \in Rest
      /\ Cons("characters", Cons(DQ, r)) \in Rest
  <2>1. DQ \in Char BY Symbols, Chars
  <2>2. Cons(DQ, r) \in Rest BY <1>1, <2>1, ConsParts
  <2>3. Cons("characters", Cons(DQ, r)) \in Rest BY <1>1, <2>1, <2>2, ConsParts
  <2> QED BY <2>1, <2>2, <2>3
<1>3. Quick(0, Cons(DQ, Cons("characters", Cons(DQ, r)))) BY <1>2, CharFinal
<1>4. \A n \in Nat :
        /\ \A c, y : y \in Lead(D(Cons(DQ, Cons("characters", Cons(DQ, r))), n), c) <=> c = DQ /\ y = D(Cons("characters", Cons(DQ, r)), n)
        /\ \A m : m \notin Ends(D(Cons(DQ, Cons("characters", Cons(DQ, r))), n))
  BY <1>2, CharLead
<1>5. \A s \in Alternatives("string", r) : Quick(0, s) BY <1>3, RuleString
<1>6. /\ Quick(0 + 1, Cons("string", r))
      /\ \A n \in Nat : \A c, y : y \in Lead(D(Cons("string", r), n), c) <=>
           \E s \in Alternatives("string", r) : y \in Lead(D(s, n), c)
      /\ \A n \in Nat : \A m : m \in Ends(D(Cons("string", r), n)) <=>
           \E s \in Alternatives("string", r) : m \in Ends(D(s, n))
  BY <1>1, <1>5, SymbolLead
<1>7. ASSUME NEW n \in Nat, NEW c, NEW y
      PROVE  y \in Lead(D(Cons("string", r), n), c) <=>
                c = DQ /\ y = D(Cons("characters", Cons(DQ, r)), n)
  <2>1. \A s : s \in Alternatives("string", r) <=>
          \/ s = Cons(DQ, Cons("characters", Cons(DQ, r)))
    BY RuleString
  <2> QED BY <2>1, <1>6, <1>4
<1>8. ASSUME NEW n \in Nat, NEW m
      PROVE  m \notin Ends(D(Cons("string", r), n))
  BY <1>6, <1>4, RuleString
<1> QED BY <1>6, <1>7, <1>8

\* "number".
LEMMA LeadNumber ==
  ASSUME NEW r \in Rest
  PROVE  /\ Quick(2, Cons("number", r))
         /\ \A n \in Nat : \A c, y : y \in Lead(D(Cons("number", r), n), c) <=>
                \/ c = "0" /\ y = D(Cons("frac", Cons("exp", r)), n)
                \/ c = "1" /\ y = D(Cons("digits", Cons("frac", Cons("exp", r))), n)
                \/ c = "-" /\ y = D(Cons("int", Cons("frac", Cons("exp", r))), n)
         /\ \A n \in Nat : \A m : m \notin Ends(D(Cons("number", r), n))
<1> DEFINE f == Cons("frac", Cons("exp", r))
           i == Cons("int", f)
           j == Cons("-", i)
<1>1. "number" \in Nonterminal /\ "-" \in Char BY Chars DEF Nonterminal
<1>2. f \in Rest /\ i \in Rest BY WrittenOut, ConsParts
<1>3. \A s : s \in Alternatives("number", r) <=> s = i \/ s = j BY RuleNumber
<1> HIDE DEF f
<1>4. /\ Quick(1, i)
      /\ \A n \in Nat : \A c, y : y \in Lead(D(i, n), c) <=>
           \/ c = "0" /\ y = D(f, n)
           \/ c = "1" /\ y = D(Cons("digits", f), n)
      /\ \A n \in Nat : \A m : m \notin Ends(D(i, n))
  BY <1>2, LeadInt
<1>5. /\ Quick(1, j)
      /\ \A n \in Nat : /\ \A c, y : y \in Lead(D(j, n), c) <=> c = "-" /\ y = D(i, n)
                        /\ \A m : m \notin Ends(D(j, n))
  <2> HIDE DEF i
  <2>1. 1 \in 0 .. 10 OBVIOUS
  <2> QED BY <1>1, <1>2, <2>1, CharFinal, CharLead
<1> HIDE DEF i, j
<1>6. /\ Quick(1 + 1, Cons("number", r))
      /\ \A n \in Nat : \A c, y : y \in Lead(D(Cons("number", r), n), c) <=>
           \E s \in Alternatives("number", r) : y \in Lead(D(s, n), c)
      /\ \A n \in Nat : \A m : m \in Ends(D(Cons("number", r), n)) <=>
           \E s \in Alternatives("number", r) : m \in Ends(D(s, n))
  <2>1. 1 \in 0 .. 9 /\ \A s \in Alternatives("number", r) : Quick(1, s) BY <1>3, <1>4, <1>5
  <2> QED BY <1>1, <2>1, SymbolLead
<1>7. ASSUME NEW n \in Nat, NEW c, NEW y
      PROVE  y \in Lead(D(Cons("number", r), n), c) <=>
                \/ c = "0" /\ y = D(f, n)
                \/ c = "1" /\ y = D(Cons("digits", f), n)
                \/ c = "-" /\ y = D(i, n)
  BY <1>3, <1>4, <1>5, <1>6
<1>8. \A n \in Nat : \A m : m \notin Ends(D(Cons("number", r), n)) BY <1>3, <1>4, <1>5, <1>6
<1> QED BY <1>6, <1>7, <1>8 DEF f, i

\* "value".
LEMMA LeadValue ==
  ASSUME NEW r \in Rest
  PROVE  LET v == Cons("node", r)
             f == Cons("frac", Cons("exp", v))
         IN  /\ Quick(3, Cons("value", r))
             /\ \A n \in Nat : \A c, y : y \in Lead(D(Cons("value", r), n), c) <=>
                  \/ c = OB /\ (\/ y = D(Cons("ws", Cons(CB, v)), n)
                                 \/ y = D(Cons("members", Cons(CB, v)), n))
                  \/ c = "[" /\ (\/ y = D(Cons("ws", Cons("]", v)), n)
                                 \/ y = D(Cons("elements", Cons("]", v)), n))
                  \/ c = DQ /\ y = D(Cons("characters", Cons(DQ, v)), n)
                  \/ c = "0" /\ y = D(f, n)
                  \/ c = "1" /\ y = D(Cons("digits", f), n)
                  \/ c = "-" /\ y = D(Cons("int", f), n)
                  \/ c = "true" /\ y = D(v, n)
             /\ \A n \in Nat : \A m : m \notin Ends(D(Cons("value", r), n))
<1> DEFINE v == Cons("node", r)
           f == Cons("frac", Cons("exp", v))
           o1 == Cons("ws", Cons(CB, v))
           o2 == Cons("members", Cons(CB, v))
           a1 == Cons("ws", Cons("]", v))
           a2 == Cons("elements", Cons("]", v))
           ds == Cons("digits", f)
           i == Cons("int", f)
           q == Cons("characters", Cons(DQ, v))
           st == Cons("string", v)
           nu == Cons("number", v)
<1>1. /\ "value" \in Nonterminal
      /\ OB \in Char /\ "[" \in Char /\ "true" \in Char
  BY Chars DEF Nonterminal
<1>2. v \in Rest /\ o1 \in Rest /\ o2 \in Rest /\ a1 \in Rest /\ a2 \in Rest
  <2>1. v \in Rest BY WrittenOut, ConsParts
  <2> HIDE DEF v
  <2>2. Cons(CB, v) \in Rest /\ Cons("]", v) \in Rest BY <2>1, WrittenOut, ConsParts
  <2> QED BY <2>1, <2>2, WrittenOut, ConsParts
<1>3. \A s : s \in Alternatives("value", r) <=>
        \/ s = Cons(OB, o1) \/ s = Cons(OB, o2) \/ s = Cons("[", a1) \/ s = Cons("[", a2)
        \/ s = st \/ s = nu \/ s = Cons("true", v)
  BY RuleValue
<1> HIDE DEF v
<1>4. /\ Quick(2, st)
      /\ \A n \in Nat : \A c, y : y \in Lead(D(st, n), c) <=> c = DQ /\ y = D(q, n)
      /\ \A n \in Nat : \A m : m \notin Ends(D(st, n))
  <2>1. /\ Quick(1, st)
        /\ \A n \in Nat : \A c, y : y \in Lead(D(st, n), c) <=> c = DQ /\ y = D(q, n)
        /\ \A n \in Nat : \A m : m \notin Ends(D(st, n))
    BY <1>2, LeadString
  <2> HIDE DEF st
  <2>2. 1 \in 0 .. 10 /\ 2 \in 1 .. 10 OBVIOUS
  <2>3. Quick(2, st) BY <2>1, <2>2, QuickLater
  <2> QED BY <2>1, <2>3
<1>5. /\ Quick(2, nu)
      /\ \A n \in Nat : \A c, y : y \in Lead(D(nu, n), c) <=>
           \/ c = "0" /\ y = D(f, n)
           \/ c = "1" /\ y = D(ds, n)
           \/ c = "-" /\ y = D(i, n)
      /\ \A n \in Nat : \A m : m \notin Ends(D(nu, n))
  BY <1>2, LeadNumber
<1> HIDE DEF f, o1, o2, a1, a2, ds, i, q, st, nu
<1>6. ASSUME NEW x \in {OB, "[", "true"}, NEW s \in Rest
      PROVE  /\ Quick(2, Cons(x, s))
             /\ \A n \in Nat : \A c, y : y \in Lead(D(Cons(x, s), n), c) <=> c = x /\ y = D(s, n)
             /\ \A n \in Nat : \A m : m \notin Ends(D(Cons(x, s), n))
  <2>1. x \in Char /\ 2 \in 0 .. 10 BY <1>1
  <2> QED BY <2>1, CharFinal, CharLead
<1>7. /\ Quick(2 + 1, Cons("value", r))
      /\ \A n \in Nat : \A c, y : y \in Lead(D(Cons("value", r), n), c) <=>
           \E s \in Alternatives("value", r) : y \in Lead(D(s, n), c)
      /\ \A n \in Nat : \A m : m \in Ends(D(Cons("value", r), n)) <=>
           \E s \in Alternatives("value", r) : m \in Ends(D(s, n))
  <2>1. 2 \in 0 .. 9 /\ \A s \in Alternatives("value", r) : Quick(2, s)
    BY <1>2, <1>3, <1>4, <1>5, <1>6
  <2> QED BY <1>1, <2>1, SymbolLead
<1>8. ASSUME NEW n \in Nat, NEW c, NEW y
      PROVE  y \in Lead(D(Cons("value", r), n), c) <=>
                \/ c = OB /\ (y = D(o1, n) \/ y = D(o2, n))
                \/ c = "[" /\ (y = D(a1, n) \/ y = D(a2, n))
                \/ c = DQ /\ y = D(q, n)
                \/ c = "0" /\ y = D(f, n)
                \/ c = "1" /\ y = D(ds, n)
                \/ c = "-" /\ y = D(i, n)
                \/ c = "true" /\ y = D(v, n)
  <2>1. /\ y \in Lead(D(Cons(OB, o1), n), c) <=> c = OB /\ y = D(o1, n)
        /\ y \in Lead(D(Cons(OB, o2), n), c) <=> c = OB /\ y = D(o2, n)
        /\ y \in Lead(D(Cons("[", a1), n), c) <=> c = "[" /\ y = D(a1, n)
        /\ y \in Lead(D(Cons("[", a2), n), c) <=> c = "[" /\ y = D(a2, n)
        /\ y \in Lead(D(Cons("true", v), n), c) <=> c = "true" /\ y = D(v, n)
    BY <1>2, <1>6
  <2>2. /\ y \in Lead(D(st, n), c) <=> c = DQ /\ y = D(q, n)
        /\ y \in Lead(D(nu, n), c) <=>
             \/ c = "0" /\ y = D(f, n)
             \/ c = "1" /\ y = D(ds, n)
             \/ c = "-" /\ y = D(i, n)
    BY <1>4, <1>5
  <2>3. y \in Lead(D(Cons("value", r), n), c) <=>
          \/ y \in Lead(D(Cons(OB, o1), n), c) \/ y \in Lead(D(Cons(OB, o2), n), c)
          \/ y \in Lead(D(Cons("[", a1), n), c) \/ y \in Lead(D(Cons("[", a2), n), c)
          \/ y \in Lead(D(st, n), c) \/ y \in Lead(D(nu, n), c)
          \/ y \in Lead(D(Cons("true", v), n), c)
    BY <1>3, <1>7
  <2> QED BY <2>1, <2>2, <2>3
<1>9. ASSUME NEW n \in Nat, NEW m PROVE m \notin Ends(D(Cons("value", r), n))
  BY <1>2, <1>3, <1>4, <1>5, <1>6, <1>7
<1> QED BY <1>7, <1>8, <1>9 DEF v, f, o1, o2, a1, a2, ds, i, q

\* What is left after a value, and after a key.
ValueEnd(r) == Cons("node", Cons("ws", r))
KeyEnd(r) == Cons("ws", Cons(":", Cons("element", r)))
FracRest(r) == Cons("frac", Cons("exp", ValueEnd(r)))

\* What is left when a value is expected, and when a member is.
ValueRest(r) == Cons("ws", Cons("value", Cons("ws", r)))
MemberRest(r) == Cons("ws", Cons("string", KeyEnd(r)))

\* They are sequences of symbols.
LEMMA Rests ==
  ASSUME NEW r \in Rest
  PROVE  /\ ValueEnd(r) \in Rest /\ KeyEnd(r) \in Rest
         /\ ValueRest(r) \in Rest /\ MemberRest(r) \in Rest
         /\ FracRest(r) \in Rest /\ Cons("exp", ValueEnd(r)) \in Rest
         /\ \A x \in Symbol : Cons(x, r) \in Rest
<1>1. \A s \in Rest : \A x \in Symbol : Cons(x, s) \in Rest BY ConsParts
<1>2. Cons("ws", r) \in Rest BY <1>1, WrittenOut
<1>3. ValueEnd(r) \in Rest BY <1>1, <1>2, WrittenOut DEF ValueEnd
<1>4. Cons("value", Cons("ws", r)) \in Rest BY <1>1, <1>2, WrittenOut
<1>5. ValueRest(r) \in Rest BY <1>1, <1>4, WrittenOut DEF ValueRest
<1>6. Cons("element", r) \in Rest BY <1>1, WrittenOut
<1>7. Cons(":", Cons("element", r)) \in Rest BY <1>1, <1>6, WrittenOut
<1>8. KeyEnd(r) \in Rest BY <1>1, <1>7, WrittenOut DEF KeyEnd
<1>9. Cons("string", KeyEnd(r)) \in Rest BY <1>1, <1>8, WrittenOut
<1>10. MemberRest(r) \in Rest BY <1>1, <1>9, WrittenOut DEF MemberRest
<1>11. Cons("exp", ValueEnd(r)) \in Rest BY <1>1, <1>3, WrittenOut
<1>12. FracRest(r) \in Rest BY <1>1, <1>11, WrittenOut DEF FracRest
<1> QED BY <1>1, <1>3, <1>5, <1>8, <1>10, <1>11, <1>12

\* What a value can begin with.
ValueBegins(r, n, c, y) ==
  \/ c = OB /\ (\/ y = D(Cons("ws", Cons(CB, ValueEnd(r))), n)
                \/ y = D(Cons("members", Cons(CB, ValueEnd(r))), n))
  \/ c = "[" /\ (\/ y = D(Cons("ws", Cons("]", ValueEnd(r))), n)
                 \/ y = D(Cons("elements", Cons("]", ValueEnd(r))), n))
  \/ c = DQ /\ y = D(Cons("characters", Cons(DQ, ValueEnd(r))), n)
  \/ c = "0" /\ y = D(FracRest(r), n)
  \/ c = "1" /\ y = D(Cons("digits", FracRest(r)), n)
  \/ c = "-" /\ y = D(Cons("int", FracRest(r)), n)
  \/ c = "true" /\ y = D(ValueEnd(r), n)

\* Where the expectation of a value leads.
LEMMA LeadValueRest ==
  ASSUME NEW r \in Rest
  PROVE  /\ Quick(4, ValueRest(r))
         /\ \A n \in Nat : \A c, y : y \in Lead(D(ValueRest(r), n), c) <=>
                \/ ValueBegins(r, n, c, y)
                \/ c \in Space /\ y = D(ValueRest(r), n)
         /\ \A n \in Nat : \A m : m \notin Ends(D(ValueRest(r), n))
<1> DEFINE s == Cons("value", Cons("ws", r))
<1>1. Cons("ws", r) \in Rest /\ s \in Rest
  <2>1. Cons("ws", r) \in Rest BY Rests, WrittenOut
  <2> QED BY <2>1, Rests, WrittenOut
<1>2. /\ Quick(3, s)
      /\ \A n \in Nat : \A c, y : y \in Lead(D(s, n), c) <=> ValueBegins(r, n, c, y)
      /\ \A n \in Nat : \A m : m \notin Ends(D(s, n))
  BY <1>1, LeadValue DEF ValueBegins, FracRest, ValueEnd
<1>3. ValueRest(r) = Cons("ws", s) BY DEF ValueRest
<1> HIDE DEF s
<1>4. /\ Quick(3 + 1, Cons("ws", s))
      /\ \A n \in Nat : \A c, y : y \in Lead(D(Cons("ws", s), n), c) <=>
             \/ y \in Lead(D(s, n), c)
             \/ c \in Space /\ y = D(Cons("ws", s), n)
      /\ \A n \in Nat : \A m : m \in Ends(D(Cons("ws", s), n)) <=> m \in Ends(D(s, n))
  <2>1. 3 \in 0 .. 9 OBVIOUS
  <2> QED BY <1>1, <1>2, <2>1, LeadWs
<1> QED BY <1>2, <1>3, <1>4

\* Where the expectation of a member leads.
LEMMA LeadMemberRest ==
  ASSUME NEW r \in Rest
  PROVE  /\ Quick(2, MemberRest(r))
         /\ \A n \in Nat : \A c, y : y \in Lead(D(MemberRest(r), n), c) <=>
                \/ c = DQ /\ y = D(Cons("characters", Cons(DQ, KeyEnd(r))), n)
                \/ c \in Space /\ y = D(MemberRest(r), n)
         /\ \A n \in Nat : \A m : m \notin Ends(D(MemberRest(r), n))
<1> DEFINE k == KeyEnd(r)
           s == Cons("string", k)
<1>1. k \in Rest /\ s \in Rest
  <2>1. k \in Rest BY Rests
  <2> QED BY <2>1, Rests, WrittenOut
<1>2. MemberRest(r) = Cons("ws", s) BY DEF MemberRest
<1> HIDE DEF k
<1>3. /\ Quick(1, s)
      /\ \A n \in Nat : \A c, y : y \in Lead(D(s, n), c) <=>
           c = DQ /\ y = D(Cons("characters", Cons(DQ, k)), n)
      /\ \A n \in Nat : \A m : m \notin Ends(D(s, n))
  BY <1>1, LeadString
<1> HIDE DEF s
<1>4. /\ Quick(1 + 1, Cons("ws", s))
      /\ \A n \in Nat : \A c, y : y \in Lead(D(Cons("ws", s), n), c) <=>
             \/ y \in Lead(D(s, n), c)
             \/ c \in Space /\ y = D(Cons("ws", s), n)
      /\ \A n \in Nat : \A m : m \in Ends(D(Cons("ws", s), n)) <=> m \in Ends(D(s, n))
  <2>1. 1 \in 0 .. 9 OBVIOUS
  <2> QED BY <1>1, <1>3, <2>1, LeadWs
<1> QED BY <1>2, <1>3, <1>4 DEF k

\* "element".
LEMMA FinalElement ==
  ASSUME NEW r \in Rest
  PROVE  /\ Quick(5, Cons("element", r))
         /\ \A n \in Nat : \A e : e \in Final(D(Cons("element", r), n)) <=>
                                  e \in Final(D(ValueRest(r), n))
<1>1. \A s : s \in Alternatives("element", r) <=> s = ValueRest(r)
  BY RuleElement DEF ValueRest
<1>2. "element" \in Nonterminal /\ 4 \in 0 .. 9 BY DEF Nonterminal
<1>3. \A s \in Alternatives("element", r) : Quick(4, s) BY <1>1, LeadValueRest
<1>4. /\ Quick(4 + 1, Cons("element", r))
      /\ \A n \in Nat : \A e : e \in Final(D(Cons("element", r), n)) <=>
           \E s \in Alternatives("element", r) : e \in Final(D(s, n))
  BY <1>2, <1>3, SymbolFinal
<1> QED BY <1>1, <1>4

\* "member".
LEMMA FinalMember ==
  ASSUME NEW r \in Rest
  PROVE  /\ Quick(3, Cons("member", r))
         /\ \A n \in Nat : \A e : e \in Final(D(Cons("member", r), n)) <=>
                                  e \in Final(D(MemberRest(r), n))
<1>1. \A s : s \in Alternatives("member", r) <=> s = MemberRest(r)
  BY RuleMember DEF MemberRest, KeyEnd
<1>2. "member" \in Nonterminal /\ 2 \in 0 .. 9 BY DEF Nonterminal
<1>3. \A s \in Alternatives("member", r) : Quick(2, s) BY <1>1, LeadMemberRest
<1>4. /\ Quick(2 + 1, Cons("member", r))
      /\ \A n \in Nat : \A e : e \in Final(D(Cons("member", r), n)) <=>
           \E s \in Alternatives("member", r) : e \in Final(D(s, n))
  BY <1>2, <1>3, SymbolFinal
<1> QED BY <1>1, <1>4

\* "elements": the last one, or one and a comma.
LEMMA FinalElements ==
  ASSUME NEW r \in Rest
  PROVE  LET s == Cons(CM, Cons("elements", r)) IN
         /\ Quick(6, Cons("elements", r))
         /\ \A n \in Nat : \A e : e \in Final(D(Cons("elements", r), n)) <=>
              \/ e \in Final(D(ValueRest(r), n))
              \/ e \in Final(D(ValueRest(s), n))
<1> DEFINE s == Cons(CM, Cons("elements", r))
<1>1. s \in Rest
  <2>1. Cons("elements", r) \in Rest BY Rests, WrittenOut
  <2> QED BY <2>1, Rests, WrittenOut
<1>2. \A a : a \in Alternatives("elements", r) <=> a = Cons("element", r) \/ a = Cons("element", s)
  BY RuleElements
<1> HIDE DEF s
<1>3. "elements" \in Nonterminal /\ 5 \in 0 .. 9 BY DEF Nonterminal
<1>4. \A a \in Alternatives("elements", r) : Quick(5, a) BY <1>1, <1>2, FinalElement
<1>5. /\ Quick(5 + 1, Cons("elements", r))
      /\ \A n \in Nat : \A e : e \in Final(D(Cons("elements", r), n)) <=>
           \E a \in Alternatives("elements", r) : e \in Final(D(a, n))
  BY <1>3, <1>4, SymbolFinal
<1>6. \A n \in Nat : \A e : /\ e \in Final(D(Cons("element", r), n)) <=> e \in Final(D(ValueRest(r), n))
                            /\ e \in Final(D(Cons("element", s), n)) <=> e \in Final(D(ValueRest(s), n))
  BY <1>1, FinalElement
<1> QED BY <1>2, <1>5, <1>6 DEF s

\* "members": the last one, or one and a comma.
LEMMA FinalMembers ==
  ASSUME NEW r \in Rest
  PROVE  LET s == Cons(CM, Cons("members", r)) IN
         /\ Quick(4, Cons("members", r))
         /\ \A n \in Nat : \A e : e \in Final(D(Cons("members", r), n)) <=>
              \/ e \in Final(D(MemberRest(r), n))
              \/ e \in Final(D(MemberRest(s), n))
<1> DEFINE s == Cons(CM, Cons("members", r))
<1>1. s \in Rest
  <2>1. Cons("members", r) \in Rest BY Rests, WrittenOut
  <2> QED BY <2>1, Rests, WrittenOut
<1>2. \A a : a \in Alternatives("members", r) <=> a = Cons("member", r) \/ a = Cons("member", s)
  BY RuleMembers
<1> HIDE DEF s
<1>3. "members" \in Nonterminal /\ 3 \in 0 .. 9 BY DEF Nonterminal
<1>4. \A a \in Alternatives("members", r) : Quick(3, a) BY <1>1, <1>2, FinalMember
<1>5. /\ Quick(3 + 1, Cons("members", r))
      /\ \A n \in Nat : \A e : e \in Final(D(Cons("members", r), n)) <=>
           \E a \in Alternatives("members", r) : e \in Final(D(a, n))
  BY <1>3, <1>4, SymbolFinal
<1>6. \A n \in Nat : \A e : /\ e \in Final(D(Cons("member", r), n)) <=> e \in Final(D(MemberRest(r), n))
                            /\ e \in Final(D(Cons("member", s), n)) <=> e \in Final(D(MemberRest(s), n))
  BY <1>1, FinalMember
<1> QED BY <1>2, <1>5, <1>6 DEF s

\* A whole text is a value.
LEMMA FinalWhole == \A e : e \in Start <=> e \in Final(D(ValueRest(<<>>), 0))
<1>1. <<>> \in Rest BY DEF Rest
<1>2. /\ \A a : a \in Alternatives("json", <<>>) <=> a = Cons("element", <<>>)
      /\ "json" \in Nonterminal /\ 5 \in 0 .. 9
  BY <1>1, RuleJson DEF Nonterminal
<1>3. \A a \in Alternatives("json", <<>>) : Quick(5, a) BY <1>1, <1>2, FinalElement
<1>4. \A e : e \in Final(D(Cons("json", <<>>), 0)) <=>
        \E a \in Alternatives("json", <<>>) : e \in Final(D(a, 0))
  BY <1>1, <1>2, <1>3, SymbolFinal
<1>5. \A e : e \in Final(D(Cons("element", <<>>), 0)) <=> e \in Final(D(ValueRest(<<>>), 0))
  BY <1>1, FinalElement
<1>6. Whole = D(Cons("json", <<>>), 0)
  <2>1. Cons("json", <<>>) = <<"json">>
    <3> DEFINE j == <<"json">>
    <3>1. j \in Seq(Symbol) BY WrittenOut
    <3>2. Cons("json", <<>>) = j \o <<>> BY DEF Cons
    <3> HIDE DEF j
    <3>3. j \o <<>> = j BY <3>1, ConcatEmptySeq
    <3>4. Cons("json", <<>>) = j BY <3>2, <3>3
    <3> QED BY <3>4 DEF j
  <2> QED BY <2>1 DEF Whole, D
<1>7. Start = Final(Whole) BY DEF Start, Final
<1> QED BY <1>2, <1>4, <1>5, <1>6, <1>7

------------------------------------------------------------------------------
(* The brackets still to close *)

\* The closing brackets, and the symbols that are none.
IsClosing(x) == x \in {CB, "]"}

\* The closing brackets from each place of a rest on.
Suffixes(f, r) ==
  f = [i \in 1 .. Len(r) + 1 |->
         IF i = Len(r) + 1 THEN <<>>
         ELSE IF IsClosing(r[i]) THEN <<r[i]>> \o f[i + 1]
         ELSE f[i + 1]]

\* They are determined by the rest.
LEMMA SuffixesUnique ==
  ASSUME NEW r \in Rest, NEW f, NEW g, Suffixes(f, r), Suffixes(g, r)
  PROVE  f[1] = g[1]
<1> DEFINE l == Len(r)
           S == {j \in 0 .. l : f[l + 1 - j] = g[l + 1 - j]}
<1>1. l \in Nat BY DEF Rest
<1>2. \A i \in 1 .. l + 1 :
        /\ f[i] = IF i = l + 1 THEN <<>> ELSE IF IsClosing(r[i]) THEN <<r[i]>> \o f[i + 1] ELSE f[i + 1]
        /\ g[i] = IF i = l + 1 THEN <<>> ELSE IF IsClosing(r[i]) THEN <<r[i]>> \o g[i + 1] ELSE g[i + 1]
  BY DEF Suffixes
<1> HIDE DEF l
<1>3. 0 \in S
  <2>1. l + 1 \in 1 .. l + 1 /\ l + 1 - 0 = l + 1 /\ 0 \in 0 .. l BY <1>1
  <2>2. f[l + 1] = g[l + 1] BY <2>1, <1>2
  <2> QED BY <2>1, <2>2
<1>4. ASSUME NEW j \in 0 .. l - 1, j \in S PROVE j + 1 \in S
  <2> DEFINE i == l + 1 - (j + 1)
  <2>1. i \in 1 .. l + 1 /\ i # l + 1 /\ i + 1 = l + 1 - j /\ j + 1 \in 0 .. l BY <1>1
  <2>2. f[i + 1] = g[i + 1] BY <1>4, <2>1
  <2>3. f[i] = g[i] BY <1>2, <2>1, <2>2
  <2> QED BY <2>1, <2>3
<1>5. 0 .. l \subseteq S
  <2> HIDE DEF S
  <2> QED BY <1>1, <1>3, <1>4, CountUp
<1>6. l \in 0 .. l /\ l + 1 - l = 1 BY <1>1
<1> QED BY <1>5, <1>6

\* Those of a rest with one more symbol in front of it.
LEMMA SuffixesCons ==
  ASSUME NEW x \in Symbol, NEW r \in Rest, NEW f, Suffixes(f, r)
  PROVE  \E g : /\ Suffixes(g, Cons(x, r))
                /\ g[1] = IF IsClosing(x) THEN <<x>> \o f[1] ELSE f[1]
<1> DEFINE l == Len(r)
           q == Cons(x, r)
           first == IF IsClosing(x) THEN <<x>> \o f[1] ELSE f[1]
           g == [i \in 1 .. l + 2 |-> IF i = 1 THEN first ELSE f[i - 1]]
<1>1. l \in Nat /\ q[1] = x /\ Len(q) = l + 1 /\ \A i \in 1 .. l : q[i + 1] = r[i]
  <2>1. l \in Nat BY DEF Rest
  <2> QED BY <2>1, ConsParts
<1>2. \A i \in 1 .. l + 1 :
        f[i] = IF i = l + 1 THEN <<>> ELSE IF IsClosing(r[i]) THEN <<r[i]>> \o f[i + 1] ELSE f[i + 1]
  BY DEF Suffixes
<1>3. g[1] = first BY <1>1
<1>4. \A i \in 1 .. l + 1 : g[i + 1] = f[i] BY <1>1
<1> HIDE DEF l, q, first
<1>5. ASSUME NEW i \in 1 .. l + 2
      PROVE  g[i] = IF i = l + 2 THEN <<>> ELSE IF IsClosing(q[i]) THEN <<q[i]>> \o g[i + 1] ELSE g[i + 1]
  <2>1. CASE i = 1
    <3>1. 1 \in 1 .. l + 1 /\ i # l + 2 BY <1>1, <2>1
    <3>2. g[i + 1] = f[1] BY <1>4, <3>1, <2>1
    <3> QED BY <1>1, <1>3, <2>1, <3>1, <3>2 DEF first
  <2>2. CASE i # 1
    <3> DEFINE j == i - 1
    <3>1. j \in 1 .. l + 1 /\ i = j + 1 BY <2>2, <1>1
    <3>2. g[i] = f[j] BY <1>4, <3>1
    <3> HIDE DEF g, j
    <3>3. CASE j = l + 1 
      <4>1. l + 1 \in 1 .. l + 1 /\ i = l + 2 BY <1>1, <3>1, <3>3
      <4>2. f[j] = <<>> BY <1>2, <3>3, <4>1
      <4> QED BY <3>2, <4>1, <4>2
    <3>4. CASE j # l + 1
      <4>1. j \in 1 .. l /\ j + 1 \in 1 .. l + 1 /\ i # l + 2 BY <1>1, <3>1, <3>4
      <4>2. q[i] = r[j] BY <1>1, <3>1, <4>1
      <4>3. g[i + 1] = f[j + 1] BY <1>4, <3>1, <4>1
      <4> QED BY <1>2, <3>1, <3>2, <3>4, <4>1, <4>2, <4>3
    <3> QED BY <3>3, <3>4
  <2> QED BY <2>1, <2>2
<1>6. Suffixes(g, q)
  <2>1. g = [i \in 1 .. l + 2 |-> g[i]] OBVIOUS
  <2> HIDE DEF g
  <2>2. g = [i \in 1 .. l + 2 |->
               IF i = l + 2 THEN <<>> ELSE IF IsClosing(q[i]) THEN <<q[i]>> \o g[i + 1] ELSE g[i + 1]]
    BY <2>1, <1>5
  <2>3. Len(q) + 1 = l + 2 BY <1>1
  <2> QED BY <2>2, <2>3 DEF Suffixes
<1> QED BY <1>3, <1>6 DEF q, first

\* A rest that is not empty has a first symbol.
LEMMA FirstSymbol ==
  ASSUME NEW r \in Rest, r # <<>>
  PROVE  \E x \in Symbol, q \in Rest : r = Cons(x, q) /\ Len(r) = Len(q) + 1
<1> DEFINE x == Head(r)
           q == Tail(r)
<1>1. x \in Symbol /\ q \in Rest /\ Len(q) = Len(r) - 1 /\ Len(r) \in Nat
  BY DEF Rest
<1>2. \A i \in 1 .. Len(q) : q[i] = r[i + 1] BY DEF Rest
<1>3. r[1] = x BY DEF Rest
<1> HIDE DEF x, q
<1>4. /\ Cons(x, q) \in Rest /\ Cons(x, q)[1] = x /\ Len(Cons(x, q)) = Len(q) + 1
      /\ \A i \in 1 .. Len(q) : Cons(x, q)[i + 1] = q[i]
  BY <1>1, ConsParts
<1>5. ASSUME NEW i \in 1 .. Len(r) PROVE r[i] = Cons(x, q)[i]
  <2>1. CASE i = 1 BY <1>3, <1>4, <2>1
  <2>2. CASE i # 1
    <3>1. i - 1 \in 1 .. Len(q) /\ (i - 1) + 1 = i BY <1>1, <2>2
    <3> QED BY <1>2, <1>4, <3>1
  <2> QED BY <2>1, <2>2
<1>6. r = Cons(x, q) BY <1>1, <1>4, <1>5, SameRest
<1> QED BY <1>1, <1>6

\* Every rest has them.
LEMMA SuffixesExist == \A r \in Rest : \E f : Suffixes(f, r)
<1> SUFFICES ASSUME NEW n \in Nat PROVE \A r \in Rest : Len(r) <= n => \E f : Suffixes(f, r)
  BY DEF Rest
<1> DEFINE S == {k \in 0 .. n : \A r \in Rest : Len(r) <= k => \E f : Suffixes(f, r)}
<1>1. 0 \in S
  <2>1. ASSUME NEW r \in Rest, Len(r) <= 0 PROVE \E f : Suffixes(f, r)
    <3>1. Len(r) = 0 BY <2>1 DEF Rest
    <3>2. Suffixes([i \in 1 .. 1 |-> <<>>], r) BY <3>1 DEF Suffixes
    <3> QED BY <3>2
  <2> QED BY <2>1
<1>2. ASSUME NEW k \in 0 .. n - 1, k \in S PROVE k + 1 \in S
  <2>1. ASSUME NEW r \in Rest, Len(r) <= k + 1 PROVE \E f : Suffixes(f, r)
    <3>1. CASE Len(r) <= k BY <1>2, <3>1
    <3>2. CASE Len(r) = k + 1
      <4>1. r # <<>> BY <3>2
      <4>2. PICK x \in Symbol, q \in Rest : r = Cons(x, q) /\ Len(r) = Len(q) + 1
        BY <4>1, FirstSymbol
      <4>3. Len(q) <= k BY <3>2, <4>2 DEF Rest
      <4>4. PICK f : Suffixes(f, q) BY <1>2, <4>3
      <4> QED BY <4>2, <4>4, SuffixesCons
    <3> QED BY <2>1, <3>1, <3>2 DEF Rest
  <2>2. k + 1 \in 0 .. n OBVIOUS
  <2> QED BY <2>1, <2>2
<1>3. 0 .. n \subseteq S
  <2> HIDE DEF S
  <2> QED BY <1>1, <1>2, CountUp
<1> QED BY <1>3

\* The closing brackets of a rest.
LEMMA BracketsOf ==
  ASSUME NEW r \in Rest
  PROVE  /\ Brackets(<<>>) = <<>>
         /\ \A x \in Symbol :
              Brackets(Cons(x, r)) = IF IsClosing(x) THEN <<x>> \o Brackets(r) ELSE Brackets(r)
<1>1. \A q : Brackets(q) = (CHOOSE f : Suffixes(f, q))[1]
  BY DEF Brackets, Suffixes, IsClosing, CB
<1>2. ASSUME NEW q \in Rest, NEW f, Suffixes(f, q) PROVE Brackets(q) = f[1]
  <2>1. Suffixes(CHOOSE g : Suffixes(g, q), q) BY <1>2
  <2> QED BY <1>1, <1>2, <2>1, SuffixesUnique
<1>3. Brackets(<<>>) = <<>>
  <2>1. Suffixes([i \in 1 .. 1 |-> <<>>], <<>>) BY DEF Suffixes
  <2>2. <<>> \in Rest BY DEF Rest
  <2>3. Brackets(<<>>) = [i \in 1 .. 1 |-> <<>>][1] BY <2>1, <2>2, <1>2
  <2> QED BY <2>3
<1>4. ASSUME NEW x \in Symbol
      PROVE  Brackets(Cons(x, r)) = IF IsClosing(x) THEN <<x>> \o Brackets(r) ELSE Brackets(r)
  <2>1. PICK f : Suffixes(f, r) BY SuffixesExist
  <2>2. PICK g : /\ Suffixes(g, Cons(x, r))
                 /\ g[1] = IF IsClosing(x) THEN <<x>> \o f[1] ELSE f[1]
    BY <2>1, SuffixesCons
  <2>3. Cons(x, r) \in Rest BY ConsParts
  <2> QED BY <1>2, <2>1, <2>2, <2>3
<1> QED BY <1>3, <1>4

\* A rest goes on with a string's content.
InText(r) == r # <<>> /\ r[1] = "characters"

\* These are the brackets to close, none of them in a string.
Closing(r, brackets) ==
  /\ Brackets(r) = brackets
  /\ \A i \in 1 .. Len(r) - 1 : IsClosing(r[i]) => r[i + 1] # "characters"

Quiet == {x \in Symbol : ~IsClosing(x)}

\* The symbols that close nothing.
LEMMA QuietOnes ==
  /\ "ws" \in Quiet /\ "value" \in Quiet /\ "members" \in Quiet /\ "member" \in Quiet
  /\ "elements" \in Quiet /\ "element" \in Quiet /\ "string" \in Quiet
  /\ "characters" \in Quiet /\ "number" \in Quiet /\ "int" \in Quiet
  /\ "digits" \in Quiet /\ "frac" \in Quiet /\ "exp" \in Quiet /\ "node" \in Quiet
  /\ "[" \in Quiet /\ CM \in Quiet /\ ":" \in Quiet /\ "-" \in Quiet /\ "+" \in Quiet
  /\ "." \in Quiet /\ "e" \in Quiet /\ "true" \in Quiet /\ "0" \in Quiet /\ "1" \in Quiet
  /\ DQ \in Quiet /\ BS \in Quiet
  /\ \A x \in Space \cup Digit \cup Escaped \cup Nonterminal : x \in Quiet
  /\ CB \in Symbol \ Quiet /\ "]" \in Symbol \ Quiet
<1>1. \A x \in Space \cup Digit \cup Escaped \cup Nonterminal : ~IsClosing(x)
  BY DEF IsClosing, Space, Digit, Escaped, Nonterminal, CB, NL, DQ, BS
<1>2. /\ ~IsClosing("node") /\ ~IsClosing("[") /\ ~IsClosing(CM) /\ ~IsClosing(":")
      /\ ~IsClosing("-") /\ ~IsClosing("+") /\ ~IsClosing(".") /\ ~IsClosing("e")
      /\ ~IsClosing("true") /\ ~IsClosing("0") /\ ~IsClosing("1")
      /\ ~IsClosing(DQ) /\ ~IsClosing(BS) /\ IsClosing(CB) /\ IsClosing("]")
  BY DEF IsClosing, CB, CM, DQ, BS
<1>3. \A x \in Space \cup Digit \cup Escaped \cup Nonterminal : x \in Symbol BY WrittenOut, Symbols
<1> QED BY <1>1, <1>2, <1>3, WrittenOut DEF Quiet, Nonterminal

\* One more symbol in front of a rest.
LEMMA ClosingCons ==
  ASSUME NEW r \in Rest, NEW brackets
  PROVE  /\ \A x \in Quiet : /\ Cons(x, r) \in Rest
                             /\ Closing(Cons(x, r), brackets) <=> Closing(r, brackets)
         /\ \A x \in Symbol \ Quiet :
              ~InText(r) /\ Closing(r, brackets) => Closing(Cons(x, r), <<x>> \o brackets)
         /\ \A x \in Symbol : Closing(Cons(x, r), brackets) /\ InText(r) => x \in Quiet
<1> SUFFICES ASSUME NEW x \in Symbol
             PROVE  /\ Cons(x, r) \in Rest
                    /\ x \in Quiet => (Closing(Cons(x, r), brackets) <=> Closing(r, brackets))
                    /\ x \notin Quiet /\ ~InText(r) /\ Closing(r, brackets) =>
                         Closing(Cons(x, r), <<x>> \o brackets)
                    /\ Closing(Cons(x, r), brackets) /\ InText(r) => x \in Quiet
  BY DEF Quiet
<1> DEFINE q == Cons(x, r)
           l == Len(r)
<1>1. l \in Nat /\ (l = 0 <=> r = <<>>) BY DEF Rest
<1>2. q \in Rest /\ q[1] = x /\ Len(q) = l + 1 /\ \A i \in 1 .. l : q[i + 1] = r[i]
  BY ConsParts
<1>3. Brackets(q) = IF IsClosing(x) THEN <<x>> \o Brackets(r) ELSE Brackets(r) BY BracketsOf
<1>4. x \in Quiet <=> ~IsClosing(x) BY DEF Quiet
<1> DEFINE Apart(s) == \A i \in 1 .. Len(s) - 1 : IsClosing(s[i]) => s[i + 1] # "characters"
<1>5. \A s : Closing(s, brackets) <=> Brackets(s) = brackets /\ Apart(s) BY DEF Closing
<1> HIDE DEF q, l
<1>6. Apart(q) <=> Apart(r) /\ (IsClosing(x) => ~InText(r))
  <2>1. ASSUME Apart(r), IsClosing(x) => ~InText(r), NEW i \in 1 .. Len(q) - 1, IsClosing(q[i])
        PROVE  q[i + 1] # "characters"
    <3>1. i \in 1 .. l BY <1>1, <1>2
    <3>2. q[i + 1] = r[i] BY <1>2, <3>1
    <3>3. CASE i = 1 BY <1>1, <1>2, <2>1, <3>1, <3>2, <3>3 DEF InText
    <3>4. CASE i # 1
      <4>1. i - 1 \in 1 .. Len(r) - 1 /\ i - 1 \in 1 .. l /\ (i - 1) + 1 = i
        BY <1>1, <3>1, <3>4 DEF l
      <4>2. q[i] = r[i - 1] BY <1>2, <4>1
      <4>3. IsClosing(r[i - 1]) BY <2>1, <4>2
      <4>4. r[(i - 1) + 1] # "characters" BY <2>1, <4>1, <4>3
      <4> QED BY <4>1, <4>4, <3>2
    <3> QED BY <3>3, <3>4
  <2>2. ASSUME Apart(q), NEW i \in 1 .. Len(r) - 1, IsClosing(r[i]) PROVE r[i + 1] # "characters"
    <3>1. i \in 1 .. l /\ i + 1 \in 1 .. l /\ i + 1 \in 1 .. Len(q) - 1 BY <1>1, <1>2 DEF l
    <3>2. q[i + 1] = r[i] /\ q[(i + 1) + 1] = r[i + 1] BY <1>2, <3>1
    <3>3. IsClosing(q[i + 1]) BY <2>2, <3>2
    <3> QED BY <2>2, <3>1, <3>2, <3>3
  <2>3. ASSUME Apart(q), IsClosing(x), InText(r) PROVE FALSE
    <3>1. l # 0 /\ r[1] = "characters" BY <1>1, <2>3 DEF InText
    <3>2. 1 \in 1 .. l /\ 1 \in 1 .. Len(q) - 1 BY <1>1, <1>2, <3>1
    <3>3. q[1 + 1] = r[1] BY <1>2, <3>2
    <3> QED BY <1>2, <2>3, <3>1, <3>2, <3>3
  <2> QED BY <2>1, <2>2, <2>3
<1>7. Closing(r, brackets) /\ IsClosing(x) /\ ~InText(r) => Closing(q, <<x>> \o brackets)
  BY <1>3, <1>6 DEF Closing
<1> HIDE DEF Apart
<1>8. ~IsClosing(x) => (Closing(q, brackets) <=> Closing(r, brackets)) BY <1>3, <1>5, <1>6
<1>9. Closing(q, brackets) /\ InText(r) => ~IsClosing(x) BY <1>5, <1>6
<1> QED BY <1>2, <1>4, <1>7, <1>8, <1>9 DEF q

\* Nothing is left to close at the end.
LEMMA ClosingNothing == <<>> \in Rest /\ Closing(<<>>, <<>>) /\ ~InText(<<>>)
<1>1. <<>> \in Rest BY DEF Rest
<1>2. Brackets(<<>>) = <<>> BY <1>1, BracketsOf
<1>3. Len(<<>>) = 0 OBVIOUS
<1> QED BY <1>1, <1>2, <1>3 DEF Closing, InText

\* The symbol after the first one.
LEMMA TextCons ==
  ASSUME NEW x \in Symbol, NEW r \in Rest, NEW n
  PROVE  /\ InText(Cons(x, r)) <=> x = "characters"
         /\ InString(D(Cons(x, r), n)) <=> InText(r)
<1>1. /\ Cons(x, r)[1] = x /\ Cons(x, r) # <<>> /\ Len(Cons(x, r)) = Len(r) + 1
      /\ \A i \in 1 .. Len(r) : Cons(x, r)[i + 1] = r[i]
  BY ConsParts
<1>2. Len(r) \in Nat /\ (Len(r) = 0 <=> r = <<>>) BY DEF Rest
<1> DEFINE q == Cons(x, r)
<1>3. D(q, n).rest = q BY DEF D
<1> HIDE DEF q
<1>4. InString(D(q, n)) <=> Len(q) > 1 /\ q[2] = "characters" BY <1>3 DEF InString
<1>5. r # <<>> => q[2] = r[1]
  <2>1. r # <<>> => 1 \in 1 .. Len(r) /\ 1 + 1 = 2 BY <1>2
  <2> QED BY <1>1, <2>1 DEF q
<1>6. Len(q) > 1 <=> r # <<>> BY <1>1, <1>2 DEF q
<1> QED BY <1>1, <1>4, <1>5, <1>6 DEF InText, q

\* What a derivation still has to close, unless it opens a container first.
KeptRest(r, brackets) ==
  \/ Closing(r, brackets)
  \/ \E x \in {OB, "["}, q \in Rest : r = Cons(x, q) /\ ~InText(q)
  \/ \E x \in Char, q \in Rest : r = Cons(x, q) /\ InText(q) /\ Closing(q, brackets)

\* A derivation that closes the brackets.
Kept(d, brackets) == \E r \in Rest, n \in Nat : d = D(r, n) /\ KeptRest(r, brackets)

\* The alternatives of a symbol keep what is to close.
LEMMA AlternativesKeep ==
  ASSUME NEW x \in Nonterminal, NEW r \in Rest, NEW brackets, Closing(r, brackets),
         NEW s \in Alternatives(x, r)
  PROVE  s \in Rest /\ KeptRest(s, brackets)
<1> DEFINE C(q) == q \in Rest /\ Closing(q, brackets)
<1>1. \A q : C(q) => \A a \in Quiet : C(Cons(a, q)) BY ClosingCons
<1>2. \A q : C(q) => q \in Rest /\ KeptRest(q, brackets) BY DEF KeptRest
<1>3. C(r) OBVIOUS
<1>4. \A a \in Symbol : \A q \in Rest : Cons(a, q) \in Rest BY ConsParts
<1>5. ASSUME NEW a \in {OB, "["}, NEW q \in Rest, ~InText(q), s = Cons(a, q)
      PROVE  s \in Rest /\ KeptRest(s, brackets)
  <2>1. a \in Symbol BY WrittenOut
  <2> QED BY <1>4, <1>5, <2>1 DEF KeptRest
<1> HIDE DEF C
<1>6. CASE x = "json"
  <2>1. s = Cons("element", r) BY <1>6, RuleJson
  <2>2. C(Cons("element", r)) BY <1>3, <1>1, QuietOnes
  <2> QED BY <2>1, <2>2, <1>2
<1>7. CASE x = "element"
  <2>1. s = Cons("ws", Cons("value", Cons("ws", r))) BY <1>7, RuleElement
  <2>2. C(Cons("ws", r)) BY <1>3, <1>1, QuietOnes
  <2>3. C(Cons("value", Cons("ws", r))) BY <2>2, <1>1, QuietOnes
  <2>4. C(Cons("ws", Cons("value", Cons("ws", r)))) BY <2>3, <1>1, QuietOnes
  <2> QED BY <2>1, <2>4, <1>2
<1>8. CASE x = "ws"
  <2>1. CASE s = r BY <2>1, <1>2, <1>3
  <2>2. CASE \E c \in Space : s = Cons(c, Cons("ws", r))
    BY <2>2, <1>1, <1>2, <1>3, QuietOnes
  <2> QED BY <1>8, <2>1, <2>2, RuleWs
<1>9. CASE x = "value"
  <2> DEFINE v == Cons("node", r)
  <2>1. C(v) /\ v \in Rest BY <1>1, <1>2, <1>3, QuietOnes
  <2>2. \/ s = Cons(OB, Cons("ws", Cons(CB, v)))
        \/ s = Cons(OB, Cons("members", Cons(CB, v)))
        \/ s = Cons("[", Cons("ws", Cons("]", v)))
        \/ s = Cons("[", Cons("elements", Cons("]", v)))
        \/ s = Cons("string", v)
        \/ s = Cons("number", v)
        \/ s = Cons("true", v)
    BY <1>9, RuleValue
  <2> HIDE DEF v
  <2>3. ASSUME NEW b \in {CB, "]"}, NEW w \in {"ws", "members", "elements"}
        PROVE  Cons(w, Cons(b, v)) \in Rest /\ ~InText(Cons(w, Cons(b, v)))
    <3>1. Cons(b, v) \in Rest /\ w \in Symbol BY <2>1, <1>4, WrittenOut
    <3> QED BY <3>1, <1>4, TextCons
  <2>4. CASE s \in {Cons("string", v), Cons("number", v), Cons("true", v)}
    BY <2>1, <2>4, <1>1, <1>2, QuietOnes
  <2>5. CASE s = Cons(OB, Cons("ws", Cons(CB, v))) BY <2>5, <2>3, <1>5
  <2>6. CASE s = Cons(OB, Cons("members", Cons(CB, v))) BY <2>6, <2>3, <1>5
  <2>7. CASE s = Cons("[", Cons("ws", Cons("]", v))) BY <2>7, <2>3, <1>5
  <2>8. CASE s = Cons("[", Cons("elements", Cons("]", v))) BY <2>8, <2>3, <1>5
  <2> QED BY <2>2, <2>4, <2>5, <2>6, <2>7, <2>8
<1>10. CASE x = "members"
  <2>1. s = Cons("member", r) \/ s = Cons("member", Cons(CM, Cons("members", r))) BY <1>10, RuleMembers
  <2>2. C(Cons("member", r)) BY <1>3, <1>1, QuietOnes
  <2>3. C(Cons("members", r)) BY <1>3, <1>1, QuietOnes
  <2>4. C(Cons(CM, Cons("members", r))) BY <2>3, <1>1, QuietOnes
  <2>5. C(Cons("member", Cons(CM, Cons("members", r)))) BY <2>4, <1>1, QuietOnes
  <2> QED BY <2>1, <2>2, <2>5, <1>2
<1>11. CASE x = "member"
  <2>1. s = Cons("ws", Cons("string", Cons("ws", Cons(":", Cons("element", r))))) BY <1>11, RuleMember
  <2>2. C(Cons("element", r)) BY <1>3, <1>1, QuietOnes
  <2>3. C(Cons(":", Cons("element", r))) BY <2>2, <1>1, QuietOnes
  <2>4. C(Cons("ws", Cons(":", Cons("element", r)))) BY <2>3, <1>1, QuietOnes
  <2>5. C(Cons("string", Cons("ws", Cons(":", Cons("element", r))))) BY <2>4, <1>1, QuietOnes
  <2>6. C(Cons("ws", Cons("string", Cons("ws", Cons(":", Cons("element", r)))))) BY <2>5, <1>1, QuietOnes
  <2> QED BY <2>1, <2>6, <1>2
<1>12. CASE x = "elements"
  <2>1. s = Cons("element", r) \/ s = Cons("element", Cons(CM, Cons("elements", r))) BY <1>12, RuleElements
  <2>2. C(Cons("element", r)) BY <1>3, <1>1, QuietOnes
  <2>3. C(Cons("elements", r)) BY <1>3, <1>1, QuietOnes
  <2>4. C(Cons(CM, Cons("elements", r))) BY <2>3, <1>1, QuietOnes
  <2>5. C(Cons("element", Cons(CM, Cons("elements", r)))) BY <2>4, <1>1, QuietOnes
  <2> QED BY <2>1, <2>2, <2>5, <1>2
<1>13. CASE x = "string"
  <2>1. s = Cons(DQ, Cons("characters", Cons(DQ, r))) BY <1>13, RuleString
  <2>2. C(Cons(DQ, r)) BY <1>3, <1>1, QuietOnes
  <2>3. C(Cons("characters", Cons(DQ, r))) BY <2>2, <1>1, QuietOnes
  <2>4. C(Cons(DQ, Cons("characters", Cons(DQ, r)))) BY <2>3, <1>1, QuietOnes
  <2> QED BY <2>1, <2>4, <1>2
<1>14. CASE x = "characters"
  <2> DEFINE t == Cons("characters", r)
  <2>1. C(t) /\ t \in Rest /\ InText(t) BY <1>1, <1>2, <1>3, QuietOnes, WrittenOut, TextCons
  <2>2. \/ s = r
        \/ \E c \in Plain : s = Cons(c, t)
        \/ \E c \in Escaped : s = Cons(BS, Cons(c, t))
    BY <1>14, RuleCharacters
  <2> HIDE DEF t
  <2>3. CASE s = r BY <2>3, <1>2, <1>3
  <2>4. CASE \E c \in Plain : s = Cons(c, t)
    <3>1. PICK c \in Plain : s = Cons(c, t) BY <2>4
    <3>2. c \in Char /\ c \in Symbol BY Symbols
    <3> QED BY <2>1, <3>1, <3>2, <1>4 DEF KeptRest, C
  <2>5. CASE \E c \in Escaped : s = Cons(BS, Cons(c, t)) BY <2>5, <2>1, <1>1, <1>2, QuietOnes
  <2> QED BY <2>2, <2>3, <2>4, <2>5
<1>15. CASE x = "number"
  <2>1. s = Cons("int", Cons("frac", Cons("exp", r))) \/ s = Cons("-", Cons("int", Cons("frac", Cons("exp", r)))) BY <1>15, RuleNumber
  <2>2. C(Cons("exp", r)) BY <1>3, <1>1, QuietOnes
  <2>3. C(Cons("frac", Cons("exp", r))) BY <2>2, <1>1, QuietOnes
  <2>4. C(Cons("int", Cons("frac", Cons("exp", r)))) BY <2>3, <1>1, QuietOnes
  <2>5. C(Cons("-", Cons("int", Cons("frac", Cons("exp", r))))) BY <2>4, <1>1, QuietOnes
  <2> QED BY <2>1, <2>4, <2>5, <1>2
<1>16. CASE x = "int"
  <2>1. s = Cons("0", r) \/ s = Cons("1", Cons("digits", r)) BY <1>16, RuleInt
  <2>2. C(Cons("0", r)) BY <1>3, <1>1, QuietOnes
  <2>3. C(Cons("digits", r)) BY <1>3, <1>1, QuietOnes
  <2>4. C(Cons("1", Cons("digits", r))) BY <2>3, <1>1, QuietOnes
  <2> QED BY <2>1, <2>2, <2>4, <1>2
<1>17. CASE x = "digits"
  <2>1. CASE s = r BY <2>1, <1>2, <1>3
  <2>2. CASE \E c \in Digit : s = Cons(c, Cons("digits", r))
    BY <2>2, <1>1, <1>2, <1>3, QuietOnes
  <2> QED BY <1>17, <2>1, <2>2, RuleDigits
<1>18. CASE x = "frac"
  <2>1. CASE s = r BY <2>1, <1>2, <1>3
  <2>2. CASE \E c \in Digit : s = Cons(".", Cons(c, Cons("digits", r)))
    BY <2>2, <1>1, <1>2, <1>3, QuietOnes
  <2> QED BY <1>18, <2>1, <2>2, RuleFrac
<1>19. CASE x = "exp"
  <2>1. CASE s = r BY <2>1, <1>2, <1>3
  <2>2. CASE \E c \in Digit : s = Cons("e", Cons(c, Cons("digits", r)))
    BY <2>2, <1>1, <1>2, <1>3, QuietOnes
  <2>3. CASE \E g \in {"+", "-"}, c \in Digit : s = Cons("e", Cons(g, Cons(c, Cons("digits", r))))
    BY <2>3, <1>1, <1>2, <1>3, QuietOnes
  <2> QED BY <1>19, <2>1, <2>2, <2>3, RuleExp
<1> QED BY <1>6, <1>7, <1>8, <1>9, <1>10, <1>11, <1>12, <1>13, <1>14, <1>15, <1>16, <1>17, <1>18,
           <1>19 DEF Nonterminal

\* Expanding a derivation keeps what is to close.
LEMMA ExpandKeeps ==
  ASSUME NEW d, NEW brackets, Kept(d, brackets), NEW e \in Expand(d)
  PROVE  Kept(e, brackets)
<1>1. PICK r \in Rest, n \in Nat : d = D(r, n) /\ KeptRest(r, brackets) BY DEF Kept
<1>2. CASE Settled(d) BY <1>2 DEF Expand
<1>3. CASE ~Settled(d)
  <2>1. r # <<>> BY <1>1, <1>3 DEF Settled, D
  <2>2. PICK x \in Symbol, q \in Rest : r = Cons(x, q) BY <2>1, FirstSymbol
  <2>3. x \notin Char BY <1>1, <1>3, <2>2, SettledRests
  <2>4. Head(r) = x /\ Tail(r) = q BY <2>2, ConsParts
  <2>5. \A y \in Symbol : \A s \in Rest : r = Cons(y, s) => y = x BY <2>4, ConsParts
  <2>6. Closing(r, brackets)
    <3>1. OB \in Char /\ "[" \in Char /\ \A y \in Char : y \in Symbol BY Chars, Symbols
    <3> QED BY <1>1, <2>3, <2>5, <3>1 DEF KeptRest
  <2>7. x \in Quiet
    <3>1. x \in Nonterminal \cup {"node"} BY <2>3 DEF Symbol
    <3> QED BY <3>1, QuietOnes
  <2>8. Closing(q, brackets) BY <2>2, <2>6, <2>7, ClosingCons
  <2>9. CASE x = "node"
    <3>1. e = D(q, n + 1) BY <1>1, <2>2, <2>9, ExpandNode
    <3>2. n + 1 \in Nat OBVIOUS
    <3> QED BY <2>8, <3>1, <3>2 DEF Kept, KeptRest
  <2>10. CASE x \in Nonterminal
    <3>1. PICK s \in Alternatives(x, q) : e = D(s, n) BY <1>1, <2>2, <2>10, ExpandNonterminal
    <3>2. s \in Rest /\ KeptRest(s, brackets) BY <2>8, <2>10, AlternativesKeep
    <3> QED BY <3>1, <3>2 DEF Kept
  <2> QED BY <2>3, <2>9, <2>10 DEF Symbol
<1> QED BY <1>2, <1>3

\* Settling a derivation keeps what is to close.
LEMMA FinalKeeps ==
  ASSUME NEW d, NEW brackets, Kept(d, brackets), NEW x \in Final(d)
  PROVE  Kept(x, brackets)
<1> DEFINE S == {i \in 0 .. 10 : \A e \in Of(d)[i] : Kept(e, brackets)}
<1>1. 0 \in S
  <2>1. Of(d)[0] = {d} BY RoundsOf
  <2> QED BY <2>1
<1>2. ASSUME NEW i \in 0 .. 10 - 1, i \in S PROVE i + 1 \in S
  <2>1. i \in 0 .. 9 /\ i + 1 \in 0 .. 10 OBVIOUS
  <2>2. Of(d)[i + 1] = Expanded(Of(d)[i]) BY <2>1, RoundsOf
  <2>3. \A e \in Of(d)[i] : Kept(e, brackets) BY <1>2
  <2>4. \A e \in Of(d)[i + 1] : Kept(e, brackets) BY <2>2, <2>3, ExpandKeeps DEF Expanded
  <2> QED BY <2>1, <2>4
<1>3. 0 .. 10 \subseteq S
  <2> HIDE DEF S
  <2> QED BY <1>1, <1>2, CountUp
<1>4. Final(d) = Of(d)[10] BY RoundsOf DEF Final
<1> QED BY <1>3, <1>4

\* What is kept is what is to close.
LEMMA KeptInside ==
  ASSUME NEW ds, NEW d \in Inside(ds), NEW brackets, Kept(d, brackets)
  PROVE  ToClose(d) = brackets
<1>1. PICK r \in Rest, n \in Nat : d = D(r, n) /\ KeptRest(r, brackets) BY DEF Kept
<1>2. d.rest = r BY <1>1 DEF D
<1>3. r = <<>> \/ Head(r) \notin {OB, "["} \/ InString(d) BY <1>2 DEF Inside, OB
<1>4. CASE r = <<>>
  <2>1. \A x \in Symbol, q \in Rest : r # Cons(x, q) BY <1>4, ConsParts
  <2>2. Closing(r, brackets)
    <3>1. OB \in Symbol /\ "[" \in Symbol /\ \A y \in Char : y \in Symbol BY WrittenOut, Symbols
    <3> QED BY <1>1, <2>1, <3>1 DEF KeptRest
  <2>3. ~InString(d) BY <1>2, <1>4 DEF InString
  <2> QED BY <1>2, <2>2, <2>3 DEF ToClose, Closing
<1>5. CASE r # <<>>
  <2>1. PICK x \in Symbol, q \in Rest : r = Cons(x, q) BY <1>5, FirstSymbol
  <2>2. Head(r) = x /\ Tail(r) = q BY <2>1, ConsParts
  <2>3. InString(d) <=> InText(q) BY <1>1, <2>1, TextCons
  <2>4. ToClose(d) = IF InText(q) THEN Brackets(q) ELSE Brackets(r)
    BY <1>2, <2>2, <2>3 DEF ToClose
  <2>5. \A y \in Symbol : \A s \in Rest : r = Cons(y, s) => y = x /\ s = q BY <2>2, ConsParts
  <2>6. OB \in Symbol /\ "[" \in Symbol /\ \A y \in Char : y \in Symbol BY WrittenOut, Symbols
  <2>7. Closing(r, brackets) \/ (InText(q) /\ Closing(q, brackets))
    <3>1. ~(x \in {OB, "["} /\ ~InText(q)) BY <1>3, <1>5, <2>2, <2>3
    <3>2. CASE \E y \in {OB, "["}, s \in Rest : r = Cons(y, s) /\ ~InText(s)
      <4>1. PICK y \in {OB, "["}, s \in Rest : r = Cons(y, s) /\ ~InText(s) BY <3>2
      <4>2. y = x /\ s = q BY <2>5, <2>6, <4>1
      <4> QED BY <3>1, <4>1, <4>2
    <3>3. CASE \E y \in Char, s \in Rest : r = Cons(y, s) /\ InText(s) /\ Closing(s, brackets)
      <4>1. PICK y \in Char, s \in Rest : r = Cons(y, s) /\ InText(s) /\ Closing(s, brackets) BY <3>3
      <4>2. s = q BY <2>5, <2>6, <4>1
      <4> QED BY <4>1, <4>2
    <3>4. \/ Closing(r, brackets)
          \/ \E y \in {OB, "["}, s \in Rest : r = Cons(y, s) /\ ~InText(s)
          \/ \E y \in Char, s \in Rest : r = Cons(y, s) /\ InText(s) /\ Closing(s, brackets)
      BY <1>1 DEF KeptRest
    <3> QED BY <3>2, <3>3, <3>4
  <2>8. CASE Closing(r, brackets)
    <3>1. CASE InText(q)
      <4>1. Closing(q, brackets) BY <2>1, <2>8, <3>1, ClosingCons
      <4> QED BY <4>1, <2>4, <3>1 DEF Closing
    <3>2. CASE ~InText(q) BY <2>4, <2>8, <3>2 DEF Closing
    <3> QED BY <3>1, <3>2
  <2>9. CASE InText(q) /\ Closing(q, brackets) BY <2>4, <2>9 DEF Closing
  <2> QED BY <2>7, <2>8, <2>9
<1> QED BY <1>4, <1>5

------------------------------------------------------------------------------
(* What is left to match in each state of the parser *)

CloseRest(kind, t) == Cons(Closes[kind], ValueEnd(t))
List == [kind \in {"object", "array"} |-> IF kind = "object" THEN "members" ELSE "elements"]

\* What is left in a container of which a value is complete.
Around(kind, t) == {CloseRest(kind, t), Cons(CM, Cons(List[kind], CloseRest(kind, t)))}

\* The states that are not an end.
States ==
  {"element", "array_element", "object", "array", "member", "colon", "after_value",
   "string_key", "string_escape_key", "string_value", "string_escape_value",
   "number_minus", "number_zero", "number_one_nine", "number_frac_first", "number_frac_digits",
   "number_exp_sign", "number_exp_first", "number_exp_digits"}

\* What can be left in state s, when t is left after the current value or container.
Expected(s, t) ==
  CASE s \in {"element", "array_element"} -> {ValueRest(t)}
    [] s \in {"object", "array"} ->
         {Cons("ws", CloseRest(s, t)), Cons(List[s], CloseRest(s, t))}
    [] s = "member" -> {MemberRest(t)}
    [] s = "string_key" -> {Cons("characters", Cons(DQ, KeyEnd(t)))}
    [] s = "string_escape_key" ->
         {Cons(c, Cons("characters", Cons(DQ, KeyEnd(t)))) : c \in Escaped}
    [] s = "colon" -> {KeyEnd(t)}
    [] s = "string_value" -> {Cons("characters", Cons(DQ, ValueEnd(t)))}
    [] s = "string_escape_value" ->
         {Cons(c, Cons("characters", Cons(DQ, ValueEnd(t)))) : c \in Escaped}
    [] s = "number_minus" -> {Cons("int", FracRest(t))}
    [] s = "number_zero" -> {FracRest(t)}
    [] s = "number_one_nine" -> {Cons("digits", FracRest(t))}
    [] s = "number_frac_first" ->
         {Cons(c, Cons("digits", Cons("exp", ValueEnd(t)))) : c \in Digit}
    [] s = "number_frac_digits" -> {Cons("digits", Cons("exp", ValueEnd(t)))}
    [] s = "number_exp_sign" ->
         {Cons(c, Cons("digits", ValueEnd(t))) : c \in Digit} \cup
         {Cons(g, Cons(c, Cons("digits", ValueEnd(t)))) : c \in Digit, g \in {"+", "-"}}
    [] s = "number_exp_first" -> {Cons(c, Cons("digits", ValueEnd(t))) : c \in Digit}
    [] s = "number_exp_digits" -> {Cons("digits", ValueEnd(t))}
    [] s = "after_value" -> {Cons("ws", t)}

\* What a rest leads to after a character.
Leads(r, n, c, x) == \E y \in Lead(D(r, n), c) : x \in Final(y)

\* The derivations of a state, those after one more character, and the numbers
\* of nodes with which they can end.
Awaits(s, t, n, x) == \E r \in Expected(s, t) : x \in Final(D(r, n))
Reads(s, t, n, c, x) == \E r \in Expected(s, t) : Leads(r, n, c, x)
Finishes(s, t, n, m) == \E r \in Expected(s, t) : m \in Ends(D(r, n))

\* The cases of what can be left.
LEMMA ExpectedIs ==
  ASSUME NEW t
  PROVE  /\ \A s \in {"element", "array_element"} : Expected(s, t) = {ValueRest(t)}
         /\ \A s \in {"object", "array"} :
              Expected(s, t) = {Cons("ws", CloseRest(s, t)), Cons(List[s], CloseRest(s, t))}
         /\ Expected("member", t) = {MemberRest(t)}
         /\ Expected("string_key", t) = {Cons("characters", Cons(DQ, KeyEnd(t)))}
         /\ Expected("string_escape_key", t) =
              {Cons(c, Cons("characters", Cons(DQ, KeyEnd(t)))) : c \in Escaped}
         /\ Expected("colon", t) = {KeyEnd(t)}
         /\ Expected("string_value", t) = {Cons("characters", Cons(DQ, ValueEnd(t)))}
         /\ Expected("string_escape_value", t) =
              {Cons(c, Cons("characters", Cons(DQ, ValueEnd(t)))) : c \in Escaped}
         /\ Expected("number_minus", t) = {Cons("int", FracRest(t))}
         /\ Expected("number_zero", t) = {FracRest(t)}
         /\ Expected("number_one_nine", t) = {Cons("digits", FracRest(t))}
         /\ Expected("number_frac_first", t) =
              {Cons(c, Cons("digits", Cons("exp", ValueEnd(t)))) : c \in Digit}
         /\ Expected("number_frac_digits", t) = {Cons("digits", Cons("exp", ValueEnd(t)))}
         /\ Expected("number_exp_sign", t) =
              {Cons(c, Cons("digits", ValueEnd(t))) : c \in Digit} \cup
              {Cons(g, Cons(c, Cons("digits", ValueEnd(t)))) : c \in Digit, g \in {"+", "-"}}
         /\ Expected("number_exp_first", t) = {Cons(c, Cons("digits", ValueEnd(t))) : c \in Digit}
         /\ Expected("number_exp_digits", t) = {Cons("digits", ValueEnd(t))}
         /\ Expected("after_value", t) = {Cons("ws", t)}
BY DEF Expected

\* A state with one rest.
LEMMA OneRest ==
  ASSUME NEW s, NEW t, NEW n, NEW r, Expected(s, t) = {r}
  PROVE  /\ \A x : Awaits(s, t, n, x) <=> x \in Final(D(r, n))
         /\ \A c, x : Reads(s, t, n, c, x) <=> Leads(r, n, c, x)
         /\ \A m : Finishes(s, t, n, m) <=> m \in Ends(D(r, n))
BY DEF Awaits, Reads, Finishes

\* A rest that begins with a character.
LEMMA LeadsChar ==
  ASSUME NEW b \in Char, NEW r \in Rest, NEW n \in Nat
  PROVE  /\ \A c, x : Leads(Cons(b, r), n, c, x) <=> c = b /\ x \in Final(D(r, n))
         /\ \A m : m \notin Ends(D(Cons(b, r), n))
         /\ \A c, x : ~Leads(<<>>, n, c, x)
         /\ \A m : m \in Ends(D(<<>>, n)) <=> m = n
<1>1. /\ \A c, y : y \in Lead(D(Cons(b, r), n), c) <=> c = b /\ y = D(r, n)
      /\ \A m : m \notin Ends(D(Cons(b, r), n))
      /\ \A c, y : y \notin Lead(D(<<>>, n), c)
      /\ \A m : m \in Ends(D(<<>>, n)) <=> m = n
  BY CharLead
<1> QED BY <1>1 DEF Leads

\* After a value.
LEMMA ReadsAfterValue ==
  ASSUME NEW t \in Rest, Quick(0, t), NEW n \in Nat
  PROVE  /\ \A c, x : Reads("after_value", t, n, c, x) <=>
              \/ Leads(t, n, c, x)
              \/ c \in Space /\ Awaits("after_value", t, n, x)
         /\ \A m : Finishes("after_value", t, n, m) <=> m \in Ends(D(t, n))
<1>1. 0 \in 0 .. 9 OBVIOUS
<1>2. /\ \A c, y : y \in Lead(D(Cons("ws", t), n), c) <=>
           \/ y \in Lead(D(t, n), c)
           \/ c \in Space /\ y = D(Cons("ws", t), n)
      /\ \A m : m \in Ends(D(Cons("ws", t), n)) <=> m \in Ends(D(t, n))
  BY <1>1, LeadWs
<1>3. \A c, x : Leads(Cons("ws", t), n, c, x) <=>
        \/ Leads(t, n, c, x)
        \/ c \in Space /\ x \in Final(D(Cons("ws", t), n))
  BY <1>2 DEF Leads
<1>4. Expected("after_value", t) = {Cons("ws", t)} BY ExpectedIs
<1> QED BY <1>2, <1>3, <1>4, OneRest

\* At the end of a value.
LEMMA LeadsValueEnd ==
  ASSUME NEW t \in Rest, Quick(0, t), NEW n \in Nat
  PROVE  /\ Quick(2, ValueEnd(t))
         /\ \A x : x \in Final(D(ValueEnd(t), n)) <=> Awaits("after_value", t, n + 1, x)
         /\ \A c, x : Leads(ValueEnd(t), n, c, x) <=> Reads("after_value", t, n + 1, c, x)
         /\ \A m : m \in Ends(D(ValueEnd(t), n)) <=> Finishes("after_value", t, n + 1, m)
<1> DEFINE w == Cons("ws", t)
<1>1. w \in Rest BY Rests, WrittenOut
<1>2. Quick(1, w)
  <2>1. 0 \in 0 .. 9 OBVIOUS
  <2>2. Quick(0 + 1, w) BY <2>1, LeadWs
  <2> QED BY <2>2
<1>3. ValueEnd(t) = Cons("node", w) BY DEF ValueEnd
<1>4. Expected("after_value", t) = {w} BY ExpectedIs
<1> HIDE DEF w
<1>5. 1 \in 0 .. 9 /\ 1 + 1 = 2 OBVIOUS
<1>6. /\ Quick(1 + 1, Cons("node", w))
      /\ Final(D(Cons("node", w), n)) = Final(D(w, n + 1))
  BY <1>1, <1>2, <1>5, NodeFinal
<1>7. \A c : Lead(D(Cons("node", w), n), c) = Lead(D(w, n + 1), c) BY <1>6 DEF Lead
<1>8. \A c, x : Leads(Cons("node", w), n, c, x) <=> Leads(w, n + 1, c, x) BY <1>7 DEF Leads
<1>9. Ends(D(Cons("node", w), n)) = Ends(D(w, n + 1)) BY <1>6 DEF Ends
<1>10. /\ \A x : Awaits("after_value", t, n + 1, x) <=> x \in Final(D(w, n + 1))
       /\ \A c, x : Reads("after_value", t, n + 1, c, x) <=> Leads(w, n + 1, c, x)
       /\ \A m : Finishes("after_value", t, n + 1, m) <=> m \in Ends(D(w, n + 1))
  BY <1>4, OneRest
<1> QED BY <1>3, <1>5, <1>6, <1>8, <1>9, <1>10

\* In front of a value.
LEMMA ReadsElement ==
  ASSUME NEW t \in Rest, Quick(0, t), NEW n \in Nat, NEW s \in {"element", "array_element"}
  PROVE  /\ \A c, x : Reads(s, t, n, c, x) <=>
              \/ c \in Space /\ Awaits(s, t, n, x)
              \/ c = OB /\ Awaits("object", t, n, x)
              \/ c = "[" /\ Awaits("array", t, n, x)
              \/ c = DQ /\ Awaits("string_value", t, n, x)
              \/ c = "0" /\ Awaits("number_zero", t, n, x)
              \/ c = "1" /\ Awaits("number_one_nine", t, n, x)
              \/ c = "-" /\ Awaits("number_minus", t, n, x)
              \/ c = "true" /\ Awaits("after_value", t, n + 1, x)
         /\ \A m : ~Finishes(s, t, n, m)
         /\ \A x : Awaits("array_element", t, n, x) <=> Awaits("element", t, n, x)
         /\ \A c, x : Reads("array_element", t, n, c, x) <=> Reads("element", t, n, c, x)
<1> DEFINE v == ValueRest(t)
           o1 == Cons("ws", CloseRest("object", t))
           o2 == Cons("members", CloseRest("object", t))
           a1 == Cons("ws", CloseRest("array", t))
           a2 == Cons("elements", CloseRest("array", t))
           q == Cons("characters", Cons(DQ, ValueEnd(t)))
           z == FracRest(t)
           d == Cons("digits", FracRest(t))
           i == Cons("int", FracRest(t))
           e == ValueEnd(t)
<1>1. Closes["object"] = CB /\ Closes["array"] = "]" BY DEF Closes, CB
<1>2. List["object"] = "members" /\ List["array"] = "elements" BY DEF List
<1>3. /\ o1 = Cons("ws", Cons(CB, e)) /\ o2 = Cons("members", Cons(CB, e))
      /\ a1 = Cons("ws", Cons("]", e)) /\ a2 = Cons("elements", Cons("]", e))
  BY <1>1 DEF CloseRest
<1>4. /\ Expected("element", t) = {v} /\ Expected("array_element", t) = {v}
      /\ Expected("object", t) = {o1, o2} /\ Expected("array", t) = {a1, a2}
      /\ Expected("string_value", t) = {q} /\ Expected("number_zero", t) = {z}
      /\ Expected("number_one_nine", t) = {d} /\ Expected("number_minus", t) = {i}
  <2>1. /\ Expected("element", t) = {v} /\ Expected("array_element", t) = {v} BY ExpectedIs
  <2>2. /\ Expected("object", t) = {o1, Cons(List["object"], CloseRest("object", t))}
        /\ Expected("array", t) = {a1, Cons(List["array"], CloseRest("array", t))}
    BY ExpectedIs
  <2>3. /\ Expected("string_value", t) = {q} /\ Expected("number_zero", t) = {z}
        /\ Expected("number_one_nine", t) = {d} /\ Expected("number_minus", t) = {i}
    BY ExpectedIs
  <2> QED BY <2>1, <2>2, <2>3, <1>2
<1>5. /\ \A c, y : y \in Lead(D(v, n), c) <=>
           \/ ValueBegins(t, n, c, y)
           \/ c \in Space /\ y = D(v, n)
      /\ \A m : m \notin Ends(D(v, n))
  BY LeadValueRest
<1>6. \A c, y : ValueBegins(t, n, c, y) <=>
        \/ c = OB /\ (y = D(o1, n) \/ y = D(o2, n))
        \/ c = "[" /\ (y = D(a1, n) \/ y = D(a2, n))
        \/ c = DQ /\ y = D(q, n)
        \/ c = "0" /\ y = D(z, n)
        \/ c = "1" /\ y = D(d, n)
        \/ c = "-" /\ y = D(i, n)
        \/ c = "true" /\ y = D(e, n)
  BY <1>3 DEF ValueBegins
<1>7. \A x : x \in Final(D(e, n)) <=> Awaits("after_value", t, n + 1, x) BY LeadsValueEnd
<1> HIDE DEF v, o1, o2, a1, a2, q, z, d, i, e
<1>8. /\ \A x : Awaits("object", t, n, x) <=> x \in Final(D(o1, n)) \/ x \in Final(D(o2, n))
      /\ \A x : Awaits("array", t, n, x) <=> x \in Final(D(a1, n)) \/ x \in Final(D(a2, n))
      /\ \A x : Awaits("string_value", t, n, x) <=> x \in Final(D(q, n))
      /\ \A x : Awaits("number_zero", t, n, x) <=> x \in Final(D(z, n))
      /\ \A x : Awaits("number_one_nine", t, n, x) <=> x \in Final(D(d, n))
      /\ \A x : Awaits("number_minus", t, n, x) <=> x \in Final(D(i, n))
      /\ \A x : Awaits(s, t, n, x) <=> x \in Final(D(v, n))
  BY <1>4 DEF Awaits
<1>9. \A c, x : Leads(v, n, c, x) <=>
        \/ c \in Space /\ x \in Final(D(v, n))
        \/ c = OB /\ (x \in Final(D(o1, n)) \/ x \in Final(D(o2, n)))
        \/ c = "[" /\ (x \in Final(D(a1, n)) \/ x \in Final(D(a2, n)))
        \/ c = DQ /\ x \in Final(D(q, n))
        \/ c = "0" /\ x \in Final(D(z, n))
        \/ c = "1" /\ x \in Final(D(d, n))
        \/ c = "-" /\ x \in Final(D(i, n))
        \/ c = "true" /\ x \in Final(D(e, n))
  BY <1>5, <1>6 DEF Leads
<1>10. /\ \A c, x : Reads(s, t, n, c, x) <=> Leads(v, n, c, x)
       /\ \A m : Finishes(s, t, n, m) <=> m \in Ends(D(v, n))
  BY <1>4, OneRest
<1>11. /\ \A x : Awaits("array_element", t, n, x) <=> Awaits("element", t, n, x)
       /\ \A c, x : Reads("array_element", t, n, c, x) <=> Reads("element", t, n, c, x)
  BY <1>4 DEF Awaits, Reads
<1>12. ASSUME NEW c, NEW x
       PROVE  Reads(s, t, n, c, x) <=>
                \/ c \in Space /\ Awaits(s, t, n, x)
                \/ c = OB /\ Awaits("object", t, n, x)
                \/ c = "[" /\ Awaits("array", t, n, x)
                \/ c = DQ /\ Awaits("string_value", t, n, x)
                \/ c = "0" /\ Awaits("number_zero", t, n, x)
                \/ c = "1" /\ Awaits("number_one_nine", t, n, x)
                \/ c = "-" /\ Awaits("number_minus", t, n, x)
                \/ c = "true" /\ Awaits("after_value", t, n + 1, x)
  BY <1>7, <1>8, <1>9, <1>10
<1>13. \A m : ~Finishes(s, t, n, m) BY <1>5, <1>10
<1> QED BY <1>11, <1>12, <1>13

\* The content of a string.
LEMMA LeadsText ==
  ASSUME NEW q \in Rest, NEW n \in Nat, NEW t, t = Cons("characters", Cons(DQ, q))
  PROVE  /\ t \in Rest
         /\ \A c, x : Leads(t, n, c, x) <=>
              \/ c \in Plain /\ x \in Final(D(t, n))
              \/ c = BS /\ \E b \in Escaped : x \in Final(D(Cons(b, t), n))
              \/ c = DQ /\ x \in Final(D(q, n))
         /\ \A m : m \notin Ends(D(t, n))
<1> DEFINE k == Cons(DQ, q)
<1>1. DQ \in Char /\ k \in Rest /\ t \in Rest
  <2>1. DQ \in Char /\ DQ \in Symbol /\ "characters" \in Symbol BY Chars, WrittenOut
  <2>2. k \in Rest BY <2>1, ConsParts
  <2> HIDE DEF k
  <2>3. Cons("characters", k) \in Rest BY <2>1, <2>2, ConsParts
  <2> QED BY <2>1, <2>2, <2>3 DEF k
<1>2. /\ Quick(0, k)
      /\ \A c, y : y \in Lead(D(k, n), c) <=> c = DQ /\ y = D(q, n)
      /\ \A m : m \notin Ends(D(k, n))
  BY <1>1, CharFinal, CharLead
<1> HIDE DEF k
<1>3. /\ \A c, y : y \in Lead(D(Cons("characters", k), n), c) <=>
           \/ y \in Lead(D(k, n), c)
           \/ c \in Plain /\ y = D(Cons("characters", k), n)
           \/ c = BS /\ \E b \in Escaped : y = D(Cons(b, Cons("characters", k)), n)
      /\ \A m : m \in Ends(D(Cons("characters", k), n)) <=> m \in Ends(D(k, n))
  <2>1. 0 \in 0 .. 9 OBVIOUS
  <2> QED BY <1>1, <1>2, <2>1, LeadCharacters
<1>4. t = Cons("characters", k) BY DEF k
<1>5. \A c, y : y \in Lead(D(t, n), c) <=>
           \/ c = DQ /\ y = D(q, n)
           \/ c \in Plain /\ y = D(t, n)
           \/ c = BS /\ \E b \in Escaped : y = D(Cons(b, t), n)
  BY <1>2, <1>3, <1>4
<1>6. ASSUME NEW c, NEW x
      PROVE  Leads(t, n, c, x) <=>
              \/ c \in Plain /\ x \in Final(D(t, n))
              \/ c = BS /\ \E b \in Escaped : x \in Final(D(Cons(b, t), n))
              \/ c = DQ /\ x \in Final(D(q, n))
  <2>1. ASSUME Leads(t, n, c, x)
        PROVE  \/ c \in Plain /\ x \in Final(D(t, n))
               \/ c = BS /\ \E b \in Escaped : x \in Final(D(Cons(b, t), n))
               \/ c = DQ /\ x \in Final(D(q, n))
    BY <1>5, <2>1 DEF Leads
  <2>2. c \in Plain /\ x \in Final(D(t, n)) => Leads(t, n, c, x) BY <1>5 DEF Leads
  <2>3. ASSUME c = BS, NEW b \in Escaped, x \in Final(D(Cons(b, t), n)) PROVE Leads(t, n, c, x)
    <3>1. D(Cons(b, t), n) \in Lead(D(t, n), c) BY <1>5, <2>3
    <3> QED BY <2>3, <3>1 DEF Leads
  <2>4. c = DQ /\ x \in Final(D(q, n)) => Leads(t, n, c, x) BY <1>5 DEF Leads
  <2> QED BY <2>1, <2>2, <2>3, <2>4
<1> QED BY <1>1, <1>2, <1>3, <1>4, <1>6

\* The rest of a string after a backslash.
LEMMA LeadsEscape ==
  ASSUME NEW t \in Rest, NEW n \in Nat, NEW b \in Escaped
  PROVE  /\ \A c, x : Leads(Cons(b, t), n, c, x) <=> c = b /\ x \in Final(D(t, n))
         /\ \A m : m \notin Ends(D(Cons(b, t), n))
<1>1. b \in Char BY Symbols
<1> QED BY <1>1, LeadsChar

\* In a string that is a value.
LEMMA ReadsString ==
  ASSUME NEW t \in Rest, Quick(0, t), NEW n \in Nat
  PROVE  /\ \A c, x : Reads("string_value", t, n, c, x) <=>
              \/ c \in Plain /\ Awaits("string_value", t, n, x)
              \/ c = BS /\ Awaits("string_escape_value", t, n, x)
              \/ c = DQ /\ Awaits("after_value", t, n + 1, x)
         /\ \A c, x : Reads("string_escape_value", t, n, c, x) <=>
              c \in Escaped /\ Awaits("string_value", t, n, x)
         /\ \A m : ~Finishes("string_value", t, n, m) /\ ~Finishes("string_escape_value", t, n, m)
<1> DEFINE q == ValueEnd(t)
           s == Cons("characters", Cons(DQ, q))
<1>1. q \in Rest BY Rests
<1>2. \A x : x \in Final(D(q, n)) <=> Awaits("after_value", t, n + 1, x) BY LeadsValueEnd
<1>3. /\ Expected("string_value", t) = {s}
      /\ Expected("string_escape_value", t) = {Cons(b, s) : b \in Escaped}
  BY ExpectedIs
<1> HIDE DEF q
<1>4. /\ s \in Rest
      /\ \A c, x : Leads(s, n, c, x) <=>
              \/ c \in Plain /\ x \in Final(D(s, n))
              \/ c = BS /\ \E b \in Escaped : x \in Final(D(Cons(b, s), n))
              \/ c = DQ /\ x \in Final(D(q, n))
      /\ \A m : m \notin Ends(D(s, n))
  BY <1>1, LeadsText
<1> HIDE DEF s
<1>5. \A b \in Escaped : /\ \A c, x : Leads(Cons(b, s), n, c, x) <=> c = b /\ x \in Final(D(s, n))
                         /\ \A m : m \notin Ends(D(Cons(b, s), n))
  BY <1>4, LeadsEscape
<1>6. /\ \A x : Awaits("string_value", t, n, x) <=> x \in Final(D(s, n))
      /\ \A c, x : Reads("string_value", t, n, c, x) <=> Leads(s, n, c, x)
      /\ \A m : Finishes("string_value", t, n, m) <=> m \in Ends(D(s, n))
  BY <1>3, OneRest
<1>7. /\ \A x : Awaits("string_escape_value", t, n, x) <=>
           \E b \in Escaped : x \in Final(D(Cons(b, s), n))
      /\ \A c, x : Reads("string_escape_value", t, n, c, x) <=>
           \E b \in Escaped : Leads(Cons(b, s), n, c, x)
      /\ \A m : Finishes("string_escape_value", t, n, m) <=>
           \E b \in Escaped : m \in Ends(D(Cons(b, s), n))
  BY <1>3 DEF Awaits, Reads, Finishes
<1>8. \A c, x : Reads("string_value", t, n, c, x) <=>
         \/ c \in Plain /\ Awaits("string_value", t, n, x)
         \/ c = BS /\ Awaits("string_escape_value", t, n, x)
         \/ c = DQ /\ Awaits("after_value", t, n + 1, x)
  BY <1>2, <1>4, <1>6, <1>7
<1>9. \A c, x : Reads("string_escape_value", t, n, c, x) <=>
         c \in Escaped /\ Awaits("string_value", t, n, x)
  BY <1>5, <1>6, <1>7
<1>10. \A m : ~Finishes("string_value", t, n, m) /\ ~Finishes("string_escape_value", t, n, m)
  BY <1>4, <1>5, <1>6, <1>7
<1> QED BY <1>8, <1>9, <1>10

\* In a string that is a key.
LEMMA ReadsKey ==
  ASSUME NEW t \in Rest, NEW n \in Nat
  PROVE  /\ \A c, x : Reads("string_key", t, n, c, x) <=>
              \/ c \in Plain /\ Awaits("string_key", t, n, x)
              \/ c = BS /\ Awaits("string_escape_key", t, n, x)
              \/ c = DQ /\ Awaits("colon", t, n, x)
         /\ \A c, x : Reads("string_escape_key", t, n, c, x) <=>
              c \in Escaped /\ Awaits("string_key", t, n, x)
         /\ \A m : ~Finishes("string_key", t, n, m) /\ ~Finishes("string_escape_key", t, n, m)
<1> DEFINE q == KeyEnd(t)
           s == Cons("characters", Cons(DQ, q))
<1>1. q \in Rest BY Rests
<1>2. \A x : x \in Final(D(q, n)) <=> Awaits("colon", t, n, x)
  <2>1. Expected("colon", t) = {q} BY ExpectedIs
  <2> QED BY <2>1 DEF Awaits
<1>3. /\ Expected("string_key", t) = {s}
      /\ Expected("string_escape_key", t) = {Cons(b, s) : b \in Escaped}
  BY ExpectedIs
<1> HIDE DEF q
<1>4. /\ s \in Rest
      /\ \A c, x : Leads(s, n, c, x) <=>
              \/ c \in Plain /\ x \in Final(D(s, n))
              \/ c = BS /\ \E b \in Escaped : x \in Final(D(Cons(b, s), n))
              \/ c = DQ /\ x \in Final(D(q, n))
      /\ \A m : m \notin Ends(D(s, n))
  BY <1>1, LeadsText
<1> HIDE DEF s
<1>5. \A b \in Escaped : /\ \A c, x : Leads(Cons(b, s), n, c, x) <=> c = b /\ x \in Final(D(s, n))
                         /\ \A m : m \notin Ends(D(Cons(b, s), n))
  BY <1>4, LeadsEscape
<1>6. /\ \A x : Awaits("string_key", t, n, x) <=> x \in Final(D(s, n))
      /\ \A c, x : Reads("string_key", t, n, c, x) <=> Leads(s, n, c, x)
      /\ \A m : Finishes("string_key", t, n, m) <=> m \in Ends(D(s, n))
  BY <1>3, OneRest
<1>7. /\ \A x : Awaits("string_escape_key", t, n, x) <=>
           \E b \in Escaped : x \in Final(D(Cons(b, s), n))
      /\ \A c, x : Reads("string_escape_key", t, n, c, x) <=>
           \E b \in Escaped : Leads(Cons(b, s), n, c, x)
      /\ \A m : Finishes("string_escape_key", t, n, m) <=>
           \E b \in Escaped : m \in Ends(D(Cons(b, s), n))
  BY <1>3 DEF Awaits, Reads, Finishes
<1>8. \A c, x : Reads("string_key", t, n, c, x) <=>
         \/ c \in Plain /\ Awaits("string_key", t, n, x)
         \/ c = BS /\ Awaits("string_escape_key", t, n, x)
         \/ c = DQ /\ Awaits("colon", t, n, x)
  BY <1>2, <1>4, <1>6, <1>7
<1>9. \A c, x : Reads("string_escape_key", t, n, c, x) <=>
         c \in Escaped /\ Awaits("string_key", t, n, x)
  BY <1>5, <1>6, <1>7
<1>10. \A m : ~Finishes("string_key", t, n, m) /\ ~Finishes("string_escape_key", t, n, m)
  BY <1>4, <1>5, <1>6, <1>7
<1> QED BY <1>8, <1>9, <1>10

\* After a key.
LEMMA ReadsColon ==
  ASSUME NEW t \in Rest, NEW n \in Nat
  PROVE  /\ \A c, x : Reads("colon", t, n, c, x) <=>
              \/ c \in Space /\ Awaits("colon", t, n, x)
              \/ c = ":" /\ Awaits("element", t, n, x)
         /\ \A m : ~Finishes("colon", t, n, m)
<1> DEFINE e == Cons("element", t)
           s == Cons(":", e)
           w == Cons("ws", s)
<1>1. e \in Rest /\ s \in Rest /\ ":" \in Char
  <2>1. e \in Rest BY Rests, WrittenOut
  <2>2. ":" \in Char /\ ":" \in Symbol BY Chars, WrittenOut
  <2> QED BY <2>1, <2>2, ConsParts
<1>2. Expected("colon", t) = {w} BY ExpectedIs DEF KeyEnd
<1>3. \A x : Awaits("element", t, n, x) <=> x \in Final(D(e, n))
  <2>1. Expected("element", t) = {ValueRest(t)} BY ExpectedIs
  <2>2. \A x : x \in Final(D(e, n)) <=> x \in Final(D(ValueRest(t), n)) BY FinalElement
  <2> QED BY <2>1, <2>2 DEF Awaits
<1> HIDE DEF e
<1>4. /\ Quick(0, s)
      /\ \A c, y : y \in Lead(D(s, n), c) <=> c = ":" /\ y = D(e, n)
      /\ \A m : m \notin Ends(D(s, n))
  BY <1>1, CharFinal, CharLead
<1> HIDE DEF s
<1>5. /\ \A c, y : y \in Lead(D(w, n), c) <=>
           \/ y \in Lead(D(s, n), c)
           \/ c \in Space /\ y = D(w, n)
      /\ \A m : m \in Ends(D(w, n)) <=> m \in Ends(D(s, n))
  <2>1. 0 \in 0 .. 9 OBVIOUS
  <2> QED BY <1>1, <1>4, <2>1, LeadWs
<1> HIDE DEF w
<1>6. \A c, x : Leads(w, n, c, x) <=>
        \/ c \in Space /\ x \in Final(D(w, n))
        \/ c = ":" /\ x \in Final(D(e, n))
  BY <1>4, <1>5 DEF Leads
<1>7. /\ \A x : Awaits("colon", t, n, x) <=> x \in Final(D(w, n))
      /\ \A c, x : Reads("colon", t, n, c, x) <=> Leads(w, n, c, x)
      /\ \A m : Finishes("colon", t, n, m) <=> m \in Ends(D(w, n))
  BY <1>2, OneRest
<1> QED BY <1>3, <1>4, <1>5, <1>6, <1>7

\* In front of a member.
LEMMA ReadsMember ==
  ASSUME NEW t \in Rest, NEW n \in Nat
  PROVE  /\ \A c, x : Reads("member", t, n, c, x) <=>
              \/ c \in Space /\ Awaits("member", t, n, x)
              \/ c = DQ /\ Awaits("string_key", t, n, x)
         /\ \A m : ~Finishes("member", t, n, m)
<1> DEFINE w == MemberRest(t)
           s == Cons("characters", Cons(DQ, KeyEnd(t)))
<1>1. Expected("member", t) = {w} /\ Expected("string_key", t) = {s} BY ExpectedIs
<1>2. /\ \A c, y : y \in Lead(D(w, n), c) <=>
           \/ c = DQ /\ y = D(s, n)
           \/ c \in Space /\ y = D(w, n)
      /\ \A m : m \notin Ends(D(w, n))
  BY LeadMemberRest
<1> HIDE DEF w, s
<1>3. \A c, x : Leads(w, n, c, x) <=>
        \/ c \in Space /\ x \in Final(D(w, n))
        \/ c = DQ /\ x \in Final(D(s, n))
  BY <1>2 DEF Leads
<1>4. /\ \A x : Awaits("member", t, n, x) <=> x \in Final(D(w, n))
      /\ \A x : Awaits("string_key", t, n, x) <=> x \in Final(D(s, n))
      /\ \A c, x : Reads("member", t, n, c, x) <=> Leads(w, n, c, x)
      /\ \A m : Finishes("member", t, n, m) <=> m \in Ends(D(w, n))
  BY <1>1, OneRest
<1> QED BY <1>2, <1>3, <1>4

\* Digits before the rest.
LEMMA LeadsDigits ==
  ASSUME NEW r \in Rest, NEW k \in 0 .. 9, Quick(k, r), NEW n \in Nat, NEW d, d = Cons("digits", r)
  PROVE  /\ Quick(k + 1, d)
         /\ \A c, x : Leads(d, n, c, x) <=>
              \/ Leads(r, n, c, x)
              \/ c \in Digit /\ x \in Final(D(d, n))
         /\ \A m : m \in Ends(D(d, n)) <=> m \in Ends(D(r, n))
<1>1. /\ Quick(k + 1, d)
      /\ \A c, y : y \in Lead(D(d, n), c) <=>
           \/ y \in Lead(D(r, n), c)
           \/ c \in Digit /\ y = D(d, n)
      /\ \A m : m \in Ends(D(d, n)) <=> m \in Ends(D(r, n))
  BY LeadDigits
<1>2. \A c, x : Leads(d, n, c, x) <=>
        \/ Leads(r, n, c, x)
        \/ c \in Digit /\ x \in Final(D(d, n))
  BY <1>1 DEF Leads
<1> QED BY <1>1, <1>2

\* An exponent, or none, before the rest.
LEMMA LeadsExp ==
  ASSUME NEW r \in Rest, NEW k \in 0 .. 9, Quick(k, r), NEW n \in Nat,
         NEW d, d = Cons("digits", r), NEW e, e = Cons("exp", r)
  PROVE  /\ Quick(k + 1, e)
         /\ \A c, x : Leads(e, n, c, x) <=>
              \/ Leads(r, n, c, x)
              \/ c = "e" /\ \/ \E b \in Digit : x \in Final(D(Cons(b, d), n))
                            \/ \E g \in {"+", "-"}, b \in Digit : x \in Final(D(Cons(g, Cons(b, d)), n))
         /\ \A m : m \in Ends(D(e, n)) <=> m \in Ends(D(r, n))
<1>1. /\ Quick(k + 1, e)
      /\ \A c, y : y \in Lead(D(e, n), c) <=>
           \/ y \in Lead(D(r, n), c)
           \/ c = "e" /\ \E b \in Digit : y = D(Cons(b, d), n)
           \/ c = "e" /\ \E g \in {"+", "-"}, b \in Digit : y = D(Cons(g, Cons(b, d)), n)
      /\ \A m : m \in Ends(D(e, n)) <=> m \in Ends(D(r, n))
  BY LeadExp
<1>2. ASSUME NEW c, NEW x
      PROVE  Leads(e, n, c, x) <=>
              \/ Leads(r, n, c, x)
              \/ c = "e" /\ \/ \E b \in Digit : x \in Final(D(Cons(b, d), n))
                            \/ \E g \in {"+", "-"}, b \in Digit : x \in Final(D(Cons(g, Cons(b, d)), n))
  <2>1. ASSUME Leads(e, n, c, x)
        PROVE  \/ Leads(r, n, c, x)
               \/ c = "e" /\ \/ \E b \in Digit : x \in Final(D(Cons(b, d), n))
                             \/ \E g \in {"+", "-"}, b \in Digit : x \in Final(D(Cons(g, Cons(b, d)), n))
    BY <1>1, <2>1 DEF Leads
  <2>2. Leads(r, n, c, x) => Leads(e, n, c, x) BY <1>1 DEF Leads
  <2>3. ASSUME c = "e", NEW b \in Digit, x \in Final(D(Cons(b, d), n)) PROVE Leads(e, n, c, x)
    <3>1. D(Cons(b, d), n) \in Lead(D(e, n), c) BY <1>1, <2>3
    <3> QED BY <2>3, <3>1 DEF Leads
  <2>4. ASSUME c = "e", NEW g \in {"+", "-"}, NEW b \in Digit, x \in Final(D(Cons(g, Cons(b, d)), n))
        PROVE  Leads(e, n, c, x)
    <3>1. D(Cons(g, Cons(b, d)), n) \in Lead(D(e, n), c) BY <1>1, <2>4
    <3> QED BY <2>4, <3>1 DEF Leads
  <2> QED BY <2>1, <2>2, <2>3, <2>4
<1> QED BY <1>1, <1>2

\* A fraction, or none, before the rest.
LEMMA LeadsFrac ==
  ASSUME NEW r \in Rest, NEW k \in 0 .. 9, Quick(k, r), NEW n \in Nat,
         NEW d, d = Cons("digits", r), NEW f, f = Cons("frac", r)
  PROVE  /\ Quick(k + 1, f)
         /\ \A c, x : Leads(f, n, c, x) <=>
              \/ Leads(r, n, c, x)
              \/ c = "." /\ \E b \in Digit : x \in Final(D(Cons(b, d), n))
         /\ \A m : m \in Ends(D(f, n)) <=> m \in Ends(D(r, n))
<1>1. /\ Quick(k + 1, f)
      /\ \A c, y : y \in Lead(D(f, n), c) <=>
           \/ y \in Lead(D(r, n), c)
           \/ c = "." /\ \E b \in Digit : y = D(Cons(b, d), n)
      /\ \A m : m \in Ends(D(f, n)) <=> m \in Ends(D(r, n))
  BY LeadFrac
<1>2. ASSUME NEW c, NEW x
      PROVE  Leads(f, n, c, x) <=>
              \/ Leads(r, n, c, x)
              \/ c = "." /\ \E b \in Digit : x \in Final(D(Cons(b, d), n))
  <2>1. ASSUME Leads(f, n, c, x)
        PROVE  \/ Leads(r, n, c, x)
               \/ c = "." /\ \E b \in Digit : x \in Final(D(Cons(b, d), n))
    BY <1>1, <2>1 DEF Leads
  <2>2. Leads(r, n, c, x) => Leads(f, n, c, x) BY <1>1 DEF Leads
  <2>3. ASSUME c = ".", NEW b \in Digit, x \in Final(D(Cons(b, d), n)) PROVE Leads(f, n, c, x)
    <3>1. D(Cons(b, d), n) \in Lead(D(f, n), c) BY <1>1, <2>3
    <3> QED BY <2>3, <3>1 DEF Leads
  <2> QED BY <2>1, <2>2, <2>3
<1> QED BY <1>1, <1>2

\* One character of some, before the rest.
LEMMA LeadsSome ==
  ASSUME NEW B \in SUBSET Char, NEW r \in Rest, NEW n \in Nat
  PROVE  /\ \A c, x : (\E b \in B : Leads(Cons(b, r), n, c, x)) <=> c \in B /\ x \in Final(D(r, n))
         /\ \A m : \A b \in B : m \notin Ends(D(Cons(b, r), n))
<1>1. \A b \in B : /\ \A c, x : Leads(Cons(b, r), n, c, x) <=> c = b /\ x \in Final(D(r, n))
                   /\ \A m : m \notin Ends(D(Cons(b, r), n))
  BY LeadsChar
<1> QED BY <1>1

\* In an exponent.
LEMMA ReadsExp ==
  ASSUME NEW t \in Rest, Quick(0, t), NEW n \in Nat
  PROVE  /\ \A c, x : Reads("number_exp_sign", t, n, c, x) <=>
              \/ c \in {"+", "-"} /\ Awaits("number_exp_first", t, n, x)
              \/ c \in Digit /\ Awaits("number_exp_digits", t, n, x)
         /\ \A m : ~Finishes("number_exp_sign", t, n, m)
         /\ \A c, x : Reads("number_exp_first", t, n, c, x) <=>
              c \in Digit /\ Awaits("number_exp_digits", t, n, x)
         /\ \A m : ~Finishes("number_exp_first", t, n, m)
         /\ \A c, x : Reads("number_exp_digits", t, n, c, x) <=>
              \/ Reads("after_value", t, n + 1, c, x)
              \/ c \in Digit /\ Awaits("number_exp_digits", t, n, x)
         /\ \A m : Finishes("number_exp_digits", t, n, m) <=> Finishes("after_value", t, n + 1, m)
<1> DEFINE v == ValueEnd(t)
           d == Cons("digits", v)
<1>1. v \in Rest /\ d \in Rest
  <2>1. v \in Rest BY Rests
  <2> QED BY <2>1, Rests, WrittenOut
<1>2. /\ Quick(2, v)
      /\ \A c, x : Leads(v, n, c, x) <=> Reads("after_value", t, n + 1, c, x)
      /\ \A m : m \in Ends(D(v, n)) <=> Finishes("after_value", t, n + 1, m)
  BY LeadsValueEnd
<1>3. /\ Expected("number_exp_sign", t) =
           {Cons(c, d) : c \in Digit} \cup {Cons(g, Cons(c, d)) : c \in Digit, g \in {"+", "-"}}
      /\ Expected("number_exp_first", t) = {Cons(c, d) : c \in Digit}
      /\ Expected("number_exp_digits", t) = {d}
  BY ExpectedIs
<1> HIDE DEF v
<1>4. /\ \A c, x : Leads(d, n, c, x) <=>
           \/ Leads(v, n, c, x)
           \/ c \in Digit /\ x \in Final(D(d, n))
      /\ \A m : m \in Ends(D(d, n)) <=> m \in Ends(D(v, n))
  <2>1. 2 \in 0 .. 9 OBVIOUS
  <2> QED BY <1>1, <1>2, <2>1, LeadsDigits
<1> HIDE DEF d
<1>5. Digit \in SUBSET Char /\ {"+", "-"} \in SUBSET Char /\ \A c \in Digit : Cons(c, d) \in Rest
  BY <1>1, Symbols, Chars, ConsParts
<1>6. /\ \A c, x : (\E b \in Digit : Leads(Cons(b, d), n, c, x)) <=> c \in Digit /\ x \in Final(D(d, n))
      /\ \A m : \A b \in Digit : m \notin Ends(D(Cons(b, d), n))
  BY <1>1, <1>5, LeadsSome
<1>7. \A b \in Digit : /\ \A c, x : (\E g \in {"+", "-"} : Leads(Cons(g, Cons(b, d)), n, c, x)) <=>
                                    c \in {"+", "-"} /\ x \in Final(D(Cons(b, d), n))
                       /\ \A m : \A g \in {"+", "-"} : m \notin Ends(D(Cons(g, Cons(b, d)), n))
  BY <1>5, LeadsSome
<1>8. /\ \A x : Awaits("number_exp_digits", t, n, x) <=> x \in Final(D(d, n))
      /\ \A c, x : Reads("number_exp_digits", t, n, c, x) <=> Leads(d, n, c, x)
      /\ \A m : Finishes("number_exp_digits", t, n, m) <=> m \in Ends(D(d, n))
  BY <1>3, OneRest
<1>9. /\ \A x : Awaits("number_exp_first", t, n, x) <=> \E b \in Digit : x \in Final(D(Cons(b, d), n))
      /\ \A c, x : Reads("number_exp_first", t, n, c, x) <=> \E b \in Digit : Leads(Cons(b, d), n, c, x)
      /\ \A m : Finishes("number_exp_first", t, n, m) <=> \E b \in Digit : m \in Ends(D(Cons(b, d), n))
  BY <1>3 DEF Awaits, Reads, Finishes
<1>10. /\ \A c, x : Reads("number_exp_sign", t, n, c, x) <=>
            \/ \E b \in Digit : Leads(Cons(b, d), n, c, x)
            \/ \E b \in Digit : \E g \in {"+", "-"} : Leads(Cons(g, Cons(b, d)), n, c, x)
       /\ \A m : Finishes("number_exp_sign", t, n, m) <=>
            \/ \E b \in Digit : m \in Ends(D(Cons(b, d), n))
            \/ \E b \in Digit : \E g \in {"+", "-"} : m \in Ends(D(Cons(g, Cons(b, d)), n))
  BY <1>3 DEF Reads, Finishes
<1>11. \A c, x : Reads("number_exp_sign", t, n, c, x) <=>
              \/ c \in {"+", "-"} /\ Awaits("number_exp_first", t, n, x)
              \/ c \in Digit /\ Awaits("number_exp_digits", t, n, x)
  BY <1>6, <1>7, <1>8, <1>9, <1>10
<1>12. \A m : ~Finishes("number_exp_sign", t, n, m) BY <1>6, <1>7, <1>10
<1> QED BY <1>2, <1>4, <1>6, <1>8, <1>9, <1>11, <1>12

\* What an exponent, or none, before the rest leads to.
LEMMA LeadsExpRest ==
  ASSUME NEW t \in Rest, Quick(0, t), NEW n \in Nat, NEW e, e = Cons("exp", ValueEnd(t))
  PROVE  /\ e \in Rest /\ Quick(3, e)
         /\ \A c, x : Leads(e, n, c, x) <=>
              \/ Reads("after_value", t, n + 1, c, x)
              \/ c = "e" /\ Awaits("number_exp_sign", t, n, x)
         /\ \A m : m \in Ends(D(e, n)) <=> Finishes("after_value", t, n + 1, m)
<1> DEFINE v == ValueEnd(t)
           d == Cons("digits", v)
<1>1. v \in Rest /\ e \in Rest BY Rests
<1>2. /\ Quick(2, v)
      /\ \A c, x : Leads(v, n, c, x) <=> Reads("after_value", t, n + 1, c, x)
      /\ \A m : m \in Ends(D(v, n)) <=> Finishes("after_value", t, n + 1, m)
  BY LeadsValueEnd
<1>3. /\ Expected("number_exp_sign", t) =
           {Cons(c, d) : c \in Digit} \cup {Cons(g, Cons(c, d)) : c \in Digit, g \in {"+", "-"}}
      /\ e = Cons("exp", v)
  BY ExpectedIs
<1> HIDE DEF v
<1>4. /\ Quick(2 + 1, e)
      /\ \A c, x : Leads(e, n, c, x) <=>
           \/ Leads(v, n, c, x)
           \/ c = "e" /\ \/ \E b \in Digit : x \in Final(D(Cons(b, d), n))
                         \/ \E g \in {"+", "-"}, b \in Digit : x \in Final(D(Cons(g, Cons(b, d)), n))
      /\ \A m : m \in Ends(D(e, n)) <=> m \in Ends(D(v, n))
  <2>1. 2 \in 0 .. 9 OBVIOUS
  <2> QED BY <1>1, <1>2, <1>3, <2>1, LeadsExp
<1> HIDE DEF d
<1>5. \A x : Awaits("number_exp_sign", t, n, x) <=>
        \/ \E b \in Digit : x \in Final(D(Cons(b, d), n))
        \/ \E g \in {"+", "-"}, b \in Digit : x \in Final(D(Cons(g, Cons(b, d)), n))
  BY <1>3 DEF Awaits
<1> QED BY <1>1, <1>2, <1>4, <1>5

\* In a fraction.
LEMMA ReadsFrac ==
  ASSUME NEW t \in Rest, Quick(0, t), NEW n \in Nat
  PROVE  /\ \A c, x : Reads("number_frac_first", t, n, c, x) <=>
              c \in Digit /\ Awaits("number_frac_digits", t, n, x)
         /\ \A m : ~Finishes("number_frac_first", t, n, m)
         /\ \A c, x : Reads("number_frac_digits", t, n, c, x) <=>
              \/ Reads("after_value", t, n + 1, c, x)
              \/ c = "e" /\ Awaits("number_exp_sign", t, n, x)
              \/ c \in Digit /\ Awaits("number_frac_digits", t, n, x)
         /\ \A m : Finishes("number_frac_digits", t, n, m) <=> Finishes("after_value", t, n + 1, m)
<1> DEFINE e == Cons("exp", ValueEnd(t))
           d == Cons("digits", e)
<1>1. /\ e \in Rest /\ Quick(3, e)
      /\ \A c, x : Leads(e, n, c, x) <=>
              \/ Reads("after_value", t, n + 1, c, x)
              \/ c = "e" /\ Awaits("number_exp_sign", t, n, x)
      /\ \A m : m \in Ends(D(e, n)) <=> Finishes("after_value", t, n + 1, m)
  BY LeadsExpRest
<1>2. /\ Expected("number_frac_first", t) = {Cons(c, d) : c \in Digit}
      /\ Expected("number_frac_digits", t) = {d}
  BY ExpectedIs
<1> HIDE DEF e
<1>3. d \in Rest BY <1>1, Rests, WrittenOut
<1>4. /\ \A c, x : Leads(d, n, c, x) <=>
           \/ Leads(e, n, c, x)
           \/ c \in Digit /\ x \in Final(D(d, n))
      /\ \A m : m \in Ends(D(d, n)) <=> m \in Ends(D(e, n))
  <2>1. 3 \in 0 .. 9 OBVIOUS
  <2> QED BY <1>1, <2>1, LeadsDigits
<1> HIDE DEF d
<1>5. Digit \in SUBSET Char BY Symbols
<1>6. /\ \A c, x : (\E b \in Digit : Leads(Cons(b, d), n, c, x)) <=> c \in Digit /\ x \in Final(D(d, n))
      /\ \A m : \A b \in Digit : m \notin Ends(D(Cons(b, d), n))
  BY <1>3, <1>5, LeadsSome
<1>7. /\ \A x : Awaits("number_frac_digits", t, n, x) <=> x \in Final(D(d, n))
      /\ \A c, x : Reads("number_frac_digits", t, n, c, x) <=> Leads(d, n, c, x)
      /\ \A m : Finishes("number_frac_digits", t, n, m) <=> m \in Ends(D(d, n))
  BY <1>2, OneRest
<1>8. /\ \A c, x : Reads("number_frac_first", t, n, c, x) <=> \E b \in Digit : Leads(Cons(b, d), n, c, x)
      /\ \A m : Finishes("number_frac_first", t, n, m) <=> \E b \in Digit : m \in Ends(D(Cons(b, d), n))
  BY <1>2 DEF Reads, Finishes
<1> QED BY <1>1, <1>4, <1>6, <1>7, <1>8

\* In an integer part.
LEMMA ReadsInt ==
  ASSUME NEW t \in Rest, Quick(0, t), NEW n \in Nat
  PROVE  /\ \A c, x : Reads("number_minus", t, n, c, x) <=>
              \/ c = "0" /\ Awaits("number_zero", t, n, x)
              \/ c = "1" /\ Awaits("number_one_nine", t, n, x)
         /\ \A m : ~Finishes("number_minus", t, n, m)
         /\ \A c, x : Reads("number_zero", t, n, c, x) <=>
              \/ Reads("after_value", t, n + 1, c, x)
              \/ c = "e" /\ Awaits("number_exp_sign", t, n, x)
              \/ c = "." /\ Awaits("number_frac_first", t, n, x)
         /\ \A m : Finishes("number_zero", t, n, m) <=> Finishes("after_value", t, n + 1, m)
         /\ \A c, x : Reads("number_one_nine", t, n, c, x) <=>
              \/ Reads("after_value", t, n + 1, c, x)
              \/ c = "e" /\ Awaits("number_exp_sign", t, n, x)
              \/ c = "." /\ Awaits("number_frac_first", t, n, x)
              \/ c \in Digit /\ Awaits("number_one_nine", t, n, x)
         /\ \A m : Finishes("number_one_nine", t, n, m) <=> Finishes("after_value", t, n + 1, m)
<1> DEFINE e == Cons("exp", ValueEnd(t))
           g == Cons("digits", e)
           f == FracRest(t)
           d == Cons("digits", f)
           i == Cons("int", f)
<1>1. /\ e \in Rest /\ Quick(3, e)
      /\ \A c, x : Leads(e, n, c, x) <=>
              \/ Reads("after_value", t, n + 1, c, x)
              \/ c = "e" /\ Awaits("number_exp_sign", t, n, x)
      /\ \A m : m \in Ends(D(e, n)) <=> Finishes("after_value", t, n + 1, m)
  BY LeadsExpRest
<1>2. /\ Expected("number_frac_first", t) = {Cons(c, g) : c \in Digit}
      /\ Expected("number_minus", t) = {i}
      /\ Expected("number_zero", t) = {f}
      /\ Expected("number_one_nine", t) = {d}
      /\ f = Cons("frac", e)
  BY ExpectedIs DEF FracRest
<1>3. f \in Rest BY Rests
<1> HIDE DEF e, f
<1>4. /\ Quick(3 + 1, f)
      /\ \A c, x : Leads(f, n, c, x) <=>
           \/ Leads(e, n, c, x)
           \/ c = "." /\ \E b \in Digit : x \in Final(D(Cons(b, g), n))
      /\ \A m : m \in Ends(D(f, n)) <=> m \in Ends(D(e, n))
  <2>1. 3 \in 0 .. 9 OBVIOUS
  <2> QED BY <1>1, <1>2, <2>1, LeadsFrac
<1> HIDE DEF g
<1>5. /\ \A c, x : Leads(d, n, c, x) <=>
           \/ Leads(f, n, c, x)
           \/ c \in Digit /\ x \in Final(D(d, n))
      /\ \A m : m \in Ends(D(d, n)) <=> m \in Ends(D(f, n))
  <2>1. 4 \in 0 .. 9 /\ 3 + 1 = 4 OBVIOUS
  <2> QED BY <1>3, <1>4, <2>1, LeadsDigits
<1>6. /\ \A c, x : Leads(i, n, c, x) <=>
           \/ c = "0" /\ x \in Final(D(f, n))
           \/ c = "1" /\ x \in Final(D(d, n))
      /\ \A m : m \notin Ends(D(i, n))
  <2>1. /\ \A c, y : y \in Lead(D(i, n), c) <=>
             \/ c = "0" /\ y = D(f, n)
             \/ c = "1" /\ y = D(d, n)
        /\ \A m : m \notin Ends(D(i, n))
    BY <1>3, LeadInt
  <2> HIDE DEF i, d
  <2> QED BY <2>1 DEF Leads
<1> HIDE DEF d, i
<1>7. \A x : Awaits("number_frac_first", t, n, x) <=> \E b \in Digit : x \in Final(D(Cons(b, g), n))
  BY <1>2 DEF Awaits
<1>8. /\ \A x : Awaits("number_zero", t, n, x) <=> x \in Final(D(f, n))
      /\ \A c, x : Reads("number_zero", t, n, c, x) <=> Leads(f, n, c, x)
      /\ \A m : Finishes("number_zero", t, n, m) <=> m \in Ends(D(f, n))
  BY <1>2, OneRest
<1>9. /\ \A x : Awaits("number_one_nine", t, n, x) <=> x \in Final(D(d, n))
      /\ \A c, x : Reads("number_one_nine", t, n, c, x) <=> Leads(d, n, c, x)
      /\ \A m : Finishes("number_one_nine", t, n, m) <=> m \in Ends(D(d, n))
  BY <1>2, OneRest
<1>10. /\ \A c, x : Reads("number_minus", t, n, c, x) <=> Leads(i, n, c, x)
       /\ \A m : Finishes("number_minus", t, n, m) <=> m \in Ends(D(i, n))
  BY <1>2, OneRest
<1>11. /\ \A c, x : Reads("number_minus", t, n, c, x) <=>
              \/ c = "0" /\ Awaits("number_zero", t, n, x)
              \/ c = "1" /\ Awaits("number_one_nine", t, n, x)
       /\ \A m : ~Finishes("number_minus", t, n, m)
  BY <1>6, <1>8, <1>9, <1>10
<1>12. /\ \A c, x : Reads("number_zero", t, n, c, x) <=>
              \/ Reads("after_value", t, n + 1, c, x)
              \/ c = "e" /\ Awaits("number_exp_sign", t, n, x)
              \/ c = "." /\ Awaits("number_frac_first", t, n, x)
       /\ \A m : Finishes("number_zero", t, n, m) <=> Finishes("after_value", t, n + 1, m)
  BY <1>1, <1>4, <1>7, <1>8
<1>13. /\ \A c, x : Reads("number_one_nine", t, n, c, x) <=>
              \/ Reads("after_value", t, n + 1, c, x)
              \/ c = "e" /\ Awaits("number_exp_sign", t, n, x)
              \/ c = "." /\ Awaits("number_frac_first", t, n, x)
              \/ c \in Digit /\ Awaits("number_one_nine", t, n, x)
       /\ \A m : Finishes("number_one_nine", t, n, m) <=> Finishes("after_value", t, n + 1, m)
  BY <1>1, <1>4, <1>5, <1>7, <1>9
<1> QED BY <1>11, <1>12, <1>13

------------------------------------------------------------------------------
(* Characters that are told apart *)

\* The ones that begin a value, close a container or separate values.
LEMMA MarksApart ==
  /\ OB # "[" /\ OB # DQ /\ OB # "0" /\ OB # "1" /\ OB # "-" /\ OB # "true"
  /\ OB # CB /\ OB # "]" /\ OB # CM /\ "[" # DQ /\ "[" # "0" /\ "[" # "1"
  /\ "[" # "-" /\ "[" # "true" /\ "[" # CB /\ "[" # "]" /\ "[" # CM /\ DQ # "0"
  /\ DQ # "1" /\ DQ # "-" /\ DQ # "true" /\ DQ # CB /\ DQ # "]" /\ DQ # CM
  /\ "0" # "1" /\ "0" # "-" /\ "0" # "true" /\ "0" # CB /\ "0" # "]" /\ "0" # CM
  /\ "1" # "-" /\ "1" # "true" /\ "1" # CB /\ "1" # "]" /\ "1" # CM /\ "-" # "true"
  /\ "-" # CB /\ "-" # "]" /\ "-" # CM /\ "true" # CB /\ "true" # "]" /\ "true" # CM
  /\ CB # "]" /\ CB # CM /\ "]" # CM
BY DEF OB, CB, CM, DQ

\* White space is apart from them.
LEMMA SpaceApart ==
  \A c \in Space : /\ c # OB /\ c # CB /\ c # "[" /\ c # "]" /\ c # CM /\ c # ":" /\ c # DQ
                   /\ c # "0" /\ c # "1" /\ c # "-" /\ c # "true" /\ c # NUL /\ c # "."
                   /\ c # "e" /\ c \notin Digit /\ c \notin DOMAIN Opens /\ c \notin DOMAIN ScalarState
BY DEF Space, Digit, Opens, ScalarState, OB, CB, CM, DQ, NL, NUL

\* The characters inside of numbers and strings.
LEMMA InnerApart ==
  /\ \A c \in Digit \cup {".", "e"} : c # CB /\ c # "]" /\ c # CM /\ c \notin Space
  /\ "." # "e" /\ "." \notin Digit /\ "e" \notin Digit /\ "+" \notin Digit /\ "-" \notin Digit
  /\ DQ \notin Plain /\ BS \notin Plain /\ DQ # BS
  /\ NUL \notin Plain \cup Escaped \cup Digit \cup Space
  /\ \A c \in {OB, CB, "[", "]", CM, ":", "-", "+", ".", "e", "true", DQ, BS} : c # NUL
<1>1. \A c \in Digit \cup {".", "e"} : c # CB /\ c # "]" /\ c # CM /\ c \notin Space
  BY DEF Digit, Space, CB, CM, NL
<1>2. "." # "e" /\ "." \notin Digit /\ "e" \notin Digit /\ "+" \notin Digit /\ "-" \notin Digit
  BY DEF Digit
<1>3. DQ \notin Plain /\ BS \notin Plain /\ DQ # BS BY DEF Plain, Digit, DQ, BS
<1>4. NUL \notin Plain \cup Escaped \cup Digit \cup Space
  BY DEF Plain, Escaped, Digit, Space, NUL, NL, DQ, BS
<1>5. \A c \in {OB, CB, "[", "]", CM, ":", "-", "+", ".", "e", "true", DQ, BS} : c # NUL
  BY DEF NUL, OB, CB, CM, DQ, BS
<1> QED BY <1>1, <1>2, <1>3, <1>4, <1>5

------------------------------------------------------------------------------
(* Containers *)

\* The containers.
Kinds == {"object", "array"}

\* What is left in a container is a rest with a character in front.
LEMMA AroundRests ==
  ASSUME NEW kind \in Kinds, NEW t \in Rest
  PROVE  /\ Closes[kind] \in {CB, "]"} /\ Closes[kind] \in Char
         /\ List[kind] \in {"members", "elements"} /\ AfterComma[kind] \in {"member", "array_element"}
         /\ ValueEnd(t) \in Rest /\ CloseRest(kind, t) \in Rest
         /\ Cons(List[kind], CloseRest(kind, t)) \in Rest
         /\ \A u \in Around(kind, t) : u \in Rest /\ Quick(0, u)
<1>1. Closes[kind] \in {CB, "]"} BY DEF Closes, Kinds, CB
<1>2. Closes[kind] \in Char /\ Closes[kind] \in Symbol BY <1>1, Chars, WrittenOut
<1>3. List[kind] \in {"members", "elements"} /\ AfterComma[kind] \in {"member", "array_element"}
  BY DEF List, AfterComma, Kinds
<1>4. ValueEnd(t) \in Rest BY Rests
<1>5. CloseRest(kind, t) \in Rest BY <1>2, <1>4, ConsParts DEF CloseRest
<1>6. Cons(List[kind], CloseRest(kind, t)) \in Rest
  <2>1. List[kind] \in Symbol BY <1>3, WrittenOut
  <2> QED BY <1>5, <2>1, ConsParts
<1>7. CM \in Char /\ CM \in Symbol BY Chars, WrittenOut
<1>8. CloseRest(kind, t) \in Rest /\ Quick(0, CloseRest(kind, t))
  BY <1>2, <1>4, <1>5, CharFinal DEF CloseRest
<1>9. /\ Cons(CM, Cons(List[kind], CloseRest(kind, t))) \in Rest
      /\ Quick(0, Cons(CM, Cons(List[kind], CloseRest(kind, t))))
  BY <1>6, <1>7, ConsParts, CharFinal
<1> QED BY <1>1, <1>2, <1>3, <1>4, <1>5, <1>6, <1>8, <1>9 DEF Around

\* A list of members or elements is one of them, and perhaps more after a comma.
LEMMA AwaitsList ==
  ASSUME NEW kind \in Kinds, NEW t \in Rest, NEW n \in Nat
  PROVE  /\ \A x : x \in Final(D(Cons(List[kind], CloseRest(kind, t)), n)) <=>
              \E u \in Around(kind, t) : Awaits(AfterComma[kind], u, n, x)
         /\ \A c, x : Leads(Cons(List[kind], CloseRest(kind, t)), n, c, x) <=>
              \E u \in Around(kind, t) : Reads(AfterComma[kind], u, n, c, x)
         /\ \A m : m \in Ends(D(Cons(List[kind], CloseRest(kind, t)), n)) <=>
              \E u \in Around(kind, t) : Finishes(AfterComma[kind], u, n, m)
<1> DEFINE c1 == CloseRest(kind, t)
           l == Cons(List[kind], c1)
           c2 == Cons(CM, l)
           Item(u) == IF kind = "object" THEN MemberRest(u) ELSE ValueRest(u)
<1>1. Around(kind, t) = {c1, c2} BY DEF Around
<1>2. c1 \in Rest BY AroundRests
<1> HIDE DEF c1
<1>3. \A x : x \in Final(D(l, n)) <=> x \in Final(D(Item(c1), n)) \/ x \in Final(D(Item(c2), n))
  <2>1. CASE kind = "object"
    <3>1. List[kind] = "members" BY <2>1 DEF List
    <3> QED BY <1>2, <2>1, <3>1, FinalMembers
  <2>2. CASE kind = "array"
    <3>1. List[kind] = "elements" BY <2>2 DEF List
    <3> QED BY <1>2, <2>2, <3>1, FinalElements
  <2> QED BY <2>1, <2>2 DEF Kinds
<1>4. \A u : Expected(AfterComma[kind], u) = {Item(u)}
  <2>1. CASE kind = "object"
    <3>1. AfterComma[kind] = "member" BY <2>1 DEF AfterComma
    <3> QED BY <2>1, <3>1, ExpectedIs
  <2>2. CASE kind = "array"
    <3>1. AfterComma[kind] = "array_element" BY <2>2 DEF AfterComma
    <3> QED BY <2>2, <3>1, ExpectedIs
  <2> QED BY <2>1, <2>2 DEF Kinds
<1> HIDE DEF l, c2, Item
<1>5. \A u : /\ \A x : Awaits(AfterComma[kind], u, n, x) <=> x \in Final(D(Item(u), n))
             /\ \A c, x : Reads(AfterComma[kind], u, n, c, x) <=> Leads(Item(u), n, c, x)
             /\ \A m : Finishes(AfterComma[kind], u, n, m) <=> m \in Ends(D(Item(u), n))
  BY <1>4, OneRest
<1>6. \A c, y : y \in Lead(D(l, n), c) <=>
        y \in Lead(D(Item(c1), n), c) \/ y \in Lead(D(Item(c2), n), c)
  BY <1>3, StepTogether DEF Lead
<1>7. \A c, x : Leads(l, n, c, x) <=> Leads(Item(c1), n, c, x) \/ Leads(Item(c2), n, c, x)
  BY <1>6 DEF Leads
<1>8. \A m : m \in Ends(D(l, n)) <=> m \in Ends(D(Item(c1), n)) \/ m \in Ends(D(Item(c2), n))
  BY <1>3 DEF Ends
<1> QED BY <1>1, <1>3, <1>5, <1>7, <1>8 DEF l, c1

\* White space in front of a value or a member changes nothing.
LEMMA ReadsSpace ==
  ASSUME NEW kind \in Kinds, NEW u \in Rest, Quick(0, u), NEW n \in Nat, NEW c \in Space, NEW x
  PROVE  Reads(AfterComma[kind], u, n, c, x) <=> Awaits(AfterComma[kind], u, n, x)
<1>1. CASE AfterComma[kind] = "member" BY <1>1, ReadsMember, SpaceApart
<1>2. CASE AfterComma[kind] = "array_element" BY <1>2, ReadsElement, SpaceApart
<1> QED BY <1>1, <1>2, AroundRests

\* At the beginning of a container.
LEMMA ReadsContainer ==
  ASSUME NEW kind \in Kinds, NEW t \in Rest, Quick(0, t), NEW n \in Nat
  PROVE  /\ \A c, x : Reads(kind, t, n, c, x) <=>
              \/ c \in Space /\ Awaits(kind, t, n, x)
              \/ c = Closes[kind] /\ Awaits("after_value", t, n + 1, x)
              \/ c \notin Space /\ \E u \in Around(kind, t) : Reads(AfterComma[kind], u, n, c, x)
         /\ \A m : ~Finishes(kind, t, n, m)
<1> DEFINE v == ValueEnd(t)
           c1 == CloseRest(kind, t)
           l == Cons(List[kind], c1)
           w == Cons("ws", c1)
<1>1. v \in Rest /\ c1 \in Rest /\ l \in Rest /\ Closes[kind] \in Char BY AroundRests
<1>2. c1 = Cons(Closes[kind], v) BY DEF CloseRest
<1>3. Expected(kind, t) = {w, l} BY ExpectedIs DEF Kinds
<1>4. \A x : x \in Final(D(v, n)) <=> Awaits("after_value", t, n + 1, x) BY LeadsValueEnd
<1>5. /\ \A x : x \in Final(D(l, n)) <=> \E u \in Around(kind, t) : Awaits(AfterComma[kind], u, n, x)
      /\ \A c, x : Leads(l, n, c, x) <=> \E u \in Around(kind, t) : Reads(AfterComma[kind], u, n, c, x)
      /\ \A m : m \in Ends(D(l, n)) <=> \E u \in Around(kind, t) : Finishes(AfterComma[kind], u, n, m)
  BY AwaitsList
<1> HIDE DEF v, c1, l
<1>6. /\ Quick(0, c1)
      /\ \A c, y : y \in Lead(D(c1, n), c) <=> c = Closes[kind] /\ y = D(v, n)
      /\ \A m : m \notin Ends(D(c1, n))
  BY <1>1, <1>2, CharFinal, CharLead
<1>7. /\ \A c, y : y \in Lead(D(w, n), c) <=>
           \/ y \in Lead(D(c1, n), c)
           \/ c \in Space /\ y = D(w, n)
      /\ \A m : m \in Ends(D(w, n)) <=> m \in Ends(D(c1, n))
  <2>1. 0 \in 0 .. 9 OBVIOUS
  <2> QED BY <1>1, <1>6, <2>1, LeadWs
<1> HIDE DEF w
<1>8. \A c, x : Leads(w, n, c, x) <=>
        \/ c = Closes[kind] /\ x \in Final(D(v, n))
        \/ c \in Space /\ x \in Final(D(w, n))
  BY <1>6, <1>7 DEF Leads
<1>9. /\ \A x : Awaits(kind, t, n, x) <=> x \in Final(D(w, n)) \/ x \in Final(D(l, n))
      /\ \A c, x : Reads(kind, t, n, c, x) <=> Leads(w, n, c, x) \/ Leads(l, n, c, x)
      /\ \A m : Finishes(kind, t, n, m) <=> m \in Ends(D(w, n)) \/ m \in Ends(D(l, n))
  BY <1>3 DEF Awaits, Reads, Finishes
<1>10. \A u \in Around(kind, t) : u \in Rest /\ Quick(0, u) BY AroundRests
<1>11. ASSUME NEW c, NEW x
       PROVE  Reads(kind, t, n, c, x) <=>
              \/ c \in Space /\ Awaits(kind, t, n, x)
              \/ c = Closes[kind] /\ Awaits("after_value", t, n + 1, x)
              \/ c \notin Space /\ \E u \in Around(kind, t) : Reads(AfterComma[kind], u, n, c, x)
  <2>1. CASE c \in Space
    <3>1. \A u \in Around(kind, t) :
            Reads(AfterComma[kind], u, n, c, x) <=> Awaits(AfterComma[kind], u, n, x)
      BY <1>10, <2>1, ReadsSpace
    <3>2. c # Closes[kind] BY <2>1, SpaceApart, AroundRests
    <3> QED BY <1>5, <1>8, <1>9, <2>1, <3>1, <3>2
  <2>2. CASE c \notin Space BY <1>4, <1>5, <1>8, <1>9, <2>2
  <2> QED BY <2>1, <2>2
<1>12. \A u \in Around(kind, t) : \A m : ~Finishes(AfterComma[kind], u, n, m)
  <2>1. AfterComma[kind] \in {"member", "array_element"} BY AroundRests
  <2> QED BY <1>10, <2>1, ReadsMember, ReadsElement
<1>13. \A m : ~Finishes(kind, t, n, m) BY <1>5, <1>6, <1>7, <1>9, <1>12
<1> QED BY <1>11, <1>13

\* After a value in a container.
LEMMA LeadsAround ==
  ASSUME NEW kind \in Kinds, NEW t \in Rest, Quick(0, t), NEW n \in Nat
  PROVE  /\ \A c, x : (\E u \in Around(kind, t) : Leads(u, n, c, x)) <=>
              \/ c = Closes[kind] /\ Awaits("after_value", t, n + 1, x)
              \/ c = CM /\ \E u \in Around(kind, t) : Awaits(AfterComma[kind], u, n, x)
         /\ \A m : \A u \in Around(kind, t) : m \notin Ends(D(u, n))
<1> DEFINE v == ValueEnd(t)
           c1 == CloseRest(kind, t)
           l == Cons(List[kind], c1)
           c2 == Cons(CM, l)
<1>1. v \in Rest /\ c1 \in Rest /\ l \in Rest /\ Closes[kind] \in Char /\ CM \in Char
  BY AroundRests, Chars
<1>2. c1 = Cons(Closes[kind], v) BY DEF CloseRest
<1>3. Around(kind, t) = {c1, c2} BY DEF Around
<1>4. \A x : x \in Final(D(v, n)) <=> Awaits("after_value", t, n + 1, x) BY LeadsValueEnd
<1>5. \A x : x \in Final(D(l, n)) <=> \E u \in Around(kind, t) : Awaits(AfterComma[kind], u, n, x)
  BY AwaitsList
<1> HIDE DEF v, c1, l
<1>6. /\ \A c, x : Leads(c1, n, c, x) <=> c = Closes[kind] /\ x \in Final(D(v, n))
      /\ \A m : m \notin Ends(D(c1, n))
  BY <1>1, <1>2, LeadsChar
<1>7. /\ \A c, x : Leads(c2, n, c, x) <=> c = CM /\ x \in Final(D(l, n))
      /\ \A m : m \notin Ends(D(c2, n))
  BY <1>1, LeadsChar
<1> HIDE DEF c2
<1>8. \A c, x : (\E u \in Around(kind, t) : Leads(u, n, c, x)) <=> Leads(c1, n, c, x) \/ Leads(c2, n, c, x)
  BY <1>3
<1>9. \A c, x : (\E u \in Around(kind, t) : Leads(u, n, c, x)) <=>
              \/ c = Closes[kind] /\ Awaits("after_value", t, n + 1, x)
              \/ c = CM /\ \E u \in Around(kind, t) : Awaits(AfterComma[kind], u, n, x)
  BY <1>4, <1>5, <1>6, <1>7, <1>8
<1> QED BY <1>3, <1>6, <1>7, <1>9

------------------------------------------------------------------------------
(* Transitions that only change the state *)

\* What is left after a value or container goes on with a bracket or a comma.
IsTail(t) ==
  /\ t \in Rest /\ Quick(0, t)
  /\ \A n \in Nat : \A c, x : Leads(t, n, c, x) => c \in {CB, "]", CM}

\* After a value nothing else can follow.
LEMMA TailReads ==
  ASSUME NEW t, IsTail(t), NEW n \in Nat, NEW c, NEW x
  PROVE  /\ c \in Digit \cup {".", "e"} => ~Reads("after_value", t, n, c, x)
         /\ c \in Space => (Reads("after_value", t, n, c, x) <=> Awaits("after_value", t, n, x))
         /\ Reads("after_value", t, n, c, x) => c \in Space \cup {CB, "]", CM}
<1>1. t \in Rest /\ Quick(0, t) /\ (Leads(t, n, c, x) => c \in {CB, "]", CM}) BY DEF IsTail
<1>2. Reads("after_value", t, n, c, x) <=>
        \/ Leads(t, n, c, x)
        \/ c \in Space /\ Awaits("after_value", t, n, x)
  BY <1>1, ReadsAfterValue
<1> QED BY <1>1, <1>2, InnerApart, SpaceApart

\* The moves of the parser, by the states they lead from and to.
LEMMA MoveParts ==
  ASSUME NEW m \in Moves
  PROVE  \/ /\ m[1] \in {"element", "object", "member", "colon", "array", "array_element", "after_value"}
            /\ m[2] = Space /\ m[3] = m[1]
         \/ m[1] = "colon" /\ m[2] = {":"} /\ m[3] = "element"
         \/ m[1] = "string_value" /\ m[2] = Plain /\ m[3] = "string_value"
         \/ m[1] = "string_value" /\ m[2] = {BS} /\ m[3] = "string_escape_value"
         \/ m[1] = "string_escape_value" /\ m[2] = Escaped /\ m[3] = "string_value"
         \/ m[1] = "string_key" /\ m[2] = Plain /\ m[3] = "string_key"
         \/ m[1] = "string_key" /\ m[2] = {BS} /\ m[3] = "string_escape_key"
         \/ m[1] = "string_escape_key" /\ m[2] = Escaped /\ m[3] = "string_key"
         \/ m[1] = "number_minus" /\ m[2] = {"0"} /\ m[3] = "number_zero"
         \/ m[1] = "number_minus" /\ m[2] = {"1"} /\ m[3] = "number_one_nine"
         \/ m[1] = "number_one_nine" /\ m[2] = Digit /\ m[3] = "number_one_nine"
         \/ m[1] = "number_zero" /\ m[2] = {"."} /\ m[3] = "number_frac_first"
         \/ m[1] = "number_one_nine" /\ m[2] = {"."} /\ m[3] = "number_frac_first"
         \/ m[1] = "number_frac_first" /\ m[2] = Digit /\ m[3] = "number_frac_digits"
         \/ m[1] = "number_frac_digits" /\ m[2] = Digit /\ m[3] = "number_frac_digits"
         \/ m[1] = "number_exp_sign" /\ m[2] = {"+", "-"} /\ m[3] = "number_exp_first"
         \/ m[1] = "number_exp_sign" /\ m[2] = Digit /\ m[3] = "number_exp_digits"
         \/ m[1] = "number_exp_first" /\ m[2] = Digit /\ m[3] = "number_exp_digits"
         \/ m[1] = "number_exp_digits" /\ m[2] = Digit /\ m[3] = "number_exp_digits"
         \/ /\ m[1] \in {"number_zero", "number_one_nine", "number_frac_digits"}
            /\ m[2] = {"e"} /\ m[3] = "number_exp_sign"
<1>1. CASE m \in SpaceMoves BY <1>1 DEF SpaceMoves
<1>2. CASE m = ColonMove BY <1>2 DEF ColonMove
<1>3. CASE m \in StringMoves BY <1>3 DEF StringMoves
<1>4. CASE m \in NumberMoves BY <1>4 DEF NumberMoves, NumberEnds
<1> QED BY <1>1, <1>2, <1>3, <1>4 DEF Moves

\* White space is skipped.
LEMMA SpaceReads ==
  ASSUME NEW s \in {"element", "object", "member", "colon", "array", "array_element", "after_value"},
         NEW c \in Space, NEW t, IsTail(t), NEW n \in Nat, NEW x
  PROVE  Reads(s, t, n, c, x) <=> Awaits(s, t, n, x)
<1>1. t \in Rest /\ Quick(0, t) BY DEF IsTail
<1>2. CASE s \in {"element", "array_element"} BY <1>1, <1>2, ReadsElement, SpaceApart
<1>3. CASE s \in Kinds
  <2>1. c # Closes[s] BY <1>1, <1>3, AroundRests, SpaceApart
  <2> QED BY <1>1, <1>3, <2>1, ReadsContainer
<1>4. CASE s = "member" BY <1>1, <1>4, ReadsMember, SpaceApart
<1>5. CASE s = "colon" BY <1>1, <1>5, ReadsColon, SpaceApart
<1>6. CASE s = "after_value" BY <1>6, TailReads
<1> QED BY <1>2, <1>3, <1>4, <1>5, <1>6 DEF Kinds

\* In a number.
LEMMA NumberReads ==
  ASSUME NEW t, IsTail(t), NEW n \in Nat, NEW c, NEW x
  PROVE  /\ Reads("number_minus", t, n, "0", x) <=> Awaits("number_zero", t, n, x)
         /\ Reads("number_minus", t, n, "1", x) <=> Awaits("number_one_nine", t, n, x)
         /\ Reads("number_zero", t, n, ".", x) <=> Awaits("number_frac_first", t, n, x)
         /\ Reads("number_one_nine", t, n, ".", x) <=> Awaits("number_frac_first", t, n, x)
         /\ \A s \in {"number_zero", "number_one_nine", "number_frac_digits"} :
              Reads(s, t, n, "e", x) <=> Awaits("number_exp_sign", t, n, x)
         /\ c \in {"+", "-"} => (Reads("number_exp_sign", t, n, c, x) <=> Awaits("number_exp_first", t, n, x))
         /\ c \in Digit =>
              /\ Reads("number_one_nine", t, n, c, x) <=> Awaits("number_one_nine", t, n, x)
              /\ Reads("number_frac_first", t, n, c, x) <=> Awaits("number_frac_digits", t, n, x)
              /\ Reads("number_frac_digits", t, n, c, x) <=> Awaits("number_frac_digits", t, n, x)
              /\ Reads("number_exp_sign", t, n, c, x) <=> Awaits("number_exp_digits", t, n, x)
              /\ Reads("number_exp_first", t, n, c, x) <=> Awaits("number_exp_digits", t, n, x)
              /\ Reads("number_exp_digits", t, n, c, x) <=> Awaits("number_exp_digits", t, n, x)
<1>1. t \in Rest /\ Quick(0, t) /\ n + 1 \in Nat BY DEF IsTail
<1>2. \A b : b \in Digit \cup {".", "e"} => ~Reads("after_value", t, n + 1, b, x)
  BY <1>1, TailReads
<1>3. /\ ~Reads("after_value", t, n + 1, ".", x) /\ ~Reads("after_value", t, n + 1, "e", x)
      /\ c \in Digit => ~Reads("after_value", t, n + 1, c, x)
  BY <1>2
<1>4. /\ Reads("number_minus", t, n, "0", x) <=> Awaits("number_zero", t, n, x)
      /\ Reads("number_minus", t, n, "1", x) <=> Awaits("number_one_nine", t, n, x)
      /\ Reads("number_zero", t, n, ".", x) <=> Awaits("number_frac_first", t, n, x)
      /\ Reads("number_zero", t, n, "e", x) <=> Awaits("number_exp_sign", t, n, x)
  BY <1>1, <1>3, ReadsInt, InnerApart
<1>5. /\ Reads("number_one_nine", t, n, ".", x) <=> Awaits("number_frac_first", t, n, x)
      /\ Reads("number_one_nine", t, n, "e", x) <=> Awaits("number_exp_sign", t, n, x)
      /\ c \in Digit => (Reads("number_one_nine", t, n, c, x) <=> Awaits("number_one_nine", t, n, x))
  BY <1>1, <1>3, ReadsInt, InnerApart
<1>6. /\ Reads("number_frac_digits", t, n, "e", x) <=> Awaits("number_exp_sign", t, n, x)
      /\ c \in Digit => (Reads("number_frac_first", t, n, c, x) <=> Awaits("number_frac_digits", t, n, x))
      /\ c \in Digit => (Reads("number_frac_digits", t, n, c, x) <=> Awaits("number_frac_digits", t, n, x))
  BY <1>1, <1>3, ReadsFrac, InnerApart
<1>7. /\ c \in {"+", "-"} => (Reads("number_exp_sign", t, n, c, x) <=> Awaits("number_exp_first", t, n, x))
      /\ c \in Digit => (Reads("number_exp_sign", t, n, c, x) <=> Awaits("number_exp_digits", t, n, x))
      /\ c \in Digit => (Reads("number_exp_first", t, n, c, x) <=> Awaits("number_exp_digits", t, n, x))
      /\ c \in Digit => (Reads("number_exp_digits", t, n, c, x) <=> Awaits("number_exp_digits", t, n, x))
  BY <1>1, <1>3, ReadsExp, InnerApart
<1> QED BY <1>4, <1>5, <1>6, <1>7

\* A move follows the grammar.
LEMMA MoveReads ==
  ASSUME NEW m \in Moves, NEW c \in m[2], NEW t, IsTail(t), NEW n \in Nat, NEW x
  PROVE  /\ m[1] \in States /\ m[3] \in States
         /\ Reads(m[1], t, n, c, x) <=> Awaits(m[3], t, n, x)
<1>1. t \in Rest /\ Quick(0, t) BY DEF IsTail
<1>2. CASE /\ m[1] \in {"element", "object", "member", "colon", "array", "array_element", "after_value"}
           /\ m[2] = Space /\ m[3] = m[1]
  BY <1>2, SpaceReads DEF States
<1>3. CASE m[1] = "colon" /\ m[2] = {":"} /\ m[3] = "element"
  <2>1. ":" \notin Space BY SpaceApart
  <2> QED BY <1>1, <1>3, <2>1, ReadsColon DEF States
<1>4. CASE /\ m[1] \in {"string_value", "string_escape_value", "string_key", "string_escape_key"}
           /\ \/ m[1] = "string_value" /\ m[2] = Plain /\ m[3] = "string_value"
              \/ m[1] = "string_value" /\ m[2] = {BS} /\ m[3] = "string_escape_value"
              \/ m[1] = "string_escape_value" /\ m[2] = Escaped /\ m[3] = "string_value"
              \/ m[1] = "string_key" /\ m[2] = Plain /\ m[3] = "string_key"
              \/ m[1] = "string_key" /\ m[2] = {BS} /\ m[3] = "string_escape_key"
              \/ m[1] = "string_escape_key" /\ m[2] = Escaped /\ m[3] = "string_key"
  <2>1. /\ c \in Plain => c # DQ /\ c # BS
        /\ BS # DQ /\ BS \notin Plain
    BY InnerApart
  <2>2. CASE m[1] \in {"string_value", "string_escape_value"}
    BY <1>1, <1>4, <2>1, <2>2, ReadsString DEF States
  <2>3. CASE m[1] \in {"string_key", "string_escape_key"}
    BY <1>1, <1>4, <2>1, <2>3, ReadsKey DEF States
  <2> QED BY <1>4, <2>2, <2>3
<1>5. CASE \/ m[1] = "number_minus" /\ m[2] = {"0"} /\ m[3] = "number_zero"
           \/ m[1] = "number_minus" /\ m[2] = {"1"} /\ m[3] = "number_one_nine"
           \/ m[1] = "number_one_nine" /\ m[2] = Digit /\ m[3] = "number_one_nine"
           \/ m[1] = "number_zero" /\ m[2] = {"."} /\ m[3] = "number_frac_first"
           \/ m[1] = "number_one_nine" /\ m[2] = {"."} /\ m[3] = "number_frac_first"
           \/ m[1] = "number_frac_first" /\ m[2] = Digit /\ m[3] = "number_frac_digits"
           \/ m[1] = "number_frac_digits" /\ m[2] = Digit /\ m[3] = "number_frac_digits"
           \/ m[1] = "number_exp_sign" /\ m[2] = {"+", "-"} /\ m[3] = "number_exp_first"
           \/ m[1] = "number_exp_sign" /\ m[2] = Digit /\ m[3] = "number_exp_digits"
           \/ m[1] = "number_exp_first" /\ m[2] = Digit /\ m[3] = "number_exp_digits"
           \/ m[1] = "number_exp_digits" /\ m[2] = Digit /\ m[3] = "number_exp_digits"
           \/ /\ m[1] \in {"number_zero", "number_one_nine", "number_frac_digits"}
              /\ m[2] = {"e"} /\ m[3] = "number_exp_sign"
  <2>1. m[1] \in States /\ m[3] \in States BY <1>5 DEF States
  <2>2. Reads(m[1], t, n, c, x) <=> Awaits(m[3], t, n, x) BY <1>5, NumberReads
  <2> QED BY <2>1, <2>2
<1> QED BY <1>2, <1>3, <1>4, <1>5, MoveParts

\* The other characters that are read: the beginnings and ends of scalars.
LEMMA ScalarReads ==
  ASSUME NEW t, IsTail(t), NEW n \in Nat, NEW x
  PROVE  /\ \A c \in DOMAIN ScalarState :
              /\ ScalarState[c] \in States
              /\ Reads("element", t, n, c, x) <=> Awaits(ScalarState[c], t, n, x)
         /\ Reads("element", t, n, "true", x) <=> Awaits("after_value", t, n + 1, x)
         /\ Reads("element", t, n, OB, x) <=> Awaits("object", t, n, x)
         /\ Reads("element", t, n, "[", x) <=> Awaits("array", t, n, x)
         /\ Reads("member", t, n, DQ, x) <=> Awaits("string_key", t, n, x)
         /\ Reads("string_key", t, n, DQ, x) <=> Awaits("colon", t, n, x)
         /\ Reads("string_value", t, n, DQ, x) <=> Awaits("after_value", t, n + 1, x)
<1>1. t \in Rest /\ Quick(0, t) BY DEF IsTail
<1>2. OB \notin Space /\ "[" \notin Space /\ DQ \notin Space /\ "0" \notin Space
      /\ "1" \notin Space /\ "-" \notin Space /\ "true" \notin Space
  BY SpaceApart
<1>3. \A c : Reads("element", t, n, c, x) <=>
              \/ c \in Space /\ Awaits("element", t, n, x)
              \/ c = OB /\ Awaits("object", t, n, x)
              \/ c = "[" /\ Awaits("array", t, n, x)
              \/ c = DQ /\ Awaits("string_value", t, n, x)
              \/ c = "0" /\ Awaits("number_zero", t, n, x)
              \/ c = "1" /\ Awaits("number_one_nine", t, n, x)
              \/ c = "-" /\ Awaits("number_minus", t, n, x)
              \/ c = "true" /\ Awaits("after_value", t, n + 1, x)
  BY <1>1, ReadsElement
<1>4. /\ Reads("element", t, n, "true", x) <=> Awaits("after_value", t, n + 1, x)
      /\ Reads("element", t, n, OB, x) <=> Awaits("object", t, n, x)
      /\ Reads("element", t, n, "[", x) <=> Awaits("array", t, n, x)
      /\ Reads("element", t, n, DQ, x) <=> Awaits("string_value", t, n, x)
      /\ Reads("element", t, n, "0", x) <=> Awaits("number_zero", t, n, x)
      /\ Reads("element", t, n, "1", x) <=> Awaits("number_one_nine", t, n, x)
      /\ Reads("element", t, n, "-", x) <=> Awaits("number_minus", t, n, x)
  BY <1>2, <1>3, MarksApart
<1>5. /\ DOMAIN ScalarState = {DQ, "-", "0", "1"}
      /\ ScalarState[DQ] = "string_value" /\ ScalarState["-"] = "number_minus"
      /\ ScalarState["0"] = "number_zero" /\ ScalarState["1"] = "number_one_nine"
  BY MarksApart DEF ScalarState
<1>6. /\ Reads("member", t, n, DQ, x) <=> Awaits("string_key", t, n, x)
      /\ Reads("string_key", t, n, DQ, x) <=> Awaits("colon", t, n, x)
      /\ Reads("string_value", t, n, DQ, x) <=> Awaits("after_value", t, n + 1, x)
  BY <1>1, <1>2, ReadsMember, ReadsKey, ReadsString, InnerApart
<1> QED BY <1>4, <1>5, <1>6 DEF States

------------------------------------------------------------------------------
(* The containers around the parser *)

\* The brackets that close the l outermost containers of the stack st.
BracketsAt(st, l) == [i \in 1 .. l |-> Closes[st[l - i]]]

\* T[l] is what can be left after the container at nesting l, of d of them: nothing
\* after the outermost value, then the end of the container, or a comma and more.
Tails(T, d, st) ==
  /\ T \in [0 .. MaxDepth -> SUBSET Rest]
  /\ T[0] = {<<>>}
  /\ \A l \in 0 .. d - 1 :
       /\ st[l] \in Kinds
       /\ \A u : u \in T[l + 1] <=> \E t \in T[l] : u \in Around(st[l], t)
  /\ \A l \in 0 .. d :
       T[l] # {} /\ \A t \in T[l] : IsTail(t) /\ Closing(t, BracketsAt(st, l))

\* A container is closed by a bracket.
LEMMA ClosesIs == \A kind \in Kinds : Closes[kind] \in {CB, "]"}
BY DEF Closes, Kinds, CB

\* One more container around a tail.
LEMMA AroundTail ==
  ASSUME NEW kind \in Kinds, NEW t, IsTail(t), NEW brackets, Closing(t, brackets),
         NEW u \in Around(kind, t)
  PROVE  IsTail(u) /\ Closing(u, <<Closes[kind]>> \o brackets)
<1>1. t \in Rest /\ Quick(0, t) BY DEF IsTail
<1>2. u \in Rest /\ Quick(0, u) BY <1>1, AroundRests
<1>3. Closes[kind] \in {CB, "]"} BY <1>1, AroundRests
<1>4. ASSUME NEW n \in Nat, NEW c, NEW x, Leads(u, n, c, x) PROVE c \in {CB, "]", CM}
  <2>1. c = Closes[kind] \/ c = CM BY <1>1, <1>4, LeadsAround
  <2> QED BY <1>3, <2>1
<1>5. ValueEnd(t) \in Rest /\ Closing(ValueEnd(t), brackets) /\ ~InText(ValueEnd(t))
  <2>1. Cons("ws", t) \in Rest /\ Closing(Cons("ws", t), brackets)
    BY <1>1, QuietOnes, ClosingCons
  <2>2. "node" \in Symbol BY WrittenOut
  <2> QED BY <2>1, <2>2, QuietOnes, ClosingCons, TextCons DEF ValueEnd
<1>6. CloseRest(kind, t) \in Rest /\ Closing(CloseRest(kind, t), <<Closes[kind]>> \o brackets)
  <2>1. Closes[kind] \in Symbol \ Quiet BY <1>3, QuietOnes
  <2>2. Closing(Cons(Closes[kind], ValueEnd(t)), <<Closes[kind]>> \o brackets)
    BY <1>5, <2>1, ClosingCons
  <2> QED BY <1>1, <2>2, AroundRests DEF CloseRest
<1>7. Closing(Cons(CM, Cons(List[kind], CloseRest(kind, t))), <<Closes[kind]>> \o brackets)
  <2> DEFINE r == Cons(List[kind], CloseRest(kind, t))
             b == <<Closes[kind]>> \o brackets
  <2>1. List[kind] \in Quiet BY <1>1, AroundRests, QuietOnes
  <2>2. r \in Rest BY <1>1, AroundRests
  <2>3. Closing(r, b) BY <1>6, <2>1, ClosingCons
  <2> HIDE DEF r, b
  <2>4. Closing(Cons(CM, r), b) BY <2>2, <2>3, QuietOnes, ClosingCons
  <2> QED BY <2>4 DEF r, b
<1> QED BY <1>2, <1>4, <1>6, <1>7 DEF IsTail, Around

\* The innermost bracket is in front.
LEMMA BracketsNext ==
  ASSUME NEW st, NEW l \in Nat, \A j \in 0 .. l : st[j] \in Kinds
  PROVE  BracketsAt(st, l + 1) = <<Closes[st[l]]>> \o BracketsAt(st, l)
<1> DEFINE B == {CB, "]"}
           a == Closes[st[l]]
           r == BracketsAt(st, l)
           q == BracketsAt(st, l + 1)
<1>1. \A j \in 0 .. l : Closes[st[j]] \in B BY ClosesIs
<1>2. r \in Seq(B) /\ Len(r) = l /\ \A i \in 1 .. l : r[i] = Closes[st[l - i]]
  <2>1. \A i \in 1 .. l : l - i \in 0 .. l OBVIOUS
  <2> QED BY <1>1, <2>1 DEF BracketsAt
<1>3. q \in Seq(B) /\ Len(q) = l + 1 /\ \A i \in 1 .. l + 1 : q[i] = Closes[st[l + 1 - i]]
  <2>1. \A i \in 1 .. l + 1 : l + 1 - i \in 0 .. l OBVIOUS
  <2> HIDE DEF B
  <2> QED BY <1>1, <2>1 DEF BracketsAt
<1>4. a \in B BY <1>1
<1> HIDE DEF B, a, r, q
<1>5. <<a>> \in Seq(B) /\ Len(<<a>>) = 1 /\ <<a>>[1] = a BY <1>4
<1>6. /\ <<a>> \o r \in Seq(B) /\ Len(<<a>> \o r) = 1 + l
      /\ \A i \in 1 .. 1 + l : (<<a>> \o r)[i] = IF i <= 1 THEN <<a>>[i] ELSE r[i - 1]
  BY <1>2, <1>5, ConcatProperties
<1>7. ASSUME NEW i \in 1 .. l + 1 PROVE q[i] = (<<a>> \o r)[i]
  <2>1. CASE i = 1 BY <1>3, <1>5, <1>6, <2>1 DEF a
  <2>2. CASE i # 1
    <3>1. i - 1 \in 1 .. l /\ l - (i - 1) = l + 1 - i /\ ~(i <= 1) /\ i \in 1 .. 1 + l BY <2>2
    <3>2. q[i] = Closes[st[l + 1 - i]] BY <1>3
    <3>3. r[i - 1] = Closes[st[l - (i - 1)]] BY <1>2, <3>1
    <3>4. (<<a>> \o r)[i] = r[i - 1] BY <1>6, <3>1
    <3> QED BY <3>1, <3>2, <3>3, <3>4
  <2> QED BY <2>1, <2>2
<1>8. q = <<a>> \o r
  <2> DEFINE p == <<a>> \o r
  <2>1. p \in Seq(B) /\ Len(p) = l + 1 /\ \A i \in 1 .. l + 1 : q[i] = p[i] BY <1>6, <1>7
  <2> HIDE DEF p
  <2>2. q = p BY <1>3, <2>1, SeqEqual
  <2> QED BY <2>2 DEF p
<1> QED BY <1>8 DEF q, a, r

\* Nothing is left after the outermost value.
LEMMA TailsBegin ==
  ASSUME NEW st
  PROVE  Tails([l \in 0 .. MaxDepth |-> {<<>>}], 0, st)
<1> DEFINE T == [l \in 0 .. MaxDepth |-> {<<>>}]
<1>1. <<>> \in Rest /\ Closing(<<>>, <<>>) BY ClosingNothing
<1>2. Quick(0, <<>>) BY <1>1, CharFinal, Chars
<1>3. \A n \in Nat : \A c, x : ~Leads(<<>>, n, c, x) BY <1>1, LeadsChar, Chars
<1>4. IsTail(<<>>) BY <1>1, <1>2, <1>3 DEF IsTail
<1>5. BracketsAt(st, 0) = <<>> BY DEF BracketsAt
<1>6. T \in [0 .. MaxDepth -> SUBSET Rest] /\ T[0] = {<<>>} BY <1>1, MaxDepthAssumption
<1>7. \A l \in 0 .. 0 - 1 : FALSE OBVIOUS
<1>8. \A l \in 0 .. 0 : l = 0 OBVIOUS
<1> HIDE DEF T
<1> QED BY <1>1, <1>4, <1>5, <1>6, <1>7, <1>8 DEF Tails, T

\* One container more.
LEMMA TailsPush ==
  ASSUME NEW k \in 0 .. MaxDepth - 1, NEW kind \in Kinds, NEW st, DOMAIN st = Level,
         NEW T, Tails(T, k, st), NEW sp, sp = [st EXCEPT ![k] = kind]
  PROVE  \E U : /\ Tails(U, k + 1, sp)
                /\ \A l \in 0 .. k : U[l] = T[l]
                /\ \A u : u \in U[k + 1] <=> \E t \in T[k] : u \in Around(kind, t)
<1> DEFINE Top == UNION {Around(kind, t) : t \in T[k]}
           U == [T EXCEPT ![k + 1] = Top]
<1>1. /\ T \in [0 .. MaxDepth -> SUBSET Rest] /\ T[0] = {<<>>}
      /\ \A l \in 0 .. k - 1 :
           /\ st[l] \in Kinds
           /\ \A u : u \in T[l + 1] <=> \E t \in T[l] : u \in Around(st[l], t)
      /\ \A l \in 0 .. k : T[l] # {} /\ \A t \in T[l] : IsTail(t) /\ Closing(t, BracketsAt(st, l))
  BY DEF Tails
<1>2. k \in Nat /\ k \in 0 .. k /\ k + 1 \in 0 .. MaxDepth /\ k \in Level
  BY MaxDepthAssumption DEF Level
<1>3. sp[k] = kind /\ \A l \in 0 .. k - 1 : sp[l] = st[l]
  <2>1. \A l \in 0 .. k - 1 : l \in Level /\ l # k BY <1>2, MaxDepthAssumption DEF Level
  <2> QED BY <1>2, <2>1
<1>4. \A l \in 0 .. k : BracketsAt(sp, l) = BracketsAt(st, l)
  <2> SUFFICES ASSUME NEW l \in 0 .. k PROVE BracketsAt(sp, l) = BracketsAt(st, l) OBVIOUS
  <2>1. \A i \in 1 .. l : l - i \in 0 .. k - 1 BY <1>2
  <2>2. \A i \in 1 .. l : Closes[sp[l - i]] = Closes[st[l - i]] BY <1>3, <2>1
  <2> QED BY <2>2 DEF BracketsAt
<1>5. BracketsAt(sp, k + 1) = <<Closes[kind]>> \o BracketsAt(st, k)
  <2>1. \A j \in 0 .. k : sp[j] \in Kinds
    <3>1. \A j \in 0 .. k : j = k \/ j \in 0 .. k - 1 BY <1>2
    <3> QED BY <1>1, <1>3, <3>1
  <2>2. BracketsAt(sp, k + 1) = <<Closes[sp[k]]>> \o BracketsAt(sp, k) BY <1>2, <2>1, BracketsNext
  <2> QED BY <1>2, <1>3, <1>4, <2>2
<1>6. U[k + 1] = Top /\ \A l \in 0 .. k : U[l] = T[l]
  <2>1. \A l \in 0 .. k : l \in 0 .. MaxDepth /\ l # k + 1 BY <1>2, MaxDepthAssumption
  <2> QED BY <1>1, <1>2, <2>1
<1>7. \A u \in Top : \E t \in T[k] : u \in Around(kind, t) OBVIOUS
<1>8. \A u \in Top : u \in Rest /\ IsTail(u) /\ Closing(u, <<Closes[kind]>> \o BracketsAt(st, k))
  <2> TAKE u \in Top
  <2>1. PICK t \in T[k] : u \in Around(kind, t) BY <1>7
  <2>2. IsTail(t) /\ Closing(t, BracketsAt(st, k)) BY <1>1, <1>2, <2>1
  <2> QED BY <2>1, <2>2, AroundTail DEF IsTail
<1>9. Top # {}
  <2>1. PICK t : t \in T[k] BY <1>1, <1>2
  <2>2. CloseRest(kind, t) \in Around(kind, t) BY DEF Around
  <2> QED BY <2>1, <2>2
<1>10. Top \in SUBSET Rest BY <1>8
<1>11. \A u : u \in Top <=> \E t \in T[k] : u \in Around(kind, t) OBVIOUS
<1> HIDE DEF Top
<1>12. U \in [0 .. MaxDepth -> SUBSET Rest] BY <1>1, <1>10
<1> HIDE DEF U
<1>13. U[0] = {<<>>}
  <2>1. 0 \in 0 .. k BY <1>2
  <2> QED BY <1>1, <1>6, <2>1
<1>14. ASSUME NEW l \in 0 .. k
       PROVE  /\ sp[l] \in Kinds
              /\ \A u : u \in U[l + 1] <=> \E t \in U[l] : u \in Around(sp[l], t)
  <2>1. CASE l = k BY <1>3, <1>6, <1>11, <2>1
  <2>2. CASE l # k
    <3>1. l \in 0 .. k - 1 /\ l + 1 \in 0 .. k BY <1>2, <2>2
    <3> QED BY <1>1, <1>3, <1>6, <3>1
  <2> QED BY <2>1, <2>2
<1>15. ASSUME NEW l \in 0 .. k + 1
       PROVE  U[l] # {} /\ \A t \in U[l] : IsTail(t) /\ Closing(t, BracketsAt(sp, l))
  <2>1. CASE l = k + 1
    <3>1. BracketsAt(sp, l) = <<Closes[kind]>> \o BracketsAt(st, k) BY <1>5, <2>1
    <3> QED BY <1>6, <1>8, <1>9, <2>1, <3>1
  <2>2. CASE l # k + 1
    <3>1. l \in 0 .. k BY <1>2, <2>2
    <3> QED BY <1>1, <1>4, <1>6, <3>1
  <2> QED BY <2>1, <2>2
<1>16. \A l \in 0 .. (k + 1) - 1 :
         /\ sp[l] \in Kinds
         /\ \A u : u \in U[l + 1] <=> \E t \in U[l] : u \in Around(sp[l], t)
  <2>1. \A l \in 0 .. (k + 1) - 1 : l \in 0 .. k BY <1>2
  <2> QED BY <1>14, <2>1
<1>17. Tails(U, k + 1, sp)
  <2>1. \A l \in 0 .. k + 1 :
          U[l] # {} /\ \A t \in U[l] : IsTail(t) /\ Closing(t, BracketsAt(sp, l))
    BY <1>15
  <2> QED BY <1>12, <1>13, <1>16, <2>1 DEF Tails
<1> QED BY <1>6, <1>11, <1>17

\* One container less, or the same ones.
LEMMA TailsPop ==
  ASSUME NEW d \in Nat, NEW e \in 0 .. d, NEW st, NEW T, Tails(T, d, st)
  PROVE  Tails(T, e, st)
<1>1. (\A l \in 0 .. e - 1 : l \in 0 .. d - 1) /\ \A l \in 0 .. e : l \in 0 .. d OBVIOUS
<1> QED BY <1>1 DEF Tails

------------------------------------------------------------------------------
(* Some derivation goes on in every state *)

\* Every symbol has an alternative.
LEMMA AlternativesSome ==
  ASSUME NEW x \in Nonterminal, NEW r \in Rest
  PROVE  \E s : s \in Alternatives(x, r)
<1>1. CASE x = "json" BY <1>1, RuleJson
<1>2. CASE x = "element" BY <1>2, RuleElement
<1>3. CASE x = "ws" BY <1>3, RuleWs
<1>4. CASE x = "value" BY <1>4, RuleValue
<1>5. CASE x = "members" BY <1>5, RuleMembers
<1>6. CASE x = "member" BY <1>6, RuleMember
<1>7. CASE x = "elements" BY <1>7, RuleElements
<1>8. CASE x = "string" BY <1>8, RuleString
<1>9. CASE x = "characters" BY <1>9, RuleCharacters
<1>10. CASE x = "number" BY <1>10, RuleNumber
<1>11. CASE x = "int" BY <1>11, RuleInt
<1>12. CASE x = "digits" BY <1>12, RuleDigits
<1>13. CASE x = "frac" BY <1>13, RuleFrac
<1>14. CASE x = "exp" BY <1>14, RuleExp
<1> QED BY <1>1, <1>2, <1>3, <1>4, <1>5, <1>6, <1>7, <1>8, <1>9, <1>10, <1>11, <1>12,
           <1>13, <1>14 DEF Nonterminal

\* A derivation always expands to some.
LEMMA ExpandSome ==
  ASSUME NEW r \in Rest, NEW n \in Nat
  PROVE  \E e : e \in Expand(D(r, n))
<1>1. CASE Settled(D(r, n)) BY <1>1 DEF Expand
<1>2. CASE ~Settled(D(r, n))
  <2>1. r # <<>> BY <1>2 DEF Settled, D
  <2>2. PICK x \in Symbol, q \in Rest : r = Cons(x, q) BY <2>1, FirstSymbol
  <2>3. x \notin Char BY <1>2, <2>2, SettledRests
  <2>4. CASE x = "node" BY <2>2, <2>4, ExpandNode
  <2>5. CASE x \in Nonterminal
    <3>1. PICK s : s \in Alternatives(x, q) BY <2>5, AlternativesSome
    <3>2. D(s, n) \in Expand(D(r, n)) BY <2>2, <2>5, <3>1, ExpandNonterminal
    <3> QED BY <3>2
  <2> QED BY <2>3, <2>4, <2>5 DEF Symbol
<1> QED BY <1>1, <1>2

\* A derivation settles to some.
LEMMA FinalSome ==
  ASSUME NEW d, NEW brackets, Kept(d, brackets)
  PROVE  \E x : x \in Final(d)
<1> DEFINE S == {i \in 0 .. 10 : \E e \in Of(d)[i] : Kept(e, brackets)}
<1>1. 0 \in S
  <2>1. Of(d)[0] = {d} BY RoundsOf
  <2> QED BY <2>1
<1>2. ASSUME NEW i \in 0 .. 10 - 1, i \in S PROVE i + 1 \in S
  <2>1. i \in 0 .. 9 /\ i + 1 \in 0 .. 10 OBVIOUS
  <2>2. Of(d)[i + 1] = Expanded(Of(d)[i]) BY <2>1, RoundsOf
  <2>3. PICK e \in Of(d)[i] : Kept(e, brackets) BY <1>2
  <2>4. PICK r \in Rest, n \in Nat : e = D(r, n) BY <2>3 DEF Kept
  <2>5. PICK y : y \in Expand(e) BY <2>4, ExpandSome
  <2>6. Kept(y, brackets) BY <2>3, <2>5, ExpandKeeps
  <2>7. y \in Of(d)[i + 1] BY <2>2, <2>3, <2>5 DEF Expanded
  <2> QED BY <2>1, <2>6, <2>7
<1>3. 0 .. 10 \subseteq S
  <2> HIDE DEF S
  <2> QED BY <1>1, <1>2, CountUp
<1>4. Final(d) = Of(d)[10] BY RoundsOf DEF Final
<1> QED BY <1>3, <1>4

\* The brackets to close in a state, from those after the current value or container.
InState(s, brackets) == IF s \in Kinds THEN <<Closes[s]>> \o brackets ELSE brackets

\* What is expected closes them.
LEMMA ExpectedClosing ==
  ASSUME NEW s \in States, NEW t, IsTail(t), NEW brackets, Closing(t, brackets)
  PROVE  /\ \E r : r \in Expected(s, t)
         /\ \A r \in Expected(s, t) : r \in Rest /\ Closing(r, InState(s, brackets))
<1> DEFINE Q(r) == r \in Rest /\ Closing(r, brackets)
<1>1. t \in Rest BY DEF IsTail
<1>2. ASSUME NEW x \in Quiet, NEW r, Q(r) PROVE Q(Cons(x, r)) BY <1>2, ClosingCons
<1>3. Q(t) BY <1>1
<1> HIDE DEF Q
<1>4. Q(ValueEnd(t)) BY <1>2, <1>3, QuietOnes DEF ValueEnd
<1>5. Q(FracRest(t)) /\ Q(Cons("exp", ValueEnd(t))) BY <1>2, <1>4, QuietOnes DEF FracRest
<1>6. Q(KeyEnd(t)) BY <1>2, <1>3, QuietOnes DEF KeyEnd
<1>7. Q(ValueRest(t)) BY <1>2, <1>3, QuietOnes DEF ValueRest
<1>8. Q(MemberRest(t)) BY <1>2, <1>6, QuietOnes DEF MemberRest
<1>9. Q(Cons("characters", Cons(DQ, ValueEnd(t)))) /\ Q(Cons("characters", Cons(DQ, KeyEnd(t))))
  BY <1>2, <1>4, <1>6, QuietOnes
<1>10. /\ \A c \in Escaped : c \in Quiet
       /\ \A c \in Digit : c \in Quiet
       /\ \A c \in {"+", "-"} : c \in Quiet
       /\ "digits" \in Quiet /\ "int" \in Quiet /\ "ws" \in Quiet
  BY QuietOnes
<1>11. /\ \A c \in Escaped : /\ Q(Cons(c, Cons("characters", Cons(DQ, ValueEnd(t)))))
                             /\ Q(Cons(c, Cons("characters", Cons(DQ, KeyEnd(t)))))
  BY <1>2, <1>9, <1>10
<1>12. Q(Cons("digits", FracRest(t))) /\ Q(Cons("int", FracRest(t))) /\ Q(Cons("ws", t))
  BY <1>2, <1>3, <1>5, <1>10
<1>13. Q(Cons("digits", Cons("exp", ValueEnd(t)))) /\ Q(Cons("digits", ValueEnd(t)))
  BY <1>2, <1>4, <1>5, <1>10
<1>14. \A c \in Digit : /\ Q(Cons(c, Cons("digits", Cons("exp", ValueEnd(t)))))
                        /\ Q(Cons(c, Cons("digits", ValueEnd(t))))
  BY <1>2, <1>10, <1>13
<1>15. \A c \in Digit, g \in {"+", "-"} : Q(Cons(g, Cons(c, Cons("digits", ValueEnd(t)))))
  BY <1>2, <1>10, <1>14
<1>16. CASE s \in Kinds
  <2> DEFINE b == <<Closes[s]>> \o brackets
             c1 == CloseRest(s, t)
  <2>1. c1 \in Rest /\ Closing(c1, b)
    <3>1. CloseRest(s, t) \in Around(s, t) BY DEF Around
    <3>2. Closes[s] \in Symbol \ Quiet BY <1>16, ClosesIs, QuietOnes
    <3>3. ~InText(ValueEnd(t))
      <4>1. "node" \in Symbol /\ Cons("ws", t) \in Rest BY <1>1, WrittenOut, Rests
      <4> QED BY <4>1, TextCons DEF ValueEnd
    <3>4. ValueEnd(t) \in Rest /\ Closing(ValueEnd(t), brackets) BY <1>4 DEF Q
    <3>5. Closing(Cons(Closes[s], ValueEnd(t)), b) BY <3>2, <3>3, <3>4, ClosingCons
    <3> QED BY <1>1, <1>16, <3>5, AroundRests DEF CloseRest
  <2>2. "ws" \in Quiet /\ List[s] \in Quiet BY <1>1, <1>16, AroundRests, QuietOnes
  <2> HIDE DEF b, c1
  <2>3. /\ Cons("ws", c1) \in Rest /\ Closing(Cons("ws", c1), b)
        /\ Cons(List[s], c1) \in Rest /\ Closing(Cons(List[s], c1), b)
    BY <2>1, <2>2, ClosingCons
  <2>4. Expected(s, t) = {Cons("ws", c1), Cons(List[s], c1)} BY <1>16, ExpectedIs DEF Kinds, c1
  <2> QED BY <1>16, <2>3, <2>4 DEF InState, b
<1>17. CASE s \notin Kinds
  <2>1. (\E r : r \in Expected(s, t)) /\ \A r \in Expected(s, t) : Q(r)
    <3>1. CASE s \in {"element", "array_element"}
      <4>1. Expected(s, t) = {ValueRest(t)} BY <3>1, ExpectedIs
      <4> QED BY <4>1, <1>7
    <3>2. CASE s \in {"member", "colon", "after_value"}
      <4>1. Expected(s, t) \in {{MemberRest(t)}, {KeyEnd(t)}, {Cons("ws", t)}} BY <3>2, ExpectedIs
      <4> QED BY <4>1, <1>6, <1>8, <1>12
    <3>3. CASE s \in {"string_key", "string_value"}
      <4>1. Expected(s, t) \in {{Cons("characters", Cons(DQ, ValueEnd(t)))},
                                {Cons("characters", Cons(DQ, KeyEnd(t)))}}
        BY <3>3, ExpectedIs
      <4> QED BY <4>1, <1>9
    <3>4. CASE s \in {"string_escape_key", "string_escape_value"}
      <4>1. Expected(s, t) \in {{Cons(c, Cons("characters", Cons(DQ, ValueEnd(t)))) : c \in Escaped},
                                {Cons(c, Cons("characters", Cons(DQ, KeyEnd(t)))) : c \in Escaped}}
        BY <3>4, ExpectedIs
      <4>2. DQ \in Escaped BY DEF Escaped
      <4> QED BY <4>1, <4>2, <1>11
    <3>5. CASE s \in {"number_minus", "number_zero", "number_one_nine"}
      <4>1. Expected(s, t) \in {{Cons("int", FracRest(t))}, {FracRest(t)}, {Cons("digits", FracRest(t))}}
        BY <3>5, ExpectedIs
      <4> QED BY <4>1, <1>5, <1>12
    <3>6. CASE s \in {"number_frac_first", "number_exp_first"}
      <4>1. Expected(s, t) \in {{Cons(c, Cons("digits", Cons("exp", ValueEnd(t)))) : c \in Digit},
                                {Cons(c, Cons("digits", ValueEnd(t))) : c \in Digit}}
        BY <3>6, ExpectedIs
      <4>2. "0" \in Digit BY DEF Digit
      <4> QED BY <4>1, <4>2, <1>14
    <3>7. CASE s \in {"number_frac_digits", "number_exp_digits"}
      <4>1. Expected(s, t) \in {{Cons("digits", Cons("exp", ValueEnd(t)))}, {Cons("digits", ValueEnd(t))}}
        BY <3>7, ExpectedIs
      <4> QED BY <4>1, <1>13
    <3>8. CASE s = "number_exp_sign"
      <4>1. Expected(s, t) = {Cons(c, Cons("digits", ValueEnd(t))) : c \in Digit} \cup
                 {Cons(g, Cons(c, Cons("digits", ValueEnd(t)))) : c \in Digit, g \in {"+", "-"}}
        BY <3>8, ExpectedIs
      <4>2. "0" \in Digit BY DEF Digit
      <4> QED BY <4>1, <4>2, <1>14, <1>15
    <3> QED BY <1>17, <3>1, <3>2, <3>3, <3>4, <3>5, <3>6, <3>7, <3>8 DEF States, Kinds
  <2> QED BY <1>17, <2>1 DEF Q, InState
<1> QED BY <1>16, <1>17

\* In every state some derivation goes on, and all of them keep what is to close.
LEMMA AwaitsKept ==
  ASSUME NEW s \in States, NEW t, IsTail(t), NEW brackets, Closing(t, brackets), NEW n \in Nat
  PROVE  /\ \E x : Awaits(s, t, n, x)
         /\ \A x : Awaits(s, t, n, x) => Kept(x, InState(s, brackets))
<1> DEFINE b == InState(s, brackets)
<1>1. PICK q : q \in Expected(s, t) BY ExpectedClosing
<1>2. \A r \in Expected(s, t) : r \in Rest /\ Closing(r, b) BY ExpectedClosing
<1> HIDE DEF b
<1>3. \A r \in Expected(s, t) : Kept(D(r, n), b) BY <1>2 DEF Kept, KeptRest
<1>4. PICK y : y \in Final(D(q, n)) BY <1>1, <1>3, FinalSome
<1>5. Awaits(s, t, n, y) BY <1>1, <1>4 DEF Awaits
<1>6. \A x : Awaits(s, t, n, x) => Kept(x, b) BY <1>3, FinalKeeps DEF Awaits
<1> QED BY <1>5, <1>6 DEF b

------------------------------------------------------------------------------
(* The inductive invariant *)

\* At the beginning of a container its end is still to match.
LevelOf(s, d) == IF s \in Kinds THEN d - 1 ELSE d

\* The derivations in state s at depth d with n nodes counted, those after one more
\* character, and the numbers of nodes with which the text can end.
Now(T, s, d, n, x) == \E t \in T[LevelOf(s, d)] : Awaits(s, t, n, x)
Then(T, s, d, n, c, x) == \E t \in T[LevelOf(s, d)] : Reads(s, t, n, c, x)
Over(T, s, d, n, m) == \E t \in T[LevelOf(s, d)] : Finishes(s, t, n, m)

\* A container at its beginning is the innermost one.
Opened(s, d, st) == s \in Kinds => d > 0 /\ st[d - 1] = s

\* The values of the variables.
TypeInv ==
  /\ text \in Seq(Char) /\ closed \in BOOLEAN /\ more \in BOOLEAN
  /\ pos \in Nat /\ state \in States \cup Ended
  /\ depth \in 0 .. MaxDepth /\ DOMAIN stack = Level
  /\ count \in Nat

\* The parser has read all of the text but at most one character; where it stops.
PosInv ==
  /\ Len(text) - 1 <= pos
  /\ state \notin Ended => pos <= Len(text)
  /\ closed => pos >= Len(text)
  /\ state = "done" => closed /\ ~more /\ pos = Len(text) + 1
  /\ state \in Failed => ~more /\ pos <= Len(text) /\ (pos = Len(text) => closed)
  /\ (~more /\ state \notin Ended) =>
       \/ ~closed /\ depth = MaxDepth /\ pos = Len(text)
       \/ closed /\ text = <<>>
  /\ text = <<>> => state = "element" /\ depth = 0
  /\ more => depth < MaxDepth

\* The derivations of the grammar are the ones that the state of the parser stands for.
Follows(T) ==
  /\ (state \in States /\ pos < Len(text)) =>
       \A x : x \in grammar <=> Then(T, state, depth, count, Ch, x)
  /\ (state \in States /\ pos = Len(text) /\ ~closed) =>
       \A x : x \in grammar <=> Now(T, state, depth, count, x)
  /\ (state \in States /\ closed) =>
       \A m : D(<<>>, m) \in grammar <=> Over(T, state, depth, count, m)

\* There are some, and they close the open containers.
Keeps ==
  /\ (state \in States /\ pos = Len(text)) =>
       grammar # {} /\ \A d \in grammar : Kept(d, BracketsAt(stack, depth))
  /\ pos >= Len(text) => \A d \in grammar : \E r \in Rest, n \in Nat : d = D(r, n)

\* After an error there are none, at the end there are those with the counted nodes.
Stops ==
  /\ (state \in Failed /\ pos < Len(text)) => grammar = {}
  /\ (state \in Failed /\ closed) => \A m : D(<<>>, m) \notin grammar
  /\ state = "done" => \A m : D(<<>>, m) \in grammar <=> m = count

\* The invariant, T being what is left around the container open at each depth.
Inv(T) ==
  /\ TypeInv /\ PosInv
  /\ Opened(state, depth, stack) /\ Tails(T, depth, stack)
  /\ Follows(T) /\ Keeps /\ Stops

IInv == \E T : Inv(T)

\* The states are apart from the ends.
LEMMA StatesApart ==
  /\ \A s \in States : s \notin Ended /\ s # "done" /\ s \notin Failed
  /\ Failed \subseteq Ended /\ "done" \in Ended /\ "done" \notin Failed
  /\ \A s \in Ended : s = "done" \/ s \in Failed
BY DEF States, Ended, Failed

\* A derivation has one rest and one number of nodes.
LEMMA OneDerivation ==
  ASSUME NEW r, NEW n, NEW q, NEW m, D(r, n) = D(q, m)
  PROVE  r = q /\ n = m
<1>1. D(r, n).rest = r /\ D(r, n).nodes = n /\ D(q, m).rest = q /\ D(q, m).nodes = m BY DEF D
<1> QED BY <1>1

\* What is expected in a state goes on, and closes the open containers.
LEMMA NowKept ==
  ASSUME NEW d \in 0 .. MaxDepth, NEW st, NEW T, Tails(T, d, st),
         NEW s \in States, Opened(s, d, st), NEW n \in Nat
  PROVE  /\ LevelOf(s, d) \in 0 .. d
         /\ T[LevelOf(s, d)] # {} /\ \A t \in T[LevelOf(s, d)] : IsTail(t)
         /\ \E x : Now(T, s, d, n, x)
         /\ \A x : Now(T, s, d, n, x) => Kept(x, BracketsAt(st, d))
<1> DEFINE l == LevelOf(s, d)
           b == BracketsAt(st, l)
<1>1. d \in Nat BY MaxDepthAssumption
<1>2. l \in 0 .. d BY <1>1 DEF Opened, LevelOf
<1>3. InState(s, b) = BracketsAt(st, d)
  <2>1. CASE s \in Kinds
    <3>1. d - 1 \in Nat /\ d - 1 + 1 = d /\ st[d - 1] = s BY <1>1, <2>1 DEF Opened
    <3>2. \A j \in 0 .. d - 1 : st[j] \in Kinds BY DEF Tails
    <3>3. BracketsAt(st, d - 1 + 1) = <<Closes[st[d - 1]]>> \o BracketsAt(st, d - 1)
      <4> DEFINE k == d - 1
      <4>1. k \in Nat /\ \A j \in 0 .. k : st[j] \in Kinds BY <3>1, <3>2
      <4> HIDE DEF k
      <4>2. BracketsAt(st, k + 1) = <<Closes[st[k]]>> \o BracketsAt(st, k) BY <4>1, BracketsNext
      <4> QED BY <4>2 DEF k
    <3>4. BracketsAt(st, d) = <<Closes[s]>> \o BracketsAt(st, d - 1) BY <3>1, <3>3
    <3>5. l = d - 1 BY <2>1 DEF LevelOf
    <3> QED BY <2>1, <3>4, <3>5 DEF InState
  <2>2. CASE s \notin Kinds BY <2>2 DEF LevelOf, InState
  <2> QED BY <2>1, <2>2
<1>4. T[l] # {} /\ \A t \in T[l] : IsTail(t) /\ Closing(t, b)
  <2> HIDE DEF l
  <2> QED BY <1>2 DEF Tails
<1> HIDE DEF l, b
<1>5. \A t \in T[l] : /\ \E x : Awaits(s, t, n, x)
                      /\ \A x : Awaits(s, t, n, x) => Kept(x, InState(s, b))
  BY <1>4, AwaitsKept
<1>6. \E x : Now(T, s, d, n, x) BY <1>4, <1>5 DEF Now, l
<1>7. \A x : Now(T, s, d, n, x) => Kept(x, BracketsAt(st, d)) BY <1>3, <1>5 DEF Now, l
<1> QED BY <1>2, <1>4, <1>6, <1>7 DEF l

\* What is kept is a derivation.
LEMMA KeptShape ==
  ASSUME NEW d, NEW brackets, Kept(d, brackets)
  PROVE  \E r \in Rest, n \in Nat : d = D(r, n)
BY DEF Kept

------------------------------------------------------------------------------
(* The kinds of steps *)

\* The derivations of the state a character leads to are the ones after it.
LEMMA Consume ==
  ASSUME NEW T, Inv(T), state \in States, more, pos < Len(text),
         text' = text, closed' = closed, grammar' = grammar,
         state' \in States, pos' = pos + 1,
         more' = (pos + 1 <= Len(text) /\ depth' < MaxDepth),
         depth' \in 0 .. MaxDepth, DOMAIN stack' = Level, count' \in Nat,
         NEW U, Tails(U, depth', stack'), Opened(state', depth', stack'),
         \A x : Then(T, state, depth, count, Ch, x) <=> Now(U, state', depth', count', x)
  PROVE  IInv'
<1>1. /\ text \in Seq(Char) /\ closed \in BOOLEAN /\ pos \in Nat /\ Len(text) \in Nat
      /\ Len(text) - 1 <= pos /\ pos + 1 = Len(text) /\ ~closed /\ text # <<>>
  BY DEF Inv, TypeInv, PosInv
<1>2. state' \notin Ended /\ state' # "done" /\ state' \notin Failed BY StatesApart
<1>3. TypeInv' BY <1>1 DEF TypeInv
<1>4. PosInv'
  <2>1. MaxDepth \in Nat /\ depth' \in Nat /\ depth' <= MaxDepth BY MaxDepthAssumption
  <2>2. pos + 1 <= Len(text) BY <1>1
  <2>3. more' = (depth' < MaxDepth) BY <2>2
  <2>7. depth' < MaxDepth \/ depth' = MaxDepth BY <2>1
  <2>4. ~more' => depth' = MaxDepth BY <2>3, <2>7
  <2>5. more' => depth' < MaxDepth BY <2>3
  <2>6. /\ Len(text') - 1 <= pos' /\ pos' = Len(text') /\ ~closed' /\ text' # <<>>
    BY <1>1
  <2> QED BY <1>2, <2>4, <2>5, <2>6 DEF PosInv
<1>5. \A x : x \in grammar <=> Then(T, state, depth, count, Ch, x) BY DEF Inv, Follows
<1>6. \A x : x \in grammar <=> Now(U, state', depth', count', x) BY <1>5
<1>7. Follows(U)' BY <1>1, <1>6 DEF Follows
<1>8. /\ \E x : Now(U, state', depth', count', x)
      /\ \A x : Now(U, state', depth', count', x) => Kept(x, BracketsAt(stack', depth'))
  BY NowKept
<1>9. Keeps'
  <2>1. grammar # {} /\ \A d \in grammar : Kept(d, BracketsAt(stack', depth')) BY <1>6, <1>8
  <2>2. \A d \in grammar : \E r \in Rest, n \in Nat : d = D(r, n) BY <2>1, KeptShape
  <2> QED BY <2>1, <2>2 DEF Keeps
<1>10. Stops' BY <1>2 DEF Stops
<1>11. Inv(U)' BY <1>3, <1>4, <1>7, <1>9, <1>10 DEF Inv
<1> QED BY <1>11 DEF IInv

\* A character is put back for a state that it leads on from in the same way.
LEMMA PutBack ==
  ASSUME NEW T, Inv(T), state \in States, more, text # <<>>,
         pos < Len(text) \/ closed,
         text' = text, closed' = closed, grammar' = grammar,
         state' \in States, pos' = pos,
         more' = (pos <= Len(text) /\ depth < MaxDepth),
         depth' = depth, stack' = stack, count' \in Nat, Opened(state', depth, stack),
         pos < Len(text) =>
           \A x : Then(T, state, depth, count, Ch, x) <=> Then(T, state', depth, count', Ch, x),
         pos = Len(text) =>
           \A m : Over(T, state, depth, count, m) <=> Over(T, state', depth, count', m)
  PROVE  IInv'
<1>1. /\ text \in Seq(Char) /\ closed \in BOOLEAN /\ pos \in Nat /\ Len(text) \in Nat
      /\ Len(text) - 1 <= pos /\ pos <= Len(text) /\ (closed => pos = Len(text))
      /\ depth < MaxDepth /\ depth \in 0 .. MaxDepth /\ DOMAIN stack = Level
  BY StatesApart DEF Inv, TypeInv, PosInv
<1>2. state' \notin Ended /\ state' # "done" /\ state' \notin Failed BY StatesApart
<1>3. more' = TRUE BY <1>1
<1>4. TypeInv' BY <1>1, <1>3 DEF TypeInv
<1>5. PosInv' BY <1>1, <1>2, <1>3 DEF PosInv
<1>6. Ch' = Ch BY DEF Ch
<1>7. Follows(T)'
  <2>1. CASE pos < Len(text)
    <3>1. \A x : x \in grammar <=> Then(T, state, depth, count, Ch, x) BY <2>1 DEF Inv, Follows
    <3>2. \A x : x \in grammar <=> Then(T, state', depth, count', Ch, x) BY <2>1, <3>1
    <3> QED BY <1>1, <1>6, <2>1, <3>2 DEF Follows
  <2>2. CASE pos = Len(text)
    <3>1. closed BY <1>1, <2>2
    <3>2. \A m : D(<<>>, m) \in grammar <=> Over(T, state, depth, count, m)
      BY <3>1 DEF Inv, Follows
    <3>3. \A m : D(<<>>, m) \in grammar <=> Over(T, state', depth, count', m) BY <2>2, <3>2
    <3> QED BY <1>1, <2>2, <3>1, <3>3 DEF Follows
  <2> QED BY <1>1, <2>1, <2>2
<1>8. Keeps' BY <1>1 DEF Inv, Keeps
<1>9. Stops' BY <1>2 DEF Stops
<1>10. Opened(state, depth, stack)' /\ Tails(T, depth, stack)' BY DEF Inv
<1>11. Inv(T)' BY <1>4, <1>5, <1>7, <1>8, <1>9, <1>10 DEF Inv
<1> QED BY <1>11 DEF IInv

\* An error where no derivation goes on and none ends.
LEMMA Fail ==
  ASSUME NEW T, Inv(T), state \in States, text # <<>>, pos < Len(text) \/ closed,
         text' = text, closed' = closed, grammar' = grammar,
         state' \in Failed, pos' = pos, more' = FALSE,
         depth' = depth, stack' = stack, count' = count,
         pos < Len(text) => \A x : ~Then(T, state, depth, count, Ch, x),
         pos = Len(text) => \A m : ~Over(T, state, depth, count, m)
  PROVE  IInv'
<1>1. /\ text \in Seq(Char) /\ closed \in BOOLEAN /\ pos \in Nat /\ Len(text) \in Nat
      /\ Len(text) - 1 <= pos /\ pos <= Len(text) /\ (closed => pos = Len(text))
      /\ depth \in 0 .. MaxDepth /\ DOMAIN stack = Level /\ count \in Nat
  BY StatesApart DEF Inv, TypeInv, PosInv
<1>2. state' \notin States /\ state' \in Ended /\ state' # "done" /\ state' \notin Kinds
  BY StatesApart DEF States, Kinds
<1>3. TypeInv'
  <2>1. more' \in BOOLEAN /\ pos' \in Nat BY <1>1
  <2> QED BY <1>1, <1>2, <2>1 DEF TypeInv
<1>4. PosInv' BY <1>1, <1>2 DEF PosInv
<1>5. Follows(T)' BY <1>2 DEF Follows
<1>6. Keeps' BY <1>1, <1>2 DEF Inv, Keeps
<1>7. Stops'
  <2>1. pos < Len(text) => grammar = {}
    <3>1. pos < Len(text) => \A x : x \in grammar <=> Then(T, state, depth, count, Ch, x)
      BY DEF Inv, Follows
    <3> QED BY <3>1
  <2>2. closed => \A m : D(<<>>, m) \notin grammar
    <3>1. closed => \A m : D(<<>>, m) \in grammar <=> Over(T, state, depth, count, m)
      BY DEF Inv, Follows
    <3> QED BY <1>1, <3>1
  <2> QED BY <1>2, <2>1, <2>2 DEF Stops
<1>8. Opened(state, depth, stack)' /\ Tails(T, depth, stack)' BY <1>2 DEF Inv, Opened
<1>9. Inv(T)' BY <1>3, <1>4, <1>5, <1>6, <1>7, <1>8 DEF Inv
<1> QED BY <1>9 DEF IInv

\* The end of the text after the outermost value.
LEMMA Finish ==
  ASSUME NEW T, Inv(T), state = "after_value", depth = 0, pos = Len(text), closed,
         text # <<>>, text' = text, closed' = closed, grammar' = grammar,
         state' = "done", pos' = pos + 1, more' = FALSE,
         depth' = depth, stack' = stack, count' = count
  PROVE  IInv'
<1>1. /\ text \in Seq(Char) /\ closed \in BOOLEAN /\ pos \in Nat /\ Len(text) \in Nat
      /\ depth \in 0 .. MaxDepth /\ DOMAIN stack = Level /\ count \in Nat
  BY DEF Inv, TypeInv
<1>2. state' \notin States /\ state' \in Ended /\ state' \notin Failed /\ state' \notin Kinds
  BY StatesApart DEF States, Kinds
<1>3. TypeInv'
  <2>4. pos' \in Nat
    <3>1. pos \in Nat /\ pos' = pos + 1 BY <1>1
    <3> QED BY <3>1
  <2>1. more' \in BOOLEAN OBVIOUS
  <2>2. closed' \in BOOLEAN /\ text' \in Seq(Char) BY <1>1
  <2>3. depth' \in 0 .. MaxDepth /\ DOMAIN stack' = Level /\ count' \in Nat BY <1>1
  <2> QED BY <1>2, <2>1, <2>2, <2>3, <2>4 DEF TypeInv
<1>4. PosInv' BY <1>1, <1>2 DEF PosInv
<1>5. Follows(T)' BY <1>2 DEF Follows
<1>6. state \in States BY DEF States
<1>7. Keeps' BY <1>1, <1>2, <1>6 DEF Inv, Keeps
<1>8. Stops'
  <2>1. \A m : D(<<>>, m) \in grammar <=> Over(T, state, depth, count, m)
    BY <1>6 DEF Inv, Follows
  <2>2. T[0] = {<<>>} BY DEF Inv, Tails
  <2>3. LevelOf(state, depth) = 0 BY DEF LevelOf, Kinds
  <2>4. \A m : Over(T, state, depth, count, m) <=> Finishes("after_value", <<>>, count, m)
    BY <2>2, <2>3 DEF Over
  <2>5. <<>> \in Rest BY ClosingNothing
  <2>6. Quick(0, <<>>) BY <2>5, CharFinal, Chars
  <2>7. \A m : Finishes("after_value", <<>>, count, m) <=> m \in Ends(D(<<>>, count))
    BY <1>1, <2>5, <2>6, ReadsAfterValue
  <2>8. \A m : m \in Ends(D(<<>>, count)) <=> m = count BY <1>1, <2>5, LeadsChar, Chars
  <2>9. \A m : D(<<>>, m) \in grammar <=> m = count BY <2>1, <2>4, <2>7, <2>8
  <2> QED BY <1>2, <2>9 DEF Stops
<1>9. Opened(state, depth, stack)' /\ Tails(T, depth, stack)' BY <1>2 DEF Inv, Opened
<1>10. Inv(T)' BY <1>3, <1>4, <1>5, <1>7, <1>8, <1>9 DEF Inv
<1> QED BY <1>10 DEF IInv

------------------------------------------------------------------------------
(* The steps of the environment *)

\* The parser is not stopped while it asks for more.
LEMMA NotEnded ==
  ASSUME NEW T, Inv(T), more
  PROVE  state \in States /\ pos <= Len(text) /\ depth < MaxDepth
<1>1. state \in States \cup Ended BY DEF Inv, TypeInv
<1>2. state \notin Ended BY StatesApart DEF Inv, PosInv
<1> QED BY <1>1, <1>2 DEF Inv, PosInv

\* What is kept in the state of the parser.
LEMMA NowIs ==
  ASSUME NEW T, Inv(T), state \in States
  PROVE  /\ LevelOf(state, depth) \in 0 .. depth
         /\ \A t \in T[LevelOf(state, depth)] : IsTail(t) /\ t \in Rest /\ Quick(0, t)
         /\ \E x : Now(T, state, depth, count, x)
         /\ \A x : Now(T, state, depth, count, x) => Kept(x, BracketsAt(stack, depth))
<1>1. /\ depth \in 0 .. MaxDepth /\ Tails(T, depth, stack) /\ Opened(state, depth, stack)
      /\ count \in Nat
  BY DEF Inv, TypeInv
<1> QED BY <1>1, NowKept DEF IsTail

\* At first the grammar and the parser both await a value.
LEMMA InitInv == Init => IInv
<1> SUFFICES ASSUME Init PROVE IInv OBVIOUS
<1>1. /\ text = <<>> /\ closed = FALSE /\ pos = 0 /\ state = "element" /\ depth = 0
      /\ stack = [l \in Level |-> "none"] /\ more = TRUE /\ count = 0 /\ grammar = Start
  BY DEF Init, ParserInit
<1> DEFINE T == [l \in 0 .. MaxDepth |-> {<<>>}]
<1>2. Tails(T, depth, stack) BY <1>1, TailsBegin
<1>3. T[0] = {<<>>} BY MaxDepthAssumption
<1> HIDE DEF T
<1>4. state \in States /\ state \notin Ended /\ state \notin Kinds BY <1>1 DEF States, Ended, Failed, Kinds
<1>5. state # "done" /\ state \notin Failed BY <1>4 DEF Ended
<1>6. TypeInv
  <2>1. <<>> \in Seq(Char) /\ 0 \in Nat /\ 0 \in 0 .. MaxDepth BY MaxDepthAssumption
  <2> QED BY <1>1, <1>4, <2>1 DEF TypeInv
<1>7. PosInv
  <2>1. Len(text) = 0 /\ 0 - 1 <= 0 /\ 0 <= 0 /\ 0 < MaxDepth BY <1>1, MaxDepthAssumption
  <2> QED BY <1>1, <1>4, <1>5, <2>1 DEF PosInv
<1>8. Opened(state, depth, stack) BY <1>4 DEF Opened
<1>9. \A x : x \in grammar <=> Now(T, state, depth, count, x)
  <2>1. LevelOf(state, depth) = 0 BY <1>1, <1>4 DEF LevelOf
  <2>2. \A x : Now(T, state, depth, count, x) <=> Awaits("element", <<>>, 0, x)
    BY <1>1, <1>3, <2>1 DEF Now
  <2>3. Expected("element", <<>>) = {ValueRest(<<>>)} BY ExpectedIs
  <2>4. \A x : Awaits("element", <<>>, 0, x) <=> x \in Final(D(ValueRest(<<>>), 0))
    BY <2>3, OneRest
  <2> QED BY <1>1, <2>2, <2>4, FinalWhole
<1>10. /\ \E x : Now(T, state, depth, count, x)
       /\ \A x : Now(T, state, depth, count, x) => Kept(x, BracketsAt(stack, depth))
  <2>1. depth \in 0 .. MaxDepth /\ count \in Nat BY <1>6 DEF TypeInv
  <2> QED BY <1>2, <1>4, <1>8, <2>1, NowKept
<1>11. grammar # {} /\ \A d \in grammar : Kept(d, BracketsAt(stack, depth)) BY <1>9, <1>10
<1>12. \A d \in grammar : \E r \in Rest, n \in Nat : d = D(r, n) BY <1>11, KeptShape
<1>13. Len(text) = 0 /\ ~(pos < Len(text)) BY <1>1
<1>14. Follows(T) BY <1>1, <1>9, <1>13 DEF Follows
<1>15. Keeps BY <1>11, <1>12 DEF Keeps
<1>16. Stops BY <1>5 DEF Stops
<1>17. Inv(T) BY <1>2, <1>6, <1>7, <1>8, <1>14, <1>15, <1>16 DEF Inv
<1> QED BY <1>17 DEF IInv

\* One more character for the parser and the grammar.
LEMMA ChooseInv ==
  ASSUME IInv, NEW c \in Char, Choose(c)
  PROVE  IInv'
<1>1. PICK T : Inv(T) BY DEF IInv
<1>2. /\ ~closed /\ more /\ pos = Len(text) /\ text' = Append(text, c)
      /\ grammar' = After(grammar, c)
      /\ closed' = closed /\ pos' = pos /\ state' = state /\ depth' = depth /\ stack' = stack
      /\ more' = more /\ count' = count
  BY DEF Choose, Asked, parser
<1>3. /\ text \in Seq(Char) /\ pos \in Nat /\ Len(text) \in Nat /\ depth \in 0 .. MaxDepth
      /\ DOMAIN stack = Level /\ count \in Nat /\ closed \in BOOLEAN /\ more \in BOOLEAN
  BY <1>1 DEF Inv, TypeInv
<1>4. state \in States /\ depth < MaxDepth BY <1>1, <1>2, NotEnded
<1>5. state \notin Ended /\ state # "done" /\ state \notin Failed BY <1>4, StatesApart
<1>6. /\ text' \in Seq(Char) /\ Len(text') = Len(text) + 1 /\ text'[Len(text) + 1] = c
      /\ text' # <<>>
  BY <1>2, <1>3
<1>7. TypeInv' BY <1>2, <1>3, <1>4, <1>6 DEF TypeInv
<1>8. PosInv'
  <2>1. Len(text') - 1 <= pos' /\ pos' <= Len(text') /\ ~closed' /\ more' BY <1>2, <1>3, <1>6
  <2> QED BY <1>2, <1>4, <1>5, <1>6, <2>1 DEF PosInv
<1>9. Ch' = c
  <2>1. pos' < Len(text') BY <1>2, <1>3, <1>6
  <2>2. text'[pos' + 1] = c BY <1>2, <1>6
  <2> QED BY <2>1, <2>2 DEF Ch
<1>10. \A x : x \in grammar <=> Now(T, state, depth, count, x)
  BY <1>1, <1>2, <1>4 DEF Inv, Follows
<1>11. \A x : x \in After(grammar, c) <=> Then(T, state, depth, count, c, x)
  <2> DEFINE S == Step(grammar, c)
  <2>1. After(grammar, c) = Settle(S) BY DEF After, Step
  <2> HIDE DEF S
  <2>2. \A x : x \in Settle(S) <=> \E y \in S : x \in Final(y) BY SettleTogether
  <2>3. \A y : y \in S <=> \E d \in grammar : y \in StepOf(d, c) BY StepTogether DEF S
  <2>4. \A d, y : y \in Lead(d, c) <=> \E g \in Final(d) : y \in StepOf(g, c)
    BY StepTogether DEF Lead
  <2>5. \A x : Then(T, state, depth, count, c, x) <=>
          \E t \in T[LevelOf(state, depth)] : \E r \in Expected(state, t) :
             \E y \in Lead(D(r, count), c) : x \in Final(y)
    BY DEF Then, Reads, Leads
  <2>6. \A x : Now(T, state, depth, count, x) <=>
          \E t \in T[LevelOf(state, depth)] : \E r \in Expected(state, t) :
             x \in Final(D(r, count))
    BY DEF Now, Awaits
  <2>7. \A y : y \in S <=> \E t \in T[LevelOf(state, depth)] : \E r \in Expected(state, t) :
                              y \in Lead(D(r, count), c)
    BY <1>10, <2>3, <2>4, <2>6
  <2> QED BY <2>1, <2>2, <2>5, <2>7
<1>12. Follows(T)'
  <2>1. ~(pos' = Len(text')) /\ ~closed' BY <1>2, <1>3, <1>6
  <2> QED BY <1>2, <1>9, <1>11, <2>1 DEF Follows
<1>13. Keeps'
  <2>1. ~(pos' >= Len(text')) /\ ~(pos' = Len(text')) BY <1>2, <1>3, <1>6
  <2> QED BY <2>1 DEF Keeps
<1>14. Stops' BY <1>2, <1>5 DEF Stops
<1>15. Opened(state, depth, stack)' /\ Tails(T, depth, stack)' BY <1>1, <1>2 DEF Inv
<1>16. Inv(T)' BY <1>7, <1>8, <1>12, <1>13, <1>14, <1>15 DEF Inv
<1> QED BY <1>16 DEF IInv

\* The end of the text: what remains are the derivations that are complete.
LEMMA CloseInv ==
  ASSUME IInv, Close
  PROVE  IInv'
<1>1. PICK T : Inv(T) BY DEF IInv
<1>2. /\ ~closed /\ more /\ pos = Len(text) /\ closed' = TRUE
      /\ text' = text /\ grammar' = grammar /\ pos' = pos /\ state' = state
      /\ depth' = depth /\ stack' = stack /\ more' = more /\ count' = count
  BY DEF Close, Asked, parser
<1>3. /\ text \in Seq(Char) /\ pos \in Nat /\ Len(text) \in Nat /\ depth \in 0 .. MaxDepth
      /\ DOMAIN stack = Level /\ count \in Nat /\ more \in BOOLEAN
  BY <1>1 DEF Inv, TypeInv
<1>4. state \in States /\ depth < MaxDepth BY <1>1, <1>2, NotEnded
<1>5. state \notin Ended /\ state # "done" /\ state \notin Failed BY <1>4, StatesApart
<1>6. TypeInv' BY <1>2, <1>3, <1>4 DEF TypeInv
<1>7. PosInv'
  <2>1. Len(text) - 1 <= pos /\ pos <= Len(text) /\ pos >= Len(text) BY <1>2, <1>3
  <2>2. text = <<>> => state = "element" /\ depth = 0 BY <1>1 DEF Inv, PosInv
  <2> QED BY <1>2, <1>4, <1>5, <2>1, <2>2 DEF PosInv
<1>8. \A x : x \in grammar <=> Now(T, state, depth, count, x)
  BY <1>1, <1>2, <1>4 DEF Inv, Follows
<1>9. \A m : D(<<>>, m) \in grammar <=> Over(T, state, depth, count, m)
  <2> TAKE m
  <2>1. D(<<>>, m) \in grammar => m \in Nat
    <3> HAVE D(<<>>, m) \in grammar
    <3>1. Kept(D(<<>>, m), BracketsAt(stack, depth)) BY <1>1, <1>4, <1>8, NowIs
    <3>2. PICK r \in Rest, n \in Nat : D(<<>>, m) = D(r, n) BY <3>1, KeptShape
    <3> QED BY <3>2, OneDerivation
  <2>2. Over(T, state, depth, count, m) <=>
          \E t \in T[LevelOf(state, depth)] : \E r \in Expected(state, t) :
            m \in Nat /\ D(<<>>, m) \in Final(D(r, count))
    BY DEF Over, Finishes, Ends
  <2>3. Now(T, state, depth, count, D(<<>>, m)) <=>
          \E t \in T[LevelOf(state, depth)] : \E r \in Expected(state, t) :
            D(<<>>, m) \in Final(D(r, count))
    BY DEF Now, Awaits
  <2> QED BY <1>8, <2>1, <2>2, <2>3
<1>10. Follows(T)'
  <2>1. ~(pos' < Len(text')) BY <1>2, <1>3
  <2> QED BY <1>2, <1>9, <2>1 DEF Follows
<1>11. Keeps' BY <1>1, <1>2 DEF Inv, Keeps
<1>12. Stops' BY <1>2, <1>5 DEF Stops
<1>13. Opened(state, depth, stack)' /\ Tails(T, depth, stack)' BY <1>1, <1>2 DEF Inv
<1>14. Inv(T)' BY <1>6, <1>7, <1>10, <1>11, <1>12, <1>13 DEF Inv
<1> QED BY <1>14 DEF IInv

\* An empty text.
LEMMA EmptyInv ==
  ASSUME IInv, Empty
  PROVE  IInv'
<1>1. PICK T : Inv(T) BY DEF IInv
<1>2. /\ closed /\ text = <<>> /\ more /\ more' = FALSE
      /\ text' = text /\ closed' = closed /\ grammar' = grammar /\ pos' = pos /\ state' = state
      /\ depth' = depth /\ stack' = stack /\ count' = count
  BY DEF Empty, source
<1>3. /\ text \in Seq(Char) /\ pos \in Nat /\ Len(text) \in Nat /\ depth \in 0 .. MaxDepth
      /\ DOMAIN stack = Level /\ count \in Nat /\ closed \in BOOLEAN
  BY <1>1 DEF Inv, TypeInv
<1>4. state \in States BY <1>1, <1>2, NotEnded
<1>5. state \notin Ended /\ state # "done" /\ state \notin Failed BY <1>4, StatesApart
<1>6. TypeInv' BY <1>2, <1>3, <1>4 DEF TypeInv
<1>7. PosInv'
  <2>1. /\ Len(text) - 1 <= pos /\ pos <= Len(text) /\ pos >= Len(text)
        /\ state = "element" /\ depth = 0
    BY <1>1, <1>2, <1>5 DEF Inv, PosInv
  <2> QED BY <1>2, <1>5, <2>1 DEF PosInv
<1>8. Ch' = Ch BY <1>2 DEF Ch
<1>9. Follows(T)' BY <1>1, <1>2, <1>8 DEF Inv, Follows
<1>10. Keeps' BY <1>1, <1>2 DEF Inv, Keeps
<1>11. Stops' BY <1>1, <1>2, <1>5 DEF Inv, Stops
<1>12. Opened(state, depth, stack)' /\ Tails(T, depth, stack)' BY <1>1, <1>2 DEF Inv
<1>13. Inv(T)' BY <1>6, <1>7, <1>9, <1>10, <1>11, <1>12 DEF Inv
<1> QED BY <1>13 DEF IInv

------------------------------------------------------------------------------
(* The calls of the parser *)

\* What all turns of the loop have in common.
Turn ==
  /\ more /\ text # <<>> /\ Readable
  /\ text' = text /\ closed' = closed /\ grammar' = grammar
  /\ count' = IF more' /\ event'.type \in CountedEvents THEN count + 1 ELSE count

\* What is known of the parser when a call is made.
LEMMA TurnIs ==
  ASSUME NEW T, Inv(T), Turn
  PROVE  /\ state \in States /\ state \notin Ended
         /\ pos \in Nat /\ Len(text) \in Nat /\ pos <= Len(text) /\ (pos < Len(text) \/ closed)
         /\ depth \in 0 .. MaxDepth /\ depth < MaxDepth /\ depth \in Nat /\ DOMAIN stack = Level
         /\ count \in Nat /\ count + 1 \in Nat
         /\ Opened(state, depth, stack) /\ Tails(T, depth, stack)
         /\ Ch \in Char /\ (Ch # NUL => pos < Len(text)) /\ (pos = Len(text) => Ch = NUL)
<1>1. /\ text \in Seq(Char) /\ pos \in Nat /\ Len(text) \in Nat /\ depth \in 0 .. MaxDepth
      /\ DOMAIN stack = Level /\ count \in Nat
      /\ Opened(state, depth, stack) /\ Tails(T, depth, stack)
  BY DEF Inv, TypeInv
<1>2. state \in States /\ pos <= Len(text) /\ depth < MaxDepth BY NotEnded DEF Turn
<1>3. state \notin Ended BY <1>2, StatesApart
<1>4. pos < Len(text) \/ closed BY <1>3 DEF Turn, Readable
<1>5. Ch \in Char
  <2>1. CASE pos < Len(text)
    <3>1. pos + 1 \in 1 .. Len(text) BY <1>1, <2>1
    <3>2. text[pos + 1] \in Char BY <1>1, <3>1
    <3> QED BY <2>1, <3>2 DEF Ch
  <2>2. CASE ~(pos < Len(text)) BY <2>2, Chars DEF Ch
  <2> QED BY <2>1, <2>2
<1>6. (Ch # NUL => pos < Len(text)) /\ (pos = Len(text) => Ch = NUL) BY <1>1 DEF Ch
<1>7. depth \in Nat /\ count + 1 \in Nat BY <1>1
<1> QED BY <1>1, <1>2, <1>3, <1>4, <1>5, <1>6, <1>7

\* Which events count.
LEMMA Counted ==
  ASSUME Turn
  PROVE  /\ Silent => count' = count
         /\ \A node, d : event' = Event("begin_node", node, d) => count' = count
         /\ \A node, d : event' = Event("key", node, d) => count' = count
         /\ \A node, d : event' = Event("value", node, d) /\ more' => count' = count + 1
         /\ \A node, d : event' = Event("end_node", node, d) /\ more' => count' = count + 1
<1>1. \A t, node, d : Event(t, node, d).type = t BY DEF Event
<1>2. NoEvent.type = "none" BY DEF NoEvent
<1>3. /\ "none" \notin CountedEvents /\ "begin_node" \notin CountedEvents
      /\ "key" \notin CountedEvents /\ "value" \in CountedEvents /\ "end_node" \in CountedEvents
  BY DEF CountedEvents
<1>4. Silent => count' = count BY <1>2, <1>3 DEF Turn, Silent
<1>5. \A node, d : event' = Event("begin_node", node, d) => count' = count BY <1>1, <1>3 DEF Turn
<1>6. \A node, d : event' = Event("key", node, d) => count' = count BY <1>1, <1>3 DEF Turn
<1>7. \A node, d : event' = Event("value", node, d) /\ more' => count' = count + 1
  BY <1>1, <1>3 DEF Turn
<1>8. \A node, d : event' = Event("end_node", node, d) /\ more' => count' = count + 1
  BY <1>1, <1>3 DEF Turn
<1> QED BY <1>4, <1>5, <1>6, <1>7, <1>8

\* A character that is read for a state at the same level.
LEMMA ConsumeSame ==
  ASSUME NEW T, Inv(T), Turn, KeepDepth, NEW s \in States, s \notin Kinds \/ s = state,
         state \in Kinds => s = state, Goto(s, pos), Ch # NUL, count' \in Nat,
         \A t \in T[LevelOf(state, depth)] : \A x :
           IsTail(t) => (Reads(state, t, count, Ch, x) <=> Awaits(s, t, count', x))
  PROVE  IInv'
<1>1. /\ state \in States /\ pos < Len(text) /\ pos \in Nat /\ Len(text) \in Nat
      /\ depth \in 0 .. MaxDepth /\ DOMAIN stack = Level
      /\ Opened(state, depth, stack) /\ Tails(T, depth, stack)
  BY TurnIs
<1>2. depth' = depth /\ stack' = stack BY DEF KeepDepth
<1>3. state' = s /\ pos' = pos + 1 /\ more' = (pos + 1 <= Len(text) /\ depth' < MaxDepth)
  BY DEF Goto
<1>4. LevelOf(s, depth) = LevelOf(state, depth) BY DEF LevelOf
<1>5. Opened(s, depth, stack) BY <1>1 DEF Opened
<1>6. \A t \in T[LevelOf(state, depth)] : IsTail(t) BY <1>1, NowIs
<1>7. \A x : Then(T, state, depth, count, Ch, x) <=> Now(T, s, depth, count', x)
  BY <1>4, <1>6 DEF Then, Now
<1>8. more /\ text' = text /\ closed' = closed /\ grammar' = grammar BY DEF Turn
<1>9. depth' \in 0 .. MaxDepth /\ DOMAIN stack' = Level BY <1>1, <1>2
<1>10. Tails(T, depth', stack') /\ Opened(state', depth', stack') BY <1>1, <1>2, <1>3, <1>5
<1>11. \A x : Then(T, state, depth, count, Ch, x) <=> Now(T, state', depth', count', x)
  BY <1>2, <1>3, <1>7
<1> QED BY <1>1, <1>3, <1>8, <1>9, <1>10, <1>11, Consume

\* A move leads to a state.
LEMMA MoveTo == \A m \in Moves : m[3] \in States
BY MoveParts DEF States

\* A move reads a character.
LEMMA MoveReal == \A m \in Moves : NUL \notin m[2]
<1>1. NUL \notin Space /\ NUL \notin Plain /\ NUL \notin Escaped /\ NUL \notin Digit BY InnerApart
<1>2. /\ NUL \notin {":"} /\ NUL \notin {BS} /\ NUL \notin {"0"} /\ NUL \notin {"1"}
      /\ NUL \notin {"."} /\ NUL \notin {"e"} /\ NUL \notin {"+", "-"}
  BY DEF NUL, BS
<1>3. ASSUME NEW m \in Moves PROVE NUL \notin m[2] BY <1>1, <1>2, MoveParts
<1> QED BY <1>3

\* The calls that only change the state.
LEMMA MoveInv ==
  ASSUME IInv, Turn, Move
  PROVE  IInv'
<1>1. PICK T : Inv(T) BY DEF IInv
<1>2. PICK m \in Moves : /\ m[1] = state /\ Ch \in m[2]
                         /\ KeepDepth /\ Silent /\ Goto(m[3], pos)
  BY DEF Move
<1>3. count \in Nat BY <1>1, TurnIs
<1>4. count' = count BY <1>2, Counted
<1>5. Ch # NUL BY <1>2, MoveReal
<1>6. m[3] \in States /\ (m[3] \notin Kinds \/ m[3] = state) /\ (state \in Kinds => m[3] = state)
  <2>1. m[3] \in States BY MoveTo
  <2>2. m[3] \notin Kinds \/ m[3] = m[1] BY MoveParts DEF Kinds
  <2>3. m[1] \in Kinds => m[3] = m[1] BY MoveParts DEF Kinds
  <2> QED BY <1>2, <2>1, <2>2, <2>3
<1>7. \A t : IsTail(t) => \A x : Reads(state, t, count, Ch, x) <=> Awaits(m[3], t, count, x)
  BY <1>2, <1>3, MoveReads
<1> QED BY <1>1, <1>2, <1>3, <1>4, <1>5, <1>6, <1>7, ConsumeSame

\* The beginning of a string or a number.
LEMMA BeginScalarInv ==
  ASSUME IInv, Turn, BeginScalar
  PROVE  IInv'
<1>1. PICK T : Inv(T) BY DEF IInv
<1>2. /\ state = "element" /\ Ch \in DOMAIN ScalarState
      /\ KeepDepth /\ Silent /\ Goto(ScalarState[Ch], pos)
  BY DEF BeginScalar
<1>3. count \in Nat BY <1>1, TurnIs
<1>4. count' = count BY <1>2, Counted
<1>5. DOMAIN ScalarState = {DQ, "-", "0", "1"} BY DEF ScalarState
<1>6. Ch # NUL BY <1>2, <1>5, InnerApart DEF Digit
<1>7. /\ ScalarState[Ch] \in {"string_value", "number_minus", "number_zero", "number_one_nine"}
  <2>1. /\ ScalarState[DQ] = "string_value" /\ ScalarState["-"] = "number_minus"
        /\ ScalarState["0"] = "number_zero" /\ ScalarState["1"] = "number_one_nine"
    BY MarksApart DEF ScalarState
  <2> QED BY <1>2, <1>5, <2>1
<1>8. ScalarState[Ch] \in States /\ ScalarState[Ch] \notin Kinds /\ state \notin Kinds
  BY <1>2, <1>7 DEF States, Kinds
<1>9. \A t : IsTail(t) => \A x : Reads(state, t, count, Ch, x) <=> Awaits(ScalarState[Ch], t, count, x)
  BY <1>2, <1>3, ScalarReads
<1> QED BY <1>1, <1>2, <1>3, <1>4, <1>6, <1>8, <1>9, ConsumeSame

\* A literal, read whole.
LEMMA LiteralInv ==
  ASSUME IInv, Turn, Literal
  PROVE  IInv'
<1>1. PICK T : Inv(T) BY DEF IInv
<1>2. /\ state = "element" /\ Ch = "true"
      /\ KeepDepth /\ event' = Event("value", "literal", depth) /\ Goto("after_value", pos)
  BY DEF Literal
<1>3. Ch # NUL BY <1>2, InnerApart
<1>4. more'
  <2>1. pos < Len(text) /\ depth < MaxDepth /\ pos \in Nat /\ Len(text) \in Nat BY <1>1, <1>3, TurnIs
  <2>2. depth' = depth BY <1>2 DEF KeepDepth
  <2>3. pos + 1 <= Len(text) BY <2>1
  <2> QED BY <1>2, <2>1, <2>2, <2>3 DEF Goto
<1>5. count \in Nat /\ count' = count + 1 /\ count' \in Nat
  <2>1. count \in Nat /\ count + 1 \in Nat BY <1>1, TurnIs
  <2> QED BY <1>2, <1>4, <2>1, Counted
<1>6. "after_value" \in States /\ "after_value" \notin Kinds /\ state \notin Kinds
  BY <1>2 DEF States, Kinds
<1>7. \A t : IsTail(t) => \A x : Reads(state, t, count, Ch, x) <=> Awaits("after_value", t, count', x)
  BY <1>2, <1>5, ScalarReads
<1> QED BY <1>1, <1>2, <1>3, <1>5, <1>6, <1>7, ConsumeSame

\* The beginning of a key.
LEMMA BeginKeyInv ==
  ASSUME IInv, Turn, BeginKey
  PROVE  IInv'
<1>1. PICK T : Inv(T) BY DEF IInv
<1>2. /\ state = "member" /\ Ch = DQ /\ KeepDepth /\ Silent /\ Goto("string_key", pos)
  BY DEF BeginKey
<1>3. Ch # NUL BY <1>2, InnerApart
<1>4. count \in Nat /\ count' = count BY <1>1, <1>2, TurnIs, Counted
<1>5. "string_key" \in States /\ "string_key" \notin Kinds /\ state \notin Kinds
  BY <1>2 DEF States, Kinds
<1>6. \A t : IsTail(t) => \A x : Reads(state, t, count, Ch, x) <=> Awaits("string_key", t, count', x)
  BY <1>2, <1>4, ScalarReads
<1> QED BY <1>1, <1>2, <1>3, <1>4, <1>5, <1>6, ConsumeSame

\* The end of a key.
LEMMA EndKeyInv ==
  ASSUME IInv, Turn, EndKey
  PROVE  IInv'
<1>1. PICK T : Inv(T) BY DEF IInv
<1>2. /\ state = "string_key" /\ Ch = DQ /\ KeepDepth /\ Goto("colon", pos)
      /\ event' = Event("key", "string", depth)
  BY DEF EndKey
<1>3. Ch # NUL BY <1>2, InnerApart
<1>4. count \in Nat /\ count' = count BY <1>1, <1>2, TurnIs, Counted
<1>5. "colon" \in States /\ "colon" \notin Kinds /\ state \notin Kinds
  BY <1>2 DEF States, Kinds
<1>6. \A t : IsTail(t) => \A x : Reads(state, t, count, Ch, x) <=> Awaits("colon", t, count', x)
  BY <1>2, <1>4, ScalarReads
<1> QED BY <1>1, <1>2, <1>3, <1>4, <1>5, <1>6, ConsumeSame

\* The end of a string that is a value.
LEMMA EndStringInv ==
  ASSUME IInv, Turn, EndString
  PROVE  IInv'
<1>1. PICK T : Inv(T) BY DEF IInv
<1>2. /\ state = "string_value" /\ Ch = DQ /\ KeepDepth /\ Goto("after_value", pos)
      /\ event' = Event("value", "string", depth)
  BY DEF EndString
<1>3. Ch # NUL BY <1>2, InnerApart
<1>4. more'
  <2>1. pos < Len(text) /\ depth < MaxDepth /\ pos \in Nat /\ Len(text) \in Nat BY <1>1, <1>3, TurnIs
  <2>2. depth' = depth BY <1>2 DEF KeepDepth
  <2>3. pos + 1 <= Len(text) BY <2>1
  <2> QED BY <1>2, <2>1, <2>2, <2>3 DEF Goto
<1>5. count \in Nat /\ count' = count + 1 /\ count' \in Nat
  <2>1. count \in Nat /\ count + 1 \in Nat BY <1>1, TurnIs
  <2> QED BY <1>2, <1>4, <2>1, Counted
<1>6. "after_value" \in States /\ "after_value" \notin Kinds /\ state \notin Kinds
  BY <1>2 DEF States, Kinds
<1>7. \A t : IsTail(t) => \A x : Reads(state, t, count, Ch, x) <=> Awaits("after_value", t, count', x)
  BY <1>2, <1>5, ScalarReads
<1> QED BY <1>1, <1>2, <1>3, <1>5, <1>6, <1>7, ConsumeSame

------------------------------------------------------------------------------
(* Containers are opened and closed *)

\* The characters that open containers.
LEMMA OpensIs ==
  /\ DOMAIN Opens = {OB, "["}
  /\ Opens[OB] = "object" /\ Opens["["] = "array"
<1>1. DOMAIN Opens = {OB, "["} BY DEF Opens, OB
<1>2. Opens[OB] = "object" BY DEF Opens, OB
<1>3. "[" # OB BY MarksApart
<1>4. Opens["["] = "array" BY <1>3 DEF Opens, OB
<1> QED BY <1>1, <1>2, <1>4

\* The characters that close them.
LEMMA ClosesAre == Closes["object"] = CB /\ Closes["array"] = "]"
BY DEF Closes, CB

\* A container is opened: what was left before it is left around it.
LEMMA BeginContainerInv ==
  ASSUME IInv, Turn, BeginContainer
  PROVE  IInv'
<1>1. PICK T : Inv(T) BY DEF IInv
<1> DEFINE kind == Opens[Ch]
<1>2. /\ state = "element" /\ Ch \in DOMAIN Opens
      /\ event' = Event("begin_node", kind, depth)
      /\ stack' = [stack EXCEPT ![depth] = kind] /\ depth' = depth + 1
      /\ Goto(kind, pos)
  BY DEF BeginContainer
<1>3. (Ch = OB /\ kind = "object") \/ (Ch = "[" /\ kind = "array") BY <1>2, OpensIs
<1>4. Ch # NUL BY <1>3, InnerApart
<1>5. kind \in Kinds /\ kind \in States /\ state \in States BY <1>2, <1>3 DEF Kinds, States
<1>6. /\ pos < Len(text) /\ pos \in Nat /\ Len(text) \in Nat /\ depth \in Nat
      /\ depth \in 0 .. MaxDepth /\ depth < MaxDepth /\ DOMAIN stack = Level /\ count \in Nat
      /\ Tails(T, depth, stack)
  BY <1>1, <1>4, TurnIs
<1>7. count' = count BY <1>2, Counted
<1> HIDE DEF kind
<1>8. depth \in 0 .. MaxDepth - 1 /\ depth + 1 \in 0 .. MaxDepth /\ depth + 1 > 0 /\ depth + 1 - 1 = depth
  BY <1>6, MaxDepthAssumption
<1>9. PICK U : Tails(U, depth + 1, stack') /\ \A l \in 0 .. depth : U[l] = T[l]
  <2>1. PICK sp, k : k = depth /\ sp = stack' OBVIOUS
  <2>2. sp = [stack EXCEPT ![k] = kind] /\ k \in 0 .. MaxDepth - 1 /\ Tails(T, k, stack)
    BY <1>2, <1>6, <1>8, <2>1
  <2>4. DOMAIN stack = Level /\ kind \in Kinds BY <1>5, <1>6
  <2>5. \E V : /\ Tails(V, k + 1, sp)
               /\ \A l \in 0 .. k : V[l] = T[l]
               /\ \A u : u \in V[k + 1] <=> \E t \in T[k] : u \in Around(kind, t)
    BY <2>2, <2>4, TailsPush
  <2>3. PICK V : Tails(V, k + 1, sp) /\ \A l \in 0 .. k : V[l] = T[l] BY <2>5
  <2> QED BY <2>1, <2>3
<1>10. U[depth] = T[depth]
  <2>1. depth \in 0 .. depth BY <1>6
  <2> QED BY <1>9, <2>1
<1>11. DOMAIN stack' = Level /\ stack'[depth] = kind
  <2>1. depth \in Level BY <1>8 DEF Level
  <2> QED BY <1>2, <1>6, <2>1
<1>12. state' = kind /\ pos' = pos + 1 /\ more' = (pos + 1 <= Len(text) /\ depth' < MaxDepth)
  BY <1>2 DEF Goto
<1>13. Opened(state', depth', stack')
  BY <1>2, <1>8, <1>11, <1>12 DEF Opened
<1>14. LevelOf(state, depth) = depth /\ LevelOf(kind, depth + 1) = depth
  BY <1>2, <1>5, <1>8 DEF LevelOf, Kinds
<1>15. \A t : IsTail(t) => \A x : Reads(state, t, count, Ch, x) <=> Awaits(kind, t, count, x)
  BY <1>2, <1>3, <1>6, ScalarReads
<1>16. \A t \in T[depth] : IsTail(t)
  <2>1. depth \in 0 .. depth BY <1>6
  <2> QED BY <1>6, <2>1 DEF Tails
<1>17. \A x : Then(T, state, depth, count, Ch, x) <=> Now(U, kind, depth + 1, count, x)
  BY <1>10, <1>14, <1>15, <1>16 DEF Then, Now
<1>18. \A x : Then(T, state, depth, count, Ch, x) <=> Now(U, state', depth', count', x)
  BY <1>2, <1>7, <1>12, <1>17
<1>19. more /\ text' = text /\ closed' = closed /\ grammar' = grammar BY DEF Turn
<1>20. depth' \in 0 .. MaxDepth /\ count' \in Nat /\ Tails(U, depth', stack') /\ state' \in States
  BY <1>2, <1>5, <1>6, <1>7, <1>8, <1>9, <1>12
<1> QED BY <1>1, <1>5, <1>6, <1>11, <1>12, <1>13, <1>18, <1>19, <1>20, Consume

\* What is left at the current level of a container is left around its end.
LEMMA Inside1 ==
  ASSUME NEW T, NEW d \in Nat, d > 0, NEW st, Tails(T, d, st)
  PROVE  /\ st[d - 1] \in Kinds
         /\ \A u : u \in T[d] <=> \E t \in T[d - 1] : u \in Around(st[d - 1], t)
         /\ \A t \in T[d - 1] : IsTail(t) /\ t \in Rest /\ Quick(0, t)
         /\ \A t \in T[d] : IsTail(t) /\ t \in Rest /\ Quick(0, t)
<1> DEFINE k == d - 1
<1>1. k \in 0 .. d - 1 /\ k + 1 = d /\ k \in 0 .. d /\ d \in 0 .. d OBVIOUS
<1>2. /\ st[k] \in Kinds
      /\ \A u : u \in T[k + 1] <=> \E t \in T[k] : u \in Around(st[k], t)
  <2> HIDE DEF k
  <2> QED BY <1>1 DEF Tails
<1>3. (\A t \in T[k] : IsTail(t)) /\ \A t \in T[d] : IsTail(t)
  <2> HIDE DEF k
  <2> QED BY <1>1 DEF Tails
<1>4. \A u : u \in T[d] <=> \E t \in T[k] : u \in Around(st[k], t) BY <1>1, <1>2
<1> QED BY <1>2, <1>3, <1>4 DEF IsTail

\* No member or element begins with a closing bracket.
LEMMA EndReads ==
  ASSUME NEW kind \in Kinds, NEW t \in Rest, NEW u \in Around(kind, t), NEW n \in Nat,
         NEW c \in {CB, "]"}, NEW x
  PROVE  ~Reads(AfterComma[kind], u, n, c, x)
<1>1. u \in Rest /\ Quick(0, u) BY AroundRests
<1>2. /\ c \notin Space /\ c # DQ /\ c # OB /\ c # "[" /\ c # "0" /\ c # "1" /\ c # "-"
      /\ c # "true"
  BY SpaceApart, MarksApart
<1>3. CASE AfterComma[kind] = "member" BY <1>1, <1>2, <1>3, ReadsMember
<1>4. CASE AfterComma[kind] = "array_element" BY <1>1, <1>2, <1>4, ReadsElement
<1> QED BY <1>3, <1>4, AroundRests

\* The end of the container at whose beginning or in which the parser is.
LEMMA EndContainerInv ==
  ASSUME IInv, Turn, EndContainer
  PROVE  IInv'
<1>1. PICK T : Inv(T) BY DEF IInv
<1>2. PICK kind \in MayClose :
        /\ Ch = Closes[kind] /\ depth' = depth - 1 /\ event' = Event("end_node", kind, depth - 1)
        /\ stack' = stack /\ Goto("after_value", pos)
  BY DEF EndContainer
<1>3. /\ state \in States /\ pos \in Nat /\ Len(text) \in Nat /\ depth \in Nat
      /\ depth \in 0 .. MaxDepth /\ depth < MaxDepth /\ DOMAIN stack = Level
      /\ count \in Nat /\ count + 1 \in Nat
      /\ Opened(state, depth, stack) /\ Tails(T, depth, stack)
  BY <1>1, TurnIs
<1>4. depth > 0 /\ kind = stack[depth - 1] /\ (state = kind \/ state = "after_value")
  <2>1. CASE state \in Kinds
    <3>1. MayClose = {state} BY <2>1 DEF MayClose, Kinds
    <3> QED BY <1>2, <1>3, <2>1, <3>1 DEF Opened
  <2>2. CASE state = "after_value" /\ depth > 0
    <3>1. MayClose = {Inner} BY <2>2 DEF MayClose
    <3> QED BY <1>2, <2>2, <3>1 DEF Inner
  <2>3. CASE state \notin Kinds /\ ~(state = "after_value" /\ depth > 0)
    <3>1. MayClose = {} BY <2>3 DEF MayClose, Kinds
    <3> QED BY <1>2, <3>1
  <2> QED BY <2>1, <2>2, <2>3
<1> DEFINE l == depth - 1
<1>5. l \in Nat /\ l \in 0 .. depth /\ l \in 0 .. MaxDepth /\ l < MaxDepth BY <1>3, <1>4, MaxDepthAssumption
<1>6. /\ kind \in Kinds
      /\ \A u : u \in T[depth] <=> \E t \in T[l] : u \in Around(kind, t)
      /\ \A t \in T[l] : t \in Rest /\ Quick(0, t)
      /\ \A t \in T[depth] : t \in Rest /\ Quick(0, t)
  BY <1>3, <1>4, Inside1
<1>7. Ch \in {CB, "]"} BY <1>2, <1>6, ClosesIs
<1>8. Ch # NUL /\ Ch \notin Space /\ Ch # CM /\ Ch # DQ
  BY <1>7, InnerApart, SpaceApart, MarksApart
<1>9. pos < Len(text) /\ pos + 1 <= Len(text)
  <2>1. pos < Len(text) BY <1>1, <1>8, TurnIs
  <2> QED BY <1>3, <2>1
<1>10. /\ state' = "after_value" /\ pos' = pos + 1
       /\ more' = (pos + 1 <= Len(text) /\ depth' < MaxDepth)
  BY <1>2 DEF Goto
<1>11. more' BY <1>2, <1>5, <1>9, <1>10
<1>12. count' = count + 1 BY <1>2, <1>11, Counted
<1>13. Tails(T, l, stack) BY <1>3, <1>5, TailsPop
<1>14. "after_value" \in States /\ "after_value" \notin Kinds BY DEF States, Kinds
<1> HIDE DEF l
<1>15. ASSUME NEW x
       PROVE  Then(T, state, depth, count, Ch, x) <=> \E t \in T[l] : Awaits("after_value", t, count + 1, x)
  <2>1. CASE state = kind
    <3>1. LevelOf(state, depth) = l BY <1>6, <2>1 DEF LevelOf, l
    <3>2. ASSUME NEW t \in T[l]
          PROVE  Reads(kind, t, count, Ch, x) <=> Awaits("after_value", t, count + 1, x)
      <4>1. t \in Rest /\ Quick(0, t) BY <1>6
      <4>2. Reads(kind, t, count, Ch, x) <=>
              \/ Awaits("after_value", t, count + 1, x)
              \/ \E u \in Around(kind, t) : Reads(AfterComma[kind], u, count, Ch, x)
        BY <1>2, <1>3, <1>6, <1>8, <4>1, ReadsContainer
      <4>3. \A u \in Around(kind, t) : ~Reads(AfterComma[kind], u, count, Ch, x)
        BY <1>3, <1>6, <1>7, <1>8, <4>1, EndReads
      <4> QED BY <4>2, <4>3
    <3> QED BY <2>1, <3>1, <3>2 DEF Then
  <2>2. CASE state = "after_value"
    <3>1. LevelOf(state, depth) = depth BY <1>14, <2>2 DEF LevelOf
    <3>2. \A u \in T[depth] : Reads("after_value", u, count, Ch, x) <=> Leads(u, count, Ch, x)
      BY <1>3, <1>6, <1>8, ReadsAfterValue
    <3>3. \A t \in T[l] : (\E u \in Around(kind, t) : Leads(u, count, Ch, x)) <=>
                            Awaits("after_value", t, count + 1, x)
      <4> TAKE t \in T[l]
      <4>1. t \in Rest /\ Quick(0, t) /\ kind \in Kinds /\ count \in Nat BY <1>3, <1>6
      <4>2. \A c, y : (\E u \in Around(kind, t) : Leads(u, count, c, y)) <=>
              \/ c = Closes[kind] /\ Awaits("after_value", t, count + 1, y)
              \/ c = CM /\ \E u \in Around(kind, t) : Awaits(AfterComma[kind], u, count, y)
        BY <4>1, LeadsAround
      <4> QED BY <1>2, <1>8, <4>2
    <3> QED BY <1>6, <2>2, <3>1, <3>2, <3>3 DEF Then
  <2> QED BY <1>4, <2>1, <2>2
<1>16. \A x : Then(T, state, depth, count, Ch, x) <=> Now(T, state', depth', count', x)
  <2>1. LevelOf("after_value", l) = l BY <1>14 DEF LevelOf
  <2>2. depth' = l BY <1>2 DEF l
  <2> QED BY <1>10, <1>12, <1>15, <2>1, <2>2 DEF Now
<1>17. Opened(state', depth', stack') BY <1>10, <1>14 DEF Opened
<1>18. /\ depth' \in 0 .. MaxDepth /\ DOMAIN stack' = Level /\ count' \in Nat
       /\ Tails(T, depth', stack') /\ state' \in States
  <2>1. depth' = l BY <1>2 DEF l
  <2>2. depth' \in 0 .. MaxDepth /\ Tails(T, depth', stack') BY <1>2, <1>5, <1>13, <2>1
  <2>3. DOMAIN stack' = Level BY <1>2, <1>3
  <2>4. count' \in Nat BY <1>3, <1>12
  <2> QED BY <1>10, <1>14, <2>2, <2>3, <2>4
<1>19. more /\ text' = text /\ closed' = closed /\ grammar' = grammar BY DEF Turn
<1> QED BY <1>1, <1>3, <1>9, <1>10, <1>16, <1>17, <1>18, <1>19, Consume

\* What "put back" means.
LEMMA UngetIs ==
  ASSUME NEW T, Inv(T), Turn, KeepDepth, NEW s, Unget(s)
  PROVE  /\ state' = s /\ pos' = pos /\ depth' = depth /\ stack' = stack
         /\ more' = (pos <= Len(text) /\ depth < MaxDepth) /\ more'
<1>1. pos \in Nat /\ Len(text) \in Nat /\ pos <= Len(text) /\ depth < MaxDepth BY TurnIs
<1>2. depth' = depth /\ stack' = stack BY DEF KeepDepth
<1>3. pos - 1 + 1 = pos BY <1>1
<1>4. state' = s /\ pos' = pos - 1 + 1 /\ more' = (pos - 1 + 1 <= Len(text) /\ depth' < MaxDepth)
  BY DEF Unget, Goto
<1> QED BY <1>1, <1>2, <1>3, <1>4

\* The first member or element is read as any other.
LEMMA FirstItem ==
  ASSUME NEW T, Inv(T), Turn, state \in Kinds, Ch \notin Space, Ch # NUL, Ch # Closes[state],
         KeepDepth, Silent, Unget(AfterComma[state])
  PROVE  IInv'
<1> DEFINE s == AfterComma[state]
           l == depth - 1
<1>1. /\ state \in States /\ pos \in Nat /\ pos < Len(text) /\ depth \in Nat
      /\ count \in Nat /\ Opened(state, depth, stack) /\ Tails(T, depth, stack)
  BY TurnIs
<1>2. depth > 0 /\ stack[depth - 1] = state BY <1>1 DEF Opened
<1>3. /\ \A u : u \in T[depth] <=> \E t \in T[l] : u \in Around(state, t)
      /\ \A t \in T[l] : t \in Rest /\ Quick(0, t)
  BY <1>1, <1>2, Inside1
<1>4. s \in {"member", "array_element"} BY ClosingNothing, AroundRests
<1>5. s \in States /\ s \notin Kinds BY <1>4 DEF States, Kinds
<1>6. LevelOf(state, depth) = l /\ LevelOf(s, depth) = depth BY <1>5 DEF LevelOf
<1>7. /\ state' = s /\ pos' = pos /\ depth' = depth /\ stack' = stack
      /\ more' = (pos <= Len(text) /\ depth < MaxDepth)
  BY UngetIs
<1>8. count' = count BY Counted
<1> HIDE DEF l, s
<1>9. \A t \in T[l] : \A x : Reads(state, t, count, Ch, x) <=>
                               \E u \in Around(state, t) : Reads(s, u, count, Ch, x)
  <2> TAKE t \in T[l]
  <2>1. t \in Rest /\ Quick(0, t) /\ state \in Kinds BY <1>3
  <2>2. \A c, x : Reads(state, t, count, c, x) <=>
              \/ c \in Space /\ Awaits(state, t, count, x)
              \/ c = Closes[state] /\ Awaits("after_value", t, count + 1, x)
              \/ c \notin Space /\ \E u \in Around(state, t) : Reads(AfterComma[state], u, count, c, x)
    BY <1>1, <2>1, ReadsContainer
  <2> QED BY <2>2 DEF s
<1>10. \A x : Then(T, state, depth, count, Ch, x) <=> Then(T, s, depth, count, Ch, x)
  BY <1>3, <1>6, <1>9 DEF Then
<1>11. \A x : Then(T, state, depth, count, Ch, x) <=> Then(T, state', depth, count', Ch, x)
  BY <1>7, <1>8, <1>10
<1>12. state' \in States /\ count' \in Nat /\ Opened(state', depth, stack)
  BY <1>1, <1>5, <1>7, <1>8 DEF Opened
<1>13. pos # Len(text) BY <1>1
<1>14. more /\ text # <<>> /\ text' = text /\ closed' = closed /\ grammar' = grammar BY DEF Turn
<1> QED BY <1>1, <1>7, <1>11, <1>12, <1>13, <1>14, PutBack

\* The first member of an object.
LEMMA FirstMemberInv ==
  ASSUME IInv, Turn, FirstMember
  PROVE  IInv'
<1>1. PICK T : Inv(T) BY DEF IInv
<1>2. state = "object" /\ Ch = DQ /\ KeepDepth /\ Silent /\ Unget("member") BY DEF FirstMember
<1>3. Ch # NUL BY <1>2, InnerApart
<1>4. Ch \notin Space BY <1>2, SpaceApart
<1>5. Ch # Closes["object"] BY <1>2, ClosesAre, MarksApart
<1>6. state \in Kinds /\ AfterComma[state] = "member" BY <1>2 DEF Kinds, AfterComma
<1> QED BY <1>1, <1>2, <1>3, <1>4, <1>5, <1>6, FirstItem

\* The first element of an array.
LEMMA FirstElementInv ==
  ASSUME IInv, Turn, FirstElement
  PROVE  IInv'
<1>1. PICK T : Inv(T) BY DEF IInv
<1>2. /\ state = "array" /\ Ch \notin Space \cup {"]", NUL}
      /\ KeepDepth /\ Silent /\ Unget("array_element")
  BY DEF FirstElement
<1>3. Ch # NUL /\ Ch \notin Space /\ Ch # "]" BY <1>2
<1>4. Ch # Closes["array"] BY <1>3, ClosesAre
<1>5. state \in Kinds /\ AfterComma[state] = "array_element" BY <1>2 DEF Kinds, AfterComma
<1> QED BY <1>1, <1>2, <1>3, <1>4, <1>5, FirstItem

\* An element is a value.
LEMMA ElementInv ==
  ASSUME IInv, Turn, Element
  PROVE  IInv'
<1>1. PICK T : Inv(T) BY DEF IInv
<1>2. /\ state = "array_element" /\ Ch # NUL
      /\ depth' = depth /\ stack' = stack /\ Silent /\ Goto("element", pos - 1)
  BY DEF Element, Unget
<1>3. /\ state \in States /\ pos \in Nat /\ pos < Len(text) /\ Len(text) \in Nat /\ depth \in Nat
      /\ count \in Nat
  BY <1>1, <1>2, TurnIs
<1>4. pos - 1 + 1 = pos BY <1>3
<1>5. state' = "element" /\ pos' = pos /\ more' = (pos <= Len(text) /\ depth < MaxDepth)
  <2>1. /\ state' = "element" /\ pos' = pos - 1 + 1
        /\ more' = (pos - 1 + 1 <= Len(text) /\ depth' < MaxDepth)
    BY <1>2 DEF Goto
  <2> QED BY <1>2, <1>4, <2>1
<1>6. count' = count BY <1>2, Counted
<1>7. "element" \in States /\ "element" \notin Kinds /\ state \notin Kinds BY <1>2 DEF States, Kinds
<1>8. LevelOf("element", depth) = depth /\ LevelOf(state, depth) = depth BY <1>7 DEF LevelOf
<1>9. \A t \in T[depth] : t \in Rest /\ Quick(0, t) BY <1>1, <1>3, <1>8, NowIs
<1>10. \A t \in T[depth] : \A x :
         Reads(state, t, count, Ch, x) <=> Reads("element", t, count, Ch, x)
  BY <1>2, <1>3, <1>9, ReadsElement
<1>11. \A x : Then(T, state, depth, count, Ch, x) <=> Then(T, state', depth, count', Ch, x)
  BY <1>5, <1>6, <1>8, <1>10 DEF Then
<1>12. state' \in States /\ count' \in Nat /\ Opened(state', depth, stack)
  BY <1>3, <1>5, <1>6, <1>7 DEF Opened
<1>13. pos # Len(text) BY <1>3
<1>14. more /\ text # <<>> /\ text' = text /\ closed' = closed /\ grammar' = grammar BY DEF Turn
<1> QED BY <1>1, <1>2, <1>3, <1>5, <1>11, <1>12, <1>13, <1>14, PutBack

------------------------------------------------------------------------------
(* What a state does not move on *)

\* Where no transition of the table applies, the character is none of its characters.
LEMMA NotMoving ==
  ASSUME ~Moving
  PROVE  /\ state \in {"element", "object", "member", "colon", "array", "array_element",
                       "after_value"} => Ch \notin Space
         /\ state = "colon" => Ch # ":"
         /\ state \in {"string_value", "string_key"} => Ch \notin Plain /\ Ch # BS
         /\ state \in {"string_escape_value", "string_escape_key"} => Ch \notin Escaped
         /\ state = "number_minus" => Ch # "0" /\ Ch # "1"
         /\ state = "number_one_nine" => Ch \notin Digit /\ Ch # "." /\ Ch # "e"
         /\ state = "number_zero" => Ch # "." /\ Ch # "e"
         /\ state \in {"number_frac_first", "number_frac_digits", "number_exp_first",
                       "number_exp_digits", "number_exp_sign"} => Ch \notin Digit
         /\ state = "number_frac_digits" => Ch # "e"
         /\ state = "number_exp_sign" => Ch \notin {"+", "-"}
<1>1. \A s, C, u : <<s, C, u>> \in Moves /\ s = state => Ch \notin C BY DEF Moving
<1>2. /\ \A s \in {"element", "object", "member", "colon", "array", "array_element", "after_value"} :
           <<s, Space, s>> \in Moves
      /\ <<"colon", {":"}, "element">> \in Moves
  BY DEF Moves, SpaceMoves, ColonMove
<1>3. /\ <<"string_value", Plain, "string_value">> \in Moves
      /\ <<"string_value", {BS}, "string_escape_value">> \in Moves
      /\ <<"string_escape_value", Escaped, "string_value">> \in Moves
      /\ <<"string_key", Plain, "string_key">> \in Moves
      /\ <<"string_key", {BS}, "string_escape_key">> \in Moves
      /\ <<"string_escape_key", Escaped, "string_key">> \in Moves
  BY DEF Moves, StringMoves
<1>4. /\ <<"number_minus", {"0"}, "number_zero">> \in Moves
      /\ <<"number_minus", {"1"}, "number_one_nine">> \in Moves
      /\ <<"number_one_nine", Digit, "number_one_nine">> \in Moves
      /\ <<"number_zero", {"."}, "number_frac_first">> \in Moves
      /\ <<"number_one_nine", {"."}, "number_frac_first">> \in Moves
      /\ <<"number_frac_first", Digit, "number_frac_digits">> \in Moves
      /\ <<"number_frac_digits", Digit, "number_frac_digits">> \in Moves
      /\ <<"number_exp_sign", {"+", "-"}, "number_exp_first">> \in Moves
      /\ <<"number_exp_sign", Digit, "number_exp_digits">> \in Moves
      /\ <<"number_exp_first", Digit, "number_exp_digits">> \in Moves
      /\ <<"number_exp_digits", Digit, "number_exp_digits">> \in Moves
  BY DEF Moves, NumberMoves
<1>5. \A s \in {"number_zero", "number_one_nine", "number_frac_digits"} :
        <<s, {"e"}, "number_exp_sign">> \in Moves
  <2>1. \A s \in {"number_zero", "number_one_nine", "number_frac_digits"} :
          s \in NumberEnds \ {"number_exp_digits"}
    BY DEF NumberEnds
  <2> QED BY <2>1 DEF Moves, NumberMoves
<1>6. /\ state \in {"element", "object", "member", "colon", "array", "array_element",
                    "after_value"} => Ch \notin Space
      /\ state = "colon" => Ch # ":"
  BY <1>1, <1>2
<1>7. /\ state \in {"string_value", "string_key"} => Ch \notin Plain /\ Ch # BS
      /\ state \in {"string_escape_value", "string_escape_key"} => Ch \notin Escaped
  BY <1>1, <1>3
<1>8. /\ state = "number_minus" => Ch # "0" /\ Ch # "1"
      /\ state = "number_one_nine" => Ch \notin Digit /\ Ch # "."
      /\ state = "number_zero" => Ch # "."
      /\ state \in {"number_frac_first", "number_frac_digits", "number_exp_first",
                    "number_exp_digits", "number_exp_sign"} => Ch \notin Digit
      /\ state = "number_exp_sign" => Ch \notin {"+", "-"}
  BY <1>1, <1>4
<1>9. state \in {"number_zero", "number_one_nine", "number_frac_digits"} => Ch # "e"
  BY <1>1, <1>5
<1> QED BY <1>6, <1>7, <1>8, <1>9

\* The end of a number is found after it.
LEMMA EndNumberInv ==
  ASSUME IInv, Turn, EndNumber
  PROVE  IInv'
<1>1. PICK T : Inv(T) BY DEF IInv
<1>2. /\ state \in NumberEnds /\ ~Moving /\ KeepDepth
      /\ event' = Event("value", "number", depth) /\ Unget("after_value")
  BY DEF EndNumber
<1>3. /\ state' = "after_value" /\ pos' = pos /\ depth' = depth /\ stack' = stack
      /\ more' = (pos <= Len(text) /\ depth < MaxDepth) /\ more'
  BY <1>1, <1>2, UngetIs
<1>4. /\ state \in States /\ pos \in Nat /\ Len(text) \in Nat /\ depth \in Nat
      /\ count \in Nat /\ count + 1 \in Nat /\ (pos < Len(text) \/ closed)
  BY <1>1, TurnIs
<1>5. count' = count + 1 BY <1>2, <1>3, Counted
<1>6. "after_value" \in States /\ "after_value" \notin Kinds /\ state \notin Kinds
  BY <1>2 DEF States, Kinds, NumberEnds
<1>7. LevelOf("after_value", depth) = depth /\ LevelOf(state, depth) = depth BY <1>6 DEF LevelOf
<1>8. \A t \in T[depth] : t \in Rest /\ Quick(0, t) BY <1>1, <1>4, <1>7, NowIs
<1>9. ASSUME NEW t \in T[depth]
      PROVE  /\ \A x : Reads(state, t, count, Ch, x) <=> Reads("after_value", t, count + 1, Ch, x)
             /\ \A m : Finishes(state, t, count, m) <=> Finishes("after_value", t, count + 1, m)
  <2>1. t \in Rest /\ Quick(0, t) BY <1>8
  <2>2. CASE state \in {"number_zero", "number_one_nine"}
    BY <1>2, <1>4, <2>1, <2>2, NotMoving, ReadsInt
  <2>3. CASE state = "number_frac_digits" BY <1>2, <1>4, <2>1, <2>3, NotMoving, ReadsFrac
  <2>4. CASE state = "number_exp_digits" BY <1>2, <1>4, <2>1, <2>4, NotMoving, ReadsExp
  <2> QED BY <1>2, <2>2, <2>3, <2>4 DEF NumberEnds
<1>10. \A x : Then(T, state, depth, count, Ch, x) <=> Then(T, state', depth, count', Ch, x)
  BY <1>3, <1>5, <1>7, <1>9 DEF Then
<1>11. \A m : Over(T, state, depth, count, m) <=> Over(T, state', depth, count', m)
  BY <1>3, <1>5, <1>7, <1>9 DEF Over
<1>12. state' \in States /\ count' \in Nat /\ Opened(state', depth, stack)
  BY <1>3, <1>4, <1>5, <1>6 DEF Opened
<1>13. more /\ text # <<>> /\ text' = text /\ closed' = closed /\ grammar' = grammar BY DEF Turn
<1> QED BY <1>1, <1>3, <1>4, <1>10, <1>11, <1>12, <1>13, PutBack

\* A comma in a container.
LEMMA CommaInv ==
  ASSUME IInv, Turn, Comma
  PROVE  IInv'
<1>1. PICK T : Inv(T) BY DEF IInv
<1> DEFINE kind == stack[depth - 1]
           s == AfterComma[kind]
           l == depth - 1
<1>2. state = "after_value" /\ depth > 0 /\ Ch = CM /\ KeepDepth /\ Silent /\ Goto(s, pos)
  BY DEF Comma, CM, Inner
<1>3. /\ state \in States /\ pos \in Nat /\ Len(text) \in Nat /\ depth \in Nat /\ count \in Nat
      /\ depth \in 0 .. MaxDepth /\ Tails(T, depth, stack) /\ DOMAIN stack = Level
  BY <1>1, TurnIs
<1>4. /\ kind \in Kinds
      /\ \A u : u \in T[depth] <=> \E t \in T[l] : u \in Around(kind, t)
      /\ \A t \in T[l] : t \in Rest /\ Quick(0, t)
      /\ \A t \in T[depth] : t \in Rest /\ Quick(0, t)
  BY <1>2, <1>3, Inside1
<1>5. s \in {"member", "array_element"} BY <1>4, ClosingNothing, AroundRests
<1>6. s \in States /\ s \notin Kinds /\ state \notin Kinds BY <1>2, <1>5 DEF States, Kinds
<1>7. /\ Ch # NUL /\ Ch \notin Space /\ Ch # Closes[kind]
  <2>1. CM # NUL BY DEF CM, NUL
  <2>2. Closes[kind] \in {CB, "]"} BY <1>4, ClosesIs
  <2> QED BY <1>2, <2>1, <2>2, SpaceApart, MarksApart
<1>8. count' = count BY <1>2, Counted
<1>9. LevelOf(state, depth) = depth /\ LevelOf(s, depth) = depth BY <1>6 DEF LevelOf
<1>10. /\ depth' = depth /\ stack' = stack /\ state' = s /\ pos' = pos + 1
       /\ more' = (pos + 1 <= Len(text) /\ depth' < MaxDepth)
  BY <1>2 DEF KeepDepth, Goto
<1> HIDE DEF kind, s, l
<1>11. \A u \in T[depth] : \A x : Reads("after_value", u, count, Ch, x) <=> Leads(u, count, Ch, x)
  BY <1>3, <1>4, <1>7, ReadsAfterValue
<1>12. \A t \in T[l] : \A x : (\E u \in Around(kind, t) : Leads(u, count, Ch, x)) <=>
                               \E u \in Around(kind, t) : Awaits(s, u, count, x)
  <2> TAKE t \in T[l]
  <2>1. t \in Rest /\ Quick(0, t) /\ kind \in Kinds /\ count \in Nat BY <1>3, <1>4
  <2>2. \A c, y : (\E u \in Around(kind, t) : Leads(u, count, c, y)) <=>
              \/ c = Closes[kind] /\ Awaits("after_value", t, count + 1, y)
              \/ c = CM /\ \E u \in Around(kind, t) : Awaits(AfterComma[kind], u, count, y)
    BY <2>1, LeadsAround
  <2> QED BY <1>2, <1>7, <2>2 DEF s
<1>13. \A x : Then(T, state, depth, count, Ch, x) <=> \E u \in T[depth] : Leads(u, count, Ch, x)
  BY <1>2, <1>9, <1>11 DEF Then
<1>14. \A x : Now(T, s, depth, count, x) <=> \E u \in T[depth] : Awaits(s, u, count, x)
  BY <1>9 DEF Now
<1>15. \A x : Then(T, state, depth, count, Ch, x) <=> Now(T, s, depth, count, x)
  BY <1>4, <1>12, <1>13, <1>14
<1>16. \A x : Then(T, state, depth, count, Ch, x) <=> Now(T, state', depth', count', x)
  BY <1>8, <1>10, <1>15
<1>17. /\ state' \in States /\ count' \in Nat /\ Opened(state', depth', stack')
       /\ depth' \in 0 .. MaxDepth /\ DOMAIN stack' = Level /\ Tails(T, depth', stack')
  BY <1>3, <1>6, <1>8, <1>10 DEF Opened
<1>18. more /\ text' = text /\ closed' = closed /\ grammar' = grammar BY DEF Turn
<1>19. pos < Len(text) BY <1>1, <1>7, TurnIs
<1> QED BY <1>1, <1>3, <1>10, <1>16, <1>17, <1>18, <1>19, Consume

\* The end of the text.
LEMMA DoneInv ==
  ASSUME IInv, Turn, Done
  PROVE  IInv'
<1>1. PICK T : Inv(T) BY DEF IInv
<1>2. /\ state = "after_value" /\ depth = 0 /\ pos = Len(text)
      /\ KeepDepth /\ Silent /\ Goto("done", pos)
  BY DEF Done, EndOfText
<1>3. pos \in Nat /\ Len(text) \in Nat /\ (pos < Len(text) \/ closed) BY <1>1, TurnIs
<1>4. closed /\ ~(pos + 1 <= Len(text)) BY <1>2, <1>3
<1>5. /\ state' = "done" /\ pos' = pos + 1 /\ more' = FALSE /\ depth' = depth /\ stack' = stack
  BY <1>2, <1>4 DEF Goto, KeepDepth
<1>6. count' = count BY <1>2, Counted
<1>7. text # <<>> /\ text' = text /\ closed' = closed /\ grammar' = grammar BY DEF Turn
<1> QED BY <1>1, <1>2, <1>4, <1>5, <1>6, <1>7, Finish

------------------------------------------------------------------------------
(* Errors *)

\* The characters that a state takes other than by a move.
LEMMA TakesIs ==
  /\ state = "element" => Takes = DOMAIN Opens \cup DOMAIN ScalarState \cup {"true"}
  /\ state = "object" => Takes = {CB, DQ}
  /\ state \in {"array", "array_element"} => Takes = Char \ {NUL}
  /\ state \in {"member", "string_value", "string_key"} => Takes = {DQ}
  /\ state \in NumberEnds => Takes = Char
  /\ (state = "after_value" /\ depth > 0) => Takes = {CM, Closes[Inner]}
<1>1. state = "element" => Takes = DOMAIN Opens \cup DOMAIN ScalarState \cup {"true"}
  BY DEF Takes, NumberEnds
<1>2. state = "object" => Takes = {CB, DQ} BY DEF Takes, NumberEnds, CB
<1>3. state \in {"array", "array_element"} => Takes = Char \ {NUL} BY DEF Takes, NumberEnds
<1>4. state \in {"member", "string_value", "string_key"} => Takes = {DQ} BY DEF Takes, NumberEnds
<1>5. state \in NumberEnds => Takes = Char BY DEF Takes, NumberEnds
<1>6. (state = "after_value" /\ depth > 0) => Takes = {CM, Closes[Inner]}
  BY DEF Takes, NumberEnds, CM
<1> QED BY <1>1, <1>2, <1>3, <1>4, <1>5, <1>6

\* No element begins with the byte 0.
LEMMA NoNul ==
  ASSUME NEW u \in Rest, Quick(0, u), NEW n \in Nat
  PROVE  /\ \A x : ~Reads("array_element", u, n, NUL, x)
         /\ \A m : ~Finishes("array_element", u, n, m)
<1>1. NUL \notin Space BY InnerApart
<1>2. /\ NUL # OB /\ NUL # "[" /\ NUL # DQ /\ NUL # "0" /\ NUL # "1" /\ NUL # "-" /\ NUL # "true"
  BY DEF NUL, OB, DQ
<1> QED BY <1>1, <1>2, ReadsElement

\* No number ends before its first decimal.
LEMMA FracFirstEnds ==
  ASSUME NEW t \in Rest, NEW n \in Nat
  PROVE  \A m : ~Finishes("number_frac_first", t, n, m)
<1> DEFINE d == Cons("digits", Cons("exp", ValueEnd(t)))
<1>1. d \in Rest
  <2>1. Cons("exp", ValueEnd(t)) \in Rest /\ "digits" \in Symbol BY Rests, WrittenOut
  <2> QED BY <2>1, ConsParts
<1>2. Expected("number_frac_first", t) = {Cons(c, d) : c \in Digit} BY ExpectedIs
<1> HIDE DEF d
<1>3. \A c \in Digit : c \in Char BY Chars
<1>4. \A c \in Digit : \A m : m \notin Ends(D(Cons(c, d), n)) BY <1>1, <1>3, LeadsChar
<1> QED BY <1>2, <1>4 DEF Finishes

\* A character that is not taken leads nowhere, and the text cannot end before it.
LEMMA NotTaken ==
  ASSUME state \in States, state # "after_value", ~Moving, Ch \in Char, Ch \notin Takes,
         NEW t, IsTail(t), NEW n \in Nat
  PROVE  /\ \A x : ~Reads(state, t, n, Ch, x)
         /\ \A m : ~Finishes(state, t, n, m)
<1>1. t \in Rest /\ Quick(0, t) BY DEF IsTail
<1>2. state \notin NumberEnds BY TakesIs
<1>3. CASE state = "element"
  <2>1. Ch \notin Space BY <1>3, NotMoving
  <2>2. DOMAIN ScalarState = {DQ, "-", "0", "1"} BY DEF ScalarState
  <2>3. Ch \notin {OB, "["} /\ Ch \notin {DQ, "-", "0", "1"} /\ Ch # "true"
    BY <1>3, <2>2, TakesIs, OpensIs
  <2> QED BY <1>1, <1>3, <2>1, <2>3, ReadsElement
<1>4. CASE state = "array_element"
  <2>1. Ch = NUL BY <1>4, TakesIs
  <2> QED BY <1>1, <1>4, <2>1, NoNul
<1>5. CASE state = "array"
  <2>1. Ch = NUL BY <1>5, TakesIs
  <2>2. state \in Kinds /\ AfterComma[state] = "array_element" BY <1>5 DEF Kinds, AfterComma
  <2>3. \A u \in Around(state, t) : \A x : ~Reads(AfterComma[state], u, n, Ch, x)
    <3>1. \A u \in Around(state, t) : u \in Rest /\ Quick(0, u) BY <1>1, <2>2, AroundRests
    <3> QED BY <2>1, <2>2, <3>1, NoNul
  <2>4. Ch \notin Space /\ Ch # Closes[state]
    <3>1. NUL \notin Space BY InnerApart
    <3>2. NUL # "]" BY InnerApart
    <3>3. Closes[state] = "]" BY <1>5, ClosesAre
    <3> QED BY <2>1, <3>1, <3>2, <3>3
  <2> QED BY <1>1, <2>2, <2>3, <2>4, ReadsContainer
<1>6. CASE state = "object"
  <2>1. Ch \notin Space BY <1>6, NotMoving
  <2>2. Ch # CB /\ Ch # DQ BY <1>6, TakesIs
  <2>3. state \in Kinds /\ AfterComma[state] = "member" BY <1>6 DEF Kinds, AfterComma
  <2>4. \A u \in Around(state, t) : \A x : ~Reads(AfterComma[state], u, n, Ch, x)
    <3>1. \A u \in Around(state, t) : u \in Rest BY <1>1, <2>3, AroundRests
    <3> QED BY <2>1, <2>2, <2>3, <3>1, ReadsMember
  <2>5. Ch # Closes[state] BY <1>6, <2>2, ClosesAre
  <2> QED BY <1>1, <2>1, <2>3, <2>4, <2>5, ReadsContainer
<1>7. CASE state = "member"
  <2>1. Ch \notin Space /\ Ch # DQ BY <1>7, NotMoving, TakesIs
  <2> QED BY <1>1, <1>7, <2>1, ReadsMember
<1>8. CASE state = "colon"
  <2>1. Ch \notin Space /\ Ch # ":" BY <1>8, NotMoving
  <2> QED BY <1>1, <1>8, <2>1, ReadsColon
<1>9. CASE state \in {"string_value", "string_key"}
  <2>1. Ch \notin Plain /\ Ch # BS /\ Ch # DQ BY <1>9, NotMoving, TakesIs
  <2> QED BY <1>1, <1>9, <2>1, ReadsString, ReadsKey
<1>10. CASE state \in {"string_escape_value", "string_escape_key"}
  <2>1. Ch \notin Escaped BY <1>10, NotMoving
  <2> QED BY <1>1, <1>10, <2>1, ReadsString, ReadsKey
<1>11. CASE state = "number_minus"
  <2>1. Ch # "0" /\ Ch # "1" BY <1>11, NotMoving
  <2> QED BY <1>1, <1>11, <2>1, ReadsInt
<1>12. CASE state = "number_frac_first"
  <2>1. Ch \notin Digit BY <1>12, NotMoving
  <2>2. \A m : ~Finishes(state, t, n, m) BY <1>1, <1>12, FracFirstEnds
  <2> QED BY <1>1, <1>12, <2>1, <2>2, ReadsFrac
<1>13. CASE state \in {"number_exp_sign", "number_exp_first"}
  <2>1. Ch \notin Digit /\ (state = "number_exp_sign" => Ch \notin {"+", "-"}) BY <1>13, NotMoving
  <2> QED BY <1>1, <1>13, <2>1, ReadsExp
<1> QED BY <1>2, <1>3, <1>4, <1>5, <1>6, <1>7, <1>8, <1>9, <1>10, <1>11, <1>12, <1>13
        DEF States, NumberEnds

\* After a value in a container it ends, or there is more after a comma.
LEMMA NothingFollows ==
  ASSUME NEW T, NEW d \in Nat, NEW st, Tails(T, d, st), NEW n \in Nat, NEW c, c \notin Space,
         d > 0 => c # CM /\ c # Closes[st[d - 1]]
  PROVE  /\ \A u \in T[d] : \A x : ~Reads("after_value", u, n, c, x)
         /\ d > 0 => \A u \in T[d] : \A m : ~Finishes("after_value", u, n, m)
<1>1. CASE d = 0
  <2>1. T[d] = {<<>>} BY <1>1 DEF Tails
  <2>2. <<>> \in Rest BY ClosingNothing
  <2>3. Quick(0, <<>>) BY <2>2, CharFinal, Chars
  <2>4. \A x : ~Leads(<<>>, n, c, x) BY <2>2, LeadsChar, Chars
  <2>5. \A x : ~Reads("after_value", <<>>, n, c, x) BY <2>2, <2>3, <2>4, ReadsAfterValue
  <2> QED BY <1>1, <2>1, <2>5
<1>2. CASE d > 0
  <2> DEFINE kind == st[d - 1]
             l == d - 1
  <2>1. /\ kind \in Kinds
        /\ \A u : u \in T[d] <=> \E t \in T[l] : u \in Around(kind, t)
        /\ \A t \in T[l] : t \in Rest /\ Quick(0, t)
        /\ \A t \in T[d] : t \in Rest /\ Quick(0, t)
    BY <1>2, Inside1
  <2>2. c # CM /\ c # Closes[kind] BY <1>2
  <2> HIDE DEF kind, l
  <2>3. ASSUME NEW u \in T[d]
        PROVE  (\A x : ~Reads("after_value", u, n, c, x)) /\ \A m : ~Finishes("after_value", u, n, m)
    <3>1. PICK t \in T[l] : u \in Around(kind, t) BY <2>1
    <3>2. t \in Rest /\ Quick(0, t) /\ u \in Rest /\ Quick(0, u) BY <2>1
    <3>3. \A e, y : (\E v \in Around(kind, t) : Leads(v, n, e, y)) <=>
              \/ e = Closes[kind] /\ Awaits("after_value", t, n + 1, y)
              \/ e = CM /\ \E v \in Around(kind, t) : Awaits(AfterComma[kind], v, n, y)
      BY <2>1, <3>2, LeadsAround
    <3>4. \A x : ~Leads(u, n, c, x) BY <2>2, <3>1, <3>3
    <3>5. \A m : m \notin Ends(D(u, n)) BY <2>1, <3>1, <3>2, LeadsAround
    <3> QED BY <3>2, <3>4, <3>5, ReadsAfterValue
  <2> QED BY <2>3
<1> QED BY <1>1, <1>2

\* An error: nothing in the grammar goes on.
LEMMA UnexpectedInv ==
  ASSUME IInv, Turn, Unexpected
  PROVE  IInv'
<1>1. PICK T : Inv(T) BY DEF IInv
<1>2. /\ ~Moving /\ Ch \notin Takes /\ ~EndOfText /\ more' = FALSE
      /\ state' \in Failed
      /\ KeepDepth /\ Silent /\ pos' = pos
  BY DEF Unexpected, Failed
<1>3. /\ state \in States /\ pos \in Nat /\ Len(text) \in Nat /\ depth \in Nat /\ count \in Nat
      /\ (pos < Len(text) \/ closed) /\ Ch \in Char /\ Tails(T, depth, stack)
      /\ (pos = Len(text) => Ch = NUL)
  BY <1>1, TurnIs
<1>4. \A t \in T[LevelOf(state, depth)] : IsTail(t) BY <1>1, <1>3, NowIs
<1>5. (pos < Len(text) => \A x : ~Then(T, state, depth, count, Ch, x)) /\
      (pos = Len(text) => \A m : ~Over(T, state, depth, count, m))
  <2>1. CASE state # "after_value"
    <3>1. \A t \in T[LevelOf(state, depth)] :
            (\A x : ~Reads(state, t, count, Ch, x)) /\ \A m : ~Finishes(state, t, count, m)
      BY <1>2, <1>3, <1>4, <2>1, NotTaken
    <3> QED BY <3>1 DEF Then, Over
  <2>2. CASE state = "after_value"
    <3>1. LevelOf(state, depth) = depth BY <2>2 DEF LevelOf, Kinds
    <3>2. Ch \notin Space BY <1>2, <2>2, NotMoving
    <3>3. depth > 0 => Ch # CM /\ Ch # Closes[stack[depth - 1]]
      BY <1>2, <2>2, TakesIs DEF Inner
    <3>4. /\ \A u \in T[depth] : \A x : ~Reads("after_value", u, count, Ch, x)
          /\ depth > 0 => \A u \in T[depth] : \A m : ~Finishes("after_value", u, count, m)
      BY <1>3, <3>2, <3>3, NothingFollows
    <3>5. pos = Len(text) => depth > 0
      <4>1. pos = Len(text) => depth # 0 BY <1>2, <2>2 DEF EndOfText
      <4> QED BY <1>3, <4>1
    <3> QED BY <2>2, <3>1, <3>4, <3>5 DEF Then, Over
  <2> QED BY <2>1, <2>2
<1>6. count' = count BY <1>2, Counted
<1>7. depth' = depth /\ stack' = stack BY <1>2 DEF KeepDepth
<1>8. text # <<>> /\ text' = text /\ closed' = closed /\ grammar' = grammar BY DEF Turn
<1> QED BY <1>1, <1>2, <1>3, <1>5, <1>6, <1>7, <1>8, Fail

------------------------------------------------------------------------------
(* The invariant and the properties *)

\* A step that changes nothing.
LEMMA StutterInv ==
  ASSUME IInv, UNCHANGED vars
  PROVE  IInv'
<1>1. PICK T : Inv(T) BY DEF IInv
<1>2. /\ text' = text /\ closed' = closed /\ grammar' = grammar /\ pos' = pos /\ state' = state
      /\ depth' = depth /\ stack' = stack /\ more' = more /\ count' = count
  BY DEF vars, source, parser
<1>3. Ch' = Ch BY <1>2 DEF Ch
<1>4. TypeInv' BY <1>1, <1>2 DEF Inv, TypeInv
<1>5. PosInv' BY <1>1, <1>2 DEF Inv, PosInv
<1>6. Follows(T)' BY <1>1, <1>2, <1>3 DEF Inv, Follows
<1>7. Keeps' BY <1>1, <1>2 DEF Inv, Keeps
<1>8. Stops' BY <1>1, <1>2 DEF Inv, Stops
<1>9. Opened(state, depth, stack)' /\ Tails(T, depth, stack)' BY <1>1, <1>2 DEF Inv
<1>10. Inv(T)' BY <1>4, <1>5, <1>6, <1>7, <1>8, <1>9 DEF Inv
<1> QED BY <1>10 DEF IInv

\* A turn of the loop.
LEMMA CountInv ==
  ASSUME IInv, Count
  PROVE  IInv'
<1>1. Turn /\ Advance BY DEF Count, Advance, Turn, source
<1>2. state \notin Ended
  <2>1. PICK T : Inv(T) BY DEF IInv
  <2> QED BY <1>1, <2>1, TurnIs
<1>3. ~AfterEnd BY <1>2 DEF AfterEnd
<1>4. CASE Move BY <1>1, <1>4, MoveInv
<1>5. CASE BeginScalar BY <1>1, <1>5, BeginScalarInv
<1>6. CASE Literal BY <1>1, <1>6, LiteralInv
<1>7. CASE BeginContainer BY <1>1, <1>7, BeginContainerInv
<1>8. CASE EndContainer BY <1>1, <1>8, EndContainerInv
<1>9. CASE FirstMember BY <1>1, <1>9, FirstMemberInv
<1>10. CASE FirstElement BY <1>1, <1>10, FirstElementInv
<1>11. CASE Element BY <1>1, <1>11, ElementInv
<1>12. CASE BeginKey BY <1>1, <1>12, BeginKeyInv
<1>13. CASE EndKey BY <1>1, <1>13, EndKeyInv
<1>14. CASE EndString BY <1>1, <1>14, EndStringInv
<1>15. CASE EndNumber BY <1>1, <1>15, EndNumberInv
<1>16. CASE Comma BY <1>1, <1>16, CommaInv
<1>17. CASE Done BY <1>1, <1>17, DoneInv
<1>18. CASE Unexpected BY <1>1, <1>18, UnexpectedInv
<1> QED BY <1>1, <1>3, <1>4, <1>5, <1>6, <1>7, <1>8, <1>9, <1>10, <1>11, <1>12, <1>13,
           <1>14, <1>15, <1>16, <1>17, <1>18 DEF Advance

\* Every step keeps the invariant.
LEMMA StepInv == IInv /\ [Next]_vars => IInv'
<1> SUFFICES ASSUME IInv, [Next]_vars PROVE IInv' OBVIOUS
<1>1. CASE \E c \in Char : Choose(c) BY <1>1, ChooseInv
<1>2. CASE Close BY <1>2, CloseInv
<1>3. CASE Empty BY <1>3, EmptyInv
<1>4. CASE Count BY <1>4, CountInv
<1>5. CASE UNCHANGED vars BY <1>5, StutterInv
<1> QED BY <1>1, <1>2, <1>3, <1>4, <1>5 DEF Next

\* The derivations of the grammar are at every step of sl_json_count_nodes the ones that
\* the state, the open containers and the count of the parser stand for.
THEOREM JsonCountInvariant == Spec => []IInv
BY InitInv, StepInv, PTL DEF Spec

\* The invariant decides where the parser stops.
LEMMA InvRejects == IInv => RejectsAtOnce
<1> SUFFICES ASSUME IInv PROVE RejectsAtOnce OBVIOUS
<1>1. PICK T : Inv(T) BY DEF IInv
<1>2. pos \in Nat /\ Len(text) \in Nat /\ state \in States \cup Ended BY <1>1 DEF Inv, TypeInv
<1>3. ASSUME state \in Failed, pos = Len(text) + (-1) PROVE grammar = {}
  <2>1. pos < Len(text) BY <1>2, <1>3
  <2> QED BY <1>1, <1>3, <2>1 DEF Inv, Stops
<1>4. ASSUME state \notin Failed, pos = Len(text) + 0 PROVE grammar # {}
  <2>1. pos = Len(text) BY <1>2, <1>4
  <2>2. state # "done"
    <3>1. state = "done" => pos = Len(text) + 1 BY <1>1 DEF Inv, PosInv
    <3> QED BY <1>2, <2>1, <3>1
  <2>3. state \in States BY <1>2, <1>4, <2>2, StatesApart
  <2> QED BY <1>1, <2>1, <2>3 DEF Inv, Keeps
<1> QED BY <1>3, <1>4 DEF RejectsAtOnce

\* The invariant holds the open containers together.
LEMMA InvOpens == IInv => OpenContainers
<1> SUFFICES ASSUME IInv PROVE OpenContainers OBVIOUS
<1>1. PICK T : Inv(T) BY DEF IInv
<1>2. pos \in Nat /\ Len(text) \in Nat /\ state \in States \cup Ended BY <1>1 DEF Inv, TypeInv
<1>3. more => depth < MaxDepth BY <1>1 DEF Inv, PosInv
<1>4. ASSUME pos = Len(text), state \notin Failed, NEW d \in Inside(grammar)
      PROVE  ToClose(d) = [i \in 1 .. depth |-> Closes[stack[depth - i]]]
  <2>1. state # "done"
    <3>1. state = "done" => pos = Len(text) + 1 BY <1>1 DEF Inv, PosInv
    <3> QED BY <1>2, <1>4, <3>1
  <2>2. state \in States BY <1>2, <1>4, <2>1, StatesApart
  <2>3. d \in grammar BY <1>4 DEF Inside
  <2>4. Kept(d, BracketsAt(stack, depth)) BY <1>1, <1>4, <2>2, <2>3 DEF Inv, Keeps
  <2>5. ToClose(d) = BracketsAt(stack, depth) BY <1>4, <2>4, KeptInside
  <2> QED BY <2>5 DEF BracketsAt
<1> QED BY <1>3, <1>4 DEF OpenContainers

\* Complete derivations are those without a rest.
LEMMA AcceptingIs ==
  ASSUME \A d \in grammar : \E r \in Rest, n \in Nat : d = D(r, n)
  PROVE  \A d : d \in Accepting(grammar) <=>
                  \E m \in Nat : d = D(<<>>, m) /\ D(<<>>, m) \in grammar
<1> TAKE d
<1>1. ASSUME d \in Accepting(grammar)
      PROVE  \E m \in Nat : d = D(<<>>, m) /\ D(<<>>, m) \in grammar
  <2>1. d \in grammar /\ d.rest = <<>> BY <1>1 DEF Accepting
  <2>2. PICK r \in Rest, n \in Nat : d = D(r, n) BY <2>1
  <2>3. d.rest = r BY <2>2 DEF D
  <2> QED BY <2>1, <2>2, <2>3
<1>2. ASSUME NEW m \in Nat, d = D(<<>>, m), D(<<>>, m) \in grammar
      PROVE  d \in Accepting(grammar)
  <2>1. d.rest = <<>> BY <1>2 DEF D
  <2> QED BY <1>2, <2>1 DEF Accepting
<1> QED BY <1>1, <1>2

\* The invariant decides what is counted.
LEMMA InvCounts == IInv => CountsNodes
<1> SUFFICES ASSUME IInv, ~more PROVE CountsNodes BY DEF CountsNodes
<1>1. PICK T : Inv(T) BY DEF IInv
<1>2. /\ pos \in Nat /\ Len(text) \in Nat /\ state \in States \cup Ended /\ count \in Nat
      /\ depth \in 0 .. MaxDepth
  BY <1>1 DEF Inv, TypeInv
<1>3. ASSUME closed
      PROVE  {Result} = IF Accepting(grammar) = {} THEN {0} ELSE {d.nodes : d \in Accepting(grammar)}
  <2>1. pos >= Len(text) BY <1>1, <1>3 DEF Inv, PosInv
  <2>2. \A d \in grammar : \E r \in Rest, n \in Nat : d = D(r, n) BY <1>1, <2>1 DEF Inv, Keeps
  <2>3. \A d : d \in Accepting(grammar) <=>
                 \E m \in Nat : d = D(<<>>, m) /\ D(<<>>, m) \in grammar
    BY <2>2, AcceptingIs
  <2>4. CASE state = "done"
    <3>1. \A m : D(<<>>, m) \in grammar <=> m = count BY <1>1, <2>4 DEF Inv, Stops
    <3>2. \A d : d \in Accepting(grammar) <=> d = D(<<>>, count) BY <1>2, <2>3, <3>1
    <3>3. Accepting(grammar) = {D(<<>>, count)} BY <3>2
    <3>4. D(<<>>, count).nodes = count BY DEF D
    <3>5. {d.nodes : d \in Accepting(grammar)} = {count} BY <3>3, <3>4
    <3>6. Result = count BY <2>4 DEF Result
    <3> QED BY <3>3, <3>5, <3>6
  <2>5. CASE state # "done"
    <3>1. \A m : D(<<>>, m) \notin grammar
      <4>1. CASE state \in Failed BY <1>1, <1>3, <4>1 DEF Inv, Stops
      <4>2. CASE state \notin Failed
        <5>1. state \in States /\ state \notin Ended BY <1>2, <2>5, <4>2, StatesApart
        <5>2. text = <<>> BY <1>1, <1>3, <5>1 DEF Inv, PosInv
        <5>3. state = "element" /\ depth = 0 BY <1>1, <5>2 DEF Inv, PosInv
        <5>4. \A m : D(<<>>, m) \in grammar <=> Over(T, state, depth, count, m)
          BY <1>1, <1>3, <5>1 DEF Inv, Follows
        <5>5. \A t \in T[LevelOf(state, depth)] : t \in Rest /\ Quick(0, t)
          BY <1>1, <5>1, NowIs
        <5>6. \A t \in T[LevelOf(state, depth)] : \A m : ~Finishes(state, t, count, m)
          BY <1>2, <5>3, <5>5, ReadsElement
        <5> QED BY <5>4, <5>6 DEF Over
      <4> QED BY <4>1, <4>2
    <3>2. Accepting(grammar) = {} BY <2>3, <3>1
    <3>3. Result = 0 BY <2>5 DEF Result
    <3> QED BY <3>2, <3>3
  <2> QED BY <2>4, <2>5
<1>4. ASSUME ~closed, state \notin Failed PROVE depth = MaxDepth /\ Result = 0
  <2>1. state # "done" BY <1>1, <1>4 DEF Inv, PosInv
  <2>2. state \notin Ended BY <1>4, <2>1 DEF Ended
  <2> QED BY <1>1, <1>4, <2>1, <2>2 DEF Inv, PosInv, Result
<1> QED BY <1>3, <1>4 DEF CountsNodes

\* sl_json_parse_advance fails at the first character that no JSON text can have there, and
\* at no other one (the "error" states of json.c).
THEOREM JsonCountRejectsAtOnce == Spec => []RejectsAtOnce
BY JsonCountInvariant, InvRejects, PTL

\* The stack of sl_json_parser holds the containers still to close, in their order, and has
\* room for one more whenever another call is made.
THEOREM JsonCountOpenContainers == Spec => []OpenContainers
BY JsonCountInvariant, InvOpens, PTL

\* sl_json_count_nodes returns the number of the values of a JSON text, and 0 for a text that
\* is not JSON; only the nesting limit stops it earlier.
THEOREM JsonCountCountsNodes == Spec => []CountsNodes
BY JsonCountInvariant, InvCounts, PTL
==============================================================================
