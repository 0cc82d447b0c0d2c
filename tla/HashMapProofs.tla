---------------------------- MODULE HashMapProofs ----------------------------
(***************************************************************************)
(* Proofs about HashMap, for any keys and hashes and texts of any length:  *)
(* a search for a slot always ends, since the probes of a table whose      *)
(* capacity is a power of two visit more than half of it; and, when no key *)
(* is a prefix of another, the map counts every line and prints it once.   *)
(***************************************************************************)
EXTENDS HashMap, FiniteSetTheorems, TLAPS

-----------------------------------------------------------------------------
(* What takes the place of induction: facts that are stated over sets, and *)
(* need no operator parameter.                                             *)

\* The order of the natural numbers as a relation.
LessThan == {ss \in Nat \X Nat : ss[1] < ss[2]}

\* There is no endless descent in the natural numbers.
LEMMA LessThanWellFounded == IsWellFoundedOn(LessThan, Nat)
BY NatLessThanWellFounded DEF OpToRel, LessThan

\* A set of natural numbers that is not empty has a least element.
LEMMA LeastNumber ==
  ASSUME NEW S \in SUBSET Nat, S # {}
  PROVE  \E n \in S : \A m \in S : n <= m
<1>1. PICK n \in S : \A m \in S : ~(<<m, n>> \in LessThan)
  BY LessThanWellFounded, WFMin, Zenon
<1>2. \A m \in S : ~(m < n) BY <1>1 DEF LessThan
<1> QED BY <1>2

\* Induction over the natural numbers up to a bound: a set that has 0, and with
\* each number below the bound the next one, has all of them.
LEMMA CountUp ==
  ASSUME NEW n \in Nat, NEW S, 0 \in S, \A m \in 0 .. n - 1 : m \in S => m + 1 \in S
  PROVE  0 .. n \subseteq S
<1> SUFFICES ASSUME ~(0 .. n \subseteq S) PROVE FALSE OBVIOUS
<1> DEFINE B == {m \in 0 .. n : m \notin S}
<1>1. B \in SUBSET Nat /\ B # {} OBVIOUS
<1>2. PICK k \in B : \A m \in B : k <= m BY <1>1, LeastNumber
<1>3. k # 0 /\ k \in 0 .. n BY <1>2
<1>4. k - 1 \in 0 .. n - 1 /\ k - 1 \notin B BY <1>2, <1>3
<1>5. (k - 1) + 1 \in S BY <1>4
<1> QED BY <1>2, <1>3, <1>5


-----------------------------------------------------------------------------
(* Powers of two *)

\* Each power of two is twice the one before: the subsets of 1 .. n + 1 are
\* those of 1 .. n, without and with n + 1.
LEMMA PowerOfNext ==
  ASSUME NEW n \in Nat
  PROVE  2 ^ n \in Nat /\ 2 ^ (n + 1) = 2 * 2 ^ n
<1> DEFINE A == SUBSET (1 .. n)
           B == {T \cup {n + 1} : T \in A}
<1>1. /\ IsFiniteSet(1 .. n) /\ Cardinality(1 .. n) = n
      /\ IsFiniteSet(1 .. n + 1) /\ Cardinality(1 .. n + 1) = n + 1
  BY FS_Interval
<1>2. IsFiniteSet(A) /\ Cardinality(A) = 2 ^ n BY <1>1, FS_SUBSET
<1>3. Cardinality(SUBSET (1 .. n + 1)) = 2 ^ (n + 1) BY <1>1, FS_SUBSET
<1>4. IsFiniteSet(B) /\ Cardinality(B) = Cardinality(A)
  <2> DEFINE f == [T \in A |-> T \cup {n + 1}]
  <2>1. f \in [A -> B] OBVIOUS
  <2>2. ASSUME NEW S \in A, NEW T \in A, f[S] = f[T] PROVE S = T
    <3>1. S \cup {n + 1} = T \cup {n + 1} BY <2>2
    <3>2. n + 1 \notin S /\ n + 1 \notin T OBVIOUS
    <3> QED BY <3>1, <3>2
  <2>3. \A U \in B : \E T \in A : f[T] = U OBVIOUS
  <2>4. f \in Bijection(A, B)
    BY <2>1, <2>2, <2>3 DEF Bijection, Injection, Surjection, IsInjective
  <2>5. ExistsBijection(A, B) BY <2>4 DEF ExistsBijection
  <2> HIDE DEF A, B
  <2> QED BY <1>2, <2>5, FS_Bijection
<1>5. SUBSET (1 .. n + 1) = A \cup B
  <2>1. ASSUME NEW U \in SUBSET (1 .. n + 1) PROVE U \in A \cup B
    <3>1. CASE n + 1 \in U
      <4>1. U \ {n + 1} \in A BY <3>1
      <4>2. U = (U \ {n + 1}) \cup {n + 1} BY <3>1
      <4> QED BY <4>1, <4>2
    <3>2. CASE n + 1 \notin U
      <4>1. U \in A BY <3>2
      <4> QED BY <4>1
    <3> QED BY <3>1, <3>2
  <2>2. \A U \in A \cup B : U \in SUBSET (1 .. n + 1) OBVIOUS
  <2> QED BY <2>1, <2>2
<1>6. A \cap B = {}
  <2>1. \A T \in A : n + 1 \notin T OBVIOUS
  <2>2. \A T \in B : n + 1 \in T OBVIOUS
  <2> QED BY <2>1, <2>2
<1> HIDE DEF A, B
<1>7. Cardinality(A \cup B) = Cardinality(A) + Cardinality(B) - Cardinality(A \cap B)
  BY <1>2, <1>4, FS_Union
<1>8. Cardinality(A) \in Nat BY <1>2, FS_CardinalityType
<1>9. Cardinality(A \cap B) = 0 BY <1>6, FS_EmptySet
<1>10. 2 ^ (n + 1) = 2 ^ n + 2 ^ n
  <2>1. PICK a \in Nat : a = Cardinality(A) BY <1>8
  <2>2. Cardinality(A \cup B) = a + a BY <2>1, <1>4, <1>7, <1>9
  <2> QED BY <2>1, <2>2, <1>2, <1>3, <1>5
<1> QED BY <1>2, <1>8, <1>10

\* A power of two is greater than its exponent.
LEMMA PowerIsGreater ==
  ASSUME NEW n \in Nat
  PROVE  n < 2 ^ n
<1> DEFINE S == {m \in Nat : m < 2 ^ m}
<1>1. 0 \in S
  <2>1. 2 ^ 0 = 1 OBVIOUS
  <2> QED BY <2>1
<1>2. ASSUME NEW m \in 0 .. n - 1, m \in S PROVE m + 1 \in S
  <2>1. 2 ^ m \in Nat /\ 2 ^ (m + 1) = 2 * 2 ^ m BY PowerOfNext
  <2>2. m < 2 ^ m /\ m + 1 \in Nat BY <1>2
  <2> QED BY <2>1, <2>2
<1>3. 0 .. n \subseteq S
  <2> HIDE DEF S
  <2> QED BY <1>1, <1>2, CountUp
<1> QED BY <1>3

\* A power of two that divides the product of a number with an odd one divides
\* the number.
LEMMA OddDoesNotHelp ==
  ASSUME NEW n \in Nat, NEW o \in Int, o % 2 = 1
  PROVE  \A x, z \in Int : x * o = 2 ^ n * z => \E y \in Int : x = 2 ^ n * y
<1> DEFINE Divides(m) == \A u, v \in Int : u * o = 2 ^ m * v => \E y \in Int : u = 2 ^ m * y
           S == {m \in Nat : Divides(m)}
<1>1. 0 \in S
  <2>1. 2 ^ 0 = 1 OBVIOUS
  <2>2. \A u \in Int : u = 1 * u OBVIOUS
  <2> QED BY <2>1, <2>2
<1>2. ASSUME NEW m \in 0 .. n - 1, m \in S PROVE m + 1 \in S
  <2> SUFFICES ASSUME NEW u \in Int, NEW v \in Int, u * o = 2 ^ (m + 1) * v
               PROVE  \E y \in Int : u = 2 ^ (m + 1) * y
    OBVIOUS
  <2>1. 2 ^ m \in Nat /\ 2 ^ (m + 1) = 2 * 2 ^ m BY PowerOfNext
  <2>2. PICK w \in Nat : w = 2 ^ m BY <2>1
  <2>3. u * o = 2 * (w * v) BY <2>1, <2>2
  <2>4. PICK t \in Int : u = 2 * t
    <3>1. PICK a \in Int : o = 2 * a + 1 
      <4>1. o = 2 * (o \div 2) + 1 OBVIOUS
      <4> QED BY <4>1
    <3>2. PICK b \in Int, e \in {0, 1} : u = 2 * b + e
      <4>1. u = 2 * (u \div 2) + (u % 2) /\ u % 2 \in {0, 1} OBVIOUS
      <4> QED BY <4>1
    <3>3. CASE e = 1
      <4>1. u * o = 2 * (2 * a * b + a + b) + 1 BY <3>1, <3>2, <3>3
      <4>2. PICK f \in Int, g \in Int : f = w * v /\ g = 2 * a * b + a + b OBVIOUS
      <4>3. 2 * f = 2 * g + 1 BY <2>3, <4>1, <4>2
      <4> QED BY <4>3
    <3> QED BY <3>2, <3>3
  <2>5. t * o = w * v
    <3>1. u * o = 2 * (t * o) BY <2>4
    <3>2. PICK f \in Int, g \in Int : f = w * v /\ g = t * o OBVIOUS
    <3> QED BY <2>3, <3>1, <3>2
  <2>6. PICK y \in Int : t = w * y BY <1>2, <2>2, <2>5
  <2>7. u = (2 * w) * y BY <2>4, <2>6
  <2> QED BY <2>1, <2>2, <2>7
<1>3. 0 .. n \subseteq S
  <2> HIDE DEF S
  <2> QED BY <1>1, <1>2, CountUp
<1>4. n \in S
  <2> HIDE DEF S
  <2> QED BY <1>3
<1> QED BY <1>4

-----------------------------------------------------------------------------
(* The places of the probes *)

Capacity == {c \in Nat \ {0} : \E e \in Nat : c = 2 ^ e}

Follows(g, h, cap, n) ==
  g = [p \in 0 .. n - 1 |-> NextPlace(IF p = 0 THEN h ELSE g[p - 1], p, cap)]

\* The place of a probe comes from the one before it.
LEMMA PlaceIsNext ==
  ASSUME NEW cap \in Nat \ {0}, NEW h \in Nat
  PROVE  \A p \in Index(cap) :
           Place(h, cap)[p] = NextPlace(IF p = 0 THEN h ELSE Place(h, cap)[p - 1], p, cap)
<1> DEFINE S == {n \in 0 .. cap : \E g : Follows(g, h, cap, n)}
<1>1. 0 \in S
  <2>1. Follows([p \in 0 .. 0 - 1 |-> 0], h, cap, 0) BY DEF Follows
  <2> QED BY <2>1
<1>2. ASSUME NEW n \in 0 .. cap - 1, n \in S PROVE n + 1 \in S
  <2>1. PICK g : Follows(g, h, cap, n) BY <1>2
  <2> DEFINE last == NextPlace(IF n = 0 THEN h ELSE g[n - 1], n, cap)
             f == [p \in 0 .. (n + 1) - 1 |-> IF p < n THEN g[p] ELSE last]
  <2>2. ASSUME NEW p \in 0 .. (n + 1) - 1
        PROVE  f[p] = NextPlace(IF p = 0 THEN h ELSE f[p - 1], p, cap)
    <3>1. p # 0 => p - 1 \in 0 .. (n + 1) - 1 /\ p - 1 < n OBVIOUS
    <3>2. p # 0 => f[p - 1] = g[p - 1] BY <3>1
    <3>3. CASE p < n
      <4>1. p \in 0 .. n - 1 BY <3>3
      <4>2. g[p] = NextPlace(IF p = 0 THEN h ELSE g[p - 1], p, cap) BY <2>1, <4>1 DEF Follows
      <4> QED BY <3>2, <3>3, <4>2
    <3>4. CASE p = n BY <3>2, <3>4
    <3> QED BY <3>3, <3>4
  <2>3. Follows(f, h, cap, n + 1)
    <3>1. f = [p \in 0 .. (n + 1) - 1 |-> f[p]] OBVIOUS
    <3> HIDE DEF f
    <3>2. [p \in 0 .. (n + 1) - 1 |-> f[p]] =
          [p \in 0 .. (n + 1) - 1 |-> NextPlace(IF p = 0 THEN h ELSE f[p - 1], p, cap)]
      BY <2>2
    <3> QED BY <3>1, <3>2 DEF Follows
  <2>4. n + 1 \in 0 .. cap OBVIOUS
  <2> QED BY <2>3, <2>4
<1>3. cap \in S
  <2> HIDE DEF S
  <2> QED BY <1>1, <1>2, CountUp
<1>4. \E g : Follows(g, h, cap, cap) BY <1>3
<1>5. Place(h, cap) = CHOOSE g : Follows(g, h, cap, cap) BY DEF Place, Follows, Index
<1>6. Follows(Place(h, cap), h, cap, cap) BY <1>4, <1>5
<1> QED BY <1>6 DEF Follows, Index

\* The product of a number and the next is even.
LEMMA HalfIsWhole ==
  ASSUME NEW p \in Nat
  PROVE  2 * ((p + p * p) \div 2) = p + p * p /\ (p + p * p) \div 2 \in Nat
<1>1. PICK a \in Nat, e \in {0, 1} : p = 2 * a + e
  <2>1. p = 2 * (p \div 2) + (p % 2) /\ p % 2 \in {0, 1} /\ p \div 2 \in Nat OBVIOUS
  <2> QED BY <2>1
<1>2. PICK b \in Nat : p + p * p = 2 * b
  <2>1. CASE e = 0
    <3>1. p + p * p = 2 * (a + 2 * a * a) BY <1>1, <2>1
    <3>2. a + 2 * a * a \in Nat OBVIOUS
    <3> QED BY <3>1, <3>2
  <2>2. CASE e = 1
    <3>1. p + p * p = 2 * (2 * a * a + 3 * a + 1) BY <1>1, <2>2
    <3>2. 2 * a * a + 3 * a + 1 \in Nat OBVIOUS
    <3> QED BY <3>1, <3>2
  <2> QED BY <2>1, <2>2
<1>3. PICK q \in Nat : q = p + p * p OBVIOUS
<1>4. 2 * (q \div 2) = q /\ q \div 2 \in Nat BY <1>2, <1>3
<1> QED BY <1>3, <1>4

\* All places are in the table, and where a probe leads is known but for a
\* multiple of the capacity: after probe p the offsets add up to
\* p (p + 1) (p + 2) / 6.
LEMMA PlaceFormula ==
  ASSUME NEW cap \in Nat \ {0}, NEW h \in Nat, NEW p \in Index(cap)
  PROVE  /\ Place(h, cap)[p] \in Index(cap)
         /\ \E m \in Int :
              6 * Place(h, cap)[p] = 6 * h + p * (p + 1) * (p + 2) + 6 * cap * m
<1> DEFINE place == Place(h, cap)
           Formula(q) == \E m \in Int : 6 * place[q] = 6 * h + q * (q + 1) * (q + 2) + 6 * cap * m
           S == {q \in Index(cap) : place[q] \in Index(cap) /\ Formula(q)}
<1>1. \A q \in Index(cap) :
        place[q] = NextPlace(IF q = 0 THEN h ELSE place[q - 1], q, cap)
  BY PlaceIsNext
<1> HIDE DEF place
<1>2. ASSUME NEW q \in Index(cap), NEW i \in Nat,
             place[q] = NextPlace(i, q, cap)
      PROVE  /\ place[q] \in Index(cap)
             /\ \E k \in Int : 6 * place[q] = 6 * i + 3 * (q + q * q) + 6 * cap * k
  <2>1. q \in Nat BY DEF Index
  <2>2. PICK t \in Nat : t = (q + q * q) \div 2 /\ 2 * t = q + q * q BY <2>1, HalfIsWhole
  <2>3. place[q] = (i + t) % cap BY <1>2, <2>2 DEF NextPlace
  <2>4. PICK u \in Nat : u = i + t OBVIOUS
  <2>5. u % cap \in 0 .. cap - 1 /\ u = cap * (u \div cap) + (u % cap) /\ u \div cap \in Int
    OBVIOUS
  <2>6. PICK k \in Int : k = - (u \div cap) BY <2>5
  <2>7. place[q] \in Index(cap) BY <2>3, <2>4, <2>5 DEF Index
  <2>8. place[q] = i + t + cap * k BY <2>3, <2>4, <2>5, <2>6
  <2>9. 6 * place[q] = 6 * i + 3 * (2 * t) + 6 * cap * k BY <2>8
  <2> QED BY <2>2, <2>7, <2>9
<1>3. 0 \in S
  <2>1. 0 \in Index(cap) BY DEF Index
  <2>2. place[0] = NextPlace(h, 0, cap) BY <1>1, <2>1
  <2>3. place[0] \in Index(cap) BY <1>2, <2>1, <2>2
  <2>4. PICK k \in Int : 6 * place[0] = 6 * h + 3 * (0 + 0 * 0) + 6 * cap * k
    BY <1>2, <2>1, <2>2
  <2>5. 6 * place[0] = 6 * h + 0 * (0 + 1) * (0 + 2) + 6 * cap * k BY <2>4
  <2> QED BY <2>1, <2>3, <2>5
<1>4. ASSUME NEW n \in 0 .. p - 1, n \in S PROVE n + 1 \in S
  <2>1. n + 1 \in Index(cap) /\ n + 1 # 0 /\ n \in Nat BY DEF Index
  <2>2. PICK i \in Nat : i = place[n] BY <1>4 DEF Index
  <2>3. PICK m \in Int : 6 * i = 6 * h + n * (n + 1) * (n + 2) + 6 * cap * m BY <1>4, <2>2
  <2>4. place[n + 1] = NextPlace(i, n + 1, cap) BY <1>1, <2>1, <2>2
  <2>5. place[n + 1] \in Index(cap) BY <1>2, <2>1, <2>4
  <2>6. PICK k \in Int :
          6 * place[n + 1] = 6 * i + 3 * ((n + 1) + (n + 1) * (n + 1)) + 6 * cap * k
    BY <1>2, <2>1, <2>4
  <2>7. n * (n + 1) * (n + 2) + 3 * ((n + 1) + (n + 1) * (n + 1))
          = (n + 1) * ((n + 1) + 1) * ((n + 1) + 2)
    BY <2>1
  <2>8. 6 * cap * m + 6 * cap * k = 6 * cap * (m + k) OBVIOUS
  <2>9. 6 * place[n + 1] = 6 * h + (n + 1) * ((n + 1) + 1) * ((n + 1) + 2) + 6 * cap * (m + k)
    BY <2>3, <2>6, <2>7, <2>8
  <2>10. m + k \in Int OBVIOUS
  <2> QED BY <2>1, <2>5, <2>9, <2>10
<1>5. p \in S
  <2>1. p \in Nat BY DEF Index
  <2> HIDE DEF S
  <2> QED BY <2>1, <1>3, <1>4, CountUp
<1> QED BY <1>5 DEF place

-----------------------------------------------------------------------------
(* More than half of the places *)

\* The first probe and those with an odd number.
Probe(d) == IF d = 0 THEN 0 ELSE 2 * d - 1

\* They are in the range of the probes, and their places are known but for a
\* multiple of the capacity.
LEMMA ProbeFormula ==
  ASSUME NEW cap \in Capacity, NEW h \in Nat, NEW d \in 0 .. cap \div 2
  PROVE  /\ Probe(d) \in Index(cap)
         /\ Place(h, cap)[Probe(d)] \in Index(cap)
         /\ \E m \in Int :
              6 * Place(h, cap)[Probe(d)] = 6 * h + (8 * d * d * d - 2 * d) + 6 * cap * m
<1>1. cap \in Nat \ {0} /\ d \in Nat BY DEF Capacity
<1>2. Probe(d) \in Index(cap)
  <2>1. 2 * (cap \div 2) <= cap /\ cap \div 2 \in Nat BY <1>1
  <2>2. 2 * d <= cap BY <1>1, <2>1
  <2> QED BY <1>1, <2>2 DEF Probe, Index
<1>3. PICK p \in Nat : p = Probe(d) BY <1>2 DEF Index
<1>4. p * (p + 1) * (p + 2) = 8 * d * d * d - 2 * d
  <2>1. CASE d = 0
    <3>1. p = 0 BY <1>3, <2>1 DEF Probe
    <3>2. 0 * (0 + 1) * (0 + 2) = 8 * 0 * 0 * 0 - 2 * 0 OBVIOUS
    <3> QED BY <2>1, <3>1, <3>2
  <2>2. CASE d # 0
    <3>1. p = 2 * d - 1 BY <1>3, <2>2 DEF Probe
    <3>2. p * (p + 1) * (p + 2) = (2 * d - 1) * (2 * d) * (2 * d + 1) BY <3>1, <1>1
    <3>3. (2 * d - 1) * (2 * d) * (2 * d + 1) = 8 * d * d * d - 2 * d BY <1>1
    <3> QED BY <3>2, <3>3
  <2> QED BY <2>1, <2>2
<1>5. /\ Place(h, cap)[p] \in Index(cap)
      /\ \E m \in Int : 6 * Place(h, cap)[p] = 6 * h + p * (p + 1) * (p + 2) + 6 * cap * m
  BY <1>1, <1>2, <1>3, PlaceFormula
<1> QED BY <1>2, <1>3, <1>4, <1>5

\* No two of them lead to the same place: the difference of two numbers d would
\* be divided by the capacity.
LEMMA PlacesDiffer ==
  ASSUME NEW cap \in Capacity, NEW h \in Nat,
         NEW d \in 0 .. cap \div 2, NEW c \in 0 .. cap \div 2, c < d,
         Place(h, cap)[Probe(c)] = Place(h, cap)[Probe(d)]
  PROVE  FALSE
<1>1. cap \in Nat \ {0} /\ c \in Nat /\ d \in Nat BY DEF Capacity
<1>2. PICK n \in Nat : cap = 2 ^ n BY DEF Capacity
<1>3. PICK i \in Nat : i = Place(h, cap)[Probe(c)] BY ProbeFormula DEF Index
<1>4. PICK m \in Int : 6 * i = 6 * h + (8 * c * c * c - 2 * c) + 6 * cap * m
  BY <1>3, ProbeFormula
<1>5. PICK k \in Int : 6 * i = 6 * h + (8 * d * d * d - 2 * d) + 6 * cap * k
  BY <1>3, ProbeFormula
<1>6. PICK x \in Int, o \in Int :
        x = d - c /\ o = 4 * (d * d + d * c + c * c) - 1
  BY <1>1
<1>7. x * o = cap * (3 * (m - k))
  <2>1. (8 * d * d * d - 2 * d) - (8 * c * c * c - 2 * c) = 6 * cap * m - 6 * cap * k
    BY <1>1, <1>4, <1>5
  <2>2. 2 * (x * o) = (8 * d * d * d - 2 * d) - (8 * c * c * c - 2 * c) BY <1>1, <1>6
  <2>3. PICK a \in Int : a = cap * m BY <1>1
  <2>4. PICK b \in Int : b = cap * k BY <1>1
  <2>5. 6 * cap * m = 6 * a /\ 6 * cap * k = 6 * b BY <1>1, <2>3, <2>4
  <2>6. cap * (3 * (m - k)) = 3 * a - 3 * b BY <1>1, <2>3, <2>4
  <2>7. PICK y \in Int : y = x * o OBVIOUS
  <2> QED BY <2>1, <2>2, <2>5, <2>6, <2>7
<1>8. o % 2 = 1
  <2>1. PICK r \in Int : r = 2 * (d * d + d * c + c * c) BY <1>1
  <2>2. o = 2 * r - 1 BY <1>6, <2>1
  <2> QED BY <2>2
<1>9. PICK z \in Int : z = 3 * (m - k) OBVIOUS
<1>10. PICK y \in Int : x = cap * y
  <2>1. x * o = 2 ^ n * z BY <1>2, <1>7, <1>9
  <2>2. \A u, v \in Int : u * o = 2 ^ n * v => \E y \in Int : u = 2 ^ n * y
    BY <1>8, OddDoesNotHelp
  <2>3. \E y \in Int : x = 2 ^ n * y BY <2>1, <2>2
  <2> QED BY <1>2, <2>3
<1>11. 0 < x /\ x < cap
  <2>1. cap \div 2 < cap BY <1>1
  <2> QED BY <1>1, <1>6, <2>1
<1>12. y > 0
  <2>1. ASSUME y <= 0 PROVE FALSE
    <3>1. cap * y <= 0 BY <2>1, <1>1
    <3> QED BY <3>1, <1>10, <1>11
  <2> QED BY <2>1
<1>13. cap * y >= cap
  <2>1. PICK u \in Nat : y = u + 1 BY <1>12
  <2>2. cap * (u + 1) = cap * u + cap BY <1>1
  <2>3. cap * u >= 0 BY <1>1
  <2>4. PICK w \in Nat : w = cap * u BY <1>1, <2>3
  <2> QED BY <2>1, <2>2, <2>4, <1>1
<1> QED BY <1>1, <1>10, <1>11, <1>13

\* The slots of a table that hold a key.
Occupied(table, cap) == {i \in Index(cap) : table[i].key # NoKey}

\* In a table of which at most half is occupied every search meets an empty slot.
LEMMA MeetsEmpty ==
  ASSUME NEW cap \in Capacity, NEW h \in Nat, NEW table,
         2 * Cardinality(Occupied(table, cap)) <= cap
  PROVE  \E p \in Index(cap) : /\ Place(h, cap)[p] \in Index(cap)
                               /\ table[Place(h, cap)[p]].key = NoKey
<1> DEFINE half == 0 .. cap \div 2
           occupied == Occupied(table, cap)
           place == [d \in half |-> Place(h, cap)[Probe(d)]]
<1>1. cap \in Nat \ {0} /\ cap \div 2 \in Nat /\ cap < 2 * (cap \div 2 + 1) BY DEF Capacity
<1>2. IsFiniteSet(occupied) /\ Cardinality(occupied) \in Nat
  <2>1. IsFiniteSet(Index(cap)) BY <1>1, FS_Interval DEF Index
  <2>2. occupied \subseteq Index(cap) BY DEF Occupied
  <2> QED BY <2>1, <2>2, FS_Subset, FS_CardinalityType
<1>3. IsFiniteSet(half) /\ Cardinality(half) = cap \div 2 + 1 BY <1>1, FS_Interval
<1>4. \A d \in half : Probe(d) \in Index(cap) /\ place[d] \in Index(cap)
  BY ProbeFormula
<1> SUFFICES ASSUME \A d \in half : table[place[d]].key # NoKey PROVE FALSE
  BY <1>4
<1>5. place \in [half -> occupied] BY <1>4 DEF Occupied
<1>6. ASSUME NEW c \in half, NEW d \in half, place[c] = place[d] PROVE c = d
  <2>1. c \in Nat /\ d \in Nat BY <1>1
  <2>2. ~(c < d) BY <1>6, PlacesDiffer
  <2>3. ~(d < c) BY <1>6, PlacesDiffer
  <2> QED BY <2>1, <2>2, <2>3
<1>7. place \in Injection(half, occupied) BY <1>5, <1>6 DEF Injection, IsInjective
<1>8. Cardinality(half) <= Cardinality(occupied)
  <2> HIDE DEF half, occupied, place
  <2> QED BY <1>2, <1>3, <1>7, FS_Injection DEF ExistsInjection
<1>9. PICK a \in Nat, b \in Nat : a = Cardinality(occupied) /\ b = cap \div 2 BY <1>1, <1>2
<1> QED BY <1>1, <1>3, <1>8, <1>9


-----------------------------------------------------------------------------
(* Searches *)

\* A search that ends does so at the first probe that hits.
LEMMA SearchEnds ==
  ASSUME NEW cap \in Capacity, NEW h \in Nat, NEW table, NEW k,
         Hit(table, cap, k, h) # {}
  PROVE  \E p \in Hit(table, cap, k, h) :
           /\ FindSlot(table, cap, k, h) = Place(h, cap)[p]
           /\ \A q \in Hit(table, cap, k, h) : p <= q
<1> DEFINE hit == Hit(table, cap, k, h)
<1>1. cap \in Nat \ {0} BY DEF Capacity
<1>2. hit \in SUBSET Nat BY <1>1 DEF Hit, Index
<1> HIDE DEF hit
<1>3. hit # {} BY DEF hit
<1>4. \E p \in hit : \A q \in hit : p <= q BY <1>2, <1>3, LeastNumber
<1>5. PICK p \in hit : p = CHOOSE r \in hit : \A q \in hit : r <= q BY <1>4
<1>6. \A q \in hit : p <= q BY <1>4, <1>5
<1>7. FindSlot(table, cap, k, h) = Place(h, cap)[p] BY <1>3, <1>5 DEF hit, FindSlot
<1> QED BY <1>5, <1>6, <1>7 DEF hit

\* In a table of which at most half is occupied it ends, at an empty slot or at
\* the key.
LEMMA SearchSucceeds ==
  ASSUME NEW cap \in Capacity, NEW h \in Nat, NEW table, NEW k,
         2 * Cardinality(Occupied(table, cap)) <= cap
  PROVE  /\ FindSlot(table, cap, k, h) \in Index(cap)
         /\ FindSlot(table, cap, k, h) # NoSlot
         /\ \/ table[FindSlot(table, cap, k, h)].key = NoKey
            \/ SameKey(table[FindSlot(table, cap, k, h)].key, k)
<1>1. cap \in Nat \ {0} BY DEF Capacity
<1>2. Hit(table, cap, k, h) # {} BY MeetsEmpty DEF Hit
<1>3. PICK p \in Hit(table, cap, k, h) : FindSlot(table, cap, k, h) = Place(h, cap)[p]
  BY <1>2, SearchEnds
<1>4. p \in Index(cap) BY <1>3 DEF Hit
<1>5. Place(h, cap)[p] \in Index(cap) BY <1>1, <1>4, PlaceFormula
<1>6. NoSlot \notin Index(cap) BY DEF NoSlot, Index
<1> QED BY <1>3, <1>5, <1>6 DEF Hit

\* A search sees nothing but the keys.
LEMMA SearchSeesKeys ==
  ASSUME NEW cap \in Capacity, NEW h \in Nat, NEW t, NEW u, NEW k,
         \A i \in Index(cap) : t[i].key = u[i].key
  PROVE  FindSlot(t, cap, k, h) = FindSlot(u, cap, k, h)
<1>1. cap \in Nat \ {0} BY DEF Capacity
<1>2. \A p \in Index(cap) : Place(h, cap)[p] \in Index(cap) BY <1>1, PlaceFormula
<1>3. Hit(t, cap, k, h) = Hit(u, cap, k, h) BY <1>2 DEF Hit
<1> QED BY <1>3 DEF FindSlot

\* A search whose first hit is one in another table too, which has no other
\* hits, ends there in both.
LEMMA SearchKept ==
  ASSUME NEW cap \in Capacity, NEW h \in Nat, NEW t, NEW u, NEW k,
         Hit(u, cap, k, h) \subseteq Hit(t, cap, k, h)
  PROVE  \A p \in Hit(u, cap, k, h) :
           /\ FindSlot(t, cap, k, h) = Place(h, cap)[p]
           /\ \A q \in Hit(t, cap, k, h) : p <= q
           => FindSlot(u, cap, k, h) = FindSlot(t, cap, k, h)
<1> SUFFICES ASSUME NEW p \in Hit(u, cap, k, h),
                    FindSlot(t, cap, k, h) = Place(h, cap)[p],
                    \A q \in Hit(t, cap, k, h) : p <= q
             PROVE  FindSlot(u, cap, k, h) = FindSlot(t, cap, k, h)
  OBVIOUS
<1>1. PICK q \in Hit(u, cap, k, h) :
        /\ FindSlot(u, cap, k, h) = Place(h, cap)[q]
        /\ \A r \in Hit(u, cap, k, h) : q <= r
  BY SearchEnds
<1>2. p <= q /\ q <= p BY <1>1
<1>3. p \in Nat /\ q \in Nat BY <1>1 DEF Hit, Index
<1>4. p = q BY <1>2, <1>3
<1> QED BY <1>1, <1>4

-----------------------------------------------------------------------------
(* Capacities *)

\* The next power of two is one, and there is room in it for one key more than
\* half of the old capacity twice over.
LEMMA NextCapacity ==
  ASSUME NEW cap \in Capacity
  PROVE  /\ NextPowerOfTwo(cap) \in Capacity
         /\ 2 * (cap \div 2 + 1) <= NextPowerOfTwo(cap)
         /\ cap < NextPowerOfTwo(cap)
<1>1. PICK a \in Nat : cap = 2 ^ a /\ cap \in Nat \ {0} BY DEF Capacity
<1>2. a + 1 \in 0 .. cap /\ 2 ^ (a + 1) = 2 * cap
  <2>1. a < 2 ^ a BY PowerIsGreater
  <2>2. 2 ^ (a + 1) = 2 * 2 ^ a BY PowerOfNext
  <2> QED BY <1>1, <2>1, <2>2
<1>3. 2 * cap \in cap + 1 .. 2 * cap BY <1>1
<1>4. \E m \in cap + 1 .. 2 * cap : \E e \in 0 .. cap : m = 2 ^ e BY <1>2, <1>3
<1>5. PICK m : m = NextPowerOfTwo(cap) OBVIOUS
<1>6. m \in cap + 1 .. 2 * cap /\ \E e \in 0 .. cap : m = 2 ^ e
  BY <1>4, <1>5 DEF NextPowerOfTwo
<1>7. PICK e \in 0 .. cap : m = 2 ^ e BY <1>6
<1>8. m \in Nat /\ m > cap /\ e \in Nat BY <1>1, <1>6, <1>7
<1>9. m \in Capacity BY <1>7, <1>8 DEF Capacity
<1>10. \A n \in Nat : n # 0 => \E w \in Nat : 2 ^ n = 2 * w
  <2> TAKE n \in Nat
  <2> HAVE n # 0
  <2>1. n - 1 \in Nat OBVIOUS
  <2>2. 2 ^ (n - 1) \in Nat /\ 2 ^ ((n - 1) + 1) = 2 * 2 ^ (n - 1) BY <2>1, PowerOfNext
  <2>3. (n - 1) + 1 = n OBVIOUS
  <2> QED BY <2>2, <2>3
<1>11. 2 ^ 0 = 1 OBVIOUS
<1>12. PICK w \in Nat : m = 2 * w
  <2>1. ASSUME e = 0 PROVE FALSE
    <3>1. m = 1 BY <1>7, <1>11, <2>1
    <3> QED BY <3>1, <1>1, <1>8
  <2> QED BY <1>7, <1>8, <1>10, <2>1
<1>13. 2 * (cap \div 2 + 1) <= m
  <2>1. CASE a = 0
    <3>1. cap = 1 BY <1>1, <1>11, <2>1
    <3>2. 1 \div 2 = 0 OBVIOUS
    <3> QED BY <1>8, <3>1, <3>2
  <2>2. CASE a # 0
    <3>1. PICK b \in Nat : cap = 2 * b BY <1>1, <1>10, <2>2
    <3>2. cap \div 2 = b BY <3>1
    <3> QED BY <3>1, <3>2, <1>8, <1>12
  <2> QED BY <2>1, <2>2
<1> QED BY <1>5, <1>8, <1>9, <1>13

\* The capacity that the map is created with is a power of two.
LEMMA InitCapacityIsOne == InitCapacity \in Capacity
BY HashMapAssumption DEF Capacity

-----------------------------------------------------------------------------
(* Writes *)

\* The slots of a table that hold a key are finite in number.
LEMMA OccupiedFinite ==
  ASSUME NEW cap \in Nat, NEW table
  PROVE  /\ IsFiniteSet(Occupied(table, cap))
         /\ Cardinality(Occupied(table, cap)) \in Nat
<1>1. IsFiniteSet(Index(cap)) BY FS_Interval DEF Index
<1>2. Occupied(table, cap) \subseteq Index(cap) BY DEF Occupied
<1> QED BY <1>1, <1>2, FS_Subset, FS_CardinalityType

\* A write occupies one slot more at most, and none when it writes no key.
LEMMA WriteOccupies ==
  ASSUME NEW cap \in Nat, NEW table, NEW i \in Index(cap), NEW slot,
         DOMAIN table = Index(cap)
  PROVE  LET new == [table EXCEPT ![i] = slot]
         IN  /\ Cardinality(Occupied(new, cap)) <= Cardinality(Occupied(table, cap)) + 1
             /\ slot.key = NoKey =>
                  Cardinality(Occupied(new, cap)) <= Cardinality(Occupied(table, cap))
<1> DEFINE new == [table EXCEPT ![i] = slot]
           before == Occupied(table, cap)
           after == Occupied(new, cap)
<1>1. IsFiniteSet(before) /\ IsFiniteSet(after) /\ Cardinality(before) \in Nat
        /\ Cardinality(after) \in Nat
  BY OccupiedFinite
<1>2. \A j \in Index(cap) : new[j] = IF j = i THEN slot ELSE table[j] OBVIOUS
<1>3. after \subseteq before \cup {i}
  <2> HIDE DEF new
  <2> QED BY <1>2 DEF Occupied
<1>4. slot.key = NoKey => after \subseteq before
  <2> HIDE DEF new
  <2> QED BY <1>2 DEF Occupied
<1> HIDE DEF before, after
<1>5. /\ IsFiniteSet(before \cup {i})
      /\ Cardinality(before \cup {i}) <= Cardinality(before) + 1
  <2>1. IsFiniteSet(before \cup {i}) BY <1>1, FS_AddElement
  <2>2. Cardinality(before \cup {i}) =
          IF i \in before THEN Cardinality(before) ELSE Cardinality(before) + 1
    BY <1>1, FS_AddElement
  <2> QED BY <2>1, <2>2, <1>1
<1>6. Cardinality(after) <= Cardinality(before \cup {i}) BY <1>3, <1>5, FS_Subset
<1>7. slot.key = NoKey => Cardinality(after) <= Cardinality(before) BY <1>1, <1>4, FS_Subset
<1>8. Cardinality(before \cup {i}) \in Nat BY <1>5, FS_CardinalityType
<1>9. Cardinality(after) <= Cardinality(before) + 1 BY <1>1, <1>5, <1>6, <1>8
<1> QED BY <1>7, <1>9 DEF before, after

-----------------------------------------------------------------------------
(* The inductive invariant *)

Slot == [key : Key \cup {NoKey}, count : Nat]
Table(cap) == [Index(cap) -> Slot]

AtALine == {"insert", "resize", "rehash", "count"}
Printing == {"print", "done"}
GaveUp == {"failed", "crashed", "unread", "unwritten"}

TypeInv ==
  /\ pc \in {"read"} \cup GaveUp \cup AtALine \cup Printing
  /\ line \in Key \cup {NoKey}
  /\ pc \in AtALine => line \in Key
  /\ hash \in [Key -> Nat]
  /\ capacity \in Capacity
  /\ slots \in Table(capacity)
  /\ size \in Nat
  /\ oldCapacity \in Nat
  /\ old \in Table(oldCapacity)
  /\ moved \in 0 .. oldCapacity
  /\ seen \in [Key -> Nat]

\* At most half of the slots hold a key, but for the one that a resize answers;
\* the new table of a resize has no more keys than slots have been moved.
LoadInv ==
  /\ pc \in {"read", "insert", "count"} \cup Printing =>
       /\ Cardinality(Occupied(slots, capacity)) <= size
       /\ 2 * size <= capacity
  /\ pc = "resize" =>
       /\ Cardinality(Occupied(slots, capacity)) <= size
       /\ size <= capacity \div 2 + 1
  /\ pc = "rehash" =>
       /\ Cardinality(Occupied(slots, capacity)) <= Cardinality(Occupied(old, moved))
       /\ Cardinality(Occupied(old, oldCapacity)) <= size
       /\ 2 * size <= capacity

SearchInv == TypeInv /\ LoadInv /\ NeverFull

\* The slots before an index that hold a key.
Contents(table, cap) == {table[i] : i \in Occupied(table, cap)}

\* Each key is where a search for it ends.
Placed(table, cap, hashes) ==
  \A i \in Occupied(table, cap) : FindSlot(table, cap, table[i].key, hashes[table[i].key]) = i

Distinct(table, cap) ==
  \A i, j \in Occupied(table, cap) : table[i].key = table[j].key => i = j

\* The lines that the map has, each with the number of times it has been counted.
Stored == {k \in Key : Used(k) /\ ~(pc = "insert" /\ k = line)}
Counts(k) == IF pc \in AtALine /\ k = line THEN seen[k] - 1 ELSE seen[k]
Expected == {[key |-> k, count |-> Counts(k)] : k \in Stored}

ContentsInv ==
  /\ pc \in AtALine => Used(line)
  /\ pc = "insert" => seen[line] = 1
  /\ pc \notin GaveUp => Placed(slots, capacity, hash)
  /\ pc \notin GaveUp \cup {"rehash"} => Contents(slots, capacity) = Expected
  /\ pc = "rehash" =>
       /\ Distinct(old, oldCapacity)
       /\ Contents(old, oldCapacity) = Expected
       /\ Contents(slots, capacity) = Contents(old, moved)

PrintInv ==
  /\ pc \notin Printing \cup GaveUp => printed = <<>>
  /\ pc \in Printing =>
       /\ index \in 0 .. capacity
       /\ index < capacity => slots[index].key # NoKey
       /\ printed \in Seq(Slot)
       /\ {printed[i] : i \in 1 .. Len(printed)} = Contents(slots, index)
       /\ \A i, j \in 1 .. Len(printed) : i # j => printed[i].key # printed[j].key
  /\ pc = "done" => index = capacity

IInv == SearchInv /\ ContentsInv /\ PrintInv

\* No line is a prefix of another one.
PrefixFree == \A k, l \in Key : SameKey(k, l) => k = l

-----------------------------------------------------------------------------
(* The map is never full *)

\* The slots moved so far are some of the old ones.
LEMMA MovedAreOld ==
  ASSUME NEW m \in Nat, NEW n \in m .. m + 1, NEW table
  PROVE  /\ Occupied(table, m) \subseteq Occupied(table, n)
         /\ Cardinality(Occupied(table, m)) <= Cardinality(Occupied(table, n))
<1>1. Occupied(table, m) \subseteq Occupied(table, n) BY DEF Occupied, Index
<1>2. n \in Nat OBVIOUS
<1> QED BY <1>1, <1>2, OccupiedFinite, FS_Subset

\* As long as linefreq runs the table is not overloaded, and a search ends.
LEMMA GetSucceeds ==
  ASSUME TypeInv, LoadInv, pc \in {"read", "insert", "rehash", "count"}
  PROVE  \A h \in Nat : \A k :
           /\ Get(k, h) \in Index(capacity)
           /\ Get(k, h) # NoSlot
           /\ slots[Get(k, h)].key = NoKey \/ SameKey(slots[Get(k, h)].key, k)
<1>1. capacity \in Capacity /\ capacity \in Nat /\ size \in Nat /\ oldCapacity \in Nat
        /\ moved \in 0 .. oldCapacity
  BY DEF TypeInv, Capacity
<1>2. /\ Cardinality(Occupied(slots, capacity)) \in Nat
      /\ Cardinality(Occupied(old, moved)) \in Nat
      /\ Cardinality(Occupied(old, oldCapacity)) \in Nat
  BY <1>1, OccupiedFinite
<1>3. Cardinality(Occupied(old, moved)) <= Cardinality(Occupied(old, oldCapacity))
  <2>1. Occupied(old, moved) \subseteq Occupied(old, oldCapacity) BY <1>1 DEF Occupied, Index
  <2> QED BY <2>1, <1>1, OccupiedFinite, FS_Subset
<1>4. 2 * Cardinality(Occupied(slots, capacity)) <= capacity
  <2>1. CASE pc = "rehash"
    <3>1. /\ Cardinality(Occupied(slots, capacity)) <= Cardinality(Occupied(old, moved))
          /\ Cardinality(Occupied(old, oldCapacity)) <= size
          /\ 2 * size <= capacity
      BY <2>1 DEF LoadInv
    <3> QED BY <3>1, <1>1, <1>2, <1>3
  <2>2. CASE pc # "rehash"
    <3>1. Cardinality(Occupied(slots, capacity)) <= size /\ 2 * size <= capacity
      BY <2>2 DEF LoadInv
    <3> QED BY <3>1, <1>1, <1>2
  <2> QED BY <2>1, <2>2
<1> QED BY <1>1, <1>4, SearchSucceeds DEF Get

\* No slot of a new table holds a key.
LEMMA NewTableEmpty ==
  ASSUME NEW cap \in Nat
  PROVE  /\ NewTable(cap) \in Table(cap)
         /\ \A i \in Index(cap) : NewTable(cap)[i].key = NoKey
         /\ Occupied(NewTable(cap), cap) = {}
         /\ Cardinality(Occupied(NewTable(cap), cap)) = 0
<1>1. NewTable(cap) \in Table(cap) BY DEF NewTable, Table, EmptySlot, Slot
<1>2. \A i \in Index(cap) : NewTable(cap)[i].key = NoKey BY DEF NewTable, EmptySlot
<1>3. Occupied(NewTable(cap), cap) = {} BY <1>2 DEF Occupied
<1> QED BY <1>1, <1>2, <1>3, FS_EmptySet

\* The invariant holds at first.
LEMMA SearchAtFirst == Init => SearchInv
<1> SUFFICES ASSUME Init PROVE SearchInv OBVIOUS
<1> USE DEF Init
<1>1. InitCapacity \in Capacity /\ InitCapacity \in Nat BY InitCapacityIsOne DEF Capacity
<1>2. slots \in Table(capacity) /\ Cardinality(Occupied(slots, capacity)) = 0
  BY <1>1, NewTableEmpty
<1>3. old \in Table(oldCapacity) /\ oldCapacity \in Nat /\ moved \in 0 .. oldCapacity
  BY NewTableEmpty
<1>4. hash \in [Key -> Nat] /\ seen \in [Key -> Nat] OBVIOUS
<1>5. TypeInv BY <1>1, <1>2, <1>3, <1>4 DEF TypeInv, AtALine, Printing, GaveUp
<1>6. LoadInv BY <1>1, <1>2 DEF LoadInv, Printing
<1>7. NeverFull BY DEF NeverFull
<1> QED BY <1>5, <1>6, <1>7 DEF SearchInv

\* Reading a line leaves the map alone.
LEMMA SearchReadLine ==
  ASSUME SearchInv, NEW k \in Key, ReadLine(k)
  PROVE  SearchInv'
<1> USE DEF SearchInv, ReadLine, map, resize, iterator
<1>1. PICK h \in Hash : /\ hash' = [hash EXCEPT ![k] = h]
                        /\ pc' = IF Contains(k, h) THEN "count" ELSE "insert"
  OBVIOUS
<1>2. h \in Nat BY HashMapAssumption
<1>3. hash' \in [Key -> Nat] /\ seen' \in [Key -> Nat] BY <1>1, <1>2 DEF TypeInv
<1>4. TypeInv' BY <1>1, <1>3 DEF TypeInv, AtALine, GaveUp
<1>5. LoadInv' BY <1>1 DEF LoadInv
<1>6. NeverFull' BY <1>1 DEF NeverFull
<1> QED BY <1>4, <1>5, <1>6

\* An insert finds a slot.
LEMMA InsertFinds ==
  ASSUME SearchInv, pc = "insert"
  PROVE  /\ line \in Key
         /\ InsertPlace = Get(line, hash[line])
         /\ InsertPlace \in Index(capacity)
         /\ InsertPlace # NoSlot
         /\ slots[InsertPlace].key = NoKey \/ SameKey(slots[InsertPlace].key, line)
<1>1. line \in Key /\ hash[line] \in Nat BY DEF SearchInv, TypeInv, AtALine, GaveUp
<1>2. size < capacity
  <2>1. size \in Nat /\ capacity \in Nat \ {0} /\ 2 * size <= capacity
    BY DEF SearchInv, TypeInv, LoadInv, Capacity
  <2> QED BY <2>1
<1>3. InsertPlace = Get(line, hash[line]) BY <1>2 DEF InsertPlace
<1> QED BY <1>1, <1>3, GetSucceeds DEF SearchInv

\* An insert occupies one slot at most, and asks for a resize in time.
LEMMA SearchInsert ==
  ASSUME SearchInv, Insert
  PROVE  SearchInv'
<1> USE DEF Insert, resize, iterator
<1>1. PICK i : i = InsertPlace OBVIOUS
<1>2. PICK slot : slot = [key |-> line, count |-> 0] OBVIOUS
<1>3. line \in Key /\ i \in Index(capacity) /\ i # NoSlot BY <1>1, InsertFinds
<1>4. slots' = [slots EXCEPT ![i] = slot] /\ size' = size + 1 BY <1>1, <1>2, <1>3 DEF Written
<1>5. pc' = IF IsOverloaded(size', capacity) THEN "resize" ELSE "count" BY <1>1, <1>3
<1>6. slot \in Slot BY <1>2, <1>3 DEF Slot
<1>7. capacity \in Nat /\ slots \in Table(capacity) /\ size \in Nat
  BY DEF SearchInv, TypeInv, Capacity
<1>8. slots' \in Table(capacity) BY <1>3, <1>4, <1>6, <1>7 DEF Table
<1>9. TypeInv' BY <1>4, <1>5, <1>7, <1>8 DEF SearchInv, TypeInv, AtALine, GaveUp
<1>10. Cardinality(Occupied(slots', capacity)) <= Cardinality(Occupied(slots, capacity)) + 1
  BY <1>3, <1>4, <1>7, WriteOccupies DEF Table
<1>11. Cardinality(Occupied(slots, capacity)) <= size /\ 2 * size <= capacity
  BY DEF SearchInv, LoadInv
<1>12. /\ Cardinality(Occupied(slots', capacity)) \in Nat
       /\ Cardinality(Occupied(slots, capacity)) \in Nat
  BY <1>7, OccupiedFinite
<1>13. Cardinality(Occupied(slots', capacity)) <= size' BY <1>4, <1>7, <1>10, <1>11, <1>12
<1>14. pc' = "resize" => size' <= capacity \div 2 + 1 BY <1>4, <1>7, <1>11
<1>15. pc' # "resize" => pc' = "count" /\ 2 * size' <= capacity
  BY <1>4, <1>5, <1>7 DEF IsOverloaded
<1>16. LoadInv' BY <1>5, <1>13, <1>14, <1>15 DEF LoadInv, Printing
<1>17. NeverFull' BY <1>5 DEF NeverFull
<1> QED BY <1>9, <1>16, <1>17 DEF SearchInv

\* A resize makes room.
LEMMA SearchResize ==
  ASSUME SearchInv, Resize
  PROVE  SearchInv'
<1> USE DEF Resize, iterator
<1>1. capacity \in Capacity /\ capacity \in Nat /\ slots \in Table(capacity) /\ size \in Nat
  BY DEF SearchInv, TypeInv, Capacity
<1>2. /\ capacity' \in Capacity /\ capacity' \in Nat
      /\ 2 * (capacity \div 2 + 1) <= capacity'
  BY <1>1, NextCapacity DEF Capacity
<1>3. slots' \in Table(capacity') /\ Cardinality(Occupied(slots', capacity')) = 0
  BY <1>2, NewTableEmpty DEF NewSlots
<1>4. TypeInv' BY <1>1, <1>2, <1>3 DEF SearchInv, TypeInv, AtALine, GaveUp
<1>5. Cardinality(Occupied(slots, capacity)) <= size /\ size <= capacity \div 2 + 1
  BY DEF SearchInv, LoadInv
<1>6. 2 * size <= capacity' BY <1>1, <1>2, <1>5
<1>7. Cardinality(Occupied(old', moved')) \in Nat BY OccupiedFinite
<1>8. LoadInv' BY <1>3, <1>5, <1>6, <1>7 DEF LoadInv, Printing
<1>9. NeverFull' BY DEF NeverFull
<1> QED BY <1>4, <1>8, <1>9 DEF SearchInv

\* An old slot finds a place, an empty one, too.
LEMMA RehashFinds ==
  ASSUME SearchInv, Rehash
  PROVE  /\ moved \in Index(oldCapacity)
         /\ old[moved] \in Slot
         /\ SlotHash(old[moved]) \in Nat
         /\ OldSlotPlace \in Index(capacity)
         /\ OldSlotPlace # NoSlot
         /\ \/ slots[OldSlotPlace].key = NoKey
            \/ SameKey(slots[OldSlotPlace].key, old[moved].key)
<1>1. moved \in Index(oldCapacity) BY DEF SearchInv, TypeInv, Index, Rehash
<1>2. old[moved] \in Slot BY <1>1 DEF SearchInv, TypeInv, Table
<1>3. SlotHash(old[moved]) \in Nat BY <1>2 DEF SlotHash, Slot, SearchInv, TypeInv
<1> QED BY <1>1, <1>2, <1>3, GetSucceeds DEF SearchInv, OldSlotPlace, Rehash

\* The new table never has more keys than the old slots that have been moved.
LEMMA SearchRehash ==
  ASSUME SearchInv, Rehash
  PROVE  SearchInv'
<1> USE DEF Rehash, iterator
<1>1. PICK i : i = OldSlotPlace OBVIOUS
<1>2. PICK slot : slot = old[moved] OBVIOUS
<1>3. /\ moved \in Index(oldCapacity) /\ slot \in Slot
      /\ i \in Index(capacity) /\ i # NoSlot
  BY <1>1, <1>2, RehashFinds
<1>4. slots' = [slots EXCEPT ![i] = slot] /\ pc' = "rehash" BY <1>1, <1>2, <1>3 DEF Written
<1>5. /\ capacity \in Nat /\ slots \in Table(capacity) /\ size \in Nat
      /\ oldCapacity \in Nat /\ moved \in Nat
  BY DEF SearchInv, TypeInv, Capacity
<1>6. slots' \in Table(capacity) BY <1>3, <1>4, <1>5 DEF Table
<1>7. moved' \in 0 .. oldCapacity BY <1>3, <1>5 DEF Index
<1>8. TypeInv' BY <1>4, <1>6, <1>7 DEF SearchInv, TypeInv, AtALine, GaveUp
<1>9. /\ Cardinality(Occupied(slots', capacity)) <= Cardinality(Occupied(slots, capacity)) + 1
      /\ slot.key = NoKey =>
           Cardinality(Occupied(slots', capacity)) <= Cardinality(Occupied(slots, capacity))
  BY <1>3, <1>4, <1>5, WriteOccupies DEF Table
<1>10. /\ Cardinality(Occupied(old, moved)) <= Cardinality(Occupied(old, moved'))
       /\ slot.key # NoKey =>
            Cardinality(Occupied(old, moved')) = Cardinality(Occupied(old, moved)) + 1
  <2>1. Cardinality(Occupied(old, moved)) <= Cardinality(Occupied(old, moved'))
    BY <1>5, MovedAreOld
  <2>2. ASSUME slot.key # NoKey PROVE Occupied(old, moved') = Occupied(old, moved) \cup {moved}
    BY <2>2, <1>2, <1>5 DEF Occupied, Index
  <2>3. moved \notin Occupied(old, moved) BY <1>5 DEF Occupied, Index
  <2>4. IsFiniteSet(Occupied(old, moved)) BY <1>5, OccupiedFinite
  <2> QED BY <2>1, <2>2, <2>3, <2>4, FS_AddElement
<1>11. /\ Cardinality(Occupied(slots, capacity)) <= Cardinality(Occupied(old, moved))
       /\ Cardinality(Occupied(old, oldCapacity)) <= size
       /\ 2 * size <= capacity
  BY DEF SearchInv, LoadInv
<1>12. /\ Cardinality(Occupied(slots', capacity)) \in Nat
       /\ Cardinality(Occupied(slots, capacity)) \in Nat
       /\ Cardinality(Occupied(old, moved)) \in Nat
       /\ Cardinality(Occupied(old, moved')) \in Nat
  BY <1>5, OccupiedFinite
<1>13. Cardinality(Occupied(slots', capacity)) <= Cardinality(Occupied(old, moved'))
  <2>1. CASE slot.key = NoKey BY <2>1, <1>9, <1>10, <1>11, <1>12
  <2>2. CASE slot.key # NoKey BY <2>2, <1>9, <1>10, <1>11, <1>12
  <2> QED BY <2>1, <2>2
<1>14. LoadInv' BY <1>4, <1>11, <1>13 DEF LoadInv, Printing
<1>15. NeverFull' BY <1>4 DEF NeverFull
<1> QED BY <1>8, <1>14, <1>15 DEF SearchInv

\* In the end all old slots have been moved.
LEMMA SearchEndResize ==
  ASSUME SearchInv, EndResize
  PROVE  SearchInv'
<1> USE DEF EndResize, map, iterator
<1>1. old' \in Table(oldCapacity') /\ oldCapacity' \in Nat /\ moved' \in 0 .. oldCapacity'
  BY NewTableEmpty
<1>2. TypeInv' BY <1>1 DEF SearchInv, TypeInv, AtALine, GaveUp
<1>3. capacity \in Nat /\ oldCapacity \in Nat /\ size \in Nat
  BY DEF SearchInv, TypeInv, Capacity
<1>4. /\ Cardinality(Occupied(slots, capacity)) \in Nat
      /\ Cardinality(Occupied(old, oldCapacity)) \in Nat
  BY <1>3, OccupiedFinite
<1>5. Cardinality(Occupied(slots, capacity)) <= size /\ 2 * size <= capacity
  BY <1>3, <1>4 DEF SearchInv, LoadInv
<1>6. LoadInv' BY <1>5 DEF LoadInv, Printing
<1>7. NeverFull' BY DEF NeverFull
<1> QED BY <1>2, <1>6, <1>7 DEF SearchInv

\* The slot of the line is found, and no key is written.
LEMMA SearchCount ==
  ASSUME SearchInv, Count
  PROVE  SearchInv'
<1> USE DEF Count, resize, iterator
<1>1. line \in Key /\ hash[line] \in Nat BY DEF SearchInv, TypeInv, AtALine, GaveUp
<1>2. PICK i : i = Get(line, hash[line]) OBVIOUS
<1>3. i \in Index(capacity) /\ i # NoSlot BY <1>1, <1>2, GetSucceeds DEF SearchInv
<1>4. slots' = [slots EXCEPT ![i].count = @ + 1] /\ pc' = "read" BY <1>2, <1>3
<1>5. slots \in Table(capacity) BY DEF SearchInv, TypeInv
<1>6. slots[i] \in Slot BY <1>3, <1>5 DEF Table
<1>7. [slots[i] EXCEPT !.count = @ + 1] \in Slot BY <1>6 DEF Slot
<1>8. slots' \in Table(capacity) BY <1>3, <1>4, <1>5, <1>7 DEF Table
<1>9. TypeInv' BY <1>4, <1>8 DEF SearchInv, TypeInv, AtALine, GaveUp
<1>10. \A j \in Index(capacity) : slots'[j].key = slots[j].key
  BY <1>3, <1>4, <1>5, <1>6 DEF Table, Slot
<1>11. Occupied(slots', capacity) = Occupied(slots, capacity) BY <1>10 DEF Occupied
<1>12. LoadInv' BY <1>4, <1>11 DEF SearchInv, LoadInv, Printing
<1>13. NeverFull' BY <1>4 DEF NeverFull
<1> QED BY <1>9, <1>12, <1>13 DEF SearchInv

\* What linefreq does without the map's help leaves the map alone.
LEMMA SearchOther ==
  ASSUME SearchInv,
         \/ OutOfMemory \/ NoTable \/ NoText
         \/ EndOfText \/ PrintSlot \/ PrintFails \/ EndOfPrint \/ UNCHANGED vars
  PROVE  SearchInv'
<1> USE DEF map, resize, iterator, AtALine, Printing, GaveUp, SearchInv
<1>1. CASE OutOfMemory BY <1>1 DEF OutOfMemory, TypeInv, LoadInv, NeverFull
<1>2. CASE EndOfText BY <1>2 DEF EndOfText, TypeInv, LoadInv, NeverFull
<1>3. CASE PrintSlot BY <1>3 DEF PrintSlot, TypeInv, LoadInv, NeverFull
<1>4. CASE EndOfPrint BY <1>4 DEF EndOfPrint, TypeInv, LoadInv, NeverFull
<1>5. CASE NoTable BY <1>5 DEF NoTable, TypeInv, LoadInv, NeverFull
<1>6. CASE NoText BY <1>6 DEF NoText, TypeInv, LoadInv, NeverFull
<1>7. CASE PrintFails BY <1>7 DEF PrintFails, TypeInv, LoadInv, NeverFull
<1>8. CASE UNCHANGED vars BY <1>8 DEF vars, TypeInv, LoadInv, NeverFull
<1> QED BY <1>1, <1>2, <1>3, <1>4, <1>5, <1>6, <1>7, <1>8

\* Every step keeps the invariant.
LEMMA SearchStep == SearchInv /\ [Next]_vars => SearchInv'
BY SearchReadLine, SearchInsert, SearchResize, SearchRehash, SearchEndResize, SearchCount,
   SearchOther DEF Next

\* The map stays well formed, at most half of its slots are taken when a search
\* begins, and linefreq fails for want of memory only.
THEOREM HashMapSearches == Spec => []SearchInv
BY SearchAtFirst, SearchStep, PTL DEF Spec

\* sl_hashmap_find_slot never gives up ("hashmap is full"), for any hashes, any
\* keys, also such that begin with one another, and texts of any length.
THEOREM HashMapNeverFull == Spec => []NeverFull
BY HashMapSearches, PTL DEF SearchInv

-----------------------------------------------------------------------------
(* Keys and places *)

\* Each key has one slot.
LEMMA PlacedDistinct ==
  ASSUME NEW cap, NEW table, NEW hashes, Placed(table, cap, hashes)
  PROVE  Distinct(table, cap)
<1> SUFFICES ASSUME NEW i \in Occupied(table, cap), NEW j \in Occupied(table, cap),
                    table[i].key = table[j].key
             PROVE  i = j
  BY DEF Distinct
<1>1. FindSlot(table, cap, table[i].key, hashes[table[i].key]) = i BY DEF Placed
<1>2. FindSlot(table, cap, table[j].key, hashes[table[j].key]) = j BY DEF Placed
<1> QED BY <1>1, <1>2

\* Where the keys are depends on the keys and their hashes.
LEMMA PlacedSeesKeys ==
  ASSUME NEW cap \in Capacity, NEW t \in Table(cap), NEW u \in Table(cap),
         NEW hashes \in [Key -> Nat],
         \A i \in Index(cap) : t[i].key = u[i].key,
         Placed(t, cap, hashes)
  PROVE  Occupied(u, cap) = Occupied(t, cap) /\ Placed(u, cap, hashes)
<1>1. Occupied(u, cap) = Occupied(t, cap) BY DEF Occupied
<1>2. ASSUME NEW i \in Occupied(t, cap)
      PROVE  FindSlot(u, cap, u[i].key, hashes[u[i].key]) = i
  <2>1. i \in Index(cap) /\ t[i].key # NoKey BY DEF Occupied
  <2>2. PICK k \in Key : k = t[i].key BY <2>1 DEF Table, Slot
  <2>3. u[i].key = k /\ hashes[k] \in Nat BY <2>1, <2>2
  <2>4. FindSlot(t, cap, k, hashes[k]) = i BY <2>2 DEF Placed
  <2>5. FindSlot(t, cap, k, hashes[k]) = FindSlot(u, cap, k, hashes[k])
    BY <2>3, SearchSeesKeys
  <2> QED BY <2>3, <2>4, <2>5
<1> QED BY <1>1, <1>2 DEF Placed

\* A key that is written where the search for it met an empty slot is placed, and
\* the searches for the other keys end where they did: none of them met the slot.
LEMMA WriteKeepsPlaced ==
  ASSUME PrefixFree, NEW cap \in Capacity, NEW t \in Table(cap),
         NEW hashes \in [Key -> Nat], Placed(t, cap, hashes),
         NEW slot \in Slot, slot.key \in Key,
         NEW i \in Index(cap), t[i].key = NoKey,
         i = FindSlot(t, cap, slot.key, hashes[slot.key]),
         NEW u, \A j \in Index(cap) : u[j] = IF j = i THEN slot ELSE t[j]
  PROVE  /\ Placed(u, cap, hashes)
         /\ Contents(u, cap) = Contents(t, cap) \cup {slot}
<1>1. \A j \in Index(cap) : u[j] = IF j = i THEN slot ELSE t[j] OBVIOUS
<1>2. cap \in Nat \ {0} /\ NoKey \notin Key BY HashMapAssumption DEF Capacity
<1>3. Occupied(u, cap) = Occupied(t, cap) \cup {i} /\ i \notin Occupied(t, cap)
  BY <1>1, <1>2 DEF Occupied
<1>4. Contents(u, cap) = Contents(t, cap) \cup {slot}
  <2>1. \A j \in Occupied(t, cap) : u[j] = t[j] BY <1>1, <1>3 DEF Occupied
  <2>2. u[i] = slot BY <1>1
  <2>3. \A j \in Occupied(u, cap) : u[j] \in Contents(t, cap) \cup {slot}
    BY <1>3, <2>1, <2>2 DEF Contents
  <2>4. \A j \in Occupied(t, cap) : t[j] \in Contents(u, cap) BY <1>3, <2>1 DEF Contents
  <2>5. slot \in Contents(u, cap) BY <1>3, <2>2 DEF Contents
  <2>6. Contents(u, cap) \subseteq Contents(t, cap) \cup {slot} BY <2>3 DEF Contents
  <2>7. Contents(t, cap) \subseteq Contents(u, cap) BY <2>4 DEF Contents
  <2> QED BY <2>5, <2>6, <2>7
<1>5. ASSUME NEW j \in Occupied(u, cap)
      PROVE  FindSlot(u, cap, u[j].key, hashes[u[j].key]) = j
  <2>1. PICK k \in Key : k = u[j].key
    <3>1. j \in Index(cap) /\ u[j].key # NoKey BY DEF Occupied
    <3>2. t[j] \in Slot BY <3>1 DEF Table
    <3>3. u[j] \in Slot BY <3>1, <3>2, <1>1
    <3> QED BY <3>1, <3>3 DEF Slot
  <2>2. PICK h \in Nat : h = hashes[k] OBVIOUS
  <2>3. FindSlot(t, cap, k, h) = j
    <3>1. CASE j = i BY <3>1, <1>1, <2>1, <2>2
    <3>2. CASE j # i
      <4>1. j \in Occupied(t, cap) /\ u[j] = t[j] BY <3>2, <1>1, <1>3 DEF Occupied
      <4> QED BY <4>1, <2>1, <2>2 DEF Placed
    <3> QED BY <3>1, <3>2
  <2>4. j \in Index(cap) /\ j # NoSlot BY <1>2 DEF Occupied, Index, NoSlot
  <2>5. Hit(t, cap, k, h) # {} BY <2>3, <2>4 DEF FindSlot
  <2>6. PICK p \in Hit(t, cap, k, h) :
          /\ FindSlot(t, cap, k, h) = Place(h, cap)[p]
          /\ \A q \in Hit(t, cap, k, h) : p <= q
    BY <2>5, SearchEnds
  <2>7. p \in Index(cap) /\ Place(h, cap)[p] = j BY <2>3, <2>6 DEF Hit
  <2>8. p \in Hit(u, cap, k, h) BY <2>1, <2>7, <1>2 DEF Hit, SameKey
  <2>9. \A q \in Index(cap) : Place(h, cap)[q] \in Index(cap) BY <1>2, PlaceFormula
  <2>10. ASSUME NEW q \in Hit(u, cap, k, h) PROVE q \in Hit(t, cap, k, h)
    <3>1. q \in Index(cap) /\ Place(h, cap)[q] \in Index(cap) BY <2>9 DEF Hit
    <3>2. CASE Place(h, cap)[q] = i BY <3>1, <3>2 DEF Hit
    <3>3. CASE Place(h, cap)[q] # i
      <4>1. u[Place(h, cap)[q]] = t[Place(h, cap)[q]] BY <3>1, <3>3, <1>1
      <4> QED BY <4>1, <3>1 DEF Hit
    <3> QED BY <3>2, <3>3
  <2>11. Hit(u, cap, k, h) \subseteq Hit(t, cap, k, h) BY <2>10
  <2>12. \A r \in Hit(u, cap, k, h) :
           /\ FindSlot(t, cap, k, h) = Place(h, cap)[r]
           /\ \A q \in Hit(t, cap, k, h) : r <= q
           => FindSlot(u, cap, k, h) = FindSlot(t, cap, k, h)
    BY <2>2, <2>11, SearchKept
  <2>13. FindSlot(u, cap, k, h) = FindSlot(t, cap, k, h) BY <2>6, <2>8, <2>12
  <2> QED BY <2>1, <2>2, <2>3, <2>13
<1> QED BY <1>4, <1>5 DEF Placed

-----------------------------------------------------------------------------
(* The contents of the map *)

\* The entry of a line that the map has is where a search for it ends.
LEMMA StoredFound ==
  ASSUME TypeInv, Placed(slots, capacity, hash), Contents(slots, capacity) = Expected,
         NEW k \in Stored
  PROVE  /\ Get(k, hash[k]) \in Occupied(slots, capacity)
         /\ slots[Get(k, hash[k])] = [key |-> k, count |-> Counts(k)]
<1>1. [key |-> k, count |-> Counts(k)] \in Contents(slots, capacity) BY DEF Expected
<1>2. PICK i \in Occupied(slots, capacity) : slots[i] = [key |-> k, count |-> Counts(k)]
  BY <1>1 DEF Contents
<1>3. slots[i].key = k BY <1>2
<1>4. FindSlot(slots, capacity, k, hash[k]) = i BY <1>3 DEF Placed
<1> QED BY <1>2, <1>4 DEF Get

\* The key of a slot is that of a line that the map has.
LEMMA FoundStored ==
  ASSUME Contents(slots, capacity) = Expected, NEW i \in Occupied(slots, capacity)
  PROVE  slots[i].key \in Stored
<1>1. slots[i] \in Expected BY DEF Contents
<1>2. PICK k \in Stored : slots[i] = [key |-> k, count |-> Counts(k)] BY <1>1 DEF Expected
<1> QED BY <1>2

\* sl_hashmap_contains tells whether a line has been read before.
LEMMA ContainsUsed ==
  ASSUME PrefixFree, SearchInv, ContentsInv, pc = "read",
         NEW k \in Key, NEW h \in Nat, Used(k) => h = hash[k]
  PROVE  Contains(k, h) <=> Used(k)
<1>1. Placed(slots, capacity, hash) /\ Contents(slots, capacity) = Expected
  BY DEF ContentsInv, GaveUp
<1>2. TypeInv BY DEF SearchInv
<1>3. Stored = {l \in Key : Used(l)} BY DEF Stored
<1>4. ASSUME Used(k) PROVE Contains(k, h)
  <2>1. k \in Stored /\ h = hash[k] BY <1>3, <1>4
  <2>2. Get(k, h) \in Occupied(slots, capacity) BY <1>1, <1>2, <2>1, StoredFound
  <2>3. Get(k, h) # NoSlot BY <2>2, <1>2 DEF Occupied, Index, NoSlot, TypeInv, Capacity
  <2> QED BY <2>2, <2>3 DEF Contains, Occupied
<1>5. ASSUME Contains(k, h) PROVE Used(k)
  <2>1. /\ Get(k, h) \in Index(capacity)
        /\ slots[Get(k, h)].key # NoKey
        /\ SameKey(slots[Get(k, h)].key, k)
    BY <1>5, GetSucceeds DEF Contains, SearchInv
  <2>2. Get(k, h) \in Occupied(slots, capacity) BY <2>1 DEF Occupied
  <2>3. slots[Get(k, h)].key \in Stored BY <1>1, <2>2, FoundStored
  <2>4. slots[Get(k, h)].key = k BY <2>1, <2>3, <1>3 DEF PrefixFree
  <2> QED BY <2>3, <2>4, <1>3
<1> QED BY <1>4, <1>5

\* At first the map is empty.
LEMMA ContentsAtFirst == Init => ContentsInv /\ PrintInv
<1> SUFFICES ASSUME Init PROVE ContentsInv /\ PrintInv OBVIOUS
<1>1. pc = "read" /\ slots = NewTable(InitCapacity) /\ capacity = InitCapacity
        /\ printed = <<>> /\ seen = [k \in Key |-> 0]
  BY DEF Init
<1>2. Occupied(slots, capacity) = {} BY <1>1, NewTableEmpty, HashMapAssumption
<1>3. Placed(slots, capacity, hash) BY <1>2 DEF Placed
<1>4. Contents(slots, capacity) = {} BY <1>2 DEF Contents
<1>5. Expected = {} BY <1>1 DEF Expected, Stored, Used
<1>6. ContentsInv BY <1>1, <1>3, <1>4, <1>5 DEF ContentsInv, AtALine, GaveUp
<1>7. PrintInv BY <1>1 DEF PrintInv, Printing, GaveUp
<1> QED BY <1>6, <1>7

\* A line that has been read before is found, one that has not is to be inserted.
LEMMA ContentsReadLine ==
  ASSUME PrefixFree, SearchInv, ContentsInv, NEW k \in Key, ReadLine(k)
  PROVE  ContentsInv'
<1> USE DEF ReadLine, map, resize, iterator
<1>1. PICK h \in Hash : /\ Used(k) => h = hash[k]
                        /\ hash' = [hash EXCEPT ![k] = h]
                        /\ pc' = IF Contains(k, h) THEN "count" ELSE "insert"
  OBVIOUS
<1>2. h \in Nat BY HashMapAssumption
<1>3. Contains(k, h) <=> Used(k) BY <1>1, <1>2, ContainsUsed
<1>4. Placed(slots, capacity, hash) /\ Contents(slots, capacity) = Expected
  BY DEF ContentsInv, GaveUp
<1>5. hash \in [Key -> Nat] /\ seen \in [Key -> Nat] BY DEF SearchInv, TypeInv
<1>6. Stored = {l \in Key : Used(l)} BY DEF Stored
<1>7. Placed(slots, capacity, hash')
  <2>1. ASSUME NEW i \in Occupied(slots, capacity)
        PROVE  hash'[slots[i].key] = hash[slots[i].key]
    <3>1. PICK l \in Key : l = slots[i].key /\ Used(l) BY <1>4, <1>6, FoundStored
    <3>2. hash'[l] = hash[l] BY <1>1, <1>5, <3>1
    <3> QED BY <3>1, <3>2
  <2> QED BY <1>4, <2>1 DEF Placed
<1>8. seen'[k] = seen[k] + 1 /\ (\A l \in Key : l # k => seen'[l] = seen[l]) BY <1>5
<1>9. /\ \A l \in Key : Used(l) <=> seen[l] > 0
      /\ \A l \in Key : Used(l)' <=> seen'[l] > 0
  BY DEF Used
<1>10. Stored' = Stored
  <2>1. CASE Used(k)
    <3>1. pc' = "count" BY <1>1, <1>3, <2>1
    <3>2. \A l \in Key : Used(l)' <=> Used(l) BY <1>5, <1>8, <1>9, <2>1
    <3> QED BY <1>6, <3>1, <3>2 DEF Stored
  <2>2. CASE ~Used(k)
    <3>1. pc' = "insert" /\ line' = k BY <1>1, <1>3, <2>2
    <3>2. \A l \in Key : Used(l)' /\ l # k <=> Used(l) BY <1>8, <1>9, <2>2
    <3> QED BY <1>6, <3>1, <3>2 DEF Stored
  <2> QED BY <2>1, <2>2
<1>11. \A l \in Key : Counts(l)' = Counts(l)
  <2>1. pc' \in AtALine /\ pc \notin AtALine /\ line' = k BY <1>1 DEF AtALine
  <2>2. \A l \in Key : Counts(l) = seen[l] BY <2>1 DEF Counts
  <2>3. \A l \in Key : Counts(l)' = IF l = k THEN seen'[l] - 1 ELSE seen'[l]
    BY <2>1 DEF Counts
  <2> QED BY <1>5, <1>8, <2>2, <2>3
<1>12. Expected' = Expected BY <1>10, <1>11 DEF Expected, Stored
<1>13. Used(k)' /\ (pc' = "insert" => seen'[k] = 1)
  <2>1. Used(k)' BY <1>5, <1>8, <1>9
  <2>2. pc' = "insert" => seen[k] = 0 BY <1>1, <1>3, <1>5, <1>9
  <2> QED BY <1>8, <2>1, <2>2
<1>14. line' = k /\ pc' \in {"count", "insert"} /\ UNCHANGED <<slots, capacity>> BY <1>1
<1>15. Used(line)' BY <1>13, <1>14 DEF Used
<1>16. Contents(slots, capacity)' = Expected' /\ Placed(slots, capacity, hash)'
  BY <1>4, <1>7, <1>12, <1>14
<1> QED BY <1>13, <1>14, <1>15, <1>16 DEF ContentsInv, GaveUp

\* While the map is at work on a line, nothing is expected of it but what an
\* insert adds.
LEMMA ExpectedKept ==
  ASSUME pc \in AtALine, pc' \in AtALine, UNCHANGED <<line, seen>>, seen \in [Key -> Nat],
         line \in Key, Used(line), pc = "insert" => seen[line] = 1, pc' # "insert"
  PROVE  Expected' = IF pc = "insert" THEN Expected \cup {[key |-> line, count |-> 0]}
                     ELSE Expected
<1>1. \A k \in Key : Used(k)' <=> Used(k) BY DEF Used
<1>2. \A k \in Key : Counts(k)' = Counts(k) BY DEF Counts
<1>3. Stored' = IF pc = "insert" THEN Stored \cup {line} ELSE Stored BY <1>1 DEF Stored
<1>4. pc = "insert" => Counts(line) = 0 BY DEF Counts
<1>5. Stored' \subseteq Key BY <1>3 DEF Stored
<1>6. Expected' = {[key |-> k, count |-> Counts(k)] : k \in Stored'}
  BY <1>2, <1>5 DEF Expected
<1>7. CASE pc = "insert"
  <2>1. Stored' = Stored \cup {line} BY <1>3, <1>7
  <2> QED BY <1>4, <1>6, <1>7, <2>1 DEF Expected
<1>8. CASE pc # "insert" BY <1>3, <1>6, <1>8 DEF Expected
<1> QED BY <1>7, <1>8

\* An insert adds the line, with no count yet.
LEMMA ContentsInsert ==
  ASSUME PrefixFree, SearchInv, ContentsInv, Insert
  PROVE  ContentsInv'
<1> USE DEF Insert, resize, iterator
<1>1. PICK i : i = InsertPlace OBVIOUS
<1>2. PICK slot : slot = [key |-> line, count |-> 0] OBVIOUS
<1>3. /\ line \in Key /\ i \in Index(capacity) /\ i # NoSlot
      /\ i = FindSlot(slots, capacity, line, hash[line])
      /\ slots[i].key = NoKey \/ SameKey(slots[i].key, line)
  BY <1>1, InsertFinds DEF Get
<1>4. slots' = [slots EXCEPT ![i] = slot] BY <1>1, <1>2, <1>3 DEF Written
<1>5. pc' \in {"resize", "count"} BY <1>1, <1>3
<1>6. Placed(slots, capacity, hash) /\ Contents(slots, capacity) = Expected
  BY DEF ContentsInv, GaveUp
<1>7. slots[i].key = NoKey
  <2>1. ASSUME slots[i].key # NoKey PROVE FALSE
    <3>1. i \in Occupied(slots, capacity) BY <1>3, <2>1 DEF Occupied
    <3>2. slots[i].key \in Stored BY <1>6, <3>1, FoundStored
    <3>3. slots[i].key = line BY <1>3, <2>1, <3>2 DEF PrefixFree, Stored
    <3> QED BY <3>2, <3>3 DEF Stored
  <2> QED BY <2>1
<1>8. /\ capacity \in Capacity /\ slots \in Table(capacity) /\ hash \in [Key -> Nat]
      /\ seen \in [Key -> Nat]
  BY DEF SearchInv, TypeInv
<1>9. slot \in Slot /\ slot.key = line BY <1>2, <1>3 DEF Slot
<1>10. \A j \in Index(capacity) : slots'[j] = IF j = i THEN slot ELSE slots[j]
  BY <1>3, <1>4, <1>8 DEF Table
<1>11. /\ Placed(slots', capacity, hash)
       /\ Contents(slots', capacity) = Contents(slots, capacity) \cup {slot}
  BY <1>3, <1>6, <1>7, <1>8, <1>9, <1>10, WriteKeepsPlaced
<1>12. Used(line) /\ seen[line] = 1 /\ pc \in AtALine /\ pc' \in AtALine
  BY <1>5 DEF ContentsInv, AtALine, GaveUp
<1>13. Expected' = Expected \cup {slot}
  BY <1>2, <1>3, <1>5, <1>8, <1>12, ExpectedKept
<1>14. Contents(slots, capacity)' = Expected' /\ Placed(slots, capacity, hash)'
  BY <1>6, <1>11, <1>13
<1>15. Used(line)' BY <1>12 DEF Used
<1> QED BY <1>5, <1>14, <1>15 DEF ContentsInv, GaveUp

\* The old slots have what the map had.
LEMMA ContentsResize ==
  ASSUME SearchInv, ContentsInv, Resize
  PROVE  ContentsInv'
<1> USE DEF Resize, iterator
<1>1. Placed(slots, capacity, hash) /\ Contents(slots, capacity) = Expected
  BY DEF ContentsInv, GaveUp
<1>2. /\ capacity \in Capacity /\ line \in Key /\ seen \in [Key -> Nat]
  BY DEF SearchInv, TypeInv, AtALine, GaveUp
<1>3. Distinct(slots, capacity) BY <1>1, PlacedDistinct
<1>4. capacity' \in Nat BY <1>2, NextCapacity DEF Capacity
<1>5. Occupied(slots', capacity') = {} BY <1>4, NewTableEmpty DEF NewSlots
<1>6. Placed(slots, capacity, hash)' /\ Contents(slots, capacity)' = {}
  BY <1>5 DEF Placed, Contents
<1>7. Contents(old, moved)' = {} BY DEF Contents, Occupied, Index
<1>8. Used(line) /\ pc \in AtALine /\ pc' \in AtALine BY DEF ContentsInv, AtALine, GaveUp
<1>9. Expected' = Expected BY <1>2, <1>8, ExpectedKept
<1>10. Used(line)' BY <1>8 DEF Used
<1>11. Distinct(old, oldCapacity)' /\ Contents(old, oldCapacity)' = Expected'
  BY <1>1, <1>3, <1>9
<1> QED BY <1>6, <1>7, <1>10, <1>11 DEF ContentsInv, GaveUp

\* The slots moved up to and with the next one.
LEMMA ContentsMoved ==
  ASSUME NEW m \in Nat, NEW table
  PROVE  Contents(table, m + 1) = IF table[m].key = NoKey THEN Contents(table, m)
                                  ELSE Contents(table, m) \cup {table[m]}
<1>1. Occupied(table, m + 1) = IF table[m].key = NoKey THEN Occupied(table, m)
                               ELSE Occupied(table, m) \cup {m}
  BY DEF Occupied, Index
<1> QED BY <1>1 DEF Contents

\* A slot is moved to where a search for its key ends; an empty slot changes
\* no key of the new table.
LEMMA ContentsRehash ==
  ASSUME PrefixFree, SearchInv, ContentsInv, Rehash
  PROVE  ContentsInv'
<1> USE DEF Rehash, iterator
<1>1. PICK i : i = OldSlotPlace OBVIOUS
<1>2. PICK slot : slot = old[moved] OBVIOUS
<1>3. /\ moved \in Index(oldCapacity) /\ slot \in Slot
      /\ i \in Index(capacity) /\ i # NoSlot
      /\ i = FindSlot(slots, capacity, slot.key, SlotHash(slot))
      /\ slots[i].key = NoKey \/ SameKey(slots[i].key, slot.key)
  BY <1>1, <1>2, RehashFinds DEF Get, OldSlotPlace
<1>4. slots' = [slots EXCEPT ![i] = slot] /\ pc' = "rehash" BY <1>1, <1>2, <1>3 DEF Written
<1>5. /\ Placed(slots, capacity, hash)
      /\ Distinct(old, oldCapacity)
      /\ Contents(old, oldCapacity) = Expected
      /\ Contents(slots, capacity) = Contents(old, moved)
      /\ Used(line)
  BY DEF ContentsInv, AtALine, GaveUp
<1>6. /\ capacity \in Capacity /\ slots \in Table(capacity) /\ hash \in [Key -> Nat]
      /\ seen \in [Key -> Nat] /\ line \in Key /\ moved \in Nat /\ oldCapacity \in Nat
      /\ slots' \in Table(capacity)
  <2>1. slots' \in Table(capacity)' BY SearchRehash DEF SearchInv, TypeInv
  <2> QED BY <2>1 DEF SearchInv, TypeInv, AtALine, GaveUp
<1>7. \A j \in Index(capacity) : slots'[j] = IF j = i THEN slot ELSE slots[j]
  BY <1>3, <1>4, <1>6 DEF Table
<1>8. slots[i].key = NoKey
  <2>1. ASSUME slots[i].key # NoKey PROVE FALSE
    <3>1. i \in Occupied(slots, capacity) BY <1>3, <2>1 DEF Occupied
    <3>2. slots[i] \in Contents(old, moved) BY <3>1, <1>5 DEF Contents
    <3>3. PICK j \in Occupied(old, moved) : slots[i] = old[j] BY <3>2 DEF Contents
    <3>4. SameKey(slots[i].key, slot.key) BY <1>3, <2>1
    <3>5. slots[i].key \in Key /\ slot.key \in Key
      BY <1>3, <1>6, <3>4 DEF Table, Slot, SameKey
    <3>6. slots[i].key = slot.key BY <3>4, <3>5 DEF PrefixFree
    <3>7. j \in Occupied(old, oldCapacity) /\ j # moved
      BY <1>3, <1>6, <3>3 DEF Occupied, Index
    <3>8. moved \in Occupied(old, oldCapacity)
      BY <1>2, <1>3, <3>5, HashMapAssumption DEF Occupied
    <3> QED BY <1>2, <1>5, <3>3, <3>6, <3>7, <3>8 DEF Distinct
  <2> QED BY <2>1
<1>9. Placed(slots, capacity, hash)' /\ Contents(slots, capacity)' = Contents(old, moved)'
  <2>1. CASE slot.key = NoKey
    <3>1. \A j \in Index(capacity) : slots'[j].key = slots[j].key BY <1>7, <1>8, <2>1
    <3>2. Occupied(slots', capacity) = Occupied(slots, capacity) /\ Placed(slots', capacity, hash)
      BY <1>5, <1>6, <3>1, PlacedSeesKeys
    <3>3. \A j \in Occupied(slots, capacity) : slots'[j] = slots[j]
      BY <1>7, <1>8 DEF Occupied
    <3>4. Contents(slots', capacity) = Contents(slots, capacity) BY <3>2, <3>3 DEF Contents
    <3>5. Contents(old, moved + 1) = Contents(old, moved) BY <1>2, <1>6, <2>1, ContentsMoved
    <3> QED BY <1>5, <3>2, <3>4, <3>5
  <2>2. CASE slot.key # NoKey
    <3>1. slot.key \in Key /\ SlotHash(slot) = hash[slot.key] BY <1>3, <2>2 DEF Slot, SlotHash
    <3>2. i = FindSlot(slots, capacity, slot.key, hash[slot.key]) BY <1>3, <3>1
    <3>3. slot \in Slot /\ i \in Index(capacity) BY <1>3
    <3>4. /\ Placed(slots', capacity, hash)
          /\ Contents(slots', capacity) = Contents(slots, capacity) \cup {slot}
      BY <1>5, <1>6, <1>7, <1>8, <3>1, <3>2, <3>3, WriteKeepsPlaced
    <3>5. Contents(old, moved + 1) = Contents(old, moved) \cup {slot}
      BY <1>2, <1>6, <2>2, ContentsMoved
    <3> QED BY <1>5, <3>4, <3>5
  <2> QED BY <2>1, <2>2
<1>10. pc \in AtALine /\ pc' \in AtALine BY <1>4 DEF AtALine
<1>11. Expected' = Expected BY <1>4, <1>5, <1>6, <1>10, ExpectedKept
<1>12. Used(line)' BY <1>5 DEF Used
<1>13. Distinct(old, oldCapacity)' /\ Contents(old, oldCapacity)' = Expected'
  BY <1>5, <1>11
<1> QED BY <1>4, <1>9, <1>12, <1>13 DEF ContentsInv, GaveUp

\* When all old slots have been moved the map has what it had before.
LEMMA ContentsEndResize ==
  ASSUME SearchInv, ContentsInv, EndResize
  PROVE  ContentsInv'
<1> USE DEF EndResize, map, iterator
<1>1. /\ Placed(slots, capacity, hash)
      /\ Contents(slots, capacity) = Expected
      /\ Used(line)
  BY DEF ContentsInv, AtALine, GaveUp
<1>2. line \in Key /\ seen \in [Key -> Nat] BY DEF SearchInv, TypeInv, AtALine, GaveUp
<1>3. pc \in AtALine /\ pc' \in AtALine BY DEF AtALine
<1>4. Expected' = Expected BY <1>1, <1>2, <1>3, ExpectedKept
<1>5. Placed(slots, capacity, hash)' /\ Contents(slots, capacity)' = Expected' BY <1>1, <1>4
<1>6. Used(line)' BY <1>1 DEF Used
<1> QED BY <1>5, <1>6 DEF ContentsInv, GaveUp

\* One more for the line, and nothing else changes.
LEMMA ContentsCount ==
  ASSUME SearchInv, ContentsInv, Count
  PROVE  ContentsInv'
<1>0. pc = "count" /\ UNCHANGED <<hash, capacity, seen>> BY DEF Count
<1>1. /\ Placed(slots, capacity, hash)
      /\ Contents(slots, capacity) = Expected
      /\ Used(line)
  BY <1>0 DEF ContentsInv, AtALine, GaveUp
<1>2. /\ capacity \in Capacity /\ slots \in Table(capacity) /\ hash \in [Key -> Nat]
      /\ seen \in [Key -> Nat] /\ line \in Key /\ TypeInv
  BY <1>0 DEF SearchInv, TypeInv, AtALine, GaveUp
<1>3. Stored = {k \in Key : Used(k)} /\ line \in Stored BY <1>0, <1>1, <1>2 DEF Stored
<1>4. Counts(line) = seen[line] - 1 /\ \A k \in Stored : k # line => Counts(k) = seen[k]
  BY <1>0 DEF Counts, AtALine
<1>5. PICK i : i = Get(line, hash[line]) OBVIOUS
<1>6. i \in Occupied(slots, capacity) /\ slots[i] = [key |-> line, count |-> seen[line] - 1]
  BY <1>1, <1>2, <1>3, <1>4, <1>5, StoredFound
<1>7. i \in Index(capacity) /\ i # NoSlot BY <1>2, <1>6 DEF Occupied, Index, NoSlot, Capacity
<1>8. slots' = [slots EXCEPT ![i].count = @ + 1] /\ pc' = "read" BY <1>5, <1>7 DEF Count
<1>9. slots'[i] = [key |-> line, count |-> seen[line]]
  <2>1. slots'[i] = [slots[i] EXCEPT !.count = @ + 1] BY <1>2, <1>7, <1>8 DEF Table
  <2> QED BY <2>1, <1>2, <1>6
<1>10. \A j \in Index(capacity) : j # i => slots'[j] = slots[j]
  BY <1>2, <1>7, <1>8 DEF Table
<1>11. slots' \in Table(capacity)
  <2>1. slots' \in Table(capacity)' BY SearchCount DEF SearchInv, TypeInv
  <2> QED BY <1>0, <2>1
<1>12. \A j \in Index(capacity) : slots'[j].key = slots[j].key BY <1>6, <1>9, <1>10
<1>13. Occupied(slots', capacity) = Occupied(slots, capacity) /\ Placed(slots', capacity, hash)
  BY <1>1, <1>2, <1>11, <1>12, PlacedSeesKeys
<1>14. Expected' = {[key |-> k, count |-> seen[k]] : k \in Stored}
  <2>1. \A k \in Key : Used(k)' <=> Used(k) BY <1>0 DEF Used
  <2>2. Stored' = Stored BY <1>3, <1>8, <2>1 DEF Stored
  <2>3. \A k \in Key : Counts(k)' = seen[k] BY <1>0, <1>8 DEF Counts, AtALine
  <2> QED BY <1>3, <2>2, <2>3 DEF Expected
<1>15. ASSUME NEW j \in Occupied(slots, capacity)
       PROVE  \E k \in Stored : slots'[j] = [key |-> k, count |-> seen[k]]
  <2>1. CASE j = i BY <2>1, <1>3, <1>9
  <2>2. CASE j # i
    <3>1. slots[j] \in Expected BY <1>1 DEF Contents
    <3>2. PICK k \in Stored : slots[j] = [key |-> k, count |-> Counts(k)]
      BY <3>1 DEF Expected
    <3>3. k # line
      <4>1. ASSUME k = line PROVE FALSE
        <5>1. slots[j].key = line BY <3>2, <4>1
        <5>2. Get(line, hash[line]) = j BY <1>1, <5>1 DEF Placed, Get
        <5> QED BY <5>2, <1>5, <2>2
      <4> QED BY <4>1
    <3>4. slots'[j] = slots[j] BY <1>10, <2>2 DEF Occupied
    <3> QED BY <1>4, <3>2, <3>3, <3>4
  <2> QED BY <2>1, <2>2
<1>16. ASSUME NEW k \in Stored
       PROVE  \E j \in Occupied(slots, capacity) : slots'[j] = [key |-> k, count |-> seen[k]]
  <2>1. CASE k = line BY <2>1, <1>6, <1>9
  <2>2. CASE k # line
    <3>1. PICK j \in Occupied(slots, capacity) : slots[j] = [key |-> k, count |-> Counts(k)]
      BY <1>1, <1>2, StoredFound
    <3>2. j # i BY <3>1, <1>6, <2>2
    <3>3. slots'[j] = slots[j] BY <1>10, <3>2 DEF Occupied
    <3> QED BY <1>4, <2>2, <3>1, <3>3
  <2> QED BY <2>1, <2>2
<1>17. Contents(slots', capacity) = Expected'
  <2>1. Contents(slots', capacity) = {slots'[j] : j \in Occupied(slots, capacity)}
    BY <1>13 DEF Contents
  <2>2. \A j \in Occupied(slots, capacity) : slots'[j] \in Expected' BY <1>14, <1>15
  <2>3. \A k \in Stored : [key |-> k, count |-> seen[k]] \in Contents(slots', capacity)
    BY <1>16, <2>1
  <2> QED BY <1>14, <2>1, <2>2, <2>3
<1>18. Placed(slots, capacity, hash)' /\ Contents(slots, capacity)' = Expected'
  BY <1>0, <1>13, <1>17
<1> QED BY <1>8, <1>18 DEF ContentsInv, AtALine, GaveUp

\* The rest leaves the map and the counts alone.
LEMMA ContentsOther ==
  ASSUME ContentsInv,
         \/ OutOfMemory \/ NoTable \/ NoText
         \/ EndOfText \/ PrintSlot \/ PrintFails \/ EndOfPrint \/ UNCHANGED vars
  PROVE  ContentsInv'
<1>1. CASE OutOfMemory \/ NoTable \/ NoText \/ PrintFails
  <2>1. pc' \in GaveUp BY <1>1 DEF OutOfMemory, NoTable, NoText, PrintFails, GaveUp
  <2> QED BY <2>1 DEF ContentsInv, AtALine, GaveUp
<1>2. CASE EndOfText \/ PrintSlot \/ EndOfPrint
  <2>1. pc \in {"read"} \cup Printing /\ pc' \in Printing
    BY <1>2 DEF EndOfText, PrintSlot, EndOfPrint, Printing
  <2>2. UNCHANGED <<line, hash, map, resize, seen>>
    BY <1>2 DEF EndOfText, PrintSlot, EndOfPrint, iterator
  <2>3. \A k \in Key : Used(k)' <=> Used(k) BY <2>2 DEF Used
  <2>4. Stored' = Stored BY <2>1, <2>3 DEF Stored, Printing
  <2>5. \A k \in Key : Counts(k)' = Counts(k) BY <2>1, <2>2 DEF Counts, AtALine, Printing
  <2>6. Expected' = Expected BY <2>4, <2>5 DEF Expected, Stored
  <2>7. Placed(slots, capacity, hash) /\ Contents(slots, capacity) = Expected
    BY <2>1 DEF ContentsInv, Printing, GaveUp
  <2>8. Placed(slots, capacity, hash)' /\ Contents(slots, capacity)' = Expected'
    BY <2>2, <2>6, <2>7 DEF map
  <2> QED BY <2>1, <2>8 DEF ContentsInv, AtALine, Printing, GaveUp
<1>3. CASE UNCHANGED vars
  <2>1. UNCHANGED <<pc, line, hash, slots, capacity, old, oldCapacity, moved, seen>>
    BY <1>3 DEF vars, map, resize
  <2>2. (Used(line)' <=> Used(line)) /\ (\A k \in Key : Used(k)' <=> Used(k)) BY <2>1 DEF Used
  <2>3. Stored' = Stored BY <2>1, <2>2 DEF Stored
  <2>4. \A k \in Key : Counts(k)' = Counts(k) BY <2>1 DEF Counts
  <2>5. Expected' = Expected BY <2>3, <2>4 DEF Expected, Stored
  <2> QED BY <2>1, <2>2, <2>5 DEF ContentsInv, GaveUp
<1> QED BY <1>1, <1>2, <1>3

-----------------------------------------------------------------------------
(* The output *)

\* sl_hashmap_iter_advance goes to the next slot that holds a key.
LEMMA FindNextIs ==
  ASSUME TypeInv, NEW i \in 0 .. capacity
  PROVE  /\ FindNext(i) \in i .. capacity
         /\ \A n \in i .. FindNext(i) - 1 : slots[n].key = NoKey
         /\ FindNext(i) < capacity => slots[FindNext(i)].key # NoKey
<1>1. capacity \in Nat BY DEF TypeInv, Capacity
<1> DEFINE S == {j \in i .. capacity : j < capacity => slots[j].key # NoKey}
<1>2. S \in SUBSET Nat /\ capacity \in S BY <1>1
<1>3. PICK j \in S : \A n \in S : j <= n
  <2> HIDE DEF S
  <2> QED BY <1>2, LeastNumber
<1>4. \A n \in i .. j - 1 : slots[n].key = NoKey
  <2> TAKE n \in i .. j - 1
  <2>1. n \in i .. capacity /\ n < j /\ n < capacity BY <1>1, <1>3
  <2>2. n \notin S BY <1>3, <2>1
  <2> QED BY <2>1, <2>2
<1>5. \E m \in i .. capacity :
        /\ \A n \in i .. m - 1 : slots[n].key = NoKey
        /\ m < capacity => slots[m].key # NoKey
  BY <1>3, <1>4
<1> QED BY <1>5 DEF FindNext

\* The slots before the next one that holds a key, and those before that.
LEMMA ContentsBefore ==
  ASSUME NEW i \in Nat, NEW j \in Nat, i <= j, NEW table,
         \A n \in i .. j - 1 : table[n].key = NoKey
  PROVE  Contents(table, j) = Contents(table, i)
<1>1. Occupied(table, j) = Occupied(table, i) BY DEF Occupied, Index
<1> QED BY <1>1 DEF Contents

\* The output has the slots before the iterator.
LEMMA PrintStep ==
  ASSUME SearchInv, ContentsInv, PrintInv, [Next]_vars
  PROVE  PrintInv'
<1>1. CASE \/ \E k \in Key : ReadLine(k)
           \/ Insert \/ Resize \/ Rehash \/ EndResize \/ Count
           \/ OutOfMemory \/ NoTable \/ NoText
  <2>1. pc \notin Printing /\ pc' \notin Printing /\ printed' = printed
    BY <1>1 DEF ReadLine, Insert, Resize, Rehash, EndResize, Count, OutOfMemory, NoTable, NoText,
                Printing, iterator, resize
  <2>2. pc \notin GaveUp
    BY <1>1 DEF ReadLine, Insert, Resize, Rehash, EndResize, Count, OutOfMemory, NoTable, NoText,
                GaveUp
  <2> QED BY <2>1, <2>2 DEF PrintInv, Printing
<1>2. CASE EndOfText
  <2>1. pc \notin Printing /\ pc' = "print" BY <1>2 DEF EndOfText, Printing
  <2>2. printed' = printed /\ slots' = slots /\ capacity' = capacity /\ index' = FindNext(0)
    BY <1>2 DEF EndOfText, map
  <2>3. TypeInv /\ capacity \in Nat BY DEF SearchInv, TypeInv, Capacity
  <2>4. /\ index' \in 0 .. capacity
        /\ \A n \in 0 .. index' - 1 : slots[n].key = NoKey
        /\ index' < capacity => slots[index'].key # NoKey
    BY <2>2, <2>3, FindNextIs
  <2>5. Contents(slots, index') = Contents(slots, 0)
    <3>1. index' \in Nat /\ 0 <= index' BY <2>3, <2>4
    <3>2. 0 \in Nat OBVIOUS
    <3> QED BY <2>4, <3>1, <3>2, ContentsBefore
  <2>6. Contents(slots, 0) = {} BY DEF Contents, Occupied, Index
  <2>7. printed' = <<>>
    <3>1. pc \notin GaveUp BY <1>2 DEF EndOfText, GaveUp
    <3> QED BY <2>1, <2>2, <3>1 DEF PrintInv
  <2>8. printed' \in Seq(Slot) /\ {printed'[i] : i \in 1 .. Len(printed')} = {}
    BY <2>7
  <2>9. \A i, j \in 1 .. Len(printed') : i # j => printed'[i].key # printed'[j].key BY <2>7
  <2> QED BY <2>1, <2>2, <2>4, <2>5, <2>6, <2>8, <2>9 DEF PrintInv, Printing, GaveUp
<1>3. CASE PrintSlot
  <2>1. pc \in Printing /\ pc' = "print" BY <1>3 DEF PrintSlot, Printing
  <2>2. /\ slots' = slots /\ capacity' = capacity /\ index < capacity
        /\ index' = FindNext(index + 1)
    BY <1>3 DEF PrintSlot, Advance, map
  <2>3. PICK slot : slot = slots[index] OBVIOUS
  <2>4. printed' = Append(printed, slot) BY <1>3, <2>3 DEF PrintSlot
  <2>5. /\ index \in 0 .. capacity /\ slots[index].key # NoKey
        /\ printed \in Seq(Slot)
        /\ {printed[i] : i \in 1 .. Len(printed)} = Contents(slots, index)
        /\ \A i, j \in 1 .. Len(printed) : i # j => printed[i].key # printed[j].key
    BY <2>1, <2>2 DEF PrintInv, GaveUp
  <2>6. TypeInv /\ capacity \in Nat /\ slots \in Table(capacity)
    BY DEF SearchInv, TypeInv, Capacity
  <2>7. index \in Nat /\ index + 1 \in 0 .. capacity /\ index \in Index(capacity)
    BY <2>2, <2>5, <2>6 DEF Index
  <2>8. slot \in Slot BY <2>3, <2>6, <2>7 DEF Table
  <2>9. /\ index' \in index + 1 .. capacity
        /\ \A n \in index + 1 .. index' - 1 : slots[n].key = NoKey
        /\ index' < capacity => slots[index'].key # NoKey
    BY <2>2, <2>6, <2>7, FindNextIs
  <2>10. Contents(slots, index') = Contents(slots, index) \cup {slot}
    <3>1. Contents(slots, index') = Contents(slots, index + 1)
      <4>1. index' \in Nat /\ index + 1 \in Nat /\ index + 1 <= index'
        BY <2>6, <2>7, <2>9
      <4> QED BY <2>9, <4>1, ContentsBefore
    <3>2. Contents(slots, index + 1) = Contents(slots, index) \cup {slot}
      BY <2>3, <2>5, <2>7, ContentsMoved
    <3> QED BY <3>1, <3>2
  <2>11. /\ printed' \in Seq(Slot)
         /\ Len(printed') = Len(printed) + 1
         /\ \A i \in 1 .. Len(printed) : printed'[i] = printed[i]
         /\ printed'[Len(printed) + 1] = slot
    BY <2>4, <2>5, <2>8
  <2>12. Len(printed) \in Nat BY <2>5
  <2>13. {printed'[i] : i \in 1 .. Len(printed')} = Contents(slots, index) \cup {slot}
    <3>1. 1 .. Len(printed') = 1 .. Len(printed) \cup {Len(printed) + 1} BY <2>11, <2>12
    <3>2. {printed'[i] : i \in 1 .. Len(printed')} =
            {printed[i] : i \in 1 .. Len(printed)} \cup {slot}
      BY <2>11, <3>1
    <3> QED BY <2>5, <3>2
  <2>14. ASSUME NEW i \in 1 .. Len(printed) PROVE printed[i].key # slot.key
    <3>1. printed[i] \in Contents(slots, index) BY <2>5
    <3>2. PICK j \in Occupied(slots, index) : printed[i] = slots[j] BY <3>1 DEF Contents
    <3>3. j # index /\ j \in Occupied(slots, capacity)
      BY <3>2, <2>6, <2>7 DEF Occupied, Index
    <3>4. index \in Occupied(slots, capacity) BY <2>5, <2>7 DEF Occupied
    <3>5. Placed(slots, capacity, hash) BY <2>1 DEF ContentsInv, Printing, GaveUp
    <3>6. Distinct(slots, capacity) BY <3>5, PlacedDistinct
    <3> QED BY <2>3, <3>2, <3>3, <3>4, <3>6 DEF Distinct
  <2>15. \A i, j \in 1 .. Len(printed') : i # j => printed'[i].key # printed'[j].key
    <3> TAKE i, j \in 1 .. Len(printed')
    <3> HAVE i # j
    <3>1. i \in 1 .. Len(printed) \/ i = Len(printed) + 1 BY <2>11, <2>12
    <3>2. j \in 1 .. Len(printed) \/ j = Len(printed) + 1 BY <2>11, <2>12
    <3> QED BY <2>5, <2>11, <2>14, <3>1, <3>2
  <2>16. index' \in 0 .. capacity BY <2>7, <2>9
  <2> QED
    BY <2>1, <2>2, <2>9, <2>10, <2>11, <2>13, <2>15, <2>16 DEF PrintInv, Printing, GaveUp
<1>4. CASE EndOfPrint
  <2>1. pc \in Printing /\ pc' = "done" /\ index' = capacity'
    BY <1>4 DEF EndOfPrint, Printing, map, iterator
  <2>2. UNCHANGED <<slots, capacity, index, printed>> BY <1>4 DEF EndOfPrint, map, iterator
  <2> QED BY <2>1, <2>2 DEF PrintInv, Printing, GaveUp
<1>5. CASE PrintFails
  <2>1. pc' \in GaveUp BY <1>5 DEF PrintFails, GaveUp
  <2> QED BY <2>1 DEF PrintInv, Printing, GaveUp
<1>6. CASE UNCHANGED vars BY <1>6 DEF vars, map, iterator, PrintInv
<1> QED BY <1>1, <1>2, <1>3, <1>4, <1>5, <1>6 DEF Next

-----------------------------------------------------------------------------
(* The lines are counted *)

\* Every step keeps the invariant when no key is a prefix of another.
LEMMA InvStep ==
  ASSUME PrefixFree
  PROVE  IInv /\ [Next]_vars => IInv'
<1> SUFFICES ASSUME IInv, [Next]_vars PROVE IInv' OBVIOUS
<1>1. SearchInv /\ ContentsInv /\ PrintInv BY DEF IInv
<1>2. SearchInv' BY <1>1, SearchStep
<1>3. PrintInv' BY <1>1, PrintStep
<1>4. ContentsInv'
  BY <1>1, ContentsReadLine, ContentsInsert, ContentsResize, ContentsRehash,
     ContentsEndResize, ContentsCount, ContentsOther DEF Next
<1> QED BY <1>2, <1>3, <1>4 DEF IInv

\* The map between two lines has what has been read, where it is looked for.
LEMMA InvCounted ==
  ASSUME PrefixFree
  PROVE  IInv => Counted
<1> SUFFICES ASSUME IInv, pc = "read", NEW k \in Key
             PROVE  /\ Contains(k, hash[k]) <=> seen[k] > 0
                    /\ seen[k] > 0 => slots[Get(k, hash[k])] = [key |-> k, count |-> seen[k]]
  BY DEF Counted
<1>1. SearchInv /\ ContentsInv /\ TypeInv BY DEF IInv, SearchInv
<1>2. hash[k] \in Nat BY <1>1 DEF TypeInv
<1>3. Contains(k, hash[k]) <=> Used(k) BY <1>1, <1>2, ContainsUsed
<1>4. ASSUME seen[k] > 0
      PROVE  slots[Get(k, hash[k])] = [key |-> k, count |-> seen[k]]
  <2>1. k \in Stored /\ Counts(k) = seen[k] BY <1>4 DEF Stored, Used, Counts, AtALine
  <2>2. Placed(slots, capacity, hash) /\ Contents(slots, capacity) = Expected
    BY <1>1 DEF ContentsInv, GaveUp
  <2> QED BY <1>1, <2>1, <2>2, StoredFound
<1> QED BY <1>3, <1>4 DEF Used

\* The iterator has then been at all slots.
LEMMA InvPrintsEach == IInv => PrintsEach
<1> SUFFICES ASSUME IInv, pc = "done"
             PROVE  /\ {printed[i] : i \in 1 .. Len(printed)}
                         = {[key |-> k, count |-> seen[k]] : k \in {l \in Key : seen[l] > 0}}
                    /\ \A i, j \in 1 .. Len(printed) : i # j => printed[i].key # printed[j].key
  BY DEF PrintsEach
<1>1. /\ index = capacity
      /\ {printed[i] : i \in 1 .. Len(printed)} = Contents(slots, index)
      /\ \A i, j \in 1 .. Len(printed) : i # j => printed[i].key # printed[j].key
  BY DEF IInv, PrintInv, Printing, GaveUp
<1>2. Contents(slots, capacity) = Expected BY DEF IInv, ContentsInv, GaveUp
<1>3. Stored = {l \in Key : seen[l] > 0} BY DEF Stored, Used
<1>4. \A k \in Key : Counts(k) = seen[k] BY DEF Counts, AtALine
<1>5. Expected = {[key |-> k, count |-> seen[k]] : k \in {l \in Key : seen[l] > 0}}
  BY <1>3, <1>4 DEF Expected
<1> QED BY <1>1, <1>2, <1>5

\* When no line begins with another, the map between two lines has every line
\* read so far with its count, and contains tells whether a line was read.
THEOREM HashMapCounted ==
  ASSUME PrefixFree
  PROVE  Spec => []Counted
<1>1. Init => IInv BY SearchAtFirst, ContentsAtFirst DEF IInv
<1>2. IInv /\ [Next]_vars => IInv' BY InvStep
<1>3. IInv => Counted BY InvCounted
<1> QED BY <1>1, <1>2, <1>3, PTL DEF Spec

\* The output of linefreq then has each line once, with its count.
THEOREM HashMapPrintsEach ==
  ASSUME PrefixFree
  PROVE  Spec => []PrintsEach
<1>1. Init => IInv BY SearchAtFirst, ContentsAtFirst DEF IInv
<1>2. IInv /\ [Next]_vars => IInv' BY InvStep
<1>3. IInv => PrintsEach BY InvPrintsEach
<1> QED BY <1>1, <1>2, <1>3, PTL DEF Spec
=============================================================================
