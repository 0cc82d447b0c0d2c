-------------------------- MODULE SparseRecordProofs --------------------------
(***************************************************************************)
(* Proofs about SparseRecord, for every array, every length of the write   *)
(* buffers and every length of the read buffer: type correctness, that the *)
(* reader returns what was written, that stopping on is_done loses         *)
(* nothing, and that writer and reader implement RecordStream.             *)
(*                                                                         *)
(* The argument names the places of the nonzero items: a strictly          *)
(* increasing function w takes the number of a pair in the file to the     *)
(* index of its item.  WriterInv says that the file is the encoding of the *)
(* items passed, ReaderInv says where in that file the reader stands.      *)
(***************************************************************************)
EXTENDS SparseRecord, TLAPS

Pairs == 1 .. Len(offsets)

\* The index of the item of the last pair, 0 when there is none: where the
\* writer's pending offset counts from.
LastPlace(w) == IF Len(offsets) = 0 THEN 0 ELSE w[Len(offsets)]

\* The same for the last pair read.
ReadPlace(w) == IF nRead = 0 THEN 0 ELSE w[nRead]

Encodes(w) ==
  /\ \A j, k \in Pairs : j < k => w[j] < w[k]
  /\ \A k \in Pairs : offsets[k] = IF k = 1 THEN w[1] ELSE w[k] - w[k - 1]
  /\ \A k \in Pairs : data[w[k]] # Zero
  /\ \A k \in 1 .. Len(values) : values[k] = data[w[k]] /\ w[k] < wIndex
  /\ \A i \in 0 .. wIndex - 1 :
       data[i] # Zero => \E k \in 1 .. Len(values) : w[k] = i

WriterInv(w) ==
  /\ Encodes(w)
  /\ nWritten = Len(values)
  /\ Len(values) <= Len(offsets)
  /\ wPc \in {"idle", "offset", "closed"} => Len(offsets) = Len(values)
  /\ wPc = "idle" => LastPlace(w) + wSparse = wIndex
  /\ wPc = "offset" => LastPlace(w) + wLocal = wIndex /\ wIndex <= wEnd
  /\ wPc = "value" =>
       /\ wIndex < wEnd
       /\ Len(offsets) = Len(values) + 1
       /\ w[Len(offsets)] = wIndex
  /\ wPc = "closed" => wIndex = Length /\ size = Len(values)
  /\ wPc # "closed" =>
       /\ size = 0 /\ nRead = 0 /\ base = 0 /\ rIndex = 0
       /\ rPc = "idle" /\ hasSparse = FALSE

ReaderInv(w) ==
  /\ nRead <= size
  /\ base % ReadLen = 0
  /\ RoundTrip
  /\ hasSparse => nRead < size /\ rIndex + rSparse = w[nRead + 1]
  /\ ~hasSparse => rSparse = 0 /\ rIndex = ReadPlace(w)
  /\ rPc = "idle" =>
       /\ \A k \in 1 .. nRead : w[k] < base
       /\ nRead < size => rIndex = base
  /\ rPc = "loop" =>
       /\ \A k \in 1 .. nRead : w[k] < base + ReadLen
       /\ base < Length
       /\ nRead < size => base <= rIndex /\ rIndex < base + ReadLen
       /\ \A s \in Slot :
            buffer[s] = IF \E k \in 1 .. nRead : w[k] = base + s
                          THEN data[base + s] ELSE Zero

IInv ==
  /\ TypeOK
  /\ \E w \in [Pairs -> 0 .. Length - 1] : WriterInv(w) /\ ReaderInv(w)

-----------------------------------------------------------------------------
(* Buffers and slots *)

\* Division with remainder.
LEMMA Division ==
  ASSUME NEW a \in Nat, NEW L \in Nat \ {0}
  PROVE  a = L * (a \div L) + (a % L) /\ a % L \in 0 .. L - 1 /\ a \div L \in Nat
  OBVIOUS

\* ... determines quotient and remainder.
LEMMA DivisionUnique ==
  ASSUME NEW L \in Nat \ {0}, NEW q \in Nat, NEW p \in Nat,
         NEW r \in 0 .. L - 1, NEW s \in 0 .. L - 1, L * q + r = L * p + s
  PROVE  q = p /\ r = s
<1>1. CASE q < p
  <2>1. L * q + L <= L * p BY <1>1
  <2> QED BY <2>1
<1>2. CASE p < q
  <2>1. L * p + L <= L * q BY <1>2
  <2> QED BY <2>1
<1> QED BY <1>1, <1>2

\* An index inside the buffer that starts at b has b's batch number, and its
\* slot is its distance from b.
LEMMA InBatch ==
  ASSUME NEW b \in Nat, b % ReadLen = 0, NEW a \in Nat, b <= a, a < b + ReadLen
  PROVE  BatchOf(a) = BatchOf(b) /\ SlotOf(a) = a - b
<1>1. ReadLen \in Nat \ {0} BY RecordAssumption
<1>2. b = ReadLen * (b \div ReadLen) /\ b \div ReadLen \in Nat BY <1>1, Division
<1>3. a = ReadLen * (b \div ReadLen) + (a - b) BY <1>2
<1>4. /\ a = ReadLen * (a \div ReadLen) + (a % ReadLen)
      /\ a % ReadLen \in 0 .. ReadLen - 1 /\ a \div ReadLen \in Nat
  BY <1>1, Division
<1>5. a - b \in 0 .. ReadLen - 1 BY <1>1
<1> DEFINE q == a \div ReadLen
           p == b \div ReadLen
           r == a % ReadLen
<1>6. q \in Nat /\ p \in Nat /\ r \in 0 .. ReadLen - 1 BY <1>2, <1>4
<1>7. ReadLen * q + r = ReadLen * p + (a - b) BY <1>3, <1>4
<1> HIDE DEF q, p, r
<1>8. q = p /\ r = a - b BY <1>1, <1>5, <1>6, <1>7, DivisionUnique
<1> QED BY <1>8 DEF BatchOf, SlotOf, q, p, r

\* An index at or past the next buffer has a larger batch number.
LEMMA PastBatch ==
  ASSUME NEW b \in Nat, b % ReadLen = 0, NEW a \in Nat, b + ReadLen <= a
  PROVE  BatchOf(a) > BatchOf(b)
<1>1. ReadLen \in Nat \ {0} BY RecordAssumption
<1>2. b = ReadLen * (b \div ReadLen) /\ b \div ReadLen \in Nat BY <1>1, Division
<1>3. /\ a = ReadLen * (a \div ReadLen) + (a % ReadLen)
      /\ a % ReadLen \in 0 .. ReadLen - 1 /\ a \div ReadLen \in Nat
  BY <1>1, Division
<1> DEFINE q == a \div ReadLen
           p == b \div ReadLen
           r == a % ReadLen
<1>4. q \in Nat /\ p \in Nat /\ r \in 0 .. ReadLen - 1 BY <1>2, <1>3
<1>5. ReadLen * p + ReadLen <= ReadLen * q + r BY <1>2, <1>3
<1> HIDE DEF q, p, r
<1>6. ASSUME q <= p PROVE FALSE
  <2>1. ReadLen * q <= ReadLen * p BY <1>1, <1>4, <1>6
  <2> QED BY <1>1, <1>4, <1>5, <2>1
<1> QED BY <1>4, <1>6 DEF BatchOf, q, p

\* The start of the next buffer is a multiple of the buffer length again.
LEMMA NextBatch ==
  ASSUME NEW b \in Nat, b % ReadLen = 0
  PROVE  (b + ReadLen) % ReadLen = 0
<1>1. ReadLen \in Nat \ {0} BY RecordAssumption
<1>2. b = ReadLen * (b \div ReadLen) /\ b \div ReadLen \in Nat BY <1>1, Division
<1> DEFINE c == b + ReadLen
           q == c \div ReadLen
           p == (b \div ReadLen) + 1
           r == c % ReadLen
<1>3. c \in Nat /\ p \in Nat /\ 0 \in 0 .. ReadLen - 1 BY <1>1, <1>2
<1>4. c = ReadLen * p + 0 BY <1>1, <1>2
<1> HIDE DEF c, p
<1>5. c = ReadLen * q + r /\ r \in 0 .. ReadLen - 1 /\ q \in Nat
  BY <1>1, <1>3, Division
<1> HIDE DEF q, r
<1>6. ReadLen * q + r = ReadLen * p + 0 BY <1>4, <1>5
<1>7. r = 0 BY <1>1, <1>3, <1>5, <1>6, DivisionUnique
<1> QED BY <1>7 DEF r, c

-----------------------------------------------------------------------------
(* The inductive invariant *)

\* An empty file, not yet read.
LEMMA InitIInv == Init => IInv
<1> SUFFICES ASSUME Init PROVE IInv OBVIOUS
<1> DEFINE w == [k \in {} |-> 0]
<1>1. TypeOK
  <2>1. buffer \in [Slot -> Item] /\ out \in [0 .. base - 1 -> Item]
    BY DEF Init, Item, Cleared
  <2>2. offsets \in Seq(Nat) /\ values \in Seq(Value) BY DEF Init
  <2>3. wIndex \in 0 .. Length /\ wEnd \in 0 .. Length /\ wLocal \in Nat
        /\ wSparse \in Nat /\ nWritten \in Nat /\ size \in Nat /\ rIndex \in Nat
        /\ rSparse \in Nat /\ nRead \in Nat /\ base \in Nat
    BY RecordAssumption DEF Init
  <2> QED BY <2>1, <2>2, <2>3 DEF Init, TypeOK
<1>2. Pairs = {} /\ w \in [Pairs -> 0 .. Length - 1] BY DEF Init, Pairs
<1>3. WriterInv(w)
  BY <1>2, RecordAssumption DEF Init, WriterInv, Encodes, Pairs, LastPlace
<1>4. 0 % ReadLen = 0 BY RecordAssumption
<1>5. ReaderInv(w) BY <1>4 DEF Init, ReaderInv, RoundTrip, ReadPlace
<1> QED BY <1>1, <1>2, <1>3, <1>5 DEF IInv

\* Until the record is closed no reader has started: a writer step keeps what
\* is known of the reader, whatever the new places of the pairs are.
LEMMA WriterKeepsReaderInv ==
  ASSUME TypeOK, NEW w, WriterInv(w), ReaderInv(w), wPc # "closed",
         UNCHANGED <<data, rVars, client>>, size' \in Nat, NEW v
  PROVE  ReaderInv(v)'
<1>1. /\ nRead = 0 /\ base = 0 /\ rIndex = 0 /\ rPc = "idle" /\ hasSparse = FALSE
      /\ rSparse = 0 /\ base % ReadLen = 0
  BY DEF WriterInv, ReaderInv
<1>2. /\ nRead' = 0 /\ base' = 0 /\ rIndex' = 0 /\ rPc' = "idle" /\ hasSparse' = FALSE
      /\ rSparse' = 0 /\ base' % ReadLen = 0
  BY <1>1 DEF rVars, client
<1>3. RoundTrip' BY <1>2 DEF RoundTrip
<1> QED BY <1>2, <1>3 DEF ReaderInv, ReadPlace

\* A reader step does not touch what is known of the writer and of the file.
LEMMA ReaderKeepsWriterInv ==
  ASSUME NEW w, WriterInv(w), wPc = "closed", UNCHANGED <<data, wVars, fileVars>>
  PROVE  WriterInv(w)'
  BY DEF WriterInv, Encodes, Pairs, LastPlace, wVars, fileVars

\* The place the pending offset counts from is an index.
LEMMA LastPlaceNat ==
  ASSUME TypeOK, NEW w \in [Pairs -> 0 .. Length - 1]
  PROVE  LastPlace(w) \in Nat
<1>1. Len(offsets) \in Nat BY DEF TypeOK
<1>2. CASE Len(offsets) = 0 BY <1>2 DEF LastPlace
<1>3. CASE Len(offsets) # 0
  <2>1. Len(offsets) \in Pairs BY <1>1, <1>3 DEF Pairs
  <2> QED BY <1>3, <2>1, RecordAssumption DEF LastPlace
<1> QED BY <1>2, <1>3

\* The writer takes a new batch.
LEMMA BeginWriteIInv ==
  ASSUME TypeOK, NEW w \in [Pairs -> 0 .. Length - 1], WriterInv(w), ReaderInv(w),
         NEW n \in WriteLens, BeginWrite(n)
  PROVE  IInv'
<1> USE DEF BeginWrite
<1>1. n \in Nat BY RecordAssumption
<1>2. TypeOK'
  BY <1>1 DEF TypeOK, fileVars, rVars, client, InitialOffset
<1>3. WriterInv(w)'
  BY <1>1 DEF TypeOK, WriterInv, Encodes, Pairs, LastPlace, fileVars, rVars, client,
              InitialOffset
<1>4. ReaderInv(w)' BY WriterKeepsReaderInv DEF TypeOK, fileVars
<1>5. Pairs' = Pairs BY DEF Pairs, fileVars
<1> QED BY <1>2, <1>3, <1>4, <1>5 DEF IInv

\* A zero is not written, only counted.
LEMMA WriteZeroIInv ==
  ASSUME TypeOK, NEW w \in [Pairs -> 0 .. Length - 1], WriterInv(w), ReaderInv(w),
         WriteZero
  PROVE  IInv'
<1> USE DEF WriteZero
<1>1. wLocal' = wLocal + 1
  <2>1. OffsetAfter(wLocal, Zero) = wLocal + 1 BY DEF OffsetAfter
  <2> QED BY <2>1
<1>2. TypeOK' BY <1>1, RecordAssumption DEF TypeOK, fileVars, rVars, client
<1>3. Encodes(w)'
  <2>1. \A i \in 0 .. wIndex' - 1 :
          data'[i] # Zero => \E k \in 1 .. Len(values') : w[k] = i
    <3> SUFFICES ASSUME NEW i \in 0 .. wIndex' - 1, data'[i] # Zero
                 PROVE  \E k \in 1 .. Len(values') : w[k] = i
      OBVIOUS
    <3>1. i # wIndex OBVIOUS
    <3>2. i \in 0 .. wIndex - 1 BY <3>1 DEF TypeOK
    <3> QED BY <3>2 DEF WriterInv, Encodes, fileVars
  <2>2. \A k \in 1 .. Len(values') : values'[k] = data'[w[k]] /\ w[k] < wIndex'
    <3> SUFFICES ASSUME NEW k \in 1 .. Len(values)
                 PROVE  values[k] = data[w[k]] /\ w[k] < wIndex + 1
      BY DEF fileVars
    <3>1. k \in Pairs BY DEF WriterInv, Pairs, TypeOK
    <3>2. w[k] \in Nat BY <3>1, RecordAssumption
    <3> QED BY <3>2 DEF WriterInv, Encodes, TypeOK
  <2> QED BY <2>1, <2>2 DEF WriterInv, Encodes, Pairs, fileVars
<1>4. LastPlace(w) \in Nat BY LastPlaceNat
<1>5. WriterInv(w)'
  <2>1. LastPlace(w)' = LastPlace(w) BY DEF LastPlace, fileVars
  <2>2. LastPlace(w) + wLocal = wIndex /\ wIndex < wEnd BY DEF WriterInv
  <2>3. LastPlace(w)' + wLocal' = wIndex' /\ wIndex' <= wEnd'
    BY <1>1, <1>4, <2>1, <2>2, RecordAssumption DEF TypeOK
  <2> QED
    BY <1>3, <2>3 DEF WriterInv, fileVars, rVars, client
<1>6. ReaderInv(w)' BY WriterKeepsReaderInv DEF TypeOK, fileVars
<1>7. Pairs' = Pairs BY DEF Pairs, fileVars
<1> QED BY <1>2, <1>5, <1>6, <1>7 DEF IInv

\* The writer has come to the end of its batch.
LEMMA EndWriteIInv ==
  ASSUME TypeOK, NEW w \in [Pairs -> 0 .. Length - 1], WriterInv(w), ReaderInv(w),
         EndWrite
  PROVE  IInv'
<1> USE DEF EndWrite
<1>1. TypeOK' BY DEF TypeOK, fileVars, rVars, client
<1>2. WriterInv(w)'
  BY DEF WriterInv, Encodes, Pairs, LastPlace, fileVars, rVars, client
<1>3. ReaderInv(w)' BY WriterKeepsReaderInv DEF TypeOK, fileVars
<1>4. Pairs' = Pairs BY DEF Pairs, fileVars
<1> QED BY <1>1, <1>2, <1>3, <1>4 DEF IInv

\* The write of a pair fails.
LEMMA WriteErrorIInv ==
  ASSUME TypeOK, NEW w \in [Pairs -> 0 .. Length - 1], WriterInv(w), ReaderInv(w),
         WriteError
  PROVE  IInv'
<1> USE DEF WriteError
<1>1. TypeOK' BY DEF TypeOK, fileVars, rVars, client
<1>2. WriterInv(w)'
  BY DEF WriterInv, Encodes, Pairs, LastPlace, fileVars, rVars, client
<1>3. ReaderInv(w)' BY WriterKeepsReaderInv DEF TypeOK, fileVars
<1>4. Pairs' = Pairs BY DEF Pairs, fileVars
<1> QED BY <1>1, <1>2, <1>3, <1>4 DEF IInv

\* The writer is done, and the file is read from its start.
LEMMA FinishIInv ==
  ASSUME TypeOK, NEW w \in [Pairs -> 0 .. Length - 1], WriterInv(w), ReaderInv(w),
         Finish
  PROVE  IInv'
<1> USE DEF Finish
<1>1. TypeOK' BY DEF TypeOK, rVars, client
<1>2. WriterInv(w)'
  BY DEF WriterInv, Encodes, Pairs, LastPlace, rVars, client
<1>3. ReaderInv(w)' BY WriterKeepsReaderInv DEF TypeOK
<1>4. Pairs' = Pairs BY DEF Pairs
<1> QED BY <1>1, <1>2, <1>3, <1>4 DEF IInv

\* The new pair's place is the index of the item.
LEMMA WriteOffsetIInv ==
  ASSUME TypeOK, NEW w \in [Pairs -> 0 .. Length - 1], WriterInv(w), ReaderInv(w),
         WriteOffset
  PROVE  IInv'
<1> USE DEF WriteOffset
<1> DEFINE n == Len(offsets)
<1>1. TypeOK'
  BY DEF TypeOK, rVars, client
<1>2. /\ n \in Nat /\ n = Len(values) /\ wLocal \in Nat
      /\ Len(offsets') = n + 1 /\ Pairs' = 1 .. n + 1 /\ Pairs = 1 .. n
      /\ wIndex \in 0 .. Length - 1
  BY RecordAssumption DEF TypeOK, WriterInv, Pairs
<1>3. \A k \in 1 .. n : w[k] \in 0 .. Length - 1 /\ w[k] < wIndex
  BY <1>2 DEF WriterInv, Encodes
<1> DEFINE place == [k \in 1 .. n + 1 |-> IF k = n + 1 THEN wIndex ELSE w[k]]
<1>p. PICK v : v = place OBVIOUS
<1>v. /\ \A k \in 1 .. n : v[k] = w[k]
      /\ v[n + 1] = wIndex
  BY <1>2, <1>p
<1>4. v \in [Pairs' -> 0 .. Length - 1]
  BY <1>2, <1>3, <1>p
<1> HIDE DEF place
<1>5. LastPlace(w) + wLocal = wIndex /\ wIndex < wEnd BY DEF WriterInv
<1>6. Encodes(v)'
  <2>1. \A j, k \in Pairs' : j < k => v[j] < v[k]
    <3> SUFFICES ASSUME NEW j \in 1 .. n + 1, NEW k \in 1 .. n + 1, j < k
                 PROVE  v[j] < v[k]
      BY <1>2
    <3>1. j \in 1 .. n BY <1>2
    <3>2. CASE k = n + 1 BY <1>3, <1>v, <3>1, <3>2
    <3>3. CASE k # n + 1
      <4>1. k \in 1 .. n BY <1>2, <3>3
      <4>2. w[j] < w[k] BY <1>2, <3>1, <4>1 DEF WriterInv, Encodes
      <4> QED BY <1>v, <3>1, <4>1, <4>2
    <3> QED BY <3>2, <3>3
  <2>2. \A k \in Pairs' : offsets'[k] = IF k = 1 THEN v[1] ELSE v[k] - v[k - 1]
    <3> SUFFICES ASSUME NEW k \in 1 .. n + 1
                 PROVE  offsets'[k] = IF k = 1 THEN v[1] ELSE v[k] - v[k - 1]
      BY <1>2
    <3>1. CASE k = n + 1
      <4>1. offsets'[k] = wLocal BY <3>1 DEF TypeOK
      <4>2. CASE n = 0
        BY <1>2, <1>5, <1>v, <3>1, <4>1, <4>2 DEF LastPlace
      <4>3. CASE n # 0
        <5>1. w[n] + wLocal = wIndex BY <1>5, <4>3 DEF LastPlace
        <5>2. v[k] = wIndex /\ v[k - 1] = w[n] /\ k # 1 BY <1>2, <1>v, <3>1, <4>3
        <5>3. w[n] \in Nat BY <1>2, <1>3, <4>3
        <5> QED BY <1>2, <4>1, <5>1, <5>2, <5>3
      <4> QED BY <4>2, <4>3
    <3>2. CASE k # n + 1
      <4>1. k \in 1 .. n BY <1>2, <3>2
      <4>2. offsets'[k] = offsets[k] BY <1>2, <4>1 DEF TypeOK
      <4>3. offsets[k] = IF k = 1 THEN w[1] ELSE w[k] - w[k - 1]
        BY <1>2, <4>1 DEF WriterInv, Encodes
      <4>4. v[k] = w[k] /\ (k # 1 => v[k - 1] = w[k - 1]) BY <1>2, <1>v, <4>1
      <4> QED BY <4>2, <4>3, <4>4
    <3> QED BY <3>1, <3>2
  <2>3. \A k \in Pairs' : data'[v[k]] # Zero
    <3> SUFFICES ASSUME NEW k \in 1 .. n + 1 PROVE data[v[k]] # Zero
      BY <1>2
    <3>1. CASE k = n + 1 BY <1>v, <3>1
    <3>2. CASE k # n + 1
      <4>1. k \in 1 .. n BY <1>2, <3>2
      <4> QED BY <1>2, <1>v, <4>1 DEF WriterInv, Encodes
    <3> QED BY <3>1, <3>2
  <2>4. \A k \in 1 .. Len(values') : values'[k] = data'[v[k]] /\ v[k] < wIndex'
    BY <1>2, <1>v DEF WriterInv, Encodes
  <2>5. \A i \in 0 .. wIndex' - 1 :
          data'[i] # Zero => \E k \in 1 .. Len(values') : v[k] = i
    <3> SUFFICES ASSUME NEW i \in 0 .. wIndex - 1, data[i] # Zero
                 PROVE  \E k \in 1 .. n : v[k] = i
      BY <1>2
    <3>1. PICK k \in 1 .. n : w[k] = i BY <1>2 DEF WriterInv, Encodes
    <3> QED BY <1>v, <3>1
  <2> QED BY <2>1, <2>2, <2>3, <2>4, <2>5 DEF Encodes
<1>7. WriterInv(v)'
  BY <1>2, <1>5, <1>6, <1>v DEF WriterInv, rVars, client
<1>8. ReaderInv(v)' BY WriterKeepsReaderInv DEF TypeOK
<1> QED BY <1>1, <1>4, <1>7, <1>8 DEF IInv

\* The second half of a pair: it names the item that has been written.
LEMMA WriteValueIInv ==
  ASSUME TypeOK, NEW w \in [Pairs -> 0 .. Length - 1], WriterInv(w), ReaderInv(w),
         WriteValue
  PROVE  IInv'
<1> USE DEF WriteValue
<1> DEFINE n == Len(offsets)
<1>1. /\ n \in Nat \ {0} /\ n = Len(values) + 1 /\ Pairs = 1 .. n
      /\ w[n] = wIndex /\ wIndex \in 0 .. Length - 1 /\ wIndex < wEnd
      /\ nWritten = Len(values)
  BY RecordAssumption DEF TypeOK, WriterInv, Pairs
<1>2. data[wIndex] # Zero /\ data[wIndex] \in Value
  BY <1>1 DEF WriterInv, Encodes, TypeOK, Item
<1>3. wLocal' = 1
  <2>1. OffsetAfter(wLocal, data[wIndex]) = 1 BY <1>2 DEF OffsetAfter
  <2> QED BY <2>1
<1>4. TypeOK'
  BY <1>1, <1>2, <1>3, RecordAssumption DEF TypeOK, rVars, client
<1>5. Len(values') = n /\ values'[n] = data[wIndex]
      /\ \A k \in 1 .. Len(values) : values'[k] = values[k]
  BY <1>1 DEF TypeOK
<1>6. Encodes(w)'
  <2>1. \A k \in 1 .. Len(values') : values'[k] = data'[w[k]] /\ w[k] < wIndex'
    <3> SUFFICES ASSUME NEW k \in 1 .. n
                 PROVE  values'[k] = data[w[k]] /\ w[k] < wIndex + 1
      BY <1>5
    <3>1. CASE k = n BY <1>1, <1>5, <3>1
    <3>2. CASE k # n
      <4>1. k \in 1 .. Len(values) BY <1>1, <3>2
      <4>2. values[k] = data[w[k]] /\ w[k] < wIndex
        BY <4>1 DEF WriterInv, Encodes
      <4>3. w[k] \in 0 .. Length - 1 BY <1>1
      <4> QED BY <1>1, <1>5, <4>1, <4>2, <4>3, RecordAssumption
    <3> QED BY <3>1, <3>2
  <2>2. \A i \in 0 .. wIndex' - 1 :
          data'[i] # Zero => \E k \in 1 .. Len(values') : w[k] = i
    <3> SUFFICES ASSUME NEW i \in 0 .. wIndex, data[i] # Zero
                 PROVE  \E k \in 1 .. n : w[k] = i
      BY <1>1, <1>5
    <3>1. CASE i = wIndex BY <1>1, <3>1
    <3>2. CASE i # wIndex
      <4>1. i \in 0 .. wIndex - 1 BY <1>1, <3>2
      <4> QED BY <1>1, <4>1 DEF WriterInv, Encodes
    <3> QED BY <3>1, <3>2
  <2> QED BY <2>1, <2>2 DEF WriterInv, Encodes, Pairs
<1>7. LastPlace(w)' = wIndex BY <1>1 DEF LastPlace
<1>8. LastPlace(w)' + wLocal' = wIndex' /\ wIndex' <= wEnd'
  BY <1>1, <1>3, <1>7, RecordAssumption DEF TypeOK
<1>9. WriterInv(w)'
  BY <1>1, <1>5, <1>6, <1>8 DEF WriterInv, rVars, client
<1>10. ReaderInv(w)' BY WriterKeepsReaderInv DEF TypeOK
<1>11. Pairs' = Pairs BY DEF Pairs
<1> QED BY <1>4, <1>9, <1>10, <1>11 DEF IInv

-----------------------------------------------------------------------------
(* The reader *)

\* What a reader can rely on: the record is closed and complete.
LEMMA Closed ==
  ASSUME TypeOK, NEW w \in [Pairs -> 0 .. Length - 1], WriterInv(w),
         wPc = "closed" \/ rPc = "loop"
  PROVE  /\ wPc = "closed"
         /\ size = Len(values) /\ Len(offsets) = size /\ size \in Nat
         /\ Pairs = 1 .. size
         /\ \A k \in Pairs : w[k] \in 0 .. Length - 1
         /\ \A i \in 0 .. Length - 1 : data[i] # Zero => \E k \in Pairs : w[k] = i
<1>1. wPc = "closed" BY DEF WriterInv
<1>2. /\ size = Len(values) /\ Len(offsets) = size /\ size \in Nat /\ wIndex = Length
  BY <1>1 DEF TypeOK, WriterInv
<1>3. Pairs = 1 .. size BY <1>2 DEF Pairs
<1>4. \A i \in 0 .. Length - 1 : data[i] # Zero => \E k \in Pairs : w[k] = i
  BY <1>2, <1>3 DEF WriterInv, Encodes
<1> QED BY <1>1, <1>2, <1>3, <1>4

\* A buffer that holds the items of the pairs read so far, and zeros, is the
\* next slice of the array once no unread pair lies inside it.
LEMMA BufferIsSlice ==
  ASSUME TypeOK, NEW w \in [Pairs -> 0 .. Length - 1], WriterInv(w),
         wPc = "closed", NEW buf, nRead <= size,
         \A s \in Slot : buf[s] = IF \E k \in 1 .. nRead : w[k] = base + s
                                    THEN data[base + s] ELSE Zero,
         \A k \in Pairs : w[k] < base + ReadLen => k <= nRead
  PROVE  \A s \in Slot : buf[s] = ItemAt(base + s)
<1> SUFFICES ASSUME NEW s \in Slot PROVE buf[s] = ItemAt(base + s) OBVIOUS
<1>1. /\ size \in Nat /\ Pairs = 1 .. size
      /\ \A k \in Pairs : w[k] \in 0 .. Length - 1
      /\ \A i \in 0 .. Length - 1 : data[i] # Zero => \E k \in Pairs : w[k] = i
  BY Closed
<1>2. base \in Nat /\ s \in Nat /\ s < ReadLen /\ nRead \in Nat /\ Length \in Nat
      /\ ReadLen \in Nat
  BY RecordAssumption DEF TypeOK, Slot
<1>3. CASE \E k \in 1 .. nRead : w[k] = base + s
  <2>1. base + s < Length BY <1>1, <1>2, <1>3
  <2> QED BY <1>3, <2>1 DEF ItemAt
<1>4. CASE ~ \E k \in 1 .. nRead : w[k] = base + s
  <2>1. buf[s] = Zero BY <1>4
  <2>2. CASE base + s >= Length BY <1>2, <2>1, <2>2 DEF ItemAt
  <2>3. CASE base + s < Length
    <3>1. base + s \in 0 .. Length - 1 BY <1>2, <2>3
    <3>2. ASSUME data[base + s] # Zero PROVE FALSE
      <4>1. PICK k \in Pairs : w[k] = base + s BY <1>1, <3>1, <3>2
      <4>2. k <= nRead BY <1>2, <4>1
      <4> QED BY <1>1, <1>2, <1>4, <4>1, <4>2
    <3> QED BY <2>1, <2>3, <3>2 DEF ItemAt
  <2> QED BY <1>2, <2>2, <2>3
<1> QED BY <1>3, <1>4

\* Handing out the next slice keeps the round trip.
LEMMA DeliverSlice ==
  ASSUME TypeOK, RoundTrip, base % ReadLen = 0, NEW buf \in [Slot -> Item],
         \A s \in Slot : buf[s] = ItemAt(base + s), Deliver(buf), data' = data
  PROVE  /\ base' = base + ReadLen /\ base' \in Nat /\ base' % ReadLen = 0
         /\ out' \in [0 .. base' - 1 -> Item]
         /\ RoundTrip'
<1>1. base \in Nat /\ ReadLen \in Nat \ {0} BY RecordAssumption DEF TypeOK
<1>2. base' = base + ReadLen /\ base' \in Nat /\ base' % ReadLen = 0
  <2>1. base' = base + ReadLen BY DEF Deliver
  <2>2. (base + ReadLen) % ReadLen = 0 BY <1>1, NextBatch
  <2> QED BY <1>1, <2>1, <2>2
<1>3. ASSUME NEW i \in 0 .. base' - 1
      PROVE  out'[i] = ItemAt(i) /\ out'[i] \in Item
  <2>1. CASE i < base
    <3>1. i \in 0 .. base - 1 BY <1>1, <2>1
    <3>2. out'[i] = out[i] BY <1>1, <1>2, <2>1 DEF Deliver
    <3> QED BY <3>1, <3>2 DEF RoundTrip, TypeOK
  <2>2. CASE i >= base
    <3>1. i - base \in Slot /\ base + (i - base) = i BY <1>1, <1>2, <2>2 DEF Slot
    <3>2. out'[i] = buf[i - base] BY <1>1, <1>2, <2>2 DEF Deliver
    <3>3. buf[i - base] = ItemAt(i) BY <3>1
    <3> QED BY <3>1, <3>2, <3>3
  <2> QED BY <1>1, <1>2, <2>1, <2>2
<1>4. out' \in [0 .. base' - 1 -> Item]
  <2>1. out' = [i \in 0 .. base' - 1 |-> out'[i]] BY <1>1, <1>2 DEF Deliver
  <2> QED BY <1>3, <2>1
<1>5. RoundTrip'
  <2> SUFFICES ASSUME NEW i \in 0 .. base' - 1 PROVE out'[i] = ItemAt(i)'
    BY DEF RoundTrip
  <2>1. ItemAt(i)' = ItemAt(i) BY DEF ItemAt
  <2> QED BY <1>3, <2>1
<1> QED BY <1>2, <1>4, <1>5

\* Unread pairs lie at or after the first unread one.
LEMMA LaterPlaces ==
  ASSUME TypeOK, NEW w \in [Pairs -> 0 .. Length - 1], WriterInv(w),
         wPc = "closed", nRead < size, NEW k \in Pairs, k > nRead
  PROVE  w[nRead + 1] <= w[k]
<1>1. Pairs = 1 .. size /\ size \in Nat /\ nRead \in Nat
      /\ \A j \in Pairs : w[j] \in 0 .. Length - 1
  BY Closed DEF TypeOK
<1>2. nRead + 1 \in Pairs BY <1>1
<1>3. CASE k = nRead + 1
  <2>1. w[nRead + 1] = w[k] /\ w[k] \in Int BY <1>1, <1>3, RecordAssumption
  <2> QED BY <2>1
<1>4. CASE k # nRead + 1
  <2>1. nRead + 1 < k BY <1>1, <1>4
  <2>2. w[nRead + 1] < w[k] BY <1>2, <2>1 DEF WriterInv, Encodes
  <2> QED BY <1>1, <1>2, <2>2, RecordAssumption
<1> QED BY <1>3, <1>4

\* The reader starts a batch with what the one before left over.
LEMMA BeginReadIInv ==
  ASSUME TypeOK, NEW w \in [Pairs -> 0 .. Length - 1], WriterInv(w), ReaderInv(w),
         BeginRead
  PROVE  IInv'
<1> USE DEF BeginRead, MayRead
<1>1. Cleared \in [Slot -> Item] BY DEF Cleared, Item
<1>2. TypeOK' BY <1>1 DEF TypeOK, wVars, fileVars, client
<1>3. WriterInv(w)' BY ReaderKeepsWriterInv
<1>4. base \in Nat /\ ReadLen \in Nat \ {0} /\ rIndex \in Nat
  BY RecordAssumption DEF TypeOK
<1>5. size \in Nat /\ nRead \in Nat /\ nRead <= size /\ Pairs = 1 .. size
      /\ \A k \in Pairs : w[k] \in 0 .. Length - 1
  BY Closed DEF TypeOK, ReaderInv
<1>6. \A k \in 1 .. nRead : w[k] \in 0 .. Length - 1 /\ w[k] < base
  BY <1>5 DEF ReaderInv
<1>7. \A k \in 1 .. nRead : w[k] < base + ReadLen
  BY <1>4, <1>6, RecordAssumption
<1>8. \A s \in Slot : buffer'[s] = IF \E k \in 1 .. nRead : w[k] = base + s
                                     THEN data[base + s] ELSE Zero
  <2> SUFFICES ASSUME NEW s \in Slot
               PROVE  buffer'[s] = Zero /\ \A k \in 1 .. nRead : w[k] # base + s
    OBVIOUS
  <2>1. buffer'[s] = Zero BY DEF Cleared
  <2>2. s \in Nat BY <1>4 DEF Slot
  <2> QED BY <1>4, <1>6, <2>1, <2>2, RecordAssumption
<1>9. nRead < size => base <= rIndex /\ rIndex < base + ReadLen
  BY <1>4 DEF ReaderInv
<1>c. base < Length
  <2>1. CASE nRead >= size BY <1>5, <2>1 DEF IsDone
  <2>2. CASE nRead < size
    <3>1. w[nRead + 1] \in 0 .. Length - 1 /\ nRead + 1 \in Pairs BY <1>5, <2>2
    <3>2. rIndex = base BY <2>2 DEF ReaderInv
    <3>3. CASE hasSparse
      <4>1. rIndex + rSparse = w[nRead + 1] /\ rSparse \in Nat
        BY <3>3 DEF ReaderInv, TypeOK
      <4> QED BY <1>4, <3>1, <3>2, <4>1, RecordAssumption
    <3>4. CASE ~hasSparse
      <4>1. rIndex = ReadPlace(w) BY <3>4 DEF ReaderInv
      <4>2. CASE nRead = 0
        <5>1. base = 0 BY <3>2, <4>1, <4>2 DEF ReadPlace
        <5> QED BY <3>1, <5>1, RecordAssumption
      <4>3. CASE nRead # 0
        <5>1. w[nRead] = base BY <3>2, <4>1, <4>3 DEF ReadPlace
        <5>2. nRead \in 1 .. nRead BY <1>5, <4>3
        <5> QED BY <1>4, <1>6, <5>1, <5>2
      <4> QED BY <4>2, <4>3
    <3> QED BY <3>3, <3>4
  <2> QED BY <1>5, <2>1, <2>2
<1>10. ReaderInv(w)'
  <2>1. RoundTrip' BY DEF ReaderInv, RoundTrip, ItemAt, client
  <2>2. ReadPlace(w)' = ReadPlace(w) BY DEF ReadPlace
  <2> QED BY <1>7, <1>8, <1>9, <1>c, <2>1, <2>2 DEF ReaderInv, fileVars, client
<1>11. Pairs' = Pairs BY DEF Pairs, fileVars
<1> QED BY <1>2, <1>3, <1>10, <1>11 DEF IInv

\* The first half of a pair.
LEMMA ReadOffsetIInv ==
  ASSUME TypeOK, NEW w \in [Pairs -> 0 .. Length - 1], WriterInv(w), ReaderInv(w),
         ReadOffset
  PROVE  IInv'
<1> USE DEF ReadOffset
<1>1. size \in Nat /\ nRead \in Nat /\ nRead < size /\ Pairs = 1 .. size
      /\ \A k \in Pairs : w[k] \in 0 .. Length - 1
  BY Closed DEF TypeOK, IsDone
<1>2. nRead + 1 \in Pairs /\ rIndex \in Nat BY <1>1 DEF TypeOK
<1>3. offsets[nRead + 1] = IF nRead + 1 = 1 THEN w[1] ELSE w[nRead + 1] - w[nRead]
  BY <1>1, <1>2 DEF WriterInv, Encodes
<1>4. offsets[nRead + 1] \in Nat BY <1>2 DEF TypeOK, Pairs
<1>5. TypeOK' BY <1>4 DEF TypeOK, wVars, fileVars, client
<1>6. rIndex + rSparse' = w[nRead + 1]
  <2>1. rIndex = ReadPlace(w) BY DEF ReaderInv
  <2>2. CASE nRead = 0 BY <1>1, <1>2, <1>3, <2>1, <2>2, RecordAssumption DEF ReadPlace
  <2>3. CASE nRead # 0
    <3>1. nRead \in Pairs BY <1>1, <2>3
    <3>2. w[nRead] \in Int /\ w[nRead + 1] \in Int BY <1>1, <1>2, <3>1, RecordAssumption
    <3>3. rIndex = w[nRead] BY <2>1, <2>3 DEF ReadPlace
    <3>4. rSparse' = w[nRead + 1] - w[nRead] BY <1>1, <1>3, <2>3
    <3> QED BY <3>2, <3>3, <3>4
  <2> QED BY <2>2, <2>3
<1>7. WriterInv(w)' BY Closed, ReaderKeepsWriterInv
<1>8. ReaderInv(w)'
  <2>1. RoundTrip' BY DEF ReaderInv, RoundTrip, ItemAt, client
  <2> QED BY <1>1, <1>6, <2>1 DEF ReaderInv, fileVars, client
<1>9. Pairs' = Pairs BY DEF Pairs, fileVars
<1> QED BY <1>5, <1>7, <1>8, <1>9 DEF IInv

\* The read of a pair fails.
LEMMA ReadErrorIInv ==
  ASSUME TypeOK, NEW w \in [Pairs -> 0 .. Length - 1], WriterInv(w), ReaderInv(w),
         ReadError
  PROVE  IInv'
<1> USE DEF ReadError
<1>1. TypeOK' BY DEF TypeOK, wVars, fileVars, client
<1>2. WriterInv(w)' BY Closed, ReaderKeepsWriterInv
<1>3. ReaderInv(w)'
  <2>1. RoundTrip' BY DEF ReaderInv, RoundTrip, ItemAt, client
  <2>2. ReadPlace(w)' = ReadPlace(w) BY DEF ReadPlace
  <2> QED BY <2>1, <2>2 DEF ReaderInv, fileVars, client
<1>4. Pairs' = Pairs BY DEF Pairs, fileVars
<1> QED BY <1>1, <1>2, <1>3, <1>4 DEF IInv

\* Where the reader stands inside its loop: its index is in the current
\* buffer, and the place of the next pair is in it exactly when the batch
\* numbers say so.
LEMMA InLoop ==
  ASSUME TypeOK, NEW w \in [Pairs -> 0 .. Length - 1], WriterInv(w), ReaderInv(w),
         rPc = "loop", nRead < size, hasSparse
  PROVE  /\ base <= rIndex /\ rIndex < base + ReadLen
         /\ SlotOf(rIndex) = rIndex - base
         /\ rIndex + rSparse = w[nRead + 1]
         /\ BatchOf(rIndex + rSparse) > BatchOf(rIndex) =>
              base + ReadLen <= rIndex + rSparse
         /\ BatchOf(rIndex + rSparse) <= BatchOf(rIndex) =>
              /\ rIndex + rSparse < base + ReadLen
              /\ SlotOf(rIndex + rSparse) = rIndex + rSparse - base
<1>1. /\ base \in Nat /\ ReadLen \in Nat \ {0} /\ rIndex \in Nat /\ rSparse \in Nat
      /\ base % ReadLen = 0
  BY RecordAssumption DEF TypeOK, ReaderInv
<1>2. base <= rIndex /\ rIndex < base + ReadLen /\ rIndex + rSparse = w[nRead + 1]
  BY DEF ReaderInv
<1>3. BatchOf(rIndex) = BatchOf(base) /\ SlotOf(rIndex) = rIndex - base
  BY <1>1, <1>2, InBatch
<1>t. PICK t : t = rIndex + rSparse OBVIOUS
<1>4. t \in Nat /\ base <= t BY <1>1, <1>2, <1>t
<1>5. BatchOf(base) \in Nat /\ BatchOf(t) \in Nat
  BY <1>1, <1>4, Division DEF BatchOf
<1>6. t < base + ReadLen => BatchOf(t) = BatchOf(base) /\ SlotOf(t) = t - base
  BY <1>1, <1>4, InBatch
<1>7. base + ReadLen <= t => BatchOf(t) > BatchOf(base)
  BY <1>1, <1>4, PastBatch
<1>8. BatchOf(t) > BatchOf(rIndex) => base + ReadLen <= t
  BY <1>1, <1>3, <1>4, <1>5, <1>6
<1>9. BatchOf(t) <= BatchOf(rIndex) => t < base + ReadLen /\ SlotOf(t) = t - base
  BY <1>1, <1>3, <1>4, <1>5, <1>6, <1>7
<1>10. BatchOf(rIndex + rSparse) = BatchOf(t) /\ SlotOf(rIndex + rSparse) = SlotOf(t)
  BY <1>t
<1>11. BatchOf(rIndex + rSparse) > BatchOf(rIndex) =>
         base + ReadLen <= rIndex + rSparse
  BY <1>8, <1>10, <1>t
<1>12. BatchOf(rIndex + rSparse) <= BatchOf(rIndex) =>
         /\ rIndex + rSparse < base + ReadLen
         /\ SlotOf(rIndex + rSparse) = rIndex + rSparse - base
  BY <1>1, <1>4, <1>9, <1>10, <1>t
<1> QED BY <1>2, <1>3, <1>11, <1>12

\* The pair belongs to a later batch: this one is full, and right.
LEMMA CrossBatchIInv ==
  ASSUME TypeOK, NEW w \in [Pairs -> 0 .. Length - 1], WriterInv(w), ReaderInv(w),
         CrossBatch
  PROVE  IInv' /\ \A s \in Slot : buffer[s] = ItemAt(base + s)
<1> USE DEF CrossBatch
<1>1. /\ size \in Nat /\ nRead \in Nat /\ nRead < size /\ Pairs = 1 .. size
      /\ wPc = "closed" /\ \A k \in Pairs : w[k] \in 0 .. Length - 1
  BY Closed DEF TypeOK, IsDone
<1>2. /\ base \in Nat /\ ReadLen \in Nat \ {0} /\ rIndex \in Nat /\ rSparse \in Nat
      /\ base % ReadLen = 0 /\ buffer \in [Slot -> Item] /\ RoundTrip
  BY RecordAssumption DEF TypeOK, ReaderInv
<1>3. /\ base <= rIndex /\ rIndex < base + ReadLen
      /\ SlotOf(rIndex) = rIndex - base
      /\ rIndex + rSparse = w[nRead + 1]
      /\ base + ReadLen <= rIndex + rSparse
  BY <1>1, InLoop
<1>4. rIndex' = base + ReadLen /\ rSparse' = rIndex + rSparse - (base + ReadLen)
  BY <1>2, <1>3 DEF SkipFrom
<1>5. \A k \in Pairs : w[k] < base + ReadLen => k <= nRead
  <2> SUFFICES ASSUME NEW k \in Pairs, k > nRead PROVE ~(w[k] < base + ReadLen)
    BY <1>1
  <2>1. w[nRead + 1] <= w[k] BY <1>1, LaterPlaces
  <2> QED BY <1>1, <1>2, <1>3, <2>1, RecordAssumption
<1>6. \A s \in Slot : buffer[s] = ItemAt(base + s)
  BY <1>1, <1>5, BufferIsSlice DEF ReaderInv
<1>7. /\ base' = base + ReadLen /\ base' \in Nat /\ base' % ReadLen = 0
      /\ out' \in [0 .. base' - 1 -> Item]
      /\ RoundTrip'
  BY <1>2, <1>6, DeliverSlice
<1>8. TypeOK'
  <2>1. rIndex' \in Nat /\ rSparse' \in Nat BY <1>2, <1>3, <1>4
  <2> QED BY <1>7, <2>1 DEF TypeOK, wVars, fileVars
<1>9. WriterInv(w)' BY <1>1, ReaderKeepsWriterInv
<1>10. rIndex' + rSparse' = w[nRead + 1] BY <1>2, <1>3, <1>4
<1>11. \A k \in 1 .. nRead : w[k] < base'
  BY <1>7 DEF ReaderInv
<1>12. ReaderInv(w)'
  BY <1>1, <1>4, <1>7, <1>10, <1>11 DEF ReaderInv, fileVars
<1>13. Pairs' = Pairs BY DEF Pairs, fileVars
<1> QED BY <1>6, <1>8, <1>9, <1>12, <1>13 DEF IInv

\* The file ends: the rest of the batch is zero, and right.
LEMMA EndReadIInv ==
  ASSUME TypeOK, NEW w \in [Pairs -> 0 .. Length - 1], WriterInv(w), ReaderInv(w),
         EndRead
  PROVE  IInv' /\ \A s \in Slot : buffer[s] = ItemAt(base + s)
<1> USE DEF EndRead
<1>1. /\ size \in Nat /\ nRead \in Nat /\ nRead = size /\ Pairs = 1 .. size
      /\ wPc = "closed"
  BY Closed DEF TypeOK, IsDone, ReaderInv
<1>2. base % ReadLen = 0 /\ buffer \in [Slot -> Item] /\ RoundTrip
  BY DEF TypeOK, ReaderInv
<1>3. \A s \in Slot : buffer[s] = ItemAt(base + s)
  BY <1>1, BufferIsSlice DEF ReaderInv
<1>4. /\ base' = base + ReadLen /\ base' \in Nat /\ base' % ReadLen = 0
      /\ out' \in [0 .. base' - 1 -> Item]
      /\ RoundTrip'
  BY <1>2, <1>3, DeliverSlice
<1>5. TypeOK' BY <1>4 DEF TypeOK, wVars, fileVars
<1>6. WriterInv(w)' BY <1>1, ReaderKeepsWriterInv
<1>7. \A k \in 1 .. nRead : w[k] < base' BY <1>4 DEF ReaderInv
<1>8. ReadPlace(w)' = ReadPlace(w) BY DEF ReadPlace
<1>9. ReaderInv(w)' BY <1>1, <1>4, <1>7, <1>8 DEF ReaderInv, fileVars
<1>10. Pairs' = Pairs BY DEF Pairs, fileVars
<1> QED BY <1>3, <1>5, <1>6, <1>9, <1>10 DEF IInv

\* A batch before the next pair is all zeros, and right.
LEMMA ReadEmptyBatchIInv ==
  ASSUME TypeOK, NEW w \in [Pairs -> 0 .. Length - 1], WriterInv(w), ReaderInv(w),
         ReadEmptyBatch
  PROVE  IInv' /\ base < Length /\ \A s \in Slot : Cleared[s] = ItemAt(base + s)
<1> USE DEF ReadEmptyBatch, MayRead
<1>1. /\ size \in Nat /\ nRead \in Nat /\ Pairs = 1 .. size
      /\ wPc = "closed" /\ \A k \in Pairs : w[k] \in 0 .. Length - 1
  BY Closed DEF TypeOK
<1>2. /\ base \in Nat /\ ReadLen \in Nat \ {0} /\ rIndex \in Nat /\ rSparse \in Nat
      /\ base % ReadLen = 0 /\ RoundTrip /\ Cleared \in [Slot -> Item]
  BY RecordAssumption DEF TypeOK, ReaderInv, Cleared, Item
<1>3. nRead < size /\ rIndex + rSparse = w[nRead + 1] /\ hasSparse
  <2>1. rSparse # 0 BY <1>2
  <2> QED BY <2>1 DEF ReaderInv, TypeOK
<1>4. rIndex = base BY <1>3 DEF ReaderInv
<1>5. \A k \in Pairs : w[k] < base + ReadLen => k <= nRead
  <2> SUFFICES ASSUME NEW k \in Pairs, k > nRead PROVE ~(w[k] < base + ReadLen)
    BY <1>1
  <2>1. w[nRead + 1] <= w[k] BY <1>1, <1>3, LaterPlaces
  <2> QED BY <1>1, <1>2, <1>3, <1>4, <2>1, RecordAssumption
<1>6. \A k \in 1 .. nRead : w[k] \in Int /\ w[k] < base
  BY <1>1, <1>3, RecordAssumption DEF ReaderInv
<1>7. \A s \in Slot : Cleared[s] = IF \E k \in 1 .. nRead : w[k] = base + s
                                     THEN data[base + s] ELSE Zero
  <2> SUFFICES ASSUME NEW s \in Slot
               PROVE  Cleared[s] = Zero /\ \A k \in 1 .. nRead : w[k] # base + s
    OBVIOUS
  <2>1. Cleared[s] = Zero BY DEF Cleared
  <2>2. s \in Nat BY <1>2 DEF Slot
  <2> QED BY <1>2, <1>6, <2>1, <2>2
<1>8. \A s \in Slot : Cleared[s] = ItemAt(base + s)
  BY <1>1, <1>3, <1>5, <1>7, BufferIsSlice
<1>9. /\ base' = base + ReadLen /\ base' \in Nat /\ base' % ReadLen = 0
      /\ out' \in [0 .. base' - 1 -> Item]
      /\ RoundTrip'
  BY <1>2, <1>8, DeliverSlice
<1>10. TypeOK'
  <2>1. rIndex' \in Nat /\ rSparse' \in Nat BY <1>2
  <2> QED BY <1>2, <1>9, <2>1 DEF TypeOK, wVars, fileVars
<1>11. WriterInv(w)' BY <1>1, ReaderKeepsWriterInv
<1>12. rIndex' + rSparse' = w[nRead + 1] /\ rIndex' = base'
  BY <1>2, <1>3, <1>4, <1>9
<1>13. \A k \in 1 .. nRead : w[k] < base' BY <1>2, <1>6, <1>9
<1>14. ReaderInv(w)'
  BY <1>1, <1>3, <1>9, <1>12, <1>13 DEF ReaderInv, fileVars
<1>15. Pairs' = Pairs BY DEF Pairs, fileVars
<1>16. base < Length
  <2>1. nRead + 1 \in Pairs BY <1>1, <1>3
  <2> QED BY <1>1, <1>2, <1>3, <1>4, <2>1, RecordAssumption
<1> QED BY <1>8, <1>10, <1>11, <1>14, <1>15, <1>16 DEF IInv

\* The second half of a pair: its value goes to its place in the batch.
LEMMA ReadValueIInv ==
  ASSUME TypeOK, NEW w \in [Pairs -> 0 .. Length - 1], WriterInv(w), ReaderInv(w),
         ReadValue
  PROVE  IInv'
<1>a. /\ rPc = "loop" /\ rPc' = rPc /\ ~IsDone
      /\ BatchOf(rIndex + rSparse) <= BatchOf(rIndex)
      /\ buffer' = [buffer EXCEPT ![SlotOf(rIndex + rSparse)] = values[nRead + 1]]
      /\ nRead' = nRead + 1 /\ rIndex' = rIndex + rSparse /\ rSparse' = 0
      /\ data' = data /\ base' = base /\ out' = out
      /\ offsets' = offsets /\ values' = values /\ size' = size
      /\ wVars' = wVars /\ fileVars' = fileVars
  BY DEF ReadValue, client, fileVars
<1>b. hasSparse /\ ~hasSparse' /\ hasSparse' \in BOOLEAN BY DEF ReadValue
<1>1. /\ size \in Nat /\ nRead \in Nat /\ nRead < size /\ Pairs = 1 .. size
      /\ wPc = "closed" /\ \A k \in Pairs : w[k] \in 0 .. Length - 1
      /\ size = Len(values)
  BY <1>a, Closed DEF TypeOK, IsDone
<1>2. /\ base \in Nat /\ ReadLen \in Nat \ {0} /\ rIndex \in Nat /\ rSparse \in Nat
      /\ base % ReadLen = 0 /\ buffer \in [Slot -> Item] /\ Length \in Nat
  BY RecordAssumption DEF TypeOK, ReaderInv
<1> DEFINE place == w[nRead + 1]
<1>3. /\ base <= rIndex /\ rIndex + rSparse = place /\ place < base + ReadLen
      /\ SlotOf(rIndex + rSparse) = place - base
  <2>1. /\ base <= rIndex /\ rIndex + rSparse = w[nRead + 1]
        /\ rIndex + rSparse < base + ReadLen
        /\ SlotOf(rIndex + rSparse) = rIndex + rSparse - base
    BY <1>1, <1>2, <1>a, <1>b, InLoop
  <2> QED BY <1>2, <2>1
<1>4. nRead + 1 \in Pairs /\ place \in Nat /\ base <= place /\ place < Length
  BY <1>1, <1>2, <1>3
<1>5. values[nRead + 1] = data[place] /\ values[nRead + 1] \in Value
  BY <1>1, <1>4 DEF WriterInv, Encodes, TypeOK
<1>6. place - base \in Slot BY <1>2, <1>3, <1>4 DEF Slot
<1>7. buffer' = [buffer EXCEPT ![place - base] = data[place]]
  BY <1>3, <1>5, <1>a
<1>8. TypeOK'
  <2>1. rIndex' \in Nat /\ rSparse' \in Nat BY <1>2, <1>a
  <2>2. buffer' \in [Slot -> Item] BY <1>2, <1>5, <1>6, <1>7 DEF Item
  <2>3. nRead' \in Nat BY <1>1, <1>a
  <2> QED BY <1>a, <1>b, <2>1, <2>2, <2>3 DEF TypeOK, wVars
<1>9. WriterInv(w)' BY <1>1, <1>a, ReaderKeepsWriterInv
<1>10. \A k \in 1 .. nRead + 1 : w[k] \in Int /\ w[k] < base + ReadLen
  <2> SUFFICES ASSUME NEW k \in 1 .. nRead + 1
               PROVE  w[k] \in Int /\ w[k] < base + ReadLen
    OBVIOUS
  <2>1. w[k] \in Int BY <1>1, <1>2
  <2>2. CASE k = nRead + 1 BY <1>3, <2>1, <2>2
  <2>3. CASE k # nRead + 1
    <3>1. k \in 1 .. nRead BY <1>1, <2>3
    <3> QED BY <1>a, <2>1, <3>1 DEF ReaderInv
  <2> QED BY <2>2, <2>3
<1>11. \A s \in Slot : buffer'[s] = IF \E k \in 1 .. nRead + 1 : w[k] = base + s
                                      THEN data[base + s] ELSE Zero
  <2> SUFFICES ASSUME NEW s \in Slot
               PROVE  buffer'[s] = IF \E k \in 1 .. nRead + 1 : w[k] = base + s
                                     THEN data[base + s] ELSE Zero
    OBVIOUS
  <2>1. s \in Nat BY <1>2 DEF Slot
  <2>2. CASE s = place - base
    <3>1. w[nRead + 1] = base + s BY <1>2, <1>4, <2>2
    <3>2. buffer'[s] = data[base + s] BY <1>2, <1>6, <1>7, <2>2, <3>1
    <3> QED BY <1>1, <3>1, <3>2
  <2>3. CASE s # place - base
    <3>1. buffer'[s] = buffer[s] BY <1>2, <1>6, <1>7, <2>3
    <3>2. w[nRead + 1] # base + s BY <1>2, <1>4, <2>1, <2>3
    <3>3. (\E k \in 1 .. nRead + 1 : w[k] = base + s)
            <=> (\E k \in 1 .. nRead : w[k] = base + s)
      BY <1>1, <3>2
    <3>4. buffer[s] = IF \E k \in 1 .. nRead : w[k] = base + s
                        THEN data[base + s] ELSE Zero
      BY <1>a DEF ReaderInv
    <3> QED BY <3>1, <3>3, <3>4
  <2> QED BY <2>2, <2>3
<1>12. ReaderInv(w)'
  <2>1. RoundTrip' BY <1>a DEF ReaderInv, RoundTrip, ItemAt
  <2>2. rIndex' = place BY <1>3, <1>a
  <2>3. rIndex' = ReadPlace(w)' BY <1>1, <1>a, <2>2 DEF ReadPlace
  <2>4. base <= rIndex' /\ rIndex' < base + ReadLen BY <1>3, <1>4, <2>2
  <2> HIDE DEF place
  <2>5. nRead' <= size' /\ base' % ReadLen = 0 /\ base' < Length
    BY <1>1, <1>2, <1>4, <1>a
  <2>6. /\ \A k \in 1 .. nRead' : w[k] < base' + ReadLen
        /\ \A s \in Slot :
             buffer'[s] = IF \E k \in 1 .. nRead' : w[k] = base' + s
                            THEN data'[base' + s] ELSE Zero
    BY <1>10, <1>11, <1>a
  <2> QED BY <1>a, <1>b, <2>1, <2>3, <2>4, <2>5, <2>6 DEF ReaderInv
<1>13. Pairs' = Pairs BY <1>a DEF Pairs
<1> QED BY <1>8, <1>9, <1>12, <1>13 DEF IInv

-----------------------------------------------------------------------------
(* The theorems *)

\* Every step of writer or reader keeps the invariant.
LEMMA NextIInv == IInv /\ [Next]_vars => IInv'
<1> SUFFICES ASSUME IInv, [Next]_vars PROVE IInv' OBVIOUS
<1>1. TypeOK BY DEF IInv
<1>2. PICK w \in [Pairs -> 0 .. Length - 1] : WriterInv(w) /\ ReaderInv(w) BY DEF IInv
<1>3. CASE \E n \in WriteLens : BeginWrite(n) BY <1>1, <1>2, <1>3, BeginWriteIInv
<1>4. CASE WriteZero BY <1>1, <1>2, <1>4, WriteZeroIInv
<1>5. CASE WriteOffset BY <1>1, <1>2, <1>5, WriteOffsetIInv
<1>6. CASE WriteValue BY <1>1, <1>2, <1>6, WriteValueIInv
<1>7. CASE EndWrite BY <1>1, <1>2, <1>7, EndWriteIInv
<1>8. CASE Finish BY <1>1, <1>2, <1>8, FinishIInv
<1>9. CASE WriteError BY <1>1, <1>2, <1>9, WriteErrorIInv
<1>10. CASE ReadEmptyBatch BY <1>1, <1>2, <1>10, ReadEmptyBatchIInv
<1>11. CASE BeginRead BY <1>1, <1>2, <1>11, BeginReadIInv
<1>12. CASE ReadOffset BY <1>1, <1>2, <1>12, ReadOffsetIInv
<1>13. CASE CrossBatch BY <1>1, <1>2, <1>13, CrossBatchIInv
<1>14. CASE ReadValue BY <1>1, <1>2, <1>14, ReadValueIInv
<1>15. CASE EndRead BY <1>1, <1>2, <1>15, EndReadIInv
<1>16. CASE ReadError BY <1>1, <1>2, <1>16, ReadErrorIInv
<1>17. CASE UNCHANGED vars
  <2>1. TypeOK' BY <1>1, <1>17 DEF TypeOK, vars, wVars, fileVars, rVars, client
  <2>2. WriterInv(w)'
    BY <1>2, <1>17
    DEF WriterInv, Encodes, Pairs, LastPlace, vars, wVars, fileVars, rVars, client
  <2>3. RoundTrip'
    BY <1>2, <1>17 DEF ReaderInv, RoundTrip, ItemAt, vars, client
  <2>4. ReadPlace(w)' = ReadPlace(w) BY <1>17 DEF ReadPlace, vars, rVars
  <2>5. ReaderInv(w)'
    BY <1>2, <1>17, <2>3, <2>4 DEF ReaderInv, vars, fileVars, rVars, client
  <2>6. Pairs' = Pairs BY <1>17 DEF Pairs, vars, fileVars
  <2> QED BY <2>1, <2>2, <2>5, <2>6 DEF IInv
<1> QED
  BY <1>3, <1>4, <1>5, <1>6, <1>7, <1>8, <1>9, <1>10, <1>11, <1>12, <1>13, <1>14,
     <1>15, <1>16, <1>17
  DEF Next, Write, Read

\* The invariant holds in every reachable state.
LEMMA SpecIInv == Spec => []IInv
<1> QED BY InitIInv, NextIInv, PTL DEF Spec

\* Writer and reader keep to the types of their variables; in particular no
\* pending offset is ever taken below zero.
THEOREM SparseRecordTypeOK == Spec => []TypeOK
<1>1. IInv => TypeOK BY DEF IInv
<1> QED BY <1>1, SpecIInv, PTL

\* What the reader hands out is what the writer was given, for every array
\* and all buffer lengths.
THEOREM SparseRecordRoundTrip == Spec => []RoundTrip
<1>1. IInv => RoundTrip BY DEF IInv, ReaderInv
<1> QED BY <1>1, SpecIInv, PTL

\* A client that stops on is_done has been given every nonzero item.
THEOREM SparseRecordNothingLost == Spec => []NothingLost
<1>1. ASSUME IInv PROVE NothingLost
  <2> SUFFICES ASSUME wPc = "closed", rPc = "idle", IsDone,
                      NEW i \in 0 .. Length - 1, i >= base, data[i] # Zero
               PROVE  FALSE
    BY DEF NothingLost
  <2>1. TypeOK BY <1>1 DEF IInv
  <2>2. PICK w \in [Pairs -> 0 .. Length - 1] : WriterInv(w) /\ ReaderInv(w)
    BY <1>1 DEF IInv
  <2>3. size \in Nat /\ Pairs = 1 .. size
        /\ \A j \in 0 .. Length - 1 : data[j] # Zero => \E k \in Pairs : w[k] = j
    BY <2>1, <2>2, Closed
  <2>4. PICK k \in Pairs : w[k] = i BY <2>3
  <2>5. nRead \in Nat /\ base \in Nat /\ nRead >= size BY <2>1 DEF TypeOK, IsDone
  <2>6. k \in 1 .. nRead BY <2>3, <2>5
  <2>7. w[k] < base BY <2>2, <2>6 DEF ReaderInv
  <2> QED BY <2>4, <2>5, <2>7, RecordAssumption
<1>2. IInv => NothingLost BY <1>1
<1> QED BY <1>2, SpecIInv, PTL

\* Client and reader agree on the position between two calls.
THEOREM SparseRecordClientAgrees == Spec => []ClientAgrees
<1>1. IInv => ClientAgrees BY DEF IInv, ReaderInv, ClientAgrees
<1> QED BY <1>1, SpecIInv, PTL

-----------------------------------------------------------------------------
(* The record implements the stream *)

\* Handing out a buffer that is the next slice is a step of the stream.
LEMMA DeliverIsNext ==
  ASSUME TypeOK, base < Length, NEW buf, Deliver(buf), data' = data,
         \A s \in Slot : buf[s] = ItemAt(base + s)
  PROVE  Stream!DeliverNext
<1>1. base \in Nat /\ ReadLen \in Nat \ {0} BY RecordAssumption DEF TypeOK
<1>2. ASSUME NEW i \in 0 .. base + ReadLen - 1, ~(i < base)
      PROVE  buf[i - base] = Stream!ItemAt(i)
  <2>1. i - base \in Slot /\ base + (i - base) = i BY <1>1, <1>2 DEF Slot
  <2>2. buf[i - base] = ItemAt(i) BY <2>1
  <2> QED BY <2>2 DEF ItemAt, Stream!ItemAt
<1>3. out' = [i \in 0 .. base + ReadLen - 1 |->
                IF i < base THEN out[i] ELSE Stream!ItemAt(i)]
  BY <1>2 DEF Deliver
<1> QED BY <1>3 DEF Deliver, Stream!DeliverNext

\* A step of the record is a step of the stream or leaves the stream's state
\* alone.
LEMMA NextImplements ==
  IInv /\ [Next]_vars => [Stream!DeliverNext]_(Stream!vars)
<1> SUFFICES ASSUME IInv, [Next]_vars
             PROVE  Stream!DeliverNext \/ UNCHANGED Stream!vars
  OBVIOUS
<1>1. TypeOK BY DEF IInv
<1>2. PICK w \in [Pairs -> 0 .. Length - 1] : WriterInv(w) /\ ReaderInv(w) BY DEF IInv
<1>3. CASE ReadEmptyBatch
  <2>1. base < Length /\ \A s \in Slot : Cleared[s] = ItemAt(base + s)
    BY <1>1, <1>2, <1>3, ReadEmptyBatchIInv
  <2> QED BY <1>1, <1>3, <2>1, DeliverIsNext DEF ReadEmptyBatch
<1>4. CASE CrossBatch
  <2>1. \A s \in Slot : buffer[s] = ItemAt(base + s)
    BY <1>1, <1>2, <1>4, CrossBatchIInv
  <2>2. base < Length BY <1>2, <1>4 DEF ReaderInv, CrossBatch
  <2> QED BY <1>1, <1>4, <2>1, <2>2, DeliverIsNext DEF CrossBatch
<1>5. CASE EndRead
  <2>1. \A s \in Slot : buffer[s] = ItemAt(base + s)
    BY <1>1, <1>2, <1>5, EndReadIInv
  <2>2. base < Length BY <1>2, <1>5 DEF ReaderInv, EndRead
  <2> QED BY <1>1, <1>5, <2>1, <2>2, DeliverIsNext DEF EndRead
<1>6. CASE (\E n \in WriteLens : BeginWrite(n)) \/ WriteZero \/ WriteOffset \/ WriteValue
           \/ EndWrite \/ Finish \/ WriteError \/ BeginRead \/ ReadOffset \/ ReadValue
           \/ ReadError \/ UNCHANGED vars
  BY <1>6
  DEF BeginWrite, WriteZero, WriteOffset, WriteValue, EndWrite, Finish, WriteError,
      BeginRead, ReadOffset, ReadValue, ReadError, vars, client, Stream!vars
<1> QED BY <1>3, <1>4, <1>5, <1>6 DEF Next, Write, Read

\* The writer and the reader together are a record stream: buffers that
\* continue each other and hold the array's items, for every array and all
\* buffer lengths.
THEOREM SparseRecordImplementsStream == Spec => ImplementsStream
<1>1. Init => Stream!Init BY DEF Init, Stream!Init, Item, Stream!Item
<1> QED BY <1>1, SpecIInv, NextImplements, PTL DEF Spec, ImplementsStream, Stream!Spec
=============================================================================
