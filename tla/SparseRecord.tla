---------------------------- MODULE SparseRecord ----------------------------
(***************************************************************************)
(* A sparse record: src/stufflib/record/writer.c and reader.c for layout   *)
(* "sparse", as the dataset tool writes one and the svm tool reads it.     *)
(*                                                                         *)
(* The logical content is an array of Length items.  The writer gets it in *)
(* buffers of any length of WriteLens and appends, for every nonzero item, *)
(* a pair (offset, value), the offset being the distance to the previous   *)
(* nonzero item (to index 0 for the first).  The reader turns the pairs    *)
(* back into dense buffers of ReadLen items.  Both keep the distance that  *)
(* is pending at the edge of a buffer in a field sparse_offset.            *)
(*                                                                         *)
(* The two steps of a loop iteration that touch the file (the offset, then *)
(* the value) are separate, and each may fail, so what a failed call       *)
(* leaves behind is in the model.                                          *)
(***************************************************************************)
EXTENDS Integers, Sequences

CONSTANTS
  Value,      \* the nonzero values of an item
  Zero,       \* the item whose bytes are all zero
  Length,     \* number of items of the logical array; bounds the model
  WriteLens,  \* buffer lengths a client may pass to sl_record_writer_write
  ReadLen     \* buffer length the client passes to sl_record_reader_read

ASSUME RecordAssumption ==
  /\ Zero \notin Value
  /\ Length \in Nat
  /\ WriteLens \subseteq Nat \ {0}
  /\ ReadLen \in Nat \ {0}

VARIABLES
  data,       \* the logical array
  wPc,        \* writer: "idle", "offset", "value", "closed" or "failed"
  wIndex,     \* items of data the writer's loops have passed
  wEnd,       \* end of the buffer of the current write call
  wLocal,     \* the local variable offset of a write call
  wSparse,    \* writer->sparse_offset
  nWritten,   \* writer->n_written
  offsets,    \* the file alternates offsets ...
  values,     \* ... and values
  size,       \* record->size
  rPc,        \* reader: "idle", "loop" or "failed"
  rIndex,     \* reader->index
  rSparse,    \* reader->sparse_offset
  hasSparse,  \* reader->has_sparse_offset
  nRead,      \* reader->n_read, also the number of values read from the file
  buffer,     \* the buffer of the current read call
  base,       \* items in the buffers the client has been given
  out         \* these items

wVars == <<wPc, wIndex, wEnd, wLocal, wSparse, nWritten>>
fileVars == <<offsets, values, size>>
rVars == <<rPc, rIndex, rSparse, hasSparse, nRead, buffer>>
client == <<base, out>>
vars == <<data, wVars, fileVars, rVars, client>>

Item == Value \cup {Zero}
Slot == 0 .. ReadLen - 1
Cleared == [s \in Slot |-> Zero]

\* The logical array continued with zeros: what a buffer that reaches past
\* the last item has to hold.
ItemAt(i) == IF i < Length THEN data[i] ELSE Zero

Init ==
  /\ data \in [0 .. Length - 1 -> Item]
  /\ wPc = "idle" /\ wIndex = 0 /\ wEnd = 0 /\ wLocal = 0 /\ wSparse = 0
  /\ nWritten = 0
  /\ offsets = <<>> /\ values = <<>> /\ size = 0
  /\ rPc = "idle" /\ rIndex = 0 /\ rSparse = 0 /\ hasSparse = FALSE
  /\ nRead = 0 /\ buffer = Cleared
  /\ base = 0 /\ out = [i \in 0 .. -1 |-> Zero]

-----------------------------------------------------------------------------
(* sl_record_writer_write, layout "sparse" *)

\* Mutant: the distance is counted from the item after the nonzero one.
OffsetAfterNonzeroIsZero(offset, item) == IF item # Zero THEN 0 ELSE offset + 1

\* The local offset after an item: 1 after a nonzero one, one more otherwise.
OffsetAfter(offset, item) == IF item # Zero THEN 1 ELSE offset + 1

\* The offset a write call starts from.
InitialOffset == wSparse

BeginWrite(n) ==
  /\ wPc = "idle"
  /\ wIndex + n <= Length
  /\ wEnd' = wIndex + n
  /\ wLocal' = InitialOffset
  /\ wPc' = "offset"
  /\ UNCHANGED <<data, wIndex, wSparse, nWritten, fileVars, rVars, client>>

WriteZero ==
  /\ wPc = "offset" /\ wIndex < wEnd
  /\ data[wIndex] = Zero
  /\ wLocal' = OffsetAfter(wLocal, Zero)
  /\ wIndex' = wIndex + 1
  /\ UNCHANGED <<data, wPc, wEnd, wSparse, nWritten, fileVars, rVars, client>>

WriteOffset ==
  /\ wPc = "offset" /\ wIndex < wEnd
  /\ data[wIndex] # Zero
  /\ offsets' = Append(offsets, wLocal)
  /\ wPc' = "value"
  /\ UNCHANGED <<data, wIndex, wEnd, wLocal, wSparse, nWritten, values, size,
                 rVars, client>>

WriteValue ==
  /\ wPc = "value"
  /\ values' = Append(values, data[wIndex])
  /\ nWritten' = nWritten + 1
  /\ wLocal' = OffsetAfter(wLocal, data[wIndex])
  /\ wIndex' = wIndex + 1
  /\ wPc' = "offset"
  /\ UNCHANGED <<data, wEnd, wSparse, offsets, size, rVars, client>>

EndWrite ==
  /\ wPc = "offset" /\ wIndex = wEnd
  /\ wSparse' = wLocal
  /\ wPc' = "idle"
  /\ UNCHANGED <<data, wIndex, wEnd, wLocal, nWritten, fileVars, rVars, client>>

\* fwrite of the offset or of the value fails: the call returns false and the
\* client gives up.
WriteError ==
  /\ wPc = "value" \/ (wPc = "offset" /\ wIndex < wEnd /\ data[wIndex] # Zero)
  /\ wPc' = "failed"
  /\ UNCHANGED <<data, wIndex, wEnd, wLocal, wSparse, nWritten, fileVars, rVars,
                 client>>

\* The dataset tool has written every item: it sets record->size, writes the
\* metadata and closes the data file.
Finish ==
  /\ wPc = "idle" /\ wIndex = Length
  /\ size' = nWritten
  /\ wPc' = "closed"
  /\ UNCHANGED <<data, wIndex, wEnd, wLocal, wSparse, nWritten, offsets, values,
                 rVars, client>>

-----------------------------------------------------------------------------
(* sl_record_reader_read_sparse_data *)

\* Mutant: the last pair is taken for the end.
IsDoneOneEarly == nRead + 1 >= size

\* Mutant: done only past the end, which no read reaches.
IsDoneOneLate == nRead > size

\* sl_record_reader_is_done: the file position is at or past size pairs.
IsDone == nRead >= size

BatchOf(i) == i \div ReadLen
SlotOf(i) == i % ReadLen

\* Mutant: skip a whole buffer wherever in it the reader stands.
SkipWholeBatch(i) == ReadLen

\* The items between an index and the start of the next buffer.
SkipFrom(i) == ReadLen - SlotOf(i)

\* What the call's buffer holds is handed to the client.
Deliver(buf) ==
  /\ base' = base + ReadLen
  /\ out' = [i \in 0 .. base + ReadLen - 1 |->
               IF i < base THEN out[i] ELSE buf[i - base]]

\* The client reads until is_done, or until it has the items the record's
\* dimensions promise.
MayRead == wPc = "closed" /\ rPc = "idle" /\ (base < Length \/ ~IsDone)

\* Mutant: the cleared buffer is returned when the item is in it.
ReadEmptyBatchTooSoon ==
  /\ MayRead
  /\ rSparse > 0
  /\ rIndex' = rIndex + ReadLen
  /\ rSparse' = rSparse - ReadLen
  /\ buffer' = Cleared
  /\ Deliver(Cleared)
  /\ UNCHANGED <<data, wVars, fileVars, rPc, hasSparse, nRead>>

\* Mutant: the buffer is handed out as the last call left it.
ReadEmptyBatchNotCleared ==
  /\ MayRead
  /\ rSparse > ReadLen
  /\ rIndex' = rIndex + ReadLen
  /\ rSparse' = rSparse - ReadLen
  /\ Deliver(buffer)
  /\ UNCHANGED <<data, wVars, fileVars, rPc, hasSparse, nRead, buffer>>

\* The pending offset leads past the whole buffer: return it cleared.
ReadEmptyBatch ==
  /\ MayRead
  /\ rSparse > ReadLen
  /\ rIndex' = rIndex + ReadLen
  /\ rSparse' = rSparse - ReadLen
  /\ buffer' = Cleared
  /\ Deliver(Cleared)
  /\ UNCHANGED <<data, wVars, fileVars, rPc, hasSparse, nRead>>

BeginRead ==
  /\ MayRead
  /\ rSparse <= ReadLen
  /\ buffer' = Cleared
  /\ rPc' = "loop"
  /\ UNCHANGED <<data, wVars, fileVars, rIndex, rSparse, hasSparse, nRead, client>>

ReadOffset ==
  /\ rPc = "loop" /\ ~IsDone /\ ~hasSparse
  /\ nRead < Len(offsets)
  /\ rSparse' = offsets[nRead + 1]
  /\ hasSparse' = TRUE
  /\ UNCHANGED <<data, wVars, fileVars, rPc, rIndex, nRead, buffer, client>>

\* The next nonzero item is in a later buffer: step to the start of the next
\* buffer, keep the rest of the offset and return.
CrossBatch ==
  /\ rPc = "loop" /\ ~IsDone /\ hasSparse
  /\ BatchOf(rIndex + rSparse) > BatchOf(rIndex)
  /\ rSparse' = rSparse - SkipFrom(rIndex)
  /\ rIndex' = rIndex + SkipFrom(rIndex)
  /\ rPc' = "idle"
  /\ Deliver(buffer)
  /\ UNCHANGED <<data, wVars, fileVars, hasSparse, nRead, buffer>>

ReadValue ==
  /\ rPc = "loop" /\ ~IsDone /\ hasSparse
  /\ BatchOf(rIndex + rSparse) <= BatchOf(rIndex)
  /\ nRead < Len(values)
  /\ buffer' = [buffer EXCEPT ![SlotOf(rIndex + rSparse)] = values[nRead + 1]]
  /\ nRead' = nRead + 1
  /\ rIndex' = rIndex + rSparse
  /\ rSparse' = 0
  /\ hasSparse' = FALSE
  /\ UNCHANGED <<data, wVars, fileVars, rPc, client>>

\* The loop ends because every pair has been read.
EndRead ==
  /\ rPc = "loop" /\ IsDone
  /\ rPc' = "idle"
  /\ Deliver(buffer)
  /\ UNCHANGED <<data, wVars, fileVars, rIndex, rSparse, hasSparse, nRead, buffer>>

\* fread of the offset or of the value fails: the call returns false and the
\* client does not use the buffer.
ReadError ==
  /\ rPc = "loop" /\ ~IsDone
  /\ rPc' = "failed"
  /\ UNCHANGED <<data, wVars, fileVars, rIndex, rSparse, hasSparse, nRead, buffer,
                 client>>

-----------------------------------------------------------------------------
Write ==
  \/ \E n \in WriteLens : BeginWrite(n)
  \/ WriteZero
  \/ WriteOffset
  \/ WriteValue
  \/ EndWrite
  \/ Finish

Read ==
  \/ ReadEmptyBatch
  \/ BeginRead
  \/ ReadOffset
  \/ CrossBatch
  \/ ReadValue
  \/ EndRead

Next == Write \/ Read \/ WriteError \/ ReadError

Spec == Init /\ [][Next]_vars

\* The program runs on: a call that has begun ends, and the client's loops
\* call again while they have something to write or to read.
FairSpec == Spec /\ WF_vars(Write) /\ WF_vars(Read)

-----------------------------------------------------------------------------
\* The types of the variables.
TypeOK ==
  /\ data \in [0 .. Length - 1 -> Item]
  /\ wPc \in {"idle", "offset", "value", "closed", "failed"}
  /\ wIndex \in 0 .. Length
  /\ wEnd \in 0 .. Length
  /\ wLocal \in Nat
  /\ wSparse \in Nat
  /\ nWritten \in Nat
  /\ offsets \in Seq(Nat)
  /\ values \in Seq(Value)
  /\ size \in Nat
  /\ rPc \in {"idle", "loop", "failed"}
  /\ rIndex \in Nat
  /\ rSparse \in Nat
  /\ hasSparse \in BOOLEAN
  /\ nRead \in Nat
  /\ buffer \in [Slot -> Item]
  /\ base \in Nat
  /\ out \in [0 .. base - 1 -> Item]

\* Whatever the lengths of the buffers on the two sides, an item the reader
\* hands out is the item the writer was given at that index.  It joins the
\* writer's offsets over several calls, the file and the reader's skipping.
RoundTrip == \A i \in 0 .. base - 1 : out[i] = ItemAt(i)

\* is_done may stop the client before it has Length items: every item it then
\* has not been given is zero, so ending a loop on is_done loses nothing
\* (svm.c reads "while not done").
NothingLost ==
  (wPc = "closed" /\ rPc = "idle" /\ IsDone) =>
     \A i \in 0 .. Length - 1 : i >= base => data[i] = Zero

\* Between two calls the reader's index is the number of items delivered, a
\* multiple of the buffer length, until the last pair has been read: the
\* client, who counts buffers (svm.c class_idx), and the reader agree on the
\* position.
ClientAgrees == (rPc = "idle" /\ nRead < size) => rIndex = base

\* Fairness rules out a program that stops; unless a read or write fails, the
\* client in the end has all the items that are not zero.
Completes ==
  <>(\/ wPc = "failed" \/ rPc = "failed"
     \/ (wPc = "closed" /\ rPc = "idle" /\ IsDone /\ base >= Length))

\* What a reader promises its client, whatever is on disk: RecordStream.
Stream == INSTANCE RecordStream

\* Every step of writer and reader is a step of the stream or leaves it alone.
ImplementsStream == Stream!Spec
=============================================================================
