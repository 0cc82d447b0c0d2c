--------------------------------- MODULE Rcv1 ---------------------------------
(***************************************************************************)
(* The RCV1 data set on its way through the disk: "dataset rcv1" of        *)
(* src/tools/dataset.c converts text files to four records, samples and    *)
(* classes of a training and a test set; "svm rcv1" of src/tools/svm.c     *)
(* reads them in batches.  The conversion may fail or be killed anywhere,  *)
(* and be run again over what it has left; svm runs on whatever is there.  *)
(*                                                                         *)
(* A data file of samples is the sequence of its pairs, of which a row of  *)
(* a document has as many as it has nonzero features; SparseRecord is      *)
(* about their encoding.  A class is only copied, so a data file of        *)
(* classes is the sequence of the documents whose classes it holds.        *)
(***************************************************************************)
EXTENDS Integers, Sequences, FiniteSets

CONSTANTS
  Doc,       \* the document IDs
  Input,     \* the text files
  NoMeta,    \* a metadata file that is missing or cut off
  NoClass,   \* the class given to a row that has none
  ReadLen,   \* SL_SVM_RCV1_BUFFER_LEN
  MaxRuns    \* bounds the number of conversions

Set == {"train", "test"}

ASSUME Rcv1Assumption ==
  /\ Doc \subseteq Nat /\ IsFiniteSet(Doc)
  /\ Input \subseteq [lines : [Set -> Seq(Doc)], pairs : [Doc -> Nat]]
  /\ NoMeta \notin Nat /\ NoClass \notin Doc
  /\ ReadLen \in Nat \ {0} /\ MaxRuns \in Nat

VARIABLES
  input,      \* the text files: the documents of the lines of each set, and
              \* the number of nonzero features of each document
  data,       \* the data files, with what is still in stdio buffers
  meta,       \* size in the metadata files
  opened,     \* the data files a writer has open
  pc,         \* the step of the conversion, 0 when it does not run
  next,       \* the next line, or the next document
  rows,       \* dim_size[0] of the samples records
  inTrain,    \* the documents with metadata[id].in_trainset
  runs,       \* how many conversions have begun
  result,     \* what the last conversion returned
  lost,       \* it has lost data on closing a file, unnoticed
  svm,        \* what svm does next
  trainSet,   \* the set it trains on
  labels,     \* train_classes, test_classes
  batch,      \* batch_idx
  nRead,      \* pairs read of the open samples record
  used        \* the batches of each set that svm trained on or tested

disk == <<data, meta>>
conversion == <<opened, pc, next, rows, inTrain, runs, result, lost>>
reading == <<svm, trainSet, labels, batch, nRead, used>>
vars == <<input, disk, conversion, reading>>

File == Set \X {"samples", "classes"}
Samples(s) == <<s, "samples">>
Classes(s) == <<s, "classes">>

Init ==
  /\ input \in Input
  /\ data = [f \in File |-> <<>>] /\ meta = [f \in File |-> NoMeta]
  /\ opened = {} /\ pc = 0 /\ next = 1 /\ inTrain = {}
  /\ rows = [s \in Set |-> 0]
  /\ runs = 0 /\ result = "none" /\ lost = FALSE
  /\ svm = "idle" /\ trainSet = "train" /\ batch = 0 /\ nRead = 0
  /\ labels = [s \in Set |-> <<>>] /\ used = [s \in Set |-> <<>>]

-----------------------------------------------------------------------------
(* The conversion *)

Step(what, file) == [op |-> what, file |-> file]

\* The order of the steps.  Metadata is written before the data is closed.
Script ==
  << Step("open", Samples("train")), Step("open", Samples("test")), Step("lines", <<>>),
     Step("meta", Samples("train")), Step("meta", Samples("test")),
     Step("close", Samples("train")), Step("close", Samples("test")),
     Step("open", Classes("train")), Step("open", Classes("test")), Step("docs", <<>>),
     Step("meta", Classes("train")), Step("meta", Classes("test")),
     Step("close", Classes("train")), Step("close", Classes("test")) >>

Running == pc \in 1 .. Len(Script)
At(what) == Running /\ Script[pc].op = what
Now == Script[pc].file
Continue == pc' = pc + 1

\* Nothing but the disk outlives the process.
Return == pc' = 0 /\ next' = 1 /\ inTrain' = {} /\ rows' = [s \in Set |-> 0]

Start ==
  /\ pc = 0 /\ svm = "idle"
  /\ runs < MaxRuns
  /\ runs' = runs + 1
  /\ pc' = 1
  /\ result' = "none" /\ lost' = FALSE
  /\ UNCHANGED <<input, disk, opened, next, inTrain, rows, reading>>

\* Mutant: mode "ab".
OpenedToAppend(f) == data[f]

\* Mode "wb" of sl_record_writer_open.
Opened(f) == <<>>

OpenData ==
  /\ At("open")
  /\ data' = [data EXCEPT ![Now] = Opened(Now)]
  /\ opened' = opened \cup {Now}
  /\ Continue /\ next' = 1
  /\ UNCHANGED <<input, meta, rows, inTrain, runs, result, lost, reading>>

\* A line of a vector file: a row of its document for the set the file is of.
\* The files of the test set come first.
Lines == input.lines["test"] \o input.lines["train"]
SetAt(n) == IF n <= Len(input.lines["test"]) THEN "test" ELSE "train"

WriteSample ==
  /\ At("lines") /\ next <= Len(Lines)
  /\ LET d   == Lines[next]
         s   == SetAt(next)
         row == [i \in 1 .. input.pairs[d] |-> [row |-> rows[s], doc |-> d]]
     IN  /\ inTrain' = IF s = "train" THEN inTrain \cup {d} ELSE inTrain \ {d}
         /\ data' = [data EXCEPT ![Samples(s)] = @ \o row]
         /\ rows' = [rows EXCEPT ![s] = @ + 1]
  /\ next' = next + 1
  /\ UNCHANGED <<input, meta, opened, pc, runs, result, lost, reading>>

\* The classes follow in the order of the document IDs, each in the set that the
\* last line of the document was in.
SetOf(d) == IF d \in inTrain THEN "train" ELSE "test"
DocAt(n) == CHOOSE d \in Doc : Cardinality({e \in Doc : e < d}) = n - 1

WriteClass ==
  /\ At("docs") /\ next <= Cardinality(Doc)
  /\ data' = [data EXCEPT ![Classes(SetOf(DocAt(next)))] = Append(@, DocAt(next))]
  /\ next' = next + 1
  /\ UNCHANGED <<input, meta, opened, pc, rows, inTrain, runs, result, lost, reading>>

EndLoop ==
  /\ \/ At("lines") /\ next > Len(Lines)
     \/ At("docs") /\ next > Cardinality(Doc)
  /\ Continue
  /\ UNCHANGED <<input, disk, opened, next, rows, inTrain, runs, result, lost, reading>>

\* Mutant: the number of rows.
SizeRows(f) == IF f[2] = "samples" THEN rows[f[1]] ELSE Len(data[f])

\* n_written: pairs, or classes.
Size(f) == Len(data[f])

\* sl_record_validate_metadata: a dense record has a size.
Valid(f) == f[2] = "classes" => Size(f) > 0

\* Closing the file may fail, which nobody looks at.
WriteMeta ==
  /\ At("meta") /\ Valid(Now)
  /\ \/ meta' = [meta EXCEPT ![Now] = Size(Now)] /\ UNCHANGED lost
     \/ meta' = [meta EXCEPT ![Now] = NoMeta] /\ lost' = TRUE
  /\ Continue
  /\ UNCHANGED <<input, data, opened, next, rows, inTrain, runs, result, reading>>

CloseData ==
  /\ At("close")
  /\ opened' = opened \ {Now}
  /\ \E n \in 0 .. Len(data[Now]) :
       /\ data' = [data EXCEPT ![Now] = SubSeq(@, 1, n)]
       /\ lost' = (lost \/ n < Len(data[Now]))
  /\ Continue
  /\ UNCHANGED <<input, meta, next, rows, inTrain, runs, result, reading>>

Finish ==
  /\ pc = Len(Script) + 1
  /\ result' = "ok"
  /\ Return
  /\ UNCHANGED <<input, disk, opened, runs, lost, reading>>

\* An operation fails, a line is malformed, or the process is killed: of what
\* has been written to the open files some beginning is on the disk, and a
\* metadata file being written may be empty.
Stop ==
  /\ Running
  /\ \E n \in [opened -> UNION {0 .. Len(data[f]) : f \in opened}] :
       /\ \A f \in opened : n[f] <= Len(data[f])
       /\ data' = [f \in File |-> IF f \in opened THEN SubSeq(data[f], 1, n[f]) ELSE data[f]]
  /\ \/ UNCHANGED meta
     \/ At("meta") /\ meta' = [meta EXCEPT ![Now] = NoMeta]
  /\ opened' = {}
  /\ result' = "failed"
  /\ Return
  /\ UNCHANGED <<input, runs, lost, reading>>

-----------------------------------------------------------------------------
(* svm, on whatever is on the disk *)

StartSvm ==
  /\ pc = 0 /\ runs > 0 /\ svm = "idle"
  /\ trainSet' \in Set
  /\ svm' = "meta"
  /\ UNCHANGED <<input, disk, conversion, labels, batch, nRead, used>>

ReadMeta ==
  /\ svm = "meta"
  /\ svm' = IF \E f \in File : meta[f] = NoMeta THEN "failed" ELSE "classes"
  /\ UNCHANGED <<input, disk, conversion, trainSet, labels, batch, nRead, used>>

\* sl_record_read_all fills the buffer of metadata's size or fails.
ReadClasses ==
  /\ svm = "classes"
  /\ IF \E s \in Set : Len(data[Classes(s)]) < meta[Classes(s)]
       THEN svm' = "failed" /\ UNCHANGED labels
       ELSE /\ svm' = "minmax"
            /\ labels' = [s \in Set |-> SubSeq(data[Classes(s)], 1, meta[Classes(s)])]
  /\ UNCHANGED <<input, disk, conversion, trainSet, batch, nRead, used>>

\* The passes over the samples: the training set twice, then the test set.
Passes == {"minmax", "fit", "test"}
Other(s) == IF s = "train" THEN "test" ELSE "train"
PassSet == IF svm = "test" THEN Other(trainSet) ELSE trainSet
AfterPass == CASE svm = "minmax" -> "fit" [] svm = "fit" -> "test" [] svm = "test" -> "ok"

SizeRead == meta[Samples(PassSet)]
Pairs == data[Samples(PassSet)]

\* The pairs of the current batch, as far as there are any.
InBatch ==
  {p \in nRead + 1 .. SizeRead : p <= Len(Pairs) /\ Pairs[p].row < (batch + 1) * ReadLen}
ReadAfter == nRead + Cardinality(InBatch)

\* Mutant: the classes start again in every batch.
ClassIdxInBatch(i) == i

ClassIdx(i) == ReadLen * batch + i

Label(i) ==
  LET idx == ClassIdx(i)
  IN  IF idx < Len(labels[PassSet]) THEN labels[PassSet][idx + 1] ELSE NoClass

\* The rows of the batch in which there is something, with their classes.
BatchRows ==
  LET at(i) == {p \in InBatch : Pairs[p].row % ReadLen = i}
      row(i) == [ row   |-> ReadLen * batch + i,
                  docs  |-> {Pairs[p].doc : p \in at(i)},
                  pairs |-> Cardinality(at(i)),
                  label |-> Label(i) ]
  IN  {row(i) : i \in {j \in 0 .. ReadLen - 1 : at(j) # {}}}

\* sl_record_reader_read reads on until a pair belongs to a later batch or all
\* pairs of the metadata are read, and fails when the file ends before that.
ReadBatch ==
  /\ svm \in Passes /\ nRead < SizeRead
  /\ IF ReadAfter < SizeRead /\ ReadAfter = Len(Pairs)
       THEN svm' = "failed" /\ UNCHANGED <<batch, nRead, used>>
       ELSE /\ nRead' = ReadAfter
            /\ batch' = batch + 1
            /\ used' = IF svm = "minmax" THEN used ELSE [used EXCEPT ![PassSet] = Append(@, BatchRows)]
            /\ UNCHANGED svm
  /\ UNCHANGED <<input, disk, conversion, trainSet, labels>>

EndPass ==
  /\ svm \in Passes /\ nRead >= SizeRead
  /\ svm' = AfterPass
  /\ batch' = 0 /\ nRead' = 0
  /\ UNCHANGED <<input, disk, conversion, trainSet, labels, used>>

Next ==
  \/ Start \/ OpenData \/ WriteSample \/ WriteClass \/ EndLoop
  \/ WriteMeta \/ CloseData \/ Finish \/ Stop
  \/ StartSvm \/ ReadMeta \/ ReadClasses \/ ReadBatch \/ EndPass

Spec == Init /\ [][Next]_vars

-----------------------------------------------------------------------------
(* Properties *)

\* The rows of a set of which svm should see something: the lines of its files,
\* but for the empty ones.
Rows(s) == {r \in 0 .. Len(input.lines[s]) - 1 : input.pairs[input.lines[s][r + 1]] > 0}
BatchOf(r) == r \div ReadLen + 1
Expected(s, k) ==
  {[row   |-> r,
    docs  |-> {input.lines[s][r + 1]},
    pairs |-> input.pairs[input.lines[s][r + 1]]] : r \in {q \in Rows(s) : BatchOf(q) = k}}

\* An experiment that ends well has trained on one set and tested the other as
\* the text files have them: every document that is not empty once, at its row,
\* in its turn and with all of its features.  This is so whatever was killed or
\* lost before it, since svm reads no less than the size in the metadata and a
\* conversion writes the same metadata every time.
SvmWhole ==
  svm = "ok" =>
    \A s \in Set :
      /\ \A k \in DOMAIN used[s] :
           {[row |-> u.row, docs |-> u.docs, pairs |-> u.pairs] : u \in used[s][k]}
             = Expected(s, k)
      /\ \A r \in Rows(s) : BatchOf(r) \in DOMAIN used[s]

\* The vector files list every document once, by increasing ID in each set.
InOrder ==
  /\ \A d \in Doc : \E s \in Set : \E i \in DOMAIN input.lines[s] : input.lines[s][i] = d
  /\ \A i \in DOMAIN input.lines["train"] : \A j \in DOMAIN input.lines["test"] :
       input.lines["train"][i] # input.lines["test"][j]
  /\ \A s \in Set : \A i, j \in DOMAIN input.lines[s] :
       i < j => input.lines[s][i] < input.lines[s][j]

\* Every row gets the class of its own document.  Rows are written in the order
\* of the vector files and classes in the order of the IDs, so this takes files
\* that are in that order, which the conversion does not look at.
LabelsAgree ==
  InOrder => \A s \in Set : \A k \in DOMAIN used[s] : \A u \in used[s][k] : u.docs = {u.label}

\* What a conversion has returned success for can be read, unless the disk
\* failed it while it closed a file, which sl_file_close does not report.
Readable == svm = "failed" => result # "ok" \/ lost
===============================================================================
