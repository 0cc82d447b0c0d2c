# Formal models of c-stuff

`c-stuff` is a C11 library, `src/stufflib`, and a set of command line programs
built on it, `src/tools`.  This directory holds TLA+ models of the parts where
what happens depends on the order of things: state kept over many calls,
operations that fail half way, a signal that arrives at any moment, a table
that is rebuilt while it is used, a parser that puts characters back.  TLC
checks the models on small instances; TLAPS proves some of the properties for
every value of the constants.

## 1. The system

Nothing in the repository starts a thread.  Concurrency is found in one place,
the signal handler and the peers of the server.  Everything else is a
sequential program on files or buffers, and what is hard about it are long
sequences of calls and the failure of one call among them.  Results are `bool`
almost everywhere; a failing function pushes a message on a global error stack
and its callers unwind with `goto`.

| Component | State it keeps | Operations | Used by |
|---|---|---|---|
| record (`stufflib/record`) | writer: file, `n_written`, `sparse_offset`; reader: file, `n_read`, `index`, `sparse_offset`, `has_sparse_offset`; on disk: metadata (layout, type, size, dimensions) and data | `sl_record_write_metadata/read_metadata`, `sl_record_writer_open/write/close`, `sl_record_reader_open/read/is_done/close`, `sl_record_write_all/read_all` | `tools/dataset.c` writes, `tools/svm.c` reads |
| hashmap (`stufflib/hashmap`) | slot table, capacity, size; iterator index | create, get, contains, set, insert, resize, iterate, destroy | `tools/txt.c` linefreq |
| json (`stufflib/json`) | parser: position, state, depth, stack of container kinds, array positions, last event and its spans; search: steps followed | `sl_json_parse_advance`, `count_nodes`, `is_valid`, `parse_path`, `find_path`, `find`, `get_str`, `get_int` | `tools/json.c` |
| server (`tools/server.c`) | run flag (shared with the signal handler), listening socket, connection, message buffer, `ok` | set up, accept, recv, send, close, SIGTERM handler | - |
| unionfind (`stufflib/unionfind`) | parent of each element | init, find_root, set_root, union | img |
| img (`stufflib/img`) | the segments, their sizes and sums of colours | segment | `tools/png.c` |
| png, deflate, huffman (`stufflib/png`, `stufflib/huffman`) | chunk and bit positions, code trees, window | read chunks, inflate, unfilter, write | img, `tools/png.c` |
| error and context (`stufflib/error`, `stufflib/context`) | stack of at most 16 messages | push, pop, unwind | everything |
| tokenizer, unicode, string | position in a buffer | next token, decode UTF-8, concat, extend, slice, print | `tools/txt.c`, `tools/sort.c` |
| filesystem, io | one open file at a time | open, read a chunk, read a whole file, as text or not | tools |
| span, memory | owned or borrowed bytes | copy, compare, slice | hashmap, json, tokenizer, png |
| sort | none | insertion, merge and quick sort | `tools/sort.c` |
| math, hash, random, misc | generator state | pure functions | hashmap, record, ml |
| linalg, tensor, matrix, vector, ml | numbers | floating-point linear algebra, SVM | `tools/svm.c` |
| args, logging, macros, iterator, testing | none | lookups and output | tools |

How they interact, where it matters:

* `dataset rcv1` opens two writers, feeds each row of the text files to both
  and closes them.  `svm rcv1` opens two readers on the result and loops on
  `is_done`; it counts the buffers itself and so assumes that its count and the
  reader's agree.
* a second conversion overwrites the files of a first one in place, file by file,
  and may stop in between; `svm rcv1` reads whatever is there.
* the segmentation of `img.c` keeps sizes and sums of colours at the index of a
  segment's root, and so depends on which root a union keeps.
* `dataset cifar_to_png` writes an image for each sample; `png segment`, `info` and
  `dump_raw` read one, chunk by chunk.  The data of its IDAT chunks, joined, goes through
  `sl_inflate`, and the bytes that gives through the filters.
* `txt` and `sort` read a file chunk by chunk, decode it as a whole, and drive a tokenizer
  over it; `sort` hands the lines to `sl_sort_quicksort`.  What fails in the library is
  pushed on the one error stack, which both empty at the end.
* `linefreq` asks the map whether it contains a line, inserts it if not, then
  asks for it again to add one.  Between these calls a resize may replace the
  table.
* the server's `main` and its handler share `sl_server_running`; the handler
  also makes a blocking call return.
* the JSON functions all drive the one parser; the search keeps a counter
  beside the parser's depth and must keep the two in step.

What makes each component correct:

* record: what is read is what was written, at the same index, whatever the
  buffer lengths on either side; a client that stops at `is_done` loses nothing.
* server: a reply has only bytes of its client's own message; a stop is obeyed;
  exit code 0 means that no call has failed, no socket is open and every accepted client
  that has sent something was answered.
* hashmap: between operations a search finds every key with its value and no
  other; a search always ends; iteration lists every key once.
* json: the parser accepts the JSON grammar, no more, no less, and counts its
  nodes; a search gives the first node of a path and misses none, except for what repeated keys
  hide from it (see below).
* unionfind: the roots define the partition that the unions generate.
* img: the segmentation stops, segments are connected, and no two adjacent ones
  that it compares are closer than the threshold.
* dataset and svm: an experiment sees the data set as the text files have it, or fails.
* deflate, huffman, png: the bit stream decodes to what its definition says;
  a cut-off file is an error and not a read beyond its end.
  Every sound file of a supported kind is read.
* txt: what is printed with no error reported is what was asked for, wherever the
  reads cut the text; a command fails on what is not UTF-8.
* sort: a sorted permutation, for every order of equal elements; an end.

`PROJECT.json` lists all components with their files and, under `hazards`, each
place where one of these could go wrong in a way a test would hardly reach.

## 2. The modules

| Module | Models | Kind |
|---|---|---|
| `RecordStream` | what a reader promises its client | abstract specification |
| `SparseRecord` | writer, data file and reader of layout sparse, with their clients | specification |
| `SparseRecordProofs` | | proofs |
| `Rcv1` | the rcv1 commands of `dataset` and `svm` with the files between them | specification |
| `Rcv1Proofs` | | proofs |
| `Server` | `main` and the handler of `tools/server.c`, and the clients | specification |
| `ServerProofs` | | proofs |
| `HashMap` | the map and `linefreq` | specification |
| `HashMapProofs` | | proofs |
| `JsonGrammar` | the grammar of json.org as a nondeterministic pushdown recogniser that counts nodes | reference definition |
| `JsonParser` | `sl_json_parse_advance` | actions, composed by the next two |
| `JsonCount` | `sl_json_count_nodes`, `sl_json_is_valid`; `JsonParser` run beside `JsonGrammar` | specification |
| `JsonCountProofs` | | proofs |
| `JsonDocument` | JSON documents as text together with the path and the span of every node | reference definition |
| `JsonFind` | `sl_json_find_path`, driving `JsonParser` over a document | specification |
| `Partition` | what a union-find promises: a naming of classes | abstract specification |
| `UnionFind` | `unionfind.c`, one action per turn of a loop | specification |
| `UnionFindProofs` | | proofs |
| `Segmentation` | `sl_img_segment_rgb`, with the unions of `Partition` | specification |
| `SegmentationProofs` | | proofs |
| `Huffman` | `sl_huffman_init`, `contains`, `get` | operators |
| `Inflate` | `sl_inflate`, one action per turn of a loop | actions, composed by `MCInflate` and `Png` |
| `DeflateFormat`, `DeflateStreams` | an encoder written from RFC 1951 and 1950: blocks, codes, streams, and damage to them | reference definitions |
| `Png` | the chunks, header, packing and filters of `png.c`, with the programs that write and read images | specification |
| `Utf8` | the decoder's table, length, codepoints | operators |
| `Tokenizer` | the iterator over tokens, `sl_span_find` | operators |
| `Sort` | `sl_sort_quicksort`, turn by turn, with insertion sort for short ranges | actions, composed by `Text` |
| `MergeSort` | `sl_sort_mergesort` | operators |
| `Text` | `txt concat`, `count`, `slicelines`, `replace`, `sort`, from the opening of a file to the report of the errors | specification |
| `TextInvariant` | | the invariants of `Text` and what they are said with |
| `TextProofs` | | proofs |
| `MC*` | constants of the runs | model checking |

Every property of a passing run has a mutant in `PROJECT.json`: a plausible bug
in a definition of the model that makes the property fail.  The mutated
definitions stand just before the ones they replace, marked `Mutant:`.

### SparseRecord

`writer.c` writes one pair for each nonzero item: the distance from the last
nonzero item and the value.  `wIndex` counts the items the writer's loops have
passed, `wLocal` is the local variable `offset`, `wSparse` the field
`sparse_offset`; the file is the sequences `offsets` and
`values`, which the two `fwrite`s extend one after the other, so that a failure
between them leaves half a pair.  `rIndex`, `rSparse`, `hasSparse` are the
reader's fields; `nRead` stands for its file position, from which `is_done` is
computed.  One action is one turn of a loop up to a file operation.

* writer: `BeginWrite` (a call with a buffer of any length of `WriteLens`),
  `WriteZero`, `WriteOffset`, `WriteValue`, `EndWrite`, `Finish` (metadata and
  close); `WriteError` at each `fwrite`.
* reader: `ReadEmptyBatch` (the early return for a buffer without an item),
  `BeginRead`, `ReadOffset`, `CrossBatch`, `ReadValue`, `EndRead`; `ReadError`
  at each `fread`.
* client: `base` counts the items it has been given and `out` holds them.

`RecordStream` is the promise: buffers that continue each other and hold the
array, then zeros.  `Stream == INSTANCE RecordStream` with the same `data`,
`base`, `out` is the refinement.

### Rcv1

One level up from `SparseRecord`: whole files.  `Script` is the order in which
`dataset rcv1` opens, fills, describes and closes its four records, metadata
before the close of the data.  Every step of it may be the last (`Stop`): an
operation fails, a line is malformed, the process is killed.  What was written
to an open file is then on the disk up to any point, since it goes through a
stdio buffer.  `CloseData` and `WriteMeta` may lose data without the program
noticing, because `sl_file_close` ignores what `fclose` returns; `lost` remembers
it.  A conversion may be repeated over what an earlier one has left.

`input` has the documents of the lines of each set's vector file, which may be in any
order, empty, or share documents, and how many nonzero features each document has.  A data
file of samples is a sequence of pairs, each with the row and document it
comes from; how a pair encodes its place is the subject of `SparseRecord`.
`svm rcv1`, with either set for training, is `ReadMeta`, `ReadClasses`, and then
`ReadBatch` and `EndPass` for the three passes over the samples.  A batch is what
`sl_record_reader_read` delivers in one call.  `used` is the history of each set, a
sequence of batches; each is the set of its rows, with the documents whose pairs they have,
how many, and the class that `class_idx` gives them.

The documents and lines of the text files do not change between conversions: with
another data set in the same directory, old metadata beside new data could go
unnoticed, and nothing in the code is meant to prevent that.

### UnionFind and Segmentation

`UnionFind` has a variable for the array of parents and one for each local
variable of the functions: `Climb` is a turn of the loop of `find_root`, `Rewrite`
a turn of the loop of `set_root` that reads the next element and overwrites the
parent.  Every call of the three functions that begins is followed turn by turn to
its return.  `Partition` knows only `class`, the name of each element's class, and
`Merge`, which renames the class of the right element to that of the left one.  The
refinement maps `class` to `Class`: the root an element's line of parents ends in, except
that while `set_root` walks, what it has not reached yet counts as moved.  So the union
takes place when `set_root` begins, and the rest of the walk is invisible.

`Segmentation` uses `Merge` in place of the calls, which `UnionFind` justifies.
`Visit` is one turn of the two inner loops, with the distances to the left and the
upper neighbour compared on the state before it, and the join of one, the other or
none.  `NextPass` is the loop around them, `Paint` the one that writes the colours, into a copy of
the image that may have failed (`PaintCrashes`).
Averages are fractions, compared by cross-multiplication, so they are exact where
the code has doubles.  Colours have one channel.  The loops start at row 2 and
column 2 of an image padded by one, so the pixels of the first row and column are
visited only as neighbours, and the pixel in the corner never.

### Huffman, Inflate and Png

`Inflate` has the bit position, the unpacked bytes, and what the functions for the three
kinds of blocks keep between two turns of their loops: the counts and lengths of a dynamic
block, its trees, the copy under way.  `Huffman` builds a tree as the code does: the first
code of each length, then the next one for each symbol.  `dstSize` is the room there
is: for literals and copies it is asserted (`AbortWithoutRoom`), for stored blocks nothing looks
at it (`OverflowStored`).  The streams come from
`DeflateStreams`, which was not written from the code but from the RFCs: it chooses tokens,
codes and blocks, and writes bits.  A damaged stream is one of these with a field changed, or given too little room.
Where the code reads or writes outside of its arrays, `pc` is "undefined".  The properties name
the streams on which it does, and those that end differently in the code than in the format
(see below).

`Png` has files as sequences of fields: the signature, and for each chunk the length, the
type, the items of its data and a CRC, which is the pair of what it is computed from.
`WriteChunk` is the writing of one chunk, which may fail (`WriteChunkFails`); what is on the
disk after `Close` may be shorter than what was written, since the result of `fclose` is not
looked at.  `ReadSignature`, `ReadChunk` and `ReadChunkFails` are the loop over chunks:
one bad chunk and there are none.  `BeginImage` joins the IDAT data and starts the actions
of `Inflate`, `AfterInflate` compares sizes, `Unpack` and one `UnapplyFilter` for each row
follow.  Of `segment` the segmentation itself is one step here, which paints all in one
colour or nothing; `Segmentation` has its details.  `RejectLabels` and `RejectBatch` are how a
conversion ends on bad input, the one before the first sample, the other before any of the
batches, when the samples of earlier ones are written.  Both programs are in the module: an
image may be written by the one and read by the other, or be of other making, with every
pair of filters, several data chunks, and flaws.  The Adler checksum is written and, as in
the code, never compared.

### Text and sort

`job` is a command with its arguments and the contents of its files, `fault` the kinds of
operations that may fail during the run, at any number of places: opening, reading,
memory, writing.  `Open`, `ReadChunk`, `ReadError` and `Decode` are
`sl_fs_read_file_utf8`, for each file.  `BeginTokens` begins the loop over tokens, of which
`CountToken`, `SliceLine`, `ReplaceToken` with `PrintReplacement`, and `ReadLine` are the
turns for the four commands that have one.  `Quicksort` is a turn of the sort: its recursion is
`ranges`, a stack of what is yet to be sorted, and `ScanInward` a turn of the loop that
partitions.  `Pushes` is the error stack, whose depth counts; when it is full the program
aborts.  `Unwind` reports what is on it.

The insertion and the merge sort, which no program calls on its own, are jobs as well:
calls on an array.  `MergeSorted` keeps both arrays, because the recursion swaps their
roles and depends on both being equal at the beginning.

Destroying variables that a `goto` has jumped over (`replace`, lines 185 and 190) either does
nothing or crashes.

### Server

`pc` names the place in `main`; each system call is an action with a failing
twin.  `accept` and `recv` block in places of their own (`accepting`,
`receiving`), where the handler makes them return with `EINTR`: an interrupted
`accept` ends the iteration, an interrupted `recv` is an error.  `Sigterm` may
happen before any step once the handler is installed; before that the signal
ends the process (`SigtermKills`), as `SIGPIPE` does when the peer of a `send`
is gone (`SendPipe`).  `msgBuffer` keeps its bytes from one connection to the
next, `recv` overwrites a prefix of it, and the reply is the string up to the
first NUL.  `stop`, `accepted` and `failed` are history variables: where the
first handled signal arrived, the connections accepted since, and whether a
call has failed.

### HashMap

`slots`, `capacity`, `size` are the map.  A line is a key; its CRC is any value
of `Hash`, chosen when the key first appears, so the runs meet every collision.
`FindSlot` is the probe loop with its quadratic steps.  A resize is `Resize`
followed by one `Rehash` for each old slot, the empty ones too, as in the code,
where every write may find no slot or no memory (`OutOfMemory`).  The actions
`ReadLine`, `Insert`, `Count`, `EndOfText`, `PrintSlot` are linefreq with the
library calls it makes.  `seen` is the history it is judged by.  `NoTable` is an allocation
of a table that fails, which nothing looks at before the null pointer is used; `NoText` a file
without text, `PrintFails` the end of the command when a line cannot be printed.

### JSON

`JsonParser` has one action per case of the parser's switch.  A text is a
sequence of one-character symbols, in which a literal (`true`) and an escape
are one symbol each, since the code consumes them whole; the parser never sees
more of the text than it has asked for.  The text is therefore not chosen in
advance: `Choose` adds a character when the parser wants one, `Close` ends the
text.  This is sound because the code reads one byte at a time from the front,
and it makes all texts with a common beginning share their states.

`JsonGrammar` is independent of the parser: it expands the grammar rules
nondeterministically and keeps all derivations that fit the characters so far.
Where no derivation is left, no JSON text begins that way.

`JsonFind` reveals a document character by character and may cut it off at any
place (`Cut`).  `Navigate`, `SeekValue` and `SkipContainer` are the three
loops of `sl_json_find_path`; `Followed` is the counter `step_idx` after an event.
`Matches` of `JsonDocument` says which nodes a path leads to without any
parsing, because documents are built together with their nodes.

## 3. The runs

| Run | Question | Bounds | States |
|---|---|---|---|
| `sparse_record` | Is what is read what was written, for every array and buffer length, with failures anywhere? | 7 items of two nonzero values and zero, writes of 1, 2 or 3, reads of 2 | 286,695 |
| `server` | Are replies the client's own bytes, stops obeyed, exit codes right? | two clients, two signals, a buffer of 3 and messages of 0, 1, 2, 3 (a NUL inside) and 4 bytes | 107,858 |
| `server_lost_signal` | Is every handled SIGTERM obeyed? No. | one client, one signal | |
| `hashmap` | Is every line found with its count, over every rehash? | 5 lines, 8 hashes, tables of 2, 4, 8 and 16 slots | 156,873 |
| `json_count` | Does the parser accept the grammar and count nodes? | containers and keys up to 11 characters; numbers up to 6; strings, escapes and spaces up to 6; a nesting limit of 3 | 147,387 |
| `json_find` | Does a search return the first node of a path, and miss none but hidden ones? | containers of up to two entries, objects of two in objects of two, repeated keys at every level, up to five deep, paths up to four steps, a nesting limit of 5 | 1,694,644 |
| `unionfind` | Do the calls keep a partition, and return? | 4 elements, any sequence of calls | 58,853 |
| `segmentation` | Do sizes and sums stay right, are segments connected, does it end? | images of 3 by 3, three colours, threshold 5/2 | 391,917 |
| `rcv1` | Does an experiment see the data set whole, whatever happened before it? | 2 conversions, 4 documents in 14 pairs of text files, batches of 2 | 304,085 |
| `inflate` | Is what is unpacked what was packed, and does the call end as the stream deserves? | one block of up to 3 tokens, two blocks with up to 3 in the first, some of three, each kind of damage, and a byte too little room | 44,303 |
| `png` | Does a command that gets an image get the one written, and does every sound file give one? | 2 samples of 3 kinds, images of 2 by 2 and 1 by 3, deflate blocks of 8 bytes; files of other programs with all pairs of filters | 135,342 |
| `text` | Is what is printed what was asked for, whatever fails, and does sorting end? | files of up to 5 characters, patterns up to 3, 5 lines to sort, arrays of 6; reads of 3 bytes, insertion sort up to 2 elements, a stack of 5 errors | 201,707 |

Why the bounds are enough:

* record: with 7 items, runs of zeros longer than two read buffers, offsets
  that end exactly on an edge, items first and last in a buffer, and a last
  buffer that is only partly used all occur; writes of unequal lengths carry a
  pending offset over several calls.  The proofs cover all other values.
* server: the messages are one for each way `recv` can relate to the buffer.
  Two clients are needed for one to leave bytes for the other, two signals for
  one to be forgotten and the next obeyed.
* hashmap: the first resize that moves several keys, and a resize after
  another, need five keys; hashes below eight make every pattern of collisions
  in tables of up to eight.  In a table of eight the probes visit five slots, so
  the run would meet a search without end if the load factor allowed it.
* unionfind: with four elements there are trees of depth three, and lines whose
  elements have others hanging from them; a union of two elements of such a tree
  meets every case.  The proofs cover every number of elements.
* segmentation: three by three pixels have four visited ones, each with both
  neighbours; two passes and a third that changes nothing all occur, and a join
  in one row changes the average a later row compares with.  Of the colours
  0, 2 and 3, some pairs are near, some are not, and some become so by averaging.
* rcv1: three documents in one set make two batches and leave the second partly
  empty; rows without features stand first, last and in between; a set without documents
  makes the conversion fail after its samples; lines against the order of the IDs and a
  document in both sets give rows the classes of others.  The second conversion runs over
  every result of the first.  The proofs cover all other files and batches.
* JSON: eleven characters hold three nested containers with keys and two values
  each side of a comma.  Six characters hold every transition of the number
  automaton.  The nesting limit, 512 in the code, is a constant that the texts
  exceed.  Documents of `json_find` have repeated keys, at the top and below, whose
  values repeat keys again, a key that begins with another, scalars in the middle of a path,
  and siblings before and after each match; paths of four steps hide a value by its second
  key and by its third.  The proofs about `JsonCount` cover all other texts and limits.

* inflate: three tokens are a literal, a copy that reaches into itself and one that
  reaches to an earlier block; blocks of all three types follow each other, so that each
  begins at several positions in a byte.  Code lengths come repeated, by each of the three
  symbols for it, across the border between literals and distances, and beyond the end.
  Copies from in front of the text are short enough for the code's loop to run, and so far
  that it does not.
* png: pixels of two rows and two columns have every neighbour a filter looks at, inside
  the image and in the border; blocks of 8 bytes make an image take several.  Three pictures
  tell the filters and the ties of the Paeth predictor apart.  A batch is one sample, so that
  the second may be bad when the first is written.  An image of height 0 has a sound stream or
  a damaged one.
* text: reads of three bytes cut characters of two, three and four bytes at each place, and
  end exactly at the end of a file and beside it.  The files that are joined have every
  border of the decoder's table, one byte to either side of it.  Five characters hold
  overlapping occurrences of a pattern, patterns side by side and at both ends.  Five lines
  are partitioned twice, with equal elements and with numbers that are not numbers.  Five errors stand
  for the 16 of the code: no file or sort alone pushes more, two files or a long sort do.

Where `CHECK_DEADLOCK FALSE` is set, the modelled program ends.

### What is assumed about fairness

* `SparseRecord`: weak fairness of `Write` and of `Read`.  The code is
  sequential; its loops and those of its client run on.  A failing call is
  never forced.
* `Server`: weak fairness of the process's steps, and clients that go on
  connecting and sending (`BusySpec`).  The second is needed and is part of the
  property's name: a SIGTERM between the test of the flag (line 117) and
  `accept` (line 119) is noticed only when the next connection comes, so on an
  idle server the stop may never happen.
* `UnionFind`: weak fairness of the steps of a call that has begun; none calls for
  another one.
* `Segmentation`: weak fairness of `Next`.
* `JsonCount`: weak fairness of `Next`, as the functions are sequential and the
  texts finite.
* `Text`: weak fairness of the sort's steps.
* `Rcv1`, `JsonFind`, `Inflate`, `Png`: none, they have no liveness property.  TLC looks for
  deadlocks there, and a call that has ended is the only state that stutters.

### Where the code differs from what is expected of it

`ShutsDown` is violated: the handler is installed before `sl_server_running` is set to true,
so a SIGTERM between the two is logged as obeyed and then overwritten.

Elsewhere the model has what the code does, and the properties say under which condition all
is well:

* `Counted`, `PrintsEach`: no line of the run is the beginning of another.  Keys are compared
  over the shorter length, so of two such lines one can be counted as the other if they meet
  in one probe sequence, unlike what `tools/README.md` (lines 422-423) shows for `}` and `};`.
* `FoundIsFirst` and `MissesHiddenOnly` except hidden nodes: of two values that an object
  below the top has under the same key of the path, the second is never searched, since the end
  of the first takes the search back to the first step of the path, whose object it has passed.
  In `{"a":{"a":[],"a":[1]},"a":{"a":[1]}}` the path `a`, `a`, `[0]` leads to the 1 at the end,
  and if that were not there, to nothing, though `json.h` says (line 7) that the search
  continues.  The outermost object hides nothing, and the last step of the path neither.
* `FoundIsFirst`, `ReadsNoFurther` and the first half of `MissesHiddenOnly` ask for paths with
  an index nowhere but at the end.  A step into an array is taken on a scalar element too and
  not undone: `[0][0]` finds the inner 1 of `[1,[1]]`.
* `EndsAsEncoded` excepts two streams the format allows: one with a stored block whose header
  ends a byte, where the code skips a byte too many and refuses it, and one whose only distance
  code is the smallest, for which the tree is empty and an array is read far out of its bounds.
  Of damaged streams it excepts four on which the code leaves its arrays instead of failing: a
  stored block without room for it (`deflate.c`, line 167), the reserved distances 30 and 31,
  code lengths repeated beyond their number, and a copy from in front of the text; where the
  range of such a copy ends in front of the text as well, it is skipped without a word.
* An image of height 0 is accepted whatever its stream is, since an error of `sl_inflate` is the
  size 0 (`png.c`, line 551); `ReadsTheImage` is about images with a row.
* `CleanExit` is about clients that were accepted.  Those still in the backlog when a SIGTERM
  ends the loop are dropped unanswered, with exit code 0, and a message too long for the buffer
  is cut off and logged as an error (`server.c`, line 143) with exit code 0 as well.
* `ReadsEverySound`: a file with an ancillary chunk the code does not know is rejected like a damaged
  one; without memory unpacking goes on to a null pointer.
* `SuccessIsWritten`: the end of a file that `fclose` fails to write is lost without a word.
  What reads the file notices: `ReadsTheImage` and `SvmWhole` hold all the same.
* `OutputIsRight` is about runs that report no error.  A file that cannot be opened or read to the end
  is reported, and yet counted and joined as far as it was read, with exit code 0; a sort without
  memory prints lines out of order, reported, with exit code 0.
* `EndsAsDeserved`: `sort` ends in a false assertion on a blank line or on no line at all,
  `count` and `sort` on a file that is not UTF-8, whose reported error is then lost.
  What `slicelines` and `replace` print includes the terminating NUL, as the last example of
  `replace` in `tools/README.md` shows (`1: :`).
* A seventeenth message on the error stack aborts the program, and the others are lost.

## 4. The proofs

| Theorem | Property |
|---|---|
| `SparseRecordTypeOK` | `TypeOK` |
| `SparseRecordRoundTrip` | `RoundTrip` |
| `SparseRecordNothingLost` | `NothingLost` |
| `SparseRecordClientAgrees` | `ClientAgrees` |
| `SparseRecordImplementsStream` | `ImplementsStream`, the refinement |
| `ServerTypeOK`, `ServerOwnBytesOnly`, `ServerAtMostOneMore`, `ServerCleanExit` | the four invariants of `server` |
| `UnionFindTypeOK` | `TypeOK` |
| `UnionFindRooted` | `Rooted`: the parents never form a cycle |
| `UnionFindImplementsPartition` | `ImplementsPartition`, the refinement |
| `SegmentationInvariant` | the inductive invariant of `Segmentation` |
| `SegmentationAccounts`, `SegmentationConnected`, `SegmentationSettled` | the three invariants of `segmentation` |
| `SegmentationUsesPartition` | every behaviour of `Segmentation` is one of `Partition` |
| `HashMapSearches` | well-formedness and load of the map |
| `HashMapNeverFull` | `NeverFull` |
| `HashMapCounted`, `HashMapPrintsEach` | `Counted` and `PrintsEach`, where no line begins with another |
| `Rcv1Invariant` | the inductive invariant of `Rcv1` |
| `Rcv1Readable`, `Rcv1SvmWhole`, `Rcv1LabelsAgree` | the three invariants of `rcv1` |
| `JsonCountInvariant` | the inductive invariant of `JsonCount`: parser and grammar agree |
| `JsonCountRejectsAtOnce`, `JsonCountOpenContainers`, `JsonCountCountsNodes` | the three invariants of `json_count` |
| `TextInv` | the inductive invariant of `Text` |
| `TextOutputIsRight` | `OutputIsRight` |
| `TextEndsAsDeserved` | `EndsAsDeserved` |
| `TextDecodesScalars` | the decoder's table accepts exactly the UTF-8 of scalar values |
| `TextScansStayInRange` | the inner loops of the partition stop in the part of the array being sorted |
| `TextInsertSorted`, `TextMergeSorted` | both sorts give the same elements, in order where there is one |

Assumptions.  `RecordAssumption`: zero is not one of the other values, the
lengths are natural numbers and buffers are not empty.  `ServerAssumption`: NUL
is a byte, the buffer has at least one, messages are sequences of bytes.
`SegmentationAssumption`: the image has a pixel, colours are natural numbers and the
threshold is a fraction of two.  `HashMapAssumption`: the first capacity is a power of two,
as 1024 is, the one that `txt.c` passes (line 266; nothing in `hashmap.c` requires it);
hashes are natural numbers.  `Rcv1Assumption`: there are finitely many documents, whose IDs
are natural numbers, and a batch is not empty.  `MaxDepthAssumption`: the nesting limit is
not zero (it is 512 in the code).  `ProfileAssumption`: a profile is two sets of characters and a
length, which may be all characters and any length.  `RunsAssumption`: files are sequences of
bytes, at least one, and arguments are C strings, as are the lines given to the library, which
have no newline either.  `BufferAssumption`, `ThresholdAssumption`: the reader's buffer, the
stack of errors and the threshold of the quicksort are not zero (65536, 16 and 24 in the code).
There is no bound on arrays, buffers, clients, signals, messages, images, texts, files, lines,
or on how often anything is run.

SparseRecord.  The properties are not inductive: what the reader hands out
depends on pairs written long before.  `IInv` says what a pair means.  The
auxiliary function that links both sides is the place of a pair, the sum of the
offsets up to it, which the invariant states by a function from pairs to places
that is strictly increasing and hits exactly the nonzero items before the
writer's index.  The writer part says the pending offset reaches from the last
place to the index; the reader part says that the reader's index plus its
pending offset is the last or the next place and that the buffer is the slice
of the array from `base` up to the reader's index.  Writer actions leave the reader's
part alone and vice versa (`WriterKeepsReaderInv`, `ReaderKeepsWriterInv`), and
one lemma per action does the rest.  Integer division enters through the lemmas
`Division`, `InBatch`, `PastBatch` and `NextBatch`.  The refinement follows: each
delivery is `DeliverNext`, every other step leaves `data`, `base`, `out` alone.

Server.  `IInv == TypeOK /\ ConnInv /\ BufferInv /\ OwnBytesOnly /\ StopInv /\
ExitInv`.  `ConnInv` relates `conn` to the place in `main`; `BufferInv` says that
between `recv` and `send` the buffer holds the message of the connection up to
`msgLen` and a NUL there; `StopInv` says where the run flag stands after a handled
signal and how many more connections that allows; `ExitInv` accounts for each
client between its connection and its answer.  One lemma for each conjunct, one step
per action.

UnionFind, for every number of elements.  The inductive invariant says two things of the
parents.  `Acyclic`: there is a rank, a number for each element that is greater at
its parent; a turn of `set_root` gives the moved element a parent with a greater one,
after raising the root's.  `Names`: there is a function `c` from elements to names that is
the same along every line of parents, and a root's own name except for the root that
`set_root` has yet to reach (`Pending`).  A lemma shows that `Class` is this function, so
that the refinement follows from what each action does to `c`.  `LeastNumber` gives the end of a
line: of its elements, one has the greatest rank.

Segmentation, for images of any size and colours.  The invariant has the segments as
`Partition` has them, named by one of their pixels (`NamesInv`), with the cells of the border
each on their own (`BorderInv`).  `PieceInv`: whatever part is taken of a segment,
a pixel of the part lies beside one of the rest; two such pieces with a pixel
of the one beside one of the other make a third, which is what a join does.  `AccountsInv`
has the size and sum of a segment at its name, where `Total` is the sum over a finite set;
that the order of summing does not matter, that a set can be split, and that it agrees
with the folds of the library is proved by `FiniteSubsets`.  `Settled` is about a whole pass that has joined
nothing and not inductive; `SettledInv` says it of what a pass has visited so
far.

HashMap, for any keys, hashes and texts.  `HashMapNeverFull` comes first and needs the
probe sequence: of the places of a search, the first one and those with an odd number
differ pairwise, since the capacity is a power of two (`Capacity`) and the step between two
odd probes is an odd multiple of what remains; so a search looks at more than half of the slots.
`LoadInv` has at most half of them taken whenever a search begins, in the midst of a rehash
too, where the new table has no more keys than slots have been moved.  So every search ends at a free slot or at the key.  For `Counted`
this is not enough: `Placed` says that a search for a key in the table ends at its own
slot, which an insertion keeps, because it fills the slot where the search for the new key
ended, and every other search passes that slot as it passes a taken one, or never gets there.
`ContentsInv` then compares what is in the table with `seen`, between the two calls that count a
line and during a rehash; `PrintInv` what has been printed with the slots
before `index`.  The hypothesis `PrefixFree` is the one of the properties themselves: keys
are compared over the shorter length.

Rcv1, for any files and any number of conversions, each of which may stop anywhere.
A file of samples is always a beginning of the whole one (`SamplesInv`), and its
metadata, if there is any, always that of the whole, since it is written after the
last line and does not depend on the conversion.  `svm` fails on too few
pairs, so that it takes only batches that are whole: `PassInv` has its place in the file as
the end of the last row of the batch, by the function `EndsOf` from rows to places, and
`BatchesInv` each batch as an interval of rows.  `Readable` needs `DiskInv`,
which compares metadata with data along the steps of `Script`.  `LabelsAgree` has the
hypothesis `InOrder` as part of the property.  There the classes are in the order of
the lines: the document that `WriteClass` takes next is the one with that rank among the IDs, and
`ClassesInv` says which lines have been matched so far.

JsonCount, for texts of any length and any nesting limit: the parser of the code and the grammar of
json.org describe one language and count the same nodes.  The invariant must say which set of
derivations each state of the parser stands for.  `Expected(s, t)` is what a derivation can have
left in state `s` if `t` is left around the innermost open container; a state in an
ambiguous place has several, as after `[`, where the array may be empty or not.  What is left
around the containers is not one sequence either, for after a value in a container more may
follow or not: `T[l]` is the set of what can be left at depth `l`, and `Tails` says how each follows from
the one below by the kind on the stack.  `Follows` then says that the derivations of `JsonGrammar`
are exactly the `Expected` ones, expanded: those after the next character if one
has been chosen that the parser has not consumed (`Then`), and those before it if not
(`Now`); once the text has ended, that the derivations which are complete are the same
(`Over`).  Three groups of lemmas carry the proof over the sixteen actions.  `Settle`
expands a set of derivations in ten rounds at once; `Final` is what it does to one, so
that it can be followed symbol by symbol, and `Quick(k, r)` says that `k` rounds are
enough for a derivation that has `r` left.  For each state, one lemma
(`ReadsElement`, `ReadsContainer`, `ReadsMember`, `ReadsString`, `ReadsInt`, `ReadsAfterValue` and so on)
says which characters lead to what is expected in which state: it is the transition table
of the code derived from the grammar.  `Consume`, `PutBack`, `Fail` and `Finish` are the
four ways a call can end.  That a number ends at a character which is put back
is the hardest case: the character has been read by the grammar, not by the parser, and what it
does to the number has to be what it does after the value (`EndNumberInv`).  `Keeps` adds that
some derivation goes on in every state and that each has the brackets of the stack still to
close, and `Stops` what is left after an error and at the end.

Text, for any job, wherever the reads cut the files and whatever fails.  `Progress` says for each
place in a command what it has so far, in terms of what it was asked for: the files before the
present one joined, or the pieces of the text before the present one counted, printed, replaced
or kept as lines.  It is known while nothing has been reported; what it is needed for, a run
without a report at the end, is a run without one all along.  `TokAt` compares the iterator with
the text: the token is the piece between two of the `Cuts`, which are the places where the
pattern is found from the left without overlapping, and there is none between
the iterator's index and the next one found.  That these are also the most places that do not overlap
(`TextMostFit`) gives the count.  Printed lines are cut out again by the same lemmas.

The quicksort has an invariant of its own, `QuickInv`.  The array is a permutation of the
lines; the ranges on the stack lie apart from each other, and any two elements that are not in one range
are in order; of the range being partitioned, what is left of `lhs` is not greater than
the pivot and what is right of `rhs` not smaller.  The order is one only for lines without
"nan", so all this is said under that condition, except for what holds
in any case: there is always an element at or before `rhs` and one at or after `lhs`
that stop the inner loops, the pivot itself in the first turn and the two exchanged last in the
later ones.  For this the order need not be transitive, only equal with itself and
opposite when turned round.  The two other sorts are recursive functions,
and the lemmas about them say of each of their calls what `QuickInv` says at the end.

How a command ends where nothing fails (`EndsOk`) is kept by the steps that keep `Inv`, with
one lemma for each action: of the files read so far and of the pieces passed so far, each was
what the command needs of it (`EndsReads`, `EndsUses`).  The code decides that with the decoder's table,
`IsGiven` by the numbers the bytes stand for.  Both are brought to one form: `Encodes` lists
the bytes of a codepoint as ranges, and `IsSound` asks for a set of places in the text of
which each is the end or has a codepoint up to another one.  That
the table's states lead through those ranges is followed byte by byte, and that their
numbers are the scalar values of that width (`TextProper1` to `TextProper4`) is arithmetic.
What is printed is decoded again, so that it has to be text as well: the lines of
a text that was decoded whole, each with a newline put after it.  Both are again facts
about sets of places: those of two texts make those of the two joined, and the places between two
newlines are those of the line between them.

Induction.  The library's induction theorems take an operator as parameter, which
the installed provers cannot instantiate.  The modules that need induction state it over
sets: `LeastNumber` (a set of numbers has a least one), `CountUp` (a set that goes on from each
number to the next) and `FiniteSubsets` (a family of subsets that goes on from smaller to larger
ones).  A recursive function is a `CHOOSE` for the provers as well, so that it exists
has to be proved: by `CountUp`, on the set of the numbers up to which it does.

Only model-checked: all liveness (`Completes`, `StopsWhenBusy`, `Returns`,
`Ends`), since the prover does not reason about `ENABLED`; and every property of `Inflate`,
`Png` and `JsonFind`.  What `Inflate` and `Png` decode is compared with what
recursive functions of the encoder and the filters compute from any text, which takes an
induction over data in each of them.  So it is with `JsonFind`, whose documents are built by a
fold over their entries.

## 5. What is left out

* Wording and logging, except for one line the server's handler logs.
* The text format of metadata: a file is there or missing or cut off.  The text
  format of the RCV1 files, and how the topics give a document its class.
* The command `spambase` of `dataset` and of `svm`.
* SVM training and evaluation, and the errors of it that end an experiment early.
* Allocation failure inside `sl_inflate` and the parser, of the segmentation's own arrays
  (that of the copied image is modelled), and in `dataset rcv1`.
* What a stdio buffer loses at the end of a program, on standard output.
* PNG: headers shorter than 13 bytes, chunks longer than 2^31 bytes, and streams
  that end before their last block does.  What `info` prints; it ends with 0 also if it could
  not read the file.
* The names of the files that `cifar_to_png` writes: they go through `snprintf` into 200 bytes,
  so that with a long directory or label they are cut and may coincide.  In the model they
  are distinct, as they are when they fit.
* Of numbers to sort: signs, fractions, exponents, and the errors of range on which `sort`
  asserts.
* `sl_string_slice`, `sl_fs_read_int64`, `sl_io_read` (which reports a short read and returns
  true; only the seed of the random numbers is read with it) and the ASCII helpers of `string.c`.
* `sl_hashmap_set` on a present key (nobody calls it) and the destructors.
* CRC-32: any hash may belong to any key, which is more than the code can do.
* The bytes inside a JSON literal or escape: a misspelt literal is one symbol
  that the parser rejects.
* Floating-point code (linalg, tensor, matrix, vector, ml): TLC has no floats.
* Pseudorandom numbers and hashes: they have no property short of their
  definition.
* Argument checks, output formats and the test harness.

## 6. The plan

Done: `SparseRecord` against `RecordStream`, `Server`, `HashMap`, `UnionFind` against
`Partition`, `Segmentation`, `Rcv1`, `JsonCount` against `JsonGrammar`, and `Text` with `Utf8`,
`Tokenizer`, `Sort` and `MergeSort`, with proofs; `JsonFind` against `JsonDocument`; `Inflate`
against an encoder; `Png`.

Next, in this order:

1. `sl_json_parse_path` and `sl_json_get_str`, with the two hazards that no property covers.
