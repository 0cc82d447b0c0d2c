-------------------------------- MODULE Text --------------------------------
(***************************************************************************)
(* src/tools/txt.c and src/tools/sort.c: reading files as text and         *)
(* printing them again joined, counted, cut to some lines, with a pattern  *)
(* replaced, or with the lines sorted; with the reader of filesystem.c, the*)
(* bounded stack of errors, and any operation failing. The command         *)
(* linefreq is in HashMap.                                                 *)
(*                                                                         *)
(* Jobs with the commands "insertsort" and "mergesort" are calls of the    *)
(* library on an array of lines, made and printed as sort prints.          *)
(***************************************************************************)
EXTENDS MergeSort, Utf8, Tokenizer

CONSTANTS
    Runs,      \* what is asked and which kinds of operations may fail: see MCText
    BUFFER,    \* the size of the reader's buffer
    DEPTH      \* SL_ERROR_STACK_DEPTH

ASSUME BufferAssumption == BUFFER \in Nat \ {0} /\ DEPTH \in Nat \ {0}

Byte == 0..255

(* What may be asked. Arguments are C strings, and so are the lines that    *)
(* are given to the library, which are printed one to a line.              *)
IsJob(run) ==
    /\ run \in [command : {"concat", "count", "slicelines", "replace", "sort",
                           "insertsort", "mergesort"},
                files : Seq(Seq(Byte)), pattern : Seq(1..255), replacement : Seq(1..255),
                begin : Nat, count : Nat, numeric : BOOLEAN, reverse : BOOLEAN]
    /\ run.files # <<>>
    /\ run.command \in {"insertsort", "mergesort"} =>
         run.files \in Seq(Seq(1..255 \ {10}))

ASSUME RunsAssumption ==
    \A run \in Runs :
        IsJob(run.job) /\ run.fault \subseteq {"open", "read", "memory", "write"}

VARIABLES
    job, fault,
    step,        \* where the command is
    path,        \* the number of the file being read
    rest,        \* what the file has left
    data,        \* what has been read of it
    content,     \* the string made of it, terminating NUL included
    iter,        \* the iterator over its tokens
    result,      \* the string concat builds
    out,         \* what has been printed
    errors,      \* how many messages are on the stack
    reported,    \* how many the end has printed
    outcome

file    == <<path, rest, data>>
vars    == <<job, fault, step, file, content, iter, result, out, errors, reported,
             outcome, sortVars>>

Is(commands) == job.command \in commands

-----------------------------------------------------------------------------
(* How steps end.                                                          *)

(* sl_error_push, n times, and on: with a full stack the program aborts.   *)
Pushes(n, next, verdict) ==
    /\ errors' = Min({errors + n, DEPTH})
    /\ step' = IF errors + n > DEPTH THEN "ended" ELSE next
    /\ outcome' = IF errors + n > DEPTH THEN "aborted" ELSE verdict
    /\ UNCHANGED <<job, fault, reported>>

Goes(next) == Pushes(0, next, "running")
Fails(n)   == Pushes(n, "done", "failure")

(* A false assertion, or a null pointer followed.                          *)
Crashes ==
    /\ step' = "ended"
    /\ outcome' = "aborted"
    /\ UNCHANGED <<job, fault, errors, reported>>

Writes(bytes, next, verdict) ==
    \/ /\ out' = out \o bytes
       /\ Pushes(0, next, verdict)
    \/ /\ "write" \in fault
       /\ bytes # <<>>
       /\ Fails(0)
       /\ UNCHANGED out

(* sl_string_view_utf8_data: a string without its terminating NUL.         *)
View(string) == SubSeq(string, 1, Len(string) - 1)

(* sl_string_from_utf8, then sl_string_fprint of the string.               *)
Prints(bytes, next) ==
    \/ /\ ~IsValidUtf8(bytes)
       /\ Fails(1)
       /\ UNCHANGED out
    \/ /\ "memory" \in fault
       /\ Fails(2)
       /\ UNCHANGED out
    \/ /\ IsValidUtf8(bytes)
       /\ Writes(bytes, next, "running")

-----------------------------------------------------------------------------
(* Reading a file.                                                         *)

Start ==
    /\ step = "start"
    /\ ~Is({"insertsort", "mergesort"})
    /\ IF Is({"count", "replace"}) /\ job.pattern = <<>> THEN Fails(1) ELSE Goes("open")
    /\ UNCHANGED <<file, content, iter, result, out, sortVars>>

Open ==
    /\ step = "open"
    /\ data' = <<>>
    /\ \/ /\ Goes("read")
          /\ rest' = job.files[path]
       \/ /\ "open" \in fault
          /\ Pushes(1, "decode", "running")
          /\ UNCHANGED rest
    /\ UNCHANGED <<path, content, iter, result, out, sortVars>>

ReadSize == Min({BUFFER, Len(rest)})
Chunk    == SubSeq(rest, 1, ReadSize)

(* fread, then sl_span_extend: a short read is the end of the file.        *)
ReadChunk ==
    /\ step = "read"
    /\ rest' = SubSeq(rest, ReadSize + 1, Len(rest))
    /\ \/ /\ data' = data \o Chunk
          /\ Goes(IF ReadSize < BUFFER THEN "decode" ELSE "read")
       \/ /\ "memory" \in fault
          /\ Chunk # <<>>
          /\ Pushes(3, "decode", "running")
          /\ UNCHANGED data
    /\ UNCHANGED <<path, content, iter, result, out, sortVars>>

(* A read that fails ends the loop as the end of the file does.            *)
ReadError ==
    /\ step = "read"
    /\ "read" \in fault
    /\ Pushes(1, "decode", "running")
    /\ UNCHANGED <<file, content, iter, result, out, sortVars>>

NoContent == <<>>

(* The rest of sl_fs_read_file_utf8. *)
Decode ==
    /\ step = "decode"
    /\ \/ /\ IsValidUtf8(data)
          /\ content' = Append(data, 0)
          /\ Goes("use")
       \/ /\ ~IsValidUtf8(data)
          /\ content' = NoContent
          /\ Pushes(1, "use", "running")
       \/ /\ IsValidUtf8(data)
          /\ "memory" \in fault
          /\ content' = NoContent
          /\ Pushes(2, "use", "running")
    /\ UNCHANGED <<file, iter, result, out, sortVars>>

HasText == content # NoContent /\ Length(View(content)) > 0

-----------------------------------------------------------------------------
(* concat.                                                                 *)

(* sl_string_extend. *)
Extended(string, other) == View(string) \o View(other) \o <<0>>

AddContent ==
    /\ step = "use"
    /\ Is({"concat"})
    /\ \/ /\ ~HasText
          /\ Fails(0)
          /\ UNCHANGED <<path, result>>
       \/ /\ HasText
          /\ "memory" \in fault
          /\ Fails(2)
          /\ UNCHANGED <<path, result>>
       \/ /\ HasText
          /\ result' = Extended(result, content)
          /\ path' = path + 1
          /\ Goes(IF path < Len(job.files) THEN "open" ELSE "print")
    /\ UNCHANGED <<rest, data, content, iter, out, sortVars>>

PrintResult ==
    /\ step = "print"
    /\ Is({"concat"})
    /\ Writes(View(result), "done", "success")
    /\ UNCHANGED <<file, content, iter, result, sortVars>>

-----------------------------------------------------------------------------
(* The tokens of the content.                                              *)

(* sl_span_parse_hex, where an argument of replace is hexadecimal: strtoul *)
(* of two characters takes the digits they begin with, behind a blank or a *)
(* sign in place of the first, and -1 is 255.                              *)
Digit(char) ==
    CASE char \in 48..57  -> char - 48
      [] char \in 97..102 -> char - 87
      [] char \in 65..70  -> char - 55
      [] OTHER            -> -1
Blank == 9..13 \union {32}
PLUS  == 43
MINUS == 45
Pair(char1, char2) ==
    IF Digit(char2) < 0 THEN IF Digit(char1) < 0 THEN 0 ELSE Digit(char1)
    ELSE CASE Digit(char1) >= 0              -> 16 * Digit(char1) + Digit(char2)
           [] char1 \in Blank \union {PLUS} -> Digit(char2)
           [] char1 = MINUS                  -> (256 - Digit(char2)) % 256
           [] OTHER                          -> 0
Unhexed(arg) ==
    IF Len(arg) > 2 /\ IsPrefix(<<48, 120>>, arg)
    THEN [i \in 1..((Len(arg) - 1) \div 2) |->
            Pair(arg[2 * i + 1], Append(arg, 0)[2 * i + 2])]
    ELSE arg

NEWLINE == 10

Delimiter ==
    CASE Is({"count"})   -> job.pattern
      [] Is({"replace"}) -> Unhexed(job.pattern)
      [] OTHER           -> <<NEWLINE>>

(* A goto past the definitions of pattern and replacement: what is then    *)
(* destroyed was never initialised.                                        *)
DestroysUninitialised(n) == Fails(n) \/ Crashes

BeginTokens ==
    /\ step = "use"
    /\ \/ /\ Is({"slicelines"})
          /\ ~HasText
          /\ Fails(0)
          /\ UNCHANGED iter
       \/ /\ Is({"replace"})
          /\ ~HasText
          /\ DestroysUninitialised(0)
          /\ UNCHANGED iter
       \/ /\ Is({"replace"})
          /\ HasText
          /\ "memory" \in fault
          /\ DestroysUninitialised(2)
          /\ UNCHANGED iter
       \/ /\ Is({"count", "sort"})
          /\ content = NoContent
          /\ Crashes
          /\ UNCHANGED iter
       \/ /\ \/ Is({"count", "sort"}) /\ content # NoContent
             \/ Is({"slicelines", "replace"}) /\ HasText
          /\ iter' = Tokens(content, Delimiter)
          /\ Goes("tokens")
    /\ UNCHANGED <<file, content, result, out, sortVars>>

AtToken == step = "tokens" /\ ~IsDone(iter, content)
NextIter == Advanced(iter, content, Delimiter)

CountToken ==
    /\ AtToken
    /\ Is({"count"})
    /\ iter' = NextIter
    /\ Goes("tokens")
    /\ UNCHANGED <<file, content, result, out, sortVars>>

LineNumber == iter.pos + 1
FirstLine  == Max({job.begin, 1})
IsSelected == LineNumber \in FirstLine..(FirstLine + job.count - 1)

SliceLine ==
    /\ AtToken
    /\ Is({"slicelines"})
    /\ IF IsSelected THEN Prints(Append(iter.token, NEWLINE), "tokens")
                     ELSE Goes("tokens") /\ UNCHANGED out
    /\ iter' = NextIter
    /\ UNCHANGED <<file, content, result, sortVars>>

ReplaceToken ==
    /\ AtToken
    /\ Is({"replace"})
    /\ Prints(iter.token, "replacement")
    /\ iter' = NextIter
    /\ UNCHANGED <<file, content, result, sortVars>>

PrintReplacement ==
    /\ step = "replacement"
    /\ IF IsDone(iter, content) \/ job.replacement = <<>>
       THEN Goes("tokens") /\ UNCHANGED out
       ELSE Prints(Unhexed(job.replacement), "tokens")
    /\ UNCHANGED <<file, content, iter, result, sortVars>>

(* What a char pointer sees of a line.                                     *)
CString(bytes) ==
    SubSeq(bytes, 1, Min({n \in 0..Len(bytes) : Append(bytes, 0)[n + 1] = 0}))

(* sort copies each line and grows its array by one, whose result is not   *)
(* looked at.                                                              *)
ReadLine ==
    /\ AtToken
    /\ Is({"sort"})
    /\ iter' = NextIter
    /\ \/ /\ iter.token = <<>>
          /\ Crashes
          /\ UNCHANGED lines
       \/ /\ iter.token # <<>>
          /\ iter.token[1] = 0
          /\ Goes("tokens")
          /\ UNCHANGED lines
       \/ /\ iter.token # <<>>
          /\ iter.token[1] # 0
          /\ "memory" \in fault
          /\ Fails(2) \/ Crashes
          /\ UNCHANGED lines
       \/ /\ iter.token # <<>>
          /\ iter.token[1] # 0
          /\ lines' = Append(lines, CString(iter.token))
          /\ Goes("tokens")
    /\ UNCHANGED <<file, content, result, out, numeric, ranges, scan>>

AtEnd == step = "tokens" /\ IsDone(iter, content)

PrintCount ==
    /\ AtEnd
    /\ Is({"count"})
    /\ Writes(<<Max({iter.pos - 1, 0})>>, "done", "success")
    /\ UNCHANGED <<file, content, iter, result, sortVars>>

FinishTokens ==
    /\ AtEnd
    /\ Is({"slicelines", "replace"})
    /\ Pushes(0, "done", "success")
    /\ UNCHANGED <<file, content, iter, result, out, sortVars>>

-----------------------------------------------------------------------------
(* Sorting.                                                                *)

(* sl_sort_quicksort: a crash without a line.                              *)
BeginSort ==
    /\ AtEnd
    /\ Is({"sort"})
    /\ \/ /\ lines = <<>>
          /\ Crashes
          /\ UNCHANGED sortVars
       \/ /\ lines # <<>>
          /\ "memory" \in fault
          /\ Fails(2)
          /\ UNCHANGED sortVars
       \/ /\ lines # <<>>
          /\ Goes("sort")
          /\ BeginQuicksort
    /\ UNCHANGED <<file, content, iter, result, out>>

Quicksort ==
    /\ step = "sort"
    /\ \/ /\ SkipRange \/ SortShortRange \/ BeginPartition \/ ScanInward
          /\ Goes("sort")
       \/ /\ "memory" \in fault
          /\ LeaveShortRange
          /\ Pushes(1, "sort", "running")
    /\ UNCHANGED <<file, content, iter, result, out>>

EndSort ==
    /\ step = "sort"
    /\ ranges = <<>>
    /\ ~scan.active
    /\ Goes("print")
    /\ UNCHANGED <<file, content, iter, result, out, sortVars>>

CallLibrary ==
    /\ step = "start"
    /\ Is({"insertsort", "mergesort"})
    /\ \/ /\ lines' = IF Is({"insertsort"}) THEN InsertSorted(job.files)
                                            ELSE MergeSorted(job.files)
          /\ Goes("print")
       \/ /\ "memory" \in fault
          /\ Fails(1)
          /\ UNCHANGED lines
    /\ UNCHANGED <<file, content, iter, result, out, numeric, ranges, scan>>

Printed(sorted) ==
    FlattenSeq([i \in 1..Len(sorted) |-> Append(sorted[i], NEWLINE)])

(* printf, whose result is not looked at.                                  *)
PrintLines ==
    /\ step = "print"
    /\ ~Is({"concat"})
    /\ Pushes(0, "done", "success")
    /\ \/ out' = Printed(IF job.reverse THEN Reverse(lines) ELSE lines)
       \/ "write" \in fault /\ UNCHANGED out
    /\ UNCHANGED <<file, content, iter, result, sortVars>>

-----------------------------------------------------------------------------

(* sl_context_unwind_errors at the end of both programs.                   *)
Unwind ==
    /\ step = "done"
    /\ step' = "ended"
    /\ errors' = 0
    /\ \/ /\ reported' = errors
          /\ UNCHANGED outcome
       \/ /\ "write" \in fault
          /\ errors > 0
          /\ outcome' = "failure"
          /\ UNCHANGED reported
    /\ UNCHANGED <<job, fault, file, content, iter, result, out, sortVars>>

Ended == step = "ended" /\ UNCHANGED vars

Init ==
    /\ \E run \in Runs : job = run.job /\ fault = run.fault
    /\ step = "start"
    /\ path = 1
    /\ rest = <<>>
    /\ data = <<>>
    /\ content = NoContent
    /\ iter = [index |-> 0, pos |-> 0, token |-> <<>>]
    /\ result = <<>>
    /\ out = <<>>
    /\ errors = 0
    /\ reported = 0
    /\ outcome = "running"
    /\ lines = <<>>
    /\ numeric = job.numeric
    /\ ranges = <<>>
    /\ scan = NoScan

Next ==
    \/ Start \/ Open \/ ReadChunk \/ ReadError \/ Decode
    \/ AddContent \/ PrintResult
    \/ BeginTokens \/ CountToken \/ SliceLine \/ ReplaceToken \/ PrintReplacement
    \/ ReadLine \/ PrintCount \/ FinishTokens
    \/ BeginSort \/ Quicksort \/ EndSort \/ CallLibrary \/ PrintLines
    \/ Unwind \/ Ended

(* A program does not wait for anything, so it goes on with its work; for  *)
(* what is said below this matters in the sort alone.                      *)
Spec == Init /\ [][Next]_vars /\ WF_vars(Quicksort \/ EndSort)

-----------------------------------------------------------------------------
(* What the commands should give, from what they were given.               *)

(* Where a pattern is cut out, from the left: at each place where it is    *)
(* found, but for those that overlap a cut further left.                   *)
Cuts(bytes, pattern) ==
    LET found == FoundAt(bytes, pattern)
    IN  CHOOSE cuts \in SUBSET found :
            \A n \in found :
                n \in cuts <=> ~\E m \in cuts : m < n /\ n < m + Len(pattern)

Pieces(bytes, pattern) ==
    LET cuts     == Cuts(bytes, pattern)
        count    == Cardinality(cuts)
        cut(i)   == CHOOSE c \in cuts : Cardinality({d \in cuts : d < c}) = i - 1
        begin(i) == IF i = 1 THEN 0 ELSE cut(i - 1) + Len(pattern)
        end(i)   == IF i > count THEN Len(bytes) ELSE cut(i)
    IN  [i \in 1..(count + 1) |-> SubSeq(bytes, begin(i) + 1, end(i))]

(* What the commands see is the text with its terminating NUL.             *)
Text == Append(job.files[1], 0)
PieceOf(i)  == Pieces(Text, Delimiter)[i]
PieceCount  == Len(Pieces(Text, Delimiter))

(* The most places where the pattern is found that do not overlap.         *)
Occurrences ==
    Max({Cardinality(places) : places \in
            {p \in SUBSET FoundAt(Text, job.pattern) :
                \A m, n \in p : m < n => m + Len(job.pattern) <= n}})

Replacement(i) ==
    IF i = PieceCount /\ PieceOf(i) = <<>> THEN <<>> ELSE Unhexed(job.replacement)
Replaced ==
    FlattenSeq([i \in 1..PieceCount |->
        IF i = 1 THEN PieceOf(1) ELSE Replacement(i) \o PieceOf(i)])

Sliced ==
    Printed(SubSeq(Pieces(Text, Delimiter), FirstLine,
                   Min({FirstLine + job.count - 1, PieceCount})))

KeptOf(n) == IF PieceOf(n)[1] # 0 THEN << CString(PieceOf(n)) >> ELSE <<>>
SortedText ==
    IF Is({"sort"}) THEN FlattenSeq([n \in 1..PieceCount |-> KeptOf(n)])
                    ELSE job.files

SameElements(s, t) ==
    /\ Len(s) = Len(t)
    /\ \A i \in 1..Len(s) :
          Cardinality({j \in 1..Len(s) : s[j] = s[i]}) =
          Cardinality({j \in 1..Len(s) : t[j] = s[i]})

InOrder(sorted) ==
    \/ numeric /\ \E i \in 1..Len(sorted) : IsNaN(sorted[i])
    \/ \A i \in 1..(Len(sorted) - 1) :
          IF job.reverse THEN Compare(sorted[i], sorted[i + 1]) >= 0
                         ELSE Compare(sorted[i], sorted[i + 1]) <= 0

(* A sequence of scalar values, each in as few bytes as it takes.          *)
IsScalar(bytes) ==
    /\ IF Len(bytes) = 1 THEN bytes[1] \in 0..127
       ELSE /\ bytes[1] \in <<{}, 192..223, 224..239, 240..247>>[Len(bytes)]
            /\ \A i \in 2..Len(bytes) : bytes[i] \in 128..191
    /\ CodepointWidth(Codepoint(bytes)) = Len(bytes)
    /\ Codepoint(bytes) \notin 55296..57343    \* surrogates
IsText(bytes) ==
    LET textFrom[n \in 0..Len(bytes)] ==
          \/ n = Len(bytes)
          \/ \E width \in 1..Min({4, Len(bytes) - n}) :
                IsScalar(SubSeq(bytes, n + 1, n + width)) /\ textFrom[n + width]
    IN  textFrom[0]

(* A command that ends well with no error reported has printed what was    *)
(* asked for, whatever failed on the way and wherever the reads cut the    *)
(* text: the files joined, the number of times the pattern fits, the lines,*)
(* the text with every cut replaced, the lines in order. Only what sort    *)
(* could not print is lost without a word.                                 *)
OutputIsRight ==
    step = "ended" /\ outcome = "success" /\ reported = 0 =>
        CASE Is({"concat"})     -> out = FlattenSeq(job.files)
          [] Is({"count"})      -> out = <<Occurrences>>
          [] Is({"slicelines"}) -> out = Sliced
          [] Is({"replace"})    -> out = Replaced
          [] OTHER ->
               \/ "write" \in fault
               \/ LET sorted == Front(Pieces(out, <<NEWLINE>>))
                  IN  SameElements(sorted, SortedText) /\ InOrder(sorted)

(* Where nothing fails, a command ends well exactly if it was asked for    *)
(* something and its files, and what replace makes of one, are the UTF-8   *)
(* of scalar values; an empty file is enough only to count in, and to sort *)
(* there must be a line and no blank one.                                  *)
IsGiven ==
    CASE Is({"concat"}) ->
           \A i \in 1..Len(job.files) : job.files[i] # <<>> /\ IsText(job.files[i])
      [] Is({"count"})      -> job.pattern # <<>> /\ IsText(job.files[1])
      [] Is({"slicelines"}) -> job.files[1] # <<>> /\ IsText(job.files[1])
      [] Is({"replace"}) ->
           /\ job.pattern # <<>>
           /\ job.files[1] # <<>>
           /\ IsText(job.files[1])
           /\ \A i \in 1..PieceCount : IsText(PieceOf(i))
           /\ \A i \in 2..PieceCount : IsText(Replacement(i))
      [] Is({"sort"}) ->
           /\ IsText(job.files[1])
           /\ \A i \in 1..PieceCount : PieceOf(i) # <<>>
           /\ \E i \in 1..PieceCount : PieceOf(i)[1] # 0
      [] OTHER -> TRUE
EndsAsDeserved ==
    step = "ended" /\ fault = {} => (outcome = "success" <=> IsGiven)

(* Every sort ends, with each part of the array in fact smaller than the   *)
(* whole, also where the order is none (numbers that are not a number).    *)
Returns == (step = "sort") ~> (step = "print" \/ outcome = "aborted")
=============================================================================
