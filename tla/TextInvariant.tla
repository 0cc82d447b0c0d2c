--------------------------- MODULE TextInvariant ---------------------------
(***************************************************************************)
(* The inductive invariants of Text, and the facts they are said with:     *)
(* Inv, of what has been read, cut, printed and sorted so far, and EndsOk, *)
(* of what each file and piece has been where nothing fails. TextProofs    *)
(* proves them.                                                            *)
(***************************************************************************)
EXTENDS Text

-----------------------------------------------------------------------------
(* Rearranging.                                                            *)

\* p takes each place from 1 to n to a place of its own.
Permutes(p, n) == p \in [1..n -> 1..n] /\ \A i, j \in 1..n : p[i] = p[j] => i = j

\* t has the elements of s, each where p says.
Takes(t, s, p) == Len(t) = Len(s) /\ Permutes(p, Len(s)) /\ \A i \in 1..Len(s) : t[i] = s[p[i]]
IsPermuted(t, s) == \E p : Takes(t, s, p)

-----------------------------------------------------------------------------
(* The orders of lines.                                                    *)

\* A C string, without its terminating NUL, and its bytes with it.
CChar == 1..255
Line == Seq(CChar)

\* The order that num chooses: Compare, of a choice that is given.
Cmp(num, s, t) == IF num THEN CompareAsDoubles(s, t) ELSE CompareStr(s, t)

\* The lines that the order compares in earnest.
Ordinary(num) == {s \in Line : num => ~IsNaN(s)}

\* No line is before one that it should come after.
IsOrdered(num, s) == \A i, j \in 1..Len(s) : i < j => Cmp(num, s[i], s[j]) <= 0

-----------------------------------------------------------------------------
(* The quicksort.                                                          *)

\* A place of a range.
InRange(r, i) == r[1] <= i /\ i <= r[2]

\* Ranges of n places that are not empty, none of which has a place of another.
RangesApart(rs, n) ==
  /\ rs \in Seq((1..n) \X (1..n))
  /\ \A k \in 1..Len(rs) : rs[k][1] <= rs[k][2]
  /\ \A k, l \in 1..Len(rs) : \A i \in 1..n : InRange(rs[k], i) /\ InRange(rs[l], i) => k = l

\* What is in order, but for what is in one range.
OrderedBut(num, s, rs) ==
  \A i, j \in 1..Len(s) :
    i < j => (\/ Cmp(num, s[i], s[j]) <= 0
              \/ \E k \in 1..Len(rs) : InRange(rs[k], i) /\ InRange(rs[k], j))

\* A partition under way from l to h: what it has passed is on its side of the
\* pivot, and it will stop before it leaves the range, on the pivot or on what
\* it has passed from the other side.
ScanOk(num, s0, s, l, h, sc) ==
  /\ sc \in [active : BOOLEAN, lhs : Int, rhs : Int, pivot : Line]
  /\ sc.lhs \in l - 1..h /\ sc.rhs \in l..h + 1 /\ sc.lhs < sc.rhs
  /\ \E i \in 1..Len(s0) : sc.pivot = s0[i]
  /\ \A i \in l..sc.lhs : Cmp(num, s[i], sc.pivot) <= 0
  /\ \A i \in sc.rhs..h : Cmp(num, s[i], sc.pivot) >= 0
  /\ \/ sc.lhs = l - 1 /\ sc.rhs = h + 1 /\ \E m \in l..h - 1 : sc.pivot = s[m]
     \/ l <= sc.lhs /\ sc.rhs <= h

\* The quicksort of s0 under way, sure if no part was left as it was.
QuickInv(num, s0, s, rs, sc, sure) ==
  /\ s0 \in Seq(Line)
  /\ s \in Seq(Line)
  /\ IsPermuted(s, s0)
  /\ RangesApart(rs, Len(s))
  /\ (sure /\ s0 \in Seq(Ordinary(num))) => OrderedBut(num, s, rs)
  /\ sc.active => rs # <<>> /\ ScanOk(num, s0, s, rs[Len(rs)][1], rs[Len(rs)][2], sc)

\* The inner loops stop in the range, even where the order is none, and both
\* parts are smaller than the whole.
StopsInRange ==
  /\ NextLeft \in lo..hi /\ NextRight \in lo..hi
  /\ NextLeft > scan.lhs /\ NextRight < scan.rhs
  /\ Compare(lines[NextLeft], scan.pivot) >= 0
  /\ Compare(lines[NextRight], scan.pivot) <= 0
  /\ \A i \in lo..NextLeft - 1 : Compare(lines[i], scan.pivot) <= 0
  /\ \A i \in NextRight + 1..hi : Compare(lines[i], scan.pivot) >= 0
  /\ NextLeft >= NextRight => NextRight < hi

\* A range in two.
IsSplit(qs, rs, l, m, h) ==
  /\ Len(qs) = Len(rs) + 1
  /\ rs[Len(rs)] = <<l, h>>
  /\ l <= m /\ m < h
  /\ \A k \in 1..Len(rs) - 1 : qs[k] = rs[k]
  /\ qs[Len(rs)] = <<m + 1, h>>
  /\ qs[Len(rs) + 1] = <<l, m>>

-----------------------------------------------------------------------------
(* The cuts of a text and the tokens between them.                         *)

\* The rank of a place is the number of cuts before it.
Rank(cuts, n) == Cardinality({d \in cuts : d < n})

\* What is known of the next token at b: it goes up to e, the first place from
\* there on where the delimiter is found, or if there is none the end.
IsToken(t, bytes, pattern, b, e) ==
  /\ e \in b..Len(bytes)
  /\ t = SubSeq(bytes, b + 1, e)
  /\ Len(t) = e - b
  /\ \A n \in FoundAt(bytes, pattern) : n < b \/ n >= e
  /\ e = Len(bytes) \/ e \in FoundAt(bytes, pattern)

\* The i-th cut.
CutAt(bytes, pattern, i) == CHOOSE c \in Cuts(bytes, pattern) : Rank(Cuts(bytes, pattern), c) = i - 1

CutCount(bytes, pattern) == Cardinality(Cuts(bytes, pattern))

\* b is where the piece after p cuts begins.
Place(bytes, pattern, p, b) ==
  /\ p \in Nat /\ b \in Nat /\ b <= Len(bytes)
  /\ Rank(Cuts(bytes, pattern), b) = p
  /\ \A d \in Cuts(bytes, pattern) : d < b => d + Len(pattern) <= b
  /\ b = IF p = 0 THEN 0 ELSE CutAt(bytes, pattern, p) + Len(pattern)
  /\ p # 0 => CutAt(bytes, pattern, p) \in FoundAt(bytes, pattern)

\* What is known of the token where a piece begins: it is that piece, and after
\* it and a delimiter the next one begins, if there is one.
TokenIsPiece(bytes, pattern, p, b, e) ==
  /\ IsToken(Pieces(bytes, pattern)[p + 1], bytes, pattern, b, e)
  /\ NextToken(bytes, pattern, b) = Pieces(bytes, pattern)[p + 1]
  /\ p \in 0..CutCount(bytes, pattern)
  /\ \/ /\ p < CutCount(bytes, pattern)
        /\ e \in FoundAt(bytes, pattern)
        /\ Place(bytes, pattern, p + 1, e + Len(pattern))
     \/ p = CutCount(bytes, pattern) /\ e = Len(bytes)

\* An iterator over the pieces, at one of them or after the last.
TokAt(bytes, pattern, it) ==
  /\ it.pos \in Nat /\ it.index \in Nat
  /\ \/ /\ it.pos \in 0..CutCount(bytes, pattern)
        /\ Place(bytes, pattern, it.pos, it.index)
        /\ it.token = Pieces(bytes, pattern)[it.pos + 1]
     \/ it.pos = CutCount(bytes, pattern) + 1 /\ it.index = Len(bytes)

\* An iterator at one of the pieces.
IsAtPiece(bytes, pattern, it, S) ==
  /\ it.pos \in 0..CutCount(bytes, pattern)
  /\ it.token = Pieces(bytes, pattern)[it.pos + 1]
  /\ it.token \in Seq(S)

\* Places that do not overlap.
Apart(places, len) == \A m, n \in places : m < n => m + len <= n

\* The numbers of places that do not overlap.
Fits(bytes, pattern) ==
  {Cardinality(places) : places \in {p \in SUBSET FoundAt(bytes, pattern) : Apart(p, Len(pattern))}}

\* Lines without a newline.
Plain(X) == \A i \in 1..Len(X) : \A k \in 1..Len(X[i]) : X[i][k] # NEWLINE

\* The lines that are printed: no byte of them is NUL or a newline.
PlainLine == Seq(1..255 \ {10})

-----------------------------------------------------------------------------
(* What the commands print.                                                *)

\* The commands that read tokens.
LineCommands == {"count", "slicelines", "replace", "sort"}

\* What is known of the job.
JobFacts ==
  /\ job.files \in Seq(Seq(Byte)) /\ job.files # <<>>
  /\ job.pattern \in Seq(1..255) /\ job.replacement \in Seq(1..255)
  /\ job.begin \in Nat /\ job.count \in Nat /\ job.reverse \in BOOLEAN
  /\ job.command \in {"concat", "insertsort", "mergesort"} \union LineCommands
  /\ Is({"insertsort", "mergesort"}) => job.files \in Seq(PlainLine)

\* The delimiter of a command that reads tokens.
DelimiterFacts ==
  /\ Delimiter \in Seq(Byte) /\ Delimiter # <<>>
  /\ Is({"slicelines", "sort"}) => Delimiter = <<NEWLINE>>
  /\ Is({"count"}) => Delimiter = job.pattern
  /\ ~Is({"replace"}) => Delimiter[Len(Delimiter)] # 0

\* What sort keeps of a piece, and of the first p.
Kept1(x) == IF x[1] # 0 THEN << CString(x) >> ELSE <<>>
KeptFrom(ps, p) == FlattenSeq([i \in 1..p |-> Kept1(ps[i])])

\* What slicelines has printed when it has passed p pieces.
SlicedFrom(ps, b, c, p) == Printed(SubSeq(ps, b, Min({b + c - 1, p})))

\* What replace has printed after p pieces: each with what it is to be put
\* before it, which is nothing before an empty last one.
PutBefore(ps, r, i) == IF i = Len(ps) /\ ps[i] = <<>> THEN <<>> ELSE r
PutPiece(ps, r, i) == IF i = 1 THEN ps[1] ELSE PutBefore(ps, r, i) \o ps[i]
ReplacedFrom(ps, r, p) == FlattenSeq([i \in 1..p |-> PutPiece(ps, r, i)])

\* What is printed of the lines.
Shown == IF job.reverse THEN Reverse(lines) ELSE lines

\* What is asked stays the same while the job does.
SameAsked ==
  /\ Text' = Text /\ Delimiter' = Delimiter /\ FirstLine' = FirstLine
  /\ SortedText' = SortedText /\ Occurrences' = Occurrences
  /\ Sliced' = Sliced /\ Replaced' = Replaced

-----------------------------------------------------------------------------
(* The invariant.                                                          *)

\* The steps of a command that reads its files, takes their tokens or is over.
Reads == {"open", "read", "decode", "use"}
Uses  == {"tokens", "replacement"}
Over  == {"done", "ended"}

\* What each variable may hold.
TypeOk ==
  /\ IsJob(job) /\ numeric = job.numeric
  /\ errors \in 0..DEPTH
  /\ rest \in Seq(Byte) /\ data \in Seq(Byte) /\ content \in Seq(Byte) /\ result \in Seq(Byte)
  /\ lines \in Seq(Line)
  /\ step \notin Over => outcome = "running"

\* Which commands get where.
Placed ==
  /\ step \in {"start"} \union Reads => path \in 1..Len(job.files)
  /\ step \in Reads \union Uses =>
       ~Is({"insertsort", "mergesort"}) /\ (Is({"count", "replace"}) => job.pattern # <<>>)
  /\ step \in Uses => Is(LineCommands) /\ content # <<>> /\ TokAt(content, Delimiter, iter)
  /\ step = "replacement" => Is({"replace"}) /\ iter.pos # 0
  /\ step = "sort" => Is({"sort"})
  /\ step = "print" => Is({"concat", "sort", "insertsort", "mergesort"})
  /\ step \in {"start"} \union Reads \union Uses => scan = NoScan
  /\ step # "sort" => ~scan.active

\* The quicksort sorts some lines, whatever has failed.
QuickOk == step = "sort" => \E s0 : QuickInv(numeric, s0, lines, ranges, scan, FALSE)

\* The files read have been joined, or the first one is being read. This and what
\* follows is known while nothing has been reported.
ReadOk ==
  step \in {"start"} \union Reads =>
    /\ out = <<>> /\ lines = <<>>
    /\ Is({"concat"}) => View(result) = FlattenSeq(SubSeq(job.files, 1, path - 1))
    /\ ~Is({"concat"}) => path = 1
    /\ step = "read" => data \o rest = job.files[path]
    /\ step = "decode" => data = job.files[path]
    /\ step = "use" => content = Append(job.files[path], 0)

\* The tokens passed have been counted, printed, replaced or kept.
UseOk ==
  step \in Uses =>
    LET ps == Pieces(Text, Delimiter)
        r == Unhexed(job.replacement)
        done == ReplacedFrom(ps, r, iter.pos)
    IN  /\ content = Text
        /\ Is({"count"}) => out = <<>>
        /\ Is({"slicelines"}) => out = SlicedFrom(ps, FirstLine, job.count, iter.pos)
        /\ Is({"replace"}) =>
             out = IF step = "replacement" \/ iter.pos = 0 \/ IsDone(iter, content)
                   THEN done ELSE done \o r
        /\ Is({"sort"}) => lines = KeptFrom(ps, iter.pos)

\* The lines of the text are being sorted.
SortOk == step = "sort" => QuickInv(numeric, SortedText, lines, ranges, scan, TRUE)

\* What is to be printed is what was asked for.
PrintOk ==
  step = "print" =>
    IF Is({"concat"}) THEN out = <<>> /\ View(result) = FlattenSeq(job.files)
    ELSE /\ IsPermuted(lines, SortedText)
         /\ SortedText \in Seq(Ordinary(numeric)) => IsOrdered(numeric, lines)

\* All that.
Progress == ReadOk /\ UseOk /\ SortOk /\ PrintOk

\* What OutputIsRight says of the output.
Right ==
  CASE Is({"concat"})     -> out = FlattenSeq(job.files)
    [] Is({"count"})      -> out = <<Occurrences>>
    [] Is({"slicelines"}) -> out = Sliced
    [] Is({"replace"})    -> out = Replaced
    [] OTHER ->
         \/ "write" \in fault
         \/ LET sorted == Front(Pieces(out, <<NEWLINE>>))
            IN  SameElements(sorted, SortedText) /\ InOrder(sorted)

\* The end.
EndOk ==
  /\ step = "done" /\ outcome = "success" /\ errors = 0 => Right
  /\ step = "ended" /\ outcome = "success" /\ reported = 0 => Right

\* The inductive invariant.
Inv ==
  /\ TypeOk
  /\ Placed
  /\ QuickOk
  /\ errors = 0 => Progress
  /\ EndOk

-----------------------------------------------------------------------------
(* How a step goes.                                                        *)

\* How a step may end: on with what is next, with something reported, or not at
\* all.
Kept == job' = job /\ fault' = fault /\ reported' = reported
Moves(next, verdict) == Kept /\ step' = next /\ outcome' = verdict /\ errors' = errors
Reports(next) ==
  /\ Kept
  /\ errors' \in 0..DEPTH /\ errors' # 0
  /\ \/ step' = next /\ outcome' = "running"
     \/ step' = "ended" /\ outcome' = "aborted"
Quits ==
  /\ Kept
  /\ errors' \in 0..DEPTH
  /\ step' \in Over
  /\ outcome' \in {"failure", "aborted"}

-----------------------------------------------------------------------------
(* What the proofs use of the invariant, and what follows from it.         *)

\* What a step leaves of the kind that it should be.
Typed ==
  /\ rest' \in Seq(Byte) /\ data' \in Seq(Byte) /\ content' \in Seq(Byte) /\ result' \in Seq(Byte)
  /\ lines' \in Seq(Line) /\ numeric' = numeric

\* What is known while a file is being read.
Reading ==
  /\ errors \in 0..DEPTH /\ ~scan.active
  /\ path \in 1..Len(job.files) /\ job.files[path] \in Seq(Byte) /\ job.files \in Seq(Seq(Byte))
  /\ ~Is({"insertsort", "mergesort"})
  /\ Is({"count", "replace"}) => job.pattern # <<>>
  /\ errors = 0 => ReadOk

\* What is known while the tokens are taken.
Using ==
  /\ errors \in 0..DEPTH /\ ~scan.active /\ scan = NoScan
  /\ content \in Seq(Byte) /\ content # <<>>
  /\ JobFacts /\ DelimiterFacts
  /\ Is(LineCommands)
  /\ TokAt(content, Delimiter, iter)
  /\ errors = 0 => UseOk

\* The pieces of the text, of which there are some.
PieceFacts(ps) ==
  /\ ps = Pieces(Text, Delimiter)
  /\ ps \in Seq(Seq(Byte))
  /\ Len(ps) = CutCount(Text, Delimiter) + 1 /\ CutCount(Text, Delimiter) \in Nat
  /\ Delimiter = <<NEWLINE>> => Plain(ps)

\* The iterator goes on.
Stepping ==
  LET p == iter.pos
  IN  /\ p \in 0..CutCount(content, Delimiter) /\ p \in Nat
      /\ iter.token = Pieces(content, Delimiter)[p + 1]
      /\ iter.token \in Seq(Byte)
      /\ p = CutCount(content, Delimiter) => iter.token # <<>>
      /\ TokAt(content, Delimiter, iter')
      /\ iter'.pos = p + 1 /\ iter'.pos # 0

\* What is known at the end of the text, while nothing has been reported.
AllPassed ==
  LET ps == Pieces(Text, Delimiter)
      n == CutCount(Text, Delimiter)
  IN  /\ UseOk /\ content = Text /\ IsDone(iter, content)
      /\ PieceFacts(ps)
      /\ \/ iter.pos = n + 1
         \/ Is({"replace"}) /\ iter.pos = n /\ ps[n + 1] = <<>>

\* InOrder, of an order that is given.
InOrderAs(num, rev, sorted) ==
  \/ num /\ \E i \in 1..Len(sorted) : IsNaN(sorted[i])
  \/ \A i \in 1..(Len(sorted) - 1) :
       IF rev THEN Cmp(num, sorted[i], sorted[i + 1]) >= 0
              ELSE Cmp(num, sorted[i], sorted[i + 1]) <= 0

\* The inner loops of a partition stop inside the part of the array that is
\* being sorted.
ScansStayInRange == scan.active => StopsInRange

-----------------------------------------------------------------------------
(* The decoder.                                                            *)

\* As many bytes as a codepoint after the first n may have.
Most(bytes, n) == Min({4, Len(bytes) - n})

\* The w bytes after the first n are a codepoint, as the decoder has it.
Encodes(bytes, n, w) ==
  \/ w = 1 /\ bytes[n + 1] <= 127
  \/ w = 2 /\ bytes[n + 1] \in 194..223 /\ bytes[n + 2] \in 128..191
  \/ /\ w = 3
     /\ bytes[n + 1] \in 224..239 /\ bytes[n + 2] \in 128..191 /\ bytes[n + 3] \in 128..191
     /\ bytes[n + 1] = 224 => bytes[n + 2] >= 160
     /\ bytes[n + 1] = 237 => bytes[n + 2] <= 159
  \/ /\ w = 4
     /\ bytes[n + 1] \in 240..244 /\ bytes[n + 2] \in 128..191
     /\ bytes[n + 3] \in 128..191 /\ bytes[n + 4] \in 128..191
     /\ bytes[n + 1] = 240 => bytes[n + 2] >= 144
     /\ bytes[n + 1] = 244 => bytes[n + 2] <= 143

\* A set of places of which each is the end or has a codepoint up to another one.
AreBounds(B, bytes) ==
  /\ B \subseteq 0..Len(bytes)
  /\ \A n \in B : n = Len(bytes) \/ \E w \in 1..Most(bytes, n) : Encodes(bytes, n, w) /\ n + w \in B

\* From there on there are only codepoints.
IsSound(bytes, n) == \E B : AreBounds(B, bytes) /\ n \in B

-----------------------------------------------------------------------------
(* How a command ends where nothing fails.                                 *)

\* While the files are read: those before this one are as concat needs them; after
\* reading, this one is a text unless something has been reported.
EndsReads ==
  step \in {"start"} \union Reads =>
    /\ Is({"concat"}) => \A i \in 1..path - 1 : job.files[i] # <<>> /\ IsText(job.files[i])
    /\ ~Is({"concat"}) => path = 1
    /\ step = "use" =>
         IF errors = 0 THEN IsText(job.files[path])
         ELSE content = NoContent /\ ~IsText(job.files[path])

\* While the tokens are taken: those passed, and what has been put for the pattern,
\* are texts; those that sort has passed are not empty.
EndsUses ==
  step \in Uses =>
    /\ IsText(job.files[1])
    /\ Is({"slicelines", "replace"}) => job.files[1] # <<>>
    /\ Is({"replace"}) =>
         /\ \A i \in 1..iter.pos : i <= PieceCount => IsText(PieceOf(i))
         /\ \A i \in 2..PieceCount :
              i <= (IF step = "tokens" THEN iter.pos + 1 ELSE iter.pos) => IsText(Replacement(i))
    /\ Is({"sort"}) =>
         /\ \A i \in 1..iter.pos : PieceOf(i) # <<>>
         /\ lines # <<>> <=> \E i \in 1..iter.pos : PieceOf(i)[1] # 0

\* All of it, where nothing fails.
EndsOk ==
  fault = {} =>
    /\ step \notin {"use"} \union Over => errors = 0
    /\ EndsReads
    /\ EndsUses
    /\ step \in {"sort", "print"} => IsGiven
    /\ step \in Over => (outcome = "success" <=> IsGiven)

\* What is given stays the same while the job does.
SameGiven ==
  /\ IsGiven' = IsGiven /\ PieceCount' = PieceCount
  /\ \A i : PieceOf(i)' = PieceOf(i) /\ Replacement(i)' = Replacement(i)
  /\ \A commands : Is(commands)' = Is(commands)

\* What is known while the tokens are taken.
EndsHere ==
  /\ step \in Uses /\ errors = 0 /\ errors \in 0..DEPTH
  /\ Using /\ UseOk /\ EndsUses
  /\ content = Text /\ Text \in Seq(Byte) /\ PieceFacts(Pieces(Text, Delimiter))
  /\ PieceCount = CutCount(Text, Delimiter) + 1 /\ CutCount(Text, Delimiter) \in Nat
  /\ job.files[1] \in Seq(Byte) /\ Text = Append(job.files[1], 0)
  /\ Is({"count", "replace"}) => job.pattern # <<>>

\* What is known of the token that is passed.
EndsToken ==
  /\ EndsHere
  /\ iter.pos \in 0..CutCount(Text, Delimiter) /\ iter.pos \in Nat
  /\ iter.token = PieceOf(iter.pos + 1) /\ iter.token \in Seq(Byte)
  /\ iter.pos + 1 \in 1..PieceCount /\ iter'.pos = iter.pos + 1
=============================================================================
