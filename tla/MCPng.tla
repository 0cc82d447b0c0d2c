------------------------------- MODULE MCPng -------------------------------
(***************************************************************************)
(* A conversion, or a file some other program has made, and then one of    *)
(* the commands of png on a file that is there. Other programs filter the  *)
(* rows and choose blocks and chunks as the PNG specification lets them;   *)
(* some of their files are damaged or of a kind that is not supported.     *)
(***************************************************************************)
EXTENDS Png, DeflateFormat

VARIABLE given        \* what was to be in each file, and whether its end was lost

vars == <<inflateVars, pngVars, given>>

MCSample == {[label |-> 0, bytes |-> <<1, 2, 3, 4, 5, 6, 7, 8, 9, 10, 11, 12>>],
             [label |-> 9, bytes |-> <<255, 1, 0, 0, 7, 0, 0, 0, 255, 255, 0, 9>>],
             [label |-> 10, bytes |-> <<0, 0, 0, 0, 0, 0, 0, 0, 0, 0, 0, 0>>]}

-----------------------------------------------------------------------------
\* What another program makes.

Head8(w, h, color) == [NoHeader EXCEPT !.width = w, !.height = h, !.bit_depth = 8, !.color_type = color]

(* Byte k of row r of a picture, 0 outside of it; among the bytes of the   *)
(* last one are such that two are equally near to a Paeth predictor.       *)
ByteOf(picture, r, k) ==
    IF r < 1 \/ k < 1 THEN 0
    ELSE CASE picture = "waves" -> (r * 97 + k * 58 + r * k * 31) % 256
           [] picture = "steep" -> (r * k * k * 77) % 256
           [] picture = "ties"  -> << <<10, 12, 200, 7, 18, 200>>,
                                      <<16, 9, 200, 30, 1, 2>> >>[r][k]

(* PNG specification, 6: filters. *)
PaethPredictor(a, b, c) ==
    LET Off(v) == LET d == a + b - c - v IN IF d < 0 THEN -d ELSE d
        order  == <<a, b, c>>
        best   == CHOOSE i \in 1..3 :
                     \A j \in 1..3 : Off(order[i]) < Off(order[j]) \/
                                     (Off(order[i]) = Off(order[j]) /\ i <= j)
    IN  order[best]

Scanline(e, r) ==
    LET bpp      == IF e.header.color_type = "rgba" THEN 4 ELSE 3
        x(k)     == ByteOf(e.picture, r, k)
        left(k)  == ByteOf(e.picture, r, k - bpp)
        above(k) == ByteOf(e.picture, r - 1, k)
        corner(k) == ByteOf(e.picture, r - 1, k - bpp)
        filtered(k) ==
          x(k) - <<0, left(k), above(k), (left(k) + above(k)) \div 2,
                   PaethPredictor(left(k), above(k), corner(k))>>[e.filters[r] + 1]
    IN  <<e.filters[r]>> \o [k \in 1..(bpp * e.header.width) |-> (filtered(k) + 256) % 256]

(* The picture inside a border of zeros. *)
PictureOf(e) ==
    LET bpp   == IF e.header.color_type = "rgba" THEN 4 ELSE 3
        width == bpp * (e.header.width + 2)
    IN  [i \in 0..(width * (e.header.height + 2) - 1) |->
            IF i \div width \in 1..e.header.height /\ i % width \in bpp..(width - bpp - 1)
            THEN ByteOf(e.picture, i \div width, (i % width) - bpp + 1)
            ELSE 0]

FileOf(e) ==
    LET rows   == IF e.flaw = "short" THEN e.header.height - 1 ELSE e.header.height
        bytes  == FlattenSeq([r \in 1..rows |-> Scanline(e, r)])
        data   == Zlib(<<[type |-> e.block, tokens |-> [i \in DOMAIN bytes |-> <<bytes[i]>>],
                          codes |-> "flat", alone |-> FALSE]>>)
        first  == IF e.flaw = "stream" THEN <<0, 0, 0>> ELSE SubSeq(data, 1, e.split)
        second == SubSeq(data, e.split + 1, Len(data))
        crc(d) == IF e.flaw = "crc" THEN Crc("damaged", d) ELSE Crc("IDAT", d)
    IN  (IF e.flaw = "signature" THEN <<"other">> ELSE <<"signature">>) \o
        (IF e.flaw = "headless" THEN <<>> ELSE Tail(HeaderFields(e.header))) \o
        (IF e.extra = "" THEN <<>> ELSE ChunkFields(e.extra, <<65>>)) \o
        (IF e.split = 0 THEN <<>> ELSE ChunkFields("IDAT", first)) \o
        <<Len(second), "IDAT">> \o second \o <<crc(second)>> \o
        ChunkFields("IEND", <<>>)

Plain == [header |-> Head8(2, 2, "rgb"), picture |-> "waves", filters |-> <<0, 0>>,
          block |-> "fixed", split |-> 0, extra |-> "", flaw |-> ""]

Encodings ==
    {[Plain EXCEPT !.filters = f, !.picture = p] :
        f \in (0..4) \X (0..4), p \in {"waves", "steep", "ties"}} \union
    {[Plain EXCEPT !.header = Head8(1, 3, "rgba"), !.filters = f] : f \in {4, 1} \X (2..4) \X (3..4)} \union
    {[Plain EXCEPT !.block = b, !.split = n, !.extra = x] :
        b \in {"stored", "dynamic"}, n \in {0, 1, 9}, x \in {"", "tEXt"}} \union
    {[Plain EXCEPT !.flaw = f] : f \in {"short", "crc", "signature", "headless"}} \union
    {[Plain EXCEPT !.split = 3, !.flaw = "stream", !.header.height = h] : h \in {0, 2}} \union
    {[Plain EXCEPT !.header.height = 0]} \union
    {[Plain EXCEPT !.flaw = "unknown", !.extra = "vpAg"],
     [Plain EXCEPT !.flaw = "gray", !.header.color_type = "grayscale"],
     [Plain EXCEPT !.flaw = "interlaced", !.header.interlace = 1]}

-----------------------------------------------------------------------------

NothingGiven == [n \in {} |-> 0]

Init ==
    /\ files = [n \in {} |-> <<>>]
    /\ command = "none"
    /\ sample = 0
    /\ step = "idle"
    /\ target = GivenFile
    /\ image = NoImage
    /\ read = Reading("chunks")
    /\ row = 0
    /\ fault = FALSE
    /\ given = NothingGiven
    /\ pc = "idle"
    /\ Stream(<<>>, 0)

(* Someone puts a file there. *)
Give ==
    /\ step = "idle"
    /\ given = NothingGiven
    /\ \E e \in Encodings :
        /\ files' = GivenFile :> FileOf(e)
        /\ given' = GivenFile :> [header |-> e.header, data |-> PictureOf(e), sound |-> e.flaw = "",
                                lost |-> FALSE]
    /\ UNCHANGED <<inflateVars, command, sample, step, target, image, read, row, fault>>

(* A command on one of the files; the others are no longer looked at.      *)
Use ==
    /\ \/ step = "idle"
       \/ step \in {"success", "failure"} /\ command = "cifar_to_png"
    /\ \E n \in DOMAIN files :
        /\ StartTool(n)
        /\ files' = n :> files[n]
        /\ given' = n :> given[n]

Ended ==
    /\ step \in {"success", "failure", "crashed"}
    /\ UNCHANGED vars

(* The conversion does not look at a file that is given. *)
Step ==
    /\ PngNext
    /\ step = "idle" => given = NothingGiven
    /\ given' =
          CASE step = "fopen" ->
                 target :> [header |-> image.header, data |-> image.data,
                            sound |-> TRUE, lost |-> FALSE] @@ given
            [] step \in {"close", "closeUnwritten"} ->
                 [given EXCEPT ![target].lost = Len(files'[target]) < Len(files[target])]
            [] OTHER -> given

Next == Give \/ Use \/ Step \/ Ended

Spec == Init /\ [][Next]_vars

-----------------------------------------------------------------------------

(* A file as long as what sl_png_write_image has written, or what was      *)
(* given, with nothing cut off.                                            *)
WholeSize(n) ==
    IF n = GivenFile THEN Len(files[n])
    ELSE LET img == [header |-> given[n].header, data |-> given[n].data]
         IN  Len(HeaderFields(img.header)) + Len(ChunkFields("IDAT", Deflated(Packed(img)))) + 3
IsWhole(n) == given[n].header # NoHeader /\ Len(files[n]) = WholeSize(n)

(* sl_png_read_image returns the image that sl_png_write_image or another  *)
(* program wrote, each pixel at its place whatever filters, blocks and     *)
(* chunks it was written with, and the border empty. It returns none of a  *)
(* file that has lost its end, however little, or is damaged. Only of an   *)
(* image without rows nothing is asked: an error of sl_inflate is the size *)
(* of its data.                                                            *)
ReadsTheImage ==
    step = "image" /\ image.header.height > 0 =>
        /\ given[target].sound /\ IsWhole(target)
        /\ image.header = given[target].header
        /\ image.data = given[target].data

(* Without a fault of that kind it fails only for such files and for the    *)
(* unsupported, and no command comes to an abort.                          *)
ReadsEverySound ==
    step = "notRead" \/ step = "crashed" =>
        fault \/ ~given[target].sound \/ ~IsWhole(target)

(* A conversion or segmentation that succeeds has written every file of    *)
(* its own to the last field, each sample its image; only what is lost on  *)
(* closing goes unnoticed.                                                 *)
SuccessIsWritten ==
    step = "success" /\ command \in {"cifar_to_png", "segment"} =>
        \A n \in IF command = "segment" THEN {ResultFile}
                 ELSE {SampleFile(i) : i \in 0..(NumSamples - 1)} :
            /\ n \in DOMAIN files
            /\ given[n].lost \/ IsWhole(n)
=============================================================================
