-------------------------------- MODULE Png --------------------------------
(***************************************************************************)
(* src/stufflib/png/png.c with the programs that use it: dataset           *)
(* cifar_to_png, which writes an image for each sample, and png segment,   *)
(* info and dump_raw, which read one. IDAT data is unpacked by the actions *)
(* of Inflate.                                                             *)
(*                                                                         *)
(* A file is a sequence of fields: the signature, and for each chunk its   *)
(* length, its type, each item of its data, and its CRC. The items of IHDR *)
(* are the seven fields of a header, those of IDAT are bytes. A CRC is the *)
(* pair of what it is computed from, so no two of them collide.            *)
(*                                                                         *)
(* An image's data counts its bytes from 0 and has a border of one pixel.  *)
(***************************************************************************)
EXTENDS Inflate, SequencesExt

CONSTANTS
    Width, Height,    \* of a sample
    Sample,           \* the samples: a label and three planes of bytes
    NumSamples,
    BatchSize,        \* the samples of a batch
    MaxLabel,
    BLOCK_SIZE        \* SL_DEFLATE_BLOCK_SIZE

ASSUME PngAssumption ==
    /\ Width \in Nat \ {0} /\ Height \in Nat \ {0} /\ NumSamples \in Nat
    /\ BatchSize \in Nat \ {0}
    /\ MaxLabel \in Nat
    /\ BLOCK_SIZE \in 1..65535

VARIABLES
    files,      \* the files by their names, as far as they exist
    command,    \* the command that runs
    sample,     \* sample_num
    step,       \* where it is, or how it ended
    target,     \* the name of the file being read or written
    image,      \* the image being read or written
    read,       \* what is read: position, chunks, how many are asked for
    row,        \* of sl_png_unapply_filter
    fault       \* whether a file could not be opened or decoded, or memory ran out

pngVars == <<files, command, sample, step, target, image, read, row, fault>>

SampleFile(n) == <<"sample", n>>
GivenFile     == <<"given", 0>>
ResultFile    == <<"result", 0>>

-----------------------------------------------------------------------------
\* Images.

NoHeader == [width |-> 0, height |-> 0, bit_depth |-> 0, color_type |-> "grayscale",
             compression |-> 0, filter |-> 0, interlace |-> 0]
NoImage == [header |-> NoHeader, data |-> <<>>, filter |-> <<>>]

BytesPerPixel(h) ==
    [grayscale |-> 1, rgb |-> 3, indexed |-> 0, grayscale_alpha |-> 2, rgba |-> 4][h.color_type]

ScanlineSize(h) == BytesPerPixel(h) * h.width

(* sl_png_data_size: with the byte for the filter in each row. *)
DataSize(h) == h.height + BytesPerPixel(h) * h.width * h.height

Blank(h) == [i \in 0..(BytesPerPixel(h) * (h.width + 2) * (h.height + 2) - 1) |-> 0]

(* sl_png_image_get_pixel: where the bytes of a pixel are, border included.*)
PixelAt(h, r, c) == (r * (h.width + 2) + c) * BytesPerPixel(h)

(* memcpy into the data, as of sl_png_image_set_pixel. *)
Copied(data, at, bytes) ==
    [i \in DOMAIN data |-> IF i \in at..(at + Len(bytes) - 1) THEN bytes[i - at + 1] ELSE data[i]]

IsSupported(h) ==
    /\ h.compression = 0 /\ h.filter = 0 /\ h.interlace = 0
    /\ h.color_type \in {"rgb", "rgba"}
    /\ h.bit_depth = 8

(* sl_png_image_rgb_create, and the pixels of a sample from its planes.    *)
ImageOf(s) ==
    LET h     == [NoHeader EXCEPT !.width = Width, !.height = Height,
                                  !.bit_depth = 8, !.color_type = "rgb"]
        px(p) == [b \in 1..3 |-> s.bytes[(b - 1) * Width * Height + (p[1] - 1) * Width + p[2]]]
    IN  [header |-> h,
         data   |-> FoldSet(LAMBDA p, data : Copied(data, PixelAt(h, p[1], p[2]), px(p)),
                            Blank(h), (1..Height) \X (1..Width)),
         filter |-> [r \in 1..Height |-> 0]]

(* sl_png_pack_image_data: the rows without the border, each behind a 0.   *)
Packed(img) ==
    FlattenSeq([r \in 1..img.header.height |->
        <<0>> \o [i \in 1..ScanlineSize(img.header) |-> img.data[PixelAt(img.header, r, 1) + i - 1]]])

(* sl_png_unpack_and_pad_image_data: the filter and the bytes of each row. *)
Padded(h, raw) ==
    LET begin(r) == (r - 1) * (ScanlineSize(h) + 1) + 1
        bytes(r) == SubSeq(raw, begin(r) + 1, begin(r) + ScanlineSize(h))
    IN  [header |-> h,
         data   |-> FoldSet(LAMBDA r, data : Copied(data, PixelAt(h, r, 1), bytes(r)),
                            Blank(h), 1..h.height),
         filter |-> [r \in 1..h.height |-> raw[begin(r)]]]

\* Mutant: of equally near bytes the last one is taken.
PaethLast(a, b, c) ==
    LET near(v) == Max({a + b - c - v, v - (a + b - c)})
    IN  IF near(a) < near(b) /\ near(a) < near(c) THEN a
        ELSE IF near(b) < near(c) THEN b ELSE c

(* Of the bytes on the left, above and left above, in this order, the      *)
(* nearest to a + b - c.                                                   *)
Paeth(a, b, c) ==
    LET near(v) == Max({a + b - c - v, v - (a + b - c)})
    IN  IF near(a) <= near(b) /\ near(a) <= near(c) THEN a
        ELSE IF near(b) <= near(c) THEN b ELSE c

(* What sl_png_unapply_filter adds to byte i: of the pixels on the left,   *)
(* above, and left above. An unknown filter is taken for none.             *)
Predicted(filter, h, data, i) ==
    LET left  == i - BytesPerPixel(h)
        above == i - PixelAt(h, 1, 0)
    IN  CASE filter = 1 -> data[left]
          [] filter = 2 -> data[above]
          [] filter = 3 -> (data[left] + data[above]) \div 2
          [] filter = 4 -> Paeth(data[left], data[above], data[above - BytesPerPixel(h)])
          [] OTHER      -> 0

UnfilteredRow(img, r) ==
    FoldLeft(LAMBDA data, i :
                 [data EXCEPT ![i] = (@ + Predicted(img.filter[r], img.header, data, i)) % 256],
             img.data,
             [k \in 1..ScanlineSize(img.header) |-> PixelAt(img.header, r, 1) + k - 1])

-----------------------------------------------------------------------------
\* Files.

LittleEndian16(v) == <<v % 256, v \div 256>>
BigEndian16(v)    == <<v \div 256, v % 256>>

(* sl_hash_adler32. *)
Adler32(bytes) ==
    LET add(sums, byte) ==
          LET a == (sums[1] + byte) % 65521 IN <<a, (sums[2] + a) % 65521>>
        sums == FoldLeft(add, <<1, 0>>, bytes)
    IN  BigEndian16(sums[2]) \o BigEndian16(sums[1])

(* sl_deflate_uncompressed: stored blocks, the last with the final flag.   *)
Deflated(bytes) ==
    LET blocks   == (Len(bytes) + BLOCK_SIZE - 1) \div BLOCK_SIZE
        block(k) ==
          LET begin == (k - 1) * BLOCK_SIZE
              size  == Min({BLOCK_SIZE, Len(bytes) - begin})
          IN  <<IF begin + BLOCK_SIZE >= Len(bytes) THEN 1 ELSE 0>> \o
              LittleEndian16(size) \o LittleEndian16(65535 - size) \o
              SubSeq(bytes, begin + 1, begin + size)
    IN  <<7 * 16 + 8, 31 - (((7 * 16 + 8) * 256) % 31)>> \o
        FlattenSeq([k \in 1..blocks |-> block(k)]) \o Adler32(bytes)

Crc(type, data) == <<type, data>>

(* sl_png_chunk_fwrite. *)
ChunkFields(type, data) == <<Len(data), type>> \o data \o <<Crc(type, data)>>

(* sl_png_chunk_fwrite_header. *)
HeaderFields(h) ==
    <<"signature">> \o ChunkFields("IHDR",
        <<h.width, h.height, h.bit_depth, h.color_type, h.compression, h.filter, h.interlace>>)

(* sl_png_parse_header, of the first chunk. *)
HeaderOf(chunk) ==
    LET d == chunk.data
    IN  IF chunk.type # "IHDR"
        THEN NoHeader
        ELSE [width |-> d[1], height |-> d[2], bit_depth |-> d[3], color_type |-> d[4],
              compression |-> d[5], filter |-> d[6], interlace |-> d[7]]

ChunkType ==
    {"IHDR", "PLTE", "IDAT", "IEND", "bKGD", "cHRM", "dSIG", "eXIf", "gAMA", "hIST", "iCCP",
     "iTXt", "pHYs", "sBIT", "sPLT", "sRGB", "sTER", "tEXt", "tIME", "tRNS", "zTXt"}

(* The chunk at the position, and whether sl_png_read_next_chunk finds it  *)
(* whole, of a type it knows, and sl_png_read_n_chunks_fp its CRC right.   *)
ChunkAt(f, pos) ==
    [type |-> f[pos + 2], data |-> SubSeq(f, pos + 3, pos + 2 + f[pos + 1])]

ChunkWhole(f, pos) == pos + 2 <= Len(f) /\ pos + f[pos + 1] + 3 <= Len(f)

ChunkAccepted(f, pos) ==
    /\ ChunkWhole(f, pos)
    /\ LET chunk == ChunkAt(f, pos)
       IN  /\ chunk.type \in ChunkType
           /\ f[pos + Len(chunk.data) + 3] = Crc(chunk.type, chunk.data)

\* Mutant: the chunks of data are not put together, the last one is taken.
IdatLast(chunks) ==
    FoldLeft(LAMBDA idat, chunk : IF chunk.type = "IDAT" THEN chunk.data ELSE idat, <<>>, chunks)

Idat(chunks) ==
    FoldLeft(LAMBDA idat, chunk : IF chunk.type = "IDAT" THEN idat \o chunk.data ELSE idat,
             <<>>, chunks)

-----------------------------------------------------------------------------
\* sl_png_write_image.

(* No image is packed when memory runs out or there is nothing to pack.    *)
OpenToWrite ==
    /\ step = "fopen"
    /\ \/ step' = "notWritten" /\ fault' = TRUE /\ UNCHANGED files
       \/ /\ files' = target :> <<>> @@ files
          /\ step' = "closeUnwritten"
          /\ fault' = (fault \/ DataSize(image.header) # 0)
       \/ /\ files' = target :> <<>> @@ files
          /\ DataSize(image.header) # 0
          /\ step' = "IHDR"
          /\ UNCHANGED fault
    /\ UNCHANGED <<inflateVars, command, sample, target, image, read, row>>

Fields ==
    CASE step = "IHDR" -> HeaderFields(image.header)
      [] step = "IDAT" -> ChunkFields("IDAT", Deflated(Packed(image)))
      [] step = "IEND" -> ChunkFields("IEND", <<>>)

WriteChunk ==
    /\ step \in {"IHDR", "IDAT", "IEND"}
    /\ files' = [files EXCEPT ![target] = @ \o Fields]
    /\ step' = [IHDR |-> "IDAT", IDAT |-> "IEND", IEND |-> "close"][step]
    /\ UNCHANGED <<inflateVars, command, sample, target, image, read, row, fault>>

(* An fwrite is cut short: of all up to the last field of the chunk, Close *)
(* settles how much gets to the disk.                                      *)
WriteChunkFails ==
    /\ step \in {"IHDR", "IDAT", "IEND"}
    /\ files' = [files EXCEPT ![target] = @ \o Front(Fields)]
    /\ step' = "closeUnwritten"
    /\ UNCHANGED <<inflateVars, command, sample, target, image, read, row, fault>>

\* Mutant: closing the file makes the return value true.
ClosedAlwaysWritten == "written"

Closed == IF step = "close" THEN "written" ELSE "notWritten"

(* What is still in the stdio buffer may be lost, which fclose reports and *)
(* no one asks for.                                                        *)
Close ==
    /\ step \in {"close", "closeUnwritten"}
    /\ \E n \in 0..Len(files[target]) : files' = [files EXCEPT ![target] = SubSeq(@, 1, n)]
    /\ step' = Closed
    /\ UNCHANGED <<inflateVars, command, sample, target, image, read, row, fault>>

-----------------------------------------------------------------------------
\* dataset cifar_to_png.

StartConversion ==
    /\ step = "idle"
    /\ command' = "cifar_to_png"
    /\ sample' = 0
    /\ step' = "sample"
    /\ UNCHANGED <<inflateVars, files, target, image, read, row, fault>>

(* The file of labels is missing or not as it should be; labels that are   *)
(* not UTF-8 make a view of nothing, which asserts.                        *)
RejectLabels ==
    /\ step = "sample"
    /\ sample = 0
    /\ \/ step' = "failure" /\ UNCHANGED fault
       \/ step' = "crashed" /\ fault' = TRUE
    /\ UNCHANGED <<inflateVars, files, command, sample, target, image, read, row>>

(* Each batch is looked at before its first sample, when those of the      *)
(* batches before are written: it is missing or not of the size.           *)
RejectBatch ==
    /\ step = "sample"
    /\ sample < NumSamples /\ sample % BatchSize = 0
    /\ step' = "failure"
    /\ UNCHANGED <<inflateVars, files, command, sample, target, image, read, row, fault>>

(* An image that cannot be created is NoImage, which has no row to fill.   *)
ConvertSample ==
    /\ step = "sample"
    /\ sample < NumSamples
    /\ \E s \in Sample :
        \/ /\ s.label > MaxLabel
           /\ step' = "failure"
           /\ UNCHANGED <<target, image, fault>>
        \/ /\ s.label <= MaxLabel
           /\ target' = SampleFile(sample)
           /\ \/ image' = ImageOf(s) /\ UNCHANGED fault
              \/ image' = NoImage /\ fault' = TRUE
           /\ step' = "fopen"
    /\ UNCHANGED <<inflateVars, files, command, sample, read, row>>

EndConversion ==
    /\ step = "sample"
    /\ sample = NumSamples
    /\ step' = "success"
    /\ UNCHANGED <<inflateVars, files, command, sample, target, image, read, row, fault>>

(* The caller of sl_png_write_image: cifar_to_png goes on with the next    *)
(* sample, segment is done; both give up when the image is not written.    *)
AfterWriting ==
    /\ step \in {"written", "notWritten"}
    /\ step' = CASE step = "notWritten"                              -> "failure"
                 [] step = "written" /\ command = "cifar_to_png"     -> "sample"
                 [] step = "written" /\ command = "segment"          -> "success"
    /\ sample' = IF step' = "sample" THEN sample + 1 ELSE sample
    /\ UNCHANGED <<inflateVars, files, command, target, image, read, row, fault>>

-----------------------------------------------------------------------------
\* Reading: sl_png_read_chunks, sl_png_read_header or sl_png_read_image.

Reading(what) ==
    [what |-> what, pos |-> 0, chunks |-> <<>>, limit |-> IF what = "header" THEN 1 ELSE -1]

(* fopen, from which each of the three begins. *)
Open(what) ==
    /\ image' = NoImage
    /\ row' = 0
    /\ read' = Reading(what)
    /\ \/ step' = "signature" /\ UNCHANGED fault
       \/ step' = "notRead" /\ fault' = TRUE

(* A command on a file, which the conversion or someone else has made.     *)
StartTool(name) ==
    /\ \E c \in {"segment", "info", "dump_raw"} :
          command' = c /\ Open(IF c = "segment" THEN "image" ELSE "chunks")
    /\ target' = name
    /\ UNCHANGED <<inflateVars, sample>>

ReadSignature ==
    /\ step = "signature"
    /\ IF files[target] # <<>> /\ Head(files[target]) = "signature"
       THEN step' = "chunk" /\ read' = [read EXCEPT !.pos = 1]
       ELSE step' = "notRead" /\ UNCHANGED read
    /\ UNCHANGED <<inflateVars, files, command, sample, target, image, row, fault>>

ReadChunk ==
    /\ step = "chunk"
    /\ ChunkAccepted(files[target], read.pos)
    /\ LET chunk == ChunkAt(files[target], read.pos)
       IN  /\ read' = [read EXCEPT !.pos    = @ + Len(chunk.data) + 3,
                                   !.chunks = Append(@, chunk)]
           /\ step' = IF chunk.type = "IEND" \/ Len(read.chunks) + 1 = read.limit
                      THEN "chunksRead" ELSE "chunk"
    /\ UNCHANGED <<inflateVars, files, command, sample, target, image, row, fault>>

(* One bad chunk, or no memory for one, and there are no chunks at all.    *)
ReadChunkFails ==
    /\ step = "chunk"
    /\ \/ ~ChunkAccepted(files[target], read.pos) /\ UNCHANGED fault
       \/ fault' = TRUE
    /\ read' = [read EXCEPT !.chunks = <<>>]
    /\ step' = "notRead"
    /\ UNCHANGED <<inflateVars, files, command, sample, target, image, row>>

(* sl_png_read_image_fp up to the call of sl_inflate. *)
BeginImage ==
    /\ step = "chunksRead"
    /\ read.what = "image"
    /\ image' = [NoImage EXCEPT !.header = HeaderOf(read.chunks[1])]
    /\ \/ /\ IsSupported(image'.header)
          /\ step' = "inflate"
          /\ src' = Idat(Tail(read.chunks))
          /\ srcBit' = 0
          /\ dst' = <<>>
          /\ dstSize' = DataSize(image'.header)
          /\ pc' = "header"
          /\ UNCHANGED fault
       \/ /\ \/ ~IsSupported(image'.header) /\ UNCHANGED fault
             \/ fault' = TRUE
          /\ step' = "notRead"
          /\ UNCHANGED <<src, srcBit, dst, dstSize, pc>>
    /\ UNCHANGED <<isFinal, counts, codeLengths, trees, copy>>
    /\ UNCHANGED <<files, command, sample, target, read, row>>

Inflate ==
    /\ step = "inflate"
    /\ InflateNext
    /\ UNCHANGED pngVars

(* An error is the size 0, as that of an image without rows.               *)
NumDecoded == IF pc = "done" THEN Len(dst) ELSE 0

AfterInflate ==
    /\ step = "inflate"
    /\ pc \in {"done", "error", "aborted", "undefined"}
    /\ step' = IF pc \in {"aborted", "undefined"} THEN "crashed"
               ELSE IF NumDecoded = DataSize(image.header) THEN "unpack"
               ELSE "notRead"
    /\ UNCHANGED <<inflateVars, files, command, sample, target, image, read, row, fault>>

(* Without memory for it the image stays as it is, and the null pointer in *)
(* place of its filters is read from next, unless it has no row.           *)
Unpack ==
    /\ step = "unpack"
    /\ \/ /\ image' = Padded(image.header, dst)
          /\ row' = 1
          /\ step' = "unfilter"
          /\ UNCHANGED fault
       \/ /\ step' = IF image.header.height = 0 THEN "image" ELSE "crashed"
          /\ fault' = TRUE
          /\ UNCHANGED <<image, row>>
    /\ UNCHANGED <<inflateVars, files, command, sample, target, read>>

UnapplyFilter ==
    /\ step = "unfilter"
    /\ IF row <= image.header.height
       THEN /\ image' = [image EXCEPT !.data = UnfilteredRow(image, row)]
            /\ row' = row + 1
            /\ UNCHANGED step
       ELSE step' = "image" /\ UNCHANGED <<image, row>>
    /\ UNCHANGED <<inflateVars, files, command, sample, target, read, fault>>

-----------------------------------------------------------------------------
\* The commands of png.

(* sl_img_segment_rgb, of which Segmentation has the details: pixels take  *)
(* the colour of another one; here all the colour of the first, or none.   *)
Painted(img) ==
    LET h     == img.header
        first == [b \in 1..BytesPerPixel(h) |-> img.data[PixelAt(h, 1, 1) + b - 1]]
    IN  {img, [img EXCEPT !.data =
                  FoldSet(LAMBDA p, data : Copied(data, PixelAt(h, p[1], p[2]), first),
                          @, (1..h.height) \X (1..h.width))]}

(* Without memory there is no result, and the file of no image is opened;  *)
(* or the copy is half there, and a null pointer is written to. An image   *)
(* that Unpack has left without data is read through one.                  *)
Segment ==
    /\ step = "image"
    /\ command = "segment"
    /\ target' = ResultFile
    /\ \/ /\ image.data # NoImage.data
          /\ image' \in Painted(image)
          /\ step' = "fopen"
          /\ UNCHANGED fault
       \/ image' = NoImage /\ step' \in {"fopen", "crashed"} /\ fault' = TRUE
    /\ UNCHANGED <<inflateVars, files, command, sample, read, row>>

FailTool ==
    /\ step = "notRead"
    /\ command \in {"segment", "dump_raw"}
    /\ step' = "failure"
    /\ UNCHANGED <<inflateVars, files, command, sample, target, image, read, row, fault>>

(* dump_raw writes the data of the chunks it is asked for to stdout.       *)
DumpRaw ==
    /\ step = "chunksRead"
    /\ command = "dump_raw"
    /\ step' = "success"
    /\ UNCHANGED <<inflateVars, files, command, sample, target, image, read, row, fault>>

(* info reads chunks, header and image one after the other, prints what it *)
(* has got, and succeeds with or without.                                  *)
InfoGoesOn ==
    /\ command = "info"
    /\ step \in {"chunksRead", "notRead"}
    /\ \/ /\ read.what = "chunks"
          /\ Open("header")
       \/ /\ read.what = "header"
          /\ step = "chunksRead" /\ IsSupported(HeaderOf(read.chunks[1]))
          /\ Open("image")
    /\ UNCHANGED <<inflateVars, files, command, sample, target>>

InfoEnds ==
    /\ command = "info"
    /\ \/ /\ read.what = "header"
          /\ step = "chunksRead" => ~IsSupported(HeaderOf(read.chunks[1]))
          /\ step \in {"chunksRead", "notRead"}
       \/ /\ read.what = "image"
          /\ step \in {"image", "notRead"}
    /\ step' = "success"
    /\ UNCHANGED <<inflateVars, files, command, sample, target, image, read, row, fault>>

PngNext ==
    \/ OpenToWrite
    \/ WriteChunk
    \/ WriteChunkFails
    \/ Close
    \/ StartConversion
    \/ RejectLabels
    \/ RejectBatch
    \/ ConvertSample
    \/ EndConversion
    \/ AfterWriting
    \/ ReadSignature
    \/ ReadChunk
    \/ ReadChunkFails
    \/ BeginImage
    \/ Inflate
    \/ AfterInflate
    \/ Unpack
    \/ UnapplyFilter
    \/ Segment
    \/ FailTool
    \/ DumpRaw
    \/ InfoGoesOn
    \/ InfoEnds
=============================================================================
