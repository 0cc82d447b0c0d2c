----------------------------- MODULE MCInflate -----------------------------
(***************************************************************************)
(* One call of sl_inflate on a stream that an encoder after RFC 1951 has   *)
(* written, sound or with one field of it damaged. What the encoder chooses*)
(* is the input of the model.                                              *)
(***************************************************************************)
EXTENDS Inflate, DeflateStreams

CONSTANTS MaxLone,     \* tokens of a block that is alone in its stream
          MaxFirst     \* tokens of the first of two blocks

VARIABLE stream        \* what the encoder wrote

vars == <<inflateVars, stream>>

-----------------------------------------------------------------------------

(* What the encoder knows of a stream: the text, where the last block ends,*)
(* whether it is sound and there is room for its text, and which of the    *)
(* code's gaps it meets.                                                   *)
Written(text, end, sound, gap) == [text |-> text, end |-> end, sound |-> sound, gap |-> gap]

Init ==
    /\ pc = "idle"
    /\ stream = Written(<<>>, 0, TRUE, "none")
    /\ Stream(<<>>, 0)

Unpack(bytes, size) ==
    /\ pc' = "header"
    /\ src' = bytes
    /\ dstSize' = size
    /\ UNCHANGED <<srcBit, dst, isFinal, counts, codeLengths, trees, copy>>

(* Everything an encoder may do with up to lone tokens in one block and up *)
(* to first and one more in two, and some longer streams.                  *)
Sound(lone, first) ==
    Lone(lone) \union Pairs(first) \union Alone(<< <<0>>, <<3, 1>> >>) \union
    Triples(<< <<0>> >>, << <<200>>, <<3, 1>> >>) \union Long(Row(10))

End(blocks) == Len(BlocksBits(blocks, HeaderBits))

GapOf(blocks) ==
    IF blocks[1].alone THEN "alone"
    ELSE IF StoredUnpadded(blocks, HeaderBits) THEN "unpadded"
    ELSE "none"

UnpackEncoded ==
    /\ pc = "idle"
    /\ \E blocks \in Sound(MaxLone, MaxFirst) \union Reserved(Short(2)) :
        /\ stream' = Written(BlocksText(blocks), End(blocks), ~IsReserved(blocks), GapOf(blocks))
        /\ Unpack(Zlib(blocks), Len(BlocksText(blocks)))

(* One byte less than the text needs. *)
UnpackWithoutRoom ==
    /\ pc = "idle"
    /\ \E blocks \in Lone(2) \union Pairs(1) :
        /\ stream' = Written(BlocksText(blocks), End(blocks), FALSE,
                             IF \E n \in DOMAIN blocks : blocks[n].type = "stored"
                             THEN "stored" ELSE "none")
        /\ Unpack(Zlib(blocks), Len(BlocksText(blocks)) - 1)

UnpackDamaged ==
    /\ pc = "idle"
    /\ \/ \E bytes \in Damaged(Short(2)) \union NoLengths :
          stream' = Written(<<0, 200>>, 0, FALSE, "none") /\ Unpack(bytes, 2)
       \/ \E bytes \in Far(Short(2)), size \in {2, 5} :
          stream' = Written(<<0, 200>>, 0, FALSE, "far") /\ Unpack(bytes, size)
       \/ \E bytes \in ReservedDistance(Short(2)) :
          stream' = Written(<<0, 200>>, 0, FALSE, "reserved") /\ Unpack(bytes, 5)
       \/ \E bytes \in LongLengths :
          stream' = Written(<<>>, 0, FALSE, "lengths") /\ Unpack(bytes, 16)

(* How a call ends: with what it returns, by an assert, or undefined.      *)
Ended == pc \in {"done", "error", "aborted", "undefined"} /\ UNCHANGED vars

Next ==
    \/ UnpackEncoded
    \/ UnpackWithoutRoom
    \/ UnpackDamaged
    \/ InflateNext /\ UNCHANGED stream
    \/ Ended

Spec == Init /\ [][Next]_vars

-----------------------------------------------------------------------------

(* Whatever the blocks, their order and their codes, each byte unpacked is *)
(* the byte of the text at its place (sl_deflate_inflate_block and the     *)
(* block functions); also in a damaged stream, up to where it is noticed.  *)
OutputIsText == IsPrefix(dst, stream.text)

(* sl_inflate returns a size for a sound stream with room for its text,    *)
(* with the whole text unpacked and src_bit behind the last bit of the last*)
(* block, and 0 or an abort for any other stream. There are exceptions. A  *)
(* sound stream with an unpadded stored block is refused, and with one     *)
(* whose only distance is the smallest the code leaves its arrays. It      *)
(* leaves them also where a stored block has no room, code lengths go on   *)
(* too long, a distance is a reserved one or leads far in front of the     *)
(* text; or of a copy from there it makes nothing, and goes on.            *)
EndsAsEncoded ==
    /\ pc = "done" =>
          \/ stream.sound /\ dst = stream.text /\ srcBit = stream.end
          \/ stream.gap = "far" /\ dst = stream.text
    /\ pc \in {"error", "aborted"} => ~stream.sound \/ stream.gap = "unpadded"
    /\ pc = "undefined" => stream.gap \in {"alone", "stored", "lengths", "reserved", "far"}
=============================================================================
