-------------------------------- MODULE Utf8 --------------------------------
(***************************************************************************)
(* src/stufflib/unicode/unicode.c: which sequences of bytes are UTF-8, and *)
(* how many codepoints they have.                                          *)
(***************************************************************************)
EXTENDS Integers, Sequences, FiniteSetsExt

\* Mutant: any byte may follow the byte ed, so surrogates are let in.
TransitionsWithSurrogates(state) ==
    CASE state = "start" ->
           {<<0, 127, "end">>, <<194, 223, "byte4_f">>, <<224, 224, "byte2_e0">>,
            <<225, 239, "byte2_e">>, <<240, 240, "byte2_f0">>, <<241, 243, "byte2_f">>,
            <<244, 244, "byte2_f4">>}
      [] state = "byte2_e"              -> {<<128, 191, "byte4_f">>}
      [] state = "byte2_e0"             -> {<<160, 191, "byte4_f">>}
      [] state \in {"byte2_f", "byte3_f"} ->
           {<<128, 191, IF state = "byte2_f" THEN "byte3_f" ELSE "byte4_f">>}
      [] state = "byte2_f0"             -> {<<144, 191, "byte3_f">>}
      [] state = "byte2_f4"             -> {<<128, 143, "byte3_f">>}
      [] state = "byte4_f"              -> {<<128, 191, "end">>}
      [] OTHER                          -> {}

(* The decoder of sl_unicode_codepoint_width_from_utf8: what a state leads *)
(* to on each range of bytes. byte2_c2 and byte3_e, which do the same as   *)
(* byte4_f, are one with it.                                               *)
Transitions(state) ==
    CASE state = "start" ->
           {<<0, 127, "end">>, <<194, 223, "byte4_f">>, <<224, 224, "byte2_e0">>,
            <<225, 236, "byte2_e">>, <<237, 237, "byte2_ed">>, <<238, 239, "byte2_e">>,
            <<240, 240, "byte2_f0">>, <<241, 243, "byte2_f">>, <<244, 244, "byte2_f4">>}
      [] state = "byte2_e"  -> {<<128, 191, "byte4_f">>}
      [] state = "byte2_e0" -> {<<160, 191, "byte4_f">>}
      [] state = "byte2_ed" -> {<<128, 159, "byte4_f">>}
      [] state = "byte2_f"  -> {<<128, 191, "byte3_f">>}
      [] state = "byte2_f0" -> {<<144, 191, "byte3_f">>}
      [] state = "byte2_f4" -> {<<128, 143, "byte3_f">>}
      [] state = "byte3_f"  -> {<<128, 191, "byte4_f">>}
      [] state = "byte4_f"  -> {<<128, 191, "end">>}
      [] OTHER              -> {}

Decoded(state, byte) ==
    LET next == {t \in Transitions(state) : byte \in t[1]..t[2]}
    IN  IF next = {} THEN "error" ELSE (CHOOSE t \in next : TRUE)[3]

ERROR_WIDTH == 0    \* SL_UNICODE_ERROR_WIDTH

(* The width of the codepoint after the first n bytes.                     *)
WidthAt(bytes, n) ==
    LET most == Min({4, Len(bytes) - n})
        state[i \in 0..most] ==
          IF i = 0 THEN "start" ELSE Decoded(state[i - 1], bytes[n + i])
        ends == {i \in 1..most : state[i] = "end"}
    IN  IF ends = {} THEN ERROR_WIDTH ELSE Min(ends)

(* sl_unicode_is_valid_utf8. *)
IsValidUtf8(bytes) ==
    LET validFrom[n \in 0..Len(bytes)] ==
          \/ n = Len(bytes)
          \/ \E width \in {WidthAt(bytes, n)} \ {ERROR_WIDTH} : validFrom[n + width]
    IN  validFrom[0]

(* sl_unicode_length: the turns of an iterator, which passes a byte where  *)
(* there is no codepoint; 0 if there is such a place.                      *)
Length(bytes) ==
    LET from[n \in 0..Len(bytes)] ==
          IF n = Len(bytes) THEN 0 ELSE 1 + from[n + Max({WidthAt(bytes, n), 1})]
    IN  IF IsValidUtf8(bytes) THEN from[0] ELSE 0

(* sl_unicode_codepoint_from_utf8: the bits of a codepoint's bytes.        *)
Codepoint(bytes) ==
    LET lead == bytes[1] % <<128, 32, 16, 8>>[Len(bytes)]
        value[i \in 1..Len(bytes)] ==
          IF i = 1 THEN lead ELSE 64 * value[i - 1] + (bytes[i] % 64)
    IN  value[Len(bytes)]

(* sl_unicode_codepoint_width: how many bytes a codepoint takes.           *)
CodepointWidth(value) ==
    IF value < 128 THEN 1
    ELSE IF value < 2048 THEN 2
    ELSE IF value < 65536 THEN 3
    ELSE IF value < 1114112 THEN 4
    ELSE ERROR_WIDTH
=============================================================================
