------------------------------ MODULE JsonParser ------------------------------
(* The streaming parser of stufflib/json/json.c: one action of Advance is    *)
(* one call of sl_json_parse_advance, which looks at one character, changes  *)
(* the parser state and emits at most one event.  Characters are the classes *)
(* of JsonGrammar; a literal and an escape sequence are read whole, as in    *)
(* the code, and are one character here.  Positions count these characters.  *)
(*                                                                           *)
(* The text is revealed as the parser reaches it: closed says that its end   *)
(* is known.  The code compares pos with len only, so it cannot tell.        *)
EXTENDS Integers, Sequences, JsonGrammar

CONSTANT MaxDepth        \* SL_JSON_PARSE_MAX_DEPTH

ASSUME MaxDepthAssumption == MaxDepth \in Nat \ {0}

VARIABLES
  text,        \* the characters of json known so far
  closed,      \* no more characters follow
  pos,         \* offset of the next character to read
  state,       \* enum sl_json_parse_state
  depth,       \* number of open containers
  stack,       \* the kind of each open container, stale above depth
  arrayPos,    \* the index of the current element in each open array
  event,       \* the event of the last call
  valueBegin,  \* offset of the current value
  keyBegin,    \* offset of the current key, after its quote
  keyLen,      \* its length
  more         \* what the last call returned

source == <<text, closed>>
parser == <<pos, state, depth, stack, arrayPos, event, valueBegin, keyBegin, keyLen, more>>

Level   == 0..MaxDepth - 1
Failed  == {"error", "error_end_of_input"}
Ended   == Failed \cup {"done"}
StringStates == {"string_value", "string_key",
                 "string_escape_value", "string_escape_key"}
NumberEnds == {"number_zero", "number_one_nine", "number_frac_digits", "number_exp_digits"}

(* SIZE_MAX, which the first element wraps to 0.                             *)
BeforeFirst == -1

NoEvent == [type |-> "none", node |-> "none", depth |-> 0]
Event(type, node, d) == [type |-> type, node |-> node, depth |-> d]

ParserInit ==
  /\ pos = 0 /\ state = "element" /\ depth = 0
  /\ stack = [l \in Level |-> "none"]
  /\ arrayPos = [l \in Level |-> 0]
  /\ event = NoEvent
  /\ valueBegin = 0 /\ keyBegin = 0 /\ keyLen = 0
  /\ more = TRUE

(* The character a call looks at: 0 from the end of the text on.             *)
Ch == IF pos < Len(text) THEN text[pos + 1] ELSE NUL

(* The call can be made: the character, or that there is none, is known.     *)
Readable == pos < Len(text) \/ closed \/ state \in Ended

(* The last statement: what the call returns once it has set the state, the  *)
(* depth and the offset "at" of the character it has consumed last.          *)
Goto(s, at) ==
  /\ state' = s
  /\ pos' = at + 1
  /\ more' = (at + 1 <= Len(text) /\ depth' < MaxDepth)

(* A character is put back by reading the next one at the same offset.       *)
Unget(s) == Goto(s, pos - 1)

Silent == event' = NoEvent
KeepDepth == UNCHANGED <<depth, stack, arrayPos>>
KeepSpans == UNCHANGED <<valueBegin, keyBegin, keyLen>>

(* The transitions that only change the state: from, on, to.                 *)
SpaceMoves ==
  {<<s, Space, s>> : s \in {"element", "object", "member", "colon", "array",
                            "array_element", "after_value"}}

ColonMove == <<"colon", {":"}, "element">>

StringMoves ==
  {<<"string_value", Plain, "string_value">>,
   <<"string_value", {BS}, "string_escape_value">>,
   <<"string_escape_value", Escaped, "string_value">>,
   <<"string_key", Plain, "string_key">>,
   <<"string_key", {BS}, "string_escape_key">>,
   <<"string_escape_key", Escaped, "string_key">>}

NumberMoves ==
  {<<"number_minus", {"0"}, "number_zero">>,
   <<"number_minus", {"1"}, "number_one_nine">>,
   <<"number_one_nine", Digit, "number_one_nine">>,
   <<"number_zero", {"."}, "number_frac_first">>,
   <<"number_one_nine", {"."}, "number_frac_first">>,
   <<"number_frac_first", Digit, "number_frac_digits">>,
   <<"number_frac_digits", Digit, "number_frac_digits">>,
   <<"number_exp_sign", {"+", "-"}, "number_exp_first">>,
   <<"number_exp_sign", Digit, "number_exp_digits">>,
   <<"number_exp_first", Digit, "number_exp_digits">>,
   <<"number_exp_digits", Digit, "number_exp_digits">>}
  \cup {<<s, {"e"}, "number_exp_sign">> : s \in NumberEnds \ {"number_exp_digits"}}

Moves == SpaceMoves \cup {ColonMove} \cup StringMoves \cup NumberMoves

Moving == \E m \in Moves : m[1] = state /\ Ch \in m[2]

Move ==
  \E m \in Moves :
    /\ m[1] = state /\ Ch \in m[2]
    /\ KeepDepth /\ KeepSpans /\ Silent
    /\ Goto(m[3], pos)

(* A scalar of several characters starts.                                    *)
ScalarState ==
  [c \in {DQ, "-", "0", "1"} |-> CASE c = DQ  -> "string_value"
                                   [] c = "-" -> "number_minus"
                                   [] c = "0" -> "number_zero"
                                   [] c = "1" -> "number_one_nine"]

BeginScalar ==
  /\ state = "element" /\ Ch \in DOMAIN ScalarState
  /\ valueBegin' = pos
  /\ KeepDepth /\ Silent /\ UNCHANGED <<keyBegin, keyLen>>
  /\ Goto(ScalarState[Ch], pos)

Literal ==
  /\ state = "element" /\ Ch = "true"
  /\ valueBegin' = pos
  /\ event' = Event("value", "literal", depth)
  /\ KeepDepth /\ UNCHANGED <<keyBegin, keyLen>>
  /\ Goto("after_value", pos)

(* Opening and closing containers.                                           *)
Opens == [c \in {"{", "["} |-> IF c = "{" THEN "object" ELSE "array"]
Closes == [kind \in {"object", "array"} |-> IF kind = "object" THEN "}" ELSE "]"]

BeginContainer ==
  /\ state = "element" /\ Ch \in DOMAIN Opens
  /\ event' = Event("begin_node", Opens[Ch], depth)
  /\ valueBegin' = pos
  /\ stack' = [stack EXCEPT ![depth] = Opens[Ch]]
  /\ arrayPos' = IF Ch = "[" THEN [arrayPos EXCEPT ![depth] = BeforeFirst] ELSE arrayPos
  /\ depth' = depth + 1
  /\ UNCHANGED <<keyBegin, keyLen>>
  /\ Goto(Opens[Ch], pos)

(* The container an end is expected of: the empty one just opened, or the    *)
(* innermost one after a value in it.                                        *)
Inner == stack[depth - 1]
MayClose ==
  CASE state \in {"object", "array"} -> {state}
    [] state = "after_value" /\ depth > 0 -> {Inner}
    [] OTHER -> {}

\* Mutant: the container left stays open.
EndContainerKeepsDepth ==
  \E kind \in MayClose :
    /\ Ch = Closes[kind]
    /\ event' = Event("end_node", kind, depth - 1)
    /\ UNCHANGED <<depth, stack, arrayPos>> /\ KeepSpans
    /\ Goto("after_value", pos)

EndContainer ==
  \E kind \in MayClose :
    /\ Ch = Closes[kind]
    /\ depth' = depth - 1
    /\ event' = Event("end_node", kind, depth - 1)
    /\ UNCHANGED <<stack, arrayPos>> /\ KeepSpans
    /\ Goto("after_value", pos)

(* The first member of an object, and the first element of an array: the     *)
(* character is put back for the state that reads members and elements.      *)
FirstMember ==
  /\ state = "object" /\ Ch = DQ
  /\ KeepDepth /\ KeepSpans /\ Silent
  /\ Unget("member")

\* Mutant: the first element is read again as the beginning of its array.
FirstElementStays ==
  /\ state = "array" /\ Ch \notin Space \cup {"]", NUL}
  /\ KeepDepth /\ KeepSpans /\ Silent
  /\ Unget("array")

FirstElement ==
  /\ state = "array" /\ Ch \notin Space \cup {"]", NUL}
  /\ KeepDepth /\ KeepSpans /\ Silent
  /\ Unget("array_element")

(* Each element of an array counts itself before it is parsed.               *)
NextIndex(a, l) == [a EXCEPT ![l] = a[l] + 1]

Element ==
  /\ state = "array_element" /\ Ch \notin Space \cup {NUL}
  /\ arrayPos' = NextIndex(arrayPos, depth - 1)
  /\ UNCHANGED <<depth, stack>> /\ KeepSpans /\ Silent
  /\ Unget("element")

BeginKey ==
  /\ state = "member" /\ Ch = DQ
  /\ valueBegin' = pos
  /\ KeepDepth /\ UNCHANGED <<keyBegin, keyLen>> /\ Silent
  /\ Goto("string_key", pos)

EndKey ==
  /\ state = "string_key" /\ Ch = DQ
  /\ event' = Event("key", "string", depth)
  /\ keyBegin' = valueBegin + 1
  /\ keyLen' = pos - valueBegin - 1
  /\ KeepDepth /\ UNCHANGED valueBegin
  /\ Goto("colon", pos)

EndString ==
  /\ state = "string_value" /\ Ch = DQ
  /\ event' = Event("value", "string", depth)
  /\ KeepDepth /\ KeepSpans
  /\ Goto("after_value", pos)

(* Only the character after a number ends it: it is put back.                *)
EndNumber ==
  /\ state \in NumberEnds /\ ~Moving
  /\ event' = Event("value", "number", depth)
  /\ KeepDepth /\ KeepSpans
  /\ Unget("after_value")

\* Mutant: after a comma the container begins anew.
AfterCommaReopens == [kind \in {"object", "array"} |-> kind]

AfterComma == [kind \in {"object", "array"} |->
                 IF kind = "object" THEN "member" ELSE "array_element"]

Comma ==
  /\ state = "after_value" /\ depth > 0 /\ Ch = ","
  /\ KeepDepth /\ KeepSpans /\ Silent
  /\ Goto(AfterComma[Inner], pos)

EndOfText == state = "after_value" /\ depth = 0 /\ pos = Len(text)

Done ==
  /\ EndOfText
  /\ KeepDepth /\ KeepSpans /\ Silent
  /\ Goto("done", pos)

(* The characters a state takes other than by a Move.                        *)
Takes ==
  CASE state = "element"                   -> DOMAIN Opens \cup DOMAIN ScalarState \cup {"true"}
    [] state = "object"                    -> {"}", DQ}
    [] state \in {"array", "array_element"} -> Char \ {NUL}
    [] state \in {"member", "string_value", "string_key"} -> {DQ}
    [] state \in NumberEnds                -> Char
    [] state = "after_value" /\ depth > 0  -> {",", Closes[Inner]}
    [] OTHER                               -> {}

(* Anything else is an error; the byte 0, and so the end of the text, is an  *)
(* unexpected end of input, except after the outermost value.                *)
Unexpected ==
  /\ state \notin Ended /\ ~Moving /\ Ch \notin Takes /\ ~EndOfText
  /\ state' = IF Ch = NUL /\ ~(state = "after_value" /\ depth = 0)
              THEN "error_end_of_input" ELSE "error"
  /\ more' = FALSE
  /\ KeepDepth /\ KeepSpans /\ Silent /\ UNCHANGED pos

(* A call after the end leaves nothing but an error.                         *)
AfterEnd ==
  /\ state \in Ended
  /\ state' = "error" /\ more' = FALSE
  /\ KeepDepth /\ KeepSpans /\ Silent /\ UNCHANGED pos

Advance ==
  /\ Readable
  /\ UNCHANGED source
  /\ \/ Move \/ BeginScalar \/ Literal \/ BeginContainer \/ EndContainer
     \/ FirstMember \/ FirstElement \/ Element
     \/ BeginKey \/ EndKey \/ EndString \/ EndNumber
     \/ Comma \/ Done \/ Unexpected \/ AfterEnd
===============================================================================
