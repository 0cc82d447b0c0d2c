------------------------------ MODULE JsonCount ------------------------------
(* sl_json_count_nodes and sl_json_is_valid of stufflib/json/json.c: the     *)
(* parser run over a whole text, counting the values it ends.  The text is   *)
(* any one: it is chosen a character at a time, when the parser asks for it, *)
(* and the derivations of JsonGrammar are kept beside it.                    *)
EXTENDS JsonParser, FiniteSets

CONSTANT Profile         \* which texts to try: see ProfileAssumption

(* char and string are the characters to choose from outside of strings and  *)
(* in them (the parser takes all plain ones alike there), length a bound.    *)
ASSUME ProfileAssumption ==
  Profile \subseteq [char : SUBSET Char, string : SUBSET Char, length : Nat]

VARIABLES
  count,       \* the nodes counted so far
  profile,     \* the profile of the text
  grammar      \* the derivations of the text read so far

vars == <<source, parser, count, profile, grammar>>

Init ==
  /\ text = <<>> /\ closed = FALSE
  /\ ParserInit
  /\ count = 0
  /\ profile \in Profile
  /\ grammar = Start

Asked == ~closed /\ more /\ pos = Len(text)

(* The environment: one more character, or the end of the text.              *)
Choose(c) ==
  /\ Asked /\ Len(text) < profile.length
  /\ c \in IF state \in StringStates THEN profile.string ELSE profile.char
  /\ text' = Append(text, c)
  /\ grammar' = After(grammar, c)
  /\ UNCHANGED <<closed, parser, count, profile>>

Close ==
  /\ Asked
  /\ closed' = TRUE
  /\ UNCHANGED <<text, parser, count, profile, grammar>>

(* An empty text is refused before any call of the parser.                   *)
Empty ==
  /\ closed /\ text = <<>> /\ more
  /\ more' = FALSE
  /\ UNCHANGED <<source, pos, state, depth, stack, arrayPos, event,
                 valueBegin, keyBegin, keyLen, count, profile, grammar>>

\* Mutant: a container is counted at both of its ends.
CountedEventsBeginNode == {"begin_node", "value", "end_node"}

(* The events that end a node.                                               *)
CountedEvents == {"value", "end_node"}

(* One turn of the loop: the event counts only if the call returned true.    *)
Count ==
  /\ more /\ text # <<>>
  /\ Advance
  /\ count' = IF more' /\ event'.type \in CountedEvents THEN count + 1 ELSE count
  /\ UNCHANGED <<profile, grammar>>

Next == (\E c \in Char : Choose(c)) \/ Close \/ Empty \/ Count

(* The text is finite and the call is sequential code that nothing blocks.   *)
Spec == Init /\ [][Next]_vars /\ WF_vars(Next)

(* What sl_json_count_nodes returns; sl_json_is_valid is Result > 0.         *)
Result == IF state = "done" THEN count ELSE 0

------------------------------------------------------------------------------
(* The parser fails at the first character that no JSON text can have there: *)
(* never earlier, and never later, so what it has accepted is the beginning  *)
(* of a JSON text.                                                           *)
RejectsAtOnce ==
  pos = Len(text) + (IF state \in Failed THEN -1 ELSE 0) =>
    (grammar = {} <=> state \in Failed)

(* The stack of containers the parser keeps is the brackets still to close,  *)
(* whatever brackets the strings hold, and has room for one more whenever    *)
(* the next call may open one (json.c:124, 137).                             *)
OpenContainers ==
  /\ more => depth < MaxDepth
  /\ (pos = Len(text) /\ state \notin Failed) =>
       \A d \in Inside(grammar) : ToClose(d) = [i \in 1..depth |-> Closes[stack[depth - i]]]

(* A whole text is given the number of its nodes if it is JSON, and 0 if it  *)
(* is not; reading stops before that only at the nesting limit.              *)
CountsNodes ==
  ~more =>
    /\ closed => {Result} = IF Accepting(grammar) = {} THEN {0}
                            ELSE {d.nodes : d \in Accepting(grammar)}
    /\ (~closed /\ state \notin Failed) => depth = MaxDepth /\ Result = 0

(* The call returns on every text: putting characters back never makes the   *)
(* parser turn around between states.                                        *)
Returns == <>(~more)
==============================================================================
