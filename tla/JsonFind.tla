------------------------------- MODULE JsonFind -------------------------------
(* sl_json_find_path of stufflib/json/json.c: the parser run until the node  *)
(* a path leads to is found, or the text is exhausted.  The text is the      *)
(* beginning of a document, cut at any place.                                *)
EXTENDS JsonParser, JsonDocument, FiniteSets

CONSTANTS
  Document,    \* the documents to search, of JsonDocument
  Path         \* the paths to search them for: sequences of Key and Index

ASSUME PathAssumption == \A p \in Path : p # <<>>

VARIABLES
  doc,         \* the document the text is a beginning of
  path,        \* the steps of the path
  stepIdx,     \* the number of steps already followed (step_idx)
  phase,       \* which loop the call is in, or what it returned
  target,      \* the depth at which the found container ends (target_depth)
  node         \* the span it returns: value_begin and value_len

search == <<stepIdx, phase, target, node>>
vars == <<source, parser, doc, path, search>>

NoNode == [begin |-> 0, len |-> 0]

Init ==
  /\ text = <<>> /\ closed = FALSE
  /\ ParserInit
  /\ doc \in Document /\ path \in Path
  /\ stepIdx = 0 /\ phase = "navigate" /\ target = 0 /\ node = NoNode

Returned == phase \in {"found", "not_found"}
Asked == ~closed /\ ~Returned /\ pos = Len(text) /\ state \notin Ended

(* The environment: one more character of the document, or the end.          *)
Reveal ==
  /\ Asked /\ Len(text) < Len(doc.text)
  /\ text' = Append(text, doc.text[Len(text) + 1])
  /\ UNCHANGED <<closed, parser, doc, path, search>>

Cut ==
  /\ Asked
  /\ closed' = TRUE
  /\ UNCHANGED <<text, parser, doc, path, search>>

\* Mutant: a key is matched by the step that it begins.
KeyMatchesPrefix(step) ==
  /\ event'.type = "key" /\ ~step.isIndex
  /\ SubSeq(text, keyBegin' + 1, keyBegin' + Len(step.key)) = step.key

(* The key just read is the one the step asks for.                           *)
KeyMatches(step) ==
  /\ event'.type = "key" /\ ~step.isIndex
  /\ keyLen' = Len(step.key)
  /\ SubSeq(text, keyBegin' + 1, keyBegin' + keyLen') = step.key

(* The node just met is the element the step asks for.                       *)
IndexMatches(step) ==
  /\ step.isIndex /\ event'.depth > 0
  /\ stack'[event'.depth - 1] = "array"
  /\ arrayPos'[event'.depth - 1] = step.index

\* Mutant: the beginning of a node resets the step as an end does.
FollowedBeginResets ==
  LET level == stepIdx + 1
      step  == path[level]
  IN  IF event'.type = "none" \/ event'.depth > level THEN stepIdx
      ELSE IF event'.depth < level THEN 0
      ELSE IF KeyMatches(step) \/ IndexMatches(step) THEN level ELSE stepIdx

(* How far the path is followed after the event of this call: an event above *)
(* the level searched ends the container descended into, unless it begins    *)
(* one, and one below it is skipped.                                         *)
Followed ==
  LET level == stepIdx + 1
      step  == path[level]
  IN  IF event'.type = "none" \/ event'.depth > level THEN stepIdx
      ELSE IF event'.depth < level
      THEN IF event'.type = "begin_node" THEN stepIdx ELSE 0
      ELSE IF KeyMatches(step) \/ IndexMatches(step) THEN level ELSE stepIdx

NotFound == phase' = "not_found" /\ node' = NoNode /\ UNCHANGED target

(* Phase 2 from its first assignment of the node on.                         *)
Extract ==
  IF state' = "error" THEN NotFound
  ELSE IF event'.type = "value"
  THEN /\ phase' = "found"
       /\ node' = [begin |-> valueBegin', len |-> pos' - valueBegin']
       /\ UNCHANGED target
  ELSE /\ phase' = "container"
       /\ node' = [begin |-> valueBegin', len |-> 0]
       /\ target' = event'.depth

(* Phase 1: one turn of the loop, and what follows once all steps are taken. *)
Navigate ==
  /\ phase = "navigate"
  /\ Advance
  /\ stepIdx' = IF more' THEN Followed ELSE stepIdx
  /\ IF ~more' THEN NotFound
     ELSE IF stepIdx' < Len(path) THEN UNCHANGED <<phase, target, node>>
     ELSE IF event'.type = "key" THEN phase' = "value" /\ UNCHANGED <<target, node>>
     ELSE Extract
  /\ UNCHANGED <<doc, path>>

(* From the key on to its value.                                             *)
SeekValue ==
  /\ phase = "value"
  /\ Advance
  /\ IF more' /\ event'.type \in {"none", "key"}
     THEN UNCHANGED <<phase, target, node>>
     ELSE Extract
  /\ UNCHANGED <<doc, path, stepIdx>>

\* Mutant: the end of the parent is taken for that of the node.
EndsTargetParent == event'.type = "end_node" /\ event'.depth < target

(* From the beginning of the container on to its end.                        *)
EndsTarget == event'.type = "end_node" /\ event'.depth = target

SkipContainer ==
  /\ phase = "container"
  /\ Advance
  /\ IF ~more' THEN NotFound
     ELSE IF EndsTarget
     THEN /\ phase' = "found"
          /\ node' = [node EXCEPT !.len = pos' - node.begin]
          /\ UNCHANGED target
     ELSE UNCHANGED <<phase, target, node>>
  /\ UNCHANGED <<doc, path, stepIdx>>

Next == Reveal \/ Cut \/ Navigate \/ SeekValue \/ SkipContainer

Spec == Init /\ [][Next]_vars

------------------------------------------------------------------------------
(* An array index only as the last step of the path.                         *)
IndexLast == \A i \in 1..Len(path) - 1 : ~path[i].isIndex

Found(n) == node = [begin |-> n.begin, len |-> n.len]

Within(n, m) == m.begin <= n.begin /\ n.begin + n.len <= m.begin + m.len

(* Of two values that one object has under the same key of the path, the     *)
(* second is hidden, with all that is in it: the end of the first takes the  *)
(* search back to the first step of the path, which this object is already   *)
(* past.  The outermost object hides nothing, and nor does the last step.    *)
Hidden(n) ==
  \E k \in 2..Len(path) - 1 :
    LET parents == Matches(doc, SubSeq(path, 1, k - 1))
        values  == Matches(doc, SubSeq(path, 1, k))
    IN  \E object \in parents, first, second \in values :
          /\ Within(first, object) /\ Within(second, object)
          /\ first.begin < second.begin
          /\ Within(n, second)

Visible == {n \in Matches(doc, path) : ~Hidden(n)}

(* For a path with an index nowhere but at its end, what is returned is      *)
(* exactly the span of the first node of the text that the path leads to,    *)
(* hidden ones apart; scalars in the middle of a path                        *)
(* (test_find_scalar_mid_path) and repeated keys included (json.h:6).        *)
FoundIsFirst ==
  (phase = "found" /\ IndexLast) =>
    \E n \in Visible : Found(n) /\ \A m \in Visible : n.begin <= m.begin

(* The nodes of the path that are whole in the text read.                    *)
Reachable == {n \in Matches(doc, path) : n.begin + n.len <= Len(text)}

(* "sl_json_find will continue searching until a match is found or input is  *)
(* exhausted" (json.h:7): of what is there, a search that gives up has       *)
(* missed hidden nodes only, if the path has an index nowhere but at its     *)
(* end; and it has missed nothing, whatever the path, if no object has a key *)
(* twice.                                                                    *)
MissesHiddenOnly ==
  (phase = "not_found" /\ Nested(doc, MaxDepth - 1)) =>
    /\ IndexLast => \A n \in Reachable : Hidden(n)
    /\ UniqueKeys(doc) => Reachable = {}

(* "can read invalid JSON as long as it is valid up to and including the     *)
(* searched key-value pair" (json.h:5): a node is returned before anything   *)
(* after it is read, but for the character that ends a number.               *)
ReadsNoFurther ==
  (phase = "found" /\ IndexLast) =>
    \E n \in Matches(doc, path) :
      /\ n.begin = node.begin
      /\ Len(text) <= n.begin + n.len + (IF doc.text[n.begin + 1] = "1" THEN 1 ELSE 0)

===============================================================================
