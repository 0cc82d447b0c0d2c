----------------------------- MODULE JsonDocument -----------------------------
(* JSON documents with the place of each of their nodes: what a path finds.  *)
(* A document is its text and, for every node, its path from the root and    *)
(* the span of its text.  Documents are built from the inside out, so no     *)
(* definition here reads a text.                                             *)
EXTENDS Integers, SequencesExt, JsonGrammar

Key(k)   == [isIndex |-> FALSE, key |-> k, index |-> 0]
Index(i) == [isIndex |-> TRUE, key |-> <<>>, index |-> i]

Node(path, begin, len) == [path |-> path, begin |-> begin, len |-> len]

Scalar(s) == [text |-> s, nodes |-> {Node(<<>>, 0, Len(s))}]
Number == Scalar(<<"1">>)
String == Scalar(<<DQ, "a", DQ>>)

(* The nodes of an entry's value, seen from the container it is put in.      *)
Under(step, offset, nodes) ==
  {Node(<<step>> \o n.path, n.begin + offset, n.len) : n \in nodes}

(* An entry is the step that leads to it, the text before it and its value.  *)
Put(acc, entry) ==
  LET before == acc.text \o (IF Len(acc.text) = 1 THEN <<>> ELSE <<",">>) \o entry.label
  IN  [text  |-> before \o entry.value.text,
       nodes |-> acc.nodes \cup Under(entry.step, Len(before), entry.value.nodes)]

Container(open, close, entries) ==
  LET all  == FoldLeft(Put, [text |-> <<open>>, nodes |-> {}], entries)
      text == Append(all.text, close)
  IN  [text |-> text, nodes |-> all.nodes \cup {Node(<<>>, 0, Len(text))}]

ArrayOf(values) ==
  Container("[", "]",
    [i \in DOMAIN values |-> [step |-> Index(i - 1), label |-> <<>>, value |-> values[i]]])

(* A member is a key and a value.                                            *)
ObjectOf(members) ==
  Container("{", "}",
    [i \in DOMAIN members |-> [step |-> Key(members[i][1]),
                               label |-> <<DQ>> \o members[i][1] \o <<DQ, ":">>,
                               value |-> members[i][2]]])

Matches(doc, path) == {n \in doc.nodes : n.path = path}

UniqueKeys(doc) == \A n, m \in doc.nodes : n.path = m.path => n = m

(* The deepest node: how many containers are open around it.                 *)
Nested(doc, d) == \A n \in doc.nodes : Len(n.path) <= d
===============================================================================
