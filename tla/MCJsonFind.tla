------------------------------ MODULE MCJsonFind ------------------------------
(* Small documents of several shapes, and paths of up to four steps.  One    *)
(* key is the beginning of the other.                                        *)
EXTENDS JsonFind

MCKey == {<<"a">>, <<"a", "a">>}

UpTo(n, values) == UNION {[1..k -> values] : k \in 0..n}

Arrays(n, values) == {ArrayOf(vs) : vs \in UpTo(n, values)}
Objects(n, values) == {ObjectOf(ms) : ms \in UpTo(n, MCKey \X values)}
Containers(n, values) == Arrays(n, values) \cup Objects(n, values)

Flat == Containers(2, {Number})
Tiny == {Number, ArrayOf(<<>>), ArrayOf(<<Number>>)}

Nested2 == {d \in Containers(2, Flat \cup {Number, String}) : Len(d.text) <= 18}
Nested3 == Containers(1, Containers(2, Tiny)) \cup Arrays(2, Arrays(2, Tiny))
(* These reach the limit of five open containers.                            *)
Nested5 == Arrays(1, Arrays(1, Arrays(1, Containers(1, Tiny))))

(* Objects of two entries in both entries of an object, keys repeated at     *)
(* either level; and the same with two and three levels below the outermost. *)
A == <<"a">>
TwoKeyed(values) == {ObjectOf(ms) : ms \in [1..2 -> {A} \X values]}
InTwo ==
  {ObjectOf(<<<<A, first>>, <<A, second>>>>) :
     first \in Objects(2, Tiny), second \in {ObjectOf(<<<<A, v>>>>) : v \in Tiny} \cup {Number}}
InThree ==
  LET one == ArrayOf(<<Number>>)
      low == {Number, ObjectOf(<<<<A, one>>>>), ObjectOf(<<<<A, ArrayOf(<<>>)>>, <<A, one>>>>)}
  IN  TwoKeyed({ObjectOf(<<<<A, v>>, <<A, w>>>>) : v, w \in low})

MCDocument == Nested2 \cup Nested3 \cup Nested5 \cup InTwo \cup InThree

MCStep == {Key(<<"a">>), Index(0), Index(1)}
MCPath == (UpTo(2, MCStep) \ {<<>>}) \cup [1..3 -> MCStep \ {Index(1)}]
            \cup {<<Key(A), Key(A), Key(A), Index(0)>>}
===============================================================================
