----------------------------- MODULE MCJsonCount -----------------------------
(* Small texts of three kinds: containers and keys, numbers, and strings.    *)
EXTENDS JsonCount

MCProfile ==
  { [char |-> {"{", "}", "[", "]", ",", ":", DQ, "1"}, string |-> {DQ}, length |-> 11],
    [char |-> {"[", "]", ",", "-", "+", ".", "e", "0", "1", " "}, string |-> {}, length |-> 6],
    [char |-> {"{", "[", "]", ":", ",", DQ, "true", "a", NL, NUL},
     string |-> {DQ, BS, "true", "a", "}", NL, NUL}, length |-> 6] }
==============================================================================
