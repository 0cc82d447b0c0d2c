------------------------------ MODULE MCHashMap ------------------------------
(* The constants of the run of HashMap. *)
EXTENDS HashMap, TLC

\* No key is a prefix of another.
MCPrefixFree == {}

\* The hashes of a table of eight slots.
MCHash == 0 .. 7

\* The keys are interchangeable when none is a prefix of another.
MCSymmetry == Permutations(Key)
=============================================================================
