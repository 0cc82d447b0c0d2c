------------------------------- MODULE MCRcv1 -------------------------------
(***************************************************************************)
(* Model checking Rcv1: four documents, whose lines are in the order of    *)
(* their IDs or in the opposite order, three of them in one set (so that   *)
(* it takes two batches) and one in the other, or all of them in one, or   *)
(* one of them in both sets, with one or two features or none.             *)
(***************************************************************************)
EXTENDS Rcv1

MCDoc == 0 .. 3

\* The lines of the documents in this order, with some of them in the last file.
Split(order, train) ==
  [test |-> SelectSeq(order, LAMBDA d : d \notin train),
   train |-> SelectSeq(order, LAMBDA d : d \in train)]

MCInput ==
  [ lines : {Split(order, train) : order \in {<<0, 1, 2, 3>>, <<3, 2, 1, 0>>},
                                   train \in {{}, {1}, {0, 2, 3}}}
              \cup {[test |-> <<0, 1, 2>>, train |-> <<2, 3>>]},
    pairs : {[d \in MCDoc |-> row[d + 1]] : row \in {<<1, 0, 2, 1>>, <<2, 1, 0, 0>>}} ]
=============================================================================
