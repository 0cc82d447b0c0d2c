---------------------------- MODULE MCSegmentation ----------------------------
(* The constants of the runs of Segmentation. *)
EXTENDS Segmentation

\* Of three colours each two are either near, or far, or become near when one
\* of them has been averaged with the third.
MCThreshold == [num |-> 5, den |-> 2]
==============================================================================
