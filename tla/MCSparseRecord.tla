--------------------------- MODULE MCSparseRecord ---------------------------
(* The constants of the runs of SparseRecord. *)
EXTENDS SparseRecord

\* Write calls of one, two or three items, so that runs of zeros and nonzero
\* items meet the edges of write buffers and of read buffers differently.
MCWriteLens == {1, 2, 3}
=============================================================================
