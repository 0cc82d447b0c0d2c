------------------------------ MODULE MCServer ------------------------------
(* The constants of the runs of Server. *)
EXTENDS Server

\* Messages that are empty, shorter than the buffer, as long as it and longer,
\* with a NUL inside or without one.
MCMessage == {<<>>, <<"x">>, <<"x", "x">>, <<"x", NUL, "x">>, <<"x", "x", "x", "x">>}

MCByte == {"x", NUL}
=============================================================================
