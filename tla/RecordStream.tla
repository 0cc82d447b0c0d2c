---------------------------- MODULE RecordStream ----------------------------
(***************************************************************************)
(* What a record reader promises (src/stufflib/record/reader.h): buffers   *)
(* of ReadLen items that continue each other, hold the items of the        *)
(* record's array in order, hold zeros past its end, and are never more    *)
(* than the array fills.                                                   *)
(***************************************************************************)
EXTENDS Integers

CONSTANTS Value, Zero, Length, ReadLen

VARIABLES
  data,  \* the array
  base,  \* items delivered
  out    \* the items delivered

vars == <<data, base, out>>

Item == Value \cup {Zero}
ItemAt(i) == IF i < Length THEN data[i] ELSE Zero

Init ==
  /\ data \in [0 .. Length - 1 -> Item]
  /\ base = 0
  /\ out = [i \in 0 .. -1 |-> Zero]

DeliverNext ==
  /\ base < Length
  /\ base' = base + ReadLen
  /\ out' = [i \in 0 .. base + ReadLen - 1 |-> IF i < base THEN out[i] ELSE ItemAt(i)]
  /\ UNCHANGED data

Spec == Init /\ [][DeliverNext]_vars
=============================================================================
