------------------------------- MODULE HashMap -------------------------------
(***************************************************************************)
(* The open-addressing hash map of src/stufflib/hashmap/hashmap.c and the  *)
(* client that counts lines with it, linefreq of src/tools/txt.c: for each *)
(* line contains, perhaps insert, then get and add one; in the end the     *)
(* iterator lists the slots.                                               *)
(*                                                                         *)
(* A line is a key.  Its CRC is not computed: the first time a key is used *)
(* it gets any hash of Hash, so that every collision of small hashes is    *)
(* met.  sl_span_compare looks at the bytes two keys have both, so a key   *)
(* is equal to each of its prefixes: Prefix says which keys are prefixes.  *)
(*                                                                         *)
(* A resize writes the old slots, the empty ones too, one after the other  *)
(* into the new table; each write may fail for want of memory.             *)
(***************************************************************************)
EXTENDS Integers, Sequences, FiniteSets

CONSTANTS
  Key,           \* the lines
  NoKey,         \* the null data of the key of an empty slot
  Prefix,        \* pairs of keys of which the first is a prefix of the second
  Hash,          \* the hashes
  InitCapacity,  \* the capacity linefreq creates the map with
  MaxLines       \* bounds the number of lines of the text

ASSUME HashMapAssumption ==
  /\ NoKey \notin Key
  /\ Prefix \subseteq Key \X Key
  /\ Hash \subseteq Nat /\ 0 \in Hash
  /\ InitCapacity \in Nat \ {0}
  /\ \E e \in 0 .. InitCapacity : InitCapacity = 2 ^ e    \* linefreq's is 1024
  /\ MaxLines \in Nat

VARIABLES
  pc,        \* what linefreq does next
  line,      \* the line it is at, or NoKey
  lines,     \* how many it has read
  hash,      \* the hash of each key, 0 as long as it does not matter
  slots,     \* map->slots
  capacity,  \* map->capacity
  size,      \* map->size
  old,       \* old_slots of a resize
  oldCapacity,  \* old_capacity
  moved,     \* how many of them have been written
  noMemory,  \* an allocation has failed
  index,     \* the iterator's index
  printed,   \* what linefreq has printed
  seen       \* how often each line has been read

map == <<slots, capacity, size>>
resize == <<old, oldCapacity, moved>>
iterator == <<index, printed>>
vars == <<pc, line, lines, hash, map, resize, noMemory, iterator, seen>>

EmptySlot == [key |-> NoKey, count |-> 0]
Index(cap) == 0 .. cap - 1
NewTable(cap) == [i \in Index(cap) |-> EmptySlot]
NoSlot == -1

Init ==
  /\ pc = "read" /\ line = NoKey /\ lines = 0
  /\ hash = [k \in Key |-> 0]
  /\ capacity = InitCapacity /\ slots = NewTable(InitCapacity) /\ size = 0
  /\ old = NewTable(0) /\ oldCapacity = 0 /\ moved = 0
  /\ noMemory = FALSE
  /\ index = 0 /\ printed = <<>>
  /\ seen = [k \in Key |-> 0]

-----------------------------------------------------------------------------
(* sl_hashmap_find_slot *)

\* sl_span_compare returns 0: data on both sides, equal where both have bytes.
SameKey(k, l) == k # NoKey /\ l # NoKey /\ (k = l \/ <<k, l>> \in Prefix \/ <<l, k>> \in Prefix)

\* The index after probe p, from the index before it.
NextPlace(i, p, cap) == (i + (p + p * p) \div 2) % cap

\* The index of every probe: the offsets add up.
Place(h, cap) ==
  LET place[p \in Index(cap)] == NextPlace(IF p = 0 THEN h ELSE place[p - 1], p, cap)
  IN  place

\* The probes that end the search.
Hit(table, cap, k, h) ==
  {p \in Index(cap) : LET slot == table[Place(h, cap)[p]]
                      IN  slot.key = NoKey \/ SameKey(slot.key, k)}

FindSlot(table, cap, k, h) ==
  IF Hit(table, cap, k, h) = {} THEN NoSlot
  ELSE Place(h, cap)[CHOOSE p \in Hit(table, cap, k, h) :
                       \A q \in Hit(table, cap, k, h) : p <= q]

Get(k, h) == FindSlot(slots, capacity, k, h)

\* sl_hashmap_contains
Contains(k, h) == Get(k, h) # NoSlot /\ slots[Get(k, h)].key # NoKey

\* Mutant: the hash is not kept.
SlotHashZero(slot) == 0

\* The hash of an old slot: the field hash, which is 0 when the slot is empty.
SlotHash(slot) == IF slot.key = NoKey THEN 0 ELSE hash[slot.key]

-----------------------------------------------------------------------------
(* linefreq *)

Used(k) == seen[k] > 0

\* The next line of the text, and whether the map contains it.
ReadLine(k) ==
  /\ pc = "read"
  /\ lines < MaxLines
  /\ lines' = lines + 1
  /\ \E h \in Hash :
       /\ Used(k) => h = hash[k]
       /\ hash' = [hash EXCEPT ![k] = h]
       /\ pc' = IF Contains(k, h) THEN "count" ELSE "insert"
  /\ line' = k
  /\ seen' = [seen EXCEPT ![k] = @ + 1]
  /\ UNCHANGED <<map, resize, noMemory, iterator>>

\* Mutant: the table is resized only when it is full.
IsOverloadedFull(n, cap) == n >= cap

\* The load factor is above SL_HASHMAP_MAX_LOAD_FACTOR.
IsOverloaded(n, cap) == 2 * n > cap

\* sl_math_next_power_of_two: 2 to the number of powers of two up to n.
NextPowerOfTwo(n) ==
  CHOOSE m \in n + 1 .. 2 * n : \E e \in 0 .. n : m = 2 ^ e

\* sl_hashmap_write: nothing is written when the search finds no slot.
Written(place, slot) == IF place = NoSlot THEN slots ELSE [slots EXCEPT ![place] = slot]

InsertPlace == IF size < capacity THEN Get(line, hash[line]) ELSE NoSlot

\* sl_hashmap_insert up to the resize.  When the table is full linefreq gives up.
Insert ==
  /\ pc = "insert"
  /\ slots' = Written(InsertPlace, [key |-> line, count |-> 0])
  /\ size' = IF InsertPlace = NoSlot THEN size ELSE size + 1
  /\ pc' = IF InsertPlace = NoSlot THEN "failed"
           ELSE IF IsOverloaded(size', capacity) THEN "resize" ELSE "count"
  /\ UNCHANGED <<line, lines, hash, capacity, resize, noMemory, iterator, seen>>

NewSlots == NewTable(NextPowerOfTwo(capacity))

\* sl_hashmap_resize: a new table.
Resize ==
  /\ pc = "resize"
  /\ old' = slots /\ oldCapacity' = capacity /\ moved' = 0
  /\ capacity' = NextPowerOfTwo(capacity)
  /\ slots' = NewSlots
  /\ pc' = "rehash"
  /\ UNCHANGED <<line, lines, hash, size, noMemory, iterator, seen>>

OldSlotPlace == Get(old[moved].key, SlotHash(old[moved]))

\* The next old slot is written into the new table.
Rehash ==
  /\ pc = "rehash" /\ moved < oldCapacity
  /\ slots' = Written(OldSlotPlace, old[moved])
  /\ moved' = moved + 1
  /\ pc' = IF OldSlotPlace = NoSlot THEN "failed" ELSE "rehash"
  /\ UNCHANGED <<line, lines, hash, capacity, size, old, oldCapacity, noMemory, iterator, seen>>

EndResize ==
  /\ pc = "rehash"
  /\ moved = oldCapacity
  /\ old' = NewTable(0) /\ oldCapacity' = 0 /\ moved' = 0
  /\ pc' = "count"
  /\ UNCHANGED <<line, lines, hash, map, noMemory, iterator, seen>>

\* A key cannot be copied: the write fails, and linefreq gives up.
OutOfMemory ==
  /\ pc = "insert" \/ (pc = "rehash" /\ moved < oldCapacity /\ old[moved].key # NoKey)
  /\ noMemory' = TRUE
  /\ pc' = "failed"
  /\ UNCHANGED <<line, lines, hash, map, resize, iterator, seen>>

\* A table, the first one or that of a resize, cannot be allocated.  Nothing looks
\* whether there is one, and the first use of its slots is that of a null pointer.
NoTable ==
  /\ pc = "resize" \/ (pc = "read" /\ lines = 0)
  /\ noMemory' = TRUE
  /\ pc' = "crashed"
  /\ UNCHANGED <<line, lines, hash, map, resize, iterator, seen>>

\* The file is empty or cannot be read, or is not UTF-8.
NoText ==
  /\ pc = "read" /\ lines = 0
  /\ pc' = "unread"
  /\ UNCHANGED <<line, lines, hash, map, resize, noMemory, iterator, seen>>

\* sl_hashmap_get and value.uint64 += 1; no slot, no more lines.
Count ==
  /\ pc = "count"
  /\ slots' = IF Get(line, hash[line]) = NoSlot THEN slots
              ELSE [slots EXCEPT ![Get(line, hash[line])].count = @ + 1]
  /\ pc' = IF Get(line, hash[line]) = NoSlot THEN "failed" ELSE "read"
  /\ line' = NoKey
  /\ UNCHANGED <<lines, hash, capacity, size, resize, noMemory, iterator, seen>>

\* The first slot from i on that is not empty, the capacity if there is none.
FindNext(i) ==
  CHOOSE j \in i .. capacity :
    /\ \A n \in i .. j - 1 : slots[n].key = NoKey
    /\ j < capacity => slots[j].key # NoKey

\* Mutant: the iterator goes two slots on.
AdvanceByTwo(i) == IF i + 2 > capacity THEN capacity ELSE FindNext(i + 2)

\* sl_hashmap_iter_advance
Advance(i) == FindNext(i + 1)

EndOfText ==
  /\ pc = "read"
  /\ index' = FindNext(0)
  /\ pc' = "print"
  /\ UNCHANGED <<line, lines, hash, map, resize, noMemory, printed, seen>>

PrintSlot ==
  /\ pc = "print" /\ index < capacity
  /\ printed' = Append(printed, slots[index])
  /\ index' = Advance(index)
  /\ UNCHANGED <<pc, line, lines, hash, map, resize, noMemory, seen>>

\* The count, the line or the newline cannot be printed: linefreq gives up.
PrintFails ==
  /\ pc = "print" /\ index < capacity
  /\ pc' = "unwritten"
  /\ UNCHANGED <<line, lines, hash, map, resize, noMemory, iterator, seen>>

EndOfPrint ==
  /\ pc = "print" /\ index = capacity
  /\ pc' = "done"
  /\ UNCHANGED <<line, lines, hash, map, resize, noMemory, iterator, seen>>

-----------------------------------------------------------------------------
Next ==
  \/ \E k \in Key : ReadLine(k)
  \/ Insert \/ Resize \/ Rehash \/ EndResize \/ Count
  \/ OutOfMemory \/ NoTable
  \/ NoText \/ EndOfText \/ PrintSlot \/ PrintFails \/ EndOfPrint

Spec == Init /\ [][Next]_vars

-----------------------------------------------------------------------------
\* When no line is a prefix of another, the map between two lines holds exactly
\* the lines that have been read, each where a search for it ends, with the
\* number of times it has been read.
Counted ==
  pc = "read" =>
    \A k \in Key :
      /\ Contains(k, hash[k]) <=> seen[k] > 0
      /\ seen[k] > 0 => slots[Get(k, hash[k])] = [key |-> k, count |-> seen[k]]

\* The probes of find_slot do not visit every slot.  They visit enough of them:
\* in a table that is not overloaded a search ends, whatever the hashes, also
\* for the empty slots that a resize writes, so "hashmap is full" is never met.
NeverFull == pc = "failed" => noMemory

\* When no line is a prefix of another, the output of a linefreq that succeeds
\* has every line that was read once, with its count.
PrintsEach ==
  pc = "done" =>
    /\ {printed[i] : i \in 1 .. Len(printed)}
         = {[key |-> k, count |-> seen[k]] : k \in {l \in Key : seen[l] > 0}}
    /\ \A i, j \in 1 .. Len(printed) : i # j => printed[i].key # printed[j].key
=============================================================================
