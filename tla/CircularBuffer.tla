--------------------------- MODULE CircularBuffer ---------------------------
(***************************************************************************)
(* The circular buffer of the aesdchar driver: aesd-circular-buffer.h and  *)
(* aesd-circular-buffer.c.  A buffer is the C structure: a fixed array of  *)
(* entries and the two offsets that chase each other round it.  Every      *)
(* function of the file is an operator here; none of them takes a lock,    *)
(* that is the caller's business (module AesdChar).                        *)
(***************************************************************************)
EXTENDS Integers

CONSTANTS
  MaxOps,   \* AESDCHAR_MAX_WRITE_OPERATIONS_SUPPORTED, the number of slots
  Ptr,      \* the addresses an entry's buffptr may hold
  NullPtr   \* the NULL pointer

\* in_offs, out_offs and the loop counters are uint8_t.
ASSUME MaxOpsAssumption == MaxOps \in 1..255
ASSUME NullPtrAssumption == NullPtr \notin Ptr

EINVAL == 22

Slots  == 0 .. MaxOps - 1
Entry  == [buffptr : Ptr \cup {NullPtr}, size : Nat]
Buffer == [entry : [Slots -> Entry], in_offs : Slots, out_offs : Slots, full : BOOLEAN]

\* memset(buffer, 0, ...)
NoEntry == [buffptr |-> NullPtr, size |-> 0]
aesd_circular_buffer_init ==
  [entry |-> [i \in Slots |-> NoEntry], in_offs |-> 0, out_offs |-> 0, full |-> FALSE]

Advance_NoWrap(i) == i + 1
Advance(i) == (i + 1) % MaxOps

-----------------------------------------------------------------------------
(***************************************************************************)
(* Adding an entry.  A full buffer first gives up its oldest entry: the    *)
(* memory of that entry is freed (Evicted) and out_offs moves on; then the *)
(* new entry goes to in_offs, whatever the buffer held there.              *)
(***************************************************************************)
Evicted_Kept(b) == NullPtr
Evicted(b) == IF b.full THEN b.entry[b.out_offs].buffptr ELSE NullPtr

Evict_KeepsOut(b) == b
Evict(b) == IF b.full THEN [b EXCEPT !.out_offs = Advance(@)] ELSE b

Store_NeverFull(b, e) ==
  [b EXCEPT !.entry[b.in_offs] = e, !.in_offs = Advance(@)]
Store(b, e) ==
  LET next == Advance(b.in_offs) IN
  [b EXCEPT !.entry[b.in_offs] = e,
            !.in_offs = next,
            !.full = (next = b.out_offs) \/ @]

aesd_circular_buffer_add_entry(b, e) == Store(Evict(b), e)

-----------------------------------------------------------------------------
(***************************************************************************)
(* The three searches walk the slots with a do-while loop that starts at   *)
(* out_offs and stops when it reaches in_offs.  The loop body runs before  *)
(* the test, so a loop whose two ends coincide visits every slot: the      *)
(* whole of a full buffer, and also the whole of an empty one.             *)
(***************************************************************************)
Visited_All(b) == MaxOps
Visited(b) ==
  LET d == (b.in_offs - b.out_offs) % MaxOps IN IF d = 0 THEN MaxOps ELSE d

\* The k-th slot visited, from 0.
SlotAt(b, k) == (b.out_offs + k) % MaxOps

\* SizeBefore(b)[k]: the sum the loop has accumulated after k slots.
SizeBefore(b) ==
  LET sum[k \in 0..MaxOps] ==
        IF k = 0 THEN 0 ELSE sum[k-1] + b.entry[SlotAt(b, k-1)].size
  IN  sum

NotFound == [slot |-> -1, entry_offset |-> 0]

find_entry_AtOrAfter(b, char_offset) ==
  LET hits == {k \in 0 .. Visited(b) - 1 : char_offset <= SizeBefore(b)[k+1]}
      k    == CHOOSE i \in hits : \A j \in hits : i <= j
  IN  IF hits = {} THEN NotFound
      ELSE [slot |-> SlotAt(b, k), entry_offset |-> char_offset - SizeBefore(b)[k]]
aesd_circular_buffer_find_entry_offset_for_fpos(b, char_offset) ==
  LET sum  == SizeBefore(b)
      hits == {k \in 0 .. Visited(b) - 1 : char_offset < sum[k+1]}
      k    == CHOOSE i \in hits : \A j \in hits : i <= j
  IN  IF hits = {} THEN NotFound
      ELSE [slot |-> SlotAt(b, k), entry_offset |-> char_offset - sum[k]]

aesd_circular_buffer_content_length(b) == SizeBefore(b)[Visited(b)]

\* The parameter position is a uint8_t: the caller's uint32_t loses its
\* upper bits.  cmd_offs may be as large as the entry, one past its last byte.
ToUint8(n) == n % 256
find_fpos_AnyOffset(b, position, cmd_offs) ==
  LET p == ToUint8(position) IN
  IF p < Visited(b) THEN SizeBefore(b)[p] + cmd_offs ELSE -EINVAL
aesd_circular_buffer_find_fpos_at_position(b, position, cmd_offs) ==
  LET p == ToUint8(position) IN
  IF p < Visited(b) /\ cmd_offs <= b.entry[SlotAt(b, p)].size
  THEN SizeBefore(b)[p] + cmd_offs
  ELSE -EINVAL

-----------------------------------------------------------------------------
(***************************************************************************)
(* What the buffer stands for: its entries from the oldest to the newest.  *)
(***************************************************************************)
Count(b) == IF b.full THEN MaxOps ELSE (b.in_offs - b.out_offs) % MaxOps
Contents(b) == [k \in 1 .. Count(b) |-> b.entry[SlotAt(b, k-1)]]

(***************************************************************************)
(* The shape of a buffer that only add_entry has changed: a full one has   *)
(* its two offsets together, one that never filled starts at slot 0 and    *)
(* has nothing at or after in_offs.                                        *)
(***************************************************************************)
Shape(b) ==
  /\ b.full => b.in_offs = b.out_offs
  /\ ~b.full => /\ b.out_offs = 0
                /\ \A i \in Slots : i >= b.in_offs => b.entry[i] = NoEntry
=============================================================================
