----------------------------- MODULE CommandRing -----------------------------
(***************************************************************************)
(* The circular buffer as a machine: a zeroed buffer to which its owner    *)
(* adds entries, one call of aesd_circular_buffer_add_entry at a time.     *)
(***************************************************************************)
EXTENDS CircularBuffer, SequencesExt

CONSTANT Commands   \* the entries that are added

ASSUME CommandsAssumption == Commands \subseteq [buffptr : Ptr, size : Nat \ {0}]

VARIABLE buffer

Init == buffer = aesd_circular_buffer_init

Add(e) == buffer' = aesd_circular_buffer_add_entry(buffer, e)

Next == \E e \in Commands : Add(e)
Spec == Init /\ [][Next]_buffer

-----------------------------------------------------------------------------
\* The offsets stay inside the array and every slot holds an entry
\* (aesd-circular-buffer.c:94 and :101, the two modulo steps).
TypeOK == buffer \in Buffer

\* full and the offsets tell the same story after any number of additions:
\* a full buffer has in_offs = out_offs, one that has not filled starts at
\* slot 0 and is untouched from in_offs on (aesd-circular-buffer.c:80-105).
RingShape == Shape(buffer)

\* The buffer is the log of the last MaxOps commands, in order: no command
\* is lost early, kept too long or reordered when the offsets wrap.
Log == INSTANCE CommandLog WITH
         log <- Contents(buffer), Capacity <- MaxOps, Command <- Commands
RefinesLog == Log!Spec

-----------------------------------------------------------------------------
(***************************************************************************)
(* The searches of the circular buffer against a reference: the bytes of   *)
(* the commands laid end to end, each byte named by its slot and its       *)
(* offset in the entry.                                                    *)
(***************************************************************************)
BytesOf(k) == [j \in 1 .. Contents(buffer)[k].size |->
                [slot |-> SlotAt(buffer, k-1), entry_offset |-> j-1]]
Bytes == FlattenSeq([k \in 1 .. Count(buffer) |-> BytesOf(k)])

\* Every file offset finds the byte the reference has there, an offset past
\* the end finds nothing, and the length that is reported is that of the
\* reference (aesd-circular-buffer.c:33-57 and :116-132).
LookupIsByteOfContents ==
  /\ aesd_circular_buffer_content_length(buffer) = Len(Bytes)
  /\ \A off \in 0 .. Len(Bytes) + 1 :
       aesd_circular_buffer_find_entry_offset_for_fpos(buffer, off) =
         IF off < Len(Bytes) THEN Bytes[off + 1] ELSE NotFound

\* Seeking to byte o of command c and then reading starts at byte o of the
\* slot that holds command c, for all commands wherever the buffer has
\* wrapped (aesd-circular-buffer.c:134-159 with :33-57).
SeekThenLookup ==
  \A c \in 0 .. Count(buffer) - 1 :
    \A o \in 0 .. buffer.entry[SlotAt(buffer, c)].size - 1 :
      aesd_circular_buffer_find_entry_offset_for_fpos(buffer,
        aesd_circular_buffer_find_fpos_at_position(buffer, c, o))
      = [slot |-> SlotAt(buffer, c), entry_offset |-> o]

\* Once a command is kept, a position with no command is refused whatever
\* the offset (aesd-circular-buffer.c:146-159): positions below 256.
NoCommandIsRefused ==
  Count(buffer) > 0 =>
    \A p \in Count(buffer) .. 255, o \in {e.size : e \in Commands} \cup {0} :
      aesd_circular_buffer_find_fpos_at_position(buffer, p, o) = -EINVAL
=============================================================================
