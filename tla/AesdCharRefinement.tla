-------------------------- MODULE AesdCharRefinement --------------------------
(***************************************************************************)
(* What the driver's state stands for, seen by its writers: a log of the   *)
(* last MaxOps commands and one command that is still being written.  The  *)
(* slots, the blocks, the lock and the pieces of a write are gone.  To its *)
(* readers the log is one string of bytes.                                 *)
(***************************************************************************)
EXTENDS AesdChar, SequencesExt

\* The commands of the device, oldest first; the one that is being stored
\* counts from the step that makes room for it.
Data(k)   == mem[Contents(buffer)[k].buffptr].data
KeptCount == IF Storing /\ buffer.full THEN MaxOps - 1 ELSE Count(buffer)
Kept      == [k \in 1 .. KeptCount |-> Data(k)]
DeviceLog == IF Storing THEN Append(Kept, mem[temporary_command_buffer].data) ELSE Kept
DevicePending ==
  IF temporary_command_buffer = NullPtr \/ Storing \/ Resetting THEN << >>
  ELSE mem[temporary_command_buffer].data

\* The pieces of concurrent writes become commands one at a time, in the
\* order their terminators arrive, and a failed call leaves no trace in the
\* log (main.c:210-316).
Device == INSTANCE CommandDevice WITH
            log <- DeviceLog, pending <- DevicePending, Capacity <- MaxOps,
            Chunks <- UNION {{SubSeq(b, i, j) : i, j \in DOMAIN b} : b \in WriteBufs}
RefinesDevice == Device!Spec

\* What a read has copied so far is what the device holds from the file's
\* position on, without a gap where an entry ends and without a byte that a
\* writer has put there meanwhile (main.c:181-204).
Bytes == FlattenSeq(DeviceLog)
ReadIsSlice ==
  \A p \in Proc : pc[p] = "r_loop" =>
    /\ local[p].pos = f_pos[p] + Len(local[p].buf)
    /\ local[p].buf = SubSeq(Bytes, f_pos[p] + 1, local[p].pos)

\* A read that succeeds is as long as the request or as what is left, also
\* from a position beyond the end, where the unsigned difference of
\* main.c:178 wraps.
ReadIsFull ==
  [][\A p \in Proc : pc[p] = "r_loop" /\ pc'[p] = "idle" /\ ret'[p] >= 0 =>
       LET left == Len(Bytes) - f_pos[p] IN
       \/ left <= 0 /\ ret'[p] = 0
       \/ left > 0 /\ ret'[p] \in {left} \cup ReadCounts /\ ret'[p] <= left
            /\ (ret'[p] < left => ret'[p] = local[p].count)]_vars
===============================================================================
