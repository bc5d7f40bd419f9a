------------------------------ MODULE AesdChar ------------------------------
(***************************************************************************)
(* The aesdchar driver while it is loaded: the file operations of          *)
(* aesd-char-driver/main.c, called by several processes at once.           *)
(*                                                                         *)
(* The device is the circular buffer, the command that is still being      *)
(* written (temporary_command_buffer) and the mutex that guards both.  The *)
(* kernel heap is modelled as far as ownership and bounds of the driver's  *)
(* allocations go.  Each process has its own open file.  A step is a piece *)
(* of a call between two points where another process could see a          *)
(* difference: what a call does to the device under the lock is still cut  *)
(* at its writes to memory, because the debug print reads without the lock.*)
(***************************************************************************)
EXTENDS CircularBuffer, Sequences

CONSTANTS
  Proc,         \* the processes that call the driver
  NoProc,       \* the mutex has no owner
  Byte, NL,     \* the bytes of a command; NL is the command terminator '\n'
  WriteBufs,    \* the buffers that are written
  ReadCounts,   \* the counts that are read
  SeekArgs,     \* the [write_cmd, write_cmd_offset] of AESDCHAR_IOCSEEKTO
  LlseekArgs,   \* the [off, whence] of lseek
  Faults,       \* what may go wrong: a subset of {"signal", "nomem", "fault"}
  MaxAlloc,     \* the largest block krealloc gives
  SizeModulus,  \* 2^w for the w bits of a size_t, scaled down
  PrintSlots    \* bound: the slots through which the debug print is followed

ASSUME DriverAssumption ==
  /\ NoProc \notin Proc
  /\ NL \in Byte
  /\ WriteBufs \subseteq Seq(Byte)
  /\ ReadCounts \subseteq Nat
  /\ SeekArgs \subseteq [write_cmd : Nat, write_cmd_offset : Nat]
  /\ LlseekArgs \subseteq [off : Int, whence : STRING]
  /\ MaxAlloc \in Nat
  /\ SizeModulus \in Nat \ {0}
  /\ PrintSlots \in 0..MaxOps

ENOMEM == 12
EFAULT == 14
ENOTTY == 25
ERESTARTSYS == 512

VARIABLES
  buffer,                        \* dev->data
  temporary_command_buffer,      \* dev->temporary_command_buffer
  current_temporary_buffer_size, \* dev->current_temporary_buffer_size
  lock,      \* the owner of dev->lock
  allocated, \* the addresses kmalloc has given out
  mem,       \* what is there: the size of the block and the bytes written to it
  opened,    \* the processes that have the device open
  f_pos,     \* filp->f_pos, for the file of each process
  pc,        \* where each process is
  local,     \* the local variables of the call it is in
  ret        \* what its last call returned, 0 while it is in one

device == <<buffer, temporary_command_buffer, current_temporary_buffer_size, allocated, mem>>
vars   == <<device, lock, opened, f_pos, pc, local, ret>>

(***************************************************************************)
(* The locals of a call: buf is the user's buffer, what write takes from   *)
(* it or what read has put into it; off is write's off, pos read's *f_pos; *)
(* count is first the argument, then num_bytes_to_read; slot and ptr are   *)
(* those of the debug print.                                               *)
(***************************************************************************)
NoLocal == [buf |-> << >>, off |-> 0, wrote |-> 0, count |-> 0, pos |-> 0,
            slot |-> 0, ptr |-> NullPtr]
NoBlock == [size |-> 0, data |-> << >>]

Init ==
  /\ buffer = aesd_circular_buffer_init
  /\ temporary_command_buffer = NullPtr
  /\ current_temporary_buffer_size = 0
  /\ lock = NoProc
  /\ allocated = {}
  /\ mem = [a \in Ptr |-> NoBlock]
  /\ opened = {}
  /\ f_pos = [p \in Proc |-> 0]
  /\ pc = [p \in Proc |-> "idle"]
  /\ local = [p \in Proc |-> NoLocal]
  /\ ret = [p \in Proc |-> 0]

-----------------------------------------------------------------------------
Goto(p, label) == pc' = [pc EXCEPT ![p] = label]

\* A call of p begins, and ends with the result r.
Call(p, label) == Goto(p, label) /\ ret' = [ret EXCEPT ![p] = 0]

Return(p, r) ==
  /\ Goto(p, "idle")
  /\ local' = [local EXCEPT ![p] = NoLocal]
  /\ ret' = [ret EXCEPT ![p] = r]

\* mutex_lock_interruptible: it takes a free mutex; only a call that has to
\* wait can be interrupted by a signal.
Acquire(p)  == lock = NoProc /\ lock' = p
Release(p)  == lock' = NoProc
Interrupted == "signal" \in Faults /\ lock # NoProc

aesd_open(p) ==
  /\ p \notin opened
  /\ opened' = opened \cup {p}
  /\ f_pos' = [f_pos EXCEPT ![p] = 0]
  /\ ret' = [ret EXCEPT ![p] = 0]
  /\ UNCHANGED <<device, lock, pc, local>>

aesd_release(p) ==
  /\ p \in opened /\ pc[p] = "idle"
  /\ opened' = opened \ {p}
  /\ f_pos' = [f_pos EXCEPT ![p] = 0]
  /\ ret' = [ret EXCEPT ![p] = 0]
  /\ UNCHANGED <<device, lock, pc, local>>

-----------------------------------------------------------------------------
(***************************************************************************)
(* The debug print walks all slots without the lock: it reads the pointer  *)
(* of an entry, then copies what the pointer leads to.  It comes first in  *)
(* a read and last in a write.                                             *)
(***************************************************************************)
AfterPrint(p) ==
  IF pc[p] \in {"r_print", "r_copy"}
  THEN /\ Goto(p, "read")
       /\ local' = [local EXCEPT ![p].slot = 0, ![p].ptr = NullPtr]
       /\ UNCHANGED ret
  ELSE Return(p, local[p].wrote)

PrintFetch(p) ==
  /\ pc[p] \in {"r_print", "w_print"}
  /\ IF local[p].slot < PrintSlots
     THEN /\ Goto(p, IF pc[p] = "r_print" THEN "r_copy" ELSE "w_copy")
          /\ local' = [local EXCEPT ![p].ptr = buffer.entry[local[p].slot].buffptr]
          /\ UNCHANGED ret
     ELSE AfterPrint(p)
  /\ UNCHANGED <<device, lock, opened, f_pos>>

PrintCopy(p) ==
  /\ pc[p] \in {"r_copy", "w_copy"}
  /\ Goto(p, IF pc[p] = "r_copy" THEN "r_print" ELSE "w_print")
  /\ local' = [local EXCEPT ![p].slot = @ + 1, ![p].ptr = NullPtr]
  /\ UNCHANGED <<device, lock, opened, f_pos, ret>>

-----------------------------------------------------------------------------
(***************************************************************************)
(* aesd_write.  The loop looks for the next terminator from off on; the    *)
(* chunk that ends there, or what is left when there is none, is appended  *)
(* to the temporary buffer under the lock.  The search reads the user's    *)
(* memory itself: a caller whose memory is bad faults there, and is not    *)
(* modelled; the copies may fail all the same.                             *)
(***************************************************************************)
Terminators(p) == {j \in local[p].off + 1 .. Len(local[p].buf) : local[p].buf[j] = NL}

\* idx, when the inner search stops: at the next terminator or at the end.
Idx(p) ==
  IF Terminators(p) = {} THEN Len(local[p].buf) - local[p].off
  ELSE (CHOOSE j \in Terminators(p) : \A i \in Terminators(p) : j <= i) - 1 - local[p].off

Chunk(p) ==
  SubSeq(local[p].buf, local[p].off + 1,
         local[p].off + Idx(p) + (IF Terminators(p) = {} THEN 0 ELSE 1))

NewSize(p) == current_temporary_buffer_size + Len(Chunk(p))

WriteCall(p) ==
  /\ pc[p] = "idle" /\ p \in opened
  /\ \E b \in WriteBufs : local' = [local EXCEPT ![p] = [NoLocal EXCEPT !.buf = b]]
  /\ Call(p, "w_scan")
  /\ UNCHANGED <<device, lock, opened, f_pos>>

MoreToWrite(p) == local[p].off < Len(local[p].buf)

WriteLock(p) ==
  /\ pc[p] = "w_scan" /\ MoreToWrite(p)
  /\ Acquire(p)
  /\ Goto(p, IF Terminators(p) = {} THEN "w_tail" ELSE "w_cmd")
  /\ UNCHANGED <<device, opened, f_pos, local, ret>>

WriteInterrupted(p) ==
  /\ pc[p] = "w_scan" /\ MoreToWrite(p)
  /\ Interrupted
  /\ Return(p, -ERESTARTSYS)
  /\ UNCHANGED <<device, lock, opened, f_pos>>

\* krealloc of the temporary buffer to n bytes: it may stay or move, and a
\* block that moves is freed.  The bytes in use (its first
\* current_temporary_buffer_size) survive; more are appended by the caller.
krealloc(n, q) ==
  /\ n <= MaxAlloc
  /\ q \in (Ptr \ allocated) \cup ({temporary_command_buffer} \ {NullPtr})
  /\ temporary_command_buffer' = q
  /\ allocated' = (allocated \ {temporary_command_buffer}) \cup {q}

Grown_FromZero(more) == more

\* What was in use of the temporary buffer, then the bytes more.
Grown(more) ==
  (IF temporary_command_buffer = NullPtr THEN << >>
   ELSE SubSeq(mem[temporary_command_buffer].data, 1, current_temporary_buffer_size)) \o more

SetBlock(n, q, bytes) ==
  mem' = [a \in Ptr |-> IF a = q THEN [size |-> n, data |-> bytes]
                        ELSE IF a = temporary_command_buffer THEN NoBlock ELSE mem[a]]

\* The chunk is copied; a tail leaves the loop and is done with the lock.
WriteAppend_UnlocksEarly(p) ==
  /\ pc[p] \in {"w_cmd", "w_tail"}
  /\ \E q \in Ptr : /\ krealloc(NewSize(p), q)
                    /\ SetBlock(NewSize(p), q, Grown(Chunk(p)))
  /\ current_temporary_buffer_size' = NewSize(p)
  /\ Release(p)
  /\ IF pc[p] = "w_cmd"
     THEN Goto(p, "w_evict") /\ UNCHANGED local
     ELSE /\ Goto(p, "w_scan")
          /\ local' = [local EXCEPT ![p].off = Len(local[p].buf)]
  /\ UNCHANGED <<buffer, opened, f_pos, ret>>
WriteAppend(p) ==
  /\ pc[p] \in {"w_cmd", "w_tail"}
  /\ \E q \in Ptr : /\ krealloc(NewSize(p), q)
                    /\ SetBlock(NewSize(p), q, Grown(Chunk(p)))
  /\ current_temporary_buffer_size' = NewSize(p)
  /\ IF pc[p] = "w_cmd"
     THEN Goto(p, "w_evict") /\ UNCHANGED <<lock, local>>
     ELSE /\ Release(p)
          /\ Goto(p, "w_scan")
          /\ local' = [local EXCEPT ![p].off = Len(local[p].buf)]
  /\ UNCHANGED <<buffer, opened, f_pos, ret>>

WriteFault_KeepsLock(p) ==
  /\ pc[p] \in {"w_cmd", "w_tail"} /\ "fault" \in Faults
  /\ \E q \in Ptr : /\ krealloc(NewSize(p), q)
                    /\ SetBlock(NewSize(p), q, Grown(<< >>))
  /\ Return(p, -EFAULT)
  /\ UNCHANGED <<buffer, current_temporary_buffer_size, lock, opened, f_pos>>
WriteFault(p) ==
  /\ pc[p] \in {"w_cmd", "w_tail"} /\ "fault" \in Faults
  /\ \E q \in Ptr : /\ krealloc(NewSize(p), q)
                    /\ SetBlock(NewSize(p), q, Grown(<< >>))
  /\ Release(p)
  /\ Return(p, -EFAULT)
  /\ UNCHANGED <<buffer, current_temporary_buffer_size, opened, f_pos>>

WriteNoMem(p) ==
  /\ pc[p] \in {"w_cmd", "w_tail"}
  /\ "nomem" \in Faults \/ NewSize(p) > MaxAlloc
  /\ Release(p)
  /\ Return(p, -ENOMEM)
  /\ UNCHANGED <<device, opened, f_pos>>

\* aesd_circular_buffer_add_entry, in the two steps the print can tell apart.
WriteEvict(p) ==
  /\ pc[p] = "w_evict"
  /\ allocated' = allocated \ {Evicted(buffer)}
  /\ mem' = [a \in Ptr |-> IF a = Evicted(buffer) THEN NoBlock ELSE mem[a]]
  /\ buffer' = Evict(buffer)
  /\ Goto(p, "w_store")
  /\ UNCHANGED <<temporary_command_buffer, current_temporary_buffer_size,
                 lock, opened, f_pos, local, ret>>

WriteStore_NotTheTerminator(p) ==
  /\ pc[p] = "w_store"
  /\ buffer' = Store(buffer, [buffptr |-> temporary_command_buffer,
                              size    |-> current_temporary_buffer_size])
  /\ local' = [local EXCEPT ![p].wrote = @ + Idx(p)]
  /\ Goto(p, "w_reset")
  /\ UNCHANGED <<temporary_command_buffer, current_temporary_buffer_size,
                 allocated, mem, lock, opened, f_pos, ret>>
WriteStore_LastPieceOnly(p) ==
  /\ pc[p] = "w_store"
  /\ buffer' = Store(buffer, [buffptr |-> temporary_command_buffer,
                              size    |-> Len(Chunk(p))])
  /\ local' = [local EXCEPT ![p].wrote = @ + current_temporary_buffer_size]
  /\ Goto(p, "w_reset")
  /\ UNCHANGED <<temporary_command_buffer, current_temporary_buffer_size,
                 allocated, mem, lock, opened, f_pos, ret>>
WriteStore(p) ==
  /\ pc[p] = "w_store"
  /\ buffer' = Store(buffer, [buffptr |-> temporary_command_buffer,
                              size    |-> current_temporary_buffer_size])
  /\ local' = [local EXCEPT ![p].wrote = @ + current_temporary_buffer_size]
  /\ Goto(p, "w_reset")
  /\ UNCHANGED <<temporary_command_buffer, current_temporary_buffer_size,
                 allocated, mem, lock, opened, f_pos, ret>>

WriteReset_KeepsPointer(p) ==
  /\ pc[p] = "w_reset"
  /\ current_temporary_buffer_size' = 0
  /\ local' = [local EXCEPT ![p].off = Idx(p) + 1]
  /\ Release(p)
  /\ Goto(p, "w_scan")
  /\ UNCHANGED <<buffer, temporary_command_buffer, allocated, mem, opened, f_pos, ret>>

\* The scan goes on from idx + 1, which is counted from the old off.
WriteReset(p) ==
  /\ pc[p] = "w_reset"
  /\ temporary_command_buffer' = NullPtr
  /\ current_temporary_buffer_size' = 0
  /\ local' = [local EXCEPT ![p].off = Idx(p) + 1]
  /\ Release(p)
  /\ Goto(p, "w_scan")
  /\ UNCHANGED <<buffer, allocated, mem, opened, f_pos, ret>>

WriteReturn(p) ==
  /\ pc[p] = "w_scan" /\ ~MoreToWrite(p)
  /\ IF PrintSlots > 0
     THEN Goto(p, "w_print") /\ UNCHANGED <<local, ret>>
     ELSE Return(p, local[p].wrote)
  /\ UNCHANGED <<device, lock, opened, f_pos>>

-----------------------------------------------------------------------------
(***************************************************************************)
(* aesd_read.  The VFS hands it a copy of the file's position and stores   *)
(* the copy back when the call succeeds.                                   *)
(***************************************************************************)
ReadCall(p) ==
  /\ pc[p] = "idle" /\ p \in opened
  /\ \E c \in ReadCounts :
       local' = [local EXCEPT ![p] = [NoLocal EXCEPT !.count = c, !.pos = f_pos[p]]]
  /\ Call(p, IF PrintSlots > 0 THEN "r_print" ELSE "read")
  /\ UNCHANGED <<device, lock, opened, f_pos>>

\* min(circular_buffer_length - *f_pos, count) on unsigned numbers.
num_bytes_to_read(p) ==
  LET left == (aesd_circular_buffer_content_length(buffer) - local[p].pos) % SizeModulus
  IN  IF left < local[p].count THEN left ELSE local[p].count

ReadLock(p) ==
  /\ pc[p] = "read"
  /\ Acquire(p)
  /\ local' = [local EXCEPT ![p].count = num_bytes_to_read(p)]
  /\ Goto(p, "r_loop")
  /\ UNCHANGED <<device, opened, f_pos, ret>>

ReadInterrupted(p) ==
  /\ pc[p] = "read"
  /\ Interrupted
  /\ Return(p, -ERESTARTSYS)
  /\ UNCHANGED <<device, lock, opened, f_pos>>

Found(p) == aesd_circular_buffer_find_entry_offset_for_fpos(buffer, local[p].pos)
MoreToRead_OneEntry(p) == local[p].buf = << >> /\ local[p].count > 0 /\ Found(p) # NotFound
MoreToRead(p) == Len(local[p].buf) < local[p].count /\ Found(p) # NotFound

Transfer_FromEntryStart(p) ==
  LET e    == buffer.entry[Found(p).slot]
      want == local[p].count - Len(local[p].buf)
      size == IF want > e.size THEN e.size ELSE want
  IN  SubSeq(mem[e.buffptr].data, 1, size)
\* The bytes of the entry found from entry_offset on, as many as are asked for.
Transfer(p) ==
  LET e    == buffer.entry[Found(p).slot]
      off  == Found(p).entry_offset
      want == local[p].count - Len(local[p].buf)
      size == IF want > e.size - off THEN e.size - off ELSE want
  IN  SubSeq(mem[e.buffptr].data, off + 1, off + size)

ReadTransfer(p) ==
  /\ pc[p] = "r_loop" /\ MoreToRead(p)
  /\ local' = [local EXCEPT ![p].buf = @ \o Transfer(p),
                            ![p].pos = @ + Len(Transfer(p))]
  /\ UNCHANGED <<device, lock, opened, f_pos, pc, ret>>

ReadFault(p) ==
  /\ pc[p] = "r_loop" /\ MoreToRead(p) /\ "fault" \in Faults
  /\ Release(p)
  /\ Return(p, -EFAULT)
  /\ UNCHANGED <<device, opened, f_pos>>

ReadReturn(p) ==
  /\ pc[p] = "r_loop" /\ ~MoreToRead(p)
  /\ f_pos' = [f_pos EXCEPT ![p] = local[p].pos]
  /\ Release(p)
  /\ Return(p, Len(local[p].buf))
  /\ UNCHANGED <<device, opened>>

-----------------------------------------------------------------------------
(***************************************************************************)
(* aesd_llseek and aesd_unlocked_ioctl.  What they do under the lock is    *)
(* one step: nobody can tell its pieces apart.                             *)
(***************************************************************************)
SeekCall(p) ==
  /\ pc[p] = "idle" /\ p \in opened
  /\ \/ LlseekArgs # {} /\ Call(p, "llseek")
     \/ SeekArgs # {}   /\ Call(p, "ioctl")
  /\ UNCHANGED <<device, lock, opened, f_pos, local>>

\* A command that is not AESDCHAR_IOCSEEKTO, of another type or number, or of
\* the right number with another direction or size, is refused before the lock
\* is asked for.
IoctlRefused(p) ==
  /\ pc[p] = "idle" /\ p \in opened /\ SeekArgs # {}
  /\ \E e \in {ENOTTY, EINVAL} : ret' = [ret EXCEPT ![p] = -e]
  /\ UNCHANGED <<device, lock, opened, f_pos, pc, local>>

SeekInterrupted(p) ==
  /\ pc[p] \in {"llseek", "ioctl"}
  /\ Interrupted
  /\ Return(p, -ERESTARTSYS)
  /\ UNCHANGED <<device, lock, opened, f_pos>>

\* fixed_size_llseek of the kernel: the new position, or -EINVAL for one
\* that is negative or beyond size.
fixed_size_llseek(pos, off, whence, size) ==
  LET target == CASE whence = "SEEK_SET" -> off
                  [] whence = "SEEK_END" -> size + off
                  [] whence = "SEEK_CUR" -> pos + off
  IN  IF whence = "SEEK_CUR" /\ off = 0 THEN pos
      ELSE IF target < 0 \/ target > size THEN -EINVAL ELSE target

\* A whence that is none of the three returns with the lock held.
aesd_llseek(p) ==
  LET length == aesd_circular_buffer_content_length(buffer) IN
  /\ pc[p] = "llseek"
  /\ lock = NoProc
  /\ \E a \in LlseekArgs :
       IF a.whence \in {"SEEK_SET", "SEEK_CUR", "SEEK_END"}
       THEN LET new == IF length = 0 THEN -EINVAL
                       ELSE fixed_size_llseek(f_pos[p], a.off, a.whence, length)
            IN  /\ f_pos' = [f_pos EXCEPT ![p] = IF new < 0 THEN @ ELSE new]
                /\ Return(p, new)
                /\ UNCHANGED lock
       ELSE /\ lock' = p
            /\ Return(p, -EINVAL)
            /\ UNCHANGED f_pos
  /\ UNCHANGED <<device, opened>>

aesd_unlocked_ioctl(p) ==
  /\ pc[p] = "ioctl"
  /\ lock = NoProc
  /\ \E s \in SeekArgs :
       LET offset == aesd_circular_buffer_find_fpos_at_position(
                       buffer, s.write_cmd, s.write_cmd_offset)
       IN  \/ /\ offset < 0
              /\ Return(p, -EINVAL)
              /\ UNCHANGED f_pos
           \/ /\ ~(offset < 0)
              /\ f_pos' = [f_pos EXCEPT ![p] = offset]
              /\ Return(p, 0)
           \/ /\ "fault" \in Faults
              /\ Return(p, -EFAULT)
              /\ UNCHANGED f_pos
  /\ UNCHANGED <<device, lock, opened>>

-----------------------------------------------------------------------------
Write(p) == \/ WriteLock(p) \/ WriteInterrupted(p) \/ WriteAppend(p) \/ WriteFault(p)
            \/ WriteNoMem(p) \/ WriteEvict(p) \/ WriteStore(p) \/ WriteReset(p)
            \/ WriteReturn(p)
Read(p)  == ReadLock(p) \/ ReadInterrupted(p) \/ ReadTransfer(p) \/ ReadFault(p) \/ ReadReturn(p)
Seek(p)  == SeekInterrupted(p) \/ aesd_llseek(p) \/ aesd_unlocked_ioctl(p)
DebugPrint(p) == PrintFetch(p) \/ PrintCopy(p)

\* The steps of a call that is under way, and the steps of its caller.
Running(p) == Write(p) \/ Read(p) \/ Seek(p) \/ DebugPrint(p)
Caller(p)  == \/ aesd_open(p) \/ aesd_release(p) \/ WriteCall(p) \/ ReadCall(p)
              \/ SeekCall(p) \/ IoctlRefused(p)

Next == \E p \in Proc : Running(p) \/ Caller(p)
Spec == Init /\ [][Next]_vars

(***************************************************************************)
(* The scheduler runs a call that can run; the mutex of the kernel hands   *)
(* itself over to a task that has waited (MUTEX_FLAG_HANDOFF), so a task   *)
(* that finds it free again and again gets it.                             *)
(***************************************************************************)
GetsLock(p) == WriteLock(p) \/ ReadLock(p) \/ aesd_llseek(p) \/ aesd_unlocked_ioctl(p)
Fairness == \A p \in Proc : WF_vars(Running(p)) /\ SF_vars(GetsLock(p))
FairSpec == Spec /\ Fairness

-----------------------------------------------------------------------------
Label    == {"idle", "r_print", "r_copy", "w_print", "w_copy", "w_scan", "w_cmd", "w_tail",
             "w_evict", "w_store", "w_reset", "read", "r_loop", "llseek", "ioctl"}
Writing  == {"w_scan", "w_cmd", "w_tail", "w_evict", "w_store", "w_reset"}
Critical == {"w_cmd", "w_tail", "w_evict", "w_store", "w_reset", "r_loop"}

\* Every pointer is one the heap can give, every offset in its array; a write
\* that is under way has its buffer and a place in it.
TypeOK ==
  /\ buffer \in Buffer
  /\ temporary_command_buffer \in Ptr \cup {NullPtr}
  /\ current_temporary_buffer_size \in Nat
  /\ lock \in Proc \cup {NoProc}
  /\ allocated \subseteq Ptr
  /\ mem \in [Ptr -> [size : Nat, data : Seq(Byte)]]
  /\ opened \subseteq Proc
  /\ pc \in [Proc -> Label]
  /\ DOMAIN local = Proc
  /\ \A p \in Proc : DOMAIN local[p] = DOMAIN NoLocal
  /\ \A p \in Proc : pc[p] \in Writing => local[p].buf \in Seq(Byte) /\ local[p].off \in Nat

\* dev->lock admits one process at a time to the device: whoever is between
\* a mutex_lock_interruptible and its mutex_unlock owns the lock
\* (main.c:108, 172, 234, 287, 333).
MutualExclusion == \A p \in Proc : pc[p] \in Critical => lock = p

Storing   == \E p \in Proc : pc[p] = "w_store"
Resetting == \E p \in Proc : pc[p] = "w_reset"

\* The slot whose memory is freed and that is about to be overwritten.
Vacated(i) == Storing /\ buffer.full /\ i = buffer.in_offs
LiveSlots  == {i \in Slots : buffer.entry[i].buffptr # NullPtr /\ ~Vacated(i)}
Held(i)    == buffer.entry[i].buffptr

\* Each block the driver has allocated has one owner, a slot of the buffer
\* or the temporary buffer, at every step of every interleaving of writers
\* and on every error path: nothing is leaked, freed twice or kept after it
\* was freed (main.c:225-312, aesd-circular-buffer.c:80-98).
MemoryOwned ==
  /\ \A i \in LiveSlots : Held(i) \in allocated
  /\ \A i, j \in LiveSlots : Held(i) = Held(j) => i = j
  /\ temporary_command_buffer # NullPtr =>
       /\ temporary_command_buffer \in allocated
       /\ ~Resetting => \A i \in LiveSlots : Held(i) # temporary_command_buffer
  /\ allocated \subseteq {Held(i) : i \in LiveSlots} \cup {temporary_command_buffer}

\* Whenever the device is at rest, what aesd_cleanup_module would free, the
\* pointer of every slot and the temporary buffer (main.c:445-468), is what
\* is allocated, each block once.
CleanupFreesAll ==
  lock = NoProc =>
    /\ allocated = ({Held(i) : i \in Slots} \cup {temporary_command_buffer}) \ {NullPtr}
    /\ \A i, j \in Slots : Held(i) = Held(j) /\ Held(i) # NullPtr => i = j
    /\ \A i \in Slots : Held(i) = temporary_command_buffer => Held(i) = NullPtr

\* A command in the buffer is as long as its entry says, lies within its
\* block and ends with its only terminator, however the pieces of several
\* writers were put together (main.c:238-259, 292-303).
Terminated(s) == Len(s) > 0 /\ \A j \in 1..Len(s) : s[j] = NL <=> j = Len(s)
CommandsWellFormed ==
  \A i \in LiveSlots :
    LET block == mem[Held(i)] IN
    /\ buffer.entry[i].size = Len(block.data)
    /\ Len(block.data) <= block.size
    /\ Terminated(block.data)

\* Wherever a call leaves the file, it was a place in the device at that
\* moment: from 0 to the length of the contents under the lock, never an
\* error code and never past the end (main.c:143-147, 196-197, 342-349).
\* Only what other processes write later can leave a position behind.
PositionInContents ==
  [][\A p \in Proc : f_pos'[p] # f_pos[p] =>
       f_pos'[p] \in 0 .. aesd_circular_buffer_content_length(buffer)]_vars

\* What a write of one or more whole commands reports is at least what it was
\* given, so a caller that loops on short writes stops (main.c:259, 315;
\* server/utility_funcs.c:224).
WholeCommandNotShort ==
  [][\A p \in Proc :
       (Len(local[p].buf) > 0 /\ pc[p] \in {"w_scan", "w_print"} /\ pc'[p] = "idle"
          /\ local[p].buf[Len(local[p].buf)] = NL)
         => ret'[p] >= Len(local[p].buf) \/ ret'[p] < 0]_vars

\* main.c:190: "we will always honor read requests".  Every call returns.
CallReturns == \A p \in Proc : pc[p] # "idle" ~> pc[p] = "idle"
ReadHonored == \A p \in Proc : pc[p] \in {"read", "r_loop"} ~> pc[p] = "idle"

\* main.c:177: "need to lock before I get this, cause a write to the buffer
\* can change it".  What the debug print copies from is still allocated.
PrintReadsLiveMemory ==
  \A p \in Proc : pc[p] \in {"r_copy", "w_copy"} => local[p].ptr \in allocated \cup {NullPtr}

\* main.c:232: "loop again just in case multiple command in same write".
\* Each turn of the loop goes on behind the bytes it has already taken.
ScanAdvances ==
  [][\A p \in Proc : pc[p] = "w_reset" /\ pc'[p] = "w_scan" => local'[p].off > local[p].off]_vars
=============================================================================
