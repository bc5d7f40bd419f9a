----------------------- MODULE AesdCharRefinementProofs -----------------------
(***************************************************************************)
(* The driver implements the command device, for any number of processes,  *)
(* slots and addresses and any set of buffers: each step of main.c extends *)
(* the pending command by one piece, commits it, or is a stutter.          *)
(* A read copies a slice of that device, and no call moves a file's        *)
(* position out of it.                                                     *)
(***************************************************************************)
EXTENDS AesdCharRefinement, AesdCharProofs

-----------------------------------------------------------------------------
(***************************************************************************)
(* What the mapping needs beside IInv: the slots that count hold a command *)
(* (Filled), and a writer's pieces come from a buffer that was given to    *)
(* write (Given).                                                          *)
(***************************************************************************)
Filled == \A i \in Slots : buffer.full \/ i < buffer.in_offs => Held(i) # NullPtr
Given  == \A p \in Proc : pc[p] \in Writing => local[p].buf \in WriteBufs

RInv == IInv /\ Filled /\ Given

LEMMA InitialRInv ==
  ASSUME Init
  PROVE  RInv
<1>1. IInv
  BY InitialState
<1>2. Filled
  <2>1. ~buffer.full /\ buffer.in_offs = 0
    BY DEF Init, aesd_circular_buffer_init
  <2>2. QED
    BY <2>1 DEF Filled, Slots
<1>3. Given
  BY DEF Init, Given, Writing
<1>4. QED
  BY <1>1, <1>2, <1>3 DEF RInv

\* Only WriteStore puts an entry into a slot, and the entry has an address.
LEMMA FilledKept ==
  ASSUME IInv, Filled, [Next]_vars
  PROVE  Filled'
<1>1. buffer \in Buffer /\ BufferShape /\ TempBlock
  BY DEF IInv, TypeOK, DeviceInv
<1>2. CASE UNCHANGED buffer
  BY <1>2 DEF Filled, Held
<1>3. ASSUME NEW p \in Proc, WriteEvict(p)
      PROVE  Filled'
  <2>1. buffer'.entry = buffer.entry /\ buffer'.in_offs = buffer.in_offs
        /\ buffer'.full = buffer.full
    BY <1>1, <1>3, EvictMakesRoom DEF WriteEvict
  <2>2. QED
    BY <2>1 DEF Filled, Held
<1>4. ASSUME NEW p \in Proc, WriteStore(p)
      PROVE  Filled'
  <2> DEFINE e == [buffptr |-> temporary_command_buffer,
                   size |-> current_temporary_buffer_size]
  <2>1. pc[p] = "w_store" /\ buffer' = Store(buffer, e)
    BY <1>4 DEF WriteStore
  <2>2. Storing /\ Committing
    BY <2>1 DEF Storing, Committing, CommitLabels
  <2>3. e \in Entry /\ e.buffptr # NullPtr
    BY <1>1, <2>2 DEF IInv, TypeOK, TempBlock, Entry
  <2> HIDE DEF e
  <2> PICK in \in Slots : in = buffer.in_offs
    BY <1>1 DEF Buffer
  <2>4. /\ buffer'.entry = [buffer.entry EXCEPT ![in] = e]
        /\ buffer'.in_offs = Advance(in)
        /\ buffer'.full = ((Advance(in) = buffer.out_offs) \/ buffer.full)
        /\ buffer.entry \in [Slots -> Entry] /\ buffer.full \in BOOLEAN
    BY <1>1, <2>1, <2>3, StoreFields DEF Buffer
  <2>5. Advance(in) = IF in = MaxOps - 1 THEN 0 ELSE in + 1
    BY AdvanceWraps
  <2>6. Room(buffer)
    BY <1>1, <2>2 DEF BufferShape
  <2> SUFFICES ASSUME NEW i \in Slots, buffer'.full \/ i < buffer'.in_offs
               PROVE  buffer'.entry[i].buffptr # NullPtr
    BY DEF Filled, Held
  <2>7. CASE i = in
    BY <2>3, <2>4, <2>7
  <2>8. CASE i # in
    <3>1. buffer'.entry[i] = buffer.entry[i]
      BY <2>4, <2>8
    <3>2. buffer.full \/ i < in
      <4>1. CASE buffer.full
        BY <4>1
      <4>2. CASE ~buffer.full
        <5>1. buffer.out_offs = 0
          BY <2>6, <4>2 DEF Room, Shape
        <5>2. CASE in = MaxOps - 1
          BY <5>2, <2>8, MaxOpsAssumption DEF Slots
        <5>3. CASE in # MaxOps - 1
          <6>1. Advance(in) = in + 1 /\ in + 1 # 0
            BY <5>3, <2>5 DEF Slots
          <6>2. ~buffer'.full
            BY <6>1, <5>1, <4>2, <2>4
          <6>3. i < in + 1
            BY <6>1, <6>2, <2>4
          <6>4. QED
            BY <6>3, <2>8 DEF Slots
        <5>4. QED  BY <5>2, <5>3
      <4>3. QED  BY <4>1, <4>2
    <3>3. QED
      BY <3>1, <3>2 DEF Filled, Held
  <2>9. QED  BY <2>7, <2>8
<1>5. ASSUME NEW p \in Proc, Running(p) \/ Caller(p), ~WriteEvict(p), ~WriteStore(p)
      PROVE  UNCHANGED buffer
  BY <1>5 DEF Running, Caller, Write, Read, Seek, DebugPrint, device, WriteLock,
     WriteInterrupted, WriteAppend, WriteFault, WriteNoMem, WriteReset, WriteReturn,
     ReadLock, ReadInterrupted, ReadTransfer, ReadFault, ReadReturn, SeekInterrupted,
     aesd_llseek, aesd_unlocked_ioctl, IoctlRefused, PrintFetch, PrintCopy, aesd_open,
     aesd_release, WriteCall, ReadCall, SeekCall
<1>6. QED
  BY <1>2, <1>3, <1>4, <1>5 DEF Next, vars, device

\* Only WriteCall gives a writer another buffer.
LEMMA BufferKept ==
  ASSUME Given, pc \in [Proc -> Label], NEW p \in Proc, NEW l, NEW r,
         pc' = [pc EXCEPT ![p] = l], LocalMoves(p, r),
         l \in Writing => r.buf \in WriteBufs
  PROVE  Given'
BY DEF Given, LocalMoves

LEMMA GivenKept ==
  ASSUME IInv, Given, [Next]_vars
  PROVE  Given'
<1>1. pc \in [Proc -> Label] /\ DOMAIN local = Proc
      /\ \A p \in Proc : DOMAIN local[p] = DOMAIN NoLocal
  BY DEF IInv, TypeOK
<1>2. CASE UNCHANGED <<pc, local>>
  BY <1>2 DEF Given
\* A step to a label that is not in the loop of a write.
<1>3. ASSUME NEW p \in Proc, NEW l, NEW r, l \notin Writing,
             pc' = [pc EXCEPT ![p] = l], local' = [local EXCEPT ![p] = r]
      PROVE  Given'
  BY <1>1, <1>3, LocalSet, BufferKept
<1>4. ASSUME NEW p \in Proc, NEW l, l \notin Writing,
             pc' = [pc EXCEPT ![p] = l], local' = local
      PROVE  Given'
  <2>1. LocalMoves(p, local[p])
    BY <1>1, <1>4 DEF LocalMoves
  <2>2. QED  BY <1>1, <1>4, <2>1, BufferKept
\* A step inside it.
<1>5. ASSUME NEW p \in Proc, NEW l, NEW r, pc[p] \in Writing, r.buf = local[p].buf,
             pc' = [pc EXCEPT ![p] = l], local' = [local EXCEPT ![p] = r]
      PROVE  Given'
  <2>1. r.buf \in WriteBufs
    BY <1>5 DEF Given
  <2>2. QED  BY <1>1, <1>5, <2>1, LocalSet, BufferKept
<1>6. ASSUME NEW p \in Proc, NEW l, pc[p] \in Writing,
             pc' = [pc EXCEPT ![p] = l], local' = local
      PROVE  Given'
  <2>1. LocalMoves(p, local[p]) /\ local[p].buf \in WriteBufs
    BY <1>1, <1>6 DEF LocalMoves, Given
  <2>2. QED  BY <1>1, <1>6, <2>1, BufferKept
<1>7. ASSUME NEW p \in Proc, NEW e, Return(p, e)
      PROVE  Given'
  BY <1>3, <1>7 DEF Return, Goto, Writing
<1>8. ASSUME NEW p \in Proc, Caller(p)
      PROVE  Given'
  <2>1. CASE aesd_open(p) \/ aesd_release(p) \/ IoctlRefused(p)
    BY <1>2, <2>1 DEF aesd_open, aesd_release, IoctlRefused
  <2>2. CASE WriteCall(p)
    <3>1. PICK b \in WriteBufs : local' = [local EXCEPT ![p] = [NoLocal EXCEPT !.buf = b]]
      BY <2>2 DEF WriteCall
    <3> DEFINE r == [NoLocal EXCEPT !.buf = b]
    <3>2. r.buf = b /\ local' = [local EXCEPT ![p] = r] /\ pc' = [pc EXCEPT ![p] = "w_scan"]
      BY <2>2, <3>1 DEF WriteCall, Call, Goto, NoLocal
    <3> HIDE DEF r
    <3>3. QED  BY <1>1, <3>1, <3>2, LocalSet, BufferKept
  <2>3. CASE ReadCall(p)
    BY <1>3, <2>3 DEF ReadCall, Call, Goto, Writing
  <2>4. CASE SeekCall(p)
    BY <1>4, <2>4 DEF SeekCall, Call, Goto, Writing
  <2>5. QED  BY <1>8, <2>1, <2>2, <2>3, <2>4 DEF Caller
<1>9. ASSUME NEW p \in Proc, Read(p)
      PROVE  Given'
  <2>1. CASE ReadLock(p)
    BY <1>3, <2>1 DEF ReadLock, Goto, Writing
  <2>2. CASE ReadTransfer(p)
    <3> DEFINE r == [local[p] EXCEPT !.buf = @ \o Transfer(p), !.pos = @ + Len(Transfer(p))]
    <3>1. pc[p] = "r_loop" /\ pc' = [pc EXCEPT ![p] = "r_loop"]
          /\ local' = [local EXCEPT ![p] = r]
      BY <1>1, <2>2 DEF ReadTransfer
    <3> HIDE DEF r
    <3>2. QED  BY <1>3, <3>1 DEF Writing
  <2>3. CASE ReadInterrupted(p) \/ ReadFault(p) \/ ReadReturn(p)
    BY <1>7, <2>3 DEF ReadInterrupted, ReadFault, ReadReturn
  <2>4. QED  BY <1>9, <2>1, <2>2, <2>3 DEF Read
<1>10. ASSUME NEW p \in Proc, Seek(p)
       PROVE  Given'
  BY <1>7, <1>10 DEF Seek, SeekInterrupted, aesd_llseek, aesd_unlocked_ioctl
<1>11. ASSUME NEW p \in Proc, DebugPrint(p)
       PROVE  Given'
  <2>1. CASE PrintFetch(p) /\ local[p].slot < PrintSlots
    <3>1. PICK l \in {"r_copy", "w_copy"} : pc' = [pc EXCEPT ![p] = l]
      BY <2>1 DEF PrintFetch, Goto
    <3>2. QED  BY <1>3, <2>1, <3>1 DEF PrintFetch, Writing
  <2>2. CASE PrintFetch(p) /\ ~(local[p].slot < PrintSlots)
    <3>1. AfterPrint(p)
      BY <2>2 DEF PrintFetch
    <3>2. QED  BY <1>3, <1>7, <3>1 DEF AfterPrint, Goto, Writing
  <2>3. CASE PrintCopy(p)
    <3>1. PICK l \in {"r_print", "w_print"} : pc' = [pc EXCEPT ![p] = l]
      BY <2>3 DEF PrintCopy, Goto
    <3>2. QED  BY <1>3, <2>3, <3>1 DEF PrintCopy, Writing
  <2>4. QED  BY <1>11, <2>1, <2>2, <2>3 DEF DebugPrint
<1>12. ASSUME NEW p \in Proc, Write(p)
       PROVE  Given'
  <2>1. CASE WriteLock(p)
    BY <1>6, <2>1 DEF WriteLock, Goto, Writing
  <2>2. CASE WriteInterrupted(p) \/ WriteFault(p) \/ WriteNoMem(p)
    BY <1>7, <2>2 DEF WriteInterrupted, WriteFault, WriteNoMem
  <2>3. CASE WriteAppend(p)
    <3> DEFINE r == [local[p] EXCEPT !.off = Len(local[p].buf)]
    <3>1. r.buf = local[p].buf /\ pc[p] \in Writing
      BY <1>1, <2>3 DEF NoLocal, Writing, WriteAppend
    <3>2. CASE pc[p] = "w_cmd"
      BY <1>6, <2>3, <3>1, <3>2 DEF WriteAppend, Goto
    <3>3. CASE pc[p] # "w_cmd"
      <4>1. pc' = [pc EXCEPT ![p] = "w_scan"] /\ local' = [local EXCEPT ![p] = r]
        BY <2>3, <3>3 DEF WriteAppend, Goto
      <4> HIDE DEF r
      <4>2. QED  BY <1>5, <3>1, <4>1
    <3>4. QED  BY <3>2, <3>3
  <2>4. CASE WriteEvict(p)
    BY <1>6, <2>4 DEF WriteEvict, Goto, Writing
  <2>5. CASE WriteStore(p)
    <3> DEFINE r == [local[p] EXCEPT !.wrote = @ + current_temporary_buffer_size]
    <3>1. r.buf = local[p].buf /\ pc[p] \in Writing
          /\ pc' = [pc EXCEPT ![p] = "w_reset"] /\ local' = [local EXCEPT ![p] = r]
      BY <1>1, <2>5 DEF NoLocal, Writing, WriteStore, Goto
    <3> HIDE DEF r
    <3>2. QED  BY <1>5, <3>1
  <2>6. CASE WriteReset(p)
    <3> DEFINE r == [local[p] EXCEPT !.off = Idx(p) + 1]
    <3>1. r.buf = local[p].buf /\ pc[p] \in Writing
          /\ pc' = [pc EXCEPT ![p] = "w_scan"] /\ local' = [local EXCEPT ![p] = r]
      BY <1>1, <2>6 DEF NoLocal, Writing, WriteReset, Goto
    <3> HIDE DEF r
    <3>2. QED  BY <1>5, <3>1
  <2>7. CASE WriteReturn(p)
    <3>1. CASE PrintSlots > 0
      BY <1>4, <2>7, <3>1 DEF WriteReturn, Goto, Writing
    <3>2. CASE ~(PrintSlots > 0)
      BY <1>7, <2>7, <3>2 DEF WriteReturn
    <3>3. QED  BY <3>1, <3>2
  <2>8. QED  BY <1>12, <2>1, <2>2, <2>3, <2>4, <2>5, <2>6, <2>7 DEF Write
<1>13. QED
  BY <1>2, <1>8, <1>9, <1>10, <1>11, <1>12 DEF Next, Running, vars

LEMMA RInvHolds == Spec => []RInv
<1>1. Init => RInv
  BY InitialRInv
<1>2. RInv /\ [Next]_vars => RInv'
  BY StepKeepsInvariant, FilledKept, GivenKept DEF RInv
<1>3. QED
  BY <1>1, <1>2, PTL DEF Spec

-----------------------------------------------------------------------------
(***************************************************************************)
(* The commands of the device.  The slots that count are live, so what     *)
(* they point at is theirs alone.                                          *)
(***************************************************************************)
LEMMA KeptProperties ==
  ASSUME RInv
  PROVE  /\ KeptCount \in 0 .. MaxOps /\ KeptCount <= Count(buffer)
         /\ Kept \in Seq(Seq(Byte)) /\ Len(Kept) = KeptCount
         /\ \A k \in 1 .. KeptCount :
              /\ SlotAt(buffer, k-1) \in LiveSlots
              /\ Held(SlotAt(buffer, k-1)) \in Ptr
              /\ Contents(buffer)[k] = buffer.entry[SlotAt(buffer, k-1)]
              /\ Kept[k] = mem[Held(SlotAt(buffer, k-1))].data
<1>1. /\ buffer \in Buffer /\ BufferShape /\ Filled
      /\ mem \in [Ptr -> [size : Nat, data : Seq(Byte)]]
      /\ MemoryOwned /\ allocated \subseteq Ptr
  BY DEF RInv, IInv, TypeOK, DeviceInv
<1>2. buffer.out_offs \in Slots /\ buffer.in_offs \in Slots /\ buffer.full \in BOOLEAN
  BY <1>1 DEF Buffer
<1>3. MaxOps \in Nat /\ MaxOps >= 1
  BY MaxOpsAssumption
<1>4. Count(buffer) \in 0 .. MaxOps /\ (buffer.full => Count(buffer) = MaxOps)
  BY <1>1, CountBounds DEF Count
<1>5. KeptCount \in 0 .. MaxOps /\ KeptCount <= Count(buffer)
  BY <1>3, <1>4 DEF KeptCount
<1>6. ASSUME NEW k \in 1 .. KeptCount
      PROVE  /\ SlotAt(buffer, k-1) \in LiveSlots
             /\ Held(SlotAt(buffer, k-1)) \in Ptr
             /\ Contents(buffer)[k] = buffer.entry[SlotAt(buffer, k-1)]
  <2> DEFINE s == SlotAt(buffer, k-1)
  <2>1. k \in 1 .. Count(buffer) /\ k-1 \in 0 .. MaxOps /\ k \in Nat
    BY <1>3, <1>4, <1>5
  <2>2. /\ s \in Slots
        /\ s = IF buffer.out_offs + (k-1) < MaxOps THEN buffer.out_offs + (k-1)
               ELSE buffer.out_offs + (k-1) - MaxOps
    BY <1>1, <2>1, SlotAtWraps
  <2>3. Contents(buffer)[k] = buffer.entry[s]
    BY <1>1, <2>1, ContentsAreEntries
  <2> HIDE DEF s
  <2>4. ASSUME ~buffer.full
        PROVE  s \in LiveSlots
    <3>1. Shape(buffer) /\ buffer.out_offs = 0
      BY <1>1, <2>4 DEF BufferShape, Room, Shape
    <3>2. Count(buffer) = buffer.in_offs
      BY <1>1, <1>2, <2>4, <3>1, CountBounds DEF Slots
    <3>3. s < buffer.in_offs
      BY <1>2, <1>3, <2>1, <2>2, <3>1, <3>2 DEF Slots
    <3>4. Held(s) # NullPtr /\ ~Vacated(s)
      BY <1>1, <2>2, <2>4, <3>3 DEF Filled, Vacated
    <3>5. QED  BY <2>2, <3>4 DEF LiveSlots, Held
  <2>5. ASSUME buffer.full
        PROVE  s \in LiveSlots
    <3>1. Held(s) # NullPtr
      BY <1>1, <2>2, <2>5 DEF Filled
    <3>2. ~Vacated(s)
      <4> SUFFICES ASSUME Storing PROVE s # buffer.in_offs
        BY DEF Vacated
      <4>1. buffer.out_offs = IF buffer.in_offs = MaxOps - 1 THEN 0 ELSE buffer.in_offs + 1
        BY <1>1, <1>2, <2>5, AdvanceWraps DEF BufferShape, Room
      <4>2. k <= MaxOps - 1
        BY <2>5 DEF KeptCount
      <4>3. QED
        BY <1>2, <1>3, <2>1, <2>2, <4>1, <4>2 DEF Slots
    <3>3. QED  BY <2>2, <3>1, <3>2 DEF LiveSlots, Held
  <2>6. s \in LiveSlots
    BY <1>2, <2>4, <2>5
  <2>7. Held(s) \in Ptr
    BY <1>1, <2>6 DEF MemoryOwned
  <2>8. QED  BY <2>3, <2>6, <2>7 DEF s
<1>7. \A k \in 1 .. KeptCount :
        Data(k) = mem[Held(SlotAt(buffer, k-1))].data /\ Data(k) \in Seq(Byte)
  BY <1>1, <1>6 DEF Data, Held
<1>8. Kept \in [1 .. KeptCount -> Seq(Byte)] /\ \A k \in 1 .. KeptCount : Kept[k] = Data(k)
  BY <1>7 DEF Kept
<1>9. KeptCount \in Nat
  BY <1>5
<1>10. Kept \in Seq(Seq(Byte)) /\ Len(Kept) = KeptCount
  <2>1. Kept \in Seq(Seq(Byte))
    BY <1>8, <1>9, SeqDef
  <2>2. DOMAIN Kept = 1 .. KeptCount
    BY <1>8
  <2>3. QED
    BY <1>9, <2>1, <2>2, LenProperties
<1>11. QED
  BY <1>5, <1>6, <1>7, <1>8, <1>10

\* While no command is being stored, the log is what the live slots hold.
LEMMA LogKept ==
  ASSUME RInv, buffer' = buffer, ~Storing, ~Storing',
         \A i \in LiveSlots : mem'[Held(i)].data = mem[Held(i)].data
  PROVE  DeviceLog' = DeviceLog
<1>1. KeptCount' = KeptCount
  BY DEF KeptCount
<1>2. ASSUME NEW k \in 1 .. KeptCount
      PROVE  Data(k)' = Data(k)
  <2>1. /\ SlotAt(buffer, k-1) \in LiveSlots
        /\ Contents(buffer)[k] = buffer.entry[SlotAt(buffer, k-1)]
    BY KeptProperties
  <2>2. Contents(buffer)[k].buffptr = Held(SlotAt(buffer, k-1))
    BY <2>1 DEF Held
  <2>3. QED
    BY <2>1, <2>2 DEF Data
<1>3. Kept' = Kept
  BY <1>1, <1>2 DEF Kept
<1>4. QED
  BY <1>3 DEF DeviceLog

\* A step that changes nothing of the device and nothing of which part of a
\* write is going on is a stutter of the command device.
LEMMA QuietDevice ==
  ASSUME UNCHANGED device, Storing' <=> Storing, Resetting' <=> Resetting
  PROVE  UNCHANGED <<DeviceLog, DevicePending>>
<1>1. buffer' = buffer /\ temporary_command_buffer' = temporary_command_buffer /\ mem' = mem
  BY DEF device
<1>2. KeptCount' = KeptCount
  BY <1>1 DEF KeptCount
<1>3. Kept' = Kept
  BY <1>1, <1>2 DEF Kept, Data
<1>4. QED
  BY <1>1, <1>3 DEF DeviceLog, DevicePending

-----------------------------------------------------------------------------
(***************************************************************************)
(* The pieces of a write.                                                  *)
(***************************************************************************)
\* While a chunk is copied no other part of a commit is going on.
LEMMA NotCommitting ==
  ASSUME IInv, NEW p \in Proc, pc[p] \in {"w_cmd", "w_tail"}
  PROVE  ~Storing /\ ~Resetting /\ ~Committing
<1>1. \A o \in Proc : pc[o] \notin CommitLabels
  BY Alone DEF IInv, Critical, CommitLabels
<1>2. QED
  BY <1>1 DEF Storing, Resetting, Committing, CommitLabels

\* krealloc and the copy append to the pending command, whether the block
\* moves or not, and leave the log alone.
LEMMA GrowExtends ==
  ASSUME RInv, NEW p \in Proc, pc[p] \in {"w_cmd", "w_tail"},
         NEW l \in {"w_evict", "w_scan", "idle"}, pc' = [pc EXCEPT ![p] = l],
         NEW q \in Ptr, NEW n \in Nat, NEW more \in Seq(Byte),
         krealloc(n, q), SetBlock(n, q, Grown(more)), buffer' = buffer
  PROVE  /\ DeviceLog' = DeviceLog
         /\ DevicePending \in Seq(Byte) /\ NoTerminator(DevicePending)
         /\ DevicePending' = DevicePending \o more
<1> DEFINE tmp == temporary_command_buffer
           g   == Grown(more)
<1>1. /\ IInv /\ MutualExclusion /\ TempBlock /\ MemoryOwned /\ pc \in [Proc -> Label]
      /\ mem \in [Ptr -> [size : Nat, data : Seq(Byte)]] /\ allocated \subseteq Ptr
      /\ tmp \in Ptr \cup {NullPtr}
  BY DEF RInv, IInv, DeviceInv, TypeOK
<1>2. ~Storing /\ ~Resetting /\ ~Committing
  BY <1>1, NotCommitting
<1>3. ~Storing' /\ ~Resetting'
  <2>1. \A o \in Proc : pc'[o] = IF o = p THEN l ELSE pc[o]
    BY <1>1
  <2>2. QED
    BY <1>2, <2>1 DEF Storing, Resetting
<1>4. /\ tmp' = q /\ q # NullPtr
      /\ q \notin allocated \/ q = tmp
  BY NullPtrAssumption DEF krealloc
<1> HIDE DEF g
<1>5. mem' = [b \in Ptr |-> IF b = q THEN [size |-> n, data |-> g]
                            ELSE IF b = tmp THEN NoBlock ELSE mem[b]]
  BY DEF SetBlock, g
<1>6. ASSUME NEW i \in LiveSlots
      PROVE  mem'[Held(i)].data = mem[Held(i)].data
  <2>1. Held(i) \in allocated /\ Held(i) \in Ptr /\ Held(i) # tmp /\ Held(i) # q
    BY <1>1, <1>2, <1>4, NullPtrAssumption DEF MemoryOwned
  <2>2. QED
    BY <2>1, <1>5
<1>7. DeviceLog' = DeviceLog
  BY <1>2, <1>3, <1>6, LogKept
<1>8. DevicePending = IF tmp = NullPtr THEN << >> ELSE mem[tmp].data
  BY <1>2 DEF DevicePending
<1>9. DevicePending' = g
  <2>1. DevicePending' = mem'[q].data
    BY <1>3, <1>4 DEF DevicePending
  <2>2. QED
    BY <2>1, <1>5
<1>10. DevicePending \in Seq(Byte) /\ NoTerminator(DevicePending) /\ g = DevicePending \o more
  <2>1. CASE tmp = NullPtr
    <3>1. DevicePending = << >> /\ g = << >> \o more
      BY <1>8, <2>1 DEF g, Grown
    <3>2. QED
      BY <3>1, EmptySeq DEF NoTerminator
  <2>2. CASE tmp # NullPtr
    <3>1. mem[tmp].data \in Seq(Byte)
      BY <1>1, <2>2
    <3>2. /\ Len(mem[tmp].data) = current_temporary_buffer_size
          /\ NoTerminator(mem[tmp].data)
      BY <1>1, <1>2, <2>2 DEF TempBlock
    <3>3. SubSeq(mem[tmp].data, 1, current_temporary_buffer_size) = mem[tmp].data
      BY <3>1, <3>2, SubSeqFull
    <3>4. g = mem[tmp].data \o more
      BY <2>2, <3>3 DEF g, Grown
    <3>5. QED
      BY <1>8, <2>2, <3>1, <3>2, <3>4
  <2>3. QED  BY <2>1, <2>2
<1>11. QED
  BY <1>7, <1>9, <1>10

\* What a writer appends is one of the pieces that CommandDevice allows.
LEMMA ChunkIsPiece ==
  ASSUME RInv, NEW p \in Proc, pc[p] \in {"w_cmd", "w_tail"}
  PROVE  /\ Chunk(p) \in Seq(Byte) /\ NewSize(p) \in Nat
         /\ Chunk(p) \in UNION {{SubSeq(b, i, j) : i, j \in DOMAIN b} : b \in WriteBufs}
         /\ Device!Piece(Chunk(p))
<1> DEFINE b == local[p].buf
           o == local[p].off
<1>1. /\ b \in WriteBufs /\ b \in Seq(Byte) /\ o \in Nat /\ MoreToWrite(p)
      /\ current_temporary_buffer_size \in Nat
  BY DEF RInv, IInv, TypeOK, AtChunk, Given, Writing
<1>2. /\ Idx(p) \in Nat /\ Chunk(p) \in Seq(Byte) /\ Len(Chunk(p)) \in Nat \ {0}
      /\ Terminators(p) = {} => NoTerminator(Chunk(p))
      /\ Terminators(p) # {} => Terminated(Chunk(p))
  BY <1>1, ChunkProperties
<1>3. Device!Piece(Chunk(p))
  <2>1. \A i \in 1 .. Len(Chunk(p)) - 1 : Chunk(p)[i] # NL
    BY <1>2 DEF NoTerminator, Terminated
  <2>2. QED
    BY <1>2, <2>1 DEF Device!Piece
<1> DEFINE n == o + Idx(p) + (IF Terminators(p) = {} THEN 0 ELSE 1)
<1>4. Chunk(p) = SubSeq(b, o + 1, n)
  BY DEF Chunk
<1>5. o + 1 \in DOMAIN b /\ n \in DOMAIN b
  <2>1. DOMAIN b = 1 .. Len(b) /\ Len(b) \in Nat /\ o < Len(b)
    BY <1>1, LenProperties DEF MoreToWrite
  <2>2. n \in Nat /\ n >= 1 /\ n <= Len(b)
    <3>1. CASE Terminators(p) = {}
      <4>1. Idx(p) = Len(b) - o
        BY <3>1 DEF Idx
      <4>2. n = o + (Len(b) - o) + 0
        BY <3>1, <4>1
      <4> HIDE DEF n
      <4>3. QED  BY <4>2, <2>1, <1>1
    <3>2. CASE Terminators(p) # {}
      <4> DEFINE T == Terminators(p)
                 m == CHOOSE j \in T : \A i \in T : j <= i
      <4>1. T \subseteq o + 1 .. Len(b) /\ T \subseteq Nat
        BY <1>1, <2>1 DEF Terminators
      <4>2. PICK t \in T : \A i \in T : t <= i
        BY <3>2, <4>1, LeastElement
      <4>3. m \in T
        BY <4>2
      <4>4. Idx(p) = m - 1 - o
        BY <3>2 DEF Idx
      <4> HIDE DEF m, T
      <4>5. m \in o + 1 .. Len(b)
        BY <4>1, <4>3
      <4>6. n = o + (m - 1 - o) + 1
        BY <3>2, <4>4
      <4> HIDE DEF n
      <4>7. QED  BY <4>5, <4>6, <2>1, <1>1
    <3>3. QED  BY <3>1, <3>2
  <2>3. QED
    BY <1>1, <2>1, <2>2
<1>6. NewSize(p) \in Nat
  BY <1>1, <1>2 DEF NewSize
<1>7. Chunk(p) \in {SubSeq(b, i, j) : i, j \in DOMAIN b}
  <2> DEFINE part(i, j) == SubSeq(b, i, j)
  <2>1. Chunk(p) = part(o + 1, n)
    BY <1>4
  <2>2. SUFFICES Chunk(p) \in {part(i, j) : i, j \in DOMAIN b}
    OBVIOUS
  <2> HIDE DEF b, n, o, part
  <2>3. QED
    BY <2>1, <1>5
<1> HIDE DEF b, o, n
<1>8. QED
  BY <1>1, <1>2, <1>3, <1>6, <1>7

\* The step that makes room commits the pending command: the oldest one is
\* dropped from a full log, and its block is nobody else's.
LEMMA EvictCommits ==
  ASSUME RInv, NEW p \in Proc, WriteEvict(p)
  PROVE  Device!Commit
<1> DEFINE tmp == temporary_command_buffer
           out == Evicted(buffer)
           c   == mem[tmp].data
<1>1. /\ IInv /\ TypeOK /\ MutualExclusion /\ TempBlock /\ MemoryOwned /\ BufferShape
      /\ pc \in [Proc -> Label] /\ buffer \in Buffer /\ tmp \in Ptr \cup {NullPtr}
      /\ mem \in [Ptr -> [size : Nat, data : Seq(Byte)]]
  BY DEF RInv, IInv, DeviceInv, TypeOK
<1>2. /\ pc[p] = "w_evict" /\ pc' = [pc EXCEPT ![p] = "w_store"]
      /\ mem' = [a \in Ptr |-> IF a = out THEN NoBlock ELSE mem[a]]
      /\ buffer' = Evict(buffer) /\ tmp' = tmp
  BY DEF WriteEvict, Goto
<1>3. ~Storing /\ ~Resetting /\ Committing /\ Storing'
  <2>1. \A o \in Proc \ {p} : pc[o] \notin CommitLabels
    BY <1>1, <1>2, Alone DEF Critical, CommitLabels
  <2>2. \A o \in Proc : pc'[o] = IF o = p THEN "w_store" ELSE pc[o]
    BY <1>1, <1>2
  <2>3. QED
    BY <1>2, <2>1, <2>2 DEF Storing, Resetting, Committing, CommitLabels
<1>4. tmp \in Ptr /\ Terminated(c) /\ c \in Seq(Byte)
      /\ \A i \in LiveSlots : Held(i) # tmp
  BY <1>1, <1>3 DEF TempBlock, MemoryOwned
<1>5. /\ KeptCount = Count(buffer) /\ Count(buffer) \in 0 .. MaxOps
      /\ Kept \in Seq(Seq(Byte)) /\ Len(Kept) = Count(buffer)
      /\ \A k \in 1 .. Count(buffer) :
           /\ SlotAt(buffer, k-1) \in LiveSlots /\ Held(SlotAt(buffer, k-1)) \in Ptr
           /\ Contents(buffer)[k] = buffer.entry[SlotAt(buffer, k-1)]
           /\ Kept[k] = mem[Held(SlotAt(buffer, k-1))].data
  <2>1. KeptCount = Count(buffer)
    BY <1>3 DEF KeptCount
  <2>2. QED
    BY <2>1, KeptProperties
<1>6. DevicePending = c /\ DevicePending' = << >> /\ DeviceLog = Kept
  BY <1>3, <1>4, NullPtrAssumption DEF DevicePending, DeviceLog
<1>7. Device!Complete(DevicePending)
  <2>1. Len(c) > 0 /\ Len(c) \in Nat
    BY <1>4, LenProperties DEF Terminated
  <2>2. c[Len(c)] = NL
    BY <1>4, <2>1 DEF Terminated
  <2>3. QED
    BY <1>6, <2>1, <2>2 DEF Device!Complete
<1> HIDE DEF out
<1>8. CASE ~buffer.full
  <2>1. out = NullPtr /\ buffer' = buffer
    BY <1>2, <1>8 DEF out, Evicted, Evict
  <2>2. \A b \in Ptr : mem'[b] = mem[b]
    BY <1>2, <2>1, NullPtrAssumption
  <2>3. KeptCount' = KeptCount
    BY <2>1, <1>8 DEF KeptCount
  <2>4. ASSUME NEW k \in 1 .. KeptCount
        PROVE  Data(k)' = Data(k)
    BY <1>5, <2>1, <2>2 DEF Data, Held
  <2>5. Kept' = Kept
    BY <2>3, <2>4 DEF Kept
  <2>6. DeviceLog' = Append(Kept, c)
    BY <1>2, <1>3, <1>4, <2>2, <2>5 DEF DeviceLog
  <2>7. Len(Kept) < MaxOps
    <3>1. Shape(buffer)
      BY <1>1, <1>3 DEF BufferShape
    <3>2. buffer.in_offs \in Slots /\ buffer.out_offs = 0
      BY <1>1, <1>8, <3>1 DEF Buffer, Shape
    <3>3. Count(buffer) = buffer.in_offs
      BY <1>1, <1>8, <3>2, CountBounds DEF Slots
    <3>4. Count(buffer) < MaxOps
      BY <3>2, <3>3, MaxOpsAssumption DEF Slots
    <3>5. Len(Kept) = Count(buffer)
      BY <1>5
    <3>6. QED
      BY <3>4, <3>5
  <2>8. QED
    BY <1>6, <1>7, <2>6, <2>7 DEF Device!Commit, Device!Recent
<1>9. CASE buffer.full
  <2> DEFINE n == MaxOps - 1
  <2>1. Count(buffer) = MaxOps /\ MaxOps \in Nat /\ n \in Nat /\ n + 1 = MaxOps /\ 1 \in 1 .. MaxOps
    BY <1>9, MaxOpsAssumption DEF Count
  <2>2. /\ buffer' \in Buffer /\ buffer'.entry = buffer.entry /\ buffer'.full
        /\ buffer'.out_offs = Advance(buffer.out_offs)
        /\ buffer.out_offs \in Slots
    BY <1>1, <1>2, <1>9, EvictMakesRoom DEF Buffer
  <2>3. buffer'.out_offs = IF buffer.out_offs = MaxOps - 1 THEN 0 ELSE buffer.out_offs + 1
    BY <2>2, AdvanceWraps
  <2>4. KeptCount' = n /\ Count(buffer)' = MaxOps
    BY <1>3, <2>2 DEF KeptCount, Count
  <2>5. out = Held(buffer.out_offs) /\ SlotAt(buffer, 0) = buffer.out_offs
    <3>1. 0 \in 0 .. MaxOps /\ buffer.out_offs + 0 < MaxOps
          /\ buffer.out_offs + 0 = buffer.out_offs
      BY <2>1, <2>2 DEF Slots
    <3>2. SlotAt(buffer, 0) = IF buffer.out_offs + 0 < MaxOps THEN buffer.out_offs + 0
                              ELSE buffer.out_offs + 0 - MaxOps
      BY <1>1, <3>1, SlotAtWraps
    <3>3. SlotAt(buffer, 0) = buffer.out_offs
      BY <3>1, <3>2
    <3>4. QED  BY <1>9, <3>3 DEF out, Evicted, Held
  <2>6. ASSUME NEW k \in 1 .. n
        PROVE  Data(k)' = Kept[k+1]
    <3>1. /\ k \in 0 .. MaxOps /\ k-1 \in 0 .. MaxOps /\ k+1 \in 1 .. MaxOps
          /\ k \in 1 .. MaxOps /\ (k+1)-1 = k /\ k < MaxOps
      BY <2>1
    <3>2. /\ SlotAt(buffer, k) = IF buffer.out_offs + k < MaxOps THEN buffer.out_offs + k
                                 ELSE buffer.out_offs + k - MaxOps
          /\ SlotAt(buffer', k-1) = IF buffer'.out_offs + (k-1) < MaxOps
                                    THEN buffer'.out_offs + (k-1)
                                    ELSE buffer'.out_offs + (k-1) - MaxOps
          /\ SlotAt(buffer', k-1) \in Slots
      BY <1>1, <2>2, <3>1, SlotAtWraps
    <3>3. SlotAt(buffer', k-1) = SlotAt(buffer, k) /\ SlotAt(buffer, k) # buffer.out_offs
      BY <2>1, <2>2, <2>3, <3>1, <3>2 DEF Slots
    <3>4. Contents(buffer')[k] = buffer.entry[SlotAt(buffer, k)]
      <4>1. k \in 1 .. Count(buffer')
        BY <2>4, <3>1
      <4>2. Contents(buffer')[k] = buffer'.entry[SlotAt(buffer', k-1)]
        BY <2>2, <4>1, ContentsAreEntries
      <4>3. QED  BY <4>2, <2>2, <3>3
    <3>5. /\ SlotAt(buffer, k) \in LiveSlots /\ Held(SlotAt(buffer, k)) \in Ptr
          /\ Kept[k+1] = mem[Held(SlotAt(buffer, k))].data
          /\ buffer.out_offs \in LiveSlots
      <4>1. k + 1 \in 1 .. Count(buffer) /\ 1 \in 1 .. Count(buffer)
            /\ (k + 1) - 1 = k /\ 1 - 1 = 0
        BY <2>1, <3>1
      <4>2. SlotAt(buffer, (k + 1) - 1) \in LiveSlots /\ SlotAt(buffer, 1 - 1) \in LiveSlots
            /\ Held(SlotAt(buffer, (k + 1) - 1)) \in Ptr
            /\ Kept[k+1] = mem[Held(SlotAt(buffer, (k + 1) - 1))].data
        BY <1>5, <4>1
      <4>3. QED  BY <2>5, <4>1, <4>2
    <3>6. Held(SlotAt(buffer, k)) # out
      BY <1>1, <2>5, <3>3, <3>5 DEF MemoryOwned
    <3>7. mem'[Held(SlotAt(buffer, k))] = mem[Held(SlotAt(buffer, k))]
      BY <1>2, <3>5, <3>6
    <3>8. Data(k)' = mem'[Held(SlotAt(buffer, k))].data
      BY <3>4 DEF Data, Held
    <3>9. QED
      BY <3>5, <3>7, <3>8
  <2>7. Kept' = [k \in 1 .. n |-> Kept[k+1]]
    BY <2>4, <2>6 DEF Kept
  <2>8. Kept # << >> /\ Len(Kept) = MaxOps
    BY <1>5, <2>1
  <2>9. /\ Tail(Kept) \in Seq(Seq(Byte)) /\ Len(Tail(Kept)) = n
        /\ \A k \in 1 .. n : Tail(Kept)[k] = Kept[k+1]
    BY <1>5, <2>8, HeadTailProperties
  <2>10. Kept' = Tail(Kept)
    <3>1. DOMAIN Tail(Kept) = 1 .. n /\ Tail(Kept) = [k \in 1 .. n |-> Tail(Kept)[k]]
      BY <2>1, <2>9, LenProperties
    <3>2. QED
      BY <2>7, <2>9, <3>1
  <2>11. mem'[tmp] = mem[tmp]
    <3>1. buffer.out_offs \in LiveSlots
      BY <1>5, <2>1, <2>5
    <3>2. QED
      BY <1>2, <1>4, <2>5, <3>1
  <2>12. DeviceLog' = Append(Tail(Kept), c)
    BY <1>2, <1>3, <2>10, <2>11 DEF DeviceLog
  <2>13. QED
    BY <1>6, <1>7, <2>1, <2>8, <2>12 DEF Device!Commit, Device!Recent
<1>10. QED
  BY <1>8, <1>9

\* The store puts the command where the log has had it since the eviction:
\* in the slot behind the newest one.
LEMMA StoreStutters ==
  ASSUME RInv, NEW p \in Proc, WriteStore(p)
  PROVE  UNCHANGED <<DeviceLog, DevicePending>>
<1> DEFINE tmp == temporary_command_buffer
           e   == [buffptr |-> tmp, size |-> current_temporary_buffer_size]
           c   == mem[tmp].data
           n   == KeptCount
<1>1. /\ IInv /\ TypeOK /\ MutualExclusion /\ TempBlock /\ BufferShape
      /\ pc \in [Proc -> Label] /\ buffer \in Buffer /\ tmp \in Ptr \cup {NullPtr}
      /\ mem \in [Ptr -> [size : Nat, data : Seq(Byte)]]
  BY DEF RInv, IInv, DeviceInv, TypeOK
<1>2. /\ pc[p] = "w_store" /\ pc' = [pc EXCEPT ![p] = "w_reset"]
      /\ buffer' = Store(buffer, e) /\ mem' = mem /\ tmp' = tmp
  BY DEF WriteStore, Goto
<1>3. Storing /\ Committing /\ ~Storing' /\ Resetting'
  <2>1. \A o \in Proc \ {p} : pc[o] \notin CommitLabels
    BY <1>1, <1>2, Alone DEF Critical, CommitLabels
  <2>2. \A o \in Proc : pc'[o] = IF o = p THEN "w_reset" ELSE pc[o]
    BY <1>1, <1>2
  <2>3. QED
    BY <1>2, <2>1, <2>2 DEF Storing, Resetting, Committing, CommitLabels
<1>4. tmp \in Ptr /\ e \in Entry /\ e.buffptr = tmp /\ c \in Seq(Byte)
  BY <1>1, <1>3 DEF TempBlock, TypeOK, Entry
<1> HIDE DEF e, n
<1> PICK in \in Slots : in = buffer.in_offs
  BY <1>1 DEF Buffer
<1>5. /\ Room(buffer) /\ buffer.entry \in [Slots -> Entry] /\ buffer.full \in BOOLEAN
      /\ buffer' \in Buffer /\ buffer'.entry = [buffer.entry EXCEPT ![in] = e]
      /\ buffer'.out_offs = buffer.out_offs /\ buffer.out_offs \in Slots
      /\ buffer'.full = ((Advance(in) = buffer.out_offs) \/ buffer.full)
  BY <1>1, <1>2, <1>3, <1>4, StoreFields DEF BufferShape, Buffer
<1>6. in \notin LiveSlots
  <2>1. CASE buffer.full
    BY <1>3, <2>1 DEF LiveSlots, Vacated
  <2>2. CASE ~buffer.full
    <3>1. buffer.entry[in] = NoEntry
      BY <1>5, <2>2, MaxOpsAssumption DEF Room, Shape, Slots
    <3>2. QED  BY <3>1 DEF LiveSlots, NoEntry
  <2>3. QED  BY <2>1, <2>2
<1>7. /\ n \in 0 .. MaxOps
      /\ Kept \in Seq(Seq(Byte)) /\ Len(Kept) = n
      /\ \A k \in 1 .. n :
           /\ SlotAt(buffer, k-1) \in LiveSlots
           /\ Kept[k] = mem[Held(SlotAt(buffer, k-1))].data
  BY KeptProperties DEF n
\* The slot that is written comes right behind the ones that count.
<1>8. n + 1 = Count(buffer') /\ n < MaxOps /\ SlotAt(buffer, n) = in
  <2>1. n \in 0 .. MaxOps /\ MaxOps \in Nat
    BY <1>7, MaxOpsAssumption
  <2>2. SlotAt(buffer, n) = IF buffer.out_offs + n < MaxOps THEN buffer.out_offs + n
                            ELSE buffer.out_offs + n - MaxOps
    BY <1>1, <2>1, SlotAtWraps
  <2>3. CASE buffer.full
    <3>1. n = MaxOps - 1 /\ Count(buffer') = MaxOps
      BY <1>3, <1>5, <2>3 DEF n, KeptCount, Count
    <3>2. buffer.out_offs = IF in = MaxOps - 1 THEN 0 ELSE in + 1
      BY <1>5, <2>3, AdvanceWraps DEF Room
    <3>3. QED
      BY <2>1, <2>2, <3>1, <3>2, MaxOpsAssumption DEF Slots
  <2>4. CASE ~buffer.full
    <3>1. Shape(buffer) /\ buffer.out_offs = 0 /\ n = Count(buffer)
      BY <1>5, <2>4 DEF Room, Shape, n, KeptCount
    <3>2. n = in
      BY <1>1, <2>4, <3>1, CountBounds DEF Slots
    <3>3. Count(buffer') = Count(buffer) + 1
      <4>1. buffer' = aesd_circular_buffer_add_entry(buffer, e)
        BY <1>2, <2>4 DEF aesd_circular_buffer_add_entry, Evict
      <4>2. Contents(buffer') = Append(Contents(buffer), e)
        BY <1>1, <1>4, <2>4, <3>1, <4>1, AddEntryToOneNotFull
      <4>3. /\ Contents(buffer) \in Seq(Entry) /\ Len(Contents(buffer)) = Count(buffer)
            /\ Len(Contents(buffer')) = Count(buffer')
        BY <1>1, <1>5, ContentsAreEntries
      <4>4. QED
        BY <1>4, <4>2, <4>3, AppendProperties
    <3>4. n + 1 = Count(buffer')
      BY <3>1, <3>3
    <3>5. n < MaxOps /\ SlotAt(buffer, n) = in
      BY <2>1, <2>2, <3>1, <3>2, MaxOpsAssumption DEF Slots
    <3>6. QED
      BY <3>4, <3>5
  <2>5. QED  BY <2>3, <2>4
<1>9. KeptCount' = n + 1
  BY <1>3, <1>8 DEF KeptCount
<1>10. /\ Append(Kept, c) \in Seq(Seq(Byte)) /\ Len(Append(Kept, c)) = n + 1
       /\ \A k \in 1 .. n : Append(Kept, c)[k] = Kept[k]
       /\ Append(Kept, c)[n + 1] = c
  BY <1>4, <1>7, AppendProperties
<1>11. ASSUME NEW k \in 1 .. n + 1
       PROVE  Data(k)' = Append(Kept, c)[k]
  <2>1. /\ k-1 \in 0 .. MaxOps /\ k \in 1 .. Count(buffer') /\ n \in Nat
        /\ k = n + 1 \/ k \in 1 .. n
    <3>1. n \in 0 .. MaxOps /\ n + 1 = Count(buffer') /\ MaxOps \in Nat
      BY <1>7, <1>8, MaxOpsAssumption
    <3>2. n \in Nat /\ k \in Nat /\ k >= 1 /\ k <= n + 1 /\ n <= MaxOps
      BY <3>1
    <3>3. QED  BY <3>1, <3>2
  <2>2. SlotAt(buffer', k-1) = SlotAt(buffer, k-1)
    BY <1>5 DEF SlotAt
  <2>3. Contents(buffer')[k] = buffer'.entry[SlotAt(buffer, k-1)]
    <3>1. Contents(buffer')[k] = buffer'.entry[SlotAt(buffer', k-1)]
      BY <1>5, <2>1, ContentsAreEntries
    <3>2. QED  BY <2>2, <3>1
  <2>4. CASE k = n + 1
    <3>1. SlotAt(buffer, k-1) = in
      BY <1>8, <2>1, <2>4
    <3>2. Contents(buffer')[k] = e
      BY <1>5, <2>3, <3>1
    <3>3. Data(k)' = c
      BY <1>2, <1>4, <3>2 DEF Data
    <3>4. QED  BY <1>10, <2>4, <3>3
  <2>5. CASE k \in 1 .. n
    <3> DEFINE s == SlotAt(buffer, k-1)
    <3>1. s \in LiveSlots /\ Kept[k] = mem[Held(s)].data
      BY <1>7, <2>5
    <3> HIDE DEF s
    <3>2. s \in Slots /\ s # in
      BY <1>6, <3>1 DEF LiveSlots
    <3>3. buffer'.entry[s] = buffer.entry[s]
      BY <1>5, <3>2
    <3>4. Contents(buffer')[k].buffptr = Held(s)
      BY <2>3, <3>3 DEF s, Held
    <3>5. Data(k)' = mem[Held(s)].data
      BY <1>2, <3>4 DEF Data
    <3>6. QED  BY <1>10, <2>5, <3>1, <3>5
  <2>6. QED  BY <2>1, <2>4, <2>5
<1>12. Kept' = Append(Kept, c)
  <2>1. Kept' = [k \in 1 .. n + 1 |-> Append(Kept, c)[k]]
    BY <1>9, <1>11 DEF Kept
  <2>2. DOMAIN Append(Kept, c) = 1 .. n + 1
        /\ Append(Kept, c) = [k \in 1 .. n + 1 |-> Append(Kept, c)[k]]
    BY <1>10, LenProperties
  <2>3. QED  BY <2>1, <2>2
<1>13. QED
  BY <1>3, <1>12 DEF DeviceLog, DevicePending

\* The reset forgets a pointer whose block the log has already.
LEMMA ResetStutters ==
  ASSUME RInv, NEW p \in Proc, WriteReset(p)
  PROVE  UNCHANGED <<DeviceLog, DevicePending>>
<1>1. /\ IInv /\ MutualExclusion /\ pc \in [Proc -> Label]
  BY DEF RInv, IInv, TypeOK
<1>2. /\ pc[p] = "w_reset" /\ pc' = [pc EXCEPT ![p] = "w_scan"]
      /\ buffer' = buffer /\ mem' = mem /\ temporary_command_buffer' = NullPtr
  BY DEF WriteReset, Goto
<1>3. ~Storing /\ Resetting /\ ~Storing'
  <2>1. \A o \in Proc \ {p} : pc[o] \notin CommitLabels
    BY <1>1, <1>2, Alone DEF Critical, CommitLabels
  <2>2. \A o \in Proc : pc'[o] = IF o = p THEN "w_scan" ELSE pc[o]
    BY <1>1, <1>2
  <2>3. QED
    BY <1>2, <2>1, <2>2 DEF Storing, Resetting, CommitLabels
<1>4. DeviceLog' = DeviceLog
  BY <1>2, <1>3, LogKept
<1>5. QED
  BY <1>2, <1>3, <1>4 DEF DevicePending

-----------------------------------------------------------------------------
(***************************************************************************)
(* The refinement.                                                         *)
(***************************************************************************)
LEMMA InitialDevice ==
  ASSUME Init
  PROVE  Device!Init
<1>1. RInv
  BY InitialRInv
<1>2. /\ ~Storing /\ temporary_command_buffer = NullPtr
      /\ ~buffer.full /\ buffer.in_offs = 0 /\ buffer.out_offs = 0 /\ buffer \in Buffer
  BY <1>1 DEF Init, Storing, aesd_circular_buffer_init, RInv, IInv, TypeOK
<1>3. KeptCount = 0
  BY <1>2, CountBounds DEF KeptCount
<1>4. Kept = << >>
  BY <1>1, <1>3, KeptProperties, EmptySeq
<1>5. QED
  BY <1>2, <1>4 DEF Device!Init, DeviceLog, DevicePending

LEMMA WriteImplements ==
  ASSUME RInv, NEW p \in Proc, Write(p)
  PROVE  [Device!Next]_(Device!dvars)
<1>1. /\ IInv /\ pc \in [Proc -> Label]
  BY DEF RInv, IInv, TypeOK
<1>2. CASE WriteAppend(p)
  <2>1. PICK q \in Ptr : /\ krealloc(NewSize(p), q)
                         /\ SetBlock(NewSize(p), q, Grown(Chunk(p)))
    BY <1>2 DEF WriteAppend
  <2>2. /\ pc[p] \in {"w_cmd", "w_tail"} /\ buffer' = buffer
        /\ \E l \in {"w_evict", "w_scan", "idle"} : pc' = [pc EXCEPT ![p] = l]
    BY <1>2 DEF WriteAppend, Goto
  <2>3. /\ Chunk(p) \in Seq(Byte) /\ NewSize(p) \in Nat
        /\ Chunk(p) \in UNION {{SubSeq(b, i, j) : i, j \in DOMAIN b} : b \in WriteBufs}
        /\ Device!Piece(Chunk(p))
    BY <2>2, ChunkIsPiece
  <2>4. /\ DeviceLog' = DeviceLog
        /\ DevicePending \in Seq(Byte) /\ NoTerminator(DevicePending)
        /\ DevicePending' = DevicePending \o Chunk(p)
    <3> DEFINE n    == NewSize(p)
               more == Chunk(p)
    <3>1. more \in Seq(Byte) /\ n \in Nat /\ krealloc(n, q) /\ SetBlock(n, q, Grown(more))
      BY <2>1, <2>3
    <3>2. SUFFICES /\ DeviceLog' = DeviceLog
                   /\ DevicePending \in Seq(Byte) /\ NoTerminator(DevicePending)
                   /\ DevicePending' = DevicePending \o more
      OBVIOUS
    <3> HIDE DEF n, more
    <3>3. QED
      BY <2>2, <3>1, GrowExtends
  <2>5. ~Device!Complete(DevicePending)
    BY <2>4, LenProperties DEF NoTerminator, Device!Complete
  <2>6. Device!Extend
    BY <2>3, <2>4, <2>5 DEF Device!Extend
  <2>7. QED  BY <2>6 DEF Device!Next
<1>3. CASE WriteFault(p)
  <2>1. PICK q \in Ptr : /\ krealloc(NewSize(p), q)
                         /\ SetBlock(NewSize(p), q, Grown(<< >>))
    BY <1>3 DEF WriteFault
  <2>2. /\ pc[p] \in {"w_cmd", "w_tail"} /\ buffer' = buffer
        /\ pc' = [pc EXCEPT ![p] = "idle"]
    BY <1>3 DEF WriteFault, Return, Goto
  <2>3. /\ DeviceLog' = DeviceLog
        /\ DevicePending \in Seq(Byte)
        /\ DevicePending' = DevicePending \o << >>
    <3> DEFINE n    == NewSize(p)
               more == << >>
    <3>1. more \in Seq(Byte) /\ n \in Nat /\ krealloc(n, q) /\ SetBlock(n, q, Grown(more))
      BY <2>1, <2>2, ChunkIsPiece, EmptySeq
    <3>2. SUFFICES /\ DeviceLog' = DeviceLog
                   /\ DevicePending \in Seq(Byte)
                   /\ DevicePending' = DevicePending \o more
      OBVIOUS
    <3> HIDE DEF n, more
    <3>3. QED
      BY <2>2, <3>1, GrowExtends
  <2>4. UNCHANGED Device!dvars
    BY <2>3, ConcatEmptySeq DEF Device!dvars
  <2>5. QED  BY <2>4
<1>4. CASE WriteEvict(p)
  BY <1>4, EvictCommits DEF Device!Next
<1>5. CASE WriteStore(p)
  BY <1>5, StoreStutters DEF Device!dvars
<1>6. CASE WriteReset(p)
  BY <1>6, ResetStutters DEF Device!dvars
<1>7. CASE WriteLock(p) \/ WriteInterrupted(p) \/ WriteNoMem(p) \/ WriteReturn(p)
  <2>1. PICK l \in Label : pc' = [pc EXCEPT ![p] = l] /\ l \notin CommitLabels
    BY <1>7 DEF WriteLock, WriteInterrupted, WriteNoMem, WriteReturn, Return, Goto,
       Label, CommitLabels
  <2>2. UNCHANGED device /\ pc[p] \notin CommitLabels
    BY <1>7 DEF WriteLock, WriteInterrupted, WriteNoMem, WriteReturn, CommitLabels
  <2>3. UNCHANGED Device!dvars
    BY <1>1, <2>1, <2>2, PhaseKept, QuietDevice DEF Device!dvars
  <2>4. QED  BY <2>3
<1>8. QED
  BY <1>2, <1>3, <1>4, <1>5, <1>6, <1>7 DEF Write

\* The calls of the readers and seekers, and the debug print, only look.
LEMMA LookImplements ==
  ASSUME RInv, NEW p \in Proc, Read(p) \/ Seek(p) \/ DebugPrint(p) \/ Caller(p)
  PROVE  UNCHANGED Device!dvars
<1>1. pc \in [Proc -> Label] /\ DOMAIN local = Proc
  BY DEF RInv, IInv, TypeOK
<1>2. UNCHANGED device
  BY DEF Caller, Read, Seek, DebugPrint, ReadLock, ReadInterrupted, ReadTransfer,
     ReadFault, ReadReturn, SeekInterrupted, aesd_llseek, aesd_unlocked_ioctl,
     IoctlRefused, PrintFetch, PrintCopy, aesd_open, aesd_release, WriteCall, ReadCall,
     SeekCall
<1>3. CASE pc' = pc
  <2>1. (Storing' <=> Storing) /\ (Resetting' <=> Resetting)
    BY <1>3 DEF Storing, Resetting
  <2>2. QED
    BY <1>2, <2>1, QuietDevice DEF Device!dvars
<1>4. CASE pc' # pc
  <2>1. PICK l : pc' = [pc EXCEPT ![p] = l] /\ l \notin CommitLabels
    <3>1. ASSUME NEW e, Return(p, e)
          PROVE  \E l : pc' = [pc EXCEPT ![p] = l] /\ l \notin CommitLabels
      <4>1. pc' = [pc EXCEPT ![p] = "idle"] /\ "idle" \notin CommitLabels
        BY <3>1 DEF Return, Goto, CommitLabels
      <4>2. QED  BY <4>1
    <3>2. CASE Caller(p)
      BY <1>4, <3>2 DEF Caller, aesd_open, aesd_release, WriteCall, ReadCall, SeekCall,
         IoctlRefused, Call, Goto, CommitLabels
    <3>3. CASE Read(p)
      BY <1>4, <3>1, <3>3 DEF Read, ReadLock, ReadInterrupted, ReadTransfer, ReadFault,
         ReadReturn, Goto, CommitLabels
    <3>4. CASE Seek(p)
      BY <3>1, <3>4 DEF Seek, SeekInterrupted, aesd_llseek, aesd_unlocked_ioctl
    <3>5. CASE DebugPrint(p)
      <4>1. \/ \E l \in {"r_copy", "w_copy", "r_print", "w_print", "read"} :
                  pc' = [pc EXCEPT ![p] = l]
            \/ \E e : Return(p, e)
        <5>1. CASE PrintFetch(p)
          BY <5>1 DEF PrintFetch, AfterPrint, Goto
        <5>2. CASE PrintCopy(p)
          BY <5>2 DEF PrintCopy, Goto
        <5>3. QED  BY <3>5, <5>1, <5>2 DEF DebugPrint
      <4>2. QED  BY <3>1, <4>1 DEF CommitLabels
    <3>6. QED  BY <3>2, <3>3, <3>4, <3>5
  <2>2. pc[p] \notin CommitLabels
    BY <1>4 DEF Caller, Read, Seek, DebugPrint, ReadLock, ReadInterrupted, ReadTransfer,
       ReadFault, ReadReturn, SeekInterrupted, aesd_llseek, aesd_unlocked_ioctl,
       IoctlRefused, PrintFetch, PrintCopy, aesd_open, aesd_release, WriteCall, ReadCall,
       SeekCall, CommitLabels
  <2>3. QED
    BY <1>1, <1>2, <2>1, <2>2, PhaseKept, QuietDevice DEF Device!dvars
<1>5. QED
  BY <1>3, <1>4

\* The driver is a command device: to its writers the slots, the blocks that
\* move, the lock and the failed copies of aesd_write and
\* aesd_circular_buffer_add_entry do not show (main.c:210-316).
THEOREM DriverImplementsDevice == Spec => RefinesDevice
<1>1. Init => Device!Init
  BY InitialDevice
<1>2. RInv /\ [Next]_vars => [Device!Next]_(Device!dvars)
  <2>1. ASSUME RInv, NEW p \in Proc, Running(p) \/ Caller(p)
        PROVE  [Device!Next]_(Device!dvars)
    BY <2>1, WriteImplements, LookImplements DEF Running
  <2>2. ASSUME UNCHANGED vars
        PROVE  UNCHANGED Device!dvars
    <3>1. UNCHANGED device /\ pc' = pc
      BY <2>2 DEF vars
    <3>2. (Storing' <=> Storing) /\ (Resetting' <=> Resetting)
      BY <3>1 DEF Storing, Resetting
    <3>3. QED
      BY <3>1, <3>2, QuietDevice DEF Device!dvars
  <2>3. QED
    BY <2>1, <2>2 DEF Next
<1>3. QED
  BY <1>1, <1>2, RInvHolds, PTL DEF Spec, RefinesDevice, Device!Spec

-----------------------------------------------------------------------------
(***************************************************************************)
(* The bytes of the device, as its readers see them.  While no entry is    *)
(* being stored they are the commands laid end to end, and the search of   *)
(* the circular buffer finds each of them where its command has it.        *)
(***************************************************************************)
HoldsByte(k, off) ==
  LET e == buffer.entry[SlotAt(buffer, k)]
      s == SizeBefore(buffer)[k]
  IN  /\ aesd_circular_buffer_find_entry_offset_for_fpos(buffer, off) =
           [slot |-> SlotAt(buffer, k), entry_offset |-> off - s]
      /\ s \in Nat /\ e.size \in Nat /\ s <= off /\ off < s + e.size
      /\ s + e.size <= Len(Bytes)
      /\ mem[e.buffptr].data \in Seq(Byte) /\ Len(mem[e.buffptr].data) = e.size
      /\ \A j \in 1 .. e.size : Bytes[s + j] = mem[e.buffptr].data[j]

LEMMA DeviceBytes ==
  ASSUME RInv, ~Storing
  PROVE  /\ Bytes \in Seq(Byte) /\ Len(Bytes) \in Nat
         /\ Len(Bytes) = aesd_circular_buffer_content_length(buffer)
         /\ \A off \in Nat : off >= Len(Bytes) =>
              aesd_circular_buffer_find_entry_offset_for_fpos(buffer, off) = NotFound
         /\ \A off \in Nat : off < Len(Bytes) =>
              \E k \in 0 .. Count(buffer) - 1 : HoldsByte(k, off)
<1> DEFINE n == Count(buffer)
           s == SizeBefore(buffer)
           e(k) == buffer.entry[SlotAt(buffer, k)]
           t == [k \in 0 .. n |-> s[k]]
<1>1. /\ buffer \in Buffer /\ Shape(buffer) /\ n \in 0 .. MaxOps /\ n \in Nat
      /\ MaxOps \in Nat /\ CommandsWellFormed
      /\ mem \in [Ptr -> [size : Nat, data : Seq(Byte)]]
  BY CountBounds, MaxOpsAssumption DEF RInv, IInv, TypeOK, DeviceInv, BufferShape
<1>2. /\ s \in [0 .. MaxOps -> Nat] /\ s[0] = 0
      /\ \A k \in 1 .. MaxOps : s[k] = s[k-1] + Size(buffer, k) /\ Size(buffer, k) \in Nat
  BY <1>1, SizeBeforeSums, SizeIsNatural
<1>3. KeptCount = n /\ DeviceLog = Kept
  BY DEF KeptCount, DeviceLog
<1>4. /\ DeviceLog \in Seq(Seq(Byte)) /\ Len(DeviceLog) = n
      /\ \A k \in 1 .. n : /\ DeviceLog[k] = mem[e(k-1).buffptr].data
                           /\ DeviceLog[k] \in Seq(Byte)
                           /\ Len(DeviceLog[k]) = e(k-1).size
                           /\ e(k-1).size = Size(buffer, k)
  <2>1. /\ Kept \in Seq(Seq(Byte)) /\ Len(Kept) = n
        /\ \A k \in 1 .. n : /\ SlotAt(buffer, k-1) \in LiveSlots
                             /\ Held(SlotAt(buffer, k-1)) \in Ptr
                             /\ Kept[k] = mem[Held(SlotAt(buffer, k-1))].data
    BY <1>3, KeptProperties
  <2>2. ASSUME NEW k \in 1 .. n
        PROVE  /\ DeviceLog[k] = mem[e(k-1).buffptr].data
               /\ DeviceLog[k] \in Seq(Byte)
               /\ Len(DeviceLog[k]) = e(k-1).size
               /\ e(k-1).size = Size(buffer, k)
    BY <1>1, <1>3, <2>1 DEF CommandsWellFormed, Held, Size
  <2>3. QED  BY <1>3, <2>1, <2>2
<1> HIDE DEF n, s, e
<1>5. /\ t \in [0 .. n -> Nat] /\ t[0] = 0 /\ t[n] = s[n]
      /\ \A k \in 1 .. n : t[k] = t[k-1] + Len(DeviceLog[k]) /\ t[k] = s[k] /\ t[k-1] = s[k-1]
  <2>1. \A k \in 0 .. n : k \in 0 .. MaxOps /\ s[k] \in Nat
    BY <1>1, <1>2
  <2>2. \A k \in 1 .. n : k \in 1 .. MaxOps /\ k-1 \in 0 .. n /\ k \in 0 .. n
    BY <1>1
  <2>3. \A k \in 0 .. n : t[k] = s[k]
    OBVIOUS
  <2>4. t \in [0 .. n -> Nat]
    BY <2>1
  <2> HIDE DEF t
  <2>5. t[0] = 0 /\ t[n] = s[n]
    BY <1>1, <1>2, <2>3
  <2>6. \A k \in 1 .. n : t[k] = s[k] /\ t[k-1] = s[k-1]
    BY <2>2, <2>3
  <2>7. \A k \in 1 .. n : s[k] = s[k-1] + Len(DeviceLog[k])
    BY <1>2, <1>4, <2>2
  <2>8. QED  BY <2>4, <2>5, <2>6, <2>7
<1> HIDE DEF t
<1>6. /\ Bytes \in Seq(Byte) /\ Len(Bytes) = s[n] /\ Len(Bytes) \in Nat
      /\ \A k \in 1 .. n :
           /\ s[k] <= Len(Bytes)
           /\ \A j \in 1 .. Len(DeviceLog[k]) : Bytes[s[k-1] + j] = DeviceLog[k][j]
  <2>1. t \in [0 .. Len(DeviceLog) -> Nat]
        /\ \A k \in 1 .. Len(DeviceLog) : t[k] = t[k-1] + Len(DeviceLog[k])
    BY <1>4, <1>5
  <2>2. /\ FlattenSeq(DeviceLog) \in Seq(Byte)
        /\ Len(FlattenSeq(DeviceLog)) = t[Len(DeviceLog)]
        /\ \A k \in 1 .. Len(DeviceLog) :
             /\ t[k] <= t[Len(DeviceLog)]
             /\ \A j \in 1 .. Len(DeviceLog[k]) :
                  FlattenSeq(DeviceLog)[t[k-1] + j] = DeviceLog[k][j]
    BY <1>4, <1>5, <2>1, FlattenParts
  <2>3. QED  BY <1>4, <1>5, <2>2, LenProperties DEF Bytes
<1>7. Len(Bytes) = aesd_circular_buffer_content_length(buffer)
  BY <1>1, <1>6, LengthIsSum DEF n, s
<1>8. ASSUME NEW off \in Nat, off >= Len(Bytes)
      PROVE  aesd_circular_buffer_find_entry_offset_for_fpos(buffer, off) = NotFound
  BY <1>1, <1>7, <1>8, FindsNothing
<1>9. ASSUME NEW off \in Nat, off < Len(Bytes)
      PROVE  \E k \in 0 .. n - 1 : HoldsByte(k, off)
  <2>1. n > 0
    <3> SUFFICES ASSUME n = 0 PROVE FALSE
      BY <1>1
    <3>1. s[n] = 0
      BY <1>2
    <3>2. QED  BY <1>6, <1>9, <3>1
  <2>2. Visited(buffer) = n
    BY <1>1, <2>1, VisitedBounds DEF n
  <2>3. PICK k \in 0 .. n - 1 : s[k] <= off /\ off < s[k+1]
    BY <1>1, <1>7, <1>9, <2>2, ByteHasSlot DEF s
  <2>4. aesd_circular_buffer_find_entry_offset_for_fpos(buffer, off) =
          [slot |-> SlotAt(buffer, k), entry_offset |-> off - s[k]]
    BY <1>1, <2>2, <2>3, FindsByte DEF s
  <2>5. k+1 \in 1 .. n /\ k+1 \in 1 .. MaxOps /\ (k+1)-1 = k /\ k \in 0 .. MaxOps
    BY <1>1
  <2> DEFINE m == mem[e(k).buffptr].data
  <2>6. /\ DeviceLog[k+1] = m /\ m \in Seq(Byte) /\ Len(m) = e(k).size
        /\ e(k).size = Size(buffer, k+1)
    BY <1>4, <2>5
  <2>7. s[k+1] = s[k] + e(k).size /\ s[k] \in Nat /\ e(k).size \in Nat /\ s[k+1] <= Len(Bytes)
    BY <1>2, <1>6, <2>5, <2>6
  <2>8. \A j \in 1 .. e(k).size : Bytes[s[k] + j] = m[j]
    BY <1>6, <2>5, <2>6
  <2> HIDE DEF m
  <2>9. /\ s[k] <= off /\ off < s[k] + e(k).size /\ s[k] + e(k).size <= Len(Bytes)
    BY <2>3, <2>7
  <2>10. HoldsByte(k, off)
    BY <2>4, <2>6, <2>7, <2>8, <2>9 DEF HoldsByte, e, s, m
  <2>11. QED  BY <2>10
<1>10. QED
  BY <1>6, <1>7, <1>8, <1>9 DEF n

LEMMA PartOfSequence ==
  ASSUME NEW S, NEW s \in Seq(S), NEW x \in Nat, NEW z \in Nat, x + z <= Len(s)
  PROVE  /\ SubSeq(s, x + 1, x + z) \in Seq(S)
         /\ Len(SubSeq(s, x + 1, x + z)) = z
         /\ \A i \in 1 .. z : SubSeq(s, x + 1, x + z)[i] = s[x + i]
<1>1. x + 1 \in Int /\ x + z \in Int /\ Len(s) \in Nat
  BY LenProperties
<1>2. \A j \in x + 1 .. x + z : s[j] \in S
  <2> SUFFICES ASSUME NEW j \in x + 1 .. x + z PROVE s[j] \in S
    OBVIOUS
  <2>1. j \in 1 .. Len(s)
    BY <1>1
  <2>2. QED  BY <2>1, ElementOfSeq
<1> DEFINE u == SubSeq(s, x + 1, x + z)
<1>3. /\ u \in Seq(S)
      /\ Len(u) = IF x + 1 <= x + z THEN x + z - (x + 1) + 1 ELSE 0
      /\ \A i \in 1 .. x + z - (x + 1) + 1 : u[i] = s[x + 1 + i - 1]
  BY <1>1, <1>2, SubSeqProperties
<1> HIDE DEF u
<1>4. Len(u) = z /\ x + z - (x + 1) + 1 = z
  BY <1>3
<1>5. \A i \in 1 .. z : x + 1 + i - 1 = x + i
  OBVIOUS
<1>6. \A i \in 1 .. z : u[i] = s[x + i]
  BY <1>3, <1>4, <1>5
<1>7. QED  BY <1>3, <1>4, <1>6 DEF u

\* One turn of the read loop copies the bytes that follow in the device: as
\* many as are asked for, but none behind the end of the entry.
LEMMA TransferIsSlice ==
  ASSUME RInv, ~Storing, NEW p, local[p].buf \in Seq(Byte), local[p].pos \in Nat,
         local[p].count \in Nat, MoreToRead(p)
  PROVE  /\ local[p].pos < Len(Bytes)
         /\ Transfer(p) \in Seq(Byte) /\ Len(Transfer(p)) \in Nat \ {0}
         /\ local[p].pos + Len(Transfer(p)) <= Len(Bytes)
         /\ Len(local[p].buf) + Len(Transfer(p)) <= local[p].count
         /\ Transfer(p) = SubSeq(Bytes, local[p].pos + 1, local[p].pos + Len(Transfer(p)))
<1> DEFINE x == local[p].pos
           c == local[p].count
           b == Len(local[p].buf)
<1>1. /\ Bytes \in Seq(Byte) /\ Len(Bytes) \in Nat
      /\ x >= Len(Bytes) => Found(p) = NotFound
      /\ x < Len(Bytes) => \E k \in 0 .. Count(buffer) - 1 : HoldsByte(k, x)
  BY DeviceBytes DEF Found
<1>2. x \in Nat /\ c \in Nat /\ b \in Nat /\ b < c /\ Found(p) # NotFound
  BY LenProperties DEF MoreToRead
<1>3. x < Len(Bytes)
  BY <1>1, <1>2
<1>4. PICK k \in 0 .. Count(buffer) - 1 : HoldsByte(k, x)
  BY <1>1, <1>3
<1> DEFINE e   == buffer.entry[SlotAt(buffer, k)]
           s   == SizeBefore(buffer)[k]
           m   == mem[e.buffptr].data
           n   == e.size
           off == x - s
           z   == IF c - b > n - off THEN n - off ELSE c - b
<1>5. /\ Found(p).slot = SlotAt(buffer, k) /\ Found(p).entry_offset = off
      /\ s \in Nat /\ n \in Nat /\ s <= x /\ x < s + n /\ s + n <= Len(Bytes)
      /\ m \in Seq(Byte) /\ Len(m) = n
      /\ \A j \in 1 .. n : Bytes[s + j] = m[j]
  BY <1>4 DEF HoldsByte, Found
<1>6. Transfer(p) = SubSeq(m, off + 1, off + z)
  BY <1>5 DEF Transfer
<1> HIDE DEF e, s, m, n, x, c, b
<1>7. /\ off \in Nat /\ z \in Nat \ {0} /\ off + z <= n /\ b + z <= c /\ s + off = x
  BY <1>2, <1>5
<1> HIDE DEF off, z
<1>8. /\ x + z <= Len(Bytes) /\ off + z <= Len(m)
       /\ \A i \in 1 .. z : off + i \in 1 .. n /\ s + (off + i) = x + i
  <2>1. s \in Nat /\ n \in Nat /\ s + n <= Len(Bytes) /\ Len(m) = n /\ Len(Bytes) \in Nat
    BY <1>1, <1>5
  <2>2. x + z <= Len(Bytes)
    BY <1>2, <1>7, <2>1
  <2>3. \A i \in 1 .. z : off + i \in 1 .. n /\ s + (off + i) = x + i
    BY <1>2, <1>7, <2>1
  <2>4. QED  BY <1>7, <2>1, <2>2, <2>3
<1>9. /\ SubSeq(m, off + 1, off + z) \in Seq(Byte)
       /\ Len(SubSeq(m, off + 1, off + z)) = z
       /\ \A i \in 1 .. z : SubSeq(m, off + 1, off + z)[i] = m[off + i]
  <2>1. m \in Seq(Byte) /\ off \in Nat /\ z \in Nat /\ off + z <= Len(m)
    BY <1>5, <1>7, <1>8
  <2>2. QED  BY <2>1, PartOfSequence
<1>10. /\ SubSeq(Bytes, x + 1, x + z) \in Seq(Byte)
       /\ Len(SubSeq(Bytes, x + 1, x + z)) = z
       /\ \A i \in 1 .. z : SubSeq(Bytes, x + 1, x + z)[i] = Bytes[x + i]
  <2>1. Bytes \in Seq(Byte) /\ x \in Nat /\ z \in Nat /\ x + z <= Len(Bytes)
    BY <1>1, <1>2, <1>7, <1>8
  <2>2. QED  BY ONLY <2>1, PartOfSequence
<1>11. \A i \in 1 .. z : m[off + i] = Bytes[x + i]
  <2> SUFFICES ASSUME NEW i \in 1 .. z PROVE m[off + i] = Bytes[x + i]
    OBVIOUS
  <2>1. off + i \in 1 .. n /\ s + (off + i) = x + i
    BY <1>8
  <2>2. Bytes[s + (off + i)] = m[off + i]
    BY <1>5, <2>1
  <2>3. QED  BY <2>1, <2>2
<1>12. SubSeq(m, off + 1, off + z) = SubSeq(Bytes, x + 1, x + z)
  <2> DEFINE u == SubSeq(m, off + 1, off + z)
             v == SubSeq(Bytes, x + 1, x + z)
  <2>1. /\ u \in Seq(Byte) /\ v \in Seq(Byte) /\ Len(u) = Len(v)
        /\ \A i \in 1 .. Len(u) : u[i] = v[i]
    BY <1>9, <1>10, <1>11
  <2> HIDE DEF u, v
  <2>2. u = v
    BY <2>1, SeqEqual
  <2>3. QED  BY <2>2 DEF u, v
<1>13. /\ Transfer(p) \in Seq(Byte) /\ Len(Transfer(p)) = z
       /\ Transfer(p) = SubSeq(Bytes, x + 1, x + z)
  BY <1>6, <1>9, <1>12
<1>14. QED
  BY <1>3, <1>7, <1>8, <1>13 DEF x, c, b

-----------------------------------------------------------------------------
(***************************************************************************)
(* The invariant of the readers.  A read that has not begun has the file's *)
(* position; one that is in the loop has copied the bytes from there on,   *)
(* none of them beyond the end, and no more than it was asked for.  A      *)
(* block is no larger than krealloc makes it, so the length of the device  *)
(* is bounded.                                                             *)
(***************************************************************************)
BeforeLoop == {"r_print", "r_copy", "read"}
SizesFit     == MaxOps * MaxAlloc < SizeModulus
BlocksFit    == \A q \in Ptr : mem[q].size <= MaxAlloc

Reads(p) ==
  /\ pc[p] # "idle" => p \in opened
  /\ pc[p] \in BeforeLoop =>
       local[p].buf = << >> /\ local[p].pos = f_pos[p] /\ local[p].count \in ReadCounts
  /\ pc[p] = "r_loop" =>
       /\ local[p].buf \in Seq(Byte) /\ local[p].count \in Nat
       /\ Len(local[p].buf) <= local[p].count
       /\ local[p].pos = f_pos[p] + Len(local[p].buf)
       /\ local[p].buf = SubSeq(Bytes, f_pos[p] + 1, local[p].pos)
       /\ local[p].buf = << >> \/ local[p].pos <= Len(Bytes)
       /\ SizesFit /\ f_pos[p] < Len(Bytes) =>
            /\ local[p].count <= Len(Bytes) - f_pos[p]
            /\ local[p].count \in {Len(Bytes) - f_pos[p]} \cup ReadCounts

ReadInv ==
  /\ RInv /\ BlocksFit
  /\ f_pos \in [Proc -> Nat] /\ DOMAIN ret = Proc
  /\ \A p \in Proc : Reads(p)

LEMMA NoStoreDuringRead ==
  ASSUME MutualExclusion, NEW p \in Proc, pc[p] = "r_loop"
  PROVE  ~Storing /\ ~Resetting
<1>1. \A q \in Proc \ {p} : pc[q] \notin Critical
  BY Alone DEF Critical
<1>2. QED
  BY <1>1 DEF Storing, Resetting, Critical

\* A reader that has the lock keeps the bytes it sees, whoever moves.
LEMMA BytesStay ==
  ASSUME UNCHANGED device, MutualExclusion', pc' \in [Proc -> Label],
         ~Storing, ~Resetting, NEW p \in Proc, pc'[p] = "r_loop"
  PROVE  Bytes' = Bytes
<1>1. lock' = p /\ \A q \in Proc : pc'[q] \in Critical => lock' = q
  BY DEF MutualExclusion, Critical
<1>2. ~Storing' /\ ~Resetting'
  BY <1>1 DEF Storing, Resetting, Critical
<1>3. DeviceLog' = DeviceLog
  BY <1>2, QuietDevice
<1>4. QED
  BY <1>3 DEF Bytes

LEMMA ReadsStay ==
  ASSUME IInv, IInv', NEW q \in Proc, Reads(q), pc'[q] = pc[q], local'[q] = local[q],
         f_pos'[q] = f_pos[q], q \in opened => q \in opened',
         pc[q] \in Critical => UNCHANGED device
  PROVE  Reads(q)'
<1>1. CASE pc[q] # "r_loop"
  BY <1>1 DEF Reads
<1>2. CASE pc[q] = "r_loop"
  <2>1. UNCHANGED device /\ MutualExclusion /\ MutualExclusion' /\ pc' \in [Proc -> Label]
    BY <1>2 DEF Critical, IInv, TypeOK
  <2>2. Bytes' = Bytes
    BY <1>2, <2>1, NoStoreDuringRead, BytesStay
  <2>3. QED
    BY <1>2, <2>2 DEF Reads, BeforeLoop, SizesFit
<1>3. QED  BY <1>1, <1>2

-----------------------------------------------------------------------------
\* No command is longer than a block, so there are at most MaxOps * MaxAlloc
\* bytes.
LEMMA LengthBound ==
  ASSUME RInv, ~Storing, BlocksFit
  PROVE  Len(Bytes) <= MaxOps * MaxAlloc
<1> DEFINE n == Count(buffer)
           s == SizeBefore(buffer)
           Over == {k \in 0 .. n : ~(s[k] <= k * MaxAlloc)}
<1>1. /\ buffer \in Buffer /\ Shape(buffer) /\ n \in 0 .. MaxOps /\ n \in Nat
      /\ MaxOps \in Nat /\ CommandsWellFormed /\ MaxAlloc \in Nat
      /\ mem \in [Ptr -> [size : Nat, data : Seq(Byte)]]
  <2> HIDE DEF s, Over
  <2>1. TypeOK /\ Shape(buffer) /\ CommandsWellFormed
    BY DEF RInv, IInv, DeviceInv, BufferShape
  <2>2. buffer \in Buffer /\ mem \in [Ptr -> [size : Nat, data : Seq(Byte)]]
    BY <2>1 DEF TypeOK
  <2>3. MaxOps \in Nat /\ MaxAlloc \in Nat
    BY MaxOpsAssumption, DriverAssumption
  <2>4. n \in 0 .. MaxOps /\ n \in Nat
    BY <2>1, <2>2, <2>3, CountBounds
  <2>5. QED  BY <2>1, <2>2, <2>3, <2>4
<1>2. /\ s \in [0 .. MaxOps -> Nat] /\ s[0] = 0
      /\ \A k \in 1 .. MaxOps : s[k] = s[k-1] + Size(buffer, k) /\ Size(buffer, k) \in Nat
  BY <1>1, SizeBeforeSums, SizeIsNatural
<1>3. ASSUME NEW k \in 1 .. n
      PROVE  Size(buffer, k) <= MaxAlloc
  <2> DEFINE e == buffer.entry[SlotAt(buffer, k-1)]
             m == mem[e.buffptr]
  <2>1. KeptCount = n
    BY DEF KeptCount
  <2>2. SlotAt(buffer, k-1) \in LiveSlots /\ e.buffptr \in Ptr
    BY <2>1, KeptProperties DEF Held
  <2>3. e.size = Len(m.data) /\ Len(m.data) <= m.size /\ m.size <= MaxAlloc
    BY <1>1, <2>2 DEF CommandsWellFormed, Held, BlocksFit
  <2>4. e.size = Size(buffer, k)
    BY DEF Size
  <2>5. m.size \in Nat /\ e.size \in Nat
    <3>1. m \in [size : Nat, data : Seq(Byte)]
      BY <1>1, <2>2
    <3>2. k \in 1 .. MaxOps
      BY <1>1
    <3>3. Size(buffer, k) \in Nat
      BY <1>2, <3>2
    <3> HIDE DEF m, e
    <3>4. QED  BY <2>4, <3>1, <3>3
  <2>6. QED  BY <1>1, <2>3, <2>4, <2>5
<1>4. Len(Bytes) = s[n]
  BY <1>1, DeviceBytes, LengthIsSum
<1> HIDE DEF n, s
<1>5. Over = {}
  <2> SUFFICES ASSUME Over # {} PROVE FALSE
    OBVIOUS
  <2>1. PICK k \in Over : \A i \in Over : k <= i
    BY LeastElement, Over \subseteq Nat
  <2>2. k \in 0 .. n /\ ~(s[k] <= k * MaxAlloc) /\ k \in Nat
    OBVIOUS
  <2>3. k # 0
    <3>1. 0 * MaxAlloc = 0
      BY <1>1
    <3>2. QED  BY <1>2, <2>2, <3>1
  <2>4. k \in 1 .. n /\ k \in 1 .. MaxOps /\ k-1 \in 0 .. n /\ k-1 \in Nat /\ k-1 < k
        /\ k-1 \in 0 .. MaxOps
    BY <1>1, <2>2, <2>3
  <2>5. s[k-1] <= (k-1) * MaxAlloc
    <3>1. k-1 \notin Over
      BY <2>1, <2>4
    <3>2. QED  BY <2>4, <3>1
  <2> HIDE DEF Over
  <2> DEFINE m == k-1
             A == MaxAlloc
  <2>6. s[k] = s[m] + Size(buffer, k) /\ s[m] \in Nat /\ Size(buffer, k) \in Nat
        /\ Size(buffer, k) <= A /\ s[m] <= m * A /\ A \in Nat
    BY <1>1, <1>2, <1>3, <2>4, <2>5
  <2>7. m \in Nat /\ k = m + 1
    BY <2>4
  <2> HIDE DEF m, A
  <2>8. (m + 1) * A = m * A + A /\ m * A \in Nat
    BY <2>6, <2>7
  <2> DEFINE x == m * A
             y == Size(buffer, k)
             z == s[m]
  <2>9. s[k] = z + y /\ z \in Nat /\ y \in Nat /\ y <= A /\ z <= x /\ x \in Nat /\ A \in Nat
    BY <2>6, <2>8
  <2> HIDE DEF x, y, z
  <2>10. s[k] <= x + A
    BY <2>9
  <2>11. k * MaxAlloc = x + A
    BY <2>7, <2>8 DEF A, x
  <2>12. QED  BY <2>2, <2>10, <2>11
<1>6. s[n] <= n * MaxAlloc
  BY <1>1, <1>5
<1>7. n * MaxAlloc <= MaxOps * MaxAlloc
  <2>1. PICK d \in Nat : MaxOps = n + d
    <3>1. MaxOps - n \in Nat /\ MaxOps = n + (MaxOps - n)
      BY <1>1
    <3>2. QED  BY <3>1
  <2>2. MaxOps * MaxAlloc = n * MaxAlloc + d * MaxAlloc
        /\ n * MaxAlloc \in Nat /\ d * MaxAlloc \in Nat
    BY <1>1, <2>1
  <2>3. QED  BY <2>2
<1>8. QED
  <2>1. s[n] \in Nat /\ n * MaxAlloc \in Nat /\ MaxOps * MaxAlloc \in Nat
    BY <1>1, <1>2
  <2>2. QED  BY <1>4, <1>6, <1>7, <2>1

\* Blocks are made by krealloc only, which refuses more than MaxAlloc.
LEMMA BlocksFitKept ==
  ASSUME IInv, BlocksFit, NEW p \in Proc, Running(p) \/ Caller(p)
  PROVE  BlocksFit'
<1>1. MaxAlloc \in Nat /\ current_temporary_buffer_size \in Nat
      /\ mem \in [Ptr -> [size : Nat, data : Seq(Byte)]]
  BY DriverAssumption DEF IInv, TypeOK
<1>2. ASSUME NEW n, NEW q \in Ptr, NEW bytes, krealloc(n, q), SetBlock(n, q, bytes)
      PROVE  BlocksFit'
  BY <1>1, <1>2 DEF BlocksFit, krealloc, SetBlock, NoBlock
<1>3. CASE WriteAppend(p) \/ WriteFault(p)
  <2>1. \E q \in Ptr, bytes \in {Grown(Chunk(p)), Grown(<< >>)} :
          krealloc(NewSize(p), q) /\ SetBlock(NewSize(p), q, bytes)
    BY <1>3 DEF WriteAppend, WriteFault
  <2>2. QED  BY <1>2, <2>1
<1>4. CASE WriteEvict(p)
  BY <1>1, <1>4 DEF WriteEvict, BlocksFit, NoBlock
<1>5. CASE ~(WriteAppend(p) \/ WriteFault(p) \/ WriteEvict(p))
  <2>1. mem' = mem
    BY <1>5 DEF Running, Caller, Write, Read, Seek, DebugPrint, device, WriteLock,
       WriteInterrupted, WriteNoMem, WriteStore, WriteReset, WriteReturn,
       ReadLock, ReadInterrupted, ReadTransfer, ReadFault, ReadReturn, SeekInterrupted,
       aesd_llseek, aesd_unlocked_ioctl, IoctlRefused, PrintFetch, PrintCopy, aesd_open,
       aesd_release, WriteCall, ReadCall, SeekCall
  <2>2. QED  BY <2>1 DEF BlocksFit
<1>6. QED
  BY <1>3, <1>4, <1>5

\* Where a seek leads: nothing is found beyond the end of the device.
LEMMA SeekInContents ==
  ASSUME NEW b \in Buffer, NEW c \in Nat, NEW o \in Nat,
         ~(aesd_circular_buffer_find_fpos_at_position(b, c, o) < 0)
  PROVE  aesd_circular_buffer_find_fpos_at_position(b, c, o)
           \in 0 .. aesd_circular_buffer_content_length(b)
<1> DEFINE q == ToUint8(c)
           s == SizeBefore(b)
           v == Visited(b)
<1>1. v \in 1 .. MaxOps /\ MaxOps \in Nat /\ q \in Nat
  BY VisitedBounds, MaxOpsAssumption DEF ToUint8
<1>2. /\ s \in [0 .. MaxOps -> Nat]
      /\ \A k \in 1 .. MaxOps : s[k] = s[k-1] + Size(b, k)
  BY SizeBeforeSums
<1>3. q < v /\ o <= b.entry[SlotAt(b, q)].size
      /\ aesd_circular_buffer_find_fpos_at_position(b, c, o) = s[q] + o
  BY DEF aesd_circular_buffer_find_fpos_at_position, EINVAL
<1> HIDE DEF q, s, v
<1>4. q+1 \in 1 .. MaxOps /\ q \in 0 .. MaxOps /\ (q+1)-1 = q /\ q+1 <= v /\ v \in 0 .. MaxOps
      /\ q+1 \in 0 .. MaxOps
  BY <1>1, <1>3
<1>5. o <= Size(b, q+1) /\ Size(b, q+1) \in Nat
  BY <1>3, <1>4, SizeIsNatural DEF Size
<1>6. s[q+1] = s[q] + Size(b, q+1) /\ s[q] \in Nat /\ s[v] \in Nat /\ s[q+1] \in Nat
  BY <1>2, <1>4
<1>7. s[q+1] <= s[v]
  BY <1>4, SizeBeforeMonotone DEF s
<1>8. s[q] + o \in 0 .. s[v]
  BY <1>5, <1>6, <1>7
<1>9. QED
  BY <1>3, <1>8 DEF aesd_circular_buffer_content_length, s, v

LEMMA LengthIsNatural ==
  ASSUME NEW b \in Buffer
  PROVE  aesd_circular_buffer_content_length(b) \in Nat
<1>1. Visited(b) \in 0 .. MaxOps
  BY VisitedBounds, MaxOpsAssumption
<1>2. QED
  BY <1>1, SizeBeforeSums DEF aesd_circular_buffer_content_length

\* Every step that moves the position of a file puts it into the device.
LEMMA PositionStep ==
  ASSUME ReadInv, NEW p \in Proc, Running(p) \/ Caller(p)
  PROVE  \/ f_pos' = f_pos
         \/ \E x \in 0 .. aesd_circular_buffer_content_length(buffer) :
              f_pos' = [f_pos EXCEPT ![p] = x]
<1> DEFINE length == aesd_circular_buffer_content_length(buffer)
<1>1. /\ buffer \in Buffer /\ f_pos \in [Proc -> Nat] /\ Reads(p) /\ RInv /\ MutualExclusion
      /\ length \in Nat
  BY LengthIsNatural DEF ReadInv, RInv, IInv, TypeOK
<1> HIDE DEF length
<1>2. CASE aesd_open(p) \/ aesd_release(p)
  <2>1. 0 \in 0 .. length
    BY <1>1
  <2>2. f_pos' = [f_pos EXCEPT ![p] = 0]
    BY <1>2 DEF aesd_open, aesd_release
  <2>3. QED  BY <2>1, <2>2 DEF length
<1>3. CASE ReadReturn(p)
  <2>1. pc[p] = "r_loop" /\ f_pos' = [f_pos EXCEPT ![p] = local[p].pos]
    BY <1>3 DEF ReadReturn
  <2>2. Len(Bytes) = length
    BY <1>1, <2>1, NoStoreDuringRead, DeviceBytes DEF length
  <2>3. CASE local[p].buf = << >>
    <3>1. local[p].pos = f_pos[p]
      BY <1>1, <2>1, <2>3 DEF Reads
    <3>2. QED  BY <1>1, <2>1, <3>1
  <2>4. CASE local[p].buf # << >>
    <3>1. /\ local[p].pos <= length /\ local[p].pos = f_pos[p] + Len(local[p].buf)
          /\ local[p].buf \in Seq(Byte)
      BY <1>1, <2>1, <2>2, <2>4 DEF Reads
    <3>2. local[p].pos \in 0 .. length
      BY <1>1, <3>1, LenProperties
    <3>3. QED  BY <2>1, <3>2 DEF length
  <2>5. QED  BY <2>3, <2>4
<1>4. CASE aesd_llseek(p)
  <2>1. PICK a \in LlseekArgs :
          IF a.whence \in {"SEEK_SET", "SEEK_CUR", "SEEK_END"}
          THEN LET new == IF length = 0 THEN -EINVAL
                          ELSE fixed_size_llseek(f_pos[p], a.off, a.whence, length)
               IN  f_pos' = [f_pos EXCEPT ![p] = IF new < 0 THEN @ ELSE new]
          ELSE f_pos' = f_pos
    BY <1>4 DEF aesd_llseek, length
  <2>2. a.off \in Int /\ f_pos[p] \in Nat
    BY <1>1, DriverAssumption
  <2> DEFINE new == IF length = 0 THEN -EINVAL
                    ELSE fixed_size_llseek(f_pos[p], a.off, a.whence, length)
  <2>3. CASE a.whence \in {"SEEK_SET", "SEEK_CUR", "SEEK_END"}
    <3>1. new = f_pos[p] \/ new < 0 \/ new \in 0 .. length
      BY <1>1, <2>2, <2>3 DEF fixed_size_llseek, EINVAL
    <3>2. f_pos' = [f_pos EXCEPT ![p] = IF new < 0 THEN f_pos[p] ELSE new]
      BY <2>1, <2>3
    <3> HIDE DEF new
    <3>3. QED
      BY <1>1, <3>1, <3>2 DEF length
  <2>4. CASE a.whence \notin {"SEEK_SET", "SEEK_CUR", "SEEK_END"}
    BY <2>1, <2>4
  <2>5. QED  BY <2>3, <2>4
<1>5. CASE aesd_unlocked_ioctl(p)
  <2>1. CASE f_pos' = f_pos
    BY <2>1
  <2>2. CASE f_pos' # f_pos
    <3>1. PICK a \in SeekArgs :
            LET offset == aesd_circular_buffer_find_fpos_at_position(
                            buffer, a.write_cmd, a.write_cmd_offset)
            IN  ~(offset < 0) /\ f_pos' = [f_pos EXCEPT ![p] = offset]
      BY <1>5, <2>2 DEF aesd_unlocked_ioctl
    <3>2. a.write_cmd \in Nat /\ a.write_cmd_offset \in Nat
      BY DriverAssumption
    <3>3. QED
      BY <1>1, <3>1, <3>2, SeekInContents
  <2>3. QED  BY <2>1, <2>2
<1>6. CASE ~(aesd_open(p) \/ aesd_release(p) \/ ReadReturn(p) \/ aesd_llseek(p)
             \/ aesd_unlocked_ioctl(p))
  <2>1. f_pos' = f_pos
    BY <1>6 DEF Running, Caller, Write, Read, Seek, DebugPrint, WriteLock, WriteAppend,
       WriteFault, WriteEvict, WriteInterrupted, WriteNoMem, WriteStore, WriteReset,
       WriteReturn, ReadLock, ReadInterrupted, ReadTransfer, ReadFault, SeekInterrupted,
       IoctlRefused, PrintFetch, PrintCopy, WriteCall, ReadCall, SeekCall
  <2>2. QED  BY <2>1
<1>7. QED
  BY <1>2, <1>3, <1>4, <1>5, <1>6

\* A process is in a call only while it has the device open.
LEMMA OpenedStays ==
  ASSUME NEW p \in Proc, Running(p) \/ Caller(p)
  PROVE  /\ opened' = opened \/ (pc[p] = "idle" /\ UNCHANGED pc /\ opened' = opened \ {p})
            \/ (p \notin opened /\ UNCHANGED pc /\ opened' = opened \cup {p})
         /\ pc[p] = "idle" => UNCHANGED pc \/ p \in opened
<1>1. CASE Caller(p)
  BY <1>1 DEF Caller, aesd_open, aesd_release, WriteCall, ReadCall, SeekCall, IoctlRefused
<1>2. CASE Running(p)
  BY <1>2 DEF Running, Write, Read, Seek, DebugPrint, WriteLock, WriteAppend,
     WriteFault, WriteEvict, WriteInterrupted, WriteNoMem, WriteStore, WriteReset,
     WriteReturn, ReadLock, ReadInterrupted, ReadTransfer, ReadFault, ReadReturn,
     SeekInterrupted, aesd_llseek, aesd_unlocked_ioctl, PrintFetch, PrintCopy
<1>3. QED  BY <1>1, <1>2

\* What the read asks for once it has the lock.
LEMMA BytesToRead ==
  ASSUME NEW p \in Proc, NEW n \in Nat, aesd_circular_buffer_content_length(buffer) = n,
         local[p].pos \in Nat, local[p].count \in Nat
  PROVE  /\ num_bytes_to_read(p) \in Nat
         /\ n < SizeModulus /\ local[p].pos < n =>
              /\ num_bytes_to_read(p) <= n - local[p].pos
              /\ num_bytes_to_read(p) \in {n - local[p].pos, local[p].count}
<1> DEFINE d == n - local[p].pos
           M == SizeModulus
           left == d % M
<1>1. d \in Int /\ M \in Nat \ {0}
  BY DriverAssumption
<1>2. num_bytes_to_read(p) = IF left < local[p].count THEN left ELSE local[p].count
  BY DEF num_bytes_to_read
<1>3. left \in Nat
  <2> HIDE DEF d, M
  <2> QED  BY <1>1
<1>4. ASSUME n < M, local[p].pos < n
      PROVE  left = d /\ d \in Nat
  <2>1. d \in 0 .. M - 1
    BY <1>1, <1>4
  <2> HIDE DEF d, M
  <2>2. QED  BY <1>1, <2>1
<1> HIDE DEF left
<1>5. QED
  BY <1>2, <1>3, <1>4

LEMMA ReaderMoves ==
  ASSUME ReadInv, IInv', NEW p \in Proc, Running(p) \/ Caller(p)
  PROVE  Reads(p)'
<1>1. /\ pc \in [Proc -> Label] /\ DOMAIN local = Proc /\ DOMAIN local[p] = DOMAIN NoLocal
      /\ Reads(p) /\ RInv /\ IInv /\ MutualExclusion /\ f_pos \in [Proc -> Nat] /\ BlocksFit
      /\ DOMAIN f_pos = Proc /\ DOMAIN ret = Proc
      /\ MutualExclusion' /\ pc' \in [Proc -> Label]
  BY DEF ReadInv, RInv, IInv, TypeOK
\* Whoever is in a call has the device open.
<1>2. pc'[p] # "idle" => p \in opened'
  BY <1>1, OpenedStays DEF Reads
<1>3. ASSUME pc'[p] \notin BeforeLoop \cup {"r_loop"}
      PROVE  Reads(p)'
  BY <1>2, <1>3 DEF Reads
<1>4. ASSUME NEW e, Return(p, e)
      PROVE  Reads(p)'
  <2>1. pc'[p] = "idle"
    BY <1>1, <1>4 DEF Return, Goto
  <2>2. QED  BY <1>3, <2>1 DEF BeforeLoop
<1>5. CASE ReadCall(p)
  <2>1. PICK c \in ReadCounts :
          local' = [local EXCEPT ![p] = [NoLocal EXCEPT !.count = c, !.pos = f_pos[p]]]
    BY <1>5 DEF ReadCall
  <2>2. /\ local'[p].buf = << >> /\ local'[p].pos = f_pos[p] /\ local'[p].count \in ReadCounts
        /\ f_pos' = f_pos /\ pc'[p] # "r_loop"
    BY <1>1, <1>5, <2>1 DEF NoLocal, ReadCall, Call, Goto
  <2>3. QED  BY <1>2, <2>2 DEF Reads
<1>6. CASE DebugPrint(p)
  <2>1. CASE pc[p] \in {"r_print", "r_copy"}
    <3>1. /\ local'[p].buf = local[p].buf /\ local'[p].pos = local[p].pos
          /\ local'[p].count = local[p].count /\ pc'[p] # "r_loop"
          /\ f_pos' = f_pos
      BY <1>1, <1>6, <2>1 DEF DebugPrint, PrintFetch, PrintCopy, AfterPrint, Goto, NoLocal
    <3>2. QED  BY <1>1, <1>2, <2>1, <3>1 DEF Reads, BeforeLoop
  <2>2. CASE pc[p] \notin {"r_print", "r_copy"}
    <3>1. pc'[p] \in {"w_copy", "w_print", "idle"}
      BY <1>1, <1>6, <2>2 DEF DebugPrint, PrintFetch, PrintCopy, AfterPrint, Return, Goto
    <3>2. QED  BY <1>3, <3>1 DEF BeforeLoop
  <2>3. QED  BY <2>1, <2>2
<1>7. CASE ReadLock(p)
  <2>1. /\ pc[p] = "read" /\ lock = NoProc /\ pc'[p] = "r_loop" /\ f_pos' = f_pos
        /\ UNCHANGED device
        /\ local'[p].buf = local[p].buf /\ local'[p].pos = local[p].pos
        /\ local'[p].count = num_bytes_to_read(p)
    BY <1>1, <1>7 DEF ReadLock, Acquire, Goto, NoLocal
  <2>2. ~Storing /\ ~Resetting
    BY <1>1, <2>1, DriverAssumption DEF MutualExclusion, Storing, Resetting, Critical
  <2>3. Bytes' = Bytes
    BY <1>1, <2>1, <2>2, BytesStay
  <2>4. local[p].buf = << >> /\ local[p].pos = f_pos[p] /\ local[p].count \in ReadCounts
        /\ local[p].count \in Nat /\ f_pos[p] \in Nat
    BY <1>1, <2>1, DriverAssumption DEF Reads, BeforeLoop
  <2>5. /\ Len(Bytes) \in Nat /\ aesd_circular_buffer_content_length(buffer) = Len(Bytes)
        /\ Len(Bytes) <= MaxOps * MaxAlloc
    BY <1>1, <2>2, DeviceBytes, LengthBound
  <2>6. SizesFit => Len(Bytes) < SizeModulus
    <3>1. MaxOps * MaxAlloc \in Nat /\ SizeModulus \in Nat
      BY MaxOpsAssumption, DriverAssumption
    <3>2. QED  BY <2>5, <3>1 DEF SizesFit
  <2>7. /\ local'[p].count \in Nat
        /\ SizesFit /\ f_pos[p] < Len(Bytes) =>
             /\ local'[p].count <= Len(Bytes) - f_pos[p]
             /\ local'[p].count \in {Len(Bytes) - f_pos[p]} \cup ReadCounts
    <3>1. /\ num_bytes_to_read(p) \in Nat
          /\ Len(Bytes) < SizeModulus /\ local[p].pos < Len(Bytes) =>
               /\ num_bytes_to_read(p) <= Len(Bytes) - local[p].pos
               /\ num_bytes_to_read(p) \in {Len(Bytes) - local[p].pos, local[p].count}
      BY <2>4, <2>5, BytesToRead
    <3>2. QED  BY <2>1, <2>4, <2>6, <3>1
  <2>8. /\ << >> \in Seq(Byte) /\ Len(<< >>) = 0
        /\ SubSeq(Bytes, f_pos[p] + 1, f_pos[p]) = << >>
    <3>1. f_pos[p] + 1 \in Int /\ f_pos[p] \in Int /\ f_pos[p] < f_pos[p] + 1
      BY <2>4
    <3>2. QED  BY <3>1, SubSeqEmpty, EmptySeq
  <2>9. Len(local'[p].buf) <= local'[p].count /\ f_pos'[p] + Len(local'[p].buf) = f_pos[p]
    BY <2>1, <2>4, <2>7, <2>8
  <2>10. QED
    BY <1>2, <2>1, <2>3, <2>4, <2>7, <2>8, <2>9 DEF Reads, BeforeLoop, SizesFit
<1>8. CASE ReadTransfer(p)
  <2> DEFINE f == f_pos[p]
             b == local[p].buf
             u == Transfer(p)
             x == local[p].pos
             v == b \o u
  <2>1. /\ pc[p] = "r_loop" /\ pc'[p] = "r_loop" /\ f_pos' = f_pos /\ UNCHANGED device
        /\ MoreToRead(p)
        /\ local'[p].buf = v /\ local'[p].pos = x + Len(u)
        /\ local'[p].count = local[p].count
    BY <1>1, <1>8 DEF ReadTransfer, NoLocal
  <2>2. ~Storing /\ ~Resetting
    BY <1>1, <2>1, NoStoreDuringRead
  <2>3. Bytes' = Bytes
    BY <1>1, <2>1, <2>2, BytesStay
  <2>4. /\ b \in Seq(Byte) /\ local[p].count \in Nat /\ x = f + Len(b) /\ f \in Nat
        /\ b = SubSeq(Bytes, f + 1, x) /\ Len(b) \in Nat /\ x \in Nat
    <3>1. /\ b \in Seq(Byte) /\ local[p].count \in Nat /\ x = f + Len(b)
          /\ b = SubSeq(Bytes, f + 1, x)
      BY <1>1, <2>1 DEF Reads
    <3>2. f \in Nat
      BY <1>1
    <3> HIDE DEF f, b, x
    <3>3. Len(b) \in Nat
      BY <3>1, LenProperties
    <3>4. QED  BY <3>1, <3>2, <3>3
  <2>5. /\ x < Len(Bytes) /\ u \in Seq(Byte) /\ Len(u) \in Nat \ {0}
        /\ x + Len(u) <= Len(Bytes) /\ Len(b) + Len(u) <= local[p].count
        /\ u = SubSeq(Bytes, x + 1, x + Len(u))
    BY <1>1, <2>1, <2>2, <2>4, TransferIsSlice
  <2>6. Bytes \in Seq(Byte) /\ Len(Bytes) \in Nat
    BY <1>1, <2>2, DeviceBytes
  <2> HIDE DEF f, b, u, x
  <2>7. v \in Seq(Byte) /\ Len(v) = Len(b) + Len(u)
    BY <2>4, <2>5, ConcatProperties
  <2>8. v = SubSeq(Bytes, f + 1, x + Len(u))
    <3> DEFINE m == f + 1
               n == x + Len(u)
    <3>1. m \in 1 .. Len(Bytes) + 1 /\ x \in m - 1 .. Len(Bytes) /\ n \in x .. Len(Bytes)
      BY <2>4, <2>5, <2>6
    <3>2. b = SubSeq(Bytes, m, x) /\ u = SubSeq(Bytes, x + 1, n)
      BY <2>4, <2>5
    <3> HIDE DEF m, n
    <3>3. SubSeq(Bytes, m, x) \o SubSeq(Bytes, x + 1, n) = SubSeq(Bytes, m, n)
      BY <2>6, <3>1, ConcatAdjacentSubSeq
    <3>4. v = SubSeq(Bytes, m, n)
      BY <3>2, <3>3
    <3>5. QED  BY <3>4 DEF m, n
  <2> HIDE DEF v
  <2>9. f + Len(v) = x + Len(u) /\ Len(v) <= local[p].count
    BY <2>4, <2>5, <2>7
  <2>10. SizesFit /\ f < Len(Bytes) =>
           /\ local[p].count <= Len(Bytes) - f
           /\ local[p].count \in {Len(Bytes) - f} \cup ReadCounts
    BY <1>1, <2>1 DEF Reads, f
  <2>11. QED
    BY <1>2, <2>1, <2>3, <2>4, <2>5, <2>7, <2>8, <2>9, <2>10 DEF Reads, BeforeLoop, SizesFit, f
<1>9. CASE ReadInterrupted(p) \/ ReadFault(p) \/ ReadReturn(p)
  BY <1>4, <1>9 DEF ReadInterrupted, ReadFault, ReadReturn
<1>10. CASE Seek(p)
  BY <1>4, <1>10 DEF Seek, SeekInterrupted, aesd_llseek, aesd_unlocked_ioctl
<1>11. CASE WriteCall(p) \/ SeekCall(p)
  <2>1. pc'[p] \in {"w_scan", "llseek", "ioctl"}
    BY <1>1, <1>11 DEF WriteCall, SeekCall, Call, Goto
  <2>2. QED  BY <1>3, <2>1 DEF BeforeLoop
<1>12. CASE aesd_open(p) \/ aesd_release(p) \/ IoctlRefused(p)
  <2>1. pc'[p] = "idle"
    BY <1>1, <1>12 DEF aesd_open, aesd_release, IoctlRefused, Reads
  <2>2. QED  BY <1>3, <2>1 DEF BeforeLoop
<1>13. CASE Write(p)
  <2>1. pc'[p] \in Writing \cup {"w_print", "idle"}
    BY <1>1, <1>13 DEF Write, WriteLock, WriteInterrupted, WriteAppend, WriteFault, WriteNoMem,
       WriteEvict, WriteStore, WriteReset, WriteReturn, Return, Goto, Writing
  <2>2. QED  BY <1>3, <2>1 DEF BeforeLoop, Writing
<1>14. QED
  BY <1>5, <1>6, <1>7, <1>8, <1>9, <1>10, <1>11, <1>12, <1>13 DEF Running, Read, Caller

LEMMA ReadInvariant == Spec => []ReadInv
<1>1. Init => ReadInv
  <2> SUFFICES ASSUME Init PROVE ReadInv
    OBVIOUS
  <2>1. RInv
    BY InitialRInv
  <2>2. BlocksFit
    BY DriverAssumption DEF Init, BlocksFit, NoBlock
  <2>3. f_pos \in [Proc -> Nat] /\ DOMAIN ret = Proc
    BY DEF Init
  <2>4. \A p \in Proc : Reads(p)
    BY DEF Init, Reads, BeforeLoop
  <2>5. QED  BY <2>1, <2>2, <2>3, <2>4 DEF ReadInv
<1>2. ReadInv /\ [Next]_vars => ReadInv'
  <2> SUFFICES ASSUME ReadInv, [Next]_vars PROVE ReadInv'
    OBVIOUS
  <2>1. RInv /\ IInv /\ f_pos \in [Proc -> Nat] /\ DOMAIN ret = Proc /\ buffer \in Buffer
        /\ DOMAIN f_pos = Proc
    BY DEF ReadInv, RInv, IInv, TypeOK
  <2>2. RInv' /\ IInv'
    BY <2>1, StepKeepsInvariant, FilledKept, GivenKept DEF RInv
  <2>3. ASSUME NEW p \in Proc, Running(p) \/ Caller(p)
        PROVE  ReadInv'
    <3>1. BlocksFit' /\ DOMAIN ret' = Proc
      BY <2>1, <2>3, BlocksFitKept, ReturnsKept DEF ReadInv
    <3>2. f_pos' \in [Proc -> Nat]
      <4>1. aesd_circular_buffer_content_length(buffer) \in Nat
        BY <2>1, LengthIsNatural
      <4>2. f_pos' = f_pos \/ \E x \in Nat : f_pos' = [f_pos EXCEPT ![p] = x]
        BY <2>3, <4>1, PositionStep
      <4>3. QED  BY <2>1, <4>2
    <3>3. Reads(p)'
      BY <2>2, <2>3, ReaderMoves
    <3>4. ASSUME NEW q \in Proc, q # p
          PROVE  Reads(q)'
      <4>1. q \in opened => q \in opened'
        BY <2>3, <3>4, OpenedStays
      <4>2. /\ pc'[q] = pc[q] /\ local'[q] = local[q] /\ f_pos'[q] = f_pos[q]
            /\ pc[q] \in Critical => UNCHANGED device
        BY <2>1, <2>3, <3>4, OthersStay
      <4>3. Reads(q)
        BY DEF ReadInv
      <4>4. QED  BY <2>1, <2>2, <4>1, <4>2, <4>3, ReadsStay
    <3>5. \A q \in Proc : Reads(q)'
      BY <3>3, <3>4
    <3>6. QED  BY <2>2, <3>1, <3>2, <3>5 DEF ReadInv
  <2>4. CASE UNCHANGED vars
    <3>1. UNCHANGED <<device, opened, f_pos, pc, local, ret>> /\ mem' = mem
      BY <2>4 DEF vars, device
    <3>2. BlocksFit' /\ DOMAIN ret' = Proc /\ f_pos' \in [Proc -> Nat]
      BY <2>1, <3>1 DEF ReadInv, BlocksFit
    <3>3. \A q \in Proc : Reads(q)'
      BY <2>1, <2>2, <3>1, ReadsStay DEF ReadInv
    <3>4. QED  BY <2>2, <3>2, <3>3 DEF ReadInv
  <2>5. QED  BY <2>3, <2>4 DEF Next
<1>3. QED
  BY <1>1, <1>2, PTL DEF Spec

-----------------------------------------------------------------------------
\* What aesd_read has copied is what the device holds from *f_pos on, across
\* the ends of its entries and whatever writers wait for the lock
\* (main.c:172-204).
THEOREM ReadCopiesTheDevice == Spec => []ReadIsSlice
<1>1. ReadInv => ReadIsSlice
  BY DEF ReadInv, Reads, ReadIsSlice
<1>2. QED
  BY <1>1, ReadInvariant, PTL

\* No call moves the file's position out of the device: not a read that ends
\* early, not an lseek with a negative or a large offset, and not
\* AESDCHAR_IOCSEEKTO, whatever command and offset it is given
\* (main.c:143-147, 196-197, 342-349).
THEOREM PositionStaysInContents == Spec => PositionInContents
<1> DEFINE A == \A p \in Proc : f_pos'[p] # f_pos[p] =>
                  f_pos'[p] \in 0 .. aesd_circular_buffer_content_length(buffer)
<1>1. ReadInv /\ [Next]_vars => [A]_vars
  <2> SUFFICES ASSUME ReadInv, NEW q \in Proc, Running(q) \/ Caller(q),
                      NEW p \in Proc, f_pos'[p] # f_pos[p]
               PROVE  f_pos'[p] \in 0 .. aesd_circular_buffer_content_length(buffer)
    BY DEF Next
  <2>1. PICK x \in 0 .. aesd_circular_buffer_content_length(buffer) :
          f_pos' = [f_pos EXCEPT ![q] = x]
    BY PositionStep
  <2>2. f_pos \in [Proc -> Nat]
    BY DEF ReadInv
  <2>3. QED  BY <2>1, <2>2
<1>2. QED
  BY <1>1, ReadInvariant, PTL DEF Spec, PositionInContents

\* A read that succeeds is never short: it stops only at the end of the device
\* or when it has what was asked for, and from a position beyond the end it
\* returns 0 although the difference of main.c:178 wraps.  The device has to be
\* smaller than a size_t can count, which MaxOps blocks of kmalloc are.
THEOREM ReadIsNotShort ==
  ASSUME MaxOps * MaxAlloc < SizeModulus
  PROVE  Spec => ReadIsFull
<1> DEFINE Full(p) ==
      pc[p] = "r_loop" /\ pc'[p] = "idle" /\ ret'[p] >= 0 =>
        LET left == Len(Bytes) - f_pos[p] IN
        \/ left <= 0 /\ ret'[p] = 0
        \/ left > 0 /\ ret'[p] \in {left} \cup ReadCounts /\ ret'[p] <= left
             /\ (ret'[p] < left => ret'[p] = local[p].count)
<1>1. ReadInv /\ [Next]_vars => [\A p \in Proc : Full(p)]_vars
  <2> SUFFICES ASSUME ReadInv, Next, NEW p \in Proc,
                      pc[p] = "r_loop", pc'[p] = "idle", ret'[p] >= 0
               PROVE  LET left == Len(Bytes) - f_pos[p] IN
                      \/ left <= 0 /\ ret'[p] = 0
                      \/ left > 0 /\ ret'[p] \in {left} \cup ReadCounts /\ ret'[p] <= left
                           /\ (ret'[p] < left => ret'[p] = local[p].count)
    OBVIOUS
  <2>1. /\ pc \in [Proc -> Label] /\ DOMAIN ret = Proc /\ Reads(p) /\ RInv /\ IInv
        /\ MutualExclusion /\ f_pos \in [Proc -> Nat] /\ DOMAIN f_pos = Proc
    BY DEF ReadInv, RInv, IInv, TypeOK
  <2>2. Running(p)
    <3>1. Running(p) \/ Caller(p)
      BY <2>1, OthersStay DEF Next
    <3>2. ~Caller(p)
      BY <2>1 DEF Caller, aesd_open, aesd_release, WriteCall, ReadCall, SeekCall, IoctlRefused
    <3>3. QED  BY <3>1, <3>2
  <2>3. ReadReturn(p)
    <3>1. Read(p)
      BY <2>2 DEF Running, Write, Seek, DebugPrint, WriteLock, WriteAppend, WriteFault,
         WriteEvict, WriteInterrupted, WriteNoMem, WriteStore, WriteReset, WriteReturn,
         SeekInterrupted, aesd_llseek, aesd_unlocked_ioctl, PrintFetch, PrintCopy
    <3>2. ~ReadFault(p)
      BY <2>1 DEF ReadFault, Return, EFAULT
    <3>3. ~ReadLock(p) /\ ~ReadInterrupted(p) /\ ~ReadTransfer(p)
      BY <2>1 DEF ReadLock, ReadInterrupted, ReadTransfer
    <3>4. QED  BY <3>1, <3>2, <3>3 DEF Read
  <2> DEFINE f == f_pos[p]
             b == Len(local[p].buf)
             x == local[p].pos
             n == Len(Bytes)
  <2>4. ret'[p] = b /\ (b >= local[p].count \/ Found(p) = NotFound)
    <3>1. ret'[p] = b /\ ~MoreToRead(p)
      BY <2>1, <2>3 DEF ReadReturn, Return
    <3>2. local[p].count \in Nat /\ b \in Nat
      BY <2>1, LenProperties DEF Reads
    <3>3. QED  BY <3>1, <3>2 DEF MoreToRead
  <2>5. /\ b \in Nat /\ local[p].count \in Nat /\ b <= local[p].count
        /\ x = f + b /\ f \in Nat /\ (b = 0 \/ x <= n)
        /\ f < n => /\ local[p].count <= n - f
                    /\ local[p].count \in {n - f} \cup ReadCounts
    <3>1. /\ local[p].buf \in Seq(Byte) /\ local[p].count \in Nat /\ b <= local[p].count
          /\ x = f + b /\ (local[p].buf = << >> \/ x <= n)
          /\ f < n => /\ local[p].count <= n - f
                      /\ local[p].count \in {n - f} \cup ReadCounts
      BY <2>1 DEF Reads, SizesFit
    <3>2. b \in Nat /\ (local[p].buf = << >> => b = 0)
      BY <3>1, LenProperties, EmptySeq
    <3>3. f \in Nat
      BY <2>1
    <3>4. QED  BY <3>1, <3>2, <3>3
  <2>6. /\ n \in Nat
        /\ x \in Nat /\ x < n => Found(p) # NotFound
    <3>1. ~Storing
      BY <2>1, NoStoreDuringRead
    <3>2. /\ n \in Nat
          /\ \A off \in Nat : off < n => \E k \in 0 .. Count(buffer) - 1 : HoldsByte(k, off)
      BY <2>1, <3>1, DeviceBytes
    <3>3. ASSUME x \in Nat, x < n PROVE Found(p) # NotFound
      <4>1. PICK k \in 0 .. Count(buffer) - 1 : HoldsByte(k, x)
        BY <3>2, <3>3
      <4>2. Found(p).slot = SlotAt(buffer, k)
        BY <4>1 DEF HoldsByte, Found
      <4>3. SlotAt(buffer, k) \in Slots
        <5>1. buffer \in Buffer /\ k \in 0 .. MaxOps
          BY <2>1, CountBounds, MaxOpsAssumption DEF IInv, TypeOK
        <5>2. QED  BY <5>1, SlotAtWraps
      <4>4. NotFound.slot \notin Slots
        BY MaxOpsAssumption DEF NotFound, Slots
      <4>5. QED  BY <4>2, <4>3, <4>4
    <3>4. QED  BY <3>2, <3>3
  <2> DEFINE c == local[p].count
             r == ret'[p]
             N == Found(p) = NotFound
  <2> SUFFICES \/ n - f <= 0 /\ r = 0
               \/ n - f > 0 /\ r \in {n - f} \cup ReadCounts /\ r <= n - f
                    /\ (r < n - f => r = c)
    OBVIOUS
  <2>7. /\ r = b /\ (b >= c \/ N) /\ b \in Nat /\ c \in Nat /\ b <= c
        /\ x = f + b /\ f \in Nat /\ (b = 0 \/ x <= n) /\ n \in Nat
        /\ x \in Nat /\ x < n => ~N
        /\ f < n => c <= n - f /\ c \in {n - f} \cup ReadCounts
    BY <2>4, <2>5, <2>6
  <2> HIDE DEF f, b, x, n, c, r, N
  <2>8. CASE n <= f
    <3>1. b = 0
      BY <2>7, <2>8
    <3>2. QED  BY <2>7, <2>8, <3>1
  <2>9. CASE f < n
    <3>1. b = c
      BY <2>7, <2>9
    <3>2. r = c /\ c <= n - f /\ c \in {n - f} \cup ReadCounts /\ n - f > 0
      BY <2>7, <2>9, <3>1
    <3>3. QED  BY <3>2
  <2>10. QED  BY <2>7, <2>8, <2>9
<1>2. QED
  BY <1>1, ReadInvariant, PTL DEF Spec, ReadIsFull
===============================================================================
