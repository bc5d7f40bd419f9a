---------------------------- MODULE AesdCharProofs ----------------------------
(***************************************************************************)
(* The driver, for any number of processes, slots and addresses: the lock  *)
(* excludes, every block has one owner, and every command in the buffer is *)
(* well formed.                                                            *)
(***************************************************************************)
EXTENDS AesdChar, CircularBufferProofs

-----------------------------------------------------------------------------
(***************************************************************************)
(* The chunk that a turn of the write loop takes.                          *)
(***************************************************************************)
NoTerminator(s) == \A j \in 1 .. Len(s) : s[j] # NL

LEMMA ChunkProperties ==
  ASSUME NEW p, local[p].buf \in Seq(Byte), local[p].off \in Nat, MoreToWrite(p)
  PROVE  /\ Idx(p) \in Nat
         /\ Chunk(p) \in Seq(Byte)
         /\ Len(Chunk(p)) \in Nat \ {0}
         /\ Terminators(p) = {} => NoTerminator(Chunk(p))
         /\ Terminators(p) # {} => Terminated(Chunk(p)) /\ Len(Chunk(p)) = Idx(p) + 1
<1> DEFINE b == local[p].buf
           o == local[p].off
           T == Terminators(p)
<1>1. b \in Seq(Byte) /\ o \in Nat /\ o < Len(b)
  BY DEF MoreToWrite
<1>2. T = {j \in o + 1 .. Len(b) : b[j] = NL}
  BY DEF Terminators
<1>3. Idx(p) = IF T = {} THEN Len(b) - o
               ELSE (CHOOSE j \in T : \A i \in T : j <= i) - 1 - o
  BY DEF Idx
<1>4. Chunk(p) = SubSeq(b, o + 1, o + Idx(p) + (IF T = {} THEN 0 ELSE 1))
  BY DEF Chunk
<1> SUFFICES /\ Idx(p) \in Nat
             /\ Chunk(p) \in Seq(Byte)
             /\ Len(Chunk(p)) \in Nat \ {0}
             /\ T = {} => NoTerminator(Chunk(p))
             /\ T # {} => Terminated(Chunk(p)) /\ Len(Chunk(p)) = Idx(p) + 1
  OBVIOUS
<1> HIDE DEF b, o, T
<1>5. Len(b) \in Nat /\ \A j \in 1 .. Len(b) : b[j] \in Byte
  BY <1>1, LenProperties, ElementOfSeq
\* The part of the buffer that a chunk ending at n is.
<1>6. ASSUME NEW n \in o + 1 .. Len(b)
      PROVE  /\ SubSeq(b, o + 1, n) \in Seq(Byte)
             /\ Len(SubSeq(b, o + 1, n)) = n - o
             /\ \A i \in 1 .. n - o : SubSeq(b, o + 1, n)[i] = b[o + i]
  <2>1. \A i \in o + 1 .. n : b[i] \in Byte
    BY <1>1, <1>5
  <2>2. o + 1 \in Int /\ n \in Int
    BY <1>1
  <2>3. /\ SubSeq(b, o + 1, n) \in Seq(Byte)
        /\ Len(SubSeq(b, o + 1, n)) = IF o + 1 <= n THEN n - (o + 1) + 1 ELSE 0
        /\ \A i \in 1 .. n - (o + 1) + 1 : SubSeq(b, o + 1, n)[i] = b[(o + 1) + i - 1]
    BY <2>1, <2>2, SubSeqProperties
  <2>4. QED  BY <2>3, <1>1
<1>7. CASE T = {}
  <2>1. Idx(p) = Len(b) - o
    BY <1>3, <1>7
  <2>2. Len(b) \in o + 1 .. Len(b) /\ Len(b) - o \in Nat \ {0} /\ o + (Len(b) - o) + 0 = Len(b)
    BY <1>1, <1>5
  <2>3. Chunk(p) = SubSeq(b, o + 1, Len(b))
    BY <1>4, <1>7, <2>1, <2>2
  <2>4. /\ Chunk(p) \in Seq(Byte)
        /\ Len(Chunk(p)) = Len(b) - o
        /\ \A i \in 1 .. Len(b) - o : Chunk(p)[i] = b[o + i]
    BY <1>6, <2>2, <2>3
  <2>5. \A j \in o + 1 .. Len(b) : b[j] # NL
    BY <1>2, <1>7
  <2>6. NoTerminator(Chunk(p))
    <3> SUFFICES ASSUME NEW i \in 1 .. Len(Chunk(p)) PROVE Chunk(p)[i] # NL
      BY DEF NoTerminator
    <3>1. i \in 1 .. Len(b) - o /\ o + i \in o + 1 .. Len(b)
      BY <2>4, <1>1, <1>5
    <3>2. QED  BY <3>1, <2>4, <2>5
  <2>7. QED
    BY <1>7, <2>1, <2>2, <2>4, <2>6
<1>8. CASE T # {}
  <2>1. T \subseteq Nat
    BY <1>1, <1>2, <1>5
  <2>2. PICK t \in T : \A i \in T : t <= i
    BY <1>8, <2>1, LeastElement
  <2> DEFINE m == CHOOSE j \in T : \A i \in T : j <= i
  <2>3. m = t
    <3>1. m \in T /\ \A i \in T : m <= i
      BY <2>2
    <3> HIDE DEF m
    <3>2. QED  BY <3>1, <2>1, <2>2
  <2>4. t \in o + 1 .. Len(b) /\ b[t] = NL /\ t \in Nat
    BY <2>1, <2>2, <1>2
  <2>5. t - 1 - o \in Nat /\ t - o \in Nat \ {0} /\ o + (t - 1 - o) + 1 = t
    BY <1>1, <1>5, <2>4
  <2>6. Idx(p) = t - 1 - o
    BY <1>3, <1>8, <2>3
  <2>7. Chunk(p) = SubSeq(b, o + 1, t)
    BY <1>4, <1>8, <2>5, <2>6
  <2>8. /\ Chunk(p) \in Seq(Byte)
        /\ Len(Chunk(p)) = t - o
        /\ \A i \in 1 .. t - o : Chunk(p)[i] = b[o + i]
    BY <1>6, <2>4, <2>7
  <2>9. \A j \in o + 1 .. t - 1 : b[j] # NL
    <3> SUFFICES ASSUME NEW j \in o + 1 .. t - 1, b[j] = NL PROVE FALSE
      OBVIOUS
    <3>1. j \in T
      BY <1>1, <1>2, <1>5, <2>4
    <3>2. QED  BY <3>1, <2>2, <2>4, <1>1
  <2>10. Terminated(Chunk(p))
    <3>1. Len(Chunk(p)) > 0
      BY <2>5, <2>8
    <3>2. ASSUME NEW i \in 1 .. Len(Chunk(p))
          PROVE  Chunk(p)[i] = NL <=> i = Len(Chunk(p))
      <4>1. i \in 1 .. t - o /\ Chunk(p)[i] = b[o + i]
        BY <2>8
      <4>2. CASE i = t - o
        <5>1. o + i = t
          BY <4>2, <1>1, <2>4
        <5>2. QED  BY <5>1, <4>1, <4>2, <2>4, <2>8
      <4>3. CASE i # t - o
        <5>1. o + i \in o + 1 .. t - 1
          BY <4>1, <4>3, <1>1, <2>4
        <5>2. QED  BY <5>1, <4>1, <4>3, <2>8, <2>9
      <4>4. QED  BY <4>2, <4>3
    <3>3. QED  BY <3>1, <3>2 DEF Terminated
  <2>11. Len(Chunk(p)) = Idx(p) + 1
    BY <1>1, <2>4, <2>6, <2>8
  <2>12. QED
    BY <1>8, <2>5, <2>6, <2>8, <2>10, <2>11
<1>9. QED
  BY <1>7, <1>8

-----------------------------------------------------------------------------
(***************************************************************************)
(* The inductive invariant.  Besides the properties themselves it says how *)
(* the device looks inside a write: where the offsets are between the two  *)
(* steps of an addition, that the temporary buffer holds exactly the bytes *)
(* counted, a command once its terminator has come and no terminator       *)
(* before, and what the writer has found in its own buffer.                *)
(***************************************************************************)
CommitLabels == {"w_evict", "w_store", "w_reset"}
Committing   == \E p \in Proc : pc[p] \in CommitLabels

BufferShape == IF Storing THEN Room(buffer) ELSE Shape(buffer)

TempBlock ==
  /\ temporary_command_buffer = NullPtr =>
       current_temporary_buffer_size = 0 /\ ~Committing
  /\ temporary_command_buffer # NullPtr =>
       LET block == mem[temporary_command_buffer] IN
       /\ Len(block.data) = current_temporary_buffer_size
       /\ Len(block.data) <= block.size
       /\ IF Committing THEN Terminated(block.data) ELSE NoTerminator(block.data)

Stored == Resetting => \E i \in LiveSlots : Held(i) = temporary_command_buffer

DeviceInv == BufferShape /\ TempBlock /\ MemoryOwned /\ Stored /\ CommandsWellFormed

AtChunk ==
  \A p \in Proc :
    /\ pc[p] \in {"w_cmd"} \cup CommitLabels => MoreToWrite(p) /\ Terminators(p) # {}
    /\ pc[p] = "w_tail" => MoreToWrite(p) /\ Terminators(p) = {}

IInv == TypeOK /\ MutualExclusion /\ AtChunk /\ DeviceInv

-----------------------------------------------------------------------------
(***************************************************************************)
(* Who owns the lock.  A step takes it, gives it back or leaves it alone.  *)
(***************************************************************************)
LEMMA Alone ==
  ASSUME MutualExclusion, NEW p \in Proc, pc[p] \in Critical
  PROVE  /\ lock = p
         /\ \A q \in Proc \ {p} : pc[q] \notin Critical
BY DEF MutualExclusion

LEMMA LockTaken ==
  ASSUME MutualExclusion, pc \in [Proc -> Label], NEW p \in Proc, NEW l,
         lock = NoProc, lock' = p, pc' = [pc EXCEPT ![p] = l]
  PROVE  MutualExclusion'
BY DriverAssumption DEF MutualExclusion

LEMMA LockReleased ==
  ASSUME MutualExclusion, pc \in [Proc -> Label], NEW p \in Proc, NEW l,
         pc[p] \in Critical, l \notin Critical, pc' = [pc EXCEPT ![p] = l]
  PROVE  MutualExclusion'
BY DEF MutualExclusion

LEMMA LockKept ==
  ASSUME MutualExclusion, pc \in [Proc -> Label], NEW p \in Proc, NEW l,
         lock' = lock, l \in Critical => pc[p] \in Critical,
         pc' = [pc EXCEPT ![p] = l]
  PROVE  MutualExclusion'
BY DEF MutualExclusion

(***************************************************************************)
(* The steps of the callers, the reads, the seeks and the debug print, and *)
(* those steps of a write that only look at the device, leave the device   *)
(* as it is and do not change which part of a write is going on.           *)
(***************************************************************************)
LEMMA PhaseKept ==
  ASSUME pc \in [Proc -> Label], NEW p \in Proc, NEW l, pc' = [pc EXCEPT ![p] = l],
         pc[p] \notin CommitLabels, l \notin CommitLabels
  PROVE  (Storing' <=> Storing) /\ (Resetting' <=> Resetting) /\ (Committing' <=> Committing)
BY DEF Storing, Resetting, Committing, CommitLabels

LEMMA DeviceKept ==
  ASSUME DeviceInv, UNCHANGED device,
         Storing' <=> Storing, Resetting' <=> Resetting, Committing' <=> Committing
  PROVE  DeviceInv'
<1>1. /\ buffer' = buffer /\ temporary_command_buffer' = temporary_command_buffer
      /\ current_temporary_buffer_size' = current_temporary_buffer_size
      /\ allocated' = allocated /\ mem' = mem
  BY DEF device
<1>2. LiveSlots' = LiveSlots /\ \A i \in Slots : Held(i)' = Held(i)
  BY <1>1 DEF LiveSlots, Vacated, Held
<1>3. BufferShape' /\ TempBlock'
  BY <1>1 DEF DeviceInv, BufferShape, TempBlock
<1>4. MemoryOwned'
  BY <1>1, <1>2 DEF DeviceInv, MemoryOwned, LiveSlots, Held
<1>5. Stored' /\ CommandsWellFormed'
  BY <1>1, <1>2 DEF DeviceInv, Stored, CommandsWellFormed, LiveSlots, Held
<1>6. QED
  BY <1>3, <1>4, <1>5 DEF DeviceInv

LocalMoves(p, r) ==
  DOMAIN local' = Proc /\ \A q \in Proc : local'[q] = IF q = p THEN r ELSE local[q]

LEMMA LocalSet ==
  ASSUME DOMAIN local = Proc, NEW p \in Proc, NEW r, local' = [local EXCEPT ![p] = r]
  PROVE  LocalMoves(p, r)
BY DEF LocalMoves

\* A step of p moves it to l and gives it the locals r; nobody else moves, so
\* the writers keep what they know of their own buffers.
LEMMA CallStep ==
  ASSUME TypeOK, AtChunk, NEW p \in Proc, NEW l \in Label, NEW r,
         pc' = [pc EXCEPT ![p] = l], LocalMoves(p, r),
         DOMAIN r = DOMAIN NoLocal,
         l \in Writing => r.buf \in Seq(Byte) /\ r.off \in Nat,
         l \in {"w_cmd", "w_tail"} \cup CommitLabels =>
           /\ r.buf = local[p].buf /\ r.off = local[p].off
           /\ MoreToWrite(p) /\ (Terminators(p) = {} <=> l = "w_tail")
  PROVE  /\ pc' \in [Proc -> Label] /\ DOMAIN local' = Proc
         /\ \A q \in Proc : DOMAIN local'[q] = DOMAIN NoLocal
         /\ \A q \in Proc : pc'[q] \in Writing =>
              local'[q].buf \in Seq(Byte) /\ local'[q].off \in Nat
         /\ AtChunk'
<1>1. pc \in [Proc -> Label] /\ DOMAIN local = Proc
  BY DEF TypeOK
<1>2. /\ pc' \in [Proc -> Label] /\ DOMAIN local' = Proc
      /\ \A q \in Proc : local'[q] = IF q = p THEN r ELSE local[q]
  BY <1>1 DEF LocalMoves
<1>3. \A q \in Proc : DOMAIN local'[q] = DOMAIN NoLocal
  BY <1>2 DEF TypeOK
<1>4. \A q \in Proc : pc'[q] \in Writing =>
        local'[q].buf \in Seq(Byte) /\ local'[q].off \in Nat
  BY <1>1, <1>2 DEF TypeOK
<1>5. AtChunk'
  <2>1. ASSUME NEW q \in Proc, q # p
        PROVE  /\ pc'[q] = pc[q] /\ Terminators(q)' = Terminators(q)
               /\ MoreToWrite(q)' <=> MoreToWrite(q)
    BY <1>1, <1>2, <2>1 DEF Terminators, MoreToWrite
  <2>2. pc'[p] = l /\ local'[p] = r
    BY <1>1, <1>2
  <2>3. ASSUME l \in {"w_cmd", "w_tail"} \cup CommitLabels
        PROVE  Terminators(p)' = Terminators(p) /\ (MoreToWrite(p)' <=> MoreToWrite(p))
    BY <2>2, <2>3 DEF Terminators, MoreToWrite
  <2>4. QED
    BY <2>1, <2>2, <2>3 DEF AtChunk, CommitLabels
<1>6. QED
  BY <1>2, <1>3, <1>4, <1>5

\* Outside the pieces of a write that are done under the lock, a step of a
\* call: it moves p to l, gives it the locals r and does not touch the device.
LEMMA QuietStep ==
  ASSUME IInv, NEW p \in Proc, NEW l \in Label, NEW r,
         UNCHANGED device, opened' \subseteq Proc,
         pc' = [pc EXCEPT ![p] = l], LocalMoves(p, r),
         \/ lock = NoProc /\ lock' = p
         \/ lock' = NoProc /\ pc[p] \in Critical /\ l \notin Critical
         \/ lock' = lock /\ (l \in Critical => pc[p] \in Critical),
         pc[p] \notin CommitLabels, l \notin CommitLabels \cup {"w_cmd", "w_tail"},
         DOMAIN r = DOMAIN NoLocal,
         l = "w_scan" => r.buf \in Seq(Byte) /\ r.off \in Nat
  PROVE  IInv'
<1>1. TypeOK /\ MutualExclusion /\ AtChunk /\ DeviceInv
  BY DEF IInv
<1>2. pc \in [Proc -> Label] /\ DOMAIN local = Proc
  BY <1>1 DEF TypeOK
<1>3. /\ pc' \in [Proc -> Label] /\ DOMAIN local' = Proc
      /\ \A q \in Proc : DOMAIN local'[q] = DOMAIN NoLocal
      /\ \A q \in Proc : pc'[q] \in Writing =>
           local'[q].buf \in Seq(Byte) /\ local'[q].off \in Nat
      /\ AtChunk'
  BY <1>1, CallStep DEF Writing, CommitLabels
<1>4. TypeOK'
  <2>1. lock' \in Proc \cup {NoProc}
    BY <1>1 DEF TypeOK
  <2>2. /\ buffer' = buffer /\ temporary_command_buffer' = temporary_command_buffer
        /\ current_temporary_buffer_size' = current_temporary_buffer_size
        /\ allocated' = allocated /\ mem' = mem
    BY DEF device
  <2>3. QED
    BY <1>1, <1>3, <2>1, <2>2 DEF TypeOK
<1>5. MutualExclusion'
  BY <1>1, <1>2, LockTaken, LockReleased, LockKept
<1>6. DeviceInv'
  BY <1>1, <1>2, PhaseKept, DeviceKept
<1>7. QED
  BY <1>3, <1>4, <1>5, <1>6 DEF IInv

-----------------------------------------------------------------------------
(***************************************************************************)
(* The temporary buffer grows: what is appended to bytes without a         *)
(* terminator keeps them so, or makes a command of them.                   *)
(***************************************************************************)
LEMMA AppendedBytes ==
  ASSUME NEW s \in Seq(Byte), NEW t \in Seq(Byte), NoTerminator(s)
  PROVE  /\ s \o t \in Seq(Byte) /\ Len(s \o t) = Len(s) + Len(t)
         /\ NoTerminator(t) => NoTerminator(s \o t)
         /\ Terminated(t) => Terminated(s \o t)
<1>1. Len(s) \in Nat /\ Len(t) \in Nat
  BY LenProperties
<1>2. /\ s \o t \in Seq(Byte) /\ Len(s \o t) = Len(s) + Len(t)
      /\ \A i \in 1 .. Len(s) + Len(t) :
           (s \o t)[i] = IF i <= Len(s) THEN s[i] ELSE t[i - Len(s)]
  BY ConcatProperties
<1> DEFINE u == s \o t
<1>3. /\ Len(u) = Len(s) + Len(t)
      /\ \A i \in 1 .. Len(s) + Len(t) : u[i] = IF i <= Len(s) THEN s[i] ELSE t[i - Len(s)]
  BY <1>2
<1> HIDE DEF u
<1>4. ASSUME NEW i \in 1 .. Len(u)
      PROVE  \/ i \in 1 .. Len(s) /\ u[i] # NL /\ i < Len(u) + 1
             \/ i - Len(s) \in 1 .. Len(t) /\ u[i] = t[i - Len(s)]
  BY <1>1, <1>3 DEF NoTerminator
<1>5. ASSUME NoTerminator(t)
      PROVE  NoTerminator(u)
  BY <1>4, <1>5 DEF NoTerminator
<1>6. ASSUME Terminated(t)
      PROVE  Terminated(u)
  <2>1. Len(t) > 0 /\ \A j \in 1 .. Len(t) : t[j] = NL <=> j = Len(t)
    BY <1>6 DEF Terminated
  <2>2. Len(u) > 0
    BY <2>1, <1>1, <1>3
  <2>3. ASSUME NEW i \in 1 .. Len(u)
        PROVE  u[i] = NL <=> i = Len(u)
    <3>1. CASE i \in 1 .. Len(s) /\ u[i] # NL
      BY <3>1, <2>1, <1>1, <1>3
    <3>2. CASE i - Len(s) \in 1 .. Len(t) /\ u[i] = t[i - Len(s)]
      <4>1. u[i] = NL <=> i - Len(s) = Len(t)
        BY <3>2, <2>1
      <4>2. QED  BY <4>1, <1>1, <1>3
    <3>3. QED  BY <3>1, <3>2, <1>4
  <2>4. QED  BY <2>2, <2>3 DEF Terminated
<1>7. QED
  BY <1>2, <1>5, <1>6 DEF u

\* What krealloc keeps is all there is in the temporary buffer.
LEMMA GrownProperties ==
  ASSUME TypeOK, TempBlock, ~Committing, NEW more \in Seq(Byte)
  PROVE  /\ Grown(more) \in Seq(Byte)
         /\ Len(Grown(more)) = current_temporary_buffer_size + Len(more)
         /\ NoTerminator(more) => NoTerminator(Grown(more))
         /\ Terminated(more) => Terminated(Grown(more))
<1> DEFINE tmp  == temporary_command_buffer
           kept == IF tmp = NullPtr THEN << >>
                   ELSE SubSeq(mem[tmp].data, 1, current_temporary_buffer_size)
<1>1. /\ kept \in Seq(Byte) /\ Len(kept) = current_temporary_buffer_size
      /\ NoTerminator(kept)
  <2>1. CASE tmp = NullPtr
    BY <2>1, EmptySeq DEF TempBlock, NoTerminator
  <2>2. CASE tmp # NullPtr
    <3>1. mem[tmp].data \in Seq(Byte)
      BY <2>2 DEF TypeOK
    <3>2. Len(mem[tmp].data) = current_temporary_buffer_size /\ NoTerminator(mem[tmp].data)
      BY <2>2 DEF TempBlock
    <3>3. kept = mem[tmp].data
      BY <2>2, <3>1, <3>2, SubSeqFull
    <3>4. QED  BY <3>1, <3>2, <3>3
  <2>3. QED  BY <2>1, <2>2
<1>2. Grown(more) = kept \o more
  BY DEF Grown
<1> HIDE DEF kept
<1>3. QED
  BY <1>1, <1>2, AppendedBytes

\* krealloc and the copy that follows it: the temporary buffer is at q now,
\* with room for n bytes, and holds the bytes more behind those it had.
LEMMA GrowStep ==
  ASSUME IInv, NEW p \in Proc, pc[p] \in {"w_cmd", "w_tail"},
         NEW l \in Label \ {"w_store", "w_reset"}, pc' = [pc EXCEPT ![p] = l],
         NEW q \in Ptr, NEW n \in Nat, NEW more \in Seq(Byte),
         krealloc(n, q), SetBlock(n, q, Grown(more)), buffer' = buffer,
         current_temporary_buffer_size' = current_temporary_buffer_size + Len(more),
         current_temporary_buffer_size + Len(more) <= n,
         IF l = "w_evict" THEN Terminated(more) ELSE NoTerminator(more)
  PROVE  /\ DeviceInv'
         /\ temporary_command_buffer' \in Ptr
         /\ current_temporary_buffer_size' \in Nat
         /\ allocated' \subseteq Ptr
         /\ mem' \in [Ptr -> [size : Nat, data : Seq(Byte)]]
<1> DEFINE tmp == temporary_command_buffer
           g   == Grown(more)
<1>1. /\ TypeOK /\ MutualExclusion /\ BufferShape /\ TempBlock /\ MemoryOwned
      /\ Stored /\ CommandsWellFormed /\ pc \in [Proc -> Label]
  BY DEF IInv, DeviceInv, TypeOK
<1>2. /\ ~Storing /\ ~Resetting /\ ~Committing
      /\ ~Storing' /\ ~Resetting' /\ (Committing' <=> l = "w_evict")
  <2>1. \A o \in Proc : pc[o] \notin CommitLabels
    BY <1>1, Alone DEF Critical, CommitLabels
  <2>2. \A o \in Proc : pc'[o] = IF o = p THEN l ELSE pc[o]
    BY <1>1
  <2>3. QED
    BY <2>1, <2>2 DEF Storing, Resetting, Committing, CommitLabels
<1>3. /\ g \in Seq(Byte) /\ Len(g) = current_temporary_buffer_size'
      /\ NoTerminator(more) => NoTerminator(g)
      /\ Terminated(more) => Terminated(g)
  BY <1>1, <1>2, GrownProperties
<1>4. /\ temporary_command_buffer' = q
      /\ q \notin allocated \/ q = tmp
      /\ allocated' = (allocated \ {tmp}) \cup {q}
  BY DEF krealloc
<1> HIDE DEF g
<1>5. /\ mem' = [b \in Ptr |-> IF b = q THEN [size |-> n, data |-> g]
                               ELSE IF b = tmp THEN NoBlock ELSE mem[b]]
  BY DEF SetBlock, g
<1>6. NoBlock \in [size : Nat, data : Seq(Byte)]
  BY EmptySeq DEF NoBlock
<1>7. /\ temporary_command_buffer' \in Ptr /\ allocated' \subseteq Ptr
      /\ current_temporary_buffer_size' \in Nat
      /\ mem' \in [Ptr -> [size : Nat, data : Seq(Byte)]]
  BY <1>1, <1>3, <1>4, <1>5, <1>6, LenProperties DEF TypeOK
<1>8. /\ LiveSlots' = LiveSlots /\ LiveSlots \subseteq Slots
      /\ \A i \in Slots : Held(i)' = Held(i)
  BY <1>2 DEF LiveSlots, Vacated, Held
<1>9. \A i \in LiveSlots : Held(i) \in allocated /\ Held(i) # tmp /\ Held(i) # q
  BY <1>1, <1>2, <1>4, NullPtrAssumption DEF MemoryOwned, LiveSlots, Held
<1>10. BufferShape'
  BY <1>1, <1>2 DEF BufferShape
<1>11. TempBlock'
  <2>1. q # NullPtr /\ mem'[q] = [size |-> n, data |-> g]
    BY <1>5, NullPtrAssumption
  <2>2. mem'[q].data = g /\ mem'[q].size = n
    BY <2>1
  <2>3. Len(g) <= n
    BY <1>3
  <2>4. IF Committing' THEN Terminated(g) ELSE NoTerminator(g)
    BY <1>2, <1>3
  <2>5. Terminated(mem'[q].data) = Terminated(g) /\ NoTerminator(mem'[q].data) = NoTerminator(g)
    BY <2>2
  <2>6. QED
    BY <1>3, <1>4, <2>1, <2>2, <2>3, <2>4 DEF TempBlock
<1>12. MemoryOwned'
  <2>1. \A i \in LiveSlots : Held(i) \in allocated'
    BY <1>4, <1>9
  <2>2. allocated' \subseteq {Held(i) : i \in LiveSlots} \cup {q}
    BY <1>1, <1>4 DEF MemoryOwned
  <2>3. \A i, j \in LiveSlots : Held(i) = Held(j) => i = j
    BY <1>1 DEF MemoryOwned
  <2>4. q \in allocated'
    BY <1>4
  <2>5. /\ \A i \in LiveSlots : Held(i)' \in allocated'
        /\ \A i, j \in LiveSlots : Held(i)' = Held(j)' => i = j
        /\ \A i \in LiveSlots : Held(i)' # q
        /\ allocated' \subseteq {Held(i)' : i \in LiveSlots} \cup {q}
    BY <1>8, <1>9, <2>1, <2>2, <2>3
  <2>6. QED
    BY <1>4, <1>8, <2>4, <2>5 DEF MemoryOwned
<1>13. CommandsWellFormed'
  <2>1. ASSUME NEW i \in LiveSlots
        PROVE  mem'[Held(i)] = mem[Held(i)]
    <3>1. Held(i) \in Ptr
      BY <1>1, <1>9 DEF TypeOK
    <3>2. QED  BY <3>1, <1>5, <1>9
  <2>2. \A i \in LiveSlots : mem'[Held(i)'] = mem[Held(i)] /\ buffer'.entry[i] = buffer.entry[i]
    BY <2>1, <1>8
  <2>3. QED
    BY <1>1, <1>8, <2>2 DEF CommandsWellFormed
<1>14. Stored'
  BY <1>2 DEF Stored
<1>15. QED
  BY <1>7, <1>10, <1>11, <1>12, <1>13, <1>14 DEF DeviceInv

-----------------------------------------------------------------------------
(***************************************************************************)
(* The two steps of the addition and the reset that follows it.            *)
(***************************************************************************)
LEMMA EvictStep ==
  ASSUME IInv, NEW p \in Proc, WriteEvict(p)
  PROVE  DeviceInv' /\ buffer' \in Buffer /\ allocated' \subseteq Ptr
         /\ mem' \in [Ptr -> [size : Nat, data : Seq(Byte)]]
<1> DEFINE tmp == temporary_command_buffer
           out == Evicted(buffer)
<1>1. /\ TypeOK /\ MutualExclusion /\ BufferShape /\ TempBlock /\ MemoryOwned
      /\ Stored /\ CommandsWellFormed /\ pc \in [Proc -> Label] /\ buffer \in Buffer
  BY DEF IInv, DeviceInv, TypeOK
<1>2. /\ pc[p] = "w_evict" /\ pc' = [pc EXCEPT ![p] = "w_store"]
      /\ allocated' = allocated \ {out}
      /\ mem' = [b \in Ptr |-> IF b = out THEN NoBlock ELSE mem[b]]
      /\ buffer' = Evict(buffer) /\ temporary_command_buffer' = tmp
      /\ current_temporary_buffer_size' = current_temporary_buffer_size
  BY DEF WriteEvict, Goto
<1>3. /\ ~Storing /\ ~Resetting /\ Committing
      /\ Storing' /\ ~Resetting' /\ Committing'
  <2>1. \A o \in Proc \ {p} : pc[o] \notin CommitLabels
    BY <1>1, <1>2, Alone DEF Critical, CommitLabels
  <2>2. \A o \in Proc : pc'[o] = IF o = p THEN "w_store" ELSE pc[o]
    BY <1>1, <1>2
  <2>3. QED
    BY <1>2, <2>1, <2>2 DEF Storing, Resetting, Committing, CommitLabels
<1>4. /\ Shape(buffer) /\ buffer' \in Buffer
      /\ buffer'.entry = buffer.entry /\ buffer'.in_offs = buffer.in_offs
      /\ buffer'.full = buffer.full /\ Room(buffer')
  BY <1>1, <1>2, <1>3, EvictMakesRoom DEF BufferShape
<1>5. buffer.in_offs \in Slots /\ (buffer.full => out = Held(buffer.in_offs))
      /\ (~buffer.full => out = NullPtr)
  BY <1>1, <1>4 DEF Buffer, Evicted, Shape, Held
<1>6. \A i \in Slots : Held(i)' = Held(i) /\ buffer'.entry[i] = buffer.entry[i]
  BY <1>4 DEF Held
<1>7. LiveSlots = {i \in Slots : Held(i) # NullPtr}
  BY <1>3 DEF LiveSlots, Vacated, Held
<1>8. LiveSlots' = {i \in Slots : Held(i) # NullPtr /\ ~(buffer.full /\ i = buffer.in_offs)}
  BY <1>3, <1>4, <1>6 DEF LiveSlots, Vacated, Held
<1>9. /\ \A i \in LiveSlots : Held(i) \in allocated
      /\ \A i, j \in LiveSlots : Held(i) = Held(j) => i = j
      /\ tmp # NullPtr /\ tmp \in allocated
      /\ \A i \in LiveSlots : Held(i) # tmp
      /\ allocated \subseteq {Held(i) : i \in LiveSlots} \cup {tmp}
      /\ allocated \subseteq Ptr
  BY <1>1, <1>3 DEF MemoryOwned, TempBlock, TypeOK
<1> HIDE DEF out
<1>10. LiveSlots' \subseteq LiveSlots /\ \A i \in LiveSlots' : Held(i) # out
  BY <1>5, <1>7, <1>8, <1>9
<1>11. \A i \in LiveSlots : i \notin LiveSlots' => Held(i) = out
  BY <1>5, <1>7, <1>8
<1>12. tmp # out
  BY <1>5, <1>7, <1>9
<1>13. MemoryOwned'
  <2>1. \A i \in LiveSlots' : Held(i) \in allocated'
    BY <1>2, <1>9, <1>10
  <2>2. allocated' \subseteq {Held(i) : i \in LiveSlots'} \cup {tmp}
    BY <1>2, <1>9, <1>11
  <2>3. /\ \A i \in LiveSlots' : Held(i)' \in allocated' /\ Held(i)' # tmp
        /\ \A i, j \in LiveSlots' : Held(i)' = Held(j)' => i = j
        /\ allocated' \subseteq {Held(i)' : i \in LiveSlots'} \cup {tmp}
    BY <1>6, <1>7, <1>9, <1>10, <2>1, <2>2
  <2>4. tmp \in allocated'
    BY <1>2, <1>9, <1>12
  <2>5. QED
    BY <1>2, <2>3, <2>4 DEF MemoryOwned
<1>14. /\ allocated' \subseteq Ptr
       /\ mem' \in [Ptr -> [size : Nat, data : Seq(Byte)]]
  <2>1. NoBlock \in [size : Nat, data : Seq(Byte)]
    BY EmptySeq DEF NoBlock
  <2>2. QED
    BY <1>1, <1>2, <1>9, <2>1 DEF TypeOK
<1>15. TempBlock'
  <2>1. mem'[tmp] = mem[tmp]
    BY <1>2, <1>9, <1>12
  <2>2. QED
    BY <1>1, <1>2, <1>3, <1>9, <2>1 DEF TempBlock
<1>16. CommandsWellFormed'
  <2>1. \A i \in LiveSlots' : Held(i) \in Ptr /\ Held(i) # out /\ i \in LiveSlots
    BY <1>9, <1>10
  <2>2. \A i \in LiveSlots' : mem'[Held(i)'] = mem[Held(i)] /\ buffer'.entry[i] = buffer.entry[i]
    BY <1>2, <1>6, <1>7, <2>1
  <2>3. QED
    BY <1>1, <2>1, <2>2 DEF CommandsWellFormed
<1>17. BufferShape' /\ Stored'
  BY <1>3, <1>4 DEF BufferShape, Stored
<1>18. QED
  BY <1>4, <1>13, <1>14, <1>15, <1>16, <1>17 DEF DeviceInv

LEMMA StoreStep ==
  ASSUME IInv, NEW p \in Proc, WriteStore(p)
  PROVE  DeviceInv' /\ buffer' \in Buffer
<1> DEFINE tmp == temporary_command_buffer
           e   == [buffptr |-> tmp, size |-> current_temporary_buffer_size]
<1>1. /\ TypeOK /\ MutualExclusion /\ BufferShape /\ TempBlock /\ MemoryOwned
      /\ Stored /\ CommandsWellFormed /\ pc \in [Proc -> Label] /\ buffer \in Buffer
  BY DEF IInv, DeviceInv, TypeOK
<1>2. /\ pc[p] = "w_store" /\ pc' = [pc EXCEPT ![p] = "w_reset"]
      /\ buffer' = Store(buffer, e)
      /\ allocated' = allocated /\ mem' = mem /\ temporary_command_buffer' = tmp
      /\ current_temporary_buffer_size' = current_temporary_buffer_size
  BY DEF WriteStore, Goto
<1>3. /\ Storing /\ ~Resetting /\ Committing
      /\ ~Storing' /\ Resetting' /\ Committing'
  <2>1. \A o \in Proc \ {p} : pc[o] \notin CommitLabels
    BY <1>1, <1>2, Alone DEF Critical, CommitLabels
  <2>2. \A o \in Proc : pc'[o] = IF o = p THEN "w_reset" ELSE pc[o]
    BY <1>1, <1>2
  <2>3. QED
    BY <1>2, <2>1, <2>2 DEF Storing, Resetting, Committing, CommitLabels
<1>4. tmp # NullPtr /\ tmp \in allocated /\ e \in Entry
  BY <1>1, <1>3 DEF TempBlock, MemoryOwned, TypeOK, Entry
<1>5. e.buffptr = tmp /\ e.size = current_temporary_buffer_size
  OBVIOUS
<1> HIDE DEF e
<1> PICK in \in Slots : in = buffer.in_offs
  BY <1>1 DEF Buffer
<1>6. /\ Room(buffer) /\ buffer.entry \in [Slots -> Entry]
      /\ buffer' \in Buffer /\ buffer'.entry = [buffer.entry EXCEPT ![in] = e]
      /\ Shape(buffer')
  BY <1>1, <1>2, <1>3, <1>4, StoreFields, StoreTakesRoom DEF BufferShape, Buffer
<1>7. /\ \A i \in Slots \ {in} : Held(i)' = Held(i) /\ buffer'.entry[i] = buffer.entry[i]
      /\ Held(in)' = tmp /\ buffer'.entry[in] = e
  BY <1>5, <1>6 DEF Held
<1>8. in \notin LiveSlots
  <2>1. CASE buffer.full
    BY <1>3, <2>1 DEF LiveSlots, Vacated
  <2>2. CASE ~buffer.full
    <3>1. buffer.entry[in] = NoEntry
      BY <1>6, <2>2, MaxOpsAssumption DEF Room, Shape, Slots
    <3>2. QED  BY <3>1 DEF LiveSlots, NoEntry
  <2>3. QED  BY <2>1, <2>2
<1>9. LiveSlots \subseteq Slots /\ LiveSlots = {i \in Slots \ {in} : Held(i) # NullPtr}
  BY <1>8 DEF LiveSlots, Vacated, Held
<1>10. LiveSlots' = LiveSlots \cup {in}
  <2>1. LiveSlots' = {i \in Slots : Held(i)' # NullPtr}
    BY <1>3 DEF LiveSlots, Vacated, Held
  <2>2. QED
    BY <1>4, <1>6, <1>7, <1>9, <2>1
<1>11. /\ \A i \in LiveSlots : Held(i) \in allocated /\ Held(i) # tmp /\ i # in
                               /\ Held(i)' = Held(i) /\ buffer'.entry[i] = buffer.entry[i]
       /\ \A i, j \in LiveSlots : Held(i) = Held(j) => i = j
       /\ allocated \subseteq {Held(i) : i \in LiveSlots} \cup {tmp}
  BY <1>1, <1>3, <1>4, <1>7, <1>8, <1>9 DEF MemoryOwned
<1>12. MemoryOwned'
  <2>1. /\ \A i \in LiveSlots' : Held(i)' \in allocated
        /\ \A i, j \in LiveSlots' : Held(i)' = Held(j)' => i = j
    BY <1>4, <1>7, <1>10, <1>11
  <2>2. \A b \in allocated : b = tmp \/ \E i \in LiveSlots' : b = Held(i)'
    BY <1>10, <1>11
  <2>3. QED
    BY <1>2, <1>3, <1>4, <2>1, <2>2 DEF MemoryOwned
<1>13. CommandsWellFormed'
  <2>1. ASSUME NEW i \in LiveSlots
        PROVE  /\ buffer'.entry[i].size = Len(mem'[Held(i)'].data)
               /\ Len(mem'[Held(i)'].data) <= mem'[Held(i)'].size
               /\ Terminated(mem'[Held(i)'].data)
    BY <1>1, <1>2, <1>11 DEF CommandsWellFormed
  <2>2. /\ buffer'.entry[in].size = Len(mem'[Held(in)'].data)
        /\ Len(mem'[Held(in)'].data) <= mem'[Held(in)'].size
        /\ Terminated(mem'[Held(in)'].data)
    BY <1>1, <1>2, <1>3, <1>4, <1>5, <1>7 DEF TempBlock
  <2>3. QED
    BY <1>10, <2>1, <2>2 DEF CommandsWellFormed
<1>14. BufferShape' /\ TempBlock' /\ Stored'
  BY <1>1, <1>2, <1>3, <1>4, <1>6, <1>7, <1>10 DEF BufferShape, TempBlock, Stored
<1>15. QED
  BY <1>6, <1>12, <1>13, <1>14 DEF DeviceInv

LEMMA ResetStep ==
  ASSUME IInv, NEW p \in Proc, WriteReset(p)
  PROVE  DeviceInv'
<1>1. /\ TypeOK /\ MutualExclusion /\ BufferShape /\ TempBlock /\ MemoryOwned
      /\ Stored /\ CommandsWellFormed /\ pc \in [Proc -> Label]
  BY DEF IInv, DeviceInv, TypeOK
<1>2. /\ pc[p] = "w_reset" /\ pc' = [pc EXCEPT ![p] = "w_scan"]
      /\ buffer' = buffer /\ allocated' = allocated /\ mem' = mem
      /\ temporary_command_buffer' = NullPtr /\ current_temporary_buffer_size' = 0
  BY DEF WriteReset, Goto
<1>3. ~Storing /\ Resetting /\ ~Storing' /\ ~Resetting' /\ ~Committing'
  <2>1. \A o \in Proc \ {p} : pc[o] \notin CommitLabels
    BY <1>1, <1>2, Alone DEF Critical, CommitLabels
  <2>2. \A o \in Proc : pc'[o] = IF o = p THEN "w_scan" ELSE pc[o]
    BY <1>1, <1>2
  <2>3. QED
    BY <1>2, <2>1, <2>2 DEF Storing, Resetting, Committing, CommitLabels
<1>4. LiveSlots' = LiveSlots /\ \A i \in Slots : Held(i)' = Held(i)
  BY <1>2, <1>3 DEF LiveSlots, Vacated, Held
<1>5. \E i \in LiveSlots : Held(i) = temporary_command_buffer
  BY <1>1, <1>3 DEF Stored
<1>6. LiveSlots \subseteq Slots
  BY DEF LiveSlots
<1>7. MemoryOwned'
  <2>1. /\ \A i \in LiveSlots : Held(i)' \in allocated
        /\ \A i, j \in LiveSlots : Held(i)' = Held(j)' => i = j
        /\ allocated \subseteq {Held(i)' : i \in LiveSlots}
    BY <1>1, <1>4, <1>5, <1>6 DEF MemoryOwned
  <2>2. QED
    BY <1>2, <1>4, <2>1 DEF MemoryOwned
<1>8. CommandsWellFormed'
  BY <1>1, <1>2, <1>4, <1>6 DEF CommandsWellFormed
<1>9. BufferShape' /\ TempBlock' /\ Stored'
  BY <1>1, <1>2, <1>3 DEF BufferShape, TempBlock, Stored
<1>10. QED
  BY <1>7, <1>8, <1>9 DEF DeviceInv

-----------------------------------------------------------------------------
(***************************************************************************)
(* Every step keeps the invariant: one lemma for each group of actions.    *)
(***************************************************************************)
LEMMA NoLocalIsEmpty == NoLocal.buf = << >> /\ NoLocal.buf \in Seq(Byte) /\ NoLocal.off = 0
BY EmptySeq DEF NoLocal

LEMMA CallerKeepsInvariant ==
  ASSUME IInv, NEW p \in Proc, Caller(p)
  PROVE  IInv'
<1>1. DOMAIN local = Proc /\ pc \in [Proc -> Label] /\ opened \subseteq Proc
  BY DEF IInv, TypeOK
<1>2. CASE aesd_open(p) \/ aesd_release(p) \/ IoctlRefused(p)
  <2>1. /\ UNCHANGED <<device, lock, pc, local>> /\ opened' \subseteq Proc
    BY <1>1, <1>2 DEF aesd_open, aesd_release, IoctlRefused
  <2>2. (Storing' <=> Storing) /\ (Resetting' <=> Resetting) /\ (Committing' <=> Committing)
    BY <2>1 DEF Storing, Resetting, Committing
  <2>3. DeviceInv'
    BY <2>1, <2>2, DeviceKept DEF IInv
  <2>4. TypeOK' /\ MutualExclusion' /\ AtChunk'
    BY <2>1 DEF IInv, TypeOK, device, MutualExclusion, AtChunk, MoreToWrite, Terminators
  <2>5. QED
    BY <2>3, <2>4 DEF IInv
<1>3. CASE WriteCall(p)
  <2>1. PICK b \in WriteBufs : local' = [local EXCEPT ![p] = [NoLocal EXCEPT !.buf = b]]
    BY <1>3 DEF WriteCall
  <2> DEFINE r == [NoLocal EXCEPT !.buf = b]
  <2>2. DOMAIN r = DOMAIN NoLocal /\ r.buf \in Seq(Byte) /\ r.off \in Nat
    BY DriverAssumption DEF NoLocal
  <2> HIDE DEF r
  <2>3. /\ pc[p] = "idle" /\ pc' = [pc EXCEPT ![p] = "w_scan"]
        /\ UNCHANGED <<device, lock, opened>> /\ local' = [local EXCEPT ![p] = r]
    BY <1>3, <2>1 DEF WriteCall, Call, Goto, r
  <2>4. QED
    BY <1>1, <2>2, <2>3, LocalSet, QuietStep DEF Label, Critical, CommitLabels
<1>4. CASE ReadCall(p)
  <2>1. PICK c \in ReadCounts :
          local' = [local EXCEPT ![p] = [NoLocal EXCEPT !.count = c, !.pos = f_pos[p]]]
    BY <1>4 DEF ReadCall
  <2> DEFINE r == [NoLocal EXCEPT !.count = c, !.pos = f_pos[p]]
             l == IF PrintSlots > 0 THEN "r_print" ELSE "read"
  <2>2. DOMAIN r = DOMAIN NoLocal
    BY DEF NoLocal
  <2> HIDE DEF r
  <2>3. /\ pc[p] = "idle" /\ pc' = [pc EXCEPT ![p] = l]
        /\ UNCHANGED <<device, lock, opened>> /\ local' = [local EXCEPT ![p] = r]
    BY <1>4, <2>1 DEF ReadCall, Call, Goto, r
  <2>4. l \in {"r_print", "read"}
    OBVIOUS
  <2> HIDE DEF l
  <2>5. QED
    BY <1>1, <2>2, <2>3, <2>4, LocalSet, QuietStep DEF Label, Critical, CommitLabels
<1>5. CASE SeekCall(p)
  <2>1. PICK l \in {"llseek", "ioctl"} :
          /\ pc[p] = "idle" /\ pc' = [pc EXCEPT ![p] = l]
          /\ UNCHANGED <<device, lock, opened, local>>
    BY <1>5 DEF SeekCall, Call, Goto
  <2>2. LocalMoves(p, local[p]) /\ DOMAIN local[p] = DOMAIN NoLocal
    BY <1>1, <2>1 DEF IInv, TypeOK, LocalMoves
  <2>3. QED
    BY <1>1, <2>1, <2>2, QuietStep DEF Label, Critical, CommitLabels
<1>6. QED
  BY <1>2, <1>3, <1>4, <1>5 DEF Caller

\* A call that returns, with the lock given back if it had it.
LEMMA ReturnStep ==
  ASSUME IInv, NEW p \in Proc, NEW e, Return(p, e), UNCHANGED <<device, opened>>,
         pc[p] \notin CommitLabels,
         \/ lock = NoProc /\ lock' = p
         \/ lock' = NoProc /\ pc[p] \in Critical
         \/ lock' = lock
  PROVE  IInv'
<1>1. pc' = [pc EXCEPT ![p] = "idle"] /\ local' = [local EXCEPT ![p] = NoLocal]
  BY DEF Return, Goto
<1>2. opened' \subseteq Proc /\ DOMAIN local = Proc
  BY DEF IInv, TypeOK
<1>3. QED
  BY <1>1, <1>2, LocalSet, QuietStep DEF Label, Critical, CommitLabels

LEMMA PrintKeepsInvariant ==
  ASSUME IInv, NEW p \in Proc, DebugPrint(p)
  PROVE  IInv'
<1>1. /\ DOMAIN local = Proc /\ pc \in [Proc -> Label] /\ opened \subseteq Proc
      /\ DOMAIN local[p] = DOMAIN NoLocal
  BY DEF IInv, TypeOK
<1>2. UNCHANGED <<device, lock, opened>> /\ pc[p] \in {"r_print", "w_print", "r_copy", "w_copy"}
  BY DEF DebugPrint, PrintFetch, PrintCopy
<1>3. CASE \E e : Return(p, e)
  BY <1>2, <1>3, ReturnStep DEF CommitLabels
<1>4. ASSUME NEW l \in {"r_print", "w_print", "r_copy", "w_copy", "read"}, NEW r,
             pc' = [pc EXCEPT ![p] = l], local' = [local EXCEPT ![p] = r],
             DOMAIN r = DOMAIN NoLocal
      PROVE  IInv'
  BY <1>1, <1>2, <1>4, LocalSet, QuietStep DEF Label, Critical, CommitLabels
<1>5. CASE PrintFetch(p) /\ local[p].slot < PrintSlots
  <2> DEFINE l == IF pc[p] = "r_print" THEN "r_copy" ELSE "w_copy"
             r == [local[p] EXCEPT !.ptr = buffer.entry[local[p].slot].buffptr]
  <2>1. /\ l \in {"r_copy", "w_copy"} /\ DOMAIN r = DOMAIN local[p]
        /\ pc' = [pc EXCEPT ![p] = l] /\ local' = [local EXCEPT ![p] = r]
    BY <1>5 DEF PrintFetch, Goto
  <2> HIDE DEF l, r
  <2>2. QED  BY <2>1, <1>1, <1>4
<1>6. CASE PrintFetch(p) /\ ~(local[p].slot < PrintSlots)
  <2>1. AfterPrint(p)
    BY <1>6 DEF PrintFetch
  <2>2. CASE pc[p] \in {"r_print", "r_copy"}
    <3> DEFINE r == [local[p] EXCEPT !.slot = 0, !.ptr = NullPtr]
    <3>1. /\ DOMAIN r = DOMAIN local[p]
          /\ pc' = [pc EXCEPT ![p] = "read"] /\ local' = [local EXCEPT ![p] = r]
      BY <2>1, <2>2 DEF AfterPrint, Goto
    <3> HIDE DEF r
    <3>2. QED  BY <3>1, <1>1, <1>4
  <2>3. CASE pc[p] \notin {"r_print", "r_copy"}
    BY <2>1, <2>3, <1>3 DEF AfterPrint
  <2>4. QED  BY <2>2, <2>3
<1>7. CASE PrintCopy(p)
  <2> DEFINE l == IF pc[p] = "r_copy" THEN "r_print" ELSE "w_print"
             r == [local[p] EXCEPT !.slot = @ + 1, !.ptr = NullPtr]
  <2>1. /\ l \in {"r_print", "w_print"} /\ DOMAIN r = DOMAIN local[p]
        /\ pc' = [pc EXCEPT ![p] = l] /\ local' = [local EXCEPT ![p] = r]
    BY <1>7 DEF PrintCopy, Goto
  <2> HIDE DEF l, r
  <2>2. QED  BY <2>1, <1>1, <1>4
<1>8. QED
  BY <1>5, <1>6, <1>7 DEF DebugPrint

LEMMA ReadKeepsInvariant ==
  ASSUME IInv, NEW p \in Proc, Read(p)
  PROVE  IInv'
<1>1. /\ DOMAIN local = Proc /\ pc \in [Proc -> Label] /\ opened \subseteq Proc
      /\ DOMAIN local[p] = DOMAIN NoLocal
  BY DEF IInv, TypeOK
<1>2. CASE ReadLock(p)
  <2> DEFINE r == [local[p] EXCEPT !.count = num_bytes_to_read(p)]
  <2>1. /\ DOMAIN r = DOMAIN local[p] /\ pc[p] = "read" /\ lock = NoProc /\ lock' = p
        /\ pc' = [pc EXCEPT ![p] = "r_loop"] /\ local' = [local EXCEPT ![p] = r]
        /\ UNCHANGED <<device, opened>>
    BY <1>2 DEF ReadLock, Acquire, Goto
  <2> HIDE DEF r
  <2>2. QED
    BY <1>1, <2>1, LocalSet, QuietStep DEF Label, Critical, CommitLabels
<1>3. CASE ReadInterrupted(p)
  BY <1>3, ReturnStep DEF ReadInterrupted, CommitLabels
<1>4. CASE ReadTransfer(p)
  <2> DEFINE r == [local[p] EXCEPT !.buf = @ \o Transfer(p), !.pos = @ + Len(Transfer(p))]
  <2>1. /\ DOMAIN r = DOMAIN local[p] /\ pc[p] = "r_loop"
        /\ local' = [local EXCEPT ![p] = r]
        /\ UNCHANGED <<device, lock, opened, pc>>
    BY <1>4 DEF ReadTransfer
  <2> HIDE DEF r
  <2>2. pc' = [pc EXCEPT ![p] = "r_loop"]
    BY <1>1, <2>1
  <2>3. QED
    BY <1>1, <2>1, <2>2, LocalSet, QuietStep DEF Label, Critical, CommitLabels
<1>5. CASE ReadFault(p)
  BY <1>5, ReturnStep DEF ReadFault, Release, CommitLabels, Critical
<1>6. CASE ReadReturn(p)
  BY <1>6, ReturnStep DEF ReadReturn, Release, CommitLabels, Critical
<1>7. QED
  BY <1>2, <1>3, <1>4, <1>5, <1>6 DEF Read

LEMMA SeekKeepsInvariant ==
  ASSUME IInv, NEW p \in Proc, Seek(p)
  PROVE  IInv'
<1>1. CASE SeekInterrupted(p)
  BY <1>1, ReturnStep DEF SeekInterrupted, CommitLabels
<1>2. CASE aesd_llseek(p)
  <2>1. pc[p] = "llseek" /\ lock = NoProc /\ UNCHANGED <<device, opened>>
    BY <1>2 DEF aesd_llseek
  <2>2. \E e : Return(p, e) /\ (lock' = lock \/ lock' = p)
    BY <1>2 DEF aesd_llseek
  <2>3. QED
    BY <2>1, <2>2, ReturnStep DEF CommitLabels
<1>3. CASE aesd_unlocked_ioctl(p)
  <2>1. pc[p] = "ioctl" /\ UNCHANGED <<device, lock, opened>>
    BY <1>3 DEF aesd_unlocked_ioctl
  <2>2. \E e : Return(p, e)
    BY <1>3 DEF aesd_unlocked_ioctl
  <2>3. QED
    BY <2>1, <2>2, ReturnStep DEF CommitLabels
<1>4. QED
  BY <1>1, <1>2, <1>3 DEF Seek

\* The steps of a write that change the device, once their effect on it is
\* known: nothing else of the invariant is at stake but the writer's own part.
LEMMA WriterStep ==
  ASSUME IInv, NEW p \in Proc, NEW l \in Label, NEW r,
         pc' = [pc EXCEPT ![p] = l], LocalMoves(p, r), opened' = opened,
         DOMAIN r = DOMAIN NoLocal,
         l \in Writing => r.buf \in Seq(Byte) /\ r.off \in Nat,
         l \in CommitLabels => r.buf = local[p].buf /\ r.off = local[p].off /\ pc[p] # "w_tail",
         l \in CommitLabels \/ l \in {"w_scan", "idle"},
         pc[p] \in {"w_cmd", "w_tail"} \cup CommitLabels,
         IF l \in Critical THEN lock' = lock ELSE lock' = NoProc,
         DeviceInv', buffer' \in Buffer, temporary_command_buffer' \in Ptr \cup {NullPtr},
         current_temporary_buffer_size' \in Nat, allocated' \subseteq Ptr,
         mem' \in [Ptr -> [size : Nat, data : Seq(Byte)]]
  PROVE  IInv'
<1>1. TypeOK /\ MutualExclusion /\ AtChunk /\ pc \in [Proc -> Label]
      /\ lock \in Proc \cup {NoProc} /\ opened \subseteq Proc
  BY DEF IInv, TypeOK
<1>2. l \in {"w_cmd", "w_tail"} \cup CommitLabels =>
        /\ r.buf = local[p].buf /\ r.off = local[p].off
        /\ MoreToWrite(p) /\ (Terminators(p) = {} <=> l = "w_tail")
  BY <1>1 DEF AtChunk, CommitLabels
<1>3. /\ pc' \in [Proc -> Label] /\ DOMAIN local' = Proc
      /\ \A q \in Proc : DOMAIN local'[q] = DOMAIN NoLocal
      /\ \A q \in Proc : pc'[q] \in Writing =>
           local'[q].buf \in Seq(Byte) /\ local'[q].off \in Nat
      /\ AtChunk'
  BY <1>1, <1>2, CallStep
<1>4. TypeOK'
  BY <1>1, <1>3 DEF TypeOK
<1>5. MutualExclusion'
  <2>1. pc[p] \in Critical
    BY DEF Critical, CommitLabels
  <2>2. CASE l \in Critical
    BY <1>1, <2>1, <2>2, LockKept
  <2>3. CASE l \notin Critical
    BY <1>1, <2>1, <2>3, LockReleased
  <2>4. QED  BY <2>2, <2>3
<1>6. QED
  BY <1>3, <1>4, <1>5 DEF IInv

LEMMA WriteKeepsInvariant ==
  ASSUME IInv, NEW p \in Proc, Write(p)
  PROVE  IInv'
<1>1. /\ TypeOK /\ AtChunk /\ MutualExclusion /\ pc \in [Proc -> Label] /\ DOMAIN local = Proc
      /\ DOMAIN local[p] = DOMAIN NoLocal /\ opened \subseteq Proc
      /\ buffer \in Buffer /\ temporary_command_buffer \in Ptr \cup {NullPtr}
      /\ current_temporary_buffer_size \in Nat /\ allocated \subseteq Ptr
      /\ mem \in [Ptr -> [size : Nat, data : Seq(Byte)]]
      /\ pc[p] \in Writing => local[p].buf \in Seq(Byte) /\ local[p].off \in Nat
  BY DEF IInv, TypeOK
<1>3. local' = local => LocalMoves(p, local[p])
  BY <1>1 DEF LocalMoves
\* What a writer with the lock knows of its next chunk.
<1>4. ASSUME pc[p] \in {"w_cmd", "w_tail"} \cup CommitLabels
      PROVE  /\ Idx(p) \in Nat /\ Chunk(p) \in Seq(Byte) /\ Len(Chunk(p)) \in Nat
             /\ pc[p] = "w_tail" => NoTerminator(Chunk(p))
             /\ pc[p] # "w_tail" => Terminated(Chunk(p))
             /\ NewSize(p) \in Nat
             /\ NewSize(p) = current_temporary_buffer_size + Len(Chunk(p))
  <2>1. pc[p] \in Writing
    BY <1>4 DEF Writing, CommitLabels
  <2>2. MoreToWrite(p) /\ (Terminators(p) = {} <=> pc[p] = "w_tail")
    BY <1>1, <1>4 DEF AtChunk, CommitLabels
  <2>3. QED
    BY <1>1, <2>1, <2>2, ChunkProperties DEF NewSize
<1>5. CASE WriteLock(p)
  <2> DEFINE l == IF Terminators(p) = {} THEN "w_tail" ELSE "w_cmd"
  <2>1. /\ pc[p] = "w_scan" /\ MoreToWrite(p) /\ lock = NoProc /\ lock' = p
        /\ pc' = [pc EXCEPT ![p] = l] /\ l \in {"w_cmd", "w_tail"}
        /\ (Terminators(p) = {} <=> l = "w_tail")
        /\ UNCHANGED <<device, opened, local>>
    BY <1>5 DEF WriteLock, Acquire, Goto
  <2> HIDE DEF l
  <2>2. /\ pc' \in [Proc -> Label] /\ DOMAIN local' = Proc
        /\ \A q \in Proc : DOMAIN local'[q] = DOMAIN NoLocal
        /\ \A q \in Proc : pc'[q] \in Writing =>
             local'[q].buf \in Seq(Byte) /\ local'[q].off \in Nat
        /\ AtChunk'
    BY <1>1, <1>3, <2>1, CallStep DEF Label, Writing, CommitLabels
  <2>3. TypeOK'
    BY <1>1, <2>1, <2>2 DEF TypeOK, device
  <2>4. MutualExclusion'
    BY <1>1, <2>1, LockTaken
  <2>5. DeviceInv'
    BY <1>1, <2>1, PhaseKept, DeviceKept DEF CommitLabels, IInv
  <2>6. QED
    BY <2>2, <2>3, <2>4, <2>5 DEF IInv
<1>6. CASE WriteInterrupted(p)
  BY <1>6, ReturnStep DEF WriteInterrupted, CommitLabels
<1>7. CASE WriteNoMem(p)
  BY <1>7, ReturnStep DEF WriteNoMem, Release, CommitLabels, Critical
<1>8. CASE WriteReturn(p)
  <2>1. CASE PrintSlots > 0
    <3>1. /\ pc[p] = "w_scan" /\ pc' = [pc EXCEPT ![p] = "w_print"]
          /\ UNCHANGED <<device, lock, opened, local>>
      BY <1>8, <2>1 DEF WriteReturn, Goto
    <3>2. QED
      BY <1>1, <1>3, <3>1, QuietStep DEF Label, Critical, CommitLabels
  <2>2. CASE ~(PrintSlots > 0)
    BY <1>8, <2>2, ReturnStep DEF WriteReturn, CommitLabels
  <2>3. QED  BY <2>1, <2>2
<1>9. CASE WriteAppend(p)
  <2> DEFINE l == IF pc[p] = "w_cmd" THEN "w_evict" ELSE "w_scan"
             r == IF pc[p] = "w_cmd" THEN local[p]
                  ELSE [local[p] EXCEPT !.off = Len(local[p].buf)]
  <2>1. PICK q \in Ptr : /\ krealloc(NewSize(p), q)
                         /\ SetBlock(NewSize(p), q, Grown(Chunk(p)))
    BY <1>9 DEF WriteAppend
  <2>2. /\ pc[p] \in {"w_cmd", "w_tail"} /\ pc' = [pc EXCEPT ![p] = l]
        /\ current_temporary_buffer_size' = NewSize(p)
        /\ buffer' = buffer /\ opened' = opened
        /\ IF l \in Critical THEN lock' = lock ELSE lock' = NoProc
    BY <1>9 DEF WriteAppend, Goto, Release, Critical
  <2>3. LocalMoves(p, r)
    <3>1. CASE pc[p] = "w_cmd"
      BY <1>3, <1>9, <3>1 DEF WriteAppend
    <3>2. CASE pc[p] # "w_cmd"
      BY <1>1, <1>9, <3>2, LocalSet DEF WriteAppend
    <3>3. QED  BY <3>1, <3>2
  <2>4. /\ DOMAIN r = DOMAIN NoLocal /\ r.buf = local[p].buf
        /\ local[p].buf \in Seq(Byte) /\ local[p].off \in Nat /\ r.off \in Nat
        /\ l = "w_evict" => r.off = local[p].off /\ pc[p] = "w_cmd"
        /\ l \in {"w_evict", "w_scan"} /\ (l = "w_evict" <=> pc[p] = "w_cmd")
    <3>1. local[p].buf \in Seq(Byte) /\ local[p].off \in Nat /\ Len(local[p].buf) \in Nat
      BY <1>1, <2>2, LenProperties DEF Writing
    <3>2. QED
      BY <1>1, <3>1 DEF NoLocal
  <2> HIDE DEF l, r
  <2>5. /\ DeviceInv' /\ temporary_command_buffer' \in Ptr
        /\ current_temporary_buffer_size' \in Nat /\ allocated' \subseteq Ptr
        /\ mem' \in [Ptr -> [size : Nat, data : Seq(Byte)]]
    <3> DEFINE n == NewSize(p)
               more == Chunk(p)
    <3>1. /\ more \in Seq(Byte) /\ n \in Nat /\ Len(more) \in Nat
          /\ current_temporary_buffer_size' = current_temporary_buffer_size + Len(more)
          /\ current_temporary_buffer_size + Len(more) <= n
          /\ IF l = "w_evict" THEN Terminated(more) ELSE NoTerminator(more)
      BY <1>1, <1>4, <2>2, <2>4
    <3>2. krealloc(n, q) /\ SetBlock(n, q, Grown(more))
      BY <2>1
    <3>3. l \in Label \ {"w_store", "w_reset"}
      BY <2>4 DEF Label
    <3> HIDE DEF n, more
    <3>4. QED
      BY <2>2, <3>1, <3>2, <3>3, GrowStep
  <2>6. QED
    BY <1>1, <2>2, <2>3, <2>4, <2>5, WriterStep DEF Label, CommitLabels
<1>10. CASE WriteFault(p)
  <2>1. PICK q \in Ptr : /\ krealloc(NewSize(p), q)
                         /\ SetBlock(NewSize(p), q, Grown(<< >>))
    BY <1>10 DEF WriteFault
  <2>2. /\ pc[p] \in {"w_cmd", "w_tail"} /\ pc' = [pc EXCEPT ![p] = "idle"]
        /\ current_temporary_buffer_size' = current_temporary_buffer_size
        /\ buffer' = buffer /\ opened' = opened /\ lock' = NoProc
        /\ local' = [local EXCEPT ![p] = NoLocal]
    BY <1>10 DEF WriteFault, Return, Goto, Release
  <2>3. << >> \in Seq(Byte) /\ Len(<< >>) = 0 /\ NoTerminator(<< >>)
    BY EmptySeq DEF NoTerminator
  <2>4. current_temporary_buffer_size + 0 <= NewSize(p)
        /\ current_temporary_buffer_size = current_temporary_buffer_size + 0
    BY <1>1, <1>4, <2>2
  <2>5. /\ DeviceInv' /\ temporary_command_buffer' \in Ptr
        /\ current_temporary_buffer_size' \in Nat /\ allocated' \subseteq Ptr
        /\ mem' \in [Ptr -> [size : Nat, data : Seq(Byte)]]
    <3> DEFINE n == NewSize(p)
               more == << >>
    <3>1. /\ more \in Seq(Byte) /\ n \in Nat /\ NoTerminator(more)
          /\ current_temporary_buffer_size' = current_temporary_buffer_size + Len(more)
          /\ current_temporary_buffer_size + Len(more) <= n
      BY <1>4, <2>2, <2>3, <2>4
    <3>2. krealloc(n, q) /\ SetBlock(n, q, Grown(more))
      BY <2>1
    <3>3. "idle" \in Label \ {"w_store", "w_reset"}
      BY DEF Label
    <3> HIDE DEF n, more
    <3>4. QED
      BY <2>2, <3>1, <3>2, <3>3, GrowStep
  <2>6. QED
    BY <1>1, <2>2, <2>5, LocalSet, WriterStep DEF Label, CommitLabels, Critical, Writing
<1>11. CASE WriteEvict(p)
  <2>1. /\ pc[p] = "w_evict" /\ pc' = [pc EXCEPT ![p] = "w_store"]
        /\ temporary_command_buffer' = temporary_command_buffer
        /\ current_temporary_buffer_size' = current_temporary_buffer_size
        /\ UNCHANGED <<lock, opened, local>>
    BY <1>11 DEF WriteEvict, Goto
  <2>2. QED
    BY <1>1, <1>3, <1>11, <2>1, EvictStep, WriterStep
    DEF Label, CommitLabels, Critical, Writing
<1>12. CASE WriteStore(p)
  <2> DEFINE r == [local[p] EXCEPT !.wrote = @ + current_temporary_buffer_size]
  <2>1. /\ pc[p] = "w_store" /\ pc' = [pc EXCEPT ![p] = "w_reset"]
        /\ temporary_command_buffer' = temporary_command_buffer
        /\ current_temporary_buffer_size' = current_temporary_buffer_size
        /\ allocated' = allocated /\ mem' = mem
        /\ UNCHANGED <<lock, opened>> /\ local' = [local EXCEPT ![p] = r]
    BY <1>12 DEF WriteStore, Goto
  <2>2. DOMAIN r = DOMAIN NoLocal /\ r.buf = local[p].buf /\ r.off = local[p].off
    BY <1>1 DEF NoLocal
  <2> HIDE DEF r
  <2>3. QED
    BY <1>1, <1>12, <2>1, <2>2, StoreStep, LocalSet, WriterStep
    DEF Label, CommitLabels, Critical, Writing
<1>13. CASE WriteReset(p)
  <2> DEFINE r == [local[p] EXCEPT !.off = Idx(p) + 1]
  <2>1. /\ pc[p] = "w_reset" /\ pc' = [pc EXCEPT ![p] = "w_scan"]
        /\ temporary_command_buffer' = NullPtr /\ current_temporary_buffer_size' = 0
        /\ buffer' = buffer /\ allocated' = allocated /\ mem' = mem
        /\ lock' = NoProc /\ opened' = opened /\ local' = [local EXCEPT ![p] = r]
    BY <1>13 DEF WriteReset, Goto, Release
  <2>2. DOMAIN r = DOMAIN NoLocal /\ r.buf = local[p].buf /\ r.off = Idx(p) + 1
    BY <1>1 DEF NoLocal
  <2> HIDE DEF r
  <2>3. Idx(p) + 1 \in Nat
    BY <1>4, <2>1 DEF CommitLabels
  <2>4. QED
    BY <1>1, <1>13, <2>1, <2>2, <2>3, ResetStep, LocalSet, WriterStep
    DEF Label, CommitLabels, Critical, Writing
<1>14. QED
  BY <1>5, <1>6, <1>7, <1>8, <1>9, <1>10, <1>11, <1>12, <1>13 DEF Write

-----------------------------------------------------------------------------
(***************************************************************************)
(* The invariant holds initially, in every step and so always.             *)
(***************************************************************************)
LEMMA InitialState ==
  ASSUME Init
  PROVE  IInv
<1>1. /\ buffer = aesd_circular_buffer_init /\ temporary_command_buffer = NullPtr
      /\ current_temporary_buffer_size = 0 /\ lock = NoProc /\ allocated = {}
      /\ mem = [a \in Ptr |-> NoBlock] /\ opened = {}
      /\ pc = [p \in Proc |-> "idle"] /\ local = [p \in Proc |-> NoLocal]
  BY DEF Init
<1>2. buffer \in Buffer /\ Shape(buffer) /\ \A i \in Slots : Held(i) = NullPtr
  BY <1>1, MaxOpsAssumption
  DEF aesd_circular_buffer_init, NoEntry, Buffer, Entry, Slots, Shape, Held
<1>3. mem \in [Ptr -> [size : Nat, data : Seq(Byte)]]
  <2>1. NoBlock \in [size : Nat, data : Seq(Byte)]
    BY EmptySeq DEF NoBlock
  <2>2. QED
    BY <1>1, <2>1
<1>4. ~Storing /\ ~Resetting /\ ~Committing
  BY <1>1 DEF Storing, Resetting, Committing, CommitLabels
<1>5. LiveSlots = {}
  BY <1>2 DEF LiveSlots, Held
<1>6. TypeOK
  BY <1>1, <1>2, <1>3 DEF TypeOK, Label, Writing
<1>7. MutualExclusion /\ AtChunk
  BY <1>1 DEF MutualExclusion, AtChunk, Critical, CommitLabels
<1>8. DeviceInv
  BY <1>1, <1>2, <1>4, <1>5
  DEF DeviceInv, BufferShape, TempBlock, MemoryOwned, Stored, CommandsWellFormed
<1>9. QED
  BY <1>6, <1>7, <1>8 DEF IInv

LEMMA StepKeepsInvariant ==
  ASSUME IInv, [Next]_vars
  PROVE  IInv'
<1>1. ASSUME NEW p \in Proc, Running(p) \/ Caller(p)
      PROVE  IInv'
  BY <1>1, CallerKeepsInvariant, ReadKeepsInvariant, SeekKeepsInvariant,
     PrintKeepsInvariant, WriteKeepsInvariant DEF Running
<1>2. CASE UNCHANGED vars
  <2>1. UNCHANGED <<device, lock, opened, pc, local>>
    BY <1>2 DEF vars
  <2>2. (Storing' <=> Storing) /\ (Resetting' <=> Resetting) /\ (Committing' <=> Committing)
    BY <2>1 DEF Storing, Resetting, Committing
  <2>3. DeviceInv'
    BY <2>1, <2>2, DeviceKept DEF IInv
  <2>4. TypeOK' /\ MutualExclusion' /\ AtChunk'
    BY <2>1 DEF IInv, TypeOK, device, MutualExclusion, AtChunk, MoreToWrite, Terminators
  <2>5. QED
    BY <2>3, <2>4 DEF IInv
<1>3. QED
  BY <1>1, <1>2 DEF Next

LEMMA InvariantHolds == Spec => []IInv
<1>1. Init => IInv
  BY InitialState
<1>2. IInv /\ [Next]_vars => IInv'
  BY StepKeepsInvariant
<1>3. QED
  BY <1>1, <1>2, PTL DEF Spec

\* While nobody holds the lock nobody is in the middle of a write, so every
\* slot that holds a pointer is live.
LEMMA AtRestAllOwned ==
  ASSUME IInv
  PROVE  CleanupFreesAll
<1> SUFFICES ASSUME lock = NoProc
             PROVE  /\ allocated = ({Held(i) : i \in Slots} \cup {temporary_command_buffer}) \ {NullPtr}
                    /\ \A i, j \in Slots : Held(i) = Held(j) /\ Held(i) # NullPtr => i = j
                    /\ \A i \in Slots : Held(i) = temporary_command_buffer => Held(i) = NullPtr
  BY DEF CleanupFreesAll
<1>1. ~Storing /\ ~Resetting
  BY DriverAssumption DEF IInv, MutualExclusion, Storing, Resetting, Critical
<1>2. LiveSlots = {i \in Slots : Held(i) # NullPtr}
  BY <1>1 DEF LiveSlots, Vacated, Held
<1>3. /\ MemoryOwned /\ allocated \subseteq Ptr
  BY DEF IInv, DeviceInv, TypeOK
<1>4. QED
  BY <1>1, <1>2, <1>3, NullPtrAssumption DEF MemoryOwned

-----------------------------------------------------------------------------
\* The driver never leaves its types: the offsets of the buffer stay within
\* its array and every pointer it keeps is one that kmalloc gave out or NULL,
\* through every call and every error path of main.c.
THEOREM DriverTypeCorrect == Spec => []TypeOK
BY InvariantHolds, PTL DEF IInv

\* mutex_lock_interruptible and mutex_unlock of dev->lock bracket every
\* access of a read, a write, a seek and an ioctl to the device: no two
\* processes are inside at once (main.c:108, 172, 234, 287, 333).
THEOREM LockExcludes == Spec => []MutualExclusion
BY InvariantHolds, PTL DEF IInv

\* Every block that krealloc has given the driver has exactly one owner in
\* every state, whichever allocations and copies fail (main.c:225-312 and
\* aesd-circular-buffer.c:80-98).
THEOREM EveryBlockHasOneOwner == Spec => []MemoryOwned
<1>1. IInv => MemoryOwned
  BY DEF IInv, DeviceInv
<1>2. QED
  BY <1>1, InvariantHolds, PTL

\* Whenever the lock is free, the pointers that aesd_cleanup_module passes to
\* kfree (main.c:445-468) are the allocated blocks, each of them once.
THEOREM UnloadFreesEachBlockOnce == Spec => []CleanupFreesAll
<1>1. IInv => CleanupFreesAll
  BY AtRestAllOwned
<1>2. QED
  BY <1>1, InvariantHolds, PTL

\* Every command in the buffer is a whole one: it has the recorded length and
\* its only terminator is its last byte, although writers are interleaved and
\* their copies fail part way (main.c:238-259, 292-303).
THEOREM EveryCommandIsWhole == Spec => []CommandsWellFormed
<1>1. IInv => CommandsWellFormed
  BY DEF IInv, DeviceInv
<1>2. QED
  BY <1>1, InvariantHolds, PTL

-----------------------------------------------------------------------------
(***************************************************************************)
(* What a write has counted.  A buffer that ends in a terminator has one   *)
(* ahead as long as there is more to write, so every turn of the loop adds *)
(* a command; what it adds covers the chunk, and the scan goes on behind   *)
(* no more than what has been counted.                                     *)
(***************************************************************************)
Prints         == {"w_print", "w_copy"}
EndsCommand(p) == Len(local[p].buf) > 0 /\ local[p].buf[Len(local[p].buf)] = NL

Covered(p) ==
  pc[p] \in Writing \cup Prints =>
    /\ local[p].buf \in Seq(Byte) /\ local[p].wrote \in Nat
    /\ EndsCommand(p) =>
         /\ pc[p] \in {"w_scan", "w_cmd"} => local[p].off <= local[p].wrote
         /\ pc[p] # "w_tail"
         /\ pc[p] \in {"w_evict", "w_store"} =>
              Len(Chunk(p)) <= current_temporary_buffer_size
         /\ pc[p] = "w_reset" => Len(Chunk(p)) <= local[p].wrote
         /\ pc[p] \in Prints => Len(local[p].buf) <= local[p].wrote

WroteInv == IInv /\ DOMAIN ret = Proc /\ DOMAIN f_pos = Proc /\ \A p \in Proc : Covered(p)

LEMMA TerminatorAhead ==
  ASSUME NEW p, local[p].buf \in Seq(Byte), local[p].off \in Nat,
         MoreToWrite(p), EndsCommand(p)
  PROVE  Terminators(p) # {}
<1> DEFINE n == Len(local[p].buf)
<1>1. n \in Nat /\ local[p].off < n /\ local[p].buf[n] = NL
  BY LenProperties DEF MoreToWrite, EndsCommand
<1>2. n \in local[p].off + 1 .. n
  BY <1>1
<1>3. QED
  BY <1>1, <1>2 DEF Terminators

\* A step of p is no step of another process, and it keeps the temporary
\* buffer as long as the other holds the lock.
LEMMA OthersStay ==
  ASSUME IInv, DOMAIN ret = Proc, DOMAIN f_pos = Proc,
         NEW p \in Proc, Running(p) \/ Caller(p), NEW q \in Proc, q # p
  PROVE  /\ pc'[q] = pc[q] /\ local'[q] = local[q]
         /\ ret'[q] = ret[q] /\ f_pos'[q] = f_pos[q]
         /\ pc[q] \in Critical => UNCHANGED device
<1>1. DOMAIN local = Proc /\ pc \in [Proc -> Label] /\ MutualExclusion
  BY DEF IInv, TypeOK
<1>2. pc[q] \in Critical => lock = q /\ pc[p] \notin Critical
  BY <1>1 DEF MutualExclusion
<1>3. ASSUME NEW e, Return(p, e)
      PROVE  /\ pc'[q] = pc[q] /\ local'[q] = local[q]
             /\ ret'[q] = ret[q]
  BY <1>1, <1>3 DEF Return, Goto
<1>4. CASE Caller(p)
  <2>1. CASE aesd_open(p)
    BY <2>1 DEF aesd_open
  <2>2. CASE aesd_release(p)
    BY <2>2 DEF aesd_release
  <2>3. CASE WriteCall(p)
    BY <1>1, <2>3 DEF WriteCall, Call, Goto
  <2>4. CASE ReadCall(p)
    BY <1>1, <2>4 DEF ReadCall, Call, Goto
  <2>5. CASE SeekCall(p)
    BY <1>1, <2>5 DEF SeekCall, Call, Goto
  <2>6. CASE IoctlRefused(p)
    BY <1>1, <2>6 DEF IoctlRefused
  <2>7. QED  BY <1>4, <2>1, <2>2, <2>3, <2>4, <2>5, <2>6 DEF Caller
<1>5. CASE DebugPrint(p)
  BY <1>1, <1>3, <1>5 DEF DebugPrint, PrintFetch, PrintCopy, AfterPrint, Goto
<1>6. CASE Read(p)
  <2>1. CASE ReadLock(p)
    BY <1>1, <2>1 DEF ReadLock, Goto
  <2>2. CASE ReadInterrupted(p)
    BY <1>1, <1>3, <2>2 DEF ReadInterrupted
  <2>3. CASE ReadTransfer(p)
    BY <1>1, <2>3 DEF ReadTransfer
  <2>4. CASE ReadFault(p)
    BY <1>1, <1>3, <2>4 DEF ReadFault
  <2>5. CASE ReadReturn(p)
    BY <1>1, <1>3, <2>5 DEF ReadReturn
  <2>6. QED  BY <1>6, <2>1, <2>2, <2>3, <2>4, <2>5 DEF Read
<1>7. CASE Seek(p)
  <2>1. CASE SeekInterrupted(p)
    BY <1>1, <1>3, <2>1 DEF SeekInterrupted
  <2>2. CASE aesd_llseek(p)
    <3>1. \E e : Return(p, e)
      BY <2>2 DEF aesd_llseek
    <3>2. UNCHANGED device /\ (f_pos' = f_pos \/ \E x : f_pos' = [f_pos EXCEPT ![p] = x])
      BY <2>2 DEF aesd_llseek
    <3>3. QED  BY <1>3, <3>1, <3>2
  <2>3. CASE aesd_unlocked_ioctl(p)
    <3>1. \E e : Return(p, e)
      BY <2>3 DEF aesd_unlocked_ioctl
    <3>2. UNCHANGED device /\ (f_pos' = f_pos \/ \E x : f_pos' = [f_pos EXCEPT ![p] = x])
      BY <2>3 DEF aesd_unlocked_ioctl
    <3>3. QED  BY <1>3, <3>1, <3>2
  <2>4. QED  BY <1>7, <2>1, <2>2, <2>3 DEF Seek
<1>8. CASE Write(p)
  <2>1. CASE WriteLock(p)
    BY <1>1, <2>1 DEF WriteLock, Goto
  <2>2. CASE WriteInterrupted(p)
    BY <1>1, <1>3, <2>2 DEF WriteInterrupted
  <2>3. CASE WriteNoMem(p)
    BY <1>3, <2>3 DEF WriteNoMem
  <2>4. CASE WriteReturn(p)
    BY <1>1, <1>3, <2>4 DEF WriteReturn, Goto
  <2>5. CASE WriteAppend(p)
    BY <1>1, <1>2, <2>5 DEF WriteAppend, Goto, Critical
  <2>6. CASE WriteFault(p)
    BY <1>2, <1>3, <2>6 DEF WriteFault, Critical
  <2>7. CASE WriteEvict(p)
    BY <1>1, <1>2, <2>7 DEF WriteEvict, Goto, Critical
  <2>8. CASE WriteStore(p)
    BY <1>1, <1>2, <2>8 DEF WriteStore, Goto, Critical
  <2>9. CASE WriteReset(p)
    BY <1>1, <1>2, <2>9 DEF WriteReset, Goto, Critical
  <2>10. QED
    BY <1>8, <2>1, <2>2, <2>3, <2>4, <2>5, <2>6, <2>7, <2>8, <2>9 DEF Write
<1>9. QED
  BY <1>4, <1>5, <1>6, <1>7, <1>8 DEF Running

\* Each process has a last result and a position in every state.
LEMMA ReturnsKept ==
  ASSUME NEW p \in Proc, Running(p) \/ Caller(p)
  PROVE  DOMAIN ret' = DOMAIN ret /\ DOMAIN f_pos' = DOMAIN f_pos
<1>1. ASSUME NEW e, Return(p, e)
      PROVE  DOMAIN ret' = DOMAIN ret
  BY <1>1 DEF Return
<1>2. CASE Caller(p)
  BY <1>2 DEF Caller, aesd_open, aesd_release, WriteCall, ReadCall, SeekCall, IoctlRefused, Call
<1>3. CASE DebugPrint(p)
  BY <1>1, <1>3 DEF DebugPrint, PrintFetch, PrintCopy, AfterPrint
<1>4. CASE Read(p)
  BY <1>1, <1>4 DEF Read, ReadLock, ReadInterrupted, ReadTransfer, ReadFault, ReadReturn
<1>5. CASE Seek(p)
  <2>1. \E e : Return(p, e)
    BY <1>5 DEF Seek, SeekInterrupted, aesd_llseek, aesd_unlocked_ioctl
  <2>2. DOMAIN f_pos' = DOMAIN f_pos
    BY <1>5 DEF Seek, SeekInterrupted, aesd_llseek, aesd_unlocked_ioctl
  <2>3. QED  BY <1>1, <2>1, <2>2
<1>6. CASE Write(p)
  BY <1>1, <1>6 DEF Write, WriteLock, WriteInterrupted, WriteAppend, WriteFault, WriteNoMem,
     WriteEvict, WriteStore, WriteReset, WriteReturn
<1>7. QED
  BY <1>2, <1>3, <1>4, <1>5, <1>6 DEF Running

\* A process that does not move keeps what it has covered.
LEMMA CoveredStays ==
  ASSUME NEW q \in Proc, Covered(q), pc'[q] = pc[q], local'[q] = local[q],
         pc[q] \in Critical => UNCHANGED device
  PROVE  Covered(q)'
<1>1. Chunk(q)' = Chunk(q) /\ EndsCommand(q)' = EndsCommand(q)
  BY DEF Chunk, Idx, Terminators, EndsCommand
<1>2. pc[q] \in Critical => current_temporary_buffer_size' = current_temporary_buffer_size
  BY DEF device
<1>3. QED
  BY <1>1, <1>2 DEF Covered, Critical

LEMMA WriteCovers ==
  ASSUME WroteInv, NEW p \in Proc, Write(p) \/ WriteCall(p)
  PROVE  Covered(p)'
<1>1. /\ pc \in [Proc -> Label] /\ DOMAIN local = Proc /\ AtChunk
      /\ DOMAIN local[p] = DOMAIN NoLocal /\ Covered(p)
      /\ current_temporary_buffer_size \in Nat
      /\ pc[p] \in Writing => local[p].buf \in Seq(Byte) /\ local[p].off \in Nat
  BY DEF WroteInv, IInv, TypeOK
<1>2. ASSUME NEW l, l \notin Writing \cup Prints, pc' = [pc EXCEPT ![p] = l]
      PROVE  Covered(p)'
  BY <1>1, <1>2 DEF Covered
<1>3. ASSUME NEW e, Return(p, e)
      PROVE  Covered(p)'
  BY <1>2, <1>3 DEF Return, Goto, Writing, Prints
<1>4. ASSUME pc[p] \in {"w_cmd", "w_tail"} \cup CommitLabels
      PROVE  /\ Len(Chunk(p)) \in Nat /\ Idx(p) \in Nat
             /\ NewSize(p) = current_temporary_buffer_size + Len(Chunk(p))
             /\ pc[p] # "w_tail" => Len(Chunk(p)) = Idx(p) + 1
  <2>1. pc[p] \in Writing
    BY <1>4 DEF Writing, CommitLabels
  <2>2. MoreToWrite(p) /\ (Terminators(p) = {} <=> pc[p] = "w_tail")
    BY <1>1, <1>4 DEF AtChunk, CommitLabels
  <2>3. QED
    BY <1>1, <2>1, <2>2, ChunkProperties DEF NewSize
\* While the writer's buffer and place are the same, so is its chunk.
<1>5. ASSUME local'[p].buf = local[p].buf, local'[p].off = local[p].off
      PROVE  Chunk(p)' = Chunk(p) /\ EndsCommand(p)' = EndsCommand(p)
  BY <1>5 DEF Chunk, Idx, Terminators, EndsCommand
<1>6. CASE WriteCall(p)
  <2>1. PICK b \in WriteBufs : local' = [local EXCEPT ![p] = [NoLocal EXCEPT !.buf = b]]
    BY <1>6 DEF WriteCall
  <2>2. /\ local'[p].buf = b /\ local'[p].off = 0 /\ local'[p].wrote = 0
        /\ b \in Seq(Byte) /\ pc'[p] = "w_scan"
    BY <1>1, <1>6, <2>1, DriverAssumption DEF NoLocal, WriteCall, Call, Goto
  <2>3. QED
    BY <2>2 DEF Covered, Prints
<1>7. CASE WriteLock(p)
  <2>1. /\ pc[p] = "w_scan" /\ MoreToWrite(p) /\ local' = local
        /\ pc'[p] = IF Terminators(p) = {} THEN "w_tail" ELSE "w_cmd"
    BY <1>1, <1>7 DEF WriteLock, Goto
  <2>2. EndsCommand(p) => Terminators(p) # {}
    BY <1>1, <2>1, TerminatorAhead DEF Writing
  <2>3. QED
    BY <1>1, <1>5, <2>1, <2>2 DEF Covered, Writing, Prints
<1>8. CASE WriteInterrupted(p) \/ WriteNoMem(p) \/ WriteFault(p)
  BY <1>3, <1>8 DEF WriteInterrupted, WriteNoMem, WriteFault
<1>9. CASE WriteAppend(p)
  <2>1. CASE pc[p] = "w_cmd"
    <3>1. /\ pc'[p] = "w_evict" /\ local' = local
          /\ current_temporary_buffer_size' = NewSize(p)
      BY <1>1, <1>9, <2>1 DEF WriteAppend, Goto
    <3>2. Len(Chunk(p)) <= current_temporary_buffer_size'
      BY <1>1, <1>4, <2>1, <3>1
    <3>3. QED
      BY <1>1, <1>5, <2>1, <3>1, <3>2 DEF Covered, Writing, Prints
  <2>2. CASE pc[p] # "w_cmd"
    <3>1. /\ pc[p] = "w_tail" /\ pc'[p] = "w_scan"
          /\ local'[p].buf = local[p].buf /\ local'[p].wrote = local[p].wrote
      BY <1>1, <1>9, <2>2 DEF WriteAppend, Goto, NoLocal
    <3>2. EndsCommand(p)' = EndsCommand(p)
      BY <3>1 DEF EndsCommand
    <3>3. QED
      BY <1>1, <3>1, <3>2 DEF Covered, Writing, Prints
  <2>3. QED  BY <2>1, <2>2
<1>10. CASE WriteEvict(p)
  <2>1. /\ pc[p] = "w_evict" /\ pc'[p] = "w_store" /\ local' = local
        /\ current_temporary_buffer_size' = current_temporary_buffer_size
    BY <1>1, <1>10 DEF WriteEvict, Goto
  <2>2. QED
    BY <1>1, <1>5, <2>1 DEF Covered, Writing, Prints
<1>11. CASE WriteStore(p)
  <2>1. /\ pc[p] = "w_store" /\ pc'[p] = "w_reset"
        /\ local'[p].buf = local[p].buf /\ local'[p].off = local[p].off
        /\ local'[p].wrote = local[p].wrote + current_temporary_buffer_size
    BY <1>1, <1>11 DEF WriteStore, Goto, NoLocal
  <2>2. local[p].wrote \in Nat /\ local[p].buf \in Seq(Byte)
        /\ (EndsCommand(p) => Len(Chunk(p)) <= current_temporary_buffer_size)
    BY <1>1, <2>1 DEF Covered, Writing
  <2>3. /\ local'[p].wrote \in Nat
        /\ EndsCommand(p) => Len(Chunk(p)) <= local'[p].wrote
    BY <1>1, <1>4, <2>1, <2>2 DEF CommitLabels
  <2>4. QED
    BY <1>5, <2>1, <2>2, <2>3 DEF Covered, Prints
<1>12. CASE WriteReset(p)
  <2>1. /\ pc[p] = "w_reset" /\ pc'[p] = "w_scan"
        /\ local'[p].buf = local[p].buf /\ local'[p].off = Idx(p) + 1
        /\ local'[p].wrote = local[p].wrote
    BY <1>1, <1>12 DEF WriteReset, Goto, NoLocal
  <2>2. Len(Chunk(p)) = Idx(p) + 1
    BY <1>4, <2>1 DEF CommitLabels
  <2>3. EndsCommand(p)' = EndsCommand(p)
    BY <2>1 DEF EndsCommand
  <2>4. QED
    BY <1>1, <2>1, <2>2, <2>3 DEF Covered, Writing, Prints
<1>13. CASE WriteReturn(p)
  <2>1. CASE PrintSlots > 0
    <3>1. pc[p] = "w_scan" /\ pc'[p] = "w_print" /\ local' = local /\ ~MoreToWrite(p)
      BY <1>1, <1>13, <2>1 DEF WriteReturn, Goto
    <3>2. /\ local[p].buf \in Seq(Byte) /\ local[p].wrote \in Nat /\ local[p].off \in Nat
          /\ EndsCommand(p) => local[p].off <= local[p].wrote
      BY <1>1, <3>1 DEF Covered, Writing
    <3>3. EndsCommand(p) => Len(local[p].buf) <= local[p].wrote
      BY <3>1, <3>2, LenProperties DEF MoreToWrite
    <3>4. QED
      BY <1>5, <3>1, <3>2, <3>3 DEF Covered
  <2>2. CASE ~(PrintSlots > 0)
    BY <1>3, <1>13, <2>2 DEF WriteReturn
  <2>3. QED  BY <2>1, <2>2
<1>14. QED
  BY <1>6, <1>7, <1>8, <1>9, <1>10, <1>11, <1>12, <1>13 DEF Write

\* The other calls are not in a write, and the print leaves the count alone.
LEMMA OthersCover ==
  ASSUME WroteInv, NEW p \in Proc, Running(p) \/ Caller(p), ~Write(p), ~WriteCall(p)
  PROVE  Covered(p)'
<1>1. /\ pc \in [Proc -> Label] /\ DOMAIN local = Proc
      /\ DOMAIN local[p] = DOMAIN NoLocal /\ Covered(p)
  BY DEF WroteInv, IInv, TypeOK
<1>2. ASSUME pc'[p] \notin Writing \cup Prints
      PROVE  Covered(p)'
  BY <1>2 DEF Covered
<1>3. ASSUME NEW e, Return(p, e)
      PROVE  Covered(p)'
  BY <1>1, <1>2, <1>3 DEF Return, Goto, Writing, Prints
<1>4. CASE Read(p)
  <2>1. CASE ReadLock(p) \/ ReadTransfer(p)
    BY <1>1, <1>2, <2>1 DEF ReadLock, ReadTransfer, Goto, Writing, Prints
  <2>2. CASE ReadInterrupted(p) \/ ReadFault(p) \/ ReadReturn(p)
    BY <1>3, <2>2 DEF ReadInterrupted, ReadFault, ReadReturn
  <2>3. QED  BY <1>4, <2>1, <2>2 DEF Read
<1>5. CASE Seek(p)
  BY <1>3, <1>5 DEF Seek, SeekInterrupted, aesd_llseek, aesd_unlocked_ioctl
<1>6. CASE aesd_open(p) \/ aesd_release(p) \/ IoctlRefused(p)
  BY <1>1, <1>6, CoveredStays DEF aesd_open, aesd_release, IoctlRefused
<1>7. CASE ReadCall(p) \/ SeekCall(p)
  BY <1>1, <1>2, <1>7 DEF ReadCall, SeekCall, Call, Goto, Writing, Prints
<1>8. CASE DebugPrint(p)
  <2>1. CASE pc'[p] \in Prints
    <3>1. /\ pc[p] \in Prints /\ local'[p].buf = local[p].buf
          /\ local'[p].wrote = local[p].wrote
      BY <1>1, <1>8, <2>1
      DEF DebugPrint, PrintFetch, PrintCopy, AfterPrint, Return, Goto, Prints, NoLocal
    <3>2. EndsCommand(p)' = EndsCommand(p)
      BY <3>1 DEF EndsCommand
    <3>3. QED
      BY <1>1, <2>1, <3>1, <3>2 DEF Covered, Prints
  <2>2. CASE pc'[p] \notin Prints
    <3>1. pc'[p] \in {"read", "idle", "r_print", "r_copy"}
      BY <1>1, <1>8, <2>2
      DEF DebugPrint, PrintFetch, PrintCopy, AfterPrint, Return, Goto, Prints
    <3>2. QED  BY <1>2, <2>2, <3>1 DEF Writing
  <2>3. QED  BY <2>1, <2>2
<1>9. QED
  BY <1>4, <1>5, <1>6, <1>7, <1>8 DEF Running, Caller

LEMMA WroteInvariant == Spec => []WroteInv
<1>1. Init => WroteInv
  <2> SUFFICES ASSUME Init PROVE WroteInv
    OBVIOUS
  <2>1. IInv
    BY InitialState
  <2>2. DOMAIN ret = Proc /\ DOMAIN f_pos = Proc /\ \A p \in Proc : pc[p] = "idle"
    BY DEF Init
  <2>3. QED
    BY <2>1, <2>2 DEF WroteInv, Covered, Writing, Prints
<1>2. WroteInv /\ [Next]_vars => WroteInv'
  <2> SUFFICES ASSUME WroteInv, [Next]_vars PROVE WroteInv'
    OBVIOUS
  <2>1. IInv'
    BY StepKeepsInvariant DEF WroteInv
  <2>2. ASSUME NEW p \in Proc, Running(p) \/ Caller(p)
        PROVE  DOMAIN ret' = Proc /\ DOMAIN f_pos' = Proc /\ \A q \in Proc : Covered(q)'
    <3>1. ASSUME NEW q \in Proc, q # p
          PROVE  Covered(q)'
      BY <2>2, <3>1, OthersStay, CoveredStays DEF WroteInv
    <3>2. Covered(p)'
      BY <2>2, WriteCovers, OthersCover
    <3>3. DOMAIN ret' = Proc /\ DOMAIN f_pos' = Proc
      BY <2>2, ReturnsKept DEF WroteInv
    <3>4. QED  BY <3>1, <3>2, <3>3
  <2>3. CASE UNCHANGED vars
    <3>1. UNCHANGED <<pc, local, ret, f_pos, device>>
      BY <2>3 DEF vars
    <3>2. \A q \in Proc : Covered(q)'
      BY <3>1, CoveredStays DEF WroteInv
    <3>3. QED  BY <2>1, <3>1, <3>2 DEF WroteInv
  <2>4. QED  BY <2>1, <2>2, <2>3 DEF Next, WroteInv
<1>3. QED
  BY <1>1, <1>2, PTL DEF Spec

\* A write of whole commands that succeeds reports at least the bytes it was
\* given, whoever writes beside it: the pieces left by other writers are
\* counted too, and the loop comes to the end of the buffer only behind bytes
\* that were counted (main.c:228-315).
THEOREM WholeWriteIsCounted == Spec => WholeCommandNotShort
<1> DEFINE Fits(p) ==
      (Len(local[p].buf) > 0 /\ pc[p] \in {"w_scan", "w_print"} /\ pc'[p] = "idle"
         /\ local[p].buf[Len(local[p].buf)] = NL)
        => ret'[p] >= Len(local[p].buf) \/ ret'[p] < 0
<1>1. WroteInv /\ [Next]_vars => [\A p \in Proc : Fits(p)]_vars
  <2> SUFFICES ASSUME WroteInv, Next, NEW p \in Proc,
                      EndsCommand(p), pc[p] \in {"w_scan", "w_print"}, pc'[p] = "idle"
               PROVE  ret'[p] >= Len(local[p].buf) \/ ret'[p] < 0
    BY DEF EndsCommand
  <2>1. /\ IInv /\ pc \in [Proc -> Label] /\ DOMAIN ret = Proc /\ DOMAIN f_pos = Proc
        /\ Covered(p)
        /\ pc[p] = "w_scan" => local[p].off \in Nat
    BY DEF WroteInv, IInv, TypeOK, Writing
  <2>2. Running(p) \/ Caller(p)
    BY <2>1, OthersStay DEF Next
  <2>3. PICK r : /\ Return(p, r)
                 /\ \/ r = local[p].wrote /\ (pc[p] = "w_scan" => ~MoreToWrite(p))
                    \/ r = -ERESTARTSYS
    <3>1. ASSUME NEW l, l # "idle", pc' = [pc EXCEPT ![p] = l]
          PROVE  FALSE
      BY <2>1, <3>1
    <3>2. CASE Write(p)
      BY <2>1, <3>1, <3>2 DEF Write, WriteLock, WriteInterrupted, WriteAppend, WriteFault,
         WriteNoMem, WriteEvict, WriteStore, WriteReset, WriteReturn, Goto
    <3>3. CASE DebugPrint(p)
      BY <2>1, <3>1, <3>3 DEF DebugPrint, PrintFetch, PrintCopy, AfterPrint, Goto
    <3>4. CASE Read(p) \/ Seek(p)
      BY <3>4 DEF Read, Seek, ReadLock, ReadInterrupted, ReadTransfer, ReadFault, ReadReturn,
         SeekInterrupted, aesd_llseek, aesd_unlocked_ioctl
    <3>5. CASE Caller(p)
      BY <2>1, <3>5 DEF Caller, aesd_open, aesd_release, WriteCall, ReadCall, SeekCall, IoctlRefused, Call, Goto
    <3>6. QED  BY <2>2, <3>2, <3>3, <3>4, <3>5 DEF Running
  <2>4. ret'[p] = r
    BY <2>1, <2>3 DEF Return
  <2>5. CASE r = -ERESTARTSYS
    BY <2>4, <2>5 DEF ERESTARTSYS
  <2>6. CASE r = local[p].wrote /\ (pc[p] = "w_scan" => ~MoreToWrite(p))
    <3>1. /\ local[p].buf \in Seq(Byte) /\ local[p].wrote \in Nat
          /\ pc[p] = "w_scan" => local[p].off <= local[p].wrote
          /\ pc[p] = "w_print" => Len(local[p].buf) <= local[p].wrote
      BY <2>1 DEF Covered, Writing, Prints
    <3>2. QED
      BY <2>1, <2>4, <2>6, <3>1, LenProperties DEF MoreToWrite
  <2>7. QED  BY <2>3, <2>5, <2>6
<1>2. QED
  BY <1>1, WroteInvariant, PTL DEF Spec, WholeCommandNotShort
===============================================================================
