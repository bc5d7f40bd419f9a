-------------------------- MODULE CommandRingProofs --------------------------
(***************************************************************************)
(* The buffer as a machine, for every capacity and every set of commands:  *)
(* it keeps its types and its shape, and it implements the log of the most *)
(* recent commands.                                                        *)
(***************************************************************************)
EXTENDS CommandRing, CircularBufferProofs

LEMMA EntryOfCommand ==
  ASSUME NEW e \in Commands
  PROVE  e \in Entry
BY CommandsAssumption DEF Entry

LEMMA InitialBuffer == Init => TypeOK /\ RingShape /\ Contents(buffer) = << >>
<1> SUFFICES ASSUME Init PROVE TypeOK /\ RingShape /\ Contents(buffer) = << >>
  OBVIOUS
<1>1. 0 \in Slots
  BY MaxOpsAssumption DEF Slots
<1>2. NoEntry \in Entry
  BY DEF NoEntry, Entry
<1>3. buffer \in Buffer /\ ~buffer.full /\ buffer.in_offs = 0 /\ buffer.out_offs = 0
      /\ \A i \in Slots : buffer.entry[i] = NoEntry
  BY <1>1, <1>2 DEF Init, aesd_circular_buffer_init, Buffer
<1>4. Count(buffer) = 0
  BY <1>3, CountBounds
<1>5. Contents(buffer) = << >>
  BY <1>3, <1>4, ContentsAreEntries, EmptySeq, SeqEqual
<1>6. QED
  BY <1>3, <1>5 DEF TypeOK, RingShape, Shape

\* After any number of additions the offsets are in the array and every slot
\* holds an entry (aesd-circular-buffer.c:66-106).
THEOREM TypeCorrect == Spec => []TypeOK
<1>1. Init => TypeOK
  BY InitialBuffer
<1>2. TypeOK /\ [Next]_buffer => TypeOK'
  BY AddEntryFields, EntryOfCommand DEF TypeOK, Next, Add
<1>3. QED
  BY <1>1, <1>2, PTL DEF Spec

\* full is set exactly while the offsets are together after a wrap, and a
\* buffer that has not filled starts at slot 0 (aesd-circular-buffer.c:80-105).
THEOREM RingShapeAlways == Spec => []RingShape
<1>1. Init => RingShape
  BY InitialBuffer
<1>2. TypeOK /\ RingShape /\ [Next]_buffer => RingShape'
  BY AddEntryKeepsShape, EntryOfCommand DEF TypeOK, RingShape, Next, Add
<1>3. QED
  BY <1>1, <1>2, TypeCorrect, PTL DEF Spec

\* An addition is an addition to the log of the last MaxOps commands: this is
\* the whole contract of aesd_circular_buffer_add_entry, for every capacity.
THEOREM RingImplementsLog == Spec => RefinesLog
<1>1. Init => Log!Init
  BY InitialBuffer DEF Log!Init
<1>2. TypeOK /\ RingShape /\ [Next]_buffer => [Log!Next]_(Contents(buffer))
  <2>1. ASSUME TypeOK, RingShape, NEW e \in Commands, Add(e)
        PROVE  Log!Add(e)
    <3>1. e \in Entry /\ buffer \in Buffer /\ Shape(buffer)
      BY <2>1, EntryOfCommand DEF TypeOK, RingShape
    <3>2. Len(Contents(buffer)) = Count(buffer)
      BY <3>1, ContentsAreEntries
    <3>3. CASE buffer.full
      BY <3>1, <3>2, <3>3, <2>1, AddEntryToFullOne, MaxOpsAssumption
      DEF Add, Log!Add, Log!Recent
    <3>4. CASE ~buffer.full
      BY <3>1, <3>2, <3>4, <2>1, AddEntryToOneNotFull DEF Add, Log!Add, Log!Recent
    <3>5. QED  BY <3>3, <3>4
  <2>2. ASSUME UNCHANGED buffer
        PROVE  UNCHANGED Contents(buffer)
    BY <2>2
  <2>3. QED
    BY <2>1, <2>2 DEF Next, Log!Next
<1>3. QED
  BY <1>1, <1>2, TypeCorrect, RingShapeAlways, PTL DEF Spec, RefinesLog, Log!Spec

-----------------------------------------------------------------------------
(***************************************************************************)
(* The searches.                                                           *)
(***************************************************************************)
\* The reference has the bytes of command k behind those of its elders.
LEMMA BytesLaidOut ==
  ASSUME TypeOK
  PROVE  /\ Len(Bytes) = SizeBefore(buffer)[Count(buffer)] /\ Len(Bytes) \in Nat
         /\ \A k \in 0 .. Count(buffer) - 1 : \A o \in 0 .. Size(buffer, k+1) - 1 :
              Bytes[SizeBefore(buffer)[k] + (o + 1)] =
                [slot |-> SlotAt(buffer, k), entry_offset |-> o]
<1> DEFINE n == Count(buffer)
           s == SizeBefore(buffer)
           S == [slot : Slots, entry_offset : Nat]
           L == [k \in 1 .. n |-> BytesOf(k)]
           t == [k \in 0 .. n |-> s[k]]
<1>1. buffer \in Buffer /\ n \in 0 .. MaxOps /\ MaxOps \in Nat /\ n \in Nat
  BY CountBounds, MaxOpsAssumption DEF TypeOK
<1>2. /\ s \in [0 .. MaxOps -> Nat] /\ s[0] = 0
      /\ \A k \in 1 .. MaxOps : s[k] = s[k-1] + Size(buffer, k)
  BY <1>1, SizeBeforeSums
<1> HIDE DEF n, s
<1>3. ASSUME NEW k \in 1 .. n
      PROVE  /\ BytesOf(k) \in Seq(S) /\ Len(BytesOf(k)) = Size(buffer, k)
             /\ Size(buffer, k) \in Nat
             /\ \A j \in 1 .. Size(buffer, k) :
                  BytesOf(k)[j] = [slot |-> SlotAt(buffer, k-1), entry_offset |-> j-1]
  <2> DEFINE z == Size(buffer, k)
             x == SlotAt(buffer, k-1)
  <2>1. k \in 1 .. MaxOps /\ k-1 \in 0 .. MaxOps
    BY <1>1
  <2>2. z \in Nat /\ x \in Slots
    BY <1>1, <2>1, SizeIsNatural, SlotAtWraps
  <2>3. Contents(buffer)[k].size = z
    BY <1>1, ContentsAreEntries DEF n, Size
  <2>4. BytesOf(k) = [j \in 1 .. z |-> [slot |-> x, entry_offset |-> j-1]]
    BY <2>3 DEF BytesOf
  <2> HIDE DEF z, x
  <2>5. BytesOf(k) \in [1 .. z -> S]
    BY <2>2, <2>4
  <2>6. BytesOf(k) \in Seq(S) /\ DOMAIN BytesOf(k) = 1 .. z
    <3>1. DOMAIN BytesOf(k) = 1 .. z
      BY <2>4
    <3> HIDE DEF S
    <3>2. BytesOf(k) \in Seq(S)
      BY <2>2, <2>5, SeqDef
    <3>3. QED  BY <3>1, <3>2
  <2>7. Len(BytesOf(k)) = z
    BY <2>2, <2>6, LenProperties
  <2>8. QED  BY <2>2, <2>4, <2>6, <2>7 DEF z, x
<1>4. L \in [1 .. n -> Seq(S)] /\ \A k \in 1 .. n : L[k] = BytesOf(k)
  BY <1>3
<1>5. L \in Seq(Seq(S)) /\ Len(L) = n
  <2> HIDE DEF L, S
  <2>1. L \in Seq(Seq(S)) /\ DOMAIN L = 1 .. n
    BY <1>1, <1>4, SeqDef
  <2>2. QED  BY <1>1, <2>1, LenProperties
<1>6. t \in [0 .. n -> Nat] /\ t[0] = 0 /\ \A k \in 0 .. n : t[k] = s[k]
  BY <1>1, <1>2
<1>7. ASSUME NEW k \in 1 .. n
      PROVE  t[k] = t[k-1] + Len(L[k])
  <2>1. k \in 1 .. MaxOps /\ k \in 0 .. n /\ k-1 \in 0 .. n
    BY <1>1
  <2>2. Len(L[k]) = Size(buffer, k) /\ t[k] = s[k] /\ t[k-1] = s[k-1]
    BY <1>3, <1>4, <1>6, <2>1
  <2>3. QED  BY <1>2, <2>1, <2>2
<1>8. Bytes = FlattenSeq(L)
  BY DEF Bytes, n
<1> HIDE DEF t, L, S
<1>9. /\ Len(FlattenSeq(L)) = t[Len(L)]
      /\ \A k \in 1 .. Len(L) : \A j \in 1 .. Len(L[k]) :
           FlattenSeq(L)[t[k-1] + j] = L[k][j]
  <2>1. L \in Seq(Seq(S)) /\ t \in [0 .. Len(L) -> Nat] /\ t[0] = 0
    BY <1>5, <1>6
  <2>2. \A k \in 1 .. Len(L) : t[k] = t[k-1] + Len(L[k])
    BY <1>5, <1>7
  <2>3. /\ Len(FlattenSeq(L)) = t[Len(L)]
        /\ \A k \in 1 .. Len(L) :
             /\ t[k] <= t[Len(L)]
             /\ \A j \in 1 .. Len(L[k]) : FlattenSeq(L)[t[k-1] + j] = L[k][j]
    BY ONLY <2>1, <2>2, FlattenParts, ZenonT(60)
  <2>4. QED  BY <2>3
<1>10. Len(Bytes) = s[n] /\ s[n] \in Nat
  BY <1>1, <1>2, <1>5, <1>6, <1>8, <1>9
<1>11. ASSUME NEW k \in 0 .. n - 1, NEW o \in 0 .. Size(buffer, k+1) - 1
       PROVE  Bytes[s[k] + (o + 1)] = [slot |-> SlotAt(buffer, k), entry_offset |-> o]
  <2>1. k+1 \in 1 .. n /\ (k+1)-1 = k /\ k \in 0 .. n
    BY <1>1
  <2>2. Size(buffer, k+1) \in Nat
    BY <1>3, <2>1
  <2>3. o + 1 \in 1 .. Size(buffer, k+1) /\ (o + 1) - 1 = o
    BY <2>2
  <2>4. Bytes[t[k] + (o + 1)] = L[k+1][o+1]
    BY <1>3, <1>4, <1>5, <1>8, <1>9, <2>1, <2>3
  <2>5. L[k+1][o+1] = [slot |-> SlotAt(buffer, k), entry_offset |-> o]
    BY <1>3, <1>4, <2>1, <2>3
  <2>6. QED  BY <1>6, <2>1, <2>4, <2>5
<1>12. QED
  BY <1>10, <1>11 DEF n, s

\* The length, the search by offset and the reference agree: every offset of
\* a read lands on the byte it counts to, for every capacity, wherever the
\* buffer has wrapped (aesd-circular-buffer.c:33-57 and :116-132).
THEOREM LookupFindsEveryByte == Spec => []LookupIsByteOfContents
<1>1. ASSUME TypeOK, RingShape
      PROVE  LookupIsByteOfContents
  <2> DEFINE n == Count(buffer)
             s == SizeBefore(buffer)
  <2>1. /\ buffer \in Buffer /\ Shape(buffer) /\ n \in 0 .. MaxOps /\ MaxOps \in Nat
        /\ s \in [0 .. MaxOps -> Nat]
        /\ \A k \in 1 .. MaxOps : s[k] = s[k-1] + Size(buffer, k) /\ Size(buffer, k) \in Nat
    BY <1>1, CountBounds, MaxOpsAssumption, SizeBeforeSums, SizeIsNatural DEF TypeOK, RingShape
  <2>2. /\ Len(Bytes) = s[n] /\ Len(Bytes) \in Nat
        /\ aesd_circular_buffer_content_length(buffer) = Len(Bytes)
    BY <1>1, <2>1, BytesLaidOut, LengthIsSum
  <2>3. ASSUME NEW off \in 0 .. Len(Bytes) + 1
        PROVE  aesd_circular_buffer_find_entry_offset_for_fpos(buffer, off) =
                 IF off < Len(Bytes) THEN Bytes[off + 1] ELSE NotFound
    <3>1. off \in Nat
      BY <2>2
    <3>2. CASE off >= Len(Bytes)
      <4>1. ~(off < Len(Bytes))
        BY <2>2, <3>1, <3>2
      <4>2. QED  BY <2>1, <2>2, <3>1, <3>2, <4>1, FindsNothing
    <3>3. CASE off < Len(Bytes)
      <4>1. Count(buffer) > 0
        <5> SUFFICES ASSUME n = 0 PROVE FALSE
          BY <2>1
        <5>1. aesd_circular_buffer_content_length(buffer) = 0
          BY <2>1, EmptyHasNoBytes
        <5>2. QED  BY <2>2, <3>1, <3>3, <5>1
      <4>2. Visited(buffer) = n
        BY <2>1, <4>1, VisitedBounds
      <4>3. PICK k \in 0 .. n - 1 : s[k] <= off /\ off < s[k+1]
        BY <2>1, <2>2, <3>1, <3>3, <4>2, ByteHasSlot
      <4>4. aesd_circular_buffer_find_entry_offset_for_fpos(buffer, off) =
              [slot |-> SlotAt(buffer, k), entry_offset |-> off - s[k]]
        BY <2>1, <3>1, <4>2, <4>3, FindsByte
      <4> DEFINE o == off - s[k]
      <4>5. o \in 0 .. Size(buffer, k+1) - 1 /\ s[k] + (o + 1) = off + 1
        <5>1. k+1 \in 1 .. MaxOps /\ k \in 0 .. MaxOps /\ (k+1)-1 = k
          BY <2>1
        <5>2. s[k+1] = s[k] + Size(buffer, k+1) /\ s[k] \in Nat /\ Size(buffer, k+1) \in Nat
          BY <2>1, <5>1
        <5> HIDE DEF s
        <5>3. QED  BY <3>1, <4>3, <5>2
      <4>6. Bytes[s[k] + (o + 1)] = [slot |-> SlotAt(buffer, k), entry_offset |-> o]
        <5> HIDE DEF o
        <5> QED  BY <1>1, <4>5, BytesLaidOut
      <4>7. QED  BY <3>3, <4>4, <4>5, <4>6
    <3>4. QED  BY <2>2, <3>1, <3>2, <3>3
  <2>4. QED  BY <2>2, <2>3 DEF LookupIsByteOfContents
<1>2. QED
  BY <1>1, TypeCorrect, RingShapeAlways, PTL

\* A seek to byte o of command c leads a read to that byte: the two searches
\* are inverse to each other for every kept command
\* (aesd-circular-buffer.c:134-159 with :33-57).
THEOREM SeekLeadsToByte == Spec => []SeekThenLookup
<1>1. ASSUME TypeOK, RingShape
      PROVE  SeekThenLookup
  <2> DEFINE s == SizeBefore(buffer)
  <2>1. /\ buffer \in Buffer /\ Shape(buffer) /\ Count(buffer) \in 0 .. MaxOps
        /\ MaxOps \in 1 .. 255
        /\ s \in [0 .. MaxOps -> Nat]
        /\ \A k \in 1 .. MaxOps : s[k] = s[k-1] + Size(buffer, k) /\ Size(buffer, k) \in Nat
    BY <1>1, CountBounds, MaxOpsAssumption, SizeBeforeSums, SizeIsNatural DEF TypeOK, RingShape
  <2> SUFFICES ASSUME NEW c \in 0 .. Count(buffer) - 1,
                      NEW o \in 0 .. buffer.entry[SlotAt(buffer, c)].size - 1
               PROVE  aesd_circular_buffer_find_entry_offset_for_fpos(buffer,
                        aesd_circular_buffer_find_fpos_at_position(buffer, c, o))
                      = [slot |-> SlotAt(buffer, c), entry_offset |-> o]
    BY DEF SeekThenLookup
  <2>2. /\ c \in 0 .. 255 /\ c+1 \in 1 .. MaxOps /\ (c+1)-1 = c /\ c \in 0 .. MaxOps
        /\ Count(buffer) > 0
    <3> DEFINE n == Count(buffer)
    <3>1. n \in Nat /\ n <= MaxOps /\ MaxOps \in Nat /\ MaxOps <= 255 /\ c \in 0 .. n - 1
      BY <2>1
    <3> HIDE DEF n
    <3>2. QED  BY <3>1 DEF n
  <2>3. Visited(buffer) = Count(buffer)
    BY <2>1, <2>2, VisitedBounds
  <2> DEFINE z == buffer.entry[SlotAt(buffer, c)].size
  <2>4. z = Size(buffer, c+1)
    BY <2>2 DEF Size
  <2>5. s[c+1] = s[c] + z /\ s[c] \in Nat /\ z \in Nat
    BY <2>1, <2>2, <2>4
  <2>6. o \in Nat /\ o < z /\ o <= z
    BY <2>5
  <2>7. aesd_circular_buffer_find_fpos_at_position(buffer, c, o) = s[c] + o
    <3>1. ToUint8(c) = c
      BY <2>2 DEF ToUint8
    <3>2. c < Visited(buffer)
      BY <2>1, <2>3
    <3>3. QED  BY <2>6, <3>1, <3>2 DEF aesd_circular_buffer_find_fpos_at_position
  <2> DEFINE off == s[c] + o
  <2>8. off \in Nat /\ s[c] <= off /\ off < s[c+1] /\ off - s[c] = o
    <3> HIDE DEF s, z
    <3> QED  BY <2>5, <2>6
  <2>9. c \in 0 .. Visited(buffer) - 1
    BY <2>3
  <2>10. aesd_circular_buffer_find_entry_offset_for_fpos(buffer, off) =
           [slot |-> SlotAt(buffer, c), entry_offset |-> off - s[c]]
    <3> HIDE DEF off
    <3> QED  BY <2>1, <2>8, <2>9, FindsByte
  <2>11. QED  BY <2>7, <2>8, <2>10
<1>2. QED
  BY <1>1, TypeCorrect, RingShapeAlways, PTL

\* Once a command is kept, a position at which there is none is refused
\* whatever the offset (aesd-circular-buffer.c:146-159).
THEOREM SeekBeyondIsRefused == Spec => []NoCommandIsRefused
<1>1. ASSUME TypeOK, RingShape
      PROVE  NoCommandIsRefused
  BY <1>1, SeekRefused DEF TypeOK, RingShape, NoCommandIsRefused
<1>2. QED
  BY <1>1, TypeCorrect, RingShapeAlways, PTL
=============================================================================
