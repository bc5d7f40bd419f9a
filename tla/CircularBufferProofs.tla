------------------------- MODULE CircularBufferProofs -------------------------
(***************************************************************************)
(* Lemmas about the operators of CircularBuffer, for every capacity: where *)
(* the offsets wrap, what adding an entry leaves behind, and what it does  *)
(* to the sequence the buffer stands for.                                  *)
(***************************************************************************)
EXTENDS CircularBuffer, SequencesExt, SequenceTheorems, NaturalsInduction, WellFoundedInduction, TLAPS

\* The offsets wrap at the end of the array (aesd-circular-buffer.c:94, :101).
LEMMA AdvanceWraps ==
  ASSUME NEW i \in Slots
  PROVE  /\ Advance(i) \in Slots
         /\ Advance(i) = IF i = MaxOps - 1 THEN 0 ELSE i + 1
BY MaxOpsAssumption DEF Advance, Slots

\* The k-th slot visited is in the array, and it is found without a division.
LEMMA SlotAtWraps ==
  ASSUME NEW b \in Buffer, NEW k \in 0 .. MaxOps
  PROVE  /\ SlotAt(b, k) \in Slots
         /\ SlotAt(b, k) = IF b.out_offs + k < MaxOps THEN b.out_offs + k
                           ELSE b.out_offs + k - MaxOps
<1>1. b.out_offs \in Slots
  BY DEF Buffer
<1> DEFINE x == b.out_offs + k
<1>2. x \in Nat /\ x < 2 * MaxOps /\ MaxOps \in Nat \ {0}
  BY <1>1, MaxOpsAssumption DEF Slots
<1>3. x % MaxOps = IF x < MaxOps THEN x ELSE x - MaxOps
  <2> HIDE DEF x
  <2> QED  BY <1>2
<1>4. SlotAt(b, k) = x % MaxOps /\ x = b.out_offs + k
  BY DEF SlotAt
<1>5. QED
  <2> HIDE DEF x
  <2> QED  BY <1>1, <1>2, <1>3, <1>4, MaxOpsAssumption DEF Slots

LEMMA CountBounds ==
  ASSUME NEW b \in Buffer
  PROVE  /\ Count(b) \in 0 .. MaxOps
         /\ ~b.full => Count(b) = IF b.in_offs >= b.out_offs THEN b.in_offs - b.out_offs
                                  ELSE b.in_offs - b.out_offs + MaxOps
<1>1. b.out_offs \in Slots /\ b.in_offs \in Slots /\ b.full \in BOOLEAN
  BY DEF Buffer
<1> DEFINE x == b.in_offs - b.out_offs
<1>2. x \in Int /\ -MaxOps < x /\ x < MaxOps /\ MaxOps \in Nat \ {0}
  BY <1>1, MaxOpsAssumption DEF Slots
<1>3. x % MaxOps = IF x < 0 THEN x + MaxOps ELSE x
  <2> HIDE DEF x
  <2> QED  BY <1>2
<1>4. QED  BY <1>1, <1>2, <1>3, MaxOpsAssumption DEF Count, Slots
-----------------------------------------------------------------------------
(***************************************************************************)
(* aesd_circular_buffer_add_entry in its two steps.  Room is the shape in  *)
(* between: a full buffer whose oldest slot is the next one to be written. *)
(***************************************************************************)
Room(b) == IF b.full THEN b.out_offs = Advance(b.in_offs) ELSE Shape(b)

LEMMA EvictMakesRoom ==
  ASSUME NEW b \in Buffer
  PROVE  /\ Evict(b) \in Buffer
         /\ Evict(b).entry = b.entry /\ Evict(b).in_offs = b.in_offs
         /\ Evict(b).out_offs = IF b.full THEN Advance(b.out_offs) ELSE b.out_offs
         /\ Evict(b).full = b.full
         /\ Shape(b) => Room(Evict(b))
<1>1. b.out_offs \in Slots /\ Advance(b.out_offs) \in Slots
  BY AdvanceWraps DEF Buffer
<1>2. /\ Evict(b) \in Buffer
      /\ Evict(b).entry = b.entry /\ Evict(b).in_offs = b.in_offs
      /\ Evict(b).out_offs = IF b.full THEN Advance(b.out_offs) ELSE b.out_offs
      /\ Evict(b).full = b.full
  BY <1>1 DEF Evict, Buffer
<1>3. ASSUME Shape(b)
      PROVE  Room(Evict(b))
  BY <1>2, <1>3 DEF Shape, Room
<1>4. QED
  BY <1>2, <1>3

LEMMA StoreFields ==
  ASSUME NEW b \in Buffer, NEW e \in Entry
  PROVE  /\ Store(b, e) \in Buffer
         /\ Store(b, e).entry = [b.entry EXCEPT ![b.in_offs] = e]
         /\ Store(b, e).in_offs = Advance(b.in_offs)
         /\ Store(b, e).out_offs = b.out_offs
         /\ Store(b, e).full = ((Advance(b.in_offs) = b.out_offs) \/ b.full)
<1> DEFINE next == Advance(b.in_offs)
<1>1. next \in Slots
  BY AdvanceWraps DEF Buffer
<1>2. Advance(b.in_offs) = next
  OBVIOUS
<1> HIDE DEF next
<1>3. QED
  BY <1>1, <1>2 DEF Store, Buffer

LEMMA StoreTakesRoom ==
  ASSUME NEW b \in Buffer, NEW e \in Entry, Room(b)
  PROVE  Shape(Store(b, e))
<1> DEFINE c == Store(b, e)
<1>1. b.in_offs \in Slots /\ b.out_offs \in Slots /\ b.full \in BOOLEAN
      /\ b.entry \in [Slots -> Entry]
  BY DEF Buffer
<1>2. /\ c.entry = [b.entry EXCEPT ![b.in_offs] = e]
      /\ c.in_offs = Advance(b.in_offs)
      /\ c.out_offs = b.out_offs
      /\ c.full = ((c.in_offs = c.out_offs) \/ b.full)
  BY StoreFields
<1> SUFFICES Shape(c)
  OBVIOUS
<1> HIDE DEF c
<1>3. CASE b.full
  BY <1>1, <1>2, <1>3 DEF Shape, Room
<1>4. CASE ~b.full
  <2>1. b.out_offs = 0 /\ c.out_offs = 0
        /\ \A i \in Slots : i >= b.in_offs => b.entry[i] = NoEntry
    BY <1>2, <1>4 DEF Shape, Room
  <2>2. Advance(b.in_offs) = IF b.in_offs = MaxOps - 1 THEN 0 ELSE b.in_offs + 1
    BY <1>1, AdvanceWraps
  <2>3. ASSUME ~c.full, NEW i \in Slots, i >= c.in_offs
        PROVE  c.entry[i] = NoEntry
    <3>1. c.in_offs # 0
      BY <1>2, <2>1, <2>3
    <3>2. c.in_offs = b.in_offs + 1
      BY <3>1, <1>2, <2>2
    <3>3. i # b.in_offs /\ i >= b.in_offs
      BY <3>2, <2>3, <1>1 DEF Slots
    <3>4. QED
      BY <3>3, <2>1, <1>1, <1>2
  <2>4. QED
    BY <1>2, <1>4, <2>1, <2>3 DEF Shape
<1>5. QED
  BY <1>1, <1>3, <1>4

\* The two steps together: what an addition leaves behind, field by field.
LEMMA AddEntryFields ==
  ASSUME NEW b \in Buffer, NEW e \in Entry
  PROVE  LET c    == aesd_circular_buffer_add_entry(b, e)
             next == Advance(b.in_offs)
             out  == IF b.full THEN Advance(b.out_offs) ELSE b.out_offs
         IN  /\ c \in Buffer
             /\ c.entry = [b.entry EXCEPT ![b.in_offs] = e]
             /\ c.in_offs = next
             /\ c.out_offs = out
             /\ c.full = ((next = out) \/ b.full)
<1>1. /\ Evict(b) \in Buffer
      /\ Evict(b).entry = b.entry /\ Evict(b).in_offs = b.in_offs
      /\ Evict(b).out_offs = IF b.full THEN Advance(b.out_offs) ELSE b.out_offs
      /\ Evict(b).full = b.full
  BY EvictMakesRoom
<1>2. QED
  BY <1>1, StoreFields DEF aesd_circular_buffer_add_entry

LEMMA AddEntryKeepsShape ==
  ASSUME NEW b \in Buffer, NEW e \in Entry, Shape(b)
  PROVE  Shape(aesd_circular_buffer_add_entry(b, e))
BY EvictMakesRoom, StoreTakesRoom DEF aesd_circular_buffer_add_entry

-----------------------------------------------------------------------------
(***************************************************************************)
(* The contents of the buffer, as a sequence.                              *)
(***************************************************************************)
LEMMA ContentsAreEntries ==
  ASSUME NEW b \in Buffer
  PROVE  /\ Contents(b) \in Seq(Entry)
         /\ Len(Contents(b)) = Count(b)
         /\ \A k \in 1 .. Count(b) : Contents(b)[k] = b.entry[SlotAt(b, k-1)]
<1>1. Count(b) \in 0 .. MaxOps
  BY CountBounds
<1>2. b.entry \in [Slots -> Entry]
  BY DEF Buffer
<1>3. ASSUME NEW k \in 1 .. Count(b)
      PROVE  b.entry[SlotAt(b, k-1)] \in Entry
  <2>1. k-1 \in 0 .. MaxOps
    BY <1>1, MaxOpsAssumption
  <2>2. SlotAt(b, k-1) \in Slots
    BY <2>1, SlotAtWraps
  <2>3. QED  BY <2>2, <1>2
<1>4. Contents(b) \in [1 .. Count(b) -> Entry]
  BY <1>3 DEF Contents
<1>5. Count(b) \in Nat
  BY <1>1, MaxOpsAssumption
<1>6. QED
  BY <1>4, <1>5, SeqDef DEF Contents

\* A buffer that is not full grows by the new entry at its end.
LEMMA AddEntryToOneNotFull ==
  ASSUME NEW b \in Buffer, NEW e \in Entry, Shape(b), ~b.full
  PROVE  LET c == aesd_circular_buffer_add_entry(b, e) IN
         /\ Count(b) < MaxOps
         /\ Contents(c) = Append(Contents(b), e)
<1> DEFINE c == aesd_circular_buffer_add_entry(b, e)
<1>1. /\ c \in Buffer
      /\ c.entry = [b.entry EXCEPT ![b.in_offs] = e]
      /\ c.in_offs = Advance(b.in_offs)
      /\ c.out_offs = b.out_offs
      /\ c.full = (c.in_offs = c.out_offs)
  BY AddEntryFields
<1>2. b.out_offs = 0 /\ b.in_offs \in Slots /\ b.entry \in [Slots -> Entry]
  BY DEF Shape, Buffer
<1>3. Count(b) = b.in_offs /\ Count(b) < MaxOps
  BY <1>2, CountBounds, MaxOpsAssumption DEF Slots
<1> SUFFICES Contents(c) = Append(Contents(b), e)
  BY <1>3
<1> HIDE DEF c
<1>4. Count(c) = b.in_offs + 1
  <2>1. c.in_offs = IF b.in_offs = MaxOps - 1 THEN 0 ELSE b.in_offs + 1
    BY <1>1, <1>2, AdvanceWraps
  <2>2. CASE b.in_offs = MaxOps - 1
    <3>1. c.in_offs = 0 /\ c.out_offs = 0
      BY <2>1, <2>2, <1>1, <1>2
    <3>2. c.full
      BY <3>1, <1>1
    <3>3. QED  BY <3>2, <2>2, MaxOpsAssumption DEF Count
  <2>3. CASE b.in_offs # MaxOps - 1
    <3>1. ~c.full /\ c.in_offs >= c.out_offs
      <4>1. c.in_offs = b.in_offs + 1 /\ c.out_offs = 0
        BY <2>1, <2>3, <1>1, <1>2
      <4>2. c.in_offs # c.out_offs /\ c.in_offs >= c.out_offs
        BY <4>1, <1>2, MaxOpsAssumption DEF Slots
      <4>3. QED  BY <4>2, <1>1
    <3>2. Count(c) = c.in_offs - c.out_offs
      BY <3>1, <1>1, CountBounds
    <3>3. QED  BY <3>2, <2>1, <2>3, <1>1, <1>2, MaxOpsAssumption DEF Slots
  <2>4. QED  BY <2>2, <2>3
<1>5. /\ Contents(b) \in Seq(Entry) /\ Len(Contents(b)) = b.in_offs
      /\ \A k \in 1 .. b.in_offs : Contents(b)[k] = b.entry[SlotAt(b, k-1)]
      /\ Contents(c) \in Seq(Entry) /\ Len(Contents(c)) = b.in_offs + 1
      /\ \A k \in 1 .. b.in_offs + 1 : Contents(c)[k] = c.entry[SlotAt(c, k-1)]
  BY <1>1, <1>3, <1>4, ContentsAreEntries
<1>6. ASSUME NEW k \in 1 .. b.in_offs + 1
      PROVE  SlotAt(b, k-1) = k-1 /\ SlotAt(c, k-1) = k-1
  <2>1. k-1 \in 0 .. MaxOps /\ k-1 < MaxOps
    BY <1>2, MaxOpsAssumption DEF Slots
  <2>2. QED  BY <2>1, <1>1, <1>2, SlotAtWraps
<1>7. /\ Append(Contents(b), e) \in Seq(Entry)
      /\ Len(Append(Contents(b), e)) = b.in_offs + 1
      /\ \A k \in 1 .. b.in_offs : Append(Contents(b), e)[k] = Contents(b)[k]
      /\ Append(Contents(b), e)[b.in_offs + 1] = e
  BY <1>5, AppendProperties
<1>8. ASSUME NEW k \in 1 .. b.in_offs + 1
      PROVE  Contents(c)[k] = Append(Contents(b), e)[k]
  <2>1. Contents(c)[k] = c.entry[k-1]
    BY <1>5, <1>6
  <2>2. CASE k = b.in_offs + 1
    <3>1. k-1 = b.in_offs
      BY <2>2, <1>2, MaxOpsAssumption DEF Slots
    <3>2. c.entry[k-1] = e
      BY <3>1, <1>1, <1>2
    <3>3. QED  BY <3>2, <2>1, <2>2, <1>7
  <2>3. CASE k # b.in_offs + 1
    <3>1. k \in 1 .. b.in_offs /\ k-1 # b.in_offs /\ k-1 \in Slots
      BY <2>3, <1>2, MaxOpsAssumption DEF Slots
    <3>2. Contents(b)[k] = b.entry[k-1]
      BY <3>1, <1>5, <1>6
    <3>3. QED  BY <3>1, <3>2, <2>1, <1>1, <1>2, <1>7
  <2>4. QED  BY <2>2, <2>3
<1>9. QED
  BY <1>5, <1>7, <1>8, SeqEqual

\* A full buffer gives up its oldest entry and gets the new one at its end.
LEMMA AddEntryToFullOne ==
  ASSUME NEW b \in Buffer, NEW e \in Entry, Shape(b), b.full
  PROVE  LET c == aesd_circular_buffer_add_entry(b, e) IN
         /\ Count(b) = MaxOps
         /\ Contents(c) = Append(Tail(Contents(b)), e)
<1> DEFINE c == aesd_circular_buffer_add_entry(b, e)
           n == MaxOps
<1>1. /\ c \in Buffer
      /\ c.entry = [b.entry EXCEPT ![b.in_offs] = e]
      /\ c.out_offs = Advance(b.out_offs)
      /\ c.full
  BY AddEntryFields
<1>2. b.out_offs = b.in_offs /\ b.in_offs \in Slots /\ b.entry \in [Slots -> Entry]
  BY DEF Shape, Buffer
<1>3. Count(b) = MaxOps /\ Count(c) = MaxOps
  BY <1>1 DEF Count
<1> SUFFICES Contents(c) = Append(Tail(Contents(b)), e)
  BY <1>3
<1> HIDE DEF c
<1>4. /\ Contents(b) \in Seq(Entry) /\ Len(Contents(b)) = MaxOps
      /\ \A k \in 1 .. MaxOps : Contents(b)[k] = b.entry[SlotAt(b, k-1)]
      /\ Contents(c) \in Seq(Entry) /\ Len(Contents(c)) = MaxOps
      /\ \A k \in 1 .. MaxOps : Contents(c)[k] = c.entry[SlotAt(c, k-1)]
  BY <1>1, <1>3, ContentsAreEntries
<1>5. /\ Tail(Contents(b)) \in Seq(Entry) /\ Len(Tail(Contents(b))) = MaxOps - 1
      /\ \A k \in 1 .. MaxOps - 1 : Tail(Contents(b))[k] = Contents(b)[k+1]
  <2>1. Contents(b) # << >>
    BY <1>4, MaxOpsAssumption
  <2>2. QED  BY <2>1, <1>4, HeadTailProperties
<1>6. /\ Append(Tail(Contents(b)), e) \in Seq(Entry)
      /\ Len(Append(Tail(Contents(b)), e)) = MaxOps
      /\ \A k \in 1 .. MaxOps - 1 :
           Append(Tail(Contents(b)), e)[k] = Tail(Contents(b))[k]
      /\ Append(Tail(Contents(b)), e)[MaxOps] = e
  BY <1>5, AppendProperties, MaxOpsAssumption
<1>7. c.out_offs = IF b.out_offs = MaxOps - 1 THEN 0 ELSE b.out_offs + 1
  BY <1>1, <1>2, AdvanceWraps
<1>8. ASSUME NEW k \in 1 .. MaxOps
      PROVE  Contents(c)[k] = Append(Tail(Contents(b)), e)[k]
  <2>1. /\ k-1 \in 0 .. MaxOps /\ k-1 < MaxOps /\ k \in 0 .. MaxOps
    BY MaxOpsAssumption
  <2>2. /\ SlotAt(c, k-1) = IF c.out_offs + (k-1) < MaxOps THEN c.out_offs + (k-1)
                            ELSE c.out_offs + (k-1) - MaxOps
        /\ SlotAt(c, k-1) \in Slots
    BY <2>1, <1>1, SlotAtWraps
  <2>3. Contents(c)[k] = c.entry[SlotAt(c, k-1)]
    BY <1>4
  <2>4. CASE k = MaxOps
    <3>1. SlotAt(c, k-1) = b.in_offs
      BY <2>2, <2>4, <1>2, <1>7, MaxOpsAssumption DEF Slots
    <3>2. QED  BY <3>1, <2>3, <2>4, <1>1, <1>2, <1>6
  <2>5. CASE k # MaxOps
    <3>1. SlotAt(b, k) = IF b.out_offs + k < MaxOps THEN b.out_offs + k
                         ELSE b.out_offs + k - MaxOps
      BY <2>1, SlotAtWraps
    <3>2. SlotAt(c, k-1) = SlotAt(b, k) /\ SlotAt(c, k-1) # b.in_offs
      BY <3>1, <2>1, <2>2, <2>5, <1>2, <1>7, MaxOpsAssumption DEF Slots
    <3>3. k \in 1 .. MaxOps - 1 /\ k+1 \in 1 .. MaxOps /\ (k+1)-1 = k
      BY <2>5, MaxOpsAssumption
    <3>4. Append(Tail(Contents(b)), e)[k] = b.entry[SlotAt(b, k)]
      BY <3>3, <1>4, <1>5, <1>6
    <3>5. QED  BY <3>2, <3>4, <2>2, <2>3, <1>1, <1>2
  <2>6. QED  BY <2>4, <2>5
<1>9. QED
  BY <1>4, <1>6, <1>8, SeqEqual

-----------------------------------------------------------------------------
(***************************************************************************)
(* The sums that the three searches accumulate.  SizeBefore is a recursive *)
(* function: that there is one with these values is shown by the least     *)
(* number of slots for which there would be none.                          *)
(***************************************************************************)
LEMMA LeastElement ==
  ASSUME NEW S, S \subseteq Nat, S # {}
  PROVE  \E j \in S : \A i \in S : j <= i
<1> DEFINE R == {ss \in Nat \X Nat : ss[1] < ss[2]}
<1>1. OpToRel(<, Nat) = R
  BY Zenon DEF OpToRel
<1>2. IsWellFoundedOn(R, Nat)
  BY <1>1, NatLessThanWellFounded, Zenon
<1> SUFFICES ASSUME \A j \in S : \E i \in S : ~(j <= i)
             PROVE  FALSE
  OBVIOUS
<1>3. PICK j \in S : \A i \in S : <<i, j>> \notin R
  <2> HIDE DEF R
  <2> QED  BY <1>2, WFMin, Zenon
<1>4. PICK i \in S : ~(j <= i)
  OBVIOUS
<1>5. <<i, j>> \in R
  BY <1>4
<1>6. QED
  BY <1>3, <1>5

Size(b, k) == b.entry[SlotAt(b, k-1)].size

LEMMA SizeIsNatural ==
  ASSUME NEW b \in Buffer, NEW k \in 1 .. MaxOps
  PROVE  Size(b, k) \in Nat
<1>1. k-1 \in 0 .. MaxOps
  BY MaxOpsAssumption
<1>2. SlotAt(b, k-1) \in Slots
  BY <1>1, SlotAtWraps
<1>3. QED
  BY <1>2 DEF Size, Buffer, Entry

LEMMA SumsExist ==
  ASSUME NEW b \in Buffer, NEW n \in 0 .. MaxOps
  PROVE  \E f \in [0 .. n -> Nat] : f[0] = 0 /\ \A k \in 1 .. n : f[k] = f[k-1] + Size(b, k)
<1> DEFINE Sums(m, f) == f[0] = 0 /\ \A k \in 1 .. m : f[k] = f[k-1] + Size(b, k)
           None == {m \in 0 .. MaxOps : ~ \E f \in [0 .. m -> Nat] : Sums(m, f)}
<1> SUFFICES ASSUME None # {} PROVE FALSE
  <2>1. n \notin None => \E f \in [0 .. n -> Nat] : Sums(n, f)
    OBVIOUS
  <2>2. QED  BY <2>1
<1>1. None \subseteq Nat
  BY MaxOpsAssumption
<1>2. PICK m \in None : \A i \in None : m <= i
  <2> HIDE DEF None
  <2> QED  BY <1>1, LeastElement
<1>3. m \in 0 .. MaxOps /\ m \in Nat
  BY MaxOpsAssumption
<1>4. CASE m = 0
  <2>1. [k \in 0 .. 0 |-> 0] \in [0 .. 0 -> Nat] /\ Sums(0, [k \in 0 .. 0 |-> 0])
    OBVIOUS
  <2>2. QED  BY <2>1, <1>4
<1>5. CASE m # 0
  <2>1. m - 1 \in 0 .. MaxOps /\ ~(m <= m - 1) /\ m - 1 \in Nat /\ m \in 1 .. MaxOps
    BY <1>3, <1>5, MaxOpsAssumption
  <2>2. m - 1 \notin None
    BY <1>2, <2>1
  <2>3. PICK f \in [0 .. m - 1 -> Nat] : Sums(m - 1, f)
    BY <2>1, <2>2
  <2> DEFINE g == [k \in 0 .. m |-> IF k = m THEN f[m - 1] + Size(b, m) ELSE f[k]]
  <2>4. Size(b, m) \in Nat
    BY <2>1, SizeIsNatural
  <2>5. g \in [0 .. m -> Nat]
    BY <1>3, <2>1, <2>3, <2>4
  <2>6. g[0] = 0
    BY <1>3, <1>5, <2>3
  <2>7. ASSUME NEW k \in 1 .. m
        PROVE  g[k] = g[k-1] + Size(b, k)
    <3>1. g[k-1] = f[k-1] /\ k-1 # m
      BY <1>3, <2>1
    <3>2. CASE k = m
      BY <1>3, <3>1, <3>2
    <3>3. CASE k # m
      <4>1. k \in 1 .. m - 1 /\ k \in 0 .. m
        BY <1>3, <3>3
      <4>2. QED  BY <2>3, <3>1, <3>3, <4>1
    <3>4. QED  BY <3>2, <3>3
  <2> HIDE DEF g
  <2>8. Sums(m, g)
    BY <2>6, <2>7
  <2>9. QED
    BY <2>5, <2>8
<1>6. QED
  BY <1>4, <1>5

\* What the loops accumulate, slot by slot (aesd-circular-buffer.c:44-55,
\* :121-129 and :146-157).
LEMMA SizeBeforeSums ==
  ASSUME NEW b \in Buffer
  PROVE  /\ SizeBefore(b) \in [0 .. MaxOps -> Nat]
         /\ SizeBefore(b)[0] = 0
         /\ \A k \in 1 .. MaxOps : SizeBefore(b)[k] = SizeBefore(b)[k-1] + Size(b, k)
<1> DEFINE P(f) == f = [k \in 0 .. MaxOps |->
                         IF k = 0 THEN 0 ELSE f[k-1] + b.entry[SlotAt(b, k-1)].size]
           s == CHOOSE f : P(f)
<1>1. SizeBefore(b) = s
  BY DEF SizeBefore
<1>2. PICK f \in [0 .. MaxOps -> Nat] :
        f[0] = 0 /\ \A k \in 1 .. MaxOps : f[k] = f[k-1] + Size(b, k)
  BY SumsExist, MaxOpsAssumption
<1>3. \A k \in 0 .. MaxOps : f[k] = IF k = 0 THEN 0 ELSE f[k-1] + b.entry[SlotAt(b, k-1)].size
  BY <1>2 DEF Size
<1>4. P(f)
  BY <1>2, <1>3
<1>5. P(s)
  BY <1>4
<1> HIDE DEF s
<1>6. /\ s[0] = 0 /\ DOMAIN s = 0 .. MaxOps
      /\ \A k \in 1 .. MaxOps : s[k] = s[k-1] + Size(b, k)
  <2>1. 0 \in 0 .. MaxOps /\ \A k \in 1 .. MaxOps : k \in 0 .. MaxOps /\ k # 0
    BY MaxOpsAssumption
  <2>2. QED  BY <1>5, <2>1 DEF Size
<1> DEFINE Differ == {k \in 0 .. MaxOps : s[k] # f[k]}
<1>7. Differ = {}
  <2> SUFFICES ASSUME Differ # {} PROVE FALSE
    OBVIOUS
  <2>1. Differ \subseteq Nat
    BY MaxOpsAssumption
  <2>2. PICK m \in Differ : \A i \in Differ : m <= i
    <3> HIDE DEF Differ
    <3> QED  BY <2>1, LeastElement
  <2>3. m \in 1 .. MaxOps
    BY <1>2, <1>6, MaxOpsAssumption
  <2>4. m - 1 \in 0 .. MaxOps /\ ~(m <= m - 1)
    BY <2>3, MaxOpsAssumption
  <2>5. s[m-1] = f[m-1]
    BY <2>2, <2>4
  <2>6. QED
    BY <1>2, <1>6, <2>3, <2>5
<1>8. \A k \in 0 .. MaxOps : s[k] = f[k]
  BY <1>7
<1>9. s \in [0 .. MaxOps -> Nat]
  <2>1. \A k \in 0 .. MaxOps : s[k] \in Nat
    BY <1>2, <1>8
  <2>2. s = [k \in 0 .. MaxOps |-> s[k]]
    BY <1>5
  <2>3. QED  BY <2>1, <2>2
<1>10. QED
  BY <1>1, <1>6, <1>9

LEMMA SizeBeforeMonotone ==
  ASSUME NEW b \in Buffer, NEW i \in 0 .. MaxOps, NEW j \in 0 .. MaxOps, i <= j
  PROVE  SizeBefore(b)[i] <= SizeBefore(b)[j]
<1> DEFINE s == SizeBefore(b)
           Less == {k \in 0 .. MaxOps : i <= k /\ ~(s[i] <= s[k])}
<1>1. /\ s \in [0 .. MaxOps -> Nat]
      /\ \A k \in 1 .. MaxOps : s[k] = s[k-1] + Size(b, k) /\ Size(b, k) \in Nat
  BY SizeBeforeSums, SizeIsNatural
<1> HIDE DEF s
<1> SUFFICES ASSUME Less # {} PROVE FALSE
  BY DEF s
<1>2. Less \subseteq Nat
  BY MaxOpsAssumption
<1>3. PICK m \in Less : \A k \in Less : m <= k
  <2> HIDE DEF Less
  <2> QED  BY <1>2, LeastElement
<1>4. m \in 1 .. MaxOps /\ i <= m - 1 /\ m - 1 \in 0 .. MaxOps /\ ~(m <= m - 1)
  <2>1. m # i
    BY <1>1
  <2>2. QED  BY <2>1, MaxOpsAssumption
<1>5. s[i] <= s[m-1]
  BY <1>3, <1>4
<1>6. s[m] = s[m-1] + Size(b, m) /\ Size(b, m) \in Nat /\ s[m-1] \in Nat /\ s[i] \in Nat
  BY <1>1, <1>4
<1>7. s[i] <= s[m]
  BY <1>5, <1>6
<1>8. QED
  BY <1>7

-----------------------------------------------------------------------------
(***************************************************************************)
(* What the searches return.  Once a command is kept the loop visits the   *)
(* slots that hold one, oldest first, and no other.                        *)
(***************************************************************************)
LEMMA VisitedBounds ==
  ASSUME NEW b \in Buffer
  PROVE  /\ Visited(b) \in 1 .. MaxOps
         /\ Shape(b) /\ Count(b) > 0 => Visited(b) = Count(b)
         /\ Count(b) = 0 => Visited(b) = MaxOps
<1>1. b.out_offs \in Slots /\ b.in_offs \in Slots /\ b.full \in BOOLEAN
  BY DEF Buffer
<1> DEFINE d == (b.in_offs - b.out_offs) % MaxOps
           x == b.in_offs - b.out_offs
<1>2. x \in Int /\ -MaxOps < x /\ x < MaxOps /\ MaxOps \in Nat \ {0}
  BY <1>1, MaxOpsAssumption DEF Slots
<1>3. Shape(b) /\ b.full => x = 0
  BY <1>1 DEF Shape, Slots
<1>4. d = IF x < 0 THEN x + MaxOps ELSE x
  <2>1. x % MaxOps = IF x < 0 THEN x + MaxOps ELSE x
    <3> HIDE DEF x
    <3> QED  BY <1>2
  <2>2. QED  BY <2>1
<1>5. d \in 0 .. MaxOps - 1 /\ (Shape(b) /\ b.full => d = 0)
  BY <1>2, <1>3, <1>4
<1>6. Visited(b) = IF d = 0 THEN MaxOps ELSE d
  BY DEF Visited
<1>7. Count(b) = IF b.full THEN MaxOps ELSE d
  BY DEF Count
<1> HIDE DEF d, x
<1>8. QED
  BY <1>1, <1>2, <1>5, <1>6, <1>7

\* The search stops at the first slot whose end lies beyond the offset.
LEMMA FindsByte ==
  ASSUME NEW b \in Buffer, NEW off \in Nat, NEW k \in 0 .. Visited(b) - 1,
         SizeBefore(b)[k] <= off, off < SizeBefore(b)[k+1]
  PROVE  aesd_circular_buffer_find_entry_offset_for_fpos(b, off) =
           [slot |-> SlotAt(b, k), entry_offset |-> off - SizeBefore(b)[k]]
<1> DEFINE s    == SizeBefore(b)
           hits == {i \in 0 .. Visited(b) - 1 : off < s[i+1]}
           m    == CHOOSE i \in hits : \A j \in hits : i <= j
<1>1. Visited(b) \in 1 .. MaxOps /\ MaxOps \in Nat
  BY VisitedBounds, MaxOpsAssumption
<1>2. k \in hits
  OBVIOUS
<1>3. ASSUME NEW j \in hits
      PROVE  k <= j
  <2> SUFFICES ASSUME j < k PROVE FALSE
    BY <1>1
  <2>1. j + 1 \in 0 .. MaxOps /\ k \in 0 .. MaxOps /\ j + 1 <= k
    BY <1>1
  <2>2. s[j+1] <= s[k]
    BY <2>1, SizeBeforeMonotone
  <2>3. s[j+1] \in Nat /\ s[k] \in Nat
    BY <2>1, SizeBeforeSums
  <2>4. off < s[j+1] /\ s[k] <= off
    OBVIOUS
  <2> HIDE DEF s
  <2>5. QED  BY <2>2, <2>3, <2>4
<1>4. m = k
  <2>1. m \in hits /\ \A j \in hits : m <= j
    BY <1>2, <1>3
  <2>2. m \in Int /\ k \in Int
    BY <1>1, <2>1
  <2> HIDE DEF m, hits
  <2>3. QED  BY <1>2, <1>3, <2>1, <2>2
<1>5. aesd_circular_buffer_find_entry_offset_for_fpos(b, off) =
        IF hits = {} THEN NotFound
        ELSE [slot |-> SlotAt(b, m), entry_offset |-> off - s[m]]
  BY DEF aesd_circular_buffer_find_entry_offset_for_fpos
<1> HIDE DEF m, hits
<1>6. QED
  BY <1>2, <1>4, <1>5

LEMMA FindsNothing ==
  ASSUME NEW b \in Buffer, NEW off \in Nat,
         off >= aesd_circular_buffer_content_length(b)
  PROVE  aesd_circular_buffer_find_entry_offset_for_fpos(b, off) = NotFound
<1> DEFINE s    == SizeBefore(b)
           hits == {i \in 0 .. Visited(b) - 1 : off < s[i+1]}
<1>1. Visited(b) \in 1 .. MaxOps /\ MaxOps \in Nat
  BY VisitedBounds, MaxOpsAssumption
<1>2. s[Visited(b)] <= off
  BY DEF aesd_circular_buffer_content_length
<1>3. ASSUME NEW i \in hits
      PROVE  FALSE
  <2>1. i + 1 \in 0 .. MaxOps /\ Visited(b) \in 0 .. MaxOps /\ i + 1 <= Visited(b)
    BY <1>1
  <2>2. s[i+1] <= s[Visited(b)] /\ s[i+1] \in Nat /\ s[Visited(b)] \in Nat
    BY <2>1, SizeBeforeMonotone, SizeBeforeSums
  <2>3. off < s[i+1]
    OBVIOUS
  <2> HIDE DEF s
  <2>4. QED  BY <1>2, <2>2, <2>3
<1>4. QED
  BY <1>3 DEF aesd_circular_buffer_find_entry_offset_for_fpos

\* Each offset below the length lies in exactly one of the slots visited.
LEMMA ByteHasSlot ==
  ASSUME NEW b \in Buffer, NEW off \in Nat, off < aesd_circular_buffer_content_length(b)
  PROVE  \E k \in 0 .. Visited(b) - 1 : SizeBefore(b)[k] <= off /\ off < SizeBefore(b)[k+1]
<1> DEFINE s      == SizeBefore(b)
           Beyond == {i \in 0 .. Visited(b) : off < s[i]}
<1>1. Visited(b) \in 1 .. MaxOps /\ MaxOps \in Nat
  BY VisitedBounds, MaxOpsAssumption
<1>2. s \in [0 .. MaxOps -> Nat] /\ s[0] = 0
  BY SizeBeforeSums
<1>3. off < s[Visited(b)]
  BY DEF aesd_circular_buffer_content_length
<1> HIDE DEF s
<1>4. Visited(b) \in Beyond /\ Beyond \subseteq Nat
  BY <1>1, <1>3
<1>5. PICK m \in Beyond : \A i \in Beyond : m <= i
  <2> HIDE DEF Beyond
  <2> QED  BY <1>4, LeastElement
<1>6. m \in 0 .. Visited(b) /\ off < s[m] /\ m # 0
  BY <1>2
<1>7. m - 1 \in 0 .. Visited(b) - 1 /\ m - 1 \in 0 .. Visited(b) /\ ~(m <= m - 1)
      /\ (m - 1) + 1 = m /\ m - 1 \in 0 .. MaxOps
  BY <1>1, <1>6
<1>8. ~(off < s[m-1]) /\ s[m-1] \in Nat
  BY <1>2, <1>5, <1>7
<1>9. s[m-1] <= off
  BY <1>8
<1>10. QED
  BY <1>6, <1>7, <1>9 DEF s

\* A position without a command is refused.
LEMMA SeekRefused ==
  ASSUME NEW b \in Buffer, Shape(b), Count(b) > 0, NEW p \in Count(b) .. 255, NEW o
  PROVE  aesd_circular_buffer_find_fpos_at_position(b, p, o) = -EINVAL
<1>1. Visited(b) = Count(b) /\ Count(b) \in 0 .. MaxOps /\ MaxOps \in 1 .. 255
  BY VisitedBounds, CountBounds, MaxOpsAssumption
<1>2. ToUint8(p) = p /\ ~(p < Visited(b))
  BY <1>1 DEF ToUint8
<1>3. QED
  BY <1>2 DEF aesd_circular_buffer_find_fpos_at_position

-----------------------------------------------------------------------------
(***************************************************************************)
(* A sequence of sequences laid end to end: t holds where each part ends.  *)
(***************************************************************************)
LEMMA PartsExist ==
  ASSUME NEW S, NEW L \in Seq(Seq(S)), Len(L) > 0
  PROVE  \E f \in [1 .. Len(L) -> Seq(S)] :
           \A i \in 1 .. Len(L) : f[i] = IF i = 1 THEN L[i] ELSE f[i-1] \o L[i]
<1> DEFINE n == Len(L)
           Laid(m, f) == \A i \in 1 .. m : f[i] = IF i = 1 THEN L[i] ELSE f[i-1] \o L[i]
           None == {m \in 1 .. n : ~ \E f \in [1 .. m -> Seq(S)] : Laid(m, f)}
<1>1. n \in Nat /\ n > 0 /\ \A i \in 1 .. n : L[i] \in Seq(S)
  BY LenProperties, ElementOfSeq
<1> HIDE DEF n
<1> SUFFICES ASSUME None # {} PROVE FALSE
  <2>1. n \in 1 .. n
    BY <1>1
  <2>2. n \notin None => \E f \in [1 .. n -> Seq(S)] : Laid(n, f)
    BY <2>1
  <2>3. QED  BY <2>2 DEF n
<1>2. PICK m \in None : \A i \in None : m <= i
  <2>1. None \subseteq Nat
    BY <1>1
  <2> HIDE DEF None
  <2> QED  BY <2>1, LeastElement
<1>3. m \in 1 .. n /\ m \in Nat /\ L[m] \in Seq(S)
  BY <1>1
<1>4. CASE m = 1
  <2> DEFINE f == [i \in 1 .. 1 |-> L[1]]
  <2>1. f \in [1 .. 1 -> Seq(S)] /\ Laid(1, f)
    BY <1>3, <1>4
  <2> HIDE DEF f
  <2>2. QED  BY <2>1, <1>4
<1>5. CASE m # 1
  <2>1. m - 1 \in 1 .. n /\ ~(m <= m - 1) /\ m - 1 \in 1 .. m
    BY <1>1, <1>3, <1>5
  <2>2. PICK f \in [1 .. m - 1 -> Seq(S)] : Laid(m - 1, f)
    BY <1>2, <2>1
  <2>3. f[m-1] \in Seq(S)
    BY <2>1
  <2> DEFINE last == f[m-1] \o L[m]
  <2>4. last \in Seq(S)
    BY <1>3, <2>3, ConcatProperties
  <2>5. last = f[m-1] \o L[m]
    OBVIOUS
  <2> HIDE DEF last
  <2> DEFINE g == [i \in 1 .. m |-> IF i = m THEN last ELSE f[i]]
  <2>6. g \in [1 .. m -> Seq(S)]
    BY <1>3, <2>4
  <2>7. ASSUME NEW i \in 1 .. m
        PROVE  g[i] = IF i = 1 THEN L[i] ELSE g[i-1] \o L[i]
    <3>1. CASE i = m
      <4>1. g[m] = last /\ g[m-1] = f[m-1]
        BY <1>3, <2>1
      <4> HIDE DEF g
      <4>2. QED  BY <1>5, <2>5, <3>1, <4>1
    <3>2. CASE i # m
      <4>1. i \in 1 .. m - 1 /\ (i # 1 => i - 1 \in 1 .. m /\ i - 1 # m)
        BY <1>3, <3>2
      <4>2. g[i] = f[i] /\ (i # 1 => g[i-1] = f[i-1])
        BY <3>2, <4>1
      <4>3. f[i] = IF i = 1 THEN L[i] ELSE f[i-1] \o L[i]
        BY <2>2, <4>1
      <4> HIDE DEF g
      <4>4. QED  BY <4>2, <4>3
    <3>3. QED  BY <3>1, <3>2
  <2> HIDE DEF g
  <2>8. Laid(m, g)
    BY <2>7
  <2>9. QED  BY <1>2, <2>6, <2>8
<1>6. QED  BY <1>4, <1>5

LEMMA FlattenParts ==
  ASSUME NEW S, NEW L \in Seq(Seq(S)), NEW t \in [0 .. Len(L) -> Nat], t[0] = 0,
         \A k \in 1 .. Len(L) : t[k] = t[k-1] + Len(L[k])
  PROVE  /\ FlattenSeq(L) \in Seq(S) /\ Len(FlattenSeq(L)) = t[Len(L)]
         /\ \A k \in 1 .. Len(L) :
              /\ t[k] <= t[Len(L)]
              /\ \A j \in 1 .. Len(L[k]) : FlattenSeq(L)[t[k-1] + j] = L[k][j]
<1> DEFINE n == Len(L)
<1>1. n \in Nat /\ \A i \in 1 .. n : L[i] \in Seq(S) /\ Len(L[i]) \in Nat
  BY LenProperties, ElementOfSeq
<1>2. CASE n = 0
  <2>1. L = << >>
    BY <1>2, EmptySeq
  <2>2. FlattenSeq(L) = << >>
    BY <1>2, <2>1 DEF FlattenSeq
  <2>3. QED  BY <1>2, <2>1, <2>2, EmptySeq
<1>3. CASE n # 0
  <2> DEFINE P(f) == f = [i \in 1 .. Len(L) |-> IF i = 1 THEN L[i] ELSE f[i-1] \o L[i]]
             h == CHOOSE f : P(f)
  <2>1. FlattenSeq(L) = h[n]
    BY <1>1, <1>3 DEF FlattenSeq
  <2>2. P(h)
    <3> Len(L) > 0
      BY <1>1, <1>3
    <3>1. PICK f \in [1 .. Len(L) -> Seq(S)] :
            \A i \in 1 .. Len(L) : f[i] = IF i = 1 THEN L[i] ELSE f[i-1] \o L[i]
      BY PartsExist
    <3>2. P(f)
      BY <3>1
    <3>3. QED  BY <3>2
  <2> HIDE DEF h
  <2>3. \A i \in 1 .. n : h[i] = IF i = 1 THEN L[i] ELSE h[i-1] \o L[i]
    BY <2>2
  <2> HIDE DEF n
  <2> DEFINE Good(i) == /\ h[i] \in Seq(S) /\ Len(h[i]) = t[i]
                        /\ \A k \in 1 .. i :
                             /\ t[k] <= t[i]
                             /\ \A j \in 1 .. Len(L[k]) : h[i][t[k-1] + j] = L[k][j]
             Bad == {i \in 1 .. n : ~Good(i)}
  <2>4. t \in [0 .. n -> Nat] /\ \A k \in 1 .. n : t[k] = t[k-1] + Len(L[k])
    BY DEF n
  <2>5. Bad = {}
    <3> SUFFICES ASSUME Bad # {} PROVE FALSE
      OBVIOUS
    <3>1. PICK m \in Bad : \A i \in Bad : m <= i
      <4>1. Bad \subseteq Nat
        BY <1>1
      <4> HIDE DEF Bad
      <4> QED  BY <4>1, LeastElement
    <3>2. m \in 1 .. n /\ m \in Nat /\ L[m] \in Seq(S) /\ Len(L[m]) \in Nat
      BY <1>1
    <3>3. CASE m = 1
      <4>1. h[1] = L[1] /\ t[1] = t[0] + Len(L[1])
        <5>1. 1 \in 1 .. n /\ 1 - 1 = 0
          BY <3>2, <3>3
        <5>2. h[1] = L[1]
          BY <2>3, <5>1
        <5>3. t[1] = t[1-1] + Len(L[1])
          BY <2>4, <5>1
        <5>4. QED  BY <5>1, <5>2, <5>3
      <4>2. t[1] = Len(L[1])
        BY <4>1, <3>2, <3>3
      <4>3. \A k \in 1 .. 1 : k = 1 /\ k - 1 = 0
        OBVIOUS
      <4>4. \A j \in 1 .. Len(L[1]) : h[1][t[0] + j] = L[1][j]
        BY <4>1
      <4>5. t[1] \in Nat
        BY <4>2, <3>2, <3>3
      <4>6. Good(1)
        BY <3>2, <3>3, <4>1, <4>2, <4>3, <4>4, <4>5
      <4>7. QED  BY <3>1, <3>3, <4>6
    <3>4. CASE m # 1
      <4>1. m - 1 \in 1 .. n /\ ~(m <= m - 1)
        BY <1>1, <3>2, <3>4
      <4>2. m - 1 \notin Bad
        BY <3>1, <4>1
      <4>3. Good(m - 1)
        BY <4>1, <4>2
      <4> DEFINE u == h[m-1]
                 v == L[m]
                 x == t[m-1]
      <4>4. /\ u \in Seq(S) /\ v \in Seq(S) /\ Len(u) = x /\ Len(v) \in Nat /\ x \in Nat
            /\ h[m] = u \o v /\ t[m] = x + Len(v)
        <5>1. u \in Seq(S) /\ Len(u) = x
          BY <4>3
        <5>2. x \in Nat
          BY <5>1, LenProperties
        <5>3. h[m] = u \o v
          BY <2>3, <3>2, <3>4
        <5>4. t[m] = x + Len(v)
          BY <2>4, <3>2
        <5> HIDE DEF u, v, x, Good
        <5>5. v \in Seq(S) /\ Len(v) \in Nat
          BY <3>2 DEF v
        <5>6. QED  BY <5>1, <5>2, <5>3, <5>4, <5>5
      <4>5. \A k \in 1 .. m - 1 : t[k] <= x /\ \A j \in 1 .. Len(L[k]) : u[t[k-1] + j] = L[k][j]
        BY <4>3
      <4> HIDE DEF u, x
      <4>6. /\ u \o v \in Seq(S) /\ Len(u \o v) = x + Len(v)
            /\ \A i \in 1 .. x + Len(v) : (u \o v)[i] = IF i <= x THEN u[i] ELSE v[i - x]
        BY <4>4, ConcatProperties
      <4>7. ASSUME NEW k \in 1 .. m
            PROVE  /\ t[k] <= t[m]
                   /\ \A j \in 1 .. Len(L[k]) : h[m][t[k-1] + j] = L[k][j]
        <5>1. /\ k \in 1 .. n /\ t[k] = t[k-1] + Len(L[k]) /\ t[k-1] \in Nat
              /\ Len(L[k]) \in Nat /\ t[k] \in Nat
          <6>1. k \in 1 .. n /\ k \in 0 .. n /\ k - 1 \in 0 .. n
            <7>1. k \in Nat /\ 1 <= k /\ k <= m /\ m <= n /\ m \in Nat /\ n \in Nat
              BY <1>1, <3>2
            <7>2. QED  BY ONLY <7>1
          <6>2. QED  BY <6>1, <1>1, <2>4
        <5>2. CASE k = m
          <6>1. t[k-1] = x
            BY <5>2 DEF x
          <6>2. ASSUME NEW j \in 1 .. Len(v)
                PROVE  (u \o v)[x + j] = v[j]
            <7>1. x + j \in 1 .. x + Len(v) /\ ~(x + j <= x) /\ (x + j) - x = j
              BY <4>4
            <7>2. QED  BY <4>6, <7>1
          <6>3. t[k] <= t[m]
            BY <4>4, <5>1, <5>2
          <6>4. \A j \in 1 .. Len(L[k]) : h[m][t[k-1] + j] = L[k][j]
            BY <4>4, <5>2, <6>1, <6>2
          <6>5. QED  BY <6>3, <6>4
        <5>3. CASE k # m
          <6>1. k \in 1 .. m - 1
            BY <3>2, <5>3
          <6>2. t[k] <= x /\ x <= t[m]
            <7>1. t[k] <= x
              BY <4>5, <6>1
            <7>2. x <= x + Len(v)
              BY <4>4
            <7>3. QED  BY <4>4, <7>1, <7>2
          <6>3. ASSUME NEW j \in 1 .. Len(L[k])
                PROVE  h[m][t[k-1] + j] = L[k][j]
            <7>1. t[k-1] + j \in 1 .. x + Len(v) /\ t[k-1] + j <= x
              <8> DEFINE a == t[k-1]
                         w == Len(L[k])
                         z == Len(v)
              <8>1. a \in Nat /\ w \in Nat /\ t[k] = a + w /\ x \in Nat /\ z \in Nat
                    /\ a + w <= x /\ j \in 1 .. w
                BY <4>4, <5>1, <6>2
              <8> HIDE DEF a, w, z
              <8>2. a + j \in 1 .. x + z /\ a + j <= x
                BY <8>1
              <8>3. QED  BY <8>2 DEF a, z
            <7>2. (u \o v)[t[k-1] + j] = u[t[k-1] + j]
              BY <4>6, <7>1
            <7>3. QED  BY <4>4, <4>5, <6>1, <7>2
          <6>4. t[k] <= t[m]
            <7> DEFINE a == t[k]
                       z == t[m]
            <7>1. a \in Nat
              BY <5>1
            <7>2. z \in Nat /\ x \in Nat
              BY <4>4
            <7> HIDE DEF a, z
            <7>3. a <= x /\ x <= z
              BY <6>2 DEF a, z
            <7>4. a <= z
              BY ONLY <7>1, <7>2, <7>3
            <7>5. QED  BY <7>4 DEF a, z
          <6>5. QED  BY <6>3, <6>4
        <5>4. QED  BY <5>2, <5>3
      <4>8. h[m] \in Seq(S) /\ Len(h[m]) = t[m]
        BY <4>4, <4>6
      <4>9. Good(m)
        BY <4>7, <4>8
      <4>10. QED  BY <3>1, <4>9
    <3>5. QED  BY <3>3, <3>4
  <2>6. n \in 1 .. n
    BY <1>1, <1>3
  <2>7. Good(n)
    BY <2>5, <2>6
  <2>8. QED  BY <2>1, <2>7 DEF n
<1>4. QED  BY <1>2, <1>3

\* A buffer without commands has only zeroed slots, so the loop that visits
\* all of them adds nothing up.
LEMMA EmptyHasNoBytes ==
  ASSUME NEW b \in Buffer, Shape(b), Count(b) = 0
  PROVE  aesd_circular_buffer_content_length(b) = 0
<1> DEFINE s == SizeBefore(b)
           Positive == {k \in 0 .. MaxOps : s[k] # 0}
<1>1. MaxOps \in Nat /\ MaxOps >= 1 /\ b.in_offs \in Slots /\ b.full \in BOOLEAN
  BY MaxOpsAssumption DEF Buffer
<1>2. ~b.full
  BY <1>1 DEF Count
<1>3. b.out_offs = 0 /\ \A i \in Slots : i >= b.in_offs => b.entry[i] = NoEntry
  BY <1>2 DEF Shape
<1>4. b.in_offs = 0
  BY <1>1, <1>2, <1>3, CountBounds DEF Slots
<1>5. ASSUME NEW k \in 1 .. MaxOps
      PROVE  Size(b, k) = 0
  <2>1. k-1 \in 0 .. MaxOps
    BY <1>1
  <2>2. SlotAt(b, k-1) \in Slots
    BY <2>1, SlotAtWraps
  <2>3. b.entry[SlotAt(b, k-1)] = NoEntry
    BY <1>3, <1>4, <2>2 DEF Slots
  <2>4. QED  BY <2>3 DEF Size, NoEntry
<1>6. s \in [0 .. MaxOps -> Nat] /\ s[0] = 0
      /\ \A k \in 1 .. MaxOps : s[k] = s[k-1] + Size(b, k)
  BY SizeBeforeSums
<1> HIDE DEF s
<1>7. Positive = {}
  <2> SUFFICES ASSUME Positive # {} PROVE FALSE
    OBVIOUS
  <2>1. PICK m \in Positive : \A i \in Positive : m <= i
    <3>1. Positive \subseteq Nat
      BY <1>1
    <3> HIDE DEF Positive
    <3> QED  BY <3>1, LeastElement
  <2>2. m \in 1 .. MaxOps /\ m-1 \in 0 .. MaxOps /\ ~(m <= m-1)
    BY <1>1, <1>6
  <2>3. s[m-1] = 0
    BY <2>1, <2>2
  <2>4. s[m] = s[m-1] + Size(b, m) /\ Size(b, m) = 0
    BY <1>5, <1>6, <2>2
  <2>5. QED  BY <2>3, <2>4
<1>8. Visited(b) \in 0 .. MaxOps
  BY <1>1, VisitedBounds
<1>9. QED
  BY <1>7, <1>8 DEF s, aesd_circular_buffer_content_length

\* The length is the sum over the commands that are kept.
LEMMA LengthIsSum ==
  ASSUME NEW b \in Buffer, Shape(b)
  PROVE  aesd_circular_buffer_content_length(b) = SizeBefore(b)[Count(b)]
<1>1. Count(b) \in 0 .. MaxOps /\ MaxOps \in Nat
  BY CountBounds, MaxOpsAssumption
<1>2. CASE Count(b) = 0
  BY <1>2, EmptyHasNoBytes, SizeBeforeSums
<1>3. CASE Count(b) # 0
  <2>1. Count(b) > 0
    BY <1>1, <1>3
  <2>2. QED  BY <2>1, VisitedBounds DEF aesd_circular_buffer_content_length
<1>4. QED  BY <1>2, <1>3
=============================================================================
