-------------------------- MODULE ConnectionIOProofs --------------------------
(***************************************************************************)
(* Proofs of the invariants of ConnectionIO, for any streams and contents, *)
(* any sizes of blocks and pieces and any faults.                          *)
(***************************************************************************)
EXTENDS ConnectionIO, SequenceTheorems, FiniteSetTheorems, NaturalsInduction, TLAPS

Answering == {"fetch", "send", "close"}

\* Until its answer starts a request has neither moved the file nor sent; then
\* what is sent, with the piece in hand, is the device from where the answer
\* starts to the file's position.
AnswerSoFar ==
  /\ stage \in {"parse", "seek", "write"} =>
       pos = 0 /\ start = 0 /\ sent = << >> /\ piece = << >>
  /\ stage \in Answering =>
       /\ start <= pos /\ pos <= Len(contents)
       /\ sent \o piece = SubSeq(contents, start + 1, pos)
  /\ stage \in {"fetch", "close"} => piece = << >>
  /\ stage = "close" => pos = Len(contents)

\* A request that went to the device as a command is its end, and is answered
\* from the beginning.
CommandIsLast ==
  /\ stage = "seek" => HasKey(buf) \/ missed = "stale"
  /\ stage \in Answering /\ ~HasKey(buf) /\ missed = "no" =>
       /\ start = 0
       /\ Len(buf) <= Len(contents)
       /\ SubSeq(contents, Len(contents) - Len(buf) + 1, Len(contents)) = buf

\* The device is closed before the next request is read.
OpenWhileBusy == stage \in Reading \cup {"open"} => ~filed

IInv ==
  /\ TypeOK /\ RoomToRead /\ StreamInOrder
  /\ AnswerSoFar /\ CommandIsLast /\ OpenWhileBusy /\ EndReleases

-----------------------------------------------------------------------------
(***************************************************************************)
(* Sequences, and what stays of the device when a command is written.      *)
(***************************************************************************)

\* Three sequences in a row.
LEMMA Associative ==
  \A s, t, u \in Seq(Byte) : (s \o t) \o u = s \o (t \o u)
BY ConcatAssociative

\* A part of a sequence is a sequence.
LEMMA PartOfSeq ==
  ASSUME NEW S, NEW s \in Seq(S), NEW m \in Nat \ {0}, NEW n \in Nat, n <= Len(s)
  PROVE  /\ SubSeq(s, m, n) \in Seq(S)
         /\ Len(SubSeq(s, m, n)) = IF m <= n THEN n - m + 1 ELSE 0
<1>1. \A i \in m .. n : i \in 1 .. Len(s)
  BY LenProperties
<1>2. \A i \in m .. n : s[i] \in S
  BY <1>1, ElementOfSeq
<1>3. QED
  BY <1>2, SubSeqProperties

\* A sequence that is cut in two is put together again.
LEMMA CutInTwo ==
  ASSUME NEW S, NEW s \in Seq(S), NEW n \in 0 .. Len(s)
  PROVE  SubSeq(s, 1, n) \o SubSeq(s, n + 1, Len(s)) = s
<1>1. Len(s) \in Nat
  BY LenProperties
<1>2. 1 \in 1 .. Len(s) + 1 /\ n \in (1 - 1) .. Len(s) /\ Len(s) \in n .. Len(s)
  BY <1>1
<1>3. QED
  BY <1>2, ConcatAdjacentSubSeq, SubSeqFull

\* The end of a concatenation is its second part.
LEMMA EndOfConcat ==
  ASSUME NEW S, NEW s \in Seq(S), NEW t \in Seq(S), t # << >>
  PROVE  SubSeq(s \o t, Len(s \o t) - Len(t) + 1, Len(s \o t)) = t
<1>1. Len(s) \in Nat /\ Len(t) \in Nat \ {0} /\ Len(s \o t) = Len(s) + Len(t)
  BY LenProperties, EmptySeq, ConcatProperties
<1>2. /\ Len(s \o t) - Len(t) + 1 = Len(s) + 1
      /\ Len(s) + 1 \in Len(s) + 1 .. Len(s) + Len(t)
      /\ Len(s) + Len(t) \in Len(s) + 1 .. Len(s) + Len(t)
      /\ Len(s) + 1 - Len(s) = 1 /\ Len(s) + Len(t) - Len(s) = Len(t)
  BY <1>1
<1>3. SubSeq(s \o t, Len(s) + 1, Len(s) + Len(t)) = SubSeq(t, 1, Len(t))
  BY <1>2, SubSeqOfConcat2
<1>4. QED
  BY <1>1, <1>2, <1>3, SubSeqFull

\* A set of numbers that is not empty has a least element.
LEMMA LeastElement ==
  ASSUME NEW S \in SUBSET Nat, S # {}
  PROVE  \E m \in S : \A n \in S : m <= n
<1> DEFINE Less == OpToRel(<, Nat)
<1>1. PICK m \in S : \A n \in S : ~(<<n, m>> \in Less)
  BY NatLessThanWellFounded, WFMin
<1>2. \A n \in S : ~(n < m)
  BY <1>1 DEF OpToRel
<1>3. QED
  BY <1>2

\* The device keeps the end of what it held (aesd-circular-buffer.c, as the
\* driver uses it): a full one holds a terminator, and gives up no more.
LEMMA RecentIsSeq ==
  ASSUME ConnectionAssumption, NEW s \in Seq(Byte)
  PROVE  Recent(s) \in Seq(Byte)
<1>1. CASE Lines(s) < Capacity
  BY <1>1 DEF Recent
<1>2. CASE ~(Lines(s) < Capacity)
  <2>1. Ends(s) # {}
    <3>1. SUFFICES ASSUME Ends(s) = {} PROVE FALSE
      OBVIOUS
    <3>2. Lines(s) = 0
      BY <3>1, FS_EmptySet DEF Lines
    <3>3. QED
      BY <1>2, <3>2 DEF ConnectionAssumption
  <2>2. Ends(s) \in SUBSET Nat /\ Ends(s) \subseteq 1 .. Len(s) /\ Len(s) \in Nat
    BY LenProperties DEF Ends
  <2>3. \E i \in Ends(s) : \A j \in Ends(s) : i <= j
    BY <2>1, <2>2, LeastElement
  <2> DEFINE first == CHOOSE i \in Ends(s) : \A j \in Ends(s) : i <= j
  <2>4. first \in Ends(s)
    BY <2>3
  <2> HIDE DEF first
  <2>5. first + 1 \in Nat \ {0}
    BY <2>2, <2>4
  <2>6. SubSeq(s, first + 1, Len(s)) \in Seq(Byte)
    BY <2>2, <2>5, PartOfSeq
  <2>7. QED
    BY <1>2, <2>6 DEF Recent, first
<1>3. QED
  BY <1>1, <1>2

-----------------------------------------------------------------------------
\* A connection starts with nothing read, nothing open and nothing sent.
LEMMA Initially == ASSUME ConnectionAssumption, Init PROVE IInv
<1>1. TypeOK
  BY EmptySeq DEF Init, TypeOK, ConnectionAssumption, Reading, Causes
<1>2. StreamInOrder
  <2>1. << >> \o << >> \o unread = unread
    BY <1>1, ConcatEmptySeq, EmptySeq DEF TypeOK
  <2>2. QED
    BY <2>1 DEF Init, StreamInOrder, Busy
<1>3. RoomToRead
  BY EmptySeq DEF Init, RoomToRead
<1>4. QED
  BY <1>1, <1>2, <1>3 DEF Init, IInv, AnswerSoFar, CommandIsLast, OpenWhileBusy, EndReleases,
       Answering, Reading

\* What free leaves, and where the bytes of the request go.
LEMMA FreeStep ==
  ASSUME TypeOK, Free
  PROVE  /\ consumed' \in Seq(Byte) /\ buf' = << >> /\ buf' \in Seq(Byte)
         /\ allocated_space' = 0 /\ allocated_space' \in Nat /\ Len(buf') = 0
         /\ consumed' \o buf' = consumed \o buf
<1>1. consumed' = consumed \o buf /\ consumed' \in Seq(Byte) /\ buf' = << >>
  BY ConcatProperties DEF TypeOK, Free
<1>2. QED
  BY <1>1, ConcatEmptySeq, EmptySeq DEF Free

\* What a read makes of the buffer and of what is still to come
\* (utility_funcs.c:183-207).
LEMMA ReadStep ==
  ASSUME TypeOK, Read
  PROVE  \E n \in 1 .. Len(unread) :
           /\ n <= Room
           /\ buf' \in Seq(Byte) /\ unread' \in Seq(Byte)
           /\ Len(buf) \in Nat /\ Len(buf') = Len(buf) + n /\ buf' # << >>
           /\ consumed \o buf' \o unread' = consumed \o buf \o unread
<1>1. PICK n \in 1 .. Len(unread) :
        /\ n <= Room
        /\ buf' = buf \o SubSeq(unread, 1, n)
        /\ unread' = SubSeq(unread, n + 1, Len(unread))
  BY DEF Read, Received
<1> DEFINE front == SubSeq(unread, 1, n)
           back  == SubSeq(unread, n + 1, Len(unread))
<1>2. Len(unread) \in Nat /\ n \in Nat \ {0} /\ n \in 0 .. Len(unread) /\ Len(buf) \in Nat
  BY LenProperties DEF TypeOK
<1>3. front \in Seq(Byte) /\ Len(front) = n /\ back \in Seq(Byte)
  BY <1>2, PartOfSeq DEF TypeOK
<1>4. front \o back = unread
  BY <1>2, CutInTwo DEF TypeOK
<1> HIDE DEF front, back
<1>5. buf \o front \in Seq(Byte) /\ Len(buf \o front) = Len(buf) + n
  BY <1>3, ConcatProperties DEF TypeOK
<1>6. (buf \o front) \o back = buf \o unread
  <2>1. buf \in Seq(Byte)
    BY DEF TypeOK
  <2>2. (buf \o front) \o back = buf \o (front \o back)
    BY <1>3, <2>1, ConcatAssociative
  <2>3. QED
    BY <1>4, <2>2
<1>7. buf' = buf \o front /\ unread' = back
  BY <1>1 DEF front, back
<1>8. buf' # << >>
  BY <1>2, <1>5, <1>7, EmptySeq
<1>9. consumed \o (buf \o front) \o back = consumed \o buf \o unread
  <2>1. consumed \in Seq(Byte) /\ buf \in Seq(Byte) /\ unread \in Seq(Byte)
    BY DEF TypeOK
  <2>2. buf \o front \in Seq(Byte) /\ back \in Seq(Byte)
    BY <1>3, <1>5
  <2>3. (consumed \o (buf \o front)) \o back = consumed \o ((buf \o front) \o back)
    <3> DEFINE mid == buf \o front
    <3>1. mid \in Seq(Byte)
      BY <2>2
    <3> HIDE DEF mid
    <3>2. consumed \in Seq(Byte) /\ back \in Seq(Byte)
      BY <2>1, <2>2
    <3>3. (consumed \o mid) \o back = consumed \o (mid \o back)
      BY ONLY <3>1, <3>2, Associative, Zenon
    <3>4. QED  BY <3>3 DEF mid
  <2>4. (consumed \o buf) \o unread = consumed \o (buf \o unread)
    BY <2>1, Associative, Zenon
  <2>5. QED
    BY <1>6, <2>3, <2>4, Zenon
<1>10. QED
  BY <1>1, <1>2, <1>3, <1>5, <1>7, <1>8, <1>9

\* What the device holds after a write: it ends with the command
\* (utility_funcs.c:213-232).
LEMMA WriteStep ==
  ASSUME ConnectionAssumption, TypeOK, Write, buf # << >>
  PROVE  /\ contents' \in Seq(Byte)
         /\ Len(contents') \in Nat /\ Len(buf) <= Len(contents')
         /\ SubSeq(contents', Len(contents') - Len(buf) + 1, Len(contents')) = buf
<1>1. Recent(contents) \in Seq(Byte) /\ contents' = Recent(contents) \o buf
  BY RecentIsSeq DEF TypeOK, Write
<1>2. /\ contents' \in Seq(Byte)
      /\ Len(contents') = Len(Recent(contents)) + Len(buf)
      /\ Len(Recent(contents)) \in Nat /\ Len(buf) \in Nat
  BY <1>1, ConcatProperties, LenProperties DEF TypeOK
<1>3. QED
  BY <1>1, <1>2, EndOfConcat DEF TypeOK

\* What a piece takes from the device, and where it leaves the file
\* (utility_funcs.c:255-257).
LEMMA FetchStep ==
  ASSUME ConnectionAssumption, TypeOK, AnswerSoFar, Fetch
  PROVE  /\ piece' \in Seq(Byte) /\ pos' \in Nat
         /\ start <= pos' /\ pos' <= Len(contents)
         /\ sent \o piece' = SubSeq(contents, start + 1, pos')
<1>1. Len(contents) \in Nat
  BY LenProperties DEF TypeOK
<1>2. /\ pos < Len(contents) /\ pos \in Nat /\ start \in Nat /\ start <= pos
      /\ piece = << >> /\ sent \o piece = SubSeq(contents, start + 1, pos)
  BY <1>1 DEF Fetch, AtEnd, AnswerSoFar, Answering, TypeOK
<1>3. Until \in Nat /\ pos <= Until /\ Until <= Len(contents)
  BY <1>1, <1>2 DEF Until, ConnectionAssumption
<1>4. pos' = Until /\ piece' = SubSeq(contents, pos + 1, Until)
  BY DEF Fetch
<1>5. piece' \in Seq(Byte)
  BY <1>2, <1>3, <1>4, PartOfSeq DEF TypeOK
<1>6. sent = SubSeq(contents, start + 1, pos)
  BY <1>2, ConcatEmptySeq DEF TypeOK
<1>7. /\ start + 1 \in 1 .. Len(contents) + 1
      /\ pos \in (start + 1) - 1 .. Len(contents)
      /\ Until \in pos .. Len(contents)
  BY <1>1, <1>2, <1>3
<1>8. SubSeq(contents, start + 1, pos) \o SubSeq(contents, pos + 1, Until)
        = SubSeq(contents, start + 1, Until)
  BY <1>7, ConcatAdjacentSubSeq DEF TypeOK
<1>9. QED
  BY <1>2, <1>3, <1>4, <1>5, <1>6, <1>8

\* A write to the socket moves bytes from the piece to the answer
\* (utility_funcs.c:258-270).
LEMMA SendStep ==
  ASSUME TypeOK, Send
  PROVE  /\ sent' \in Seq(Byte) /\ piece' \in Seq(Byte)
         /\ sent' \o piece' = sent \o piece
<1>1. PICK n \in 1 .. Len(piece) :
        sent' = sent \o SubSeq(piece, 1, n) /\ piece' = SubSeq(piece, n + 1, Len(piece))
  BY DEF Send, Rest
<1> DEFINE front == SubSeq(piece, 1, n)
           back  == SubSeq(piece, n + 1, Len(piece))
<1>2. Len(piece) \in Nat /\ n \in Nat \ {0} /\ n \in 0 .. Len(piece)
  BY LenProperties DEF TypeOK
<1>3. front \in Seq(Byte) /\ back \in Seq(Byte)
  BY <1>2, PartOfSeq DEF TypeOK
<1>4. front \o back = piece
  BY <1>2, CutInTwo DEF TypeOK
<1> HIDE DEF front, back
<1>5. (sent \o front) \o back = sent \o piece /\ sent \o front \in Seq(Byte)
  <2>1. sent \in Seq(Byte)
    BY DEF TypeOK
  <2>2. (sent \o front) \o back = sent \o (front \o back)
    BY <1>3, <2>1, Associative, Zenon
  <2>3. QED
    BY <1>3, <1>4, <2>1, <2>2, ConcatProperties
<1>6. QED
  BY <1>1, <1>3, <1>5 DEF front, back

-----------------------------------------------------------------------------
(***************************************************************************)
(* Each step preserves each part of the invariant.                         *)
(***************************************************************************)

\* The types are preserved.
LEMMA TypeStep ==
  ASSUME ConnectionAssumption, IInv, [Next]_vars PROVE TypeOK'
<1> USE DEF IInv, TypeOK, Reading, Busy, Stopped, Causes, ConnectionAssumption, vars, request, answer
<1>1. CASE MakeRoom
  <2>1. Growth \in Nat
    BY DEF Growth
  <2>2. QED
    BY <1>1, <2>1 DEF MakeRoom
<1>2. CASE NoRoom
  BY <1>2, FreeStep DEF NoRoom, End
<1>3. CASE Read
  BY <1>3, ReadStep DEF Read
<1>4. CASE ReadNothing
  BY <1>4, FreeStep DEF ReadNothing, End
<1>5. CASE ReadFails
  BY <1>5, FreeStep DEF ReadFails, End
<1>6. CASE Open
  BY <1>6, EmptySeq DEF Open
<1>7. CASE Parse
  BY <1>7 DEF Parse
<1>8. CASE Seek
  <2>1. PICK p \in 0 .. Len(contents) : pos' = p /\ start' = p
    BY <1>8 DEF Seek
  <2>2. pos' \in Nat /\ start' \in Nat
    BY <2>1, LenProperties
  <2>3. QED
    BY <1>8, <2>2 DEF Seek
<1>9. CASE Write
  BY <1>9, WriteStep DEF Write, StreamInOrder
<1>10. CASE WriteStuck
  BY <1>10 DEF WriteStuck
<1>11. CASE Fetch
  BY <1>11, FetchStep DEF Fetch
<1>12. CASE FetchDone
  BY <1>12 DEF FetchDone
<1>13. CASE Send
  BY <1>13, SendStep DEF Send
<1>14. CASE Close
  BY <1>14, FreeStep DEF Close
<1>15. CASE OpenFails
  BY <1>15, FreeStep DEF OpenFails, End
<1>16. CASE SeekKills
  BY <1>16 DEF SeekKills
<1>17. CASE SeekFails
  BY <1>17, FreeStep DEF SeekFails, End
<1>18. CASE WriteFails
  BY <1>18 DEF WriteFails
<1>19. CASE AnswerFails
  BY <1>19 DEF AnswerFails, End
<1>20. CASE SendKills
  BY <1>20 DEF SendKills
<1>21. CASE CloseFails
  BY <1>21, FreeStep DEF CloseFails, End
<1>22. CASE UNCHANGED vars
  BY <1>22
<1>23. QED
  BY <1>1, <1>2, <1>3, <1>4, <1>5, <1>6, <1>7, <1>8, <1>9, <1>10, <1>11,
     <1>12, <1>13, <1>14, <1>15, <1>16, <1>17, <1>18, <1>19, <1>20, <1>21,
     <1>22
  DEF Next, Receive, Handle, Failure

\* There is room at each read: the block grows when a quarter of a chunk or
\* less is left, and a quarter is a byte at least.
LEMMA RoomStep ==
  ASSUME ConnectionAssumption, IInv, [Next]_vars PROVE RoomToRead'
<1> USE DEF IInv, RoomToRead, TypeOK, vars, request, answer
<1>1. CASE MakeRoom
  <2>1. Len(buf) \in Nat /\ allocated_space \in Nat /\ CHUNK_SIZE \div 4 >= 1
    BY LenProperties DEF TypeOK, ConnectionAssumption
  <2>2. allocated_space + Growth - Len(buf) > 0 /\ Len(buf) <= allocated_space + Growth
    BY <2>1 DEF Growth, Room, ConnectionAssumption
  <2>3. /\ allocated_space' = allocated_space + Growth /\ buf' = buf
        /\ Growth \in Nat
    BY <1>1 DEF MakeRoom, Growth, ConnectionAssumption
  <2>4. QED
    BY <2>1, <2>2, <2>3 DEF Room
<1>2. CASE NoRoom
  BY <1>2, FreeStep DEF NoRoom, End
<1>3. CASE Read
  <2>1. PICK n \in 1 .. Len(unread) :
          n <= Room /\ Len(buf) \in Nat /\ Len(buf') = Len(buf) + n
    BY <1>3, ReadStep
  <2>2. n \in Nat /\ allocated_space \in Nat
    BY <2>1 DEF TypeOK
  <2>3. stage' # "read" /\ allocated_space' = allocated_space
    BY <1>3 DEF Read
  <2>4. QED
    BY <2>1, <2>2, <2>3 DEF Room
<1>4. CASE ReadNothing
  BY <1>4, FreeStep DEF ReadNothing, End
<1>5. CASE ReadFails
  BY <1>5, FreeStep DEF ReadFails, End
<1>6. CASE Open
  BY <1>6 DEF Open
<1>7. CASE Parse
  BY <1>7 DEF Parse
<1>8. CASE Seek
  BY <1>8 DEF Seek
<1>9. CASE Write
  BY <1>9 DEF Write
<1>10. CASE WriteStuck
  BY <1>10 DEF WriteStuck
<1>11. CASE Fetch
  BY <1>11 DEF Fetch
<1>12. CASE FetchDone
  BY <1>12 DEF FetchDone
<1>13. CASE Send
  BY <1>13 DEF Send
<1>14. CASE Close
  BY <1>14, FreeStep DEF Close
<1>15. CASE OpenFails
  BY <1>15, FreeStep DEF OpenFails, End
<1>16. CASE SeekKills
  BY <1>16 DEF SeekKills
<1>17. CASE SeekFails
  BY <1>17, FreeStep DEF SeekFails, End
<1>18. CASE WriteFails
  BY <1>18 DEF WriteFails
<1>19. CASE AnswerFails
  BY <1>19 DEF AnswerFails, End
<1>20. CASE SendKills
  BY <1>20 DEF SendKills
<1>21. CASE CloseFails
  BY <1>21, FreeStep DEF CloseFails, End
<1>22. CASE UNCHANGED vars
  BY <1>22 DEF Room
<1>23. QED
  BY <1>1, <1>2, <1>3, <1>4, <1>5, <1>6, <1>7, <1>8, <1>9, <1>10, <1>11,
     <1>12, <1>13, <1>14, <1>15, <1>16, <1>17, <1>18, <1>19, <1>20, <1>21,
     <1>22
  DEF Next, Receive, Handle, Failure

\* Bytes go from the socket to the buffer and from there to what is freed.
LEMMA StreamStep ==
  ASSUME ConnectionAssumption, IInv, [Next]_vars PROVE StreamInOrder'
<1> USE DEF IInv, StreamInOrder, TypeOK, Busy, vars, request, answer
<1>1. CASE MakeRoom
  BY <1>1 DEF MakeRoom
<1>2. CASE NoRoom
  <2>1. consumed' \o buf' = consumed \o buf
    BY <1>2, FreeStep DEF NoRoom
  <2>2. QED
    BY <1>2, <2>1 DEF NoRoom, End
<1>3. CASE Read
  <2>1. buf' # << >> /\ consumed \o buf' \o unread' = consumed \o buf \o unread
    BY <1>3, ReadStep
  <2>2. QED
    BY <1>3, <2>1 DEF Read
<1>4. CASE ReadNothing
  <2>1. consumed' \o buf' = consumed \o buf
    BY <1>4, FreeStep DEF ReadNothing
  <2>2. QED
    BY <1>4, <2>1 DEF ReadNothing, End
<1>5. CASE ReadFails
  <2>1. consumed' \o buf' = consumed \o buf
    BY <1>5, FreeStep DEF ReadFails
  <2>2. QED
    BY <1>5, <2>1 DEF ReadFails, End
<1>6. CASE Open
  BY <1>6 DEF Open
<1>7. CASE Parse
  BY <1>7 DEF Parse
<1>8. CASE Seek
  BY <1>8 DEF Seek
<1>9. CASE Write
  BY <1>9 DEF Write
<1>10. CASE WriteStuck
  BY <1>10 DEF WriteStuck
<1>11. CASE Fetch
  BY <1>11 DEF Fetch
<1>12. CASE FetchDone
  BY <1>12 DEF FetchDone
<1>13. CASE Send
  BY <1>13 DEF Send
<1>14. CASE Close
  <2>1. consumed' \o buf' = consumed \o buf
    BY <1>14, FreeStep DEF Close
  <2>2. QED
    BY <1>14, <2>1 DEF Close
<1>15. CASE OpenFails
  <2>1. consumed' \o buf' = consumed \o buf
    BY <1>15, FreeStep DEF OpenFails
  <2>2. QED
    BY <1>15, <2>1 DEF OpenFails, End
<1>16. CASE SeekKills
  BY <1>16 DEF SeekKills
<1>17. CASE SeekFails
  <2>1. consumed' \o buf' = consumed \o buf
    BY <1>17, FreeStep DEF SeekFails
  <2>2. QED
    BY <1>17, <2>1 DEF SeekFails, End
<1>18. CASE WriteFails
  BY <1>18 DEF WriteFails
<1>19. CASE AnswerFails
  BY <1>19 DEF AnswerFails, End
<1>20. CASE SendKills
  BY <1>20 DEF SendKills
<1>21. CASE CloseFails
  <2>1. consumed' \o buf' = consumed \o buf
    BY <1>21, FreeStep DEF CloseFails
  <2>2. QED
    BY <1>21, <2>1 DEF CloseFails, End
<1>22. CASE UNCHANGED vars
  BY <1>22
<1>23. QED
  BY <1>1, <1>2, <1>3, <1>4, <1>5, <1>6, <1>7, <1>8, <1>9, <1>10, <1>11,
     <1>12, <1>13, <1>14, <1>15, <1>16, <1>17, <1>18, <1>19, <1>20, <1>21,
     <1>22
  DEF Next, Receive, Handle, Failure

\* What is sent follows the file through the device.
LEMMA AnswerStep ==
  ASSUME ConnectionAssumption, IInv, [Next]_vars PROVE AnswerSoFar'
<1> USE DEF IInv, AnswerSoFar, TypeOK, Answering, vars, request, answer
<1>1. CASE MakeRoom
  BY <1>1 DEF MakeRoom
<1>2. CASE NoRoom
  BY <1>2 DEF NoRoom, Free, End
<1>3. CASE Read
  BY <1>3 DEF Read
<1>4. CASE ReadNothing
  BY <1>4 DEF ReadNothing, Free, End
<1>5. CASE ReadFails
  BY <1>5 DEF ReadFails, Free, End
<1>6. CASE Open
  BY <1>6 DEF Open
<1>7. CASE Parse
  BY <1>7 DEF Parse
<1>8. CASE Seek
  <2>1. PICK p \in 0 .. Len(contents) : pos' = p /\ start' = p
    BY <1>8 DEF Seek
  <2>2. p \in Nat /\ p <= Len(contents) /\ Len(contents) \in Nat
    BY LenProperties
  <2>3. SubSeq(contents, p + 1, p) = << >> /\ << >> \o << >> = << >>
    BY <2>2, SubSeqEmpty, ConcatEmptySeq, EmptySeq
  <2>4. QED
    BY <1>8, <2>1, <2>2, <2>3 DEF Seek
<1>9. CASE Write
  <2>1. Len(contents') \in Nat
    BY <1>9, WriteStep DEF Write, StreamInOrder, Busy
  <2>2. SubSeq(contents', 0 + 1, 0) = << >> /\ << >> \o << >> = << >>
    BY SubSeqEmpty, ConcatEmptySeq, EmptySeq
  <2>3. QED
    BY <1>9, <2>1, <2>2 DEF Write
<1>10. CASE WriteStuck
  BY <1>10 DEF WriteStuck
<1>11. CASE Fetch
  BY <1>11, FetchStep DEF Fetch
<1>12. CASE FetchDone
  <2>1. Len(contents) \in Nat
    BY LenProperties
  <2>2. pos = Len(contents)
    BY <1>12, <2>1 DEF FetchDone, AtEnd
  <2>3. QED
    BY <1>12, <2>2 DEF FetchDone
<1>13. CASE Send
  BY <1>13, SendStep DEF Send
<1>14. CASE Close
  BY <1>14 DEF Close, Free
<1>15. CASE OpenFails
  BY <1>15 DEF OpenFails, Free, End
<1>16. CASE SeekKills
  BY <1>16 DEF SeekKills
<1>17. CASE SeekFails
  BY <1>17 DEF SeekFails, Free, End
<1>18. CASE WriteFails
  <2>1. Len(contents) \in Nat
    BY LenProperties
  <2>2. SubSeq(contents, 0 + 1, 0) = << >> /\ << >> \o << >> = << >>
    BY SubSeqEmpty, ConcatEmptySeq, EmptySeq
  <2>3. QED
    BY <1>18, <2>1, <2>2 DEF WriteFails
<1>19. CASE AnswerFails
  BY <1>19 DEF AnswerFails, End
<1>20. CASE SendKills
  BY <1>20 DEF SendKills
<1>21. CASE CloseFails
  BY <1>21 DEF CloseFails, Free, End
<1>22. CASE UNCHANGED vars
  BY <1>22
<1>23. QED
  BY <1>1, <1>2, <1>3, <1>4, <1>5, <1>6, <1>7, <1>8, <1>9, <1>10, <1>11,
     <1>12, <1>13, <1>14, <1>15, <1>16, <1>17, <1>18, <1>19, <1>20, <1>21,
     <1>22
  DEF Next, Receive, Handle, Failure

\* Nothing changes the device between the write of a command and its answer.
LEMMA CommandStep ==
  ASSUME ConnectionAssumption, IInv, [Next]_vars PROVE CommandIsLast'
<1> USE DEF IInv, CommandIsLast, Answering, HasKey, vars, request, answer
<1>1. CASE MakeRoom
  BY <1>1 DEF MakeRoom
<1>2. CASE NoRoom
  BY <1>2 DEF NoRoom, Free, End
<1>3. CASE Read
  BY <1>3 DEF Read
<1>4. CASE ReadNothing
  BY <1>4 DEF ReadNothing, Free, End
<1>5. CASE ReadFails
  BY <1>5 DEF ReadFails, Free, End
<1>6. CASE Open
  BY <1>6 DEF Open
<1>7. CASE Parse
  BY <1>7 DEF Parse
<1>8. CASE Seek
  BY <1>8 DEF Seek
<1>9. CASE Write
  BY <1>9, WriteStep DEF Write, StreamInOrder, Busy, AnswerSoFar
<1>10. CASE WriteStuck
  BY <1>10 DEF WriteStuck
<1>11. CASE Fetch
  BY <1>11 DEF Fetch
<1>12. CASE FetchDone
  BY <1>12 DEF FetchDone
<1>13. CASE Send
  BY <1>13 DEF Send
<1>14. CASE Close
  BY <1>14 DEF Close, Free
<1>15. CASE OpenFails
  BY <1>15 DEF OpenFails, Free, End
<1>16. CASE SeekKills
  BY <1>16 DEF SeekKills
<1>17. CASE SeekFails
  BY <1>17 DEF SeekFails, Free, End
<1>18. CASE WriteFails
  BY <1>18 DEF WriteFails
<1>19. CASE AnswerFails
  BY <1>19 DEF AnswerFails, End
<1>20. CASE SendKills
  BY <1>20 DEF SendKills
<1>21. CASE CloseFails
  BY <1>21 DEF CloseFails, Free, End
<1>22. CASE UNCHANGED vars
  BY <1>22
<1>23. QED
  BY <1>1, <1>2, <1>3, <1>4, <1>5, <1>6, <1>7, <1>8, <1>9, <1>10, <1>11,
     <1>12, <1>13, <1>14, <1>15, <1>16, <1>17, <1>18, <1>19, <1>20, <1>21,
     <1>22
  DEF Next, Receive, Handle, Failure

\* The file is closed and the buffer is freed on the way to the next request,
\* and at each end but those that are named.
LEMMA FileStep ==
  ASSUME ConnectionAssumption, IInv, [Next]_vars PROVE OpenWhileBusy' /\ EndReleases'
<1> USE DEF IInv, OpenWhileBusy, EndReleases, Reading, vars, request, answer
<1>1. CASE MakeRoom
  BY <1>1 DEF MakeRoom
<1>2. CASE NoRoom
  BY <1>2 DEF NoRoom, Free, End
<1>3. CASE Read
  BY <1>3 DEF Read
<1>4. CASE ReadNothing
  BY <1>4 DEF ReadNothing, Free, End
<1>5. CASE ReadFails
  BY <1>5 DEF ReadFails, Free, End
<1>6. CASE Open
  BY <1>6 DEF Open
<1>7. CASE Parse
  BY <1>7 DEF Parse
<1>8. CASE Seek
  BY <1>8 DEF Seek
<1>9. CASE Write
  BY <1>9 DEF Write
<1>10. CASE WriteStuck
  BY <1>10 DEF WriteStuck
<1>11. CASE Fetch
  BY <1>11 DEF Fetch
<1>12. CASE FetchDone
  BY <1>12 DEF FetchDone
<1>13. CASE Send
  BY <1>13 DEF Send
<1>14. CASE Close
  BY <1>14 DEF Close, Free
<1>15. CASE OpenFails
  BY <1>15 DEF OpenFails, Free, End
<1>16. CASE SeekKills
  BY <1>16 DEF SeekKills
<1>17. CASE SeekFails
  BY <1>17 DEF SeekFails, Free, End
<1>18. CASE WriteFails
  BY <1>18 DEF WriteFails
<1>19. CASE AnswerFails
  BY <1>19 DEF AnswerFails, End
<1>20. CASE SendKills
  BY <1>20 DEF SendKills
<1>21. CASE CloseFails
  BY <1>21 DEF CloseFails, Free, End
<1>22. CASE UNCHANGED vars
  BY <1>22
<1>23. QED
  BY <1>1, <1>2, <1>3, <1>4, <1>5, <1>6, <1>7, <1>8, <1>9, <1>10, <1>11,
     <1>12, <1>13, <1>14, <1>15, <1>16, <1>17, <1>18, <1>19, <1>20, <1>21,
     <1>22
  DEF Next, Receive, Handle, Failure

LEMMA Invariance == Spec => []IInv
<1>1. Init => IInv
  BY ConnectionAssumption, Initially
<1>2. IInv /\ [Next]_vars => IInv'
  BY ConnectionAssumption, TypeStep, RoomStep, StreamStep, AnswerStep, CommandStep, FileStep
  DEF IInv
<1>3. QED
  BY <1>1, <1>2, PTL DEF Spec

-----------------------------------------------------------------------------
\* The types of a worker's buffers, positions and answer.
THEOREM IOTypeCorrect == Spec => []TypeOK
<1>1. IInv => TypeOK
  BY DEF IInv
<1>2. QED
  BY <1>1, Invariance, PTL

\* A read never passes the end of the block and is never given no room, for
\* every chunk of at least four bytes (utility_funcs.c:170-194).
THEOREM ReadsHaveRoom == Spec => []RoomToRead
<1>1. IInv => RoomToRead
  BY DEF IInv
<1>2. QED
  BY <1>1, Invariance, PTL

\* The bytes of a connection are handed over in their order, none lost or
\* doubled, a line at the end of each request (utility_funcs.c:168-207).
THEOREM StreamIsInOrder == Spec => []StreamInOrder
<1>1. IInv => StreamInOrder
  BY DEF IInv
<1>2. QED
  BY <1>1, Invariance, PTL

\* A complete answer is the device from where it starts to its end, for every
\* size of the pieces and of the socket's writes (utility_funcs.c:253-273).
THEOREM CompleteAnswerIsDevice == Spec => []AnswerIsDevice
<1>1. IInv => AnswerIsDevice
  <2> SUFFICES ASSUME IInv, stage = "close"
               PROVE  sent = SubSeq(contents, start + 1, Len(contents))
    BY DEF AnswerIsDevice
  <2>1. /\ piece = << >> /\ pos = Len(contents) /\ sent \in Seq(Byte)
        /\ sent \o piece = SubSeq(contents, start + 1, pos)
    BY DEF IInv, TypeOK, AnswerSoFar, Answering
  <2>2. QED
    BY <2>1, ConcatEmptySeq
<1>2. QED
  BY <1>1, Invariance, PTL

\* A command that is answered is in the device, last and byte for byte, and so
\* is at the end of its answer (utility_funcs.c:67, 94, 224).
THEOREM AnsweredCommandIsStored == Spec => []AnsweredIsStored
<1>1. IInv => AnsweredIsStored
  <2> SUFFICES ASSUME IInv, stage = "close", ~HasKey(buf), missed = "no"
               PROVE  /\ Len(sent) >= Len(buf)
                      /\ SubSeq(sent, Len(sent) - Len(buf) + 1, Len(sent)) = buf
    BY DEF AnsweredIsStored
  <2>1. /\ piece = << >> /\ pos = Len(contents) /\ sent \in Seq(Byte)
        /\ sent \o piece = SubSeq(contents, start + 1, pos) /\ contents \in Seq(Byte)
        /\ Len(buf) <= Len(contents) /\ start = 0 /\ buf \in Seq(Byte)
        /\ SubSeq(contents, Len(contents) - Len(buf) + 1, Len(contents)) = buf
    BY DEF IInv, TypeOK, AnswerSoFar, CommandIsLast, Answering
  <2>2. sent = contents
    BY <2>1, ConcatEmptySeq, SubSeqFull
  <2>3. Len(contents) \in Nat /\ Len(buf) \in Nat
    BY <2>1, LenProperties
  <2>4. QED
    BY <2>1, <2>2, <2>3
<1>2. QED
  BY <1>1, Invariance, PTL

\* A thread that has ended holds its buffer only after a failed answer, and the
\* device only after a failed answer or ioctl (utility_funcs.c:32-153).
THEOREM EndsRelease == Spec => []EndReleases
<1>1. IInv => EndReleases
  BY DEF IInv
<1>2. QED
  BY <1>1, Invariance, PTL
=============================================================================
