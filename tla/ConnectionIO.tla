---------------------------- MODULE ConnectionIO ----------------------------
(***************************************************************************)
(* What one worker of the server does with bytes: utility_funcs.c, from    *)
(* the socket into a buffer that grows (read_str_from_socket), from the    *)
(* buffer into the device (dump_buffer_to_file) and from the device back   *)
(* to the socket piece by piece (dump_file_to_socket).  Its place among    *)
(* the other workers, the mutex and cancellation are in AesdServer.        *)
(*                                                                         *)
(* The byte Key stands for the text of a seek, "AESDCHAR_IOCSEEKTO:" and   *)
(* what follows it.  The device is the bytes of the commands it keeps,     *)
(* laid end to end; nobody else writes to it.                              *)
(***************************************************************************)
EXTENDS Integers, Sequences, FiniteSets

CONSTANTS
  Byte, NL, Key,
  Streams,      \* what a client may send on its connection
  Stored,       \* what the device may hold before
  Capacity,     \* the number of commands it keeps
  CHUNK_SIZE, TMP_BUF_SIZE,
  Faults        \* what may go wrong: a subset of FaultNames

FaultNames == {"nomem", "read", "open", "stale", "ioctl", "write", "answer", "pipe", "close"}

ASSUME ConnectionAssumption ==
  /\ NL \in Byte /\ Key \in Byte \ {NL}
  /\ Streams \subseteq Seq(Byte) /\ Stored \subseteq Seq(Byte)
  /\ Capacity \in Nat \ {0}
  /\ CHUNK_SIZE \in Nat /\ CHUNK_SIZE >= 4
  /\ TMP_BUF_SIZE \in Nat \ {0}
  /\ Faults \subseteq FaultNames

VARIABLES
  stream,           \* all the client sends
  unread,           \* what of it read has not returned yet
  consumed,         \* what was in buffers that are freed by now
  buf,              \* the bytes in *buf_ptr; total_read is their number
  allocated_space,  \* the size of its block, 0 while the pointer is NULL
  stage,            \* where the worker is
  contents,         \* of the device
  filed,            \* whether the worker has it open
  pos, start,       \* the file's position, and where the answer starts
  piece,            \* what is left of the piece that is being sent
  sent,             \* the answer so far
  missed,           \* why the command in buf was not stored
  cause             \* of the worker's end

request == <<buf, allocated_space, consumed>>
answer  == <<pos, start, piece, sent>>
vars == <<stream, unread, request, stage, contents, filed, answer, missed, cause>>

Reading == {"recv", "read"}
Busy    == {"open", "parse", "seek", "write", "fetch", "send", "close"}
Stopped == {"ended", "stuck", "killed"}

Init ==
  /\ stream \in Streams /\ unread = stream
  /\ consumed = << >> /\ buf = << >> /\ allocated_space = 0
  /\ stage = "recv"
  /\ contents \in Stored
  /\ filed = FALSE /\ pos = 0 /\ start = 0 /\ piece = << >> /\ sent = << >>
  /\ missed = "no" /\ cause = "none"

\* free(buffer)
Free == /\ consumed' = consumed \o buf
        /\ buf' = << >>
        /\ allocated_space' = 0

\* The thread ends, because of c.
End(c) == stage' = "ended" /\ cause' = c

-----------------------------------------------------------------------------
(***************************************************************************)
(* read_str_from_socket: make room, read as much as there is room for, and *)
(* go on until the last byte read is a '\n'.                               *)
(***************************************************************************)
Room == allocated_space - Len(buf)

Growth_FirstOnly == IF allocated_space = 0 THEN CHUNK_SIZE ELSE 0
Growth == IF Room < CHUNK_SIZE \div 4 THEN CHUNK_SIZE ELSE 0

MakeRoom ==
  /\ stage = "recv"
  /\ allocated_space' = allocated_space + Growth
  /\ stage' = "read"
  /\ UNCHANGED <<stream, unread, consumed, buf, contents, filed, answer, missed, cause>>

NoRoom ==
  /\ stage = "recv" /\ Growth > 0 /\ "nomem" \in Faults
  /\ Free /\ End("nomem")
  /\ UNCHANGED <<stream, unread, contents, filed, answer, missed>>

Received_Overwrites(n) == SubSeq(unread, 1, n)
\* read puts its bytes at *buf_ptr + total_read.
Received(n) == buf \o SubSeq(unread, 1, n)

\* A read returns what has arrived, at least one byte of it.
Read ==
  /\ stage = "read"
  /\ \E n \in 1 .. Len(unread) :
       /\ n <= Room
       /\ buf' = Received(n)
       /\ unread' = SubSeq(unread, n + 1, Len(unread))
  /\ stage' = IF buf'[Len(buf')] = NL THEN "open" ELSE "recv"
  /\ UNCHANGED <<stream, consumed, allocated_space, contents, filed, answer, missed, cause>>

\* read returns 0: the client has closed the connection, or no room was given.
ReadNothing ==
  /\ stage = "read"
  /\ unread = << >> \/ Room = 0
  /\ Free /\ End("closed")
  /\ UNCHANGED <<stream, unread, contents, filed, answer, missed>>

ReadFails ==
  /\ stage = "read" /\ "read" \in Faults
  /\ Free /\ End("read")
  /\ UNCHANGED <<stream, unread, contents, filed, answer, missed>>

-----------------------------------------------------------------------------
Open ==
  /\ stage = "open"
  /\ filed' = TRUE
  /\ pos' = 0 /\ start' = 0 /\ sent' = << >> /\ piece' = << >>
  /\ missed' = "no"
  /\ stage' = "parse"
  /\ UNCHANGED <<stream, unread, request, contents, cause>>

OpenFails_KeepsBuffer ==
  /\ stage = "open" /\ "open" \in Faults
  /\ End("open")
  /\ UNCHANGED <<stream, unread, request, contents, filed, answer, missed>>
OpenFails ==
  /\ stage = "open" /\ "open" \in Faults
  /\ Free /\ End("open")
  /\ UNCHANGED <<stream, unread, contents, filed, answer, missed>>

HasKey(s) == \E i \in DOMAIN s : s[i] = Key

\* strstr finds the text of a seek anywhere in the buffer, and, since the
\* buffer is not terminated, in what an earlier request has left behind it.
Parse ==
  /\ stage = "parse"
  /\ \/ /\ HasKey(buf)
        /\ stage' = "seek" /\ UNCHANGED missed
     \/ /\ ~HasKey(buf) /\ "stale" \in Faults
        /\ stage' = "seek" /\ missed' = "stale"
     \/ /\ ~HasKey(buf)
        /\ stage' = "write" /\ UNCHANGED missed
  /\ UNCHANGED <<stream, unread, request, contents, filed, answer, cause>>

\* The terminator goes to buffer[buffer_size].  Behind a full block it
\* overwrites what the allocator keeps there, which may end the process.
Overrun == Len(buf) = allocated_space
SeekKills ==
  /\ stage = "seek" /\ Overrun
  /\ stage' = "killed" /\ cause' = "overrun"
  /\ UNCHANGED <<stream, unread, request, contents, filed, answer, missed>>

Seek_Unchecked ==
  /\ stage = "seek"
  /\ \E p \in -1 .. Len(contents) : pos' = p /\ start' = p
  /\ stage' = "fetch"
  /\ UNCHANGED <<stream, unread, request, contents, filed, piece, sent, missed, cause>>
\* The ioctl moves the file within what the device holds.  Without two
\* numbers it is not called and the position stays at the start.
Seek ==
  /\ stage = "seek"
  /\ \E p \in 0 .. Len(contents) : pos' = p /\ start' = p
  /\ stage' = "fetch"
  /\ UNCHANGED <<stream, unread, request, contents, filed, piece, sent, missed, cause>>

\* The device refuses; it stays open.
SeekFails ==
  /\ stage = "seek" /\ "ioctl" \in Faults
  /\ Free /\ End("ioctl")
  /\ UNCHANGED <<stream, unread, contents, filed, answer, missed>>

-----------------------------------------------------------------------------
(***************************************************************************)
(* dump_buffer_to_file.  The driver takes a buffer with one terminator as  *)
(* a whole and reports no less than it was given, so the loop takes one    *)
(* turn; it never comes back from a buffer with more of them.              *)
(***************************************************************************)
Ends(s)  == {i \in DOMAIN s : s[i] = NL}
Lines(s) == Cardinality(Ends(s))

\* The contents without their oldest command, when the device is full.
Recent(s) ==
  IF Lines(s) < Capacity THEN s
  ELSE SubSeq(s, (CHOOSE i \in Ends(s) : \A j \in Ends(s) : i <= j) + 1, Len(s))

Write_OneByteShort ==
  /\ stage = "write" /\ Lines(buf) = 1
  /\ contents' = Recent(contents) \o SubSeq(buf, 2, Len(buf))
  /\ stage' = "fetch"
  /\ UNCHANGED <<stream, unread, request, filed, answer, missed, cause>>
Write ==
  /\ stage = "write" /\ Lines(buf) = 1
  /\ contents' = Recent(contents) \o buf
  /\ stage' = "fetch"
  /\ UNCHANGED <<stream, unread, request, filed, answer, missed, cause>>

\* write returns -1, the largest size_t: the loop takes it for the whole
\* buffer and reports success.
WriteFails ==
  /\ stage = "write" /\ "write" \in Faults
  /\ missed' = "write"
  /\ stage' = "fetch"
  /\ UNCHANGED <<stream, unread, request, contents, filed, answer, cause>>

WriteStuck ==
  /\ stage = "write" /\ Lines(buf) > 1
  /\ stage' = "stuck" /\ cause' = "driver"
  /\ UNCHANGED <<stream, unread, request, contents, filed, answer, missed>>

-----------------------------------------------------------------------------
(***************************************************************************)
(* dump_file_to_socket: pieces of the device, each sent by as many writes  *)
(* as the socket needs.  A failure leaves the buffer and the device as     *)
(* they are.                                                               *)
(***************************************************************************)
AtEnd_Never == FALSE
AtEnd == pos >= Len(contents)
Until == IF pos + TMP_BUF_SIZE < Len(contents) THEN pos + TMP_BUF_SIZE ELSE Len(contents)

Fetch ==
  /\ stage = "fetch" /\ ~AtEnd
  /\ piece' = SubSeq(contents, pos + 1, Until)
  /\ pos' = Until
  /\ stage' = "send"
  /\ UNCHANGED <<stream, unread, request, contents, filed, start, sent, missed, cause>>

FetchDone ==
  /\ stage = "fetch" /\ AtEnd
  /\ stage' = "close"
  /\ UNCHANGED <<stream, unread, request, contents, filed, answer, missed, cause>>

Rest_Dropped(n) == << >>
Rest(n) == SubSeq(piece, n + 1, Len(piece))

Send ==
  /\ stage = "send"
  /\ \E n \in 1 .. Len(piece) :
       /\ sent' = sent \o SubSeq(piece, 1, n)
       /\ piece' = Rest(n)
  /\ stage' = IF piece' = << >> THEN "fetch" ELSE "send"
  /\ UNCHANGED <<stream, unread, request, contents, filed, pos, start, missed, cause>>

AnswerFails ==
  /\ stage \in {"fetch", "send"} /\ "answer" \in Faults
  /\ End("answer")
  /\ UNCHANGED <<stream, unread, request, contents, filed, answer, missed>>

\* The client has gone; the signal ends the process.
SendKills ==
  /\ stage = "send" /\ "pipe" \in Faults
  /\ stage' = "killed" /\ cause' = "pipe"
  /\ UNCHANGED <<stream, unread, request, contents, filed, answer, missed>>

Close ==
  /\ stage = "close"
  /\ filed' = FALSE
  /\ Free
  /\ stage' = "recv"
  /\ UNCHANGED <<stream, unread, contents, answer, missed, cause>>

CloseFails ==
  /\ stage = "close" /\ "close" \in Faults
  /\ filed' = FALSE
  /\ Free /\ End("close")
  /\ UNCHANGED <<stream, unread, contents, answer, missed>>

-----------------------------------------------------------------------------
Receive == MakeRoom \/ NoRoom \/ Read \/ ReadNothing \/ ReadFails
Handle  == \/ Open \/ Parse \/ Seek \/ Write \/ WriteStuck
           \/ Fetch \/ FetchDone \/ Send \/ Close
Failure == \/ OpenFails \/ SeekKills \/ SeekFails \/ WriteFails
           \/ AnswerFails \/ SendKills \/ CloseFails

Next == Receive \/ Handle \/ Failure
Spec == Init /\ [][Next]_vars

\* The thread runs, and the client reads its answer.  Nobody has to send, and
\* nothing has to fail.
FairSpec == Spec /\ WF_vars(Handle)

-----------------------------------------------------------------------------
Causes == {"none", "nomem", "closed", "read", "open", "ioctl", "answer", "close", "overrun",
           "driver", "pipe"}

TypeOK ==
  /\ stream \in Seq(Byte) /\ unread \in Seq(Byte)
  /\ consumed \in Seq(Byte) /\ buf \in Seq(Byte) /\ allocated_space \in Nat
  /\ stage \in Reading \cup Busy \cup Stopped
  /\ contents \in Seq(Byte) /\ filed \in BOOLEAN
  /\ pos \in Nat /\ start \in Nat /\ piece \in Seq(Byte) /\ sent \in Seq(Byte)
  /\ missed \in {"no", "stale", "write"} /\ cause \in Causes

\* Every read has room for a byte and stays within the block, however the
\* stream is cut: a read without room would return 0 and pass for a client
\* that has gone, with its request half read (utility_funcs.c:170-194).
RoomToRead ==
  /\ Len(buf) <= allocated_space
  /\ stage = "read" => Room > 0

\* No byte is lost, doubled or moved while the buffer grows, and a request is
\* handed over at the end of a line only: what was freed, what is in the
\* buffer and what is still to come is the stream (utility_funcs.c:168-207).
StreamInOrder ==
  /\ stream = consumed \o buf \o unread
  /\ stage \in Busy => buf # << >> /\ buf[Len(buf)] = NL

\* An answer that is complete is the device from where it started to its
\* end, whatever the sizes of the pieces and of the socket's writes
\* (utility_funcs.c:253-273).
AnswerIsDevice ==
  stage = "close" => sent = SubSeq(contents, start + 1, Len(contents))

\* A command that is answered is the last thing in the device, byte for
\* byte, and its answer ends with it, but for a write that failed unnoticed
\* and for a stale seek behind the buffer (utility_funcs.c:67, 94, 224).
AnsweredIsStored ==
  stage = "close" /\ ~HasKey(buf) /\ missed = "no" =>
    /\ Len(sent) >= Len(buf)
    /\ SubSeq(sent, Len(sent) - Len(buf) + 1, Len(sent)) = buf

\* A thread that has ended keeps no buffer unless its answer failed, and no
\* open device unless its answer or its ioctl did (utility_funcs.c:32-153).
EndReleases ==
  /\ stage = "ended" => /\ allocated_space # 0 => cause = "answer"
                        /\ filed => cause \in {"answer", "ioctl"}
  /\ stage \in Reading => ~filed

\* A request is handled to its end: the three loops stop, unless the request
\* is of several lines (utility_funcs.c:45-153, 224, 255-272).
RequestIsHandled == stage \in Busy ~> stage \in Reading \cup {"ended", "killed"} \/ Lines(buf) > 1
=============================================================================
