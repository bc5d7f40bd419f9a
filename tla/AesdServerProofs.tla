-------------------------- MODULE AesdServerProofs --------------------------
(***************************************************************************)
(* The server, for any number of connections, requests and signals in      *)
(* workers: no path of a worker but its cancellation and the handler of a  *)
(* signal keeps the mutex; what a worker uses is freed after its join,     *)
(* unless that join failed; nothing the list knows is left at exit when    *)
(* the main thread alone ran terminate; and an answer is the device at one *)
(* moment.                                                                 *)
(***************************************************************************)
EXTENDS AesdServer, SequenceTheorems, TLAPS

Listed == {list[i] : i \in DOMAIN list}

\* What the main thread knows at each of its labels, and what has been asked of
\* the workers that are set up.
SetUp ==
  /\ pc[Main] \in {"start", "accept"} => current = NoConn
  /\ pc[Main] \in {"create", "insert"} => current \in Conn
  /\ pc[Main] = "create" => pc[current] = "accepted" /\ current \in sockets
  /\ pc[Main] = "insert" => pc[current] \notin {"new", "accepted"}
  /\ \A c \in Listed \cup cancelled : pc[c] \notin {"new", "accepted"}
  /\ again \subseteq cancelled

\* What a thread that runs terminate knows of its node.
Handled(t) ==
  /\ pc[t] \in {"t_join", "t_wait", "t_free"} => node[t] \in cancelled
  /\ pc[t] = "t_free" => pc[node[t]] \in {"ended", "dead"} \/ node[t] \in again

Handling == \A t \in Thread : Handled(t)

\* A worker runs terminate after a signal only.
BesideOnly == \A c \in Conn : pc[c] \in Walking => c \in beside

\* As long as no worker does, whatever is allocated, open or running is in the
\* list, or being set up; a worker may also run on after a join that was
\* interrupted.
ListKnows ==
  beside = {} =>
    /\ pc[Main] \in {"t_join", "t_wait", "t_free"} => list # << >> /\ node[Main] = Head(list)
    /\ status = "exited" => list = << >>
    /\ sockets \cup info \subseteq Listed \cup {current}
    /\ \A c \in Conn : pc[c] \in Alive => c \in Listed \cup {current} \cup again

\* Until its answer begins a worker has sent nothing; then it has sent the
\* bytes before its place in the device, from where it began.
Unanswered(c) == local[c].pos = 0 /\ local[c].sent = << >> /\ ~local[c].wrote

Answering(c) ==
  LET l == local[c] IN
  /\ Len(l.sent) <= l.pos /\ l.pos <= Len(log)
  /\ \A i \in 1 .. Len(l.sent) : l.sent[i] = log[l.pos - Len(l.sent) + i]
  /\ l.request = "command" => Len(l.sent) = l.pos
  /\ l.wrote => Len(l.sent) = l.pos /\ log # << >> /\ log[Len(log)] = c

Answers ==
  \A c \in Conn :
    /\ pc[c] \in {"lock", "open", "write", "seek"} => Unanswered(c)
    /\ pc[c] \in {"reply", "close"} => Answering(c)
    /\ pc[c] = "close" => local[c].pos = Len(log)
    /\ pc[c] = "seek" => local[c].request # "command"

\* The inductive invariant.
IInv == /\ TypeOK /\ MutexDiscipline /\ SetUp /\ Handling /\ BesideOnly
        /\ WorkerKeepsItsMemory /\ ListKnows /\ Answers

-----------------------------------------------------------------------------
(***************************************************************************)
(* The kinds of steps: a worker serves its client, is cancelled, or        *)
(* catches a signal; a thread goes on with terminate; the main thread does *)
(* anything else.                                                          *)
(***************************************************************************)
Serves(c) ==
  \/ Receive(c) \/ ReceiveFails(c) \/ Lock(c) \/ Open(c) \/ OpenFails(c) \/ Write(c)
  \/ WriteFails(c) \/ Seek(c) \/ SeekFails(c) \/ Reply(c) \/ ReplyDone(c) \/ ReplyFails(c)
  \/ ReplyKills(c) \/ Close(c) \/ CloseFails(c) \/ UseAfterFree(c)

SetsUp == \/ StartUp \/ Accept \/ AcceptFails \/ CreateThread \/ CreateFails
          \/ Insert \/ InsertFails \/ Signal \/ SignalInFree \/ SignalHangs

LEMMA KindsOfSteps ==
  ASSUME Next
  PROVE  \/ \E c \in Conn : Serves(c) \/ Cancelled(c) \/ SignalBeside(c)
         \/ \E t \in Thread : Terminate(t)
         \/ SetsUp
<1>1. CASE MainThread
  BY <1>1 DEF MainThread, SetsUp, Thread
<1>2. CASE \E c \in Conn : Client(c) \/ Worker(c) \/ SignalBeside(c)
  BY <1>2, Zenon DEF Client, Worker, Serves, Thread
<1>3. QED
  BY <1>1, <1>2 DEF Next

\* One thread moves.
LEMMA PcMoves ==
  ASSUME TypeOK, NEW t \in Thread, NEW label, pc' = [pc EXCEPT ![t] = label]
  PROVE  /\ pc'[t] = label
         /\ \A u \in Thread : u # t => pc'[u] = pc[u]
         /\ \A c \in Conn : c # t => pc'[c] = pc[c]
         /\ t # Main => pc'[Main] = pc[Main]
BY DEF TypeOK, Thread

\* A worker that serves its client moves, and touches nothing of the main thread.
LEMMA ServeMoves ==
  ASSUME TypeOK, ServerAssumption, NEW c \in Conn, Serves(c)
  PROVE  /\ UNCHANGED <<cancelled, current, list, info, sockets, node, begun, again,
                        signals, beside>>
         /\ pc[c] \in Alive
         /\ pc' = [pc EXCEPT ![c] = pc'[c]]
         /\ pc'[c] \in Alive \cup {"ended", "dead"}
         /\ \A t \in Thread : t # c => pc'[t] = pc[t]
         /\ c # Main /\ c \in Thread /\ Main \in Thread /\ pc'[Main] = pc[Main]
         /\ status = "running" /\ status' \in {"running", "killed"}
<1>0. c # Main /\ c \in Thread /\ Main \in Thread
  BY DEF Thread, ServerAssumption
<1> SUFFICES /\ UNCHANGED <<cancelled, current, list, info, sockets, node, begun, again,
                            signals, beside>>
             /\ pc[c] \in Alive
             /\ pc' = [pc EXCEPT ![c] = pc'[c]]
             /\ pc'[c] \in Alive \cup {"ended", "dead"}
             /\ status = "running" /\ status' \in {"running", "killed"}
  BY <1>0 DEF TypeOK
<1> USE <1>0 DEF TypeOK, lvars, tvars, svars, wvars, At, Goto, GiveUp, Alive, Inside,
                CancellationPoints
<1>1. CASE Receive(c)
  BY <1>1 DEF Receive
<1>2. CASE ReceiveFails(c)
  BY <1>2 DEF ReceiveFails
<1>3. CASE Lock(c)
  BY <1>3 DEF Lock
<1>4. CASE Open(c)
  BY <1>4 DEF Open
<1>5. CASE OpenFails(c)
  BY <1>5 DEF OpenFails
<1>6. CASE Write(c)
  BY <1>6 DEF Write
<1>7. CASE WriteFails(c)
  BY <1>7 DEF WriteFails
<1>8. CASE Seek(c)
  BY <1>8 DEF Seek
<1>9. CASE SeekFails(c)
  BY <1>9 DEF SeekFails
<1>10. CASE Reply(c)
  BY <1>10 DEF Reply
<1>11. CASE ReplyDone(c)
  BY <1>11 DEF ReplyDone
<1>12. CASE ReplyFails(c)
  BY <1>12 DEF ReplyFails
<1>13. CASE ReplyKills(c)
  BY <1>13 DEF ReplyKills
<1>14. CASE Close(c)
  BY <1>14 DEF Close
<1>15. CASE CloseFails(c)
  BY <1>15 DEF CloseFails
<1>16. CASE UseAfterFree(c)
  BY <1>16 DEF UseAfterFree
<1>17. QED
  BY <1>1, <1>2, <1>3, <1>4, <1>5, <1>6, <1>7, <1>8, <1>9, <1>10, <1>11, <1>12,
     <1>13, <1>14, <1>15, <1>16 DEF Serves

\* So does one that is cancelled, but for a join it gives up and a socket it closes.
LEMMA CancelMoves ==
  ASSUME TypeOK, ServerAssumption, NEW c \in Conn, Cancelled(c)
  PROVE  /\ UNCHANGED <<cancelled, current, list, info, again, signals, beside, mutex, requests,
                        log, status>>
         /\ status = "running" /\ c \in cancelled
         /\ pc[c] \in Alive \cup Walking /\ pc'[c] = "dead"
         /\ pc' = [pc EXCEPT ![c] = "dead"]
         /\ \A t \in Thread : t # c => pc'[t] = pc[t]
         /\ \A t \in Thread : t # c => node'[t] = node[t]
         /\ node' = [node EXCEPT ![c] = NoConn]
         /\ c # Main /\ c \in Thread /\ Main \in Thread /\ pc'[Main] = pc[Main]
         /\ begun' \subseteq begun
         /\ local' = [local EXCEPT ![c] = NoRequest]
         /\ \/ sockets' = sockets
            \/ pc[c] = "t_free" /\ sockets' = sockets \ {node[c]}
<1>1. c # Main /\ c \in Thread /\ Main \in Thread
  BY DEF Thread, ServerAssumption
<1>2. pc[c] \in Alive \cup Walking
  BY DEF Cancelled, CancellationPoints, Alive, Inside, Walking
<1>3. QED
  BY <1>1, <1>2 DEF Cancelled, TypeOK, svars

\* The handler of a signal begins in a worker.
LEMMA BesideMoves ==
  ASSUME TypeOK, ServerAssumption, NEW c \in Conn, SignalBeside(c)
  PROVE  /\ UNCHANGED <<cancelled, current, list, info, sockets, node, begun, again, signals,
                        mutex, requests, log, status>>
         /\ status = "running"
         /\ pc[c] \in Alive /\ pc'[c] \in {"t_next", "dead"}
         /\ pc' = [pc EXCEPT ![c] = pc'[c]]
         /\ \A t \in Thread : t # c => pc'[t] = pc[t]
         /\ c # Main /\ c \in Thread /\ Main \in Thread /\ pc'[Main] = pc[Main]
         /\ beside' = beside \cup {c}
         /\ local' = [local EXCEPT ![c] = NoRequest]
<1>1. c # Main /\ c \in Thread /\ Main \in Thread
  BY DEF Thread, ServerAssumption
<1>2. QED
  BY <1>1 DEF SignalBeside, ToWorker, TypeOK, lvars, tvars

\* A thread in terminate stays in it, unless it is a worker that was cancelled.
LEMMA TerminateMoves ==
  ASSUME TypeOK, ServerAssumption, NEW t \in Thread, Terminate(t)
  PROVE  /\ UNCHANGED <<current, signals, beside, mutex, local, requests, log>>
         /\ status = "running"
         /\ pc[t] \in Walking
         /\ pc' = [pc EXCEPT ![t] = pc'[t]]
         /\ pc'[t] \in Walking \cup {"dead"}
         /\ t = Main => pc'[t] \in Walking
         /\ \A u \in Thread : u # t => pc'[u] = pc[u]
         /\ \A u \in Thread : u # t => node'[u] = node[u]
         /\ cancelled \subseteq cancelled' /\ again \subseteq again'
<1>1. Main \notin cancelled
  BY DEF TypeOK, ServerAssumption
<1> SUFFICES /\ UNCHANGED <<current, signals, beside, mutex, local, requests, log>>
             /\ status = "running"
             /\ pc[t] \in Walking
             /\ pc' = [pc EXCEPT ![t] = pc'[t]]
             /\ pc'[t] \in Walking \cup {"dead"}
             /\ t = Main => pc'[t] \in Walking
             /\ node' = [node EXCEPT ![t] = node'[t]]
             /\ cancelled \subseteq cancelled' /\ again \subseteq again'
  BY DEF TypeOK
<1> USE <1>1 DEF TypeOK, lvars, tvars, svars, wvars, At, Goto, Walking
<1>2. CASE CancelFirst(t)
  BY <1>2 DEF CancelFirst
<1>3. CASE Join(t)
  BY <1>3 DEF Join
<1>4. CASE JoinFails(t)
  BY <1>4 DEF JoinFails
<1>5. CASE JoinReturns(t)
  BY <1>5 DEF JoinReturns
<1>6. CASE FreeFirst(t)
  BY <1>6 DEF FreeFirst
<1>7. CASE FreeKills(t)
  BY <1>7 DEF FreeKills
<1>8. CASE Exit(t)
  BY <1>8 DEF Exit
<1>9. QED
  BY <1>2, <1>3, <1>4, <1>5, <1>6, <1>7, <1>8 DEF Terminate

\* The main thread touches neither the mutex nor a worker's locals.
LEMMA SetUpMoves ==
  ASSUME TypeOK, SetUp, ServerAssumption, SetsUp
  PROVE  /\ UNCHANGED <<cancelled, beside, begun, again, mutex, local, requests, log>>
         /\ status = "running" /\ status' \in {"running", "hung"}
         /\ Main \in Thread /\ Main \notin Conn
         /\ pc'[Main] \in {"accept", "create", "insert", "t_next", pc[Main]}
         /\ pc'[Main] = pc[Main] => pc[Main] \in {"t_next"} \/ UNCHANGED <<pc, lvars, node>>
         /\ \A t \in Thread : t # Main => node'[t] = node[t]
         /\ \A c \in Conn : \/ pc'[c] = pc[c]
                            \/ pc[c] = "new" /\ pc'[c] = "accepted"
                            \/ pc[c] = "accepted" /\ pc'[c] = "recv"
<1>1. Main \in Thread /\ Main \notin Conn /\ Main \notin cancelled
      /\ \A c \in Conn : c # Main /\ c \in Thread
  BY DEF Thread, ServerAssumption, TypeOK
<1> USE <1>1 DEF TypeOK, SetUp, lvars, tvars, svars, wvars, At, Goto
<1>2. CASE StartUp
  BY <1>2 DEF StartUp
<1>3. CASE Accept
  BY <1>3 DEF Accept
<1>4. CASE AcceptFails
  BY <1>4 DEF AcceptFails
<1>5. CASE CreateThread
  BY <1>5 DEF CreateThread
<1>6. CASE CreateFails
  BY <1>6 DEF CreateFails
<1>7. CASE Insert
  BY <1>7 DEF Insert
<1>8. CASE InsertFails
  BY <1>8 DEF InsertFails
<1>9. CASE Signal
  BY <1>9 DEF Signal
<1>10. CASE SignalInFree
  BY <1>10 DEF SignalInFree
<1>11. CASE SignalHangs
  BY <1>11 DEF SignalHangs, ToWorker
<1>12. QED
  BY <1>2, <1>3, <1>4, <1>5, <1>6, <1>7, <1>8, <1>9, <1>10, <1>11 DEF SetsUp

\* The first node of a list, and what is left without it.
LEMMA HeadAndTail ==
  ASSUME list \in Seq(Conn), list # << >>
  PROVE  /\ Head(list) \in Listed
         /\ Head(list) \in Conn
         /\ Tail(list) \in Seq(Conn)
         /\ \A c \in Listed : c = Head(list) \/ \E i \in DOMAIN Tail(list) : c = Tail(list)[i]
<1>1. /\ Len(list) \in Nat \ {0} /\ DOMAIN list = 1 .. Len(list)
      /\ Head(list) = list[1] /\ list[1] \in Conn
  BY EmptySeq, LenProperties
<1>2. /\ Tail(list) \in Seq(Conn) /\ Len(Tail(list)) = Len(list) - 1
      /\ \A i \in 1 .. Len(Tail(list)) : Tail(list)[i] = list[i + 1]
  BY HeadTailProperties
<1>3. ASSUME NEW c \in Listed, c # Head(list)
      PROVE  \E i \in DOMAIN Tail(list) : c = Tail(list)[i]
  <2>1. PICK j \in 1 .. Len(list) : c = list[j]
    BY <1>1 DEF Listed
  <2>2. j - 1 \in 1 .. Len(Tail(list)) /\ Tail(list)[j - 1] = list[j]
    BY <1>1, <1>2, <1>3, <2>1
  <2> QED
    BY <1>2, <2>1, <2>2, LenProperties
<1>4. QED
  BY <1>1, <1>2, <1>3 DEF Listed

LEMMA ListedAreConn ==
  ASSUME TypeOK
  PROVE  Listed \subseteq Conn /\ cancelled \subseteq Conn
BY ElementOfSeq, LenProperties DEF Listed, TypeOK

\* Inserting a node adds it to the list, and loses none.
LEMMA InsertKnows ==
  ASSUME list \in Seq(Conn), NEW c \in Conn, list' = InsertHead(c)
  PROVE  list' \in Seq(Conn) /\ Listed' = Listed \cup {c}
<1>1. /\ list' \in Seq(Conn) /\ Len(list) \in Nat /\ Len(list') = Len(list) + 1
      /\ DOMAIN list = 1 .. Len(list) /\ DOMAIN list' = 1 .. Len(list) + 1
      /\ list'[1] = c /\ \A i \in 2 .. Len(list) + 1 : list'[i] = list[i - 1]
  <2>1. <<c>> \in Seq(Conn) /\ Len(<<c>>) = 1 /\ <<c>>[1] = c
    OBVIOUS
  <2>2. Len(list) \in Nat /\ DOMAIN list = 1 .. Len(list)
    BY LenProperties
  <2>3. /\ list' \in Seq(Conn) /\ Len(list') = 1 + Len(list)
        /\ \A i \in 1 .. 1 + Len(list) : list'[i] = IF i <= 1 THEN <<c>>[i] ELSE list[i - 1]
    BY <2>1, ConcatProperties DEF InsertHead
  <2>4. DOMAIN list' = 1 .. 1 + Len(list)
    BY <2>3, LenProperties
  <2>5. QED
    BY <2>1, <2>2, <2>3, <2>4
<1>2. ASSUME NEW d \in Listed'
      PROVE  d \in Listed \cup {c}
  <2>1. PICK i \in 1 .. Len(list) + 1 : d = list'[i]
    BY <1>1 DEF Listed
  <2>2. i = 1 \/ (i \in 2 .. Len(list) + 1 /\ i - 1 \in 1 .. Len(list))
    BY <1>1, <2>1
  <2>3. QED
    BY <1>1, <2>1, <2>2 DEF Listed
<1>3. ASSUME NEW d \in Listed
      PROVE  d \in Listed'
  <2>1. PICK i \in 1 .. Len(list) : d = list[i]
    BY <1>1 DEF Listed
  <2>2. i + 1 \in 2 .. Len(list) + 1 /\ i + 1 \in 1 .. Len(list) + 1 /\ (i + 1) - 1 = i
    BY <1>1, <2>1
  <2>3. QED
    BY <1>1, <2>1, <2>2 DEF Listed
<1>4. c \in Listed'
  <2>1. 1 \in 1 .. Len(list) + 1
    BY <1>1
  <2>2. QED
    BY <1>1, <2>1 DEF Listed
<1>5. QED
  BY <1>1, <1>2, <1>3, <1>4

\* What terminate does to the list.
LEMMA ListWalked ==
  ASSUME TypeOK, NEW t \in Thread, Terminate(t)
  PROVE  list' \in Seq(Conn) /\ Listed' \subseteq Listed
<1>1. list' = list => Listed' = Listed
  BY DEF Listed
<1>2. ASSUME list # << >>, list' = Tail(list)
      PROVE  list' \in Seq(Conn) /\ Listed' \subseteq Listed
  <2>1. /\ Tail(list) \in Seq(Conn) /\ Len(Tail(list)) = Len(list) - 1
        /\ \A i \in 1 .. Len(Tail(list)) : Tail(list)[i] = list[i + 1]
    BY <1>2, HeadTailProperties DEF TypeOK
  <2>2. /\ Len(list) \in Nat /\ DOMAIN list = 1 .. Len(list)
        /\ Len(list') = Len(list) - 1 /\ DOMAIN list' = 1 .. Len(list')
    BY <1>2, <2>1, LenProperties DEF TypeOK
  <2>3. ASSUME NEW i \in DOMAIN list' PROVE list'[i] \in Listed
    <3>1. i + 1 \in DOMAIN list /\ list'[i] = list[i + 1]
      BY <1>2, <2>1, <2>2
    <3>2. QED
      BY <3>1 DEF Listed
  <2>4. QED
    BY <1>2, <2>1, <2>3 DEF Listed
<1>3. list \in Seq(Conn)
  BY DEF TypeOK
<1> USE <1>1, <1>3 DEF lvars
<1>4. CASE FreeFirst(t)
  BY <1>2, <1>4 DEF FreeFirst, RemoveHead
<1>5. CASE ~FreeFirst(t)
  BY <1>5 DEF Terminate, CancelFirst, Join, JoinFails, JoinReturns, FreeKills, Exit
<1>6. QED
  BY <1>4, <1>5

-----------------------------------------------------------------------------
(***************************************************************************)
(* What the steps that change a worker's locals make of them.              *)
(***************************************************************************)
\* One field of a worker's locals is changed.
LEMMA SetRequest ==
  ASSUME NEW l \in Locals, NEW r \in {"none", "command", "seek"}
  PROVE  [l EXCEPT !.request = r]
           = [request |-> r, pos |-> l.pos, wrote |-> l.wrote, sent |-> l.sent]
BY DEF Locals

LEMMA SetPos ==
  ASSUME NEW l \in Locals, NEW n \in Nat
  PROVE  [l EXCEPT !.pos = n]
           = [request |-> l.request, pos |-> n, wrote |-> l.wrote, sent |-> l.sent]
BY DEF Locals

LEMMA SetWrote ==
  ASSUME NEW l \in Locals, NEW b \in BOOLEAN
  PROVE  [l EXCEPT !.wrote = b]
           = [request |-> l.request, pos |-> l.pos, wrote |-> b, sent |-> l.sent]
BY DEF Locals

LEMMA SetSent ==
  ASSUME NEW l \in Locals, NEW s \in Seq(Conn)
  PROVE  [l EXCEPT !.sent = s]
           = [request |-> l.request, pos |-> l.pos, wrote |-> l.wrote, sent |-> s]
BY DEF Locals

\* The locals of one worker are changed.
LEMMA LocalSet ==
  ASSUME TypeOK, NEW c \in Conn, NEW l \in Locals, local' = [local EXCEPT ![c] = l]
  PROVE  /\ local' \in [Conn -> Locals] /\ local'[c] = l
         /\ \A d \in Conn : d # c => local'[d] = local[d]
BY DEF TypeOK

LEMMA ResetLocal ==
  ASSUME TypeOK, NEW c \in Conn, local' = [local EXCEPT ![c] = NoRequest]
  PROVE  /\ local' \in [Conn -> Locals] /\ local'[c] = NoRequest
         /\ \A d \in Conn : d # c => local'[d] = local[d]
<1>1. NoRequest \in Locals
  BY EmptySeq DEF NoRequest, Locals
<1> QED
  BY <1>1, LocalSet

LEMMA ReceiveLocal ==
  ASSUME TypeOK, NEW c \in Conn, Receive(c)
  PROVE  /\ local' \in [Conn -> Locals]
         /\ \A d \in Conn : d # c => local'[d] = local[d]
         /\ local'[c].pos = 0 /\ local'[c].sent = << >> /\ local'[c].wrote = FALSE
<1>1. << >> \in Seq(Conn)
  BY EmptySeq
<1>2. PICK r \in {"command", "seek"} : local' = [local EXCEPT ![c] = [NoRequest EXCEPT !.request = r]]
  BY DEF Receive
<1>3. [NoRequest EXCEPT !.request = r] = [request |-> r, pos |-> 0, wrote |-> FALSE, sent |-> << >>]
  <2>1. /\ NoRequest \in Locals /\ NoRequest.pos = 0
        /\ NoRequest.wrote = FALSE /\ NoRequest.sent = << >>
    BY <1>1 DEF NoRequest, Locals
  <2> QED
    BY <2>1, SetRequest
<1> DEFINE l == [request |-> r, pos |-> 0, wrote |-> FALSE, sent |-> << >>]
<1>4. l \in Locals
  BY <1>1 DEF Locals
<1> QED
  BY <1>2, <1>3, <1>4, LocalSet

LEMMA WriteLocal ==
  ASSUME TypeOK, NEW c \in Conn, Write(c)
  PROVE  /\ local' \in [Conn -> Locals]
         /\ \A d \in Conn : d # c => local'[d] = local[d]
         /\ local'[c].pos = local[c].pos /\ local'[c].sent = local[c].sent
<1> DEFINE l == [request |-> local[c].request, pos |-> local[c].pos, wrote |-> TRUE,
                 sent |-> local[c].sent]
<1>1. local[c] \in Locals
  BY DEF TypeOK
<1>2. l \in Locals
  BY <1>1 DEF Locals
<1>3. local' = [local EXCEPT ![c] = l]
  BY <1>1, SetWrote DEF Write
<1> QED
  BY <1>2, <1>3, LocalSet

LEMMA SeekLocal ==
  ASSUME TypeOK, NEW c \in Conn, Seek(c)
  PROVE  /\ local' \in [Conn -> Locals]
         /\ \A d \in Conn : d # c => local'[d] = local[d]
         /\ local'[c].sent = local[c].sent /\ local'[c].wrote = local[c].wrote
         /\ local'[c].pos \in 0 .. Len(log)
         /\ local'[c].request = local[c].request
<1>1. local[c] \in Locals /\ Len(log) \in Nat
  BY LenProperties DEF TypeOK
<1>2. PICK pos \in 0 .. Len(log) :
        local' = [local EXCEPT ![c] = [local[c] EXCEPT !.pos = pos]]
  BY DEF Seek
<1> DEFINE l == [request |-> local[c].request, pos |-> pos, wrote |-> local[c].wrote,
                 sent |-> local[c].sent]
<1>3. pos \in 0 .. Len(log) /\ pos \in Nat
  BY <1>1, <1>2
<1>4. l \in Locals
  BY <1>1, <1>3 DEF Locals
<1>5. local' = [local EXCEPT ![c] = l]
  BY <1>1, <1>2, <1>3, SetPos
<1>6. local' \in [Conn -> Locals] /\ local'[c] = l /\ \A d \in Conn : d # c => local'[d] = local[d]
  BY <1>4, <1>5, LocalSet
<1> QED
  BY <1>2, <1>3, <1>6

LEMMA ReplyLocal ==
  ASSUME TypeOK, NEW c \in Conn, Reply(c)
  PROVE  /\ local' \in [Conn -> Locals]
         /\ \A d \in Conn : d # c => local'[d] = local[d]
         /\ local'[c].request = local[c].request /\ local'[c].wrote = local[c].wrote
         /\ local'[c].pos = local[c].pos + 1
         /\ local'[c].sent = Append(local[c].sent, log[local[c].pos + 1])
<1> DEFINE p == local[c].pos + 1
           s == Append(local[c].sent, log[p])
           k == [request |-> local[c].request, pos |-> p, wrote |-> local[c].wrote,
                 sent |-> local[c].sent]
           l == [request |-> local[c].request, pos |-> p, wrote |-> local[c].wrote,
                 sent |-> s]
<1>1. local[c] \in Locals /\ Len(log) \in Nat /\ p \in 1 .. Len(log)
  <2>1. local[c] \in Locals /\ Len(log) \in Nat
    BY LenProperties DEF TypeOK
  <2> QED
    BY <2>1 DEF Reply, Locals
<1>2. p \in Nat /\ log[p] \in Conn
  BY <1>1, ElementOfSeq DEF TypeOK
<1>3. s \in Seq(Conn)
  BY <1>1, <1>2 DEF Locals
<1>4. [local[c] EXCEPT !.pos = p] = k /\ k \in Locals
  <2>1. k \in Locals
    BY <1>1, <1>2 DEF Locals
  <2> QED
    BY <1>1, <1>2, <2>1, SetPos
<1>5. [k EXCEPT !.sent = s] = l /\ l \in Locals
  <2>1. l \in Locals
    BY <1>1, <1>2, <1>3 DEF Locals
  <2>2. [k EXCEPT !.sent = s]
          = [request |-> k.request, pos |-> k.pos, wrote |-> k.wrote, sent |-> s]
    <3> HIDE DEF k, s
    <3> QED
      BY <1>3, <1>4, SetSent
  <2> QED
    BY <2>1, <2>2
<1>6. local' = [local EXCEPT ![c] = [[local[c] EXCEPT !.pos = p] EXCEPT !.sent = s]]
  BY Zenon DEF Reply
<1>7. local' = [local EXCEPT ![c] = l]
  <2> HIDE DEF k, l, p, s
  <2> QED
    BY <1>4, <1>5, <1>6, Zenon
<1>8. local' \in [Conn -> Locals] /\ local'[c] = l /\ \A d \in Conn : d # c => local'[d] = local[d]
  BY <1>5, <1>7, LocalSet
<1> QED
  BY <1>8

-----------------------------------------------------------------------------
(***************************************************************************)
(* Each part of the invariant is kept by every step.                       *)
(***************************************************************************)
LEMMA TypeStep ==
  ASSUME TypeOK, SetUp, Handling, ServerAssumption, [Next]_vars
  PROVE  TypeOK'
<1>0. Main \in Thread /\ Main \notin Conn /\ Conn \subseteq Thread /\ NoConn \notin Conn
  BY DEF Thread, ServerAssumption
<1>1. ASSUME NEW c \in Conn, Serves(c)
      PROVE  TypeOK'
  <2>1. /\ UNCHANGED <<cancelled, lvars, tvars, svars>>
        /\ pc' \in [Thread -> Label \cup MainLabel]
        /\ pc'[Main] \in MainLabel /\ \A d \in Conn : pc'[d] \in Label
        /\ status' \in {"running", "killed"}
    <3>1. /\ pc' = [pc EXCEPT ![c] = pc'[c]] /\ pc'[c] \in Label /\ c \in Thread /\ c # Main
          /\ \A t \in Thread : t # c => pc'[t] = pc[t]
      BY <1>1, ServeMoves DEF Label, Alive, Inside
    <3>2. pc' \in [Thread -> Label \cup MainLabel]
      BY <3>1 DEF TypeOK
    <3>3. QED
      BY <1>0, <1>1, <3>1, <3>2, ServeMoves DEF TypeOK, lvars, tvars, svars
  <2> SUFFICES /\ mutex' \in Conn \cup {NoConn}
               /\ local' \in [Conn -> Locals]
               /\ requests' \in 0 .. MaxRequests
               /\ log' \in Seq(Conn)
    BY <2>1 DEF TypeOK, lvars, tvars, svars
  <2> USE DEF TypeOK, wvars, GiveUp, NoRequest, Device!Add, Device!Recent
  <2>3. CASE Receive(c)
    <3>1. /\ requests < MaxRequests /\ requests' = requests + 1
          /\ UNCHANGED <<mutex, log>>
      BY <2>3 DEF Receive
    <3>2. requests' \in 0 .. MaxRequests
      BY <3>1 DEF ServerAssumption
    <3> QED
      BY <2>3, <3>1, <3>2, ReceiveLocal
  <2>4. CASE ReceiveFails(c)
    BY <2>4 DEF ReceiveFails, ServerAssumption
  <2>5. CASE Lock(c)
    BY <2>5 DEF Lock, ServerAssumption
  <2>6. CASE Open(c)
    BY <2>6 DEF Open, ServerAssumption
  <2>7. CASE OpenFails(c)
    BY <2>7, ResetLocal DEF OpenFails
  <2>8. CASE Write(c)
    <3>1. (IF Len(log) < Capacity THEN log ELSE Tail(log)) \in Seq(Conn)
      <4>1. log # << >> => Tail(log) \in Seq(Conn)
        BY HeadTailProperties
      <4> QED
        BY <4>1, EmptySeq DEF ServerAssumption
    <3>2. log' = Append(IF Len(log) < Capacity THEN log ELSE Tail(log), c)
      BY <2>8 DEF Write
    <3>3. log' \in Seq(Conn)
      BY <3>1, <3>2, AppendProperties
    <3> QED
      BY <2>8, <3>3, WriteLocal DEF Write
  <2>9. CASE WriteFails(c)
    BY <2>9 DEF WriteFails, ServerAssumption
  <2>10. CASE Seek(c)
    BY <2>10, SeekLocal DEF Seek
  <2>11. CASE SeekFails(c)
    BY <2>11, ResetLocal DEF SeekFails
  <2>12. CASE Reply(c)
    BY <2>12, ReplyLocal DEF Reply
  <2>13. CASE ReplyDone(c)
    BY <2>13 DEF ReplyDone, ServerAssumption
  <2>14. CASE ReplyFails(c)
    BY <2>14, ResetLocal DEF ReplyFails
  <2>15. CASE ReplyKills(c)
    BY <2>15 DEF ReplyKills, ServerAssumption
  <2>16. CASE Close(c)
    BY <2>16, ResetLocal DEF Close
  <2>17. CASE CloseFails(c)
    BY <2>17, ResetLocal DEF CloseFails
  <2>18. CASE UseAfterFree(c)
    BY <2>18 DEF UseAfterFree, ServerAssumption
  <2>19. QED
    BY <1>1, <2>3, <2>4, <2>5, <2>6, <2>7, <2>8, <2>9, <2>10, <2>11, <2>12, <2>13,
       <2>14, <2>15, <2>16, <2>17, <2>18 DEF Serves
<1>2. ASSUME NEW c \in Conn, Cancelled(c)
      PROVE  TypeOK'
  <2>1. /\ pc' = [pc EXCEPT ![c] = "dead"] /\ "dead" \in Label
        /\ node' = [node EXCEPT ![c] = NoConn] /\ c \in Thread /\ pc'[Main] = pc[Main]
    BY <1>2, CancelMoves DEF Label
  <2>2. /\ pc' \in [Thread -> Label \cup MainLabel] /\ \A d \in Conn : pc'[d] \in Label
        /\ node' \in [Thread -> Conn \cup {NoConn}] /\ pc'[Main] \in MainLabel
    BY <1>0, <2>1 DEF TypeOK
  <2>3. local' \in [Conn -> Locals]
    BY <1>2, CancelMoves, ResetLocal
  <2>4. UNCHANGED <<cancelled, current, list, info, again, signals, beside, mutex, requests,
                    log, status>> /\ begun' \subseteq begun /\ sockets' \subseteq sockets
    BY <1>2, CancelMoves
  <2>5. QED
    BY <2>2, <2>3, <2>4 DEF TypeOK
<1>3. ASSUME NEW c \in Conn, SignalBeside(c)
      PROVE  TypeOK'
  <2>1. /\ pc' = [pc EXCEPT ![c] = pc'[c]] /\ pc'[c] \in Label
        /\ c \in Thread /\ pc'[Main] = pc[Main]
    BY <1>3, BesideMoves DEF Label, Walking
  <2>2. /\ pc' \in [Thread -> Label \cup MainLabel] /\ \A d \in Conn : pc'[d] \in Label
        /\ pc'[Main] \in MainLabel
    BY <1>0, <2>1 DEF TypeOK
  <2>3. local' \in [Conn -> Locals]
    BY <1>3, BesideMoves, ResetLocal
  <2>4. UNCHANGED <<cancelled, current, list, info, sockets, node, begun, again, signals,
                    mutex, requests, log, status>> /\ beside' = beside \cup {c}
    BY <1>3, BesideMoves
  <2>5. QED
    BY <2>2, <2>3, <2>4 DEF TypeOK
<1>4. ASSUME NEW t \in Thread, Terminate(t)
      PROVE  TypeOK'
  <2>1. /\ pc' = [pc EXCEPT ![t] = pc'[t]]
        /\ pc'[t] \in Walking \cup {"dead"} /\ (t = Main => pc'[t] \in Walking)
        /\ \A u \in Thread : u # t => pc'[u] = pc[u]
        /\ UNCHANGED <<current, signals, beside, mutex, local, requests, log>>
        /\ list' \in Seq(Conn)
    BY <1>4, TerminateMoves, ListWalked
  <2>2. /\ pc' \in [Thread -> Label \cup MainLabel] /\ \A d \in Conn : pc'[d] \in Label
        /\ pc'[Main] \in MainLabel
    BY <1>0, <2>1 DEF TypeOK, Label, MainLabel
  <2>3. list # << >> => Head(list) \in Conn
    BY HeadAndTail DEF TypeOK
  <2>4. /\ cancelled' \subseteq Conn /\ info' \subseteq Conn /\ sockets' \subseteq Conn
        /\ node' \in [Thread -> Conn \cup {NoConn}]
        /\ begun' \subseteq Conn /\ again' \subseteq Conn
        /\ status' \in {"running", "exited", "killed", "hung"}
    <3> USE <1>0, <2>3 DEF TypeOK, lvars, tvars, svars, wvars, At, Handling, Handled
    <3>1. CASE CancelFirst(t)
      BY <3>1 DEF CancelFirst
    <3>2. CASE Join(t)
      BY <3>2 DEF Join
    <3>3. CASE JoinFails(t)
      BY <3>3 DEF JoinFails
    <3>4. CASE JoinReturns(t)
      BY <3>4 DEF JoinReturns
    <3>5. CASE FreeFirst(t)
      BY <3>5 DEF FreeFirst
    <3>6. CASE FreeKills(t)
      BY <3>6 DEF FreeKills
    <3>7. CASE Exit(t)
      BY <3>7 DEF Exit
    <3>8. QED
      BY <1>4, <3>1, <3>2, <3>3, <3>4, <3>5, <3>6, <3>7 DEF Terminate
  <2>5. QED
    BY <2>1, <2>2, <2>4 DEF TypeOK
<1>5. CASE SetsUp
  <2>1. /\ UNCHANGED <<cancelled, beside, begun, again, mutex, local, requests, log>>
        /\ status' \in {"running", "hung"}
    BY <1>5, SetUpMoves
  <2>2. \A c \in Conn : c # Main /\ c \in Thread
    BY <1>0
  <2> USE <1>0, <2>1, <2>2 DEF TypeOK, lvars, tvars, svars, wvars, At, Goto, MainLabel, Label,
                           Walking, SetUp
  <2>3. CASE StartUp
    BY <2>3 DEF StartUp
  <2>4. CASE Accept
    BY <2>4 DEF Accept
  <2>5. CASE AcceptFails
    BY <2>5 DEF AcceptFails
  <2>6. CASE CreateThread
    BY <2>6 DEF CreateThread, Alive
  <2>7. CASE CreateFails
    BY <2>7 DEF CreateFails
  <2>8. CASE Insert
    <3>1. current \in Conn
      BY <2>8 DEF Insert
    <3>2. list' \in Seq(Conn)
      BY <2>8, <3>1, InsertKnows DEF Insert
    <3>3. QED
      BY <2>8, <3>2 DEF Insert
  <2>9. CASE InsertFails
    BY <2>9 DEF InsertFails
  <2>10. CASE Signal
    BY <2>10 DEF Signal
  <2>11. CASE SignalInFree
    BY <2>11 DEF SignalInFree
  <2>12. CASE SignalHangs
    BY <2>12 DEF SignalHangs
  <2>13. QED
    BY <1>5, <2>3, <2>4, <2>5, <2>6, <2>7, <2>8, <2>9, <2>10, <2>11, <2>12 DEF SetsUp
<1>6. CASE UNCHANGED vars
  BY <1>6 DEF TypeOK, vars, lvars, tvars, svars, wvars
<1>7. QED
  BY <1>1, <1>2, <1>3, <1>4, <1>5, <1>6, KindsOfSteps

LEMMA MutexStep ==
  ASSUME TypeOK, SetUp, BesideOnly, MutexDiscipline, ServerAssumption, [Next]_vars
  PROVE  MutexDiscipline'
<1>1. ASSUME NEW c \in Conn, Serves(c)
      PROVE  MutexDiscipline'
  <2>1. /\ pc[c] \in Alive
        /\ pc' = [pc EXCEPT ![c] = pc'[c]]
        /\ pc'[c] \in Alive \cup {"ended", "dead"}
        /\ pc \in [Thread -> Label \cup MainLabel] /\ c \in Thread
        /\ beside' = beside
    BY <1>1, ServeMoves DEF TypeOK
  <2>2. /\ \A d \in Conn : d # c => pc'[d] = pc[d]
        /\ c # NoConn
    BY <1>1, ServeMoves DEF ServerAssumption, Thread
  <2> SUFFICES \/ mutex' = mutex /\ (pc'[c] \in Inside => pc[c] \in Inside)
                  /\ (pc[c] \in Inside => pc'[c] \in Inside \cup {"dead"})
               \/ mutex = NoConn /\ mutex' = c /\ pc'[c] \in Inside \cup {"dead"}
               \/ pc[c] \in Inside /\ mutex' = NoConn /\ pc'[c] \notin Inside
    BY <2>1, <2>2 DEF MutexDiscipline, ServerAssumption, Alive, Inside, Walking
  <2> USE <2>1 DEF At, Goto, GiveUp, Inside, CancellationPoints, wvars, Alive
  <2>4. CASE Receive(c)
    BY <2>4 DEF Receive
  <2>5. CASE ReceiveFails(c)
    BY <2>5 DEF ReceiveFails
  <2>6. CASE Lock(c)
    BY <2>6 DEF Lock
  <2>7. CASE Open(c)
    BY <2>7 DEF Open
  <2>8. CASE OpenFails(c)
    BY <2>8 DEF OpenFails
  <2>9. CASE Write(c)
    BY <2>9 DEF Write
  <2>10. CASE WriteFails(c)
    BY <2>10 DEF WriteFails
  <2>11. CASE Seek(c)
    BY <2>11 DEF Seek
  <2>12. CASE SeekFails(c)
    BY <2>12 DEF SeekFails
  <2>13. CASE Reply(c)
    BY <2>13 DEF Reply
  <2>14. CASE ReplyDone(c)
    BY <2>14 DEF ReplyDone
  <2>15. CASE ReplyFails(c)
    BY <2>15 DEF ReplyFails
  <2>16. CASE ReplyKills(c)
    BY <2>16 DEF ReplyKills
  <2>17. CASE Close(c)
    BY <2>17 DEF Close
  <2>18. CASE CloseFails(c)
    BY <2>18 DEF CloseFails
  <2>19. CASE UseAfterFree(c)
    BY <2>19 DEF UseAfterFree
  <2>20. QED
    BY <1>1, <2>4, <2>5, <2>6, <2>7, <2>8, <2>9, <2>10, <2>11, <2>12, <2>13, <2>14,
       <2>15, <2>16, <2>17, <2>18, <2>19 DEF Serves
<1>2. ASSUME NEW c \in Conn, Cancelled(c)
      PROVE  MutexDiscipline'
  <2>1. /\ pc'[c] = "dead" /\ UNCHANGED <<mutex, beside>>
        /\ \A d \in Conn : d # c => pc'[d] = pc[d]
    BY <1>2, CancelMoves DEF Thread
  <2>2. QED
    BY <2>1 DEF MutexDiscipline, Inside
<1>3. ASSUME NEW c \in Conn, SignalBeside(c)
      PROVE  MutexDiscipline'
  <2>1. /\ pc'[c] \in {"t_next", "dead"} /\ mutex' = mutex /\ beside' = beside \cup {c}
        /\ \A d \in Conn : d # c => pc'[d] = pc[d]
    BY <1>3, BesideMoves DEF Thread
  <2>2. QED
    BY <2>1 DEF MutexDiscipline, Inside, Walking
<1>4. ASSUME NEW t \in Thread, Terminate(t)
      PROVE  MutexDiscipline'
  <2>1. /\ pc[t] \in Walking /\ pc'[t] \in Walking \cup {"dead"} /\ UNCHANGED <<mutex, beside>>
        /\ \A d \in Conn : d # t => pc'[d] = pc[d]
    BY <1>4, TerminateMoves DEF Thread
  <2>2. QED
    BY <2>1 DEF MutexDiscipline, BesideOnly, Inside, Walking
<1>5. CASE SetsUp
  <2>1. /\ UNCHANGED <<mutex, beside>>
        /\ \A c \in Conn : \/ pc'[c] = pc[c]
                           \/ pc[c] \in {"new", "accepted"} /\ pc'[c] \in {"accepted", "recv"}
    BY <1>5, SetUpMoves
  <2>2. QED
    BY <2>1 DEF MutexDiscipline, Inside, Walking
<1>6. CASE UNCHANGED vars
  BY <1>6 DEF MutexDiscipline, vars, wvars, svars
<1>7. QED
  BY <1>1, <1>2, <1>3, <1>4, <1>5, <1>6, KindsOfSteps

\* A worker that has ended stays so.
LEMMA EndedStays ==
  ASSUME TypeOK, SetUp, ServerAssumption, [Next]_vars, NEW c \in Conn
  PROVE  /\ pc[c] \in {"ended", "dead"} => pc'[c] = pc[c]
         /\ pc[c] \notin {"new", "accepted"} => pc'[c] \notin {"new", "accepted"}
<1>0. c \in Thread
  BY DEF Thread
<1> USE <1>0 DEF Alive, Inside, Walking
<1>1. ASSUME NEW d \in Conn, Serves(d)
      PROVE  pc'[c] = pc[c] \/ (c = d /\ pc[d] \in Alive /\ pc'[d] \in Alive \cup {"ended", "dead"})
  BY <1>1, ServeMoves
<1>2. ASSUME NEW d \in Conn, Cancelled(d)
      PROVE  pc'[c] = pc[c] \/ (c = d /\ pc[d] \in Alive \cup Walking /\ pc'[d] = "dead")
  BY <1>2, CancelMoves
<1>3. ASSUME NEW d \in Conn, SignalBeside(d)
      PROVE  pc'[c] = pc[c] \/ (c = d /\ pc[d] \in Alive /\ pc'[d] \in {"t_next", "dead"})
  BY <1>3, BesideMoves
<1>4. ASSUME NEW t \in Thread, Terminate(t)
      PROVE  pc'[c] = pc[c] \/ (c = t /\ pc[t] \in Walking /\ pc'[t] \in Walking \cup {"dead"})
  BY <1>4, TerminateMoves
<1>5. SetsUp => \/ pc'[c] = pc[c]
                \/ pc[c] = "new" /\ pc'[c] = "accepted"
                \/ pc[c] = "accepted" /\ pc'[c] = "recv"
  BY SetUpMoves
<1>6. CASE UNCHANGED vars
  BY <1>6 DEF vars
<1>7. QED
  BY <1>1, <1>2, <1>3, <1>4, <1>5, <1>6, KindsOfSteps

LEMMA BesideStep ==
  ASSUME TypeOK, SetUp, BesideOnly, ServerAssumption, [Next]_vars
  PROVE  BesideOnly'
<1> USE DEF BesideOnly, Alive, Inside, Walking
<1>0. Conn \subseteq Thread
  BY DEF Thread
<1>1. ASSUME NEW c \in Conn, Serves(c)
      PROVE  BesideOnly'
  BY <1>0, <1>1, ServeMoves
<1>2. ASSUME NEW c \in Conn, Cancelled(c)
      PROVE  BesideOnly'
  BY <1>0, <1>2, CancelMoves
<1>3. ASSUME NEW c \in Conn, SignalBeside(c)
      PROVE  BesideOnly'
  BY <1>0, <1>3, BesideMoves
<1>4. ASSUME NEW t \in Thread, Terminate(t)
      PROVE  BesideOnly'
  BY <1>0, <1>4, TerminateMoves
<1>5. CASE SetsUp
  BY <1>5, SetUpMoves
<1>6. CASE UNCHANGED vars
  BY <1>6 DEF vars, svars
<1>7. QED
  BY <1>1, <1>2, <1>3, <1>4, <1>5, <1>6, KindsOfSteps

LEMMA SetUpStep ==
  ASSUME TypeOK, SetUp, Handling, ServerAssumption, [Next]_vars
  PROVE  SetUp'
<1>0. Conn \subseteq Thread /\ Main \notin Conn
  BY DEF Thread, ServerAssumption
<1>1. ASSUME NEW c \in Conn, Serves(c)
      PROVE  SetUp'
  <2>1. /\ UNCHANGED <<cancelled, current, list, again, sockets>> /\ pc'[Main] = pc[Main]
        /\ pc[c] \in Alive /\ \A d \in Conn : d # c => pc'[d] = pc[d]
        /\ pc'[c] \in Alive \cup {"ended", "dead"} /\ Listed' = Listed
    BY <1>0, <1>1, ServeMoves DEF Listed
  <2>2. QED
    BY <2>1, ListedAreConn DEF SetUp, Alive, Inside
<1>2. ASSUME NEW c \in Conn, Cancelled(c)
      PROVE  SetUp'
  <2>1. /\ UNCHANGED <<cancelled, current, list, again>> /\ pc'[Main] = pc[Main]
        /\ pc[c] \in Alive \cup Walking /\ \A d \in Conn : d # c => pc'[d] = pc[d]
        /\ pc'[c] = "dead" /\ Listed' = Listed
    BY <1>0, <1>2, CancelMoves DEF Listed
  <2>2. pc[Main] = "create" => current \in sockets'
    <3>1. pc[c] = "t_free" => node[c] \in cancelled
      BY <1>0 DEF Handling, Handled
    <3>2. pc[Main] = "create" /\ pc[c] = "t_free" => node[c] # current
      BY <3>1 DEF SetUp
    <3>3. QED
      BY <1>2, <3>2, CancelMoves DEF SetUp
  <2>3. QED
    BY <2>1, <2>2, ListedAreConn DEF SetUp, Alive, Inside, Walking
<1>3. ASSUME NEW c \in Conn, SignalBeside(c)
      PROVE  SetUp'
  <2>1. /\ UNCHANGED <<cancelled, current, list, again, sockets>> /\ pc'[Main] = pc[Main]
        /\ pc[c] \in Alive /\ \A d \in Conn : d # c => pc'[d] = pc[d]
        /\ pc'[c] \in {"t_next", "dead"} /\ Listed' = Listed
    BY <1>0, <1>3, BesideMoves DEF Listed
  <2>2. QED
    BY <2>1, ListedAreConn DEF SetUp, Alive, Inside
<1>4. ASSUME NEW t \in Thread, Terminate(t)
      PROVE  SetUp'
  <2>1. /\ current' = current /\ Listed' \subseteq Listed
        /\ pc[t] \in Walking /\ pc'[t] \in Walking \cup {"dead"} /\ (t = Main => pc'[t] \in Walking)
        /\ \A u \in Thread : u # t => pc'[u] = pc[u]
    BY <1>4, TerminateMoves, ListWalked
  <2>2. cancelled' \cup Listed' \subseteq cancelled \cup Listed /\ again' \subseteq cancelled'
    <3>1. list # << >> => Head(list) \in Listed
      BY HeadAndTail DEF TypeOK
    <3> USE <3>1, <2>1 DEF SetUp, lvars, tvars, At, Handling, Handled
    <3>2. CASE CancelFirst(t)
      BY <3>2 DEF CancelFirst
    <3>3. CASE Join(t)
      BY <3>3 DEF Join
    <3>4. CASE JoinFails(t)
      BY <3>4 DEF JoinFails
    <3>5. CASE JoinReturns(t)
      BY <3>5 DEF JoinReturns
    <3>6. CASE FreeFirst(t)
      BY <3>6 DEF FreeFirst
    <3>7. CASE FreeKills(t)
      BY <3>7 DEF FreeKills
    <3>8. CASE Exit(t)
      BY <3>8 DEF Exit
    <3>9. QED
      BY <1>4, <3>2, <3>3, <3>4, <3>5, <3>6, <3>7, <3>8 DEF Terminate
  <2>3. pc[Main] = "create" => current \in sockets'
    <3>1. pc[t] = "t_free" => node[t] \in cancelled
      BY DEF Handling, Handled
    <3>2. pc[Main] = "create" /\ pc[t] = "t_free" => node[t] # current
      BY <3>1 DEF SetUp
    <3>3. sockets' = sockets \/ (pc[t] = "t_free" /\ sockets' = sockets \ {node[t]})
      BY <1>4 DEF Terminate, CancelFirst, Join, JoinFails, JoinReturns, FreeFirst, FreeKills, Exit,
                  lvars, At
    <3>4. QED
      BY <3>2, <3>3 DEF SetUp
  <2>4. \A c \in Conn : pc[c] \notin {"new", "accepted"} => pc'[c] \notin {"new", "accepted"}
    BY <1>0, <2>1 DEF Walking
  <2>5. Listed \subseteq Conn /\ cancelled \subseteq Conn
    BY ListedAreConn
  <2>6. Main \in Thread /\ (t # Main => pc'[Main] = pc[Main])
    BY <2>1 DEF Thread
  <2>7. pc[Main] \in {"create", "insert"} => t # Main /\ (current # t => pc'[current] = pc[current])
    BY <1>0, <2>1 DEF Walking, SetUp
  <2>8. \A c \in Listed' \cup cancelled' : pc'[c] \notin {"new", "accepted"}
    BY <2>2, <2>4, <2>5 DEF SetUp
  <2>9. /\ pc'[Main] \in {"start", "accept", "create", "insert"} => pc'[Main] = pc[Main]
        /\ pc[Main] = "create" => pc'[current] = pc[current]
    <3>1. pc[Main] = "create" => current # t
      BY <2>1 DEF SetUp, Walking
    <3>2. QED
      BY <2>1, <2>6, <2>7, <3>1 DEF Walking
  <2>10. QED
    BY <2>1, <2>2, <2>3, <2>4, <2>8, <2>9 DEF SetUp
<1>5. CASE SetsUp
  <2>0. \A c \in Conn : c # Main /\ c \in Thread
    BY <1>0
  <2>1. /\ UNCHANGED <<cancelled, again>> /\ Main \in Thread
        /\ \A c \in Conn : \/ pc'[c] = pc[c]
                           \/ pc[c] = "new" /\ pc'[c] = "accepted"
                           \/ pc[c] = "accepted" /\ pc'[c] = "recv"
        /\ list' = list => Listed' = Listed
        /\ Listed \subseteq Conn /\ cancelled \subseteq Conn
        /\ Main \notin cancelled
    BY <1>5, <1>0, SetUpMoves, ListedAreConn DEF Listed
  <2> USE <2>0 DEF TypeOK, SetUp, lvars, tvars, svars, At, Goto
  <2>2. CASE StartUp
    BY <2>2, <2>1 DEF StartUp
  <2>3. CASE Accept
    BY <2>3, <2>1 DEF Accept
  <2>4. CASE AcceptFails
    BY <2>4, <2>1 DEF AcceptFails
  <2>5. CASE CreateThread
    BY <2>5, <2>1 DEF CreateThread
  <2>6. CASE CreateFails
    BY <2>6, <2>1 DEF CreateFails
  <2>7. CASE Insert
    <3>1. current \in Conn /\ list \in Seq(Conn)
      BY <2>7 DEF Insert
    <3>2. Listed' = Listed \cup {current}
      BY <2>7, <3>1, InsertKnows DEF Insert
    <3>3. /\ pc'[Main] = "accept" /\ current' = NoConn /\ \A c \in Conn : pc'[c] = pc[c]
          /\ pc[current] \notin {"new", "accepted"}
      BY <2>7, <2>1 DEF Insert
    <3>4. QED
      BY <2>1, <3>1, <3>2, <3>3
  <2>8. CASE InsertFails
    BY <2>8, <2>1 DEF InsertFails
  <2>9. CASE Signal
    BY <2>9, <2>1 DEF Signal
  <2>10. CASE SignalInFree
    BY <2>10, <2>1 DEF SignalInFree
  <2>11. CASE SignalHangs
    BY <2>11, <2>1 DEF SignalHangs
  <2>12. QED
    BY <1>5, <2>2, <2>3, <2>4, <2>5, <2>6, <2>7, <2>8, <2>9, <2>10, <2>11 DEF SetsUp
<1>6. CASE UNCHANGED vars
  BY <1>6 DEF SetUp, Listed, vars, lvars, tvars
<1>7. QED
  BY <1>1, <1>2, <1>3, <1>4, <1>5, <1>6, KindsOfSteps

\* What a thread knows of its node is disturbed by its own steps only.
LEMMA HandlingStep ==
  ASSUME TypeOK, SetUp, Handling, ServerAssumption, [Next]_vars
  PROVE  Handling'
<1>1. ASSUME NEW t \in Thread, pc'[t] = pc[t], node'[t] = node[t], cancelled \subseteq cancelled',
             again \subseteq again'
      PROVE  Handled(t)'
  <2>1. pc[t] = "t_free" => node[t] \in Conn /\ Handled(t)
    BY DEF Handling, Handled, TypeOK
  <2>2. pc[t] = "t_free" /\ pc[node[t]] \in {"ended", "dead"} => pc'[node[t]] = pc[node[t]]
    BY <2>1, EndedStays
  <2>3. QED
    BY <1>1, <2>1, <2>2 DEF Handling, Handled
<1>2. ASSUME NEW t \in Thread, pc'[t] \notin {"t_join", "t_wait", "t_free"}
      PROVE  Handled(t)'
  BY <1>2 DEF Handled
<1>3. ASSUME NEW c \in Conn, Serves(c)
      PROVE  Handling'
  <2>1. /\ UNCHANGED <<node, cancelled, again>> /\ \A t \in Thread : t # c => pc'[t] = pc[t]
        /\ pc'[c] \notin {"t_join", "t_wait", "t_free"}
    BY <1>3, ServeMoves DEF Alive, Inside
  <2>2. QED
    BY <1>1, <1>2, <2>1 DEF Handling
<1>4. ASSUME NEW c \in Conn, Cancelled(c)
      PROVE  Handling'
  <2>1. /\ UNCHANGED <<cancelled, again>> /\ pc'[c] = "dead"
        /\ \A t \in Thread : t # c => pc'[t] = pc[t] /\ node'[t] = node[t]
    BY <1>4, CancelMoves
  <2>2. QED
    BY <1>1, <1>2, <2>1 DEF Handling
<1>5. ASSUME NEW c \in Conn, SignalBeside(c)
      PROVE  Handling'
  <2>1. /\ UNCHANGED <<node, cancelled, again>> /\ \A t \in Thread : t # c => pc'[t] = pc[t]
        /\ pc'[c] \in {"t_next", "dead"}
    BY <1>5, BesideMoves
  <2>2. QED
    BY <1>1, <1>2, <2>1 DEF Handling
<1>6. ASSUME NEW t \in Thread, Terminate(t)
      PROVE  Handling'
  <2>1. /\ cancelled \subseteq cancelled' /\ again \subseteq again'
        /\ \A u \in Thread : u # t => pc'[u] = pc[u] /\ node'[u] = node[u]
    BY <1>6, TerminateMoves
  <2>2. Handled(t)'
    <3>1. /\ Handled(t)
          /\ pc[t] \in {"t_join", "t_wait"} => node[t] \in Conn
          /\ \A c \in Conn : pc[c] \in {"ended", "dead"} => pc'[c] = pc[c]
      BY EndedStays DEF Handling, Handled, TypeOK
    <3> USE <3>1 DEF Handled, TypeOK, At, Goto, lvars, tvars
    <3>2. CASE CancelFirst(t)
      BY <3>2 DEF CancelFirst
    <3>3. CASE Join(t)
      BY <3>3 DEF Join
    <3>4. CASE JoinFails(t)
      BY <3>4 DEF JoinFails
    <3>5. CASE JoinReturns(t)
      BY <3>5 DEF JoinReturns
    <3>6. CASE FreeFirst(t)
      BY <3>6 DEF FreeFirst
    <3>7. CASE FreeKills(t)
      BY <3>7 DEF FreeKills
    <3>8. CASE Exit(t)
      BY <3>8 DEF Exit
    <3>9. QED
      BY <1>6, <3>2, <3>3, <3>4, <3>5, <3>6, <3>7, <3>8 DEF Terminate
  <2>3. QED
    BY <1>1, <2>1, <2>2 DEF Handling
<1>7. CASE SetsUp
  <2>1. /\ UNCHANGED <<cancelled, again>>
        /\ \A t \in Thread : t # Main => pc'[t] = pc[t] \/ pc'[t] \in {"accepted", "recv"}
        /\ \A t \in Thread : t # Main => node'[t] = node[t]
        /\ \/ pc'[Main] \notin {"t_join", "t_wait", "t_free"}
           \/ pc'[Main] = pc[Main] /\ node'[Main] = node[Main]
    <3>1. \A t \in Thread : t # Main => t \in Conn
      BY DEF Thread
    <3>2. QED
      BY <1>7, <3>1, SetUpMoves
  <2>2. QED
    BY <1>1, <1>2, <2>1 DEF Handling
<1>8. CASE UNCHANGED vars
  BY <1>8 DEF Handling, Handled, vars, tvars
<1>9. QED
  BY <1>3, <1>4, <1>5, <1>6, <1>7, <1>8, KindsOfSteps

LEMMA MemoryStep ==
  ASSUME TypeOK, SetUp, Handling, WorkerKeepsItsMemory, ServerAssumption, [Next]_vars
  PROVE  WorkerKeepsItsMemory'
<1>0. Conn \subseteq Thread /\ Main \notin Conn /\ Main \in Thread
  BY DEF Thread, ServerAssumption
<1>1. ASSUME NEW t \in Thread, pc[t] = "t_free" \/ UNCHANGED sockets, cancelled \subseteq cancelled',
             again \subseteq again', current' = current, info \ {node[t]} \subseteq info',
             pc[t] = "t_free" \/ UNCHANGED info,
             sockets \ {node[t]} \subseteq sockets',
             \A c \in Conn : pc'[c] \in Alive => pc[c] \in Alive,
             pc[Main] \in Walking => pc'[Main] \in Walking
      PROVE  WorkerKeepsItsMemory'
  <2> SUFFICES ASSUME NEW c \in Conn, pc[c] \in Alive
               PROVE  \/ c \in info' /\ c \in sockets'
                      \/ pc'[Main] \in Walking /\ c = current
                      \/ c \in again' /\ c \in cancelled'
    BY <1>1 DEF WorkerKeepsItsMemory, Terminating
  <2>1. CASE c = node[t] /\ pc[t] = "t_free"
    <3>1. pc[c] \in {"ended", "dead"} \/ c \in again
      BY <2>1 DEF Handling, Handled
    <3>2. c \in again /\ c \in cancelled
      BY <3>1 DEF SetUp, Alive, Inside
    <3>3. QED
      BY <1>1, <3>2
  <2>2. CASE c # node[t] \/ pc[t] # "t_free"
    BY <1>1, <2>2 DEF WorkerKeepsItsMemory, Terminating
  <2>3. QED
    BY <2>1, <2>2
<1>2. ASSUME NEW c \in Conn, Serves(c)
      PROVE  WorkerKeepsItsMemory'
  <2>1. /\ UNCHANGED <<cancelled, current, info, sockets, again>> /\ pc'[Main] = pc[Main]
        /\ \A d \in Conn : pc'[d] \in Alive => pc[d] \in Alive
    BY <1>0, <1>2, ServeMoves
  <2>2. QED
    BY <1>0, <1>1, <2>1
<1>3. ASSUME NEW c \in Conn, Cancelled(c)
      PROVE  WorkerKeepsItsMemory'
  <2>1. /\ UNCHANGED <<cancelled, current, info, again>> /\ pc'[Main] = pc[Main] /\ c \in Thread
        /\ \A d \in Conn : pc'[d] \in Alive => pc[d] \in Alive
        /\ \/ sockets' = sockets
           \/ pc[c] = "t_free" /\ sockets' = sockets \ {node[c]}
    BY <1>0, <1>3, CancelMoves DEF Alive, Inside
  <2>2. QED
    BY <1>1, <2>1
<1>4. ASSUME NEW c \in Conn, SignalBeside(c)
      PROVE  WorkerKeepsItsMemory'
  <2>1. /\ UNCHANGED <<cancelled, current, info, sockets, again>> /\ pc'[Main] = pc[Main]
        /\ \A d \in Conn : pc'[d] \in Alive => pc[d] \in Alive
    BY <1>0, <1>4, BesideMoves DEF Alive, Inside
  <2>2. QED
    BY <1>0, <1>1, <2>1
<1>5. ASSUME NEW t \in Thread, Terminate(t)
      PROVE  WorkerKeepsItsMemory'
  <2>1. /\ cancelled \subseteq cancelled' /\ again \subseteq again' /\ current' = current
        /\ pc'[t] \in Walking \cup {"dead"} /\ (t = Main => pc'[t] \in Walking)
        /\ \A u \in Thread : u # t => pc'[u] = pc[u]
    BY <1>5, TerminateMoves
  <2>2. \/ UNCHANGED <<info, sockets>>
        \/ pc[t] = "t_free" /\ info' = info \ {node[t]} /\ sockets' = sockets \ {node[t]}
    BY <1>5 DEF Terminate, CancelFirst, Join, JoinFails, JoinReturns, FreeFirst, FreeKills, Exit,
                lvars, At
  <2>3. \A d \in Conn : pc'[d] \in Alive => pc[d] \in Alive
    BY <1>0, <2>1 DEF Alive, Inside, Walking
  <2>4. pc[Main] \in Walking => pc'[Main] \in Walking
    BY <1>0, <2>1
  <2>5. QED
    BY <1>1, <2>1, <2>2, <2>3, <2>4
<1>6. CASE SetsUp
  <2>1. \A c \in Conn : c # Main /\ c \in Thread
    BY <1>0
  <2> USE <1>0, <2>1 DEF WorkerKeepsItsMemory, Terminating, SetUp, At, Goto, lvars, tvars, svars, TypeOK,
                         Alive, Inside, Walking, Handling, Handled
  <2>2. CASE StartUp
    BY <2>2 DEF StartUp
  <2>3. CASE Accept
    BY <2>3 DEF Accept
  <2>4. CASE AcceptFails
    BY <2>4 DEF AcceptFails
  <2>5. CASE CreateThread
    BY <2>5 DEF CreateThread
  <2>6. CASE CreateFails
    BY <2>6 DEF CreateFails
  <2>7. CASE Insert
    BY <2>7 DEF Insert
  <2>8. CASE InsertFails
    BY <2>8 DEF InsertFails
  <2>9. CASE Signal
    BY <2>9 DEF Signal
  <2>10. CASE SignalInFree
    BY <2>10 DEF SignalInFree
  <2>11. CASE SignalHangs
    BY <2>11 DEF SignalHangs
  <2>12. QED
    BY <1>6, <2>2, <2>3, <2>4, <2>5, <2>6, <2>7, <2>8, <2>9, <2>10, <2>11 DEF SetsUp
<1>7. CASE UNCHANGED vars
  BY <1>7 DEF WorkerKeepsItsMemory, Terminating, vars, lvars, tvars
<1>8. QED
  BY <1>2, <1>3, <1>4, <1>5, <1>6, <1>7, KindsOfSteps

LEMMA ListStep ==
  ASSUME TypeOK, SetUp, Handling, BesideOnly, ListKnows, ServerAssumption, [Next]_vars
  PROVE  ListKnows'
<1>0. Conn \subseteq Thread /\ Main \notin Conn /\ Main \in Thread
  BY DEF Thread, ServerAssumption
<1>1. UNCHANGED list => Listed' = Listed
  BY DEF Listed
<1>2. ASSUME NEW c \in Conn, Serves(c)
      PROVE  ListKnows'
  <2>1. /\ UNCHANGED <<current, list, info, sockets, node, again, beside>> /\ pc'[Main] = pc[Main]
        /\ \A d \in Conn : pc'[d] \in Alive => pc[d] \in Alive
        /\ status' # "exited"
    BY <1>0, <1>2, ServeMoves
  <2>2. QED
    BY <1>1, <2>1 DEF ListKnows
<1>3. ASSUME NEW c \in Conn, Cancelled(c)
      PROVE  ListKnows'
  <2>1. /\ UNCHANGED <<current, list, info, again, beside>> /\ pc'[Main] = pc[Main]
        /\ node'[Main] = node[Main] /\ sockets' \subseteq sockets
        /\ \A d \in Conn : pc'[d] \in Alive => pc[d] \in Alive
        /\ status' # "exited"
    BY <1>0, <1>3, CancelMoves DEF Alive, Inside
  <2>2. QED
    BY <1>1, <2>1 DEF ListKnows
<1>4. ASSUME NEW c \in Conn, SignalBeside(c)
      PROVE  ListKnows'
  BY <1>4, BesideMoves DEF ListKnows
<1>5. ASSUME NEW t \in Thread, Terminate(t)
      PROVE  ListKnows'
  <2> SUFFICES ASSUME beside = {}
               PROVE  ListKnows'
    BY <1>5, TerminateMoves DEF ListKnows
  <2>1. /\ pc[Main] \in {"t_join", "t_wait", "t_free"} => list # << >> /\ node[Main] = Head(list)
        /\ sockets \cup info \subseteq Listed \cup {current}
        /\ \A c \in Conn : pc[c] \in Alive => c \in Listed \cup {current} \cup again
        /\ UNCHANGED list => Listed' = Listed
        /\ status = "running"
        /\ t = Main
    <3>1. t = Main
      BY <1>5, TerminateMoves DEF BesideOnly, Thread
    <3>2. QED
      BY <1>1, <1>5, <3>1, TerminateMoves DEF ListKnows
  <2>2. /\ beside' = {} /\ current' = current /\ again \subseteq again'
        /\ \A c \in Conn : pc'[c] = pc[c]
    BY <1>0, <1>5, <2>1, TerminateMoves
  <2> SUFFICES /\ pc'[Main] \in {"t_join", "t_wait", "t_free"}
                    => list' # << >> /\ node'[Main] = Head(list')
               /\ status' = "exited" => list' = << >>
               /\ sockets' \cup info' \subseteq Listed' \cup {current}
               /\ \A c \in Conn : pc[c] \in Alive => c \in Listed' \cup {current} \cup again'
    BY <2>2 DEF ListKnows
  <2> USE <1>0
  <2>3. CASE CancelFirst(Main)
    BY <2>3, <2>1, <2>2 DEF CancelFirst, lvars, tvars, At, Goto, TypeOK
  <2>4. CASE Join(Main)
    BY <2>4, <2>1, <2>2 DEF Join, lvars, tvars, At, Goto, TypeOK
  <2>5. CASE JoinFails(Main)
    BY <2>5, <2>1, <2>2 DEF JoinFails, lvars, tvars, At, Goto, TypeOK
  <2>6. CASE JoinReturns(Main)
    BY <2>6, <2>1, <2>2 DEF JoinReturns, lvars, tvars, At, Goto, TypeOK
  <2>7. CASE FreeFirst(Main)
    <3>1. list # << >> /\ node[Main] = Head(list) /\ list' = Tail(list)
      BY <2>1, <2>7 DEF FreeFirst, RemoveHead, At
    <3>2. \A c \in Listed : c = Head(list) \/ c \in Listed'
      <4>1. \A c \in Listed : c = Head(list) \/ \E i \in DOMAIN Tail(list) : c = Tail(list)[i]
        BY <3>1, HeadAndTail DEF TypeOK
      <4>2. QED
        BY <3>1, <4>1 DEF Listed
    <3>3. pc[node[Main]] \in {"ended", "dead"} \/ node[Main] \in again
      BY <2>7 DEF FreeFirst, At, Handling, Handled, Thread
    <3>4. /\ pc'[Main] = "t_next" /\ again' = again /\ status' = status
          /\ sockets' = sockets \ {node[Main]} /\ info' = info \ {node[Main]}
      BY <2>7 DEF FreeFirst, Goto, TypeOK
    <3>5. /\ sockets' \cup info' \subseteq Listed' \cup {current}
          /\ \A c \in Conn : pc[c] \in Alive => c \in Listed' \cup {current} \cup again
      BY <2>1, <3>1, <3>2, <3>3, <3>4 DEF Alive, Inside
    <3>6. QED
      BY <2>1, <2>2, <3>4, <3>5
  <2>8. CASE FreeKills(Main)
    BY <2>8, <2>1, <2>2 DEF FreeKills, lvars, tvars, At, Goto, TypeOK
  <2>9. CASE Exit(Main)
    BY <2>9, <2>1, <2>2 DEF Exit, lvars, tvars, At, Goto, TypeOK
  <2>10. QED
    BY <1>5, <2>1, <2>3, <2>4, <2>5, <2>6, <2>7, <2>8, <2>9 DEF Terminate
<1>6. CASE SetsUp
  <2>0. \A c \in Conn : c # Main /\ c \in Thread
    BY <1>0
  <2> SUFFICES ASSUME beside = {}
               PROVE  ListKnows'
    BY <1>6, SetUpMoves DEF ListKnows
  <2>1. /\ pc[Main] \in {"t_join", "t_wait", "t_free"} => list # << >> /\ node[Main] = Head(list)
        /\ sockets \cup info \subseteq Listed \cup {current}
        /\ \A c \in Conn : pc[c] \in Alive => c \in Listed \cup {current} \cup again
        /\ UNCHANGED list => Listed' = Listed
        /\ status' # "exited"
    BY <1>1, <1>6, SetUpMoves DEF ListKnows
  <2>2. (/\ pc'[Main] \in {"t_join", "t_wait", "t_free"}
              => list' # << >> /\ node'[Main] = Head(list')
         /\ sockets' \cup info' \subseteq Listed' \cup {current'}
         /\ \A c \in Conn : pc'[c] \in Alive => c \in Listed' \cup {current'} \cup again')
        => ListKnows'
    BY <2>1 DEF ListKnows
  <2>3. Main \in Thread /\ Main \notin cancelled
    BY <1>0 DEF TypeOK
  <2>4. CASE StartUp
    BY <2>4, <2>0, <2>1, <2>2, <2>3 DEF StartUp, SetUp, lvars, tvars, svars, At, Goto, TypeOK, Alive, Inside
  <2>5. CASE Accept
    BY <2>5, <2>0, <2>1, <2>2, <2>3 DEF Accept, SetUp, lvars, tvars, svars, At, Goto, TypeOK, Alive, Inside
  <2>6. CASE AcceptFails
    BY <2>6, <2>0, <2>1, <2>2, <2>3 DEF AcceptFails, SetUp, lvars, tvars, svars, At, Goto, TypeOK, Alive, Inside
  <2>7. CASE CreateThread
    <3>0. current \in Conn /\ pc \in [Thread -> Label \cup MainLabel]
      BY <2>7 DEF CreateThread, At, SetUp, TypeOK
    <3>1. /\ current \in Conn /\ pc'[Main] = "insert" /\ UNCHANGED <<list, current, sockets, again, status>>
          /\ pc'[current] = "recv" /\ info' = info \cup {current}
          /\ \A c \in Conn : c # current => pc'[c] = pc[c]
      BY <2>0, <2>3, <3>0, <2>7 DEF CreateThread, tvars
    <3>2. QED
      BY <2>1, <2>2, <2>3, <3>1
  <2>8. CASE CreateFails
    BY <2>8, <2>0, <2>1, <2>2, <2>3 DEF CreateFails, SetUp, lvars, tvars, svars, At, Goto, TypeOK, Alive, Inside
  <2>9. CASE Insert
    <3>0. current \in Conn /\ pc \in [Thread -> Label \cup MainLabel]
      BY <2>9 DEF Insert, At, SetUp, TypeOK
    <3>1. /\ current \in Conn /\ pc'[Main] = "accept" /\ \A c \in Conn : pc'[c] = pc[c]
          /\ UNCHANGED <<info, sockets, again, status>>
      BY <2>0, <2>3, <3>0, <2>9 DEF Insert, Goto, tvars
    <3>2. Listed' = Listed \cup {current}
      BY <2>9, <3>1, InsertKnows DEF Insert, TypeOK
    <3>3. QED
      BY <2>1, <2>2, <3>1, <3>2
  <2>10. CASE InsertFails
    BY <2>10, <2>0, <2>1, <2>2, <2>3 DEF InsertFails, SetUp, lvars, tvars, svars, At, Goto, TypeOK, Alive, Inside
  <2>11. CASE Signal
    BY <2>11, <2>0, <2>1, <2>2, <2>3 DEF Signal, SetUp, lvars, tvars, svars, At, Goto, TypeOK, Alive, Inside
  <2>12. CASE SignalInFree
    BY <2>12, <2>0, <2>1, <2>2, <2>3 DEF SignalInFree, SetUp, lvars, tvars, svars, At, Goto, TypeOK, Alive, Inside
  <2>13. CASE SignalHangs
    BY <2>13, <2>0, <2>1, <2>2, <2>3 DEF SignalHangs, SetUp, lvars, tvars, svars, At, Goto, TypeOK, Alive, Inside
  <2>14. QED
    BY <1>6, <2>4, <2>5, <2>6, <2>7, <2>8, <2>9, <2>10, <2>11, <2>12, <2>13 DEF SetsUp
<1>7. CASE UNCHANGED vars
  BY <1>1, <1>7 DEF ListKnows, vars, lvars, tvars, svars
<1>8. QED
  BY <1>2, <1>3, <1>4, <1>5, <1>6, <1>7, KindsOfSteps

\* The step of a worker that leaves the device alone, or has the mutex when
\* it adds to it, leaves the answers of the others as they are.
LEMMA AnswerFrame ==
  ASSUME TypeOK, MutexDiscipline, Answers, NEW c \in Conn, NEW d \in Conn, d # c,
         pc'[d] = pc[d], local'[d] = local[d], log' = log \/ pc[c] \in Inside
  PROVE  /\ pc'[d] \in {"lock", "open", "write", "seek"} => Unanswered(d)'
         /\ pc'[d] \in {"reply", "close"} => Answering(d)'
         /\ pc'[d] = "close" => local'[d].pos = Len(log')
         /\ pc'[d] = "seek" => local'[d].request # "command"
<1>1. CASE log' = log
  BY <1>1 DEF Answers, Unanswered, Answering
<1>2. CASE pc[c] \in Inside
  <2>1. pc[d] \notin Inside
    BY <1>2 DEF MutexDiscipline
  <2>2. QED
    BY <2>1 DEF Answers, Unanswered, Inside
<1>3. QED
  BY <1>1, <1>2

LEMMA AnswersStep ==
  ASSUME TypeOK, TypeOK', MutexDiscipline, SetUp, Answers, ServerAssumption, [Next]_vars
  PROVE  Answers'
<1>0. Conn \subseteq Thread /\ Main \notin Conn /\ Main \in Thread
  BY DEF Thread, ServerAssumption
<1>1. ASSUME NEW c \in Conn, Serves(c)
      PROVE  Answers'
  <2>1. /\ pc[c] \in Alive /\ pc \in [Thread -> Label \cup MainLabel] /\ c \in Thread
        /\ pc' = [pc EXCEPT ![c] = pc'[c]]
        /\ \A d \in Conn : d # c => pc'[d] = pc[d]
    BY <1>0, <1>1, ServeMoves DEF TypeOK
  <2> SUFFICES /\ \A d \in Conn : d # c => local'[d] = local[d]
               /\ log' = log \/ pc[c] \in Inside
               /\ pc'[c] \in {"lock", "open", "write", "seek"} => Unanswered(c)'
               /\ pc'[c] \in {"reply", "close"} => Answering(c)'
               /\ pc'[c] = "close" => local'[c].pos = Len(log')
               /\ pc'[c] = "seek" => local'[c].request # "command"
    BY <2>1, AnswerFrame DEF Answers
  <2>2. /\ pc[c] \in {"lock", "open", "write", "seek"} => Unanswered(c)
        /\ pc[c] \in {"reply", "close"} => Answering(c)
        /\ pc[c] = "close" => local[c].pos = Len(log)
        /\ pc[c] = "seek" => local[c].request # "command"
    BY DEF Answers
  <2>3. local' = local /\ log' = log =>
          (Unanswered(c)' <=> Unanswered(c)) /\ (Answering(c)' <=> Answering(c))
    BY DEF Unanswered, Answering
  <2>4. /\ local[c].pos \in Nat /\ local[c].sent \in Seq(Conn) /\ local[c].wrote \in BOOLEAN
        /\ Len(local[c].sent) \in Nat /\ Len(log) \in Nat /\ log \in Seq(Conn)
    BY LenProperties DEF TypeOK, Locals
  <2>5. Unanswered(c) => Len(local[c].sent) = 0
    BY EmptySeq DEF Unanswered
  <2> USE DEF At, Goto, GiveUp, Inside, CancellationPoints, wvars
  <2>7. CASE Receive(c)
    <3>1. pc'[c] \in {"lock", "dead"} /\ log' = log
      BY <2>7, <2>1 DEF Receive
    <3> QED
      BY <2>7, <3>1, ReceiveLocal DEF Unanswered
  <2>8. CASE ReceiveFails(c)
    BY <2>8, <2>1, <2>2, <2>3 DEF ReceiveFails
  <2>9. CASE Lock(c)
    BY <2>9, <2>1, <2>2, <2>3 DEF Lock
  <2>10. CASE Open(c)
    BY <2>10, <2>1, <2>2, <2>3 DEF Open
  <2>11. CASE OpenFails(c)
    <3>1. pc'[c] \in {"dead", "ended"} /\ log' = log
      BY <2>11, <2>1 DEF OpenFails
    <3> QED
      BY <2>11, <3>1, ResetLocal DEF OpenFails
  <2>12. CASE Write(c)
    <3>1. /\ pc[c] = "write" /\ pc'[c] \in {"reply", "dead"} /\ Unanswered(c)
          /\ log' = Append(IF Len(log) < Capacity THEN log ELSE Tail(log), c)
      BY <2>12, <2>1, <2>2 DEF Write, Device!Add, Device!Recent
    <3>2. (IF Len(log) < Capacity THEN log ELSE Tail(log)) \in Seq(Conn)
      <4>1. log # << >> => Tail(log) \in Seq(Conn)
        BY <2>4, HeadTailProperties
      <4> QED
        BY <2>4, <4>1, EmptySeq DEF ServerAssumption
    <3>3. /\ Len(log') \in Nat /\ Len(log') > 0 /\ log'[Len(log')] = c /\ log' # << >>
      <4> DEFINE l == IF Len(log) < Capacity THEN log ELSE Tail(log)
      <4>1. Len(l) \in Nat /\ Len(log') = Len(l) + 1 /\ log'[Len(l) + 1] = c /\ log' \in Seq(Conn)
        BY <3>1, <3>2, AppendProperties, LenProperties
      <4> QED
        BY <4>1, EmptySeq
    <3>4. /\ local'[c].pos = 0 /\ local'[c].sent = << >> /\ Len(local'[c].sent) = 0
          /\ \A d \in Conn : d # c => local'[d] = local[d]
      BY <2>12, <3>1, WriteLocal, EmptySeq DEF Unanswered
    <3>5. Answering(c)'
      BY <3>3, <3>4 DEF Answering
    <3> QED
      BY <3>1, <3>4, <3>5
  <2>13. CASE WriteFails(c)
    <3>1. pc'[c] \in {"reply", "dead"} /\ local' = local /\ log' = log /\ Unanswered(c)
      BY <2>13, <2>1, <2>2 DEF WriteFails
    <3>2. Answering(c)
      BY <2>4, <2>5, <3>1 DEF Answering, Unanswered
    <3> QED
      BY <2>3, <3>1, <3>2
  <2>14. CASE Seek(c)
    <3>1. /\ pc[c] = "seek" /\ pc'[c] \in {"reply", "dead"} /\ Unanswered(c) /\ log' = log
      BY <2>14, <2>1, <2>2 DEF Seek
    <3>2. /\ local'[c].sent = << >> /\ Len(local'[c].sent) = 0 /\ local'[c].wrote = FALSE
          /\ local'[c].pos \in 0 .. Len(log)
          /\ local'[c].request # "command"
          /\ \A d \in Conn : d # c => local'[d] = local[d]
      BY <2>14, <2>2, <2>4, <3>1, SeekLocal, EmptySeq DEF Unanswered
    <3>3. Answering(c)'
      BY <2>4, <3>1, <3>2 DEF Answering
    <3> QED
      BY <3>1, <3>2, <3>3
  <2>15. CASE SeekFails(c)
    <3>1. pc'[c] \in {"dead", "ended"} /\ log' = log
      BY <2>15, <2>1 DEF SeekFails
    <3> QED
      BY <2>15, <3>1, ResetLocal DEF SeekFails
  <2>16. CASE Reply(c)
    <3>1. /\ pc[c] = "reply" /\ pc'[c] \in {"reply", "dead"} /\ Answering(c) /\ log' = log
          /\ local[c].pos < Len(log)
      BY <2>16, <2>1, <2>2 DEF Reply
    <3> DEFINE n == Len(local[c].sent)
               p == local[c].pos
    <3>2. /\ Len(local'[c].sent) = n + 1 /\ local'[c].sent[n + 1] = log[p + 1]
          /\ \A i \in 1 .. n : local'[c].sent[i] = local[c].sent[i]
          /\ local'[c].pos = p + 1
          /\ local'[c].request = local[c].request /\ local'[c].wrote = local[c].wrote
          /\ \A d \in Conn : d # c => local'[d] = local[d]
      <4>1. log[p + 1] \in Conn
        BY <2>4, <3>1, ElementOfSeq
      <4>2. /\ local'[c].sent = Append(local[c].sent, log[p + 1]) /\ local'[c].pos = p + 1
            /\ local'[c].request = local[c].request /\ local'[c].wrote = local[c].wrote
            /\ \A d \in Conn : d # c => local'[d] = local[d]
        BY <2>16, ReplyLocal
      <4>3. /\ Len(Append(local[c].sent, log[p + 1])) = n + 1
            /\ Append(local[c].sent, log[p + 1])[n + 1] = log[p + 1]
            /\ \A i \in 1 .. n : Append(local[c].sent, log[p + 1])[i] = local[c].sent[i]
        BY <2>4, <4>1, AppendProperties
      <4> QED
        BY <4>2, <4>3
    <3>3. /\ n <= p /\ p <= Len(log) /\ \A i \in 1 .. n : local[c].sent[i] = log[p - n + i]
          /\ local[c].request = "command" => n = p
          /\ local[c].wrote => n = p /\ log # << >> /\ log[Len(log)] = c
      BY <3>1 DEF Answering
    <3>4. ASSUME NEW i \in 1 .. n + 1
          PROVE  local'[c].sent[i] = log[(p + 1) - (n + 1) + i]
      <4>1. (p + 1) - (n + 1) + i = p - n + i
            /\ (i = n + 1 \/ i \in 1 .. n) /\ p - n + (n + 1) = p + 1
        <5>1. n \in Nat /\ p \in Nat
          BY <2>4
        <5> HIDE DEF n, p
        <5>2. QED  BY <5>1
      <4> QED
        BY <3>2, <3>3, <4>1
    <3>5. Answering(c)'
      BY <2>4, <3>1, <3>2, <3>3, <3>4 DEF Answering
    <3> QED
      BY <3>1, <3>2, <3>5
  <2>17. CASE ReplyDone(c)
    <3>1. /\ pc[c] = "reply" /\ pc'[c] \in {"close", "dead"} /\ Answering(c)
          /\ local' = local /\ log' = log /\ local[c].pos >= Len(log)
      BY <2>17, <2>1, <2>2 DEF ReplyDone
    <3>2. local[c].pos = Len(log)
      BY <2>4, <3>1 DEF Answering
    <3> QED
      BY <2>3, <3>1, <3>2
  <2>18. CASE ReplyFails(c)
    <3>1. pc'[c] \in {"dead", "ended"} /\ log' = log
      BY <2>18, <2>1 DEF ReplyFails
    <3> QED
      BY <2>18, <3>1, ResetLocal DEF ReplyFails
  <2>19. CASE ReplyKills(c)
    BY <2>19, <2>1, <2>2, <2>3 DEF ReplyKills
  <2>20. CASE Close(c)
    <3>1. pc'[c] \in {"recv", "dead"} /\ log' = log
      BY <2>20, <2>1 DEF Close
    <3> QED
      BY <2>20, <3>1, ResetLocal DEF Close
  <2>21. CASE CloseFails(c)
    <3>1. pc'[c] \in {"dead", "ended"} /\ log' = log
      BY <2>21, <2>1 DEF CloseFails
    <3> QED
      BY <2>21, <3>1, ResetLocal DEF CloseFails
  <2>22. CASE UseAfterFree(c)
    BY <2>22, <2>1, <2>2, <2>3 DEF UseAfterFree
  <2>23. QED
    BY <1>1, <2>7, <2>8, <2>9, <2>10, <2>11, <2>12, <2>13, <2>14, <2>15, <2>16,
       <2>17, <2>18, <2>19, <2>20, <2>21, <2>22 DEF Serves
<1>2. ASSUME NEW c \in Conn, local' = [local EXCEPT ![c] = NoRequest], log' = log,
             pc'[c] \in {"dead", "t_next"}, \A d \in Conn : d # c => pc'[d] = pc[d]
      PROVE  Answers'
  <2>1. \A d \in Conn : d # c => local'[d] = local[d]
    BY <1>2, ResetLocal
  <2>2. QED
    BY <1>2, <2>1, AnswerFrame DEF Answers
<1>3. ASSUME NEW c \in Conn, Cancelled(c) \/ SignalBeside(c)
      PROVE  Answers'
  <2>1. CASE Cancelled(c)
    BY <1>0, <1>2, <2>1, CancelMoves
  <2>2. CASE SignalBeside(c)
    BY <1>0, <1>2, <2>2, BesideMoves
  <2>3. QED
    BY <1>3, <2>1, <2>2
<1>4. ASSUME NEW t \in Thread, Terminate(t)
      PROVE  Answers'
  <2>1. /\ UNCHANGED <<local, log>>
        /\ \A c \in Conn : pc'[c] = pc[c] \/ pc'[c] \in Walking \cup {"dead"}
    BY <1>0, <1>4, TerminateMoves
  <2>2. QED
    BY <2>1 DEF Answers, Unanswered, Answering, Walking
<1>5. CASE SetsUp
  <2>1. /\ UNCHANGED <<local, log>>
        /\ \A c \in Conn : pc'[c] = pc[c] \/ pc'[c] \in {"accepted", "recv"}
    BY <1>5, SetUpMoves
  <2>2. QED
    BY <2>1 DEF Answers, Unanswered, Answering
<1>6. CASE UNCHANGED vars
  BY <1>6 DEF Answers, Unanswered, Answering, vars, wvars
<1>7. QED
  BY <1>1, <1>3, <1>4, <1>5, <1>6, KindsOfSteps

-----------------------------------------------------------------------------
(***************************************************************************)
(* The invariant and what follows from it.                                 *)
(***************************************************************************)
LEMMA InitInv == ASSUME ServerAssumption, Init PROVE IInv
<1>1. << >> \in Seq(Conn) /\ NoRequest \in Locals /\ Main \in Thread /\ Conn \subseteq Thread
      /\ DOMAIN << >> = {}
  BY EmptySeq DEF NoRequest, Locals, Thread
<1>2. pc[Main] = "start" /\ \A c \in Conn : pc[c] = "new"
  BY <1>1 DEF Init, ServerAssumption
<1>3. TypeOK
  BY <1>1, <1>2 DEF Init, TypeOK, ServerAssumption, MainLabel, Label
<1>4. Listed = {}
  BY <1>1 DEF Init, Listed
<1>5. MutexDiscipline /\ SetUp /\ Handling /\ BesideOnly
  <2>1. \A t \in Thread : pc[t] \in {"start", "new"}
    BY DEF Init, Thread
  <2>2. QED
    BY <1>2, <1>4, <2>1 DEF Init, MutexDiscipline, SetUp, Handling, Handled, BesideOnly, Inside,
                            Walking, ServerAssumption
<1>6. WorkerKeepsItsMemory /\ ListKnows /\ Answers
  BY <1>2, <1>4 DEF Init, WorkerKeepsItsMemory, ListKnows, Answers, Alive, Inside
<1>7. QED
  BY <1>3, <1>5, <1>6 DEF IInv

LEMMA StepInv == ASSUME ServerAssumption, IInv, [Next]_vars PROVE IInv'
<1>1. TypeOK' /\ MutexDiscipline' /\ SetUp'
  BY TypeStep, MutexStep, SetUpStep DEF IInv
<1>2. Handling' /\ BesideOnly'
  BY HandlingStep, BesideStep DEF IInv
<1>3. WorkerKeepsItsMemory' /\ ListKnows'
  BY MemoryStep, ListStep DEF IInv
<1>4. Answers'
  BY <1>1, AnswersStep DEF IInv
<1>5. QED
  BY <1>1, <1>2, <1>3, <1>4 DEF IInv

LEMMA Invariance == Spec => []IInv
<1>1. Init => IInv
  BY ServerAssumption, InitInv
<1>2. IInv /\ [Next]_vars => IInv'
  BY ServerAssumption, StepInv
<1>3. QED
  BY <1>1, <1>2, PTL DEF Spec

\* The types of the server's state.
THEOREM ServerTypeCorrect == Spec => []TypeOK
<1>1. IInv => TypeOK
  BY DEF IInv
<1>2. QED
  BY <1>1, Invariance, PTL

\* Only the owner of the mutex is between open and close, and only a worker
\* that was cancelled in between, or caught a signal there, keeps the mutex
\* (utility_funcs.c:45-147).
THEOREM EveryPathUnlocks == Spec => []MutexDiscipline
<1>1. IInv => MutexDiscipline
  BY DEF IInv
<1>2. QED
  BY <1>1, Invariance, PTL

\* Whatever terminates run, in the main thread or beside it, they free what a
\* worker still uses only where a second pthread_join of it has failed, and then
\* it has been cancelled (aesdsocket.c:75-97, :118-141).
THEOREM FreedAfterJoin == Spec => []WorkerKeepsItsMemory
<1>1. IInv => WorkerKeepsItsMemory
  BY DEF IInv
<1>2. QED
  BY <1>1, Invariance, PTL

\* When the main thread alone ran terminate, once or twice, no thread and no
\* descriptor but those of an interrupted set-up, or of a join that was
\* interrupted, are left when the process exits (aesdsocket.c:72-99, :391-436).
THEOREM NothingLeftAtExit == Spec => []ExitLeavesNothing
<1>1. IInv => ExitLeavesNothing
  <2> SUFFICES ASSUME IInv, status = "exited", beside = {}
               PROVE  /\ sockets \cup info \subseteq {current}
                      /\ \A c \in Conn : pc[c] \in Alive => c = current \/ c \in again
    BY DEF ExitLeavesNothing
  <2>1. list = << >>
    BY DEF IInv, ListKnows
  <2>2. Listed = {}
    BY <2>1 DEF Listed
  <2>3. QED
    BY <2>2 DEF IInv, ListKnows
<1>2. QED
  BY <1>1, Invariance, PTL

\* A sequence that agrees with the end of another is its last part.
LEMMA SuffixIsSubSeq ==
  ASSUME NEW S, NEW s \in Seq(S), NEW q \in Seq(S), Len(s) <= Len(q),
         \A i \in 1 .. Len(s) : s[i] = q[Len(q) - Len(s) + i]
  PROVE  s = SubSeq(q, Len(q) - Len(s) + 1, Len(q))
<1> DEFINE n == Len(s)
           m == Len(q)
           k == m - n + 1
<1>1. n \in Nat /\ m \in Nat
  BY LenProperties
<1> SUFFICES s = SubSeq(q, k, m)
  OBVIOUS
<1>2. k \in Int /\ m \in Int /\ k >= 1 /\ m - k + 1 = n /\ (k <= m <=> n # 0)
  BY <1>1
<1>3. \A i \in k .. m : q[i] \in S
  BY <1>1, <1>2, ElementOfSeq
<1>4. /\ SubSeq(q, k, m) \in Seq(S)
      /\ Len(SubSeq(q, k, m)) = IF k <= m THEN m - k + 1 ELSE 0
      /\ \A i \in 1 .. m - k + 1 : SubSeq(q, k, m)[i] = q[k + i - 1]
  <2> HIDE DEF k, m
  <2> QED
    BY <1>2, <1>3, SubSeqProperties
<1>5. Len(SubSeq(q, k, m)) = n
  BY <1>1, <1>2, <1>4
<1>6. \A i \in 1 .. n : SubSeq(q, k, m)[i] = s[i]
  <2>1. \A i \in 1 .. n : k + i - 1 = m - n + i
    BY <1>1
  <2> QED
    BY <1>2, <1>4, <2>1
<1>7. QED
  BY <1>4, <1>5, <1>6, SeqEqual

\* The answer of a worker that is about to close the device.
LEMMA SnapshotOfAnswer ==
  ASSUME IInv, NEW c \in Conn, pc[c] = "close"
  PROVE  LET sent == local[c].sent IN
         /\ sent = SubSeq(log, Len(log) - Len(sent) + 1, Len(log))
         /\ local[c].request = "command" => Len(sent) = Len(log)
         /\ local[c].wrote => sent # << >> /\ sent[Len(sent)] = c
<1> DEFINE s == local[c].sent
           n == Len(s)
           m == Len(log)
<1>1. /\ s \in Seq(Conn) /\ log \in Seq(Conn) /\ n \in Nat /\ m \in Nat
      /\ DOMAIN s = 1 .. n
  BY LenProperties DEF IInv, TypeOK, Locals
<1>2. /\ n <= m /\ \A i \in 1 .. n : s[i] = log[m - n + i]
      /\ local[c].request = "command" => n = m
      /\ local[c].wrote => n = m /\ log # << >> /\ log[m] = c
  <2>1. Answering(c) /\ local[c].pos = m
    BY DEF IInv, Answers
  <2>2. QED
    BY <1>1, <2>1 DEF Answering
<1>3. s = SubSeq(log, m - n + 1, m)
  BY <1>1, <1>2, SuffixIsSubSeq
<1>4. ASSUME local[c].wrote
      PROVE  s # << >> /\ s[n] = c
  <2>1. n = m /\ m # 0
    BY <1>1, <1>2, <1>4, EmptySeq
  <2>2. n \in 1 .. n /\ m - n + n = m
    BY <1>1, <2>1
  <2>3. QED
    BY <1>1, <1>2, <1>4, <2>1, <2>2, EmptySeq
<1>5. QED
  BY <1>2, <1>3, <1>4

\* What a client is sent is the device at one moment, with its own command at
\* the end (utility_funcs.c:94-119, :237-284).
THEOREM AnswersAreSnapshots == Spec => []ReplyIsSnapshot
<1>1. IInv => ReplyIsSnapshot
  BY SnapshotOfAnswer DEF ReplyIsSnapshot
<1>2. QED
  BY <1>1, Invariance, PTL
=============================================================================
