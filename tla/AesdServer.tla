----------------------------- MODULE AesdServer -----------------------------
(***************************************************************************)
(* The socket server: the main thread of aesdsocket.c, which accepts       *)
(* connections and spawns a worker for each, and the workers               *)
(* (utility_funcs.c), which write what they receive to the device and send *)
(* the device's contents back under one mutex.  SIGINT and SIGTERM run     *)
(* terminate in the thread that catches them, whatever it is doing: the    *)
(* main thread, in a terminate too, or a worker beside it.                 *)
(*                                                                         *)
(* The device is the log of commands that the driver implements (module    *)
(* CommandLog); a request is one command, known by the connection it comes *)
(* from, or a seek.                                                        *)
(***************************************************************************)
EXTENDS Naturals, Sequences, FiniteSets

CONSTANTS
  Conn,         \* the connections that may arrive; each names its worker's thread
  Main,         \* the main thread
  NoConn,
  Capacity,     \* the number of commands the device keeps
  MaxRequests,  \* bound: the requests that clients send in all
  MaxBeside,    \* bound: the signals that workers catch in all
  Faults        \* the calls that may fail: a subset of FaultNames

FaultNames == {"start", "accept", "thread", "node", "open", "write", "reply",
               "pipe", "close", "signal"}

ASSUME ServerAssumption ==
  /\ NoConn \notin Conn /\ Main \notin Conn
  /\ Capacity \in Nat \ {0} /\ MaxRequests \in Nat /\ MaxBeside \in Nat
  /\ Faults \subseteq FaultNames

Thread == Conn \cup {Main}

VARIABLES
  pc,           \* where each thread is
  cancelled,    \* the workers with a cancellation request
  current,      \* the connection the main thread is setting up
  list,         \* the connections in head_node, first one first
  info,         \* those whose thread_information is whole
  sockets,      \* those whose socket is open
  node,         \* current_node of the terminate that each thread runs
  begun,        \* the workers that a thread has called pthread_join for
  again,        \* those for which a second call has failed
  signals,      \* the number of signals the main thread has caught
  beside,       \* the workers that have caught one
  mutex,        \* the worker that owns the mutex
  local,        \* the worker's request, its place in the device, what it has sent
  requests,     \* the number of requests sent
  log,          \* the contents of the device
  status        \* of the process: running, exited, killed, hung

lvars == <<current, list, info, sockets>>
tvars == <<node, begun, again>>
svars == <<signals, beside>>
wvars == <<mutex, local, requests, log>>
vars  == <<pc, cancelled, lvars, tvars, svars, wvars, status>>

Walking   == {"t_next", "t_join", "t_wait", "t_free"}
MainLabel == {"start", "accept", "create", "insert"} \cup Walking
Inside    == {"open", "write", "seek", "reply", "close"}
Alive     == {"recv", "lock"} \cup Inside
Label     == {"new", "accepted", "ended", "dead"} \cup Alive \cup Walking

NoRequest == [request |-> "none", pos |-> 0, wrote |-> FALSE, sent |-> << >>]

Init ==
  /\ pc = [t \in Thread |-> IF t = Main THEN "start" ELSE "new"]
  /\ cancelled = {}
  /\ current = NoConn /\ list = << >> /\ info = {} /\ sockets = {}
  /\ node = [t \in Thread |-> NoConn] /\ begun = {} /\ again = {}
  /\ signals = 0 /\ beside = {}
  /\ mutex = NoConn
  /\ local = [c \in Conn |-> NoRequest]
  /\ requests = 0
  /\ log = << >>
  /\ status = "running"

Device == INSTANCE CommandLog WITH Command <- Conn

(***************************************************************************)
(* Cancellation is deferred: a request takes effect in a call that is a    *)
(* cancellation point (read, write, open, close, and syslog for the seek), *)
(* be it that the worker sits in the call or that it comes to it later.    *)
(* So it does in pthread_join as long as that waits.  pthread_mutex_lock   *)
(* is none.  Nobody cancels the main thread.                               *)
(***************************************************************************)
CancellationPoints == {"recv", "open", "write", "seek", "reply", "close", "t_free"}

Goto(t, label) ==
  pc' = [pc EXCEPT ![t] = IF t \in cancelled /\ label \in CancellationPoints THEN "dead"
                          ELSE label]

At(t, label) == status = "running" /\ pc[t] = label

-----------------------------------------------------------------------------
(***************************************************************************)
(* The main thread.  Every error of it leads to terminate, and terminate   *)
(* never comes back.                                                       *)
(***************************************************************************)
\* Socket, options, address, daemon, listen, mutex.
StartUp ==
  /\ At(Main, "start")
  /\ \/ Goto(Main, "accept")
     \/ "start" \in Faults /\ Goto(Main, "t_next")
  /\ UNCHANGED <<cancelled, lvars, tvars, svars, wvars, status>>

\* A connection is accepted, or accept fails, for want of a descriptor say:
\* then the loop ends and the server terminates.
Accept ==
  /\ At(Main, "accept")
  /\ \E c \in Conn :
       /\ pc[c] = "new"
       /\ pc' = [pc EXCEPT ![c] = "accepted", ![Main] = "create"]
       /\ sockets' = sockets \cup {c}
       /\ current' = c
  /\ UNCHANGED <<cancelled, list, info, tvars, svars, wvars, status>>

AcceptFails_Unseen ==
  /\ At(Main, "accept") /\ "accept" \in Faults
  /\ sockets' = sockets \cup {NoConn}
  /\ current' = NoConn
  /\ Goto(Main, "create")
  /\ UNCHANGED <<cancelled, list, info, tvars, svars, wvars, status>>
AcceptFails ==
  /\ At(Main, "accept") /\ "accept" \in Faults
  /\ Goto(Main, "t_next")
  /\ UNCHANGED <<cancelled, lvars, tvars, svars, wvars, status>>

\* The thread runs from here on, but it is not in the list yet.
CreateThread ==
  /\ At(Main, "create")
  /\ info' = info \cup {current}
  /\ pc' = [pc EXCEPT ![current] = "recv", ![Main] = "insert"]
  /\ UNCHANGED <<cancelled, current, list, sockets, tvars, svars, wvars, status>>

\* An allocation or pthread_create fails: what was allocated is freed.
CreateFails ==
  /\ At(Main, "create") /\ "thread" \in Faults
  /\ Goto(Main, "t_next")
  /\ UNCHANGED <<cancelled, lvars, tvars, svars, wvars, status>>

InsertHead_Only(c) == <<c>>
InsertHead(c) == <<c>> \o list

Insert ==
  /\ At(Main, "insert")
  /\ list' = InsertHead(current)
  /\ current' = NoConn
  /\ Goto(Main, "accept")
  /\ UNCHANGED <<cancelled, info, sockets, tvars, svars, wvars, status>>

\* The list node cannot be allocated: the thread_information is freed, and
\* the thread that uses it runs on.
InsertFails ==
  /\ At(Main, "insert") /\ "node" \in Faults
  /\ info' = info \ {current}
  /\ Goto(Main, "t_next")
  /\ UNCHANGED <<cancelled, current, list, sockets, tvars, svars, wvars, status>>

-----------------------------------------------------------------------------
(***************************************************************************)
(* terminate, in the thread t: cancel, join and release the workers of the *)
(* list one after the other, then exit.                                    *)
(***************************************************************************)
Terminating == pc[Main] \in Walking

CancelFirst_Not(t) ==
  /\ At(t, "t_next") /\ list # << >>
  /\ node' = [node EXCEPT ![t] = Head(list)]
  /\ Goto(t, "t_join")
  /\ UNCHANGED <<cancelled, lvars, begun, again, svars, wvars, status>>
CancelFirst(t) ==
  /\ At(t, "t_next") /\ list # << >>
  /\ node' = [node EXCEPT ![t] = Head(list)]
  /\ cancelled' = cancelled \cup {Head(list)}
  /\ Goto(t, "t_join")
  /\ UNCHANGED <<lvars, begun, again, svars, wvars, status>>

Join(t) ==
  /\ At(t, "t_join") /\ node[t] \notin begun \cup {t}
  /\ begun' = begun \cup {node[t]}
  /\ Goto(t, "t_wait")
  /\ UNCHANGED <<cancelled, lvars, node, again, svars, wvars, status>>

\* A thread can be joined once, and not by itself: the call returns at once, and
\* terminate goes on as if the thread had ended.
JoinFails(t) ==
  /\ At(t, "t_join") /\ node[t] \in begun \cup {t}
  /\ again' = again \cup {node[t]}
  /\ Goto(t, "t_free")
  /\ UNCHANGED <<cancelled, lvars, node, begun, svars, wvars, status>>

JoinReturns_NotWaiting(t) ==
  /\ At(t, "t_wait")
  /\ Goto(t, "t_free")
  /\ UNCHANGED <<cancelled, lvars, tvars, svars, wvars, status>>
JoinReturns(t) ==
  /\ At(t, "t_wait") /\ pc[node[t]] \in {"ended", "dead"}
  /\ Goto(t, "t_free")
  /\ UNCHANGED <<cancelled, lvars, tvars, svars, wvars, status>>

\* SLIST_REMOVE_HEAD takes what is the first node by then.  When another
\* terminate has taken t's node, that is the next one, which nobody has joined;
\* when the two removals come at the same time they take one node.
RemoveHead(t) ==
  \/ list # << >> /\ list' = Tail(list)
  \/ ~(list # << >> /\ Head(list) = node[t]) /\ UNCHANGED list

FreeFirst(t) ==
  /\ At(t, "t_free")
  /\ sockets' = sockets \ {node[t]}
  /\ info' = info \ {node[t]}
  /\ RemoveHead(t)
  /\ node' = [node EXCEPT ![t] = NoConn]
  /\ Goto(t, "t_next")
  /\ UNCHANGED <<cancelled, current, begun, again, svars, wvars, status>>

\* What another terminate has freed is used and freed a second time, which the
\* allocator may notice; and an empty list has no node to remove.
FreeKills(t) ==
  /\ At(t, "t_free")
  /\ node[t] \notin info \/ list = << >>
  /\ status' = "killed"
  /\ UNCHANGED <<pc, cancelled, lvars, tvars, svars, wvars>>

\* The close of the server's socket is a cancellation point.
Exit(t) ==
  /\ At(t, "t_next") /\ list = << >> /\ t \notin cancelled
  /\ status' = "exited"
  /\ UNCHANGED <<pc, cancelled, lvars, tvars, svars, wvars>>

Terminate(t) == \/ CancelFirst(t) \/ Join(t) \/ JoinFails(t) \/ JoinReturns(t)
                \/ FreeFirst(t) \/ FreeKills(t) \/ Exit(t)

-----------------------------------------------------------------------------
(***************************************************************************)
(* SIGINT or SIGTERM.  The kernel gives a signal to the main thread if it  *)
(* can.  The handler never returns and masks its own signal in its thread  *)
(* alone.  So the main thread catches each of the two once, the second in  *)
(* the terminate of the first, or of an error; and one that it has caught  *)
(* already goes to a worker when it comes again, which then runs terminate *)
(* beside the main thread.  A terminate begins with the list as it finds   *)
(* it; what its thread was doing never goes on.                            *)
(***************************************************************************)
Signal ==
  /\ status = "running" /\ "signal" \in Faults
  /\ signals < 2 /\ signals' = signals + 1
  /\ node' = [node EXCEPT ![Main] = NoConn]
  /\ Goto(Main, "t_next")
  /\ UNCHANGED <<cancelled, lvars, begun, again, beside, wvars, status>>

\* Part of the node in hand has been freed, and it is still in the list.
SignalInFree ==
  /\ At(Main, "t_free") /\ "signal" \in Faults
  /\ signals < 2 /\ signals' = signals + 1
  /\ sockets' = sockets \ {node[Main]}
  /\ info' = info \ {node[Main]}
  /\ node' = [node EXCEPT ![Main] = NoConn]
  /\ Goto(Main, "t_next")
  /\ UNCHANGED <<cancelled, current, list, begun, again, beside, wvars, status>>

\* The signal is one that the main thread has masked, and c has not.
ToWorker(c) ==
  /\ status = "running" /\ "signal" \in Faults
  /\ signals > 0 /\ Cardinality(beside) < MaxBeside
  /\ pc[c] \in Alive

\* Bound: a worker catches one.  It keeps the mutex if it has it.  The handler
\* begins with syslog, which is a cancellation point.
SignalBeside(c) ==
  /\ ToWorker(c)
  /\ beside' = beside \cup {c}
  /\ pc' = [pc EXCEPT ![c] = IF c \in cancelled THEN "dead" ELSE "t_next"]
  /\ local' = [local EXCEPT ![c] = NoRequest]
  /\ UNCHANGED <<cancelled, lvars, tvars, signals, mutex, requests, log, status>>

\* The handler calls syslog and free, and waits for ever for the lock of one of
\* them when it has interrupted its thread inside.  What the other threads do
\* from then on is not followed.
SignalHangs ==
  /\ \/ /\ status = "running" /\ "signal" \in Faults /\ signals < 2
        /\ pc[Main] \notin {"accept", "t_wait"}
     \/ \E c \in Conn : ToWorker(c) /\ pc[c] # "lock"
  /\ status' = "hung"
  /\ UNCHANGED <<pc, cancelled, lvars, tvars, svars, wvars>>

MainThread == \/ StartUp \/ Accept \/ AcceptFails \/ CreateThread \/ CreateFails
              \/ Insert \/ InsertFails \/ Signal \/ SignalInFree \/ SignalHangs
              \/ Terminate(Main)

-----------------------------------------------------------------------------
(***************************************************************************)
(* A worker.  One that is cancelled does not release the mutex, nor what   *)
(* it has open; one that waits in a join gives the join up, and one that   *)
(* frees may have closed the socket.                                       *)
(***************************************************************************)
Cancelled(c) ==
  /\ status = "running" /\ c \in cancelled
  /\ pc[c] \in CancellationPoints \cup {"t_next", "t_wait"}
  /\ pc' = [pc EXCEPT ![c] = "dead"]
  /\ local' = [local EXCEPT ![c] = NoRequest]
  /\ begun' = IF pc[c] = "t_wait" THEN begun \ {node[c]} ELSE begun
  /\ node' = [node EXCEPT ![c] = NoConn]
  /\ \/ UNCHANGED sockets
     \/ pc[c] = "t_free" /\ sockets' = sockets \ {node[c]}
  /\ UNCHANGED <<cancelled, current, list, info, again, svars, mutex, requests, log, status>>

\* read_str_from_socket returns a request: a command that ends with its only
\* '\n', or a seek.
Receive(c) ==
  /\ At(c, "recv") /\ requests < MaxRequests
  /\ \E r \in {"command", "seek"} :
       local' = [local EXCEPT ![c] = [NoRequest EXCEPT !.request = r]]
  /\ requests' = requests + 1
  /\ Goto(c, "lock")
  /\ UNCHANGED <<cancelled, lvars, tvars, svars, mutex, log, status>>

\* The client has closed the connection, or reading failed; the thread ends.
ReceiveFails(c) ==
  /\ At(c, "recv")
  /\ Goto(c, "ended")
  /\ UNCHANGED <<cancelled, lvars, tvars, svars, mutex, local, requests, log, status>>

Lock(c) ==
  /\ At(c, "lock") /\ mutex = NoConn
  /\ mutex' = c
  /\ Goto(c, "open")
  /\ UNCHANGED <<cancelled, lvars, tvars, svars, local, requests, log, status>>

\* The worker gives up: it unlocks and its thread ends, its locals with it.
GiveUp(c) == /\ mutex' = NoConn
             /\ local' = [local EXCEPT ![c] = NoRequest]
             /\ Goto(c, "ended")

Open(c) ==
  /\ At(c, "open")
  /\ Goto(c, IF local[c].request = "command" THEN "write" ELSE "seek")
  /\ UNCHANGED <<cancelled, lvars, tvars, svars, mutex, local, requests, log, status>>

OpenFails_KeepsMutex(c) ==
  /\ At(c, "open") /\ "open" \in Faults
  /\ Goto(c, "ended")
  /\ UNCHANGED <<cancelled, lvars, tvars, svars, mutex, local, requests, log, status>>
OpenFails(c) ==
  /\ At(c, "open") /\ "open" \in Faults
  /\ GiveUp(c)
  /\ UNCHANGED <<cancelled, lvars, tvars, svars, requests, log, status>>

Write_Unlocks(c) ==
  /\ At(c, "write")
  /\ Device!Add(c)
  /\ local' = [local EXCEPT ![c].wrote = TRUE]
  /\ mutex' = NoConn
  /\ Goto(c, "reply")
  /\ UNCHANGED <<cancelled, lvars, tvars, svars, requests, status>>
Write(c) ==
  /\ At(c, "write")
  /\ Device!Add(c)
  /\ local' = [local EXCEPT ![c].wrote = TRUE]
  /\ Goto(c, "reply")
  /\ UNCHANGED <<cancelled, lvars, tvars, svars, mutex, requests, status>>

\* write returns -1, which is no small number once it is a size_t: the
\* worker goes on as if the command had been written.
WriteFails(c) ==
  /\ At(c, "write") /\ "write" \in Faults
  /\ Goto(c, "reply")
  /\ UNCHANGED <<cancelled, lvars, tvars, svars, mutex, local, requests, log, status>>

\* The ioctl puts the file anywhere in the contents; without two numbers it is
\* not called and the contents are sent from the start.
Seek(c) ==
  /\ At(c, "seek")
  /\ \E pos \in 0 .. Len(log) : local' = [local EXCEPT ![c].pos = pos]
  /\ Goto(c, "reply")
  /\ UNCHANGED <<cancelled, lvars, tvars, svars, mutex, requests, log, status>>

\* The numbers are the client's and may name no command, or no place in it.
\* The device stays open.
SeekFails(c) ==
  /\ At(c, "seek")
  /\ GiveUp(c)
  /\ UNCHANGED <<cancelled, lvars, tvars, svars, requests, log, status>>

\* dump_file_to_socket: read a piece of the device, write it to the socket.
Reply(c) ==
  /\ At(c, "reply") /\ local[c].pos < Len(log)
  /\ local' = [local EXCEPT ![c].pos = @ + 1, ![c].sent = Append(@, log[local[c].pos + 1])]
  /\ Goto(c, "reply")
  /\ UNCHANGED <<cancelled, lvars, tvars, svars, mutex, requests, log, status>>

ReplyDone(c) ==
  /\ At(c, "reply") /\ local[c].pos >= Len(log)
  /\ Goto(c, "close")
  /\ UNCHANGED <<cancelled, lvars, tvars, svars, mutex, local, requests, log, status>>

\* The read or the write of it fails; the device stays open.
ReplyFails(c) ==
  /\ At(c, "reply") /\ "reply" \in Faults
  /\ GiveUp(c)
  /\ UNCHANGED <<cancelled, lvars, tvars, svars, requests, log, status>>

\* The client has gone: write raises SIGPIPE, which nobody handles.
ReplyKills(c) ==
  /\ At(c, "reply") /\ local[c].pos < Len(log) /\ "pipe" \in Faults
  /\ status' = "killed"
  /\ UNCHANGED <<pc, cancelled, lvars, tvars, svars, wvars>>

\* close, and unlock, after which the worker waits for the next request.
Close(c) ==
  /\ At(c, "close")
  /\ mutex' = NoConn
  /\ local' = [local EXCEPT ![c] = NoRequest]
  /\ Goto(c, "recv")
  /\ UNCHANGED <<cancelled, lvars, tvars, svars, requests, log, status>>

\* A close that fails has released the descriptor all the same.
CloseFails(c) ==
  /\ At(c, "close") /\ "close" \in Faults
  /\ GiveUp(c)
  /\ UNCHANGED <<cancelled, lvars, tvars, svars, requests, log, status>>

\* A worker whose thread_information was freed under it reads the old
\* contents, as long as they are there, or is stopped by what it finds.
UseAfterFree(c) ==
  /\ status = "running" /\ pc[c] \in Alive /\ c \notin info
  /\ status' = "killed"
  /\ UNCHANGED <<pc, cancelled, lvars, tvars, svars, wvars>>

\* What a client does, and what the worker does on its own.
Client(c) == Receive(c) \/ ReceiveFails(c)
Worker(c) == \/ Cancelled(c) \/ Lock(c) \/ Open(c) \/ OpenFails(c) \/ Write(c) \/ WriteFails(c)
             \/ Seek(c) \/ SeekFails(c) \/ Reply(c) \/ ReplyDone(c) \/ ReplyFails(c)
             \/ ReplyKills(c) \/ Close(c) \/ CloseFails(c) \/ UseAfterFree(c)
             \/ Terminate(c)

Next == MainThread \/ \E c \in Conn : Client(c) \/ Worker(c) \/ SignalBeside(c)
Spec == Init /\ [][Next]_vars

(***************************************************************************)
(* Threads that can run do run; clients read what they are sent.  Nobody   *)
(* has to connect, to send a request or to send a signal.  The mutex needs *)
(* no strong fairness: clients send finitely many requests.                *)
(***************************************************************************)
Fairness == WF_vars(Terminate(Main)) /\ \A c \in Conn : WF_vars(Worker(c))
FairSpec == Spec /\ Fairness

-----------------------------------------------------------------------------
Locals == [request : {"none", "command", "seek"}, pos : Nat,
           wrote : BOOLEAN, sent : Seq(Conn)]

TypeOK ==
  /\ pc \in [Thread -> Label \cup MainLabel]
  /\ pc[Main] \in MainLabel /\ \A c \in Conn : pc[c] \in Label
  /\ cancelled \subseteq Conn
  /\ current \in Conn \cup {NoConn} /\ list \in Seq(Conn)
  /\ info \subseteq Conn /\ sockets \subseteq Conn
  /\ node \in [Thread -> Conn \cup {NoConn}]
  /\ begun \subseteq Conn /\ again \subseteq Conn
  /\ signals \in 0 .. 2 /\ beside \subseteq Conn
  /\ mutex \in Conn \cup {NoConn}
  /\ local \in [Conn -> Locals]
  /\ requests \in 0 .. MaxRequests
  /\ log \in Seq(Conn)
  /\ status \in {"running", "exited", "killed", "hung"}

\* The device is used by the owner of the mutex alone, and every way out of the
\* critical section unlocks (utility_funcs.c:45-147): a thread that owns the
\* mutex and is not inside was cancelled there, or went into the handler of a
\* signal there.
MutexDiscipline ==
  \A c \in Conn : /\ pc[c] \in Inside => mutex = c
                  /\ mutex = c => \/ pc[c] \in Inside \cup {"dead"}
                                  \/ c \in beside /\ pc[c] \in Walking

\* What a client is sent is the device at one moment, from its position to
\* the end, and if its command was written, that is the last thing in it: no
\* other request comes between the write and the answer, although the answer
\* is sent piece by piece (utility_funcs.c:94-119, :237-284).
ReplyIsSnapshot ==
  \A c \in Conn : pc[c] = "close" =>
    LET sent == local[c].sent IN
    /\ sent = SubSeq(log, Len(log) - Len(sent) + 1, Len(log))
    /\ local[c].request = "command" => Len(sent) = Len(log)
    /\ local[c].wrote => sent # << >> /\ sent[Len(sent)] = c

\* A worker that runs finds its thread_information, its socket and its file
\* name: a terminate frees them after the join only (aesdsocket.c:75-97).  The
\* code does not promise it to a worker that gets no list node (:425-434), nor
\* to one for which pthread_join failed since another terminate, interrupted or
\* in another thread, had called it already (:80); such a worker has been
\* cancelled and goes no further than its next call.  No other worker loses its
\* memory, although two terminates walk the list at once.
WorkerKeepsItsMemory ==
  \A c \in Conn : pc[c] \in Alive =>
    \/ c \in info /\ c \in sockets
    \/ Terminating /\ c = current
    \/ c \in again /\ c \in cancelled

\* When the process exits by itself, and no worker has caught a signal, no
\* thread runs, no connection is open and no thread_information is left but
\* those of the connection whose set-up was interrupted: the list knew all
\* others, also after a second signal in the main thread, which may leave the
\* threads running that it did not join (aesdsocket.c:391-436, :72-99).  A
\* terminate in a worker takes nodes from under the main thread's, which then
\* drops the next one from the list unseen.
ExitLeavesNothing ==
  status = "exited" /\ beside = {} =>
    /\ sockets \cup info \subseteq {current}
    /\ \A c \in Conn : pc[c] \in Alive => c = current \/ c \in again

\* The mutex belongs to a worker that was cancelled while it held it, or that
\* runs the handler, which does not go back.
MutexLost == \E c \in Conn : mutex = c /\ pc[c] \in {"dead"} \cup Walking

\* A worker that waits for the mutex gets it, unless the process ends or the
\* mutex is lost to a cancellation or a signal or the handler hangs
\* (utility_funcs.c:45).
RequestIsServed ==
  \A c \in Conn :
    pc[c] = "lock" ~> pc[c] # "lock" \/ status # "running" \/ MutexLost

\* Once terminate has begun the process ends, whenever a second signal begins it
\* anew or begins another beside it, unless the mutex is lost or the handler
\* hangs (aesdsocket.c:63-141).
StopsUnlessMutexLost == Terminating ~> status # "running" \/ MutexLost

\* aesdsocket.c:120: "Caught signal, exiting"; :70: "iterate through the list
\* of threads and request their termination".  Then the process ends.
SignalStopsServer == Terminating ~> status # "running"
=============================================================================
