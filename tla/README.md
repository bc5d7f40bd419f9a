# Specification of the aesdchar driver and its server

The repository holds a Linux character driver that keeps the last ten commands written to it
(`src/aesd-char-driver`), a socket server that sends what its clients write through that driver
(`src/server`), and a number of smaller exercises. This directory holds TLA+ modules of the code,
TLC configurations that check them on small instances, and proofs, checked by the TLA+ proof
system, of theorems that hold for every value of the constants.

## 1. Inventory

| Component | Source | State | Operations | Interacts with |
|---|---|---|---|---|
| Circular buffer | `aesd-circular-buffer.[ch]` | `entry[10]`, `in_offs`, `out_offs`, `full` | init, add_entry, find_entry_offset_for_fpos, content_length, find_fpos_at_position | called by the driver under its lock; frees the driver's memory |
| Driver file operations | `main.c` 50-357 | `aesd_dev`: the ring, the command being written and its size, the mutex; `f_pos` of each open file; the kernel heap | open, release, read, write, llseek, ioctl, debug print | called by any number of processes at once |
| Driver load and unload | `main.c` 359-484, `aesdchar_load`, `aesdchar_unload`, `aesdchar.init` | the device number, `aesd_device` and its data, the cdev, the node in `/dev` | init, cleanup, the scripts | frees what the file operations have allocated; the server opens, or creates, the node |
| Socket server | `aesdsocket.c` | the list of workers, the mutex, the listening socket | start-up, accept loop, `terminate`, signal handlers | one worker per connection; a signal interrupts the main thread, or a worker |
| Connection worker | `utility_funcs.c` | a request buffer, an open device, the mutex | read a request, lock, write or seek, read everything back, unlock | the driver's file operations; the server's mutex |
| Threading example | `examples/threading` | a mutex, one `thread_data` per thread | start, sleep, lock, sleep, unlock | threads share the mutex |
| System call examples | `examples/systemcalls` | children of the process, descriptors | do_system, do_exec, do_exec_redirect | fork, exec, wait |
| Start and stop script | `aesdsocket-start-stop.sh` | none | start, stop | starts the server |
| Finder and writer | `finder-app` | files | count files and lines, write a file | sequential |
| The rest | build, image and emulator scripts, tests, coursework, vendored `queue.h` | | | |

What is hard in each, and what makes it correct:

* **Circular buffer.** Two offsets that wrap, a `full` flag that separates empty from full, and
  do-while searches whose ends may coincide. Correct: it is the log of the most recent commands,
  and a byte offset or a command number leads to the right byte.
* **Driver file operations.** Processes interleave between the pieces of a command, between the
  scan of a buffer and the lock, and around the debug print that takes no lock; allocations and
  copies fail part way; a signal ends a wait for the lock. Correct: mutual exclusion, one owner
  for every block, whole commands, reads that are slices of the device, every call returns.
* **Load and unload.** Each allocation may fail half way through init, and cleanup runs over
  whatever is there; scripts fail between two commands, and the server creates a plain file where
  it finds no node. Correct: a module that is gone has left nothing, what can be opened is there,
  the node is the module's.
* **Socket server and worker.** Threads, cancellation and signals: a signal may arrive between any
  two steps of the accept loop, inside `terminate` itself, and in a worker while the main thread is
  there. Correct: each worker is freed after its join, the server always ends after SIGTERM,
  requests do not mix.
  Within a worker, reads and writes are cut anywhere and buffers are not terminated. Correct: no
  byte is lost or moved, an answer is the device from its start to its end, loops stop.
* **Examples.** A `wait` that takes another call's child, a child that goes on as its caller, a
  mutex that an error path keeps. Correct: success is never another's, every child is taken.

`PROJECT.json` lists the single hazards, each at its line, with the properties that cover it.

## 2. Modules

    CircularBuffer  <--  CommandRing  --refines-->  CommandLog
          ^   ^              ^---- MCCommandRing, CommandRingProofs (CircularBufferProofs)
          |   `--- CircularBufferProofs
       AesdChar  <--  AesdCharRefinement  --refines-->  CommandDevice
          ^                 ^---- MCAesdChar, AesdCharRefinementProofs
          `---- AesdCharProofs

       AesdServer    --uses-->  CommandLog
          ^---- MCAesdServer, AesdServerProofs

       ConnectionIO  <--  MCConnectionIO, ConnectionIOProofs
       SystemCalls   <--  SystemCallsProofs
       DriverLoad    <--  DriverLoadProofs

* **CircularBuffer** has one operator per function of `aesd-circular-buffer.c`, on a record with
  the fields of the C structure. `add_entry` is the composition of `Evict` and `Store`, because
  what a process without the lock sees between the two matters. The three do-while loops share
  `Visited` (how many slots the loop visits: all of them when the offsets coincide, on an empty
  ring too), `SlotAt` and the partial sums `SizeBefore`, a recursive function. `position` is
  truncated to a `uint8_t`, as the C signature does. `Contents` is what the ring stands for.
* **CommandRing** is the ring as a machine (`Init`, `Add`); **CommandLog** is its abstract
  specification, a sequence that forgets its head. `RefinesLog` is the refinement.
* **AesdChar** is the loaded driver. Its variables are the fields of `aesd_dev` (under their
  names), the owner of the lock, a heap (`allocated`, and `mem`: size and contents of each block),
  the open files with their positions, and for each process a label, its locals and its last
  result. The labels are the points of `main.c` where another process can see a difference:

  | label | the call is | | label | the call is |
  |---|---|---|---|---|
  | `w_scan` | looking for the next terminator, no lock | | `read` | about to lock |
  | `w_cmd`, `w_tail` | holding the lock, chunk not copied | | `r_loop` | holding the lock, copying |
  | `w_evict` | chunk copied, before `add_entry` | | `llseek`, `ioctl` | about to lock |
  | `w_store` | oldest command freed | | `r_print`, `w_print` | in the debug print |
  | `w_reset` | entry stored | | `r_copy`, `w_copy` | with an entry's pointer in hand |

  A seek and an ioctl do all they do under the lock in one step, since nothing they change is
  visible outside. `krealloc` may stay or move; a block that it leaves is freed. The debug print
  reads a pointer in one step and copies through it in the next. An ioctl with a wrong command is
  refused before it asks for the lock (`IoctlRefused`, one step of the caller). The search for a
  terminator reads the writer's memory itself, without `copy_from_user` and before the lock
  (`main.c:228`): a caller whose memory is bad faults there, in the kernel, which is not modelled;
  `WriteFault` is a copy that fails afterwards.
* **AesdCharRefinement** says what the driver's state stands for: to writers a `CommandDevice`, to
  readers one string of bytes.
* **CommandDevice** is what the driver promises writers: one pending command that grows by pieces,
  and a log it enters whole.
* **AesdServer** is `aesdsocket.c` with the control of `utility_funcs.c`. The main thread is at one
  of `start`, `accept`, `create` (accepted, no thread yet), `insert` (the thread runs, its node is
  not in the list). A worker is at `recv`,
  `lock`, or inside the critical section at `open`, `write`, `seek`, `reply`, `close`; `ended` has
  returned, `dead` was cancelled. Any thread may be in `terminate`: at `t_next`, `t_join`, `t_wait`
  (in the join) and `t_free`, with its own `current_node` in `node`. `list` is `head_node`, `info`
  the allocated `thread_information`s, `sockets` the open connections, `current` the connection
  being set up, `cancelled` the pending cancellation requests, `begun` the workers that a thread has
  called `pthread_join` for, `again` those for which a second call has failed. `accept` and `open`
  may fail at any time, which stands for descriptors that ran out: the device that a worker leaves
  open when it gives up is not counted. Cancellation is deferred: `Goto` and `Cancelled` let it act
  in the calls that are cancellation points, with the mutex left as it is, since the
  worker has no cleanup handler. The device is `CommandLog`, the machine `CommandRing` implements
  and the driver refines to (`CommandDevice`; both proved); a request is one whole command,
  as `read_str_from_socket` returns when the client sends line by line, or a seek. Reading the
  answer takes one step per command, so that other workers may come between. A worker whose
  `thread_information` was freed under it goes on or ends the process (`UseAfterFree`).

  *Signals.* The handler never returns, and it masks its own signal in the thread that runs it and in
  no other; nothing calls `pthread_sigmask`. POSIX lets the kernel give a signal to any thread that
  has not masked it; Linux gives it to the main thread if that can take it, and the model follows
  Linux. So the main thread catches SIGINT and SIGTERM once each, the second inside the `terminate`
  of the first (`Signal`, `SignalInFree`), and one that it has caught already goes to a worker when
  it comes again, which runs `terminate` beside the main thread (`SignalBeside`). Two terminates
  walk one list: the second `pthread_join` of a thread fails at once, also that of a worker by
  itself (`JoinFails`), and what the thread uses is freed while it runs; `SLIST_REMOVE_HEAD` may
  take a node that nobody has joined (`RemoveHead`), whose worker then runs on at exit; what is freed
  or used a second time may end the process (`FreeKills`). A worker cancelled in its `terminate` gives
  up the join it waits in. `MaxBeside` bounds the signals in workers, each of which catches one.
  Left out: what a thread cancelled between two calls of `free` leaves allocated, apart from the
  socket. `SignalHangs` is a handler that waits for a lock of `malloc` or `syslog` which its own
  thread holds.
* **ConnectionIO** is `utility_funcs.c` seen from one worker, byte by byte: `stream` is all the
  client sends, `unread`, `buf` and `consumed` how far it has come, `allocated_space` the block
  that grows, `contents` the device, `pos`, `piece` and `sent` the answer, `stage` the place in the
  code. `Read` and `Send` take any number of bytes the call may take. One member of `Byte`, `Key`,
  stands for the text of a seek; where the seek goes is any position of the contents, since the
  device decides it (`PositionInContents` of the driver). What the source does wrong is there:
  the search behind an unterminated buffer (`missed = "stale"`), the write behind a full block
  (`Overrun`), the write that fails unnoticed (`missed = "write"`), the several lines in one read
  that the driver never finishes (`WriteStuck`), SIGPIPE (`SendKills`). The driver takes a whole
  line at once, so the write loop takes one turn; a result lower than the count does not occur
  (`WholeCommandNotShort`).
* **SystemCalls** is `systemcalls.c` called by several threads of one process. Children are
  numbered as they are made; `proc` is the kernel's table of them, with the code each is running:
  its caller's, the command's, or its caller's again as a copy (`Dup2Fails`). `Wait` takes any
  child that has ended. The shell of `do_system` is waited for by its number, and another call's
  `wait` may have taken it. `do_system(NULL)`, which runs nothing, is left out.
  Two docs of the source disagree with its code. `systemcalls.c:125` says the output file is closed at
  completion of the call: it stays open when `fork` fails and when it has got descriptor 0 (the run
  `system_calls_file`). `systemcalls.c:14-17` says `do_system` returns false when the command returns
  a value other than zero: the code compares the status of `system` with 127, which a status, with the exit code
  in its second byte, never is, so that a command which fails counts as success. `WaitForShell` returns
  true whatever the shell's status, and the disagreement is read off that one action; there is no
  run for it.
* **DriverLoad** is `aesd_init_module` and `aesd_cleanup_module`, one step per request to the
  kernel (`kpc`), under the scripts, one step per command (`at`), which run one after the other.
  The server runs meanwhile and opens, writes, closes, or forgets to close `/dev/aesdchar`; its
  open has `O_CREAT` and makes a plain file where there is none. A module whose init faulted
  (`CdevDelFaults`, `kpc = "oops"`) stays in `coming` for ever and every later `insmod` waits.
  The loop of the cleanup takes one step per entry of the ring (`FreeEntry`, `index`). A comment in
  it, `main.c:453`, says that it "only frees 7 entries and then segments". The code under the comment
  does not do so, in this model or in the driver's: it comes to all ten entries of a full ring (`NothingLeft`),
  and each of the pointers it passes to `kfree` is to a block of its own or NULL, whatever writes and
  failures came before (`CleanupFreesAll`, at rest, which an `rmmod` that is not refused finds).
  What the comment's author saw is not explained by the code as it stands.
* **MCCommandRing**, **MCAesdChar**, **MCAesdServer**, **MCConnectionIO** give values to the
  constants; the first two also hold the properties that compare with a reference built from sequences (`FlattenSeq`).
* **CommandRingProofs** (with the lemmas of **CircularBufferProofs**), **AesdCharProofs**,
  **AesdCharRefinementProofs**, **AesdServerProofs**, **ConnectionIOProofs**, **SystemCallsProofs**
  and **DriverLoadProofs** hold the theorems.

Definitions whose name ends in an underscore and a remark (`Advance_NoWrap`,
`WriteFault_KeepsLock`) are variants of the definition below them with a plausible bug; each
property has one that breaks it.

## 3. Runs

| Run | What it shows | Bounds, and why they suffice |
|---|---|---|
| `command_ring` | type, shape, the two lookups against the bytes laid end to end, refusal of absent commands, refinement of the log | ten slots as in the code; commands of one or two bytes, so that offsets inside and at the end of a command differ |
| `driver` | exclusion, ownership, whole commands, refinement of `CommandDevice`, results that let a caller stop; reads that are slices of the right length; positions in the contents | two processes, two slots (evictions after the third command), four addresses, blocks up to two bytes (one longer fails as for want of memory); buffers with the terminator first, last and before a tail, so that one command is made of two writers' pieces; reads of 1 and 3 bytes (inside a command, across two, beyond the end); all seeks within and around the contents; signals and failures on |
| `driver_live` | every call returns | one slot, two processes, copies that fail, the debug print on one slot |
| `driver_two_commands` | **finding**: the scan does not advance | one slot, buffers with two terminators |
| `driver_seek_hole` | **finding**: the lock is kept by a seek with another whence | one slot |
| `driver_print` | **finding**: the debug print reads freed memory | one slot, where the second command evicts the first |
| `server` | no path but a cancellation or a signal keeps the mutex; an answer is the device at one moment and ends with the request's own command; what a terminate frees it frees after the join, and what the list knows is gone at exit, but for the exceptions below; a waiting worker is served and the process ends, unless the mutex is lost | two connections (a holder and a waiter), two requests between them (one thread that goes round its loop, or both inside), two signals in the main thread and one in a worker, every call may fail. That a device of two is overflown by a third request is covered by the proof of `AnswersAreSnapshots` only |
| `server_stop` | **finding**: SIGTERM does not stop a server with one worker inside the critical section and another waiting for it | two connections, two requests, nothing fails |
| `connection_io` | the buffer grows before it is full, bytes stay in order, answers are complete, what is answered is stored, every way out frees the buffer (but a failed answer), every request of one line is handled | blocks of eight bytes (grown when less than two are free), pieces of three, five streams: lines within, at and beyond the end of a block, seeks first and behind a command, a line that is never ended; a device that is empty and one that is full; every call may fail |
| `system_calls` | success is a call's own, children and calls are accounted for, every call returns | two threads, two children in all (each may take the other's), every call may fail, descriptor 0 for the file |
| `system_calls_file` | **finding**: the output file is open after the call | the same |
| `driver_load` | a module that is gone has left nothing, what is open is backed, the node is the module's | two device numbers (a reloaded module may get another), a ring of ten entries, filled to any number of them, every step may fail, all scripts and the server in any order |

`driver` never writes two commands in one buffer, and `driver_live` has no
unsupported whence: the two findings would hide everything behind them. `driver` does seek with
`SEEK_HOLE`, which is harmless to properties that speak of what has happened and not of what will.
Of the driver's runs only `driver_seek_hole` sets `CHECK_DEADLOCK FALSE`: its processes do stop.

What the server's properties except is what the code does not promise. `WorkerKeepsItsMemory` excepts
the worker that got no list node, whose memory is freed at once, and one for which a second
`pthread_join` has failed, which has been cancelled by then. `ExitLeavesNothing` excepts the connection whose set-up
was interrupted and the threads of a second join, and claims nothing once a worker has caught a signal,
since the removal of a node by one terminate may drop another's. `SuccessIsOwn` excepts
`do_system`, and the child of `do_exec_redirect` that goes on as a copy of its caller.

The calls that may fail are the members of `FaultNames` of each module. `server` and `server_stop`
set `CHECK_DEADLOCK FALSE` because the process exits, `connection_io` because the worker ends,
`system_calls` and `system_calls_file` because the children are bounded; `driver_load` checks for deadlock. A client sends one command per line and reads
what it is sent; a write of two commands at once would stop in the driver
(`driver_two_commands`) and take the server's mutex with it.

Bounds that stand for something in the code: `MaxOps` for ten slots (the ring's own run uses ten),
`MaxAlloc` for the largest block the heap gives, `SizeModulus` for 2^64, `PrintSlots` for how far
the debug print is followed, `CHUNK_SIZE` and `TMP_BUF_SIZE` for 512 and 1024 bytes (the code
depends on a quarter of the first only), `MaxRequests`, `MaxBeside` and `MaxForks` for
requests, signals and children without end; `Slots` is the ring's ten entries. Symmetry over addresses and processes is used only in the runs of
safety properties; nothing in the modules orders them.

**Fairness.** `FairSpec` assumes weak fairness of each call's steps (the kernel schedules a
runnable task) and strong fairness of taking the mutex: the kernel's mutex hands itself over to a
waiter that has been passed by (MUTEX_FLAG_HANDOFF), so a task that finds it free again and again
gets it. Callers are not fair: nobody has to make another call.

In the server weak fairness is assumed of `terminate`'s steps and of each worker between two
requests; clients, who connect, send, close, are not fair, nor is the signal. The pthread mutex
needs no strong fairness here because the number of requests is bounded (`MaxRequests`): a waiter
is passed by finitely often. With unbounded clients `RequestIsServed` would depend on the
fairness of the mutex.

`connection_io` assumes that the worker runs and that its client reads the answer (weak fairness of
`Handle`); nobody has to send and nothing has to fail. `system_calls` assumes weak fairness of each
thread within a call and of each child: a command that never ends keeps its caller, as it should.

## 4. Theorems

| Theorem | Module | Says, for every value of the constants |
|---|---|---|
| `TypeCorrect`, `RingShapeAlways` | CommandRingProofs | offsets in range; `full` and the offsets agree |
| `RingImplementsLog` | CommandRingProofs | the ring of any capacity implements `CommandLog` |
| `LookupFindsEveryByte` | CommandRingProofs | the search finds each byte of the contents and nothing beyond |
| `SeekLeadsToByte`, `SeekBeyondIsRefused` | CommandRingProofs | a command and an offset in it lead to that byte; no other command is accepted |
| `DriverTypeCorrect` | AesdCharProofs | the driver's type invariant |
| `LockExcludes` | AesdCharProofs | mutual exclusion |
| `EveryBlockHasOneOwner` | AesdCharProofs | one owner for each block, on all error paths |
| `UnloadFreesEachBlockOnce` | AesdCharProofs | at rest, cleanup frees what is allocated, once |
| `EveryCommandIsWhole` | AesdCharProofs | recorded length, one terminator, at the end |
| `WholeWriteIsCounted` | AesdCharProofs | a write of whole commands reports no less than it was given |
| `DriverImplementsDevice` | AesdCharRefinementProofs | the driver implements `CommandDevice` |
| `ReadCopiesTheDevice`, `ReadIsNotShort` | AesdCharRefinementProofs | a read copies a slice, and all that is left or asked for |
| `PositionStaysInContents` | AesdCharRefinementProofs | no call moves a file's position out of the contents |
| `ServerTypeCorrect` | AesdServerProofs | the server's type invariant |
| `EveryPathUnlocks` | AesdServerProofs | the mutex's owner alone uses the device; only a cancellation or a signal keeps the mutex |
| `FreedAfterJoin` | AesdServerProofs | however many threads run `terminate`, none frees what a running worker uses, but after a second join that failed, of a worker that was cancelled |
| `NothingLeftAtExit` | AesdServerProofs | if the main thread alone caught signals, nothing is left at exit but an interrupted set-up, and threads whose second join failed |
| `AnswersAreSnapshots` | AesdServerProofs | an answer is the device at one moment, own command last |
| `IOTypeCorrect` | ConnectionIOProofs | the worker's type invariant |
| `ReadsHaveRoom`, `StreamIsInOrder` | ConnectionIOProofs | every read has room in its block; no byte is lost, moved or read twice |
| `CompleteAnswerIsDevice` | ConnectionIOProofs | an answer that ended at the end of the file is the device from its start |
| `AnsweredCommandIsStored` | ConnectionIOProofs | what is answered is stored, but for the two known ways to lose a command |
| `EndsRelease` | ConnectionIOProofs | what each way out of the worker leaves behind |
| `CallsTypeCorrect` | SystemCallsProofs | the types of callers and children |
| `SuccessIsForOwnChild` | SystemCallsProofs | success of `do_exec` is that of its own child, which ran the command; of `do_exec_redirect` it may be that of its own copy |
| `ChildrenAreAccounted`, `WaitFindsAChild` | SystemCallsProofs | children and calls are in step; a call that waits finds a child |
| `OutputFileClosed` | SystemCallsProofs | the output file is closed when a call returns, unless `fork` failed or it has descriptor 0 |
| `LoadTypeCorrect` | DriverLoadProofs | types; a script is in the kernel exactly while init or cleanup runs |
| `NothingIsLeft` | DriverLoadProofs | an absent module has left nothing, for a ring of any size |
| `WhatIsOpenIsBacked` | DriverLoadProofs | what can be opened is complete, what is open stays |
| `NodeIsTheModules` | DriverLoadProofs | between scripts a device node is the live module's |

*Assumptions.* `MaxOps` is between 1 and 255 (the counters are `uint8_t`), NULL is not an address,
no process is called `NoProc`, the written buffers are sequences of bytes. Nothing else: any number
of processes, addresses, bytes and any finite buffers, two commands in one write included.
`ReadIsNotShort` also assumes that the device is smaller than a `size_t` counts. For the server:
`NoConn` and `Main` are no connections, the device keeps at least one command. For a worker: a line's end is
a byte, the text of a seek another, and the first block has at least four bytes. For the system
calls: there are finitely many threads. For load and unload: no device number is called "none" or "plain".

*Argument for the ring.* `Shape` (a full ring has its offsets together; one that has never been
full starts at slot 0 and is empty from `in_offs` on) is inductive. With it, `Contents` of the ring
after an addition is `Append` of the old one, or of its tail when the ring was full; the two cases
are the lemmas `AddEntryToOneNotFull` and `AddEntryToFullOne`. The lookups rest on `SizeBefore`
being monotone and on the byte at place k of the bytes laid end to end being in the entry whose sums
enclose k, by induction over the slots visited, which is carried out with the least counterexample because the
library's induction rule cannot be instantiated.

*Argument for the driver.* None of the properties is inductive alone. `IInv` adds what a writer
knows in the middle of a write: between eviction and store the ring has room but not its shape
(`BufferShape`); the temporary block holds exactly the bytes counted, with no terminator until a
writer is committing it (`TempBlock`); after the store the block is in a slot as well, the one
moment with two references (`Stored`); and a writer at `w_cmd` has found a terminator that is still
there (`AtChunk`). Mutual exclusion says that at most one process is in such a phase, so the phase
is a property of the device. Each effect on the device is a lemma (`GrowStep`, `EvictStep`,
`StoreStep`, `ResetStep`); `QuietStep` covers all steps that leave it alone.

*Argument for the refinement.* The mapping needs two facts more: slots that count hold a command
(`Filled`) and a writer's pieces come from a buffer that it was given (`Given`). Only `WriteAppend`
and `WriteEvict` change what the state stands for; every other step is a stutter. For reads,
`ReadInv` says that what has been copied is the slice up to the stored position; the lock keeps the
device as it is meanwhile.

*Argument for the server.* The properties are not inductive alone. `IInv` adds what the main thread
knows at its label (`SetUp`: the connection in hand has no thread yet), what a thread in
`terminate` knows of its node (`Handling`: it has been cancelled, and at `t_free` it has ended or a
second join has failed), that a worker runs `terminate` only after a signal (`BesideOnly`), that whatever lives is in
the list or in hand as long as no worker has caught a signal (`ListKnows`, which is where two
terminates at once would break it), and how far an answer has come (`Answers`: what has been sent is
the device from the answer's start to its position). `ServeMoves`, `CancelMoves`, `BesideMoves`,
`TerminateMoves` and `SetUpMoves` say what the steps of each kind leave alone, so most parts are
kept by all steps of a kind at once. The mutex matters in `Answers`: the device changes only in
the step of its owner, so an answer in progress is never of two devices.

*Argument for a worker.* `StreamInOrder` is inductive with the room for each read. An answer is followed
by `AnswerSoFar` (what is sent, with the piece in hand, is the device from the start to the file's
position) and `CommandIsLast` (a command that was written ends the device).

*Argument for the system calls.* `ChildrenAccounted` counts: each fork adds a child and a waiting
call, each wait takes one of both. `SuccessIsOwn` needs that a child has its caller's descriptor (`Inherits`):
only a call that redirects, with a descriptor other than 0, can have a copy for a child.

*Argument for load and unload.* `IInv` adds what init has made at each of its steps and what cleanup
has left (`Made`), and where the script is when the node may be stale (`NodeShape`): only while the
module goes and until the `rm` of the same script. `NothingLeft` is then the state after the last
step of cleanup, or before the first of init: in the loop every entry below `index` is empty, so at its end all are; `OpenIsBacked` holds because an open device counts in
the module and keeps `rmmod` away. `KernelStep` and `NodeStep` go through all actions.

*Not proved, only checked:* liveness (`CallReturns` of the driver and of the system calls,
`RequestIsServed`, `StopsUnlessMutexLost`, `RequestIsHandled`), which is out of the prover's reach
together with ENABLED. The properties of the violation runs are false of the code.

## 5. Not modelled, and why

* The threading example: a thread sleeps, locks, sleeps, unlocks. Its one hazard, that a sleep which
  fails returns with the mutex held (`threading.c:48`), is read off the code.
* Finder and writer: sequential programs on text and files.
* A seek's numbers: a command number is cut to a `uint8_t`, so 256 names the first command, and the
  offset one past the end of a command is accepted (`aesd-circular-buffer.c:134`, `:148`). Both are
  in CircularBuffer; the properties about seeks speak of numbers below 256 and of offsets within
  the command.
* File mode of the server (`#ifndef USE_AESD_CHAR_DEVICE`): both files define the macro, and the
  other branch does not compile (`fd` and `filed` are not declared).
* Memory of a writer that cannot be read (`main.c:228`), and a signal that POSIX would let the kernel
  give to a worker although the main thread can take it.
* Threads that share one open file: each process has its own file and position.
* The restart of a system call after `-ERESTARTSYS`: the result is returned and the call ends.
* The server's command line, and the lines it logs; what its stop script passes, `--quit`, is no
  option of start-stop-daemon, so that stop sends no signal.
* What a debug print of more than 512 bytes does to the stack (`main.c:60`): only which block the
  print reads is followed.
* The daemon's fork, which is part of `StartUp`: the parent exits at once, the child goes on.
* `queue.h`, the build, image and emulator scripts, the tests and coursework files.

## 6. Plan

In this order; each step adds a module, its runs and its properties.

1. *(done)* CircularBuffer, CommandLog, CommandRing, with proofs.
2. *(done)* AesdChar, CommandDevice, with proofs of the safety invariants.
3. *(done)* AesdServer with signals in the main thread and in workers, with proofs.
4. *(done)* ConnectionIO: the buffer and the two dump loops, with proofs.
5. *(done)* SystemCalls, with proofs.
6. *(done)* DriverLoad: init, cleanup, scripts and the server that opens the node, with proofs.
7. *(done)* Proofs that the driver implements the command device, and of what a read returns.
8. The threading example; the restart of a write after `-ERESTARTSYS`.
