----------------------------- MODULE SystemCalls -----------------------------
(***************************************************************************)
(* examples/systemcalls: do_system, do_exec and do_exec_redirect, called   *)
(* by several threads of one process.  The children belong to the process, *)
(* so wait in one call may return the child of another.                    *)
(***************************************************************************)
EXTENDS Naturals, FiniteSets

CONSTANTS
  Thread,
  MaxForks,     \* bound: the children that are made in all
  Faults        \* what may go wrong: a subset of FaultNames

FaultNames == {"open", "fd0", "fork", "dup2", "exec", "signal"}

ASSUME CallsAssumption ==
  /\ IsFiniteSet(Thread)
  /\ MaxForks \in Nat
  /\ Faults \subseteq FaultNames

Child   == 1 .. MaxForks
NoChild == 0

VARIABLES
  pc,       \* where each thread is
  kind,     \* the function it is in, or was in last
  fd,       \* the local fd of do_exec_redirect
  file,     \* whether the file it opened is open in the process
  pid,      \* the child it made
  ret,      \* what its last call returned, "none" while it is in one
  forks,    \* the number of children made so far
  proc,     \* the children
  lost      \* the number of calls that returned without taking a child's status

tvars == <<pc, kind, fd, file, pid, ret>>
vars  == <<tvars, forks, proc, lost>>

(***************************************************************************)
(* A child runs the code of its caller, then the command, or on as a copy  *)
(* of the caller; fd is its copy of the caller's variable.                 *)
(***************************************************************************)
NotMade == [state |-> "none", runs |-> "caller", fd |-> 0, status |-> "none"]

Init ==
  /\ pc = [t \in Thread |-> "idle"]
  /\ kind = [t \in Thread |-> "none"]
  /\ fd = [t \in Thread |-> 0]
  /\ file = [t \in Thread |-> FALSE]
  /\ pid = [t \in Thread |-> NoChild]
  /\ ret = [t \in Thread |-> "none"]
  /\ forks = 0
  /\ proc = [c \in Child |-> NotMade]
  /\ lost = 0

Goto(t, label) == pc' = [pc EXCEPT ![t] = label]
Return(t, r)   == Goto(t, "idle") /\ ret' = [ret EXCEPT ![t] = r]

-----------------------------------------------------------------------------
\* Bounds: no call when all children are made, nor after one that has left
\* its file open.
Call(t) ==
  /\ pc[t] = "idle" /\ ~file[t] /\ forks < MaxForks
  /\ \E k \in {"system", "exec", "redirect"} :
       /\ kind' = [kind EXCEPT ![t] = k]
       /\ Goto(t, IF k = "redirect" THEN "open" ELSE "fork")
  /\ fd' = [fd EXCEPT ![t] = 0]
  /\ pid' = [pid EXCEPT ![t] = NoChild]
  /\ ret' = [ret EXCEPT ![t] = "none"]
  /\ UNCHANGED <<file, forks, proc, lost>>

\* outputfile is opened.  Its descriptor is 0 when the process has closed
\* its own.
OpenOutput(t) ==
  /\ pc[t] = "open"
  /\ \E n \in {3} \cup (IF "fd0" \in Faults THEN {0} ELSE {}) : fd' = [fd EXCEPT ![t] = n]
  /\ file' = [file EXCEPT ![t] = TRUE]
  /\ Goto(t, "fork")
  /\ UNCHANGED <<kind, pid, ret, forks, proc, lost>>

\* No redirection: outputfile is NULL.
OpenNothing(t) ==
  /\ pc[t] = "open"
  /\ Goto(t, "fork")
  /\ UNCHANGED <<kind, fd, file, pid, ret, forks, proc, lost>>

OpenFails(t) ==
  /\ pc[t] = "open" /\ "open" \in Faults
  /\ Return(t, "false")
  /\ UNCHANGED <<kind, fd, file, pid, forks, proc, lost>>

\* Descriptor 0 passes for no redirection.
ClosesFile(t) == fd[t] # 0

\* fork, and in the parent the close of the file.  The shell that system
\* runs needs nothing of this code.
Fork(t) ==
  /\ pc[t] = "fork" /\ forks < MaxForks
  /\ forks' = forks + 1
  /\ pid' = [pid EXCEPT ![t] = forks + 1]
  /\ proc' = [proc EXCEPT ![forks + 1] =
                IF kind[t] = "system" THEN [NotMade EXCEPT !.state = "runs", !.runs = "command"]
                ELSE [NotMade EXCEPT !.state = "forked", !.fd = fd[t]]]
  /\ file' = [file EXCEPT ![t] = @ /\ ~ClosesFile(t)]
  /\ Goto(t, IF kind[t] = "system" THEN "waitpid" ELSE "wait")
  /\ UNCHANGED <<kind, fd, ret, lost>>

ForkFails_Waits(t) ==
  /\ pc[t] = "fork" /\ ("fork" \in Faults \/ forks = MaxForks)
  /\ Goto(t, "wait")
  /\ UNCHANGED <<kind, fd, file, pid, ret, forks, proc, lost>>
\* What was opened stays open.
ForkFails(t) ==
  /\ pc[t] = "fork" /\ ("fork" \in Faults \/ forks = MaxForks)
  /\ Return(t, "false")
  /\ UNCHANGED <<kind, fd, file, pid, forks, proc, lost>>

-----------------------------------------------------------------------------
(***************************************************************************)
(* wait takes any child that has ended; do_exec and do_exec_redirect       *)
(* report success when it is their own and its status is zero.  waitpid in *)
(* system asks for its own.                                                *)
(***************************************************************************)
Unreaped == {c \in Child : proc[c].state \notin {"none", "reaped"}}
Zombies  == {c \in Child : proc[c].state = "zombie"}
Reap(c)  == proc' = [proc EXCEPT ![c].state = "reaped"]

Succeeded_Raw(t, c) == proc[c].status
Succeeded_AnyChild(t, c) == IF proc[c].status = "zero" THEN "true" ELSE "false"
Succeeded(t, c) == IF c = pid[t] /\ proc[c].status = "zero" THEN "true" ELSE "false"

Wait_UntilOwn(t) ==
  /\ pc[t] = "wait"
  /\ \E c \in Zombies : /\ Reap(c)
                        /\ IF c = pid[t] THEN Return(t, Succeeded(t, c)) ELSE UNCHANGED <<pc, ret>>
  /\ UNCHANGED <<kind, fd, file, pid, forks, lost>>
Wait(t) ==
  /\ pc[t] = "wait"
  /\ \E c \in Zombies : Reap(c) /\ Return(t, Succeeded(t, c))
  /\ UNCHANGED <<kind, fd, file, pid, forks, lost>>

\* wait returns -1: a signal handler of the application has interrupted it, or
\* the process has no child.
WaitFails(t) ==
  /\ pc[t] = "wait"
  /\ "signal" \in Faults \/ Unreaped = {}
  /\ Return(t, "false")
  /\ lost' = lost + 1
  /\ UNCHANGED <<kind, fd, file, pid, forks, proc>>

\* Every status but 127 passes for success.  A status holds the exit code in its
\* second byte, so none is 127, and the command's own failure passes too, against
\* the words of systemcalls.c:14-17.
WaitForShell(t) ==
  /\ pc[t] = "waitpid" /\ pid[t] \in Zombies
  /\ Reap(pid[t])
  /\ Return(t, "true")
  /\ UNCHANGED <<kind, fd, file, pid, forks, lost>>

\* wait in another call has taken the shell: system returns -1.
ShellTaken(t) ==
  /\ pc[t] = "waitpid" /\ proc[pid[t]].state = "reaped"
  /\ Return(t, "false")
  /\ lost' = lost + 1
  /\ UNCHANGED <<kind, fd, file, pid, forks, proc>>

-----------------------------------------------------------------------------
(***************************************************************************)
(* The child, in the caller's code until it runs the command.              *)
(***************************************************************************)
Exec(c) ==
  /\ proc[c].state = "forked"
  /\ proc' = [proc EXCEPT ![c].state = "runs", ![c].runs = "command"]
  /\ UNCHANGED <<tvars, forks, lost>>

\* execv returns; the child exits with errno, which is not zero.
ExecFails(c) ==
  /\ proc[c].state = "forked" /\ "exec" \in Faults
  /\ proc' = [proc EXCEPT ![c].state = "zombie", ![c].status = "nonzero"]
  /\ UNCHANGED <<tvars, forks, lost>>

\* The child returns false from do_exec_redirect and goes on as a second
\* copy of the caller.
Dup2Fails(c) ==
  /\ proc[c].state = "forked" /\ proc[c].fd # 0 /\ "dup2" \in Faults
  /\ proc' = [proc EXCEPT ![c].state = "runs", ![c].runs = "copy"]
  /\ UNCHANGED <<tvars, forks, lost>>

\* The command ends, or the copy of the caller.  A signal that kills it counts
\* as a status that is not zero.
Ends(c) ==
  /\ proc[c].state = "runs"
  /\ \E s \in {"zero", "nonzero"} :
       proc' = [proc EXCEPT ![c].state = "zombie", ![c].status = s]
  /\ UNCHANGED <<tvars, forks, lost>>

-----------------------------------------------------------------------------
Running(t) == \/ OpenOutput(t) \/ OpenNothing(t) \/ OpenFails(t) \/ Fork(t) \/ ForkFails(t)
              \/ Wait(t) \/ WaitForShell(t) \/ ShellTaken(t)
Runs(c)    == Exec(c) \/ ExecFails(c) \/ Dup2Fails(c) \/ Ends(c)

Next == \/ \E t \in Thread : Call(t) \/ Running(t) \/ WaitFails(t)
        \/ \E c \in Child : Runs(c)
Spec == Init /\ [][Next]_vars

\* Threads and children run, and commands come to an end.
Fairness == /\ \A t \in Thread : WF_vars(Running(t))
            /\ \A c \in Child : WF_vars(Runs(c))
FairSpec == Spec /\ Fairness

-----------------------------------------------------------------------------
Proc == [state : {"none", "forked", "runs", "zombie", "reaped"},
         runs : {"caller", "command", "copy"}, fd : {0, 3},
         status : {"none", "zero", "nonzero"}]

TypeOK ==
  /\ pc \in [Thread -> {"idle", "open", "fork", "wait", "waitpid"}]
  /\ kind \in [Thread -> {"none", "system", "exec", "redirect"}]
  /\ fd \in [Thread -> {0, 3}] /\ file \in [Thread -> BOOLEAN]
  /\ pid \in [Thread -> Child \cup {NoChild}]
  /\ ret \in [Thread -> {"none", "true", "false"}]
  /\ forks \in 0 .. MaxForks /\ lost \in Nat
  /\ proc \in [Child -> Proc]

\* do_exec and do_exec_redirect report success for their own child alone,
\* whichever child wait gives them: it has ended with status zero, and it ran the
\* command.  A call that redirects may also have been given the status of a child
\* that never ran it: after a dup2 that failed the child went on as a copy of the
\* caller, until that exited with zero (systemcalls.c:91-120, 167-171, 189-217).
SuccessIsOwn ==
  \A t \in Thread : kind[t] # "system" /\ ret[t] = "true" =>
    LET c == pid[t] IN
    /\ c # NoChild
    /\ proc[c].state = "reaped" /\ proc[c].status = "zero"
    /\ \/ proc[c].runs = "command"
       \/ proc[c].runs = "copy" /\ kind[t] = "redirect" /\ fd[t] # 0

\* Each call takes the status of one child, its own or another's: as many
\* children are left as calls wait for one and calls have returned without.
\* So wait finds a child whenever it is called, also after another call has
\* taken the caller's own, and no zombie is left at rest unless a call was
\* interrupted or lost its shell (systemcalls.c:94, 191).
Waiting == {t \in Thread : pc[t] \in {"wait", "waitpid"}}
ChildrenAccounted == Cardinality(Unreaped) = Cardinality(Waiting) + lost

\* systemcalls.c:125: "This file will be closed at completion of the function
\* call."  It is not when fork fails, nor when it has got descriptor 0
\* (systemcalls.c:180-187).
FileClosed ==
  \A t \in Thread : kind[t] = "redirect" /\ pc[t] = "idle" => ~file[t]

\* Every call returns once the commands have ended, although calls take
\* each other's children (systemcalls.c:92-120, 189-217).
CallReturns == \A t \in Thread : pc[t] # "idle" ~> pc[t] = "idle"
=============================================================================
