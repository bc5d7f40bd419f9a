--------------------------- MODULE SystemCallsProofs ---------------------------
(***************************************************************************)
(* Proofs of the invariants of SystemCalls, for any finite set of threads, *)
(* any number of children and any faults.                                  *)
(***************************************************************************)
EXTENDS SystemCalls, FiniteSetTheorems, TLAPS

\* Where a thread is tells which function it is in, whether it has a child and
\* that it has not returned.
Calls ==
  \A t \in Thread :
    /\ pc[t] # "idle" => ret[t] = "none"
    /\ pc[t] \in {"open", "fork"} => pid[t] = NoChild
    /\ pc[t] \in {"wait", "waitpid"} => pid[t] # NoChild
    /\ pc[t] = "waitpid" => kind[t] = "system"
    /\ pc[t] = "open" => kind[t] = "redirect"
    /\ kind[t] # "redirect" => fd[t] = 0
    /\ pid[t] <= forks

\* The children are numbered as they are made.  One that has not ended has no
\* status, and one that has succeeded has run something.  A copy of the caller has
\* inherited a descriptor.
Children ==
  \A c \in Child :
    /\ proc[c].state = "none" <=> c > forks
    /\ proc[c].state \in {"none", "forked", "runs"} => proc[c].status = "none"
    /\ proc[c].state = "runs" \/ proc[c].status = "zero" => proc[c].runs # "caller"
    /\ proc[c].runs = "copy" => proc[c].fd # 0

\* A child has the descriptor of its caller.
Inherits == \A t \in Thread : pid[t] # NoChild => proc[pid[t]].fd = fd[t]

\* A call that has succeeded has taken its own child, which has run something.
TookOwn ==
  \A t \in Thread : kind[t] # "system" /\ ret[t] = "true" =>
    LET c == pid[t] IN
    /\ c # NoChild
    /\ proc[c].state = "reaped" /\ proc[c].status = "zero" /\ proc[c].runs # "caller"

\* fork closes the file in the parent, also before the call returns.
ForkCloses == \A t \in Thread : file[t] => pid[t] = NoChild \/ fd[t] = 0

IInv == /\ TypeOK /\ Calls /\ Children /\ Inherits /\ ForkCloses /\ TookOwn
        /\ ChildrenAccounted

-----------------------------------------------------------------------------
(***************************************************************************)
(* Counting.                                                               *)
(***************************************************************************)

\* The children and the waiting threads can be counted.
LEMMA Countable ==
  ASSUME CallsAssumption
  PROVE  /\ IsFiniteSet(Unreaped) /\ Cardinality(Unreaped) \in Nat
         /\ IsFiniteSet(Waiting) /\ Cardinality(Waiting) \in Nat
<1>1. IsFiniteSet(Child)
  BY FS_Interval DEF Child, CallsAssumption
<1>2. IsFiniteSet(Thread)
  BY DEF CallsAssumption
<1>3. Unreaped \subseteq Child /\ Waiting \subseteq Thread
  BY DEF Unreaped, Waiting
<1>4. IsFiniteSet(Unreaped) /\ IsFiniteSet(Waiting)
  BY <1>1, <1>2, <1>3, FS_Subset
<1>5. QED
  BY <1>4, FS_CardinalityType

\* A set that gains an element, and one that loses one.
LEMMA OneMore ==
  ASSUME NEW S, NEW T, NEW x, IsFiniteSet(S), x \notin S, T = S \cup {x}
  PROVE  Cardinality(T) = Cardinality(S) + 1
BY FS_AddElement

LEMMA OneLess ==
  ASSUME NEW S, NEW T, NEW x, IsFiniteSet(S), x \in S, T = S \ {x}
  PROVE  Cardinality(T) = Cardinality(S) - 1
BY FS_RemoveElement

-----------------------------------------------------------------------------
(***************************************************************************)
(* What an action does to a child.                                         *)
(***************************************************************************)

\* The child forks + 1 is made.
LEMMA ForkMakes ==
  ASSUME CallsAssumption, TypeOK, NEW t \in Thread, Fork(t)
  PROVE  /\ forks + 1 \in Child /\ forks' = forks + 1 /\ proc' \in [Child -> Proc]
         /\ proc'[forks + 1].state \in {"forked", "runs"}
         /\ proc'[forks + 1].status = "none"
         /\ proc'[forks + 1].state = "runs" => proc'[forks + 1].runs = "command"
         /\ proc'[forks + 1].runs # "copy"
         /\ kind[t] # "system" \/ fd[t] = 0 => proc'[forks + 1].fd = fd[t]
         /\ \A d \in Child \ {forks + 1} : proc'[d] = proc[d]
<1> USE DEF TypeOK, CallsAssumption, Child
<1> DEFINE new == IF kind[t] = "system" THEN [NotMade EXCEPT !.state = "runs", !.runs = "command"]
                  ELSE [NotMade EXCEPT !.state = "forked", !.fd = fd[t]]
<1>1. forks + 1 \in Child /\ forks' = forks + 1
  BY DEF Fork
<1>2. /\ new \in Proc
      /\ new.state \in {"forked", "runs"} /\ new.status = "none"
      /\ new.state = "runs" => new.runs = "command"
      /\ new.runs # "copy" /\ (kind[t] # "system" \/ fd[t] = 0 => new.fd = fd[t])
  <2>1. fd[t] \in {0, 3}
    OBVIOUS
  <2>2. QED
    BY <2>1 DEF NotMade, Proc
<1>3. proc' = [proc EXCEPT ![forks + 1] = new]
  BY DEF Fork
<1> HIDE DEF new
<1>4. QED
  BY <1>1, <1>2, <1>3

\* The status of a child is taken.
LEMMA ReapTakes ==
  ASSUME TypeOK, NEW c \in Child, Reap(c)
  PROVE  /\ proc' \in [Child -> Proc]
         /\ proc'[c].state = "reaped"
         /\ proc'[c].status = proc[c].status /\ proc'[c].runs = proc[c].runs
         /\ proc'[c].fd = proc[c].fd
         /\ \A d \in Child \ {c} : proc'[d] = proc[d]
<1> DEFINE new == [proc[c] EXCEPT !.state = "reaped"]
<1>1. proc[c] \in Proc
  BY DEF TypeOK
<1>2. /\ new \in Proc /\ new.state = "reaped"
      /\ new.status = proc[c].status /\ new.runs = proc[c].runs /\ new.fd = proc[c].fd
  BY <1>1 DEF Proc
<1>3. proc' = [proc EXCEPT ![c] = new]
  BY DEF Reap
<1> HIDE DEF new
<1>4. QED
  BY <1>2, <1>3 DEF TypeOK

\* A child's own step: it runs something, or ends with a status.
LEMMA ChildMoves ==
  ASSUME TypeOK, Children, NEW c \in Child, Runs(c)
  PROVE  /\ UNCHANGED <<tvars, forks, lost>>
         /\ proc' \in [Child -> Proc]
         /\ proc[c].state \in {"forked", "runs"}
         /\ \/ /\ proc'[c].state = "runs" /\ proc'[c].runs # "caller"
               /\ proc'[c].status = "none"
            \/ /\ proc'[c].state = "zombie" /\ proc'[c].status \in {"zero", "nonzero"}
               /\ proc'[c].status = "zero" => proc'[c].runs # "caller"
         /\ proc'[c].fd = proc[c].fd /\ (proc'[c].runs = "copy" => proc[c].fd # 0)
         /\ \A d \in Child \ {c} : proc'[d] = proc[d]
<1>1. proc[c] \in Proc /\ proc \in [Child -> Proc]
  BY DEF TypeOK
<1>2. CASE Exec(c)
  <2> DEFINE new == [proc[c] EXCEPT !.state = "runs", !.runs = "command"]
  <2>1. /\ new \in Proc /\ new.state = "runs" /\ new.runs = "command"
        /\ new.status = proc[c].status /\ proc[c].status = "none" /\ new.fd = proc[c].fd
    BY <1>1, <1>2 DEF Proc, Exec, Children
  <2>2. proc' = [proc EXCEPT ![c] = new]
    BY <1>2 DEF Exec
  <2> HIDE DEF new
  <2>3. QED
    BY <1>1, <1>2, <2>1, <2>2 DEF Exec
<1>3. CASE ExecFails(c)
  <2> DEFINE new == [proc[c] EXCEPT !.state = "zombie", !.status = "nonzero"]
  <2>1. /\ new \in Proc /\ new.state = "zombie" /\ new.status = "nonzero"
        /\ new.fd = proc[c].fd /\ new.runs = proc[c].runs
        /\ proc[c].runs = "copy" => proc[c].fd # 0
    BY <1>1 DEF Proc, Children
  <2>2. proc' = [proc EXCEPT ![c] = new]
    BY <1>3 DEF ExecFails
  <2> HIDE DEF new
  <2>3. QED
    BY <1>1, <1>3, <2>1, <2>2 DEF ExecFails
<1>4. CASE Dup2Fails(c)
  <2> DEFINE new == [proc[c] EXCEPT !.state = "runs", !.runs = "copy"]
  <2>1. /\ new \in Proc /\ new.state = "runs" /\ new.runs = "copy"
        /\ new.status = proc[c].status /\ proc[c].status = "none" /\ new.fd = proc[c].fd
    BY <1>1, <1>4 DEF Proc, Dup2Fails, Children
  <2>2. proc' = [proc EXCEPT ![c] = new]
    BY <1>4 DEF Dup2Fails
  <2> HIDE DEF new
  <2>3. QED
    BY <1>1, <1>4, <2>1, <2>2 DEF Dup2Fails
<1>5. CASE Ends(c)
  <2>1. PICK s \in {"zero", "nonzero"} :
          proc' = [proc EXCEPT ![c].state = "zombie", ![c].status = s]
    BY <1>5 DEF Ends
  <2> DEFINE new == [proc[c] EXCEPT !.state = "zombie", !.status = s]
  <2>2. /\ new \in Proc /\ new.state = "zombie" /\ new.status = s
        /\ new.runs = proc[c].runs /\ proc[c].runs # "caller"
        /\ new.fd = proc[c].fd /\ (proc[c].runs = "copy" => proc[c].fd # 0)
    BY <1>1, <1>5 DEF Proc, Ends, Children
  <2>3. proc' = [proc EXCEPT ![c] = new]
    BY <2>1
  <2> HIDE DEF new
  <2>4. QED
    BY <1>1, <1>5, <2>2, <2>3 DEF Ends
<1>6. QED
  BY <1>2, <1>3, <1>4, <1>5 DEF Runs

\* A call that waits takes a child that has ended, and returns.
LEMMA WaitTakes ==
  ASSUME TypeOK, NEW t \in Thread, Wait(t) \/ WaitForShell(t)
  PROVE  \E c \in Zombies :
           /\ c \in Child /\ Reap(c)
           /\ \/ pc[t] = "wait" /\ Return(t, Succeeded(t, c))
              \/ pc[t] = "waitpid" /\ Return(t, "true")
           /\ UNCHANGED <<kind, fd, file, pid, forks, lost>>
BY DEF Wait, WaitForShell, Zombies

-----------------------------------------------------------------------------
(***************************************************************************)
(* Each step preserves each part of the invariant.                         *)
(***************************************************************************)

\* No call has been made and there is no child.
LEMMA Initially == ASSUME CallsAssumption, Init PROVE IInv
<1>1. TypeOK
  <2>1. NotMade \in Proc
    BY DEF NotMade, Proc
  <2>2. proc \in [Child -> Proc]
    BY <2>1 DEF Init
  <2>3. forks \in 0 .. MaxForks /\ lost \in Nat
    BY DEF Init, CallsAssumption
  <2>4. QED
    BY <2>2, <2>3 DEF Init, TypeOK
<1>2. Calls /\ Inherits /\ ForkCloses /\ TookOwn
  BY DEF Init, Calls, Inherits, ForkCloses, TookOwn, NoChild
<1>3. Children
  BY DEF Init, Children, NotMade, Child, CallsAssumption
<1>4. ChildrenAccounted
  <2>1. Unreaped = {} /\ Waiting = {}
    BY DEF Init, Unreaped, Waiting, NotMade
  <2>2. QED
    BY <2>1, FS_EmptySet DEF ChildrenAccounted, Init
<1>5. QED
  BY <1>1, <1>2, <1>3, <1>4 DEF IInv

\* The types are preserved.
LEMMA TypeStep ==
  ASSUME CallsAssumption, IInv, [Next]_vars PROVE TypeOK'
<1> USE DEF IInv, TypeOK, vars, tvars
<1>1. ASSUME NEW t \in Thread, Call(t) PROVE TypeOK'
  BY <1>1 DEF Call, Goto
<1>2. ASSUME NEW t \in Thread, OpenOutput(t) PROVE TypeOK'
  BY <1>2 DEF OpenOutput, Goto
<1>3. ASSUME NEW t \in Thread, OpenNothing(t) PROVE TypeOK'
  BY <1>3 DEF OpenNothing, Goto
<1>4. ASSUME NEW t \in Thread, OpenFails(t) PROVE TypeOK'
  BY <1>4 DEF OpenFails, Return, Goto
<1>5. ASSUME NEW t \in Thread, Fork(t) PROVE TypeOK'
  <2>1. forks + 1 \in Child /\ forks' \in 0 .. MaxForks /\ proc' \in [Child -> Proc]
    BY <1>5, ForkMakes DEF Child, CallsAssumption
  <2>2. QED
    BY <1>5, <2>1 DEF Fork, Goto
<1>6. ASSUME NEW t \in Thread, ForkFails(t) PROVE TypeOK'
  BY <1>6 DEF ForkFails, Return, Goto
<1>7. ASSUME NEW t \in Thread, Wait(t) \/ WaitForShell(t) PROVE TypeOK'
  <2>1. PICK c \in Zombies :
          /\ c \in Child /\ Reap(c)
          /\ \/ pc[t] = "wait" /\ Return(t, Succeeded(t, c))
             \/ pc[t] = "waitpid" /\ Return(t, "true")
          /\ UNCHANGED <<kind, fd, file, pid, forks, lost>>
    BY <1>7, WaitTakes
  <2>2. proc' \in [Child -> Proc]
    BY <2>1, ReapTakes
  <2>3. QED
    BY <2>1, <2>2 DEF Return, Goto, Succeeded
<1>8. ASSUME NEW t \in Thread, WaitFails(t) PROVE TypeOK'
  BY <1>8 DEF WaitFails, Return, Goto
<1>9. ASSUME NEW t \in Thread, ShellTaken(t) PROVE TypeOK'
  BY <1>9 DEF ShellTaken, Return, Goto
<1>10. ASSUME NEW c \in Child, Runs(c) PROVE TypeOK'
  BY <1>10, ChildMoves
<1>11. CASE UNCHANGED vars
  BY <1>11
<1>12. QED
  BY <1>1, <1>2, <1>3, <1>4, <1>5, <1>6, <1>7, <1>8, <1>9, <1>10, <1>11
  DEF Next, Running

\* A thread has a child from its fork on.
LEMMA CallsStep ==
  ASSUME CallsAssumption, IInv, [Next]_vars PROVE Calls'
<1> USE DEF IInv, Calls, TypeOK, NoChild, vars, tvars
<1>1. ASSUME NEW t \in Thread, Call(t) PROVE Calls'
  BY <1>1 DEF Call, Goto
<1>2. ASSUME NEW t \in Thread, OpenOutput(t) PROVE Calls'
  BY <1>2 DEF OpenOutput, Goto
<1>3. ASSUME NEW t \in Thread, OpenNothing(t) PROVE Calls'
  BY <1>3 DEF OpenNothing, Goto
<1>4. ASSUME NEW t \in Thread, OpenFails(t) PROVE Calls'
  BY <1>4 DEF OpenFails, Return, Goto
<1>5. ASSUME NEW t \in Thread, Fork(t) PROVE Calls'
  <2>1. forks' = forks + 1 /\ forks \in Nat /\ forks + 1 # 0
    BY <1>5, ForkMakes DEF CallsAssumption
  <2>2. \A u \in Thread : pid[u] \in Nat
    BY DEF Child
  <2>3. QED
    BY <1>5, <2>1, <2>2 DEF Fork, Goto
<1>6. ASSUME NEW t \in Thread, ForkFails(t) PROVE Calls'
  BY <1>6 DEF ForkFails, Return, Goto
<1>7. ASSUME NEW t \in Thread, Wait(t) \/ WaitForShell(t) PROVE Calls'
  <2>1. PICK c \in Zombies :
          /\ c \in Child /\ Reap(c)
          /\ \/ pc[t] = "wait" /\ Return(t, Succeeded(t, c))
             \/ pc[t] = "waitpid" /\ Return(t, "true")
          /\ UNCHANGED <<kind, fd, file, pid, forks, lost>>
    BY <1>7, WaitTakes
  <2>2. QED
    BY <2>1 DEF Return, Goto
<1>8. ASSUME NEW t \in Thread, WaitFails(t) PROVE Calls'
  BY <1>8 DEF WaitFails, Return, Goto
<1>9. ASSUME NEW t \in Thread, ShellTaken(t) PROVE Calls'
  BY <1>9 DEF ShellTaken, Return, Goto
<1>10. ASSUME NEW c \in Child, Runs(c) PROVE Calls'
  BY <1>10, ChildMoves
<1>11. CASE UNCHANGED vars
  BY <1>11
<1>12. QED
  BY <1>1, <1>2, <1>3, <1>4, <1>5, <1>6, <1>7, <1>8, <1>9, <1>10, <1>11
  DEF Next, Running

\* Children end after they have run something, or without success.
LEMMA ChildrenStep ==
  ASSUME CallsAssumption, IInv, [Next]_vars PROVE Children'
<1> USE DEF IInv, Children, TypeOK, vars, tvars
<1>1. ASSUME NEW t \in Thread, Call(t) PROVE Children'
  BY <1>1 DEF Call, Goto
<1>2. ASSUME NEW t \in Thread, OpenOutput(t) PROVE Children'
  BY <1>2 DEF OpenOutput, Goto
<1>3. ASSUME NEW t \in Thread, OpenNothing(t) PROVE Children'
  BY <1>3 DEF OpenNothing, Goto
<1>4. ASSUME NEW t \in Thread, OpenFails(t) PROVE Children'
  BY <1>4 DEF OpenFails, Return, Goto
<1>5. ASSUME NEW t \in Thread, Fork(t) PROVE Children'
  <2>1. /\ forks + 1 \in Child /\ forks' = forks + 1
        /\ proc'[forks + 1].state \in {"forked", "runs"}
        /\ proc'[forks + 1].status = "none"
        /\ proc'[forks + 1].state = "runs" => proc'[forks + 1].runs = "command"
        /\ proc'[forks + 1].runs # "copy"
        /\ \A d \in Child \ {forks + 1} : proc'[d] = proc[d]
    BY <1>5, ForkMakes
  <2>2. forks \in Nat /\ \A d \in Child : d \in Nat
    BY DEF Child, CallsAssumption
  <2>3. QED
    BY <2>1, <2>2
<1>6. ASSUME NEW t \in Thread, ForkFails(t) PROVE Children'
  BY <1>6 DEF ForkFails, Return, Goto
<1>7. ASSUME NEW t \in Thread, Wait(t) \/ WaitForShell(t) PROVE Children'
  <2>1. PICK c \in Zombies :
          /\ c \in Child /\ Reap(c)
          /\ \/ pc[t] = "wait" /\ Return(t, Succeeded(t, c))
             \/ pc[t] = "waitpid" /\ Return(t, "true")
          /\ UNCHANGED <<kind, fd, file, pid, forks, lost>>
    BY <1>7, WaitTakes
  <2>2. /\ proc'[c].state = "reaped"
        /\ proc'[c].status = proc[c].status /\ proc'[c].runs = proc[c].runs
        /\ proc'[c].fd = proc[c].fd
        /\ \A d \in Child \ {c} : proc'[d] = proc[d]
    BY <2>1, ReapTakes
  <2>3. proc[c].state = "zombie" /\ forks' = forks
    BY <2>1 DEF Zombies
  <2>4. QED
    BY <2>2, <2>3
<1>8. ASSUME NEW t \in Thread, WaitFails(t) PROVE Children'
  BY <1>8 DEF WaitFails, Return, Goto
<1>9. ASSUME NEW t \in Thread, ShellTaken(t) PROVE Children'
  BY <1>9 DEF ShellTaken, Return, Goto
<1>10. ASSUME NEW c \in Child, Runs(c) PROVE Children'
  <2>1. /\ proc[c].state \in {"forked", "runs"} /\ forks' = forks
        /\ \/ /\ proc'[c].state = "runs" /\ proc'[c].runs # "caller"
              /\ proc'[c].status = "none"
           \/ /\ proc'[c].state = "zombie" /\ proc'[c].status \in {"zero", "nonzero"}
              /\ proc'[c].status = "zero" => proc'[c].runs # "caller"
        /\ proc'[c].fd = proc[c].fd /\ (proc'[c].runs = "copy" => proc[c].fd # 0)
        /\ \A d \in Child \ {c} : proc'[d] = proc[d]
    BY <1>10, ChildMoves
  <2>2. QED
    BY <2>1
<1>11. CASE UNCHANGED vars
  BY <1>11
<1>12. QED
  BY <1>1, <1>2, <1>3, <1>4, <1>5, <1>6, <1>7, <1>8, <1>9, <1>10, <1>11
  DEF Next, Running

\* fork copies the descriptor, and nothing changes it from then on.
LEMMA InheritsStep ==
  ASSUME CallsAssumption, IInv, [Next]_vars PROVE Inherits'
<1> USE DEF IInv, Inherits, Calls, TypeOK, NoChild, vars, tvars
<1>1. ASSUME NEW t \in Thread, Call(t) PROVE Inherits'
  BY <1>1 DEF Call, Goto
<1>2. ASSUME NEW t \in Thread, OpenOutput(t) PROVE Inherits'
  BY <1>2 DEF OpenOutput, Goto
<1>3. ASSUME NEW t \in Thread, OpenNothing(t) PROVE Inherits'
  BY <1>3 DEF OpenNothing, Goto
<1>4. ASSUME NEW t \in Thread, OpenFails(t) PROVE Inherits'
  BY <1>4 DEF OpenFails, Return, Goto
<1>5. ASSUME NEW t \in Thread, Fork(t) PROVE Inherits'
  <2>1. /\ forks + 1 \in Child /\ proc'[forks + 1].fd = fd[t]
        /\ \A d \in Child \ {forks + 1} : proc'[d] = proc[d]
    BY <1>5, ForkMakes
  <2>2. \A u \in Thread : pid[u] # NoChild => pid[u] \in Child \ {forks + 1}
    BY DEF Child, CallsAssumption
  <2>3. fd' = fd /\ pid'[t] = forks + 1 /\ \A u \in Thread \ {t} : pid'[u] = pid[u]
    BY <1>5 DEF Fork
  <2>4. QED
    BY <2>1, <2>2, <2>3
<1>6. ASSUME NEW t \in Thread, ForkFails(t) PROVE Inherits'
  BY <1>6 DEF ForkFails, Return, Goto
<1>7. ASSUME NEW t \in Thread, Wait(t) \/ WaitForShell(t) PROVE Inherits'
  <2>1. PICK c \in Zombies : /\ c \in Child /\ Reap(c) /\ UNCHANGED <<fd, pid>>
    BY <1>7, WaitTakes
  <2>2. \A d \in Child : proc'[d].fd = proc[d].fd
    BY <2>1, ReapTakes
  <2>3. QED
    BY <2>1, <2>2
<1>8. ASSUME NEW t \in Thread, WaitFails(t) PROVE Inherits'
  BY <1>8 DEF WaitFails, Return, Goto
<1>9. ASSUME NEW t \in Thread, ShellTaken(t) PROVE Inherits'
  BY <1>9 DEF ShellTaken, Return, Goto
<1>10. ASSUME NEW c \in Child, Runs(c) PROVE Inherits'
  <2>1. UNCHANGED <<fd, pid>> /\ \A d \in Child : proc'[d].fd = proc[d].fd
    BY <1>10, ChildMoves
  <2>2. QED
    BY <2>1
<1>11. CASE UNCHANGED vars
  BY <1>11
<1>12. QED
  BY <1>1, <1>2, <1>3, <1>4, <1>5, <1>6, <1>7, <1>8, <1>9, <1>10, <1>11
  DEF Next, Running

\* fork leaves no file open but one with descriptor 0.
LEMMA FileStep ==
  ASSUME CallsAssumption, IInv, [Next]_vars PROVE ForkCloses'
<1> USE DEF IInv, ForkCloses, Calls, TypeOK, NoChild, vars, tvars
<1>1. ASSUME NEW t \in Thread, Call(t) PROVE ForkCloses'
  BY <1>1 DEF Call, Goto
<1>2. ASSUME NEW t \in Thread, OpenOutput(t) PROVE ForkCloses'
  BY <1>2 DEF OpenOutput, Goto
<1>3. ASSUME NEW t \in Thread, OpenNothing(t) PROVE ForkCloses'
  BY <1>3 DEF OpenNothing, Goto
<1>4. ASSUME NEW t \in Thread, OpenFails(t) PROVE ForkCloses'
  BY <1>4 DEF OpenFails, Return, Goto
<1>5. ASSUME NEW t \in Thread, Fork(t) PROVE ForkCloses'
  BY <1>5 DEF Fork, Goto, ClosesFile
<1>6. ASSUME NEW t \in Thread, ForkFails(t) PROVE ForkCloses'
  BY <1>6 DEF ForkFails, Return, Goto
<1>7. ASSUME NEW t \in Thread, Wait(t) \/ WaitForShell(t) PROVE ForkCloses'
  <2>1. PICK c \in Zombies :
          /\ c \in Child /\ Reap(c)
          /\ \/ pc[t] = "wait" /\ Return(t, Succeeded(t, c))
             \/ pc[t] = "waitpid" /\ Return(t, "true")
          /\ UNCHANGED <<kind, fd, file, pid, forks, lost>>
    BY <1>7, WaitTakes
  <2>2. QED
    BY <2>1
<1>8. ASSUME NEW t \in Thread, WaitFails(t) PROVE ForkCloses'
  BY <1>8 DEF WaitFails, Return, Goto
<1>9. ASSUME NEW t \in Thread, ShellTaken(t) PROVE ForkCloses'
  BY <1>9 DEF ShellTaken, Return, Goto
<1>10. ASSUME NEW c \in Child, Runs(c) PROVE ForkCloses'
  BY <1>10, ChildMoves
<1>11. CASE UNCHANGED vars
  BY <1>11
<1>12. QED
  BY <1>1, <1>2, <1>3, <1>4, <1>5, <1>6, <1>7, <1>8, <1>9, <1>10, <1>11
  DEF Next, Running

\* Nothing happens to a child whose status has been taken.
LEMMA SuccessStep ==
  ASSUME CallsAssumption, IInv, [Next]_vars PROVE TookOwn'
<1> USE DEF IInv, TookOwn, Calls, TypeOK, vars, tvars
<1>1. ASSUME NEW t \in Thread, Call(t) PROVE TookOwn'
  <2>1. \A u \in Thread \ {t} : UNCHANGED <<kind[u], ret[u], pid[u]>>
    BY <1>1 DEF Call
  <2>2. ret'[t] = "none" /\ proc' = proc
    BY <1>1 DEF Call
  <2>3. QED
    BY <2>1, <2>2
<1>2. ASSUME NEW t \in Thread, OpenOutput(t) PROVE TookOwn'
  BY <1>2 DEF OpenOutput, Goto
<1>3. ASSUME NEW t \in Thread, OpenNothing(t) PROVE TookOwn'
  BY <1>3 DEF OpenNothing, Goto
<1>4. ASSUME NEW t \in Thread, OpenFails(t) PROVE TookOwn'
  BY <1>4 DEF OpenFails, Return, Goto
<1>5. ASSUME NEW t \in Thread, Fork(t) PROVE TookOwn'
  <2>1. /\ forks + 1 \in Child
        /\ \A d \in Child \ {forks + 1} : proc'[d] = proc[d]
    BY <1>5, ForkMakes
  <2>2. proc[forks + 1].state = "none"
    BY <2>1 DEF Children, Child, CallsAssumption
  <2>3. SUFFICES ASSUME NEW u \in Thread, kind'[u] # "system", ret'[u] = "true"
                 PROVE  /\ pid'[u] # NoChild /\ proc'[pid'[u]].state = "reaped"
                        /\ proc'[pid'[u]].status = "zero" /\ proc'[pid'[u]].runs # "caller"
    BY DEF TookOwn
  <2>4. u # t /\ kind[u] # "system" /\ ret[u] = "true" /\ pid'[u] = pid[u]
    BY <1>5, <2>3 DEF Fork
  <2>5. /\ pid[u] # NoChild /\ proc[pid[u]].state = "reaped"
        /\ proc[pid[u]].status = "zero" /\ proc[pid[u]].runs # "caller"
    BY <2>4
  <2>6. pid[u] \in Child \ {forks + 1}
    BY <2>2, <2>5
  <2>7. QED
    BY <2>1, <2>4, <2>5, <2>6
<1>6. ASSUME NEW t \in Thread, ForkFails(t) PROVE TookOwn'
  BY <1>6 DEF ForkFails, Return, Goto
<1>7. ASSUME NEW t \in Thread, Wait(t) \/ WaitForShell(t) PROVE TookOwn'
  <2>1. PICK c \in Zombies :
          /\ c \in Child /\ Reap(c)
          /\ \/ pc[t] = "wait" /\ Return(t, Succeeded(t, c))
             \/ pc[t] = "waitpid" /\ Return(t, "true")
          /\ UNCHANGED <<kind, fd, file, pid, forks, lost>>
    BY <1>7, WaitTakes
  <2>2. /\ proc'[c].state = "reaped"
        /\ proc'[c].status = proc[c].status /\ proc'[c].runs = proc[c].runs
        /\ \A d \in Child \ {c} : proc'[d] = proc[d]
    BY <2>1, ReapTakes
  <2>3. proc[c].state = "zombie" /\ c # NoChild
    BY <2>1 DEF Zombies, Child, NoChild
  <2>4. SUFFICES ASSUME NEW u \in Thread, kind'[u] # "system", ret'[u] = "true"
                 PROVE  /\ pid'[u] # NoChild /\ proc'[pid'[u]].state = "reaped"
                        /\ proc'[pid'[u]].status = "zero" /\ proc'[pid'[u]].runs # "caller"
    BY DEF TookOwn
  <2>5. kind[u] # "system" /\ pid'[u] = pid[u]
    BY <2>1, <2>4
  <2>6. CASE u = t
    <3>1. pc[t] = "wait" /\ ret' = [ret EXCEPT ![t] = Succeeded(t, c)]
      BY <2>1, <2>5, <2>6 DEF Return
    <3>2. Succeeded(t, c) = "true"
      BY <2>4, <2>6, <3>1
    <3>3. c = pid[t] /\ proc[c].status = "zero"
      BY <3>2 DEF Succeeded
    <3>4. proc[c].runs # "caller"
      BY <2>1, <3>3 DEF Children
    <3>5. QED
      BY <2>2, <2>3, <2>5, <2>6, <3>3, <3>4
  <2>7. CASE u # t
    <3>1. ret[u] = "true"
      BY <2>1, <2>4, <2>7 DEF Return
    <3>2. /\ pid[u] # NoChild /\ proc[pid[u]].state = "reaped"
          /\ proc[pid[u]].status = "zero" /\ proc[pid[u]].runs # "caller"
      BY <2>5, <3>1
    <3>3. pid[u] \in Child \ {c}
      BY <2>3, <3>2
    <3>4. QED
      BY <2>2, <2>5, <3>2, <3>3
  <2>8. QED
    BY <2>6, <2>7
<1>8. ASSUME NEW t \in Thread, WaitFails(t) PROVE TookOwn'
  BY <1>8 DEF WaitFails, Return, Goto
<1>9. ASSUME NEW t \in Thread, ShellTaken(t) PROVE TookOwn'
  BY <1>9 DEF ShellTaken, Return, Goto
<1>10. ASSUME NEW c \in Child, Runs(c) PROVE TookOwn'
  <2>1. /\ proc[c].state \in {"forked", "runs"} /\ UNCHANGED tvars
        /\ \A d \in Child \ {c} : proc'[d] = proc[d]
    BY <1>10, ChildMoves
  <2>2. \A u \in Thread : pid[u] # NoChild /\ proc[pid[u]].state = "reaped" =>
          proc'[pid[u]] = proc[pid[u]]
    BY <2>1
  <2>3. QED
    BY <2>1, <2>2
<1>11. CASE UNCHANGED vars
  BY <1>11
<1>12. QED
  BY <1>1, <1>2, <1>3, <1>4, <1>5, <1>6, <1>7, <1>8, <1>9, <1>10, <1>11
  DEF Next, Running

\* A call gains a child to wait for with its fork, and takes one status when it
\* returns or adds to the lost.
LEMMA AccountStep ==
  ASSUME CallsAssumption, IInv, [Next]_vars PROVE ChildrenAccounted'
<1> USE DEF IInv, ChildrenAccounted, TypeOK, vars, tvars
<1>1. ASSUME NEW t \in Thread, Call(t) PROVE ChildrenAccounted'
  <2>1. Unreaped' = Unreaped /\ Waiting' = Waiting /\ lost' = lost
    BY <1>1 DEF Call, Goto, Unreaped, Waiting
  <2>2. QED
    BY <2>1
<1>2. ASSUME NEW t \in Thread, OpenOutput(t) PROVE ChildrenAccounted'
  <2>1. Unreaped' = Unreaped /\ Waiting' = Waiting /\ lost' = lost
    BY <1>2 DEF OpenOutput, Goto, Unreaped, Waiting
  <2>2. QED
    BY <2>1
<1>3. ASSUME NEW t \in Thread, OpenNothing(t) PROVE ChildrenAccounted'
  <2>1. Unreaped' = Unreaped /\ Waiting' = Waiting /\ lost' = lost
    BY <1>3 DEF OpenNothing, Goto, Unreaped, Waiting
  <2>2. QED
    BY <2>1
<1>4. ASSUME NEW t \in Thread, OpenFails(t) PROVE ChildrenAccounted'
  <2>1. Unreaped' = Unreaped /\ Waiting' = Waiting /\ lost' = lost
    BY <1>4 DEF OpenFails, Return, Goto, Unreaped, Waiting
  <2>2. QED
    BY <2>1
<1>5. ASSUME NEW t \in Thread, Fork(t) PROVE ChildrenAccounted'
  <2>1. /\ forks + 1 \in Child
        /\ proc'[forks + 1].state \in {"forked", "runs"}
        /\ \A d \in Child \ {forks + 1} : proc'[d] = proc[d]
    BY <1>5, ForkMakes
  <2>2. proc[forks + 1].state = "none"
    BY <2>1 DEF Children, Child, CallsAssumption
  <2>3. forks + 1 \notin Unreaped /\ Unreaped' = Unreaped \cup {forks + 1}
    BY <2>1, <2>2 DEF Unreaped
  <2>4. t \notin Waiting /\ Waiting' = Waiting \cup {t} /\ lost' = lost
    BY <1>5 DEF Fork, Goto, Waiting
  <2>5. Cardinality(Unreaped') = Cardinality(Unreaped) + 1
    BY <2>3, Countable, OneMore
  <2>6. Cardinality(Waiting') = Cardinality(Waiting) + 1
    BY <2>4, Countable, OneMore
  <2>7. QED
    BY <2>4, <2>5, <2>6, Countable
<1>6. ASSUME NEW t \in Thread, ForkFails(t) PROVE ChildrenAccounted'
  <2>1. Unreaped' = Unreaped /\ Waiting' = Waiting /\ lost' = lost
    BY <1>6 DEF ForkFails, Return, Goto, Unreaped, Waiting
  <2>2. QED
    BY <2>1
<1>7. ASSUME NEW t \in Thread, Wait(t) \/ WaitForShell(t) PROVE ChildrenAccounted'
  <2>1. PICK c \in Zombies :
          /\ c \in Child /\ Reap(c)
          /\ \/ pc[t] = "wait" /\ Return(t, Succeeded(t, c))
             \/ pc[t] = "waitpid" /\ Return(t, "true")
          /\ UNCHANGED <<kind, fd, file, pid, forks, lost>>
    BY <1>7, WaitTakes
  <2>2. /\ proc'[c].state = "reaped"
        /\ \A d \in Child \ {c} : proc'[d] = proc[d]
    BY <2>1, ReapTakes
  <2>3. c \in Unreaped /\ Unreaped' = Unreaped \ {c}
    BY <2>1, <2>2 DEF Unreaped, Zombies
  <2>4. t \in Waiting /\ Waiting' = Waiting \ {t} /\ lost' = lost
    BY <2>1 DEF Waiting, Return, Goto
  <2>5. Cardinality(Unreaped') = Cardinality(Unreaped) - 1
    BY <2>3, Countable, OneLess
  <2>6. Cardinality(Waiting') = Cardinality(Waiting) - 1
    BY <2>4, Countable, OneLess
  <2>7. QED
    BY <2>4, <2>5, <2>6, Countable
<1>8. ASSUME NEW t \in Thread, WaitFails(t) PROVE ChildrenAccounted'
  <2>1. t \in Waiting /\ Waiting' = Waiting \ {t}
    BY <1>8 DEF WaitFails, Return, Goto, Waiting
  <2>2. Unreaped' = Unreaped /\ lost' = lost + 1
    BY <1>8 DEF WaitFails, Return, Goto, Unreaped
  <2>3. Cardinality(Waiting') = Cardinality(Waiting) - 1
    BY <2>1, Countable, OneLess
  <2>4. QED
    BY <2>2, <2>3, Countable
<1>9. ASSUME NEW t \in Thread, ShellTaken(t) PROVE ChildrenAccounted'
  <2>1. t \in Waiting /\ Waiting' = Waiting \ {t}
    BY <1>9 DEF ShellTaken, Return, Goto, Waiting
  <2>2. Unreaped' = Unreaped /\ lost' = lost + 1
    BY <1>9 DEF ShellTaken, Return, Goto, Unreaped
  <2>3. Cardinality(Waiting') = Cardinality(Waiting) - 1
    BY <2>1, Countable, OneLess
  <2>4. QED
    BY <2>2, <2>3, Countable
<1>10. ASSUME NEW c \in Child, Runs(c) PROVE ChildrenAccounted'
  <2>1. /\ proc[c].state \in {"forked", "runs"} /\ proc'[c].state \in {"runs", "zombie"}
        /\ \A d \in Child \ {c} : proc'[d] = proc[d]
    BY <1>10, ChildMoves
  <2>2. Unreaped' = Unreaped
    BY <2>1 DEF Unreaped
  <2>3. Waiting' = Waiting /\ lost' = lost
    BY <1>10, ChildMoves DEF Waiting
  <2>4. QED
    BY <2>2, <2>3
<1>11. CASE UNCHANGED vars
  BY <1>11 DEF Unreaped, Waiting
<1>12. QED
  BY <1>1, <1>2, <1>3, <1>4, <1>5, <1>6, <1>7, <1>8, <1>9, <1>10, <1>11
  DEF Next, Running

LEMMA Invariance == Spec => []IInv
<1>1. Init => IInv
  BY CallsAssumption, Initially
<1>2. IInv /\ [Next]_vars => IInv'
  BY CallsAssumption, TypeStep, CallsStep, ChildrenStep, InheritsStep, FileStep, SuccessStep,
     AccountStep
  DEF IInv
<1>3. QED
  BY <1>1, <1>2, PTL DEF Spec

-----------------------------------------------------------------------------
\* The types of the threads' variables and of the children.
THEOREM CallsTypeCorrect == Spec => []TypeOK
<1>1. IInv => TypeOK
  BY DEF IInv
<1>2. QED
  BY <1>1, Invariance, PTL

\* Whatever child wait gives a call, the call reports success for its own alone,
\* which has ended with status zero and ran the command; only a call that
\* redirects may take for it a child that went on as a copy of the caller
\* (systemcalls.c:91-120, 167-171, 189-217).
THEOREM SuccessIsForOwnChild == Spec => []SuccessIsOwn
<1>1. ASSUME IInv PROVE SuccessIsOwn
  <2>1. SUFFICES ASSUME NEW t \in Thread, kind[t] # "system", ret[t] = "true"
                 PROVE  \/ proc[pid[t]].runs = "command"
                        \/ proc[pid[t]].runs = "copy" /\ kind[t] = "redirect" /\ fd[t] # 0
    BY <1>1 DEF IInv, TookOwn, SuccessIsOwn
  <2>2. pid[t] # NoChild /\ proc[pid[t]].runs # "caller"
    BY <1>1, <2>1 DEF IInv, TookOwn
  <2>3. pid[t] \in Child /\ proc[pid[t]].runs \in {"caller", "command", "copy"}
    BY <1>1, <2>2 DEF IInv, TypeOK, Proc
  <2>4. proc[pid[t]].runs = "copy" => fd[t] # 0
    BY <1>1, <2>2, <2>3 DEF IInv, Children, Inherits
  <2>5. fd[t] # 0 => kind[t] = "redirect"
    BY <1>1 DEF IInv, Calls
  <2>6. QED
    BY <2>2, <2>3, <2>4, <2>5
<1>2. QED
  BY <1>1, Invariance, PTL

\* As many children are left as calls wait and calls have returned without one,
\* for any number of threads (systemcalls.c:94, 191).
THEOREM ChildrenAreAccounted == Spec => []ChildrenAccounted
<1>1. IInv => ChildrenAccounted
  BY DEF IInv
<1>2. QED
  BY <1>1, Invariance, PTL

\* The promise of systemcalls.c:125, that the output file is closed at completion
\* of the call, fails after a fork that failed and for a file with descriptor 0,
\* and in no other case (systemcalls.c:180-187).
THEOREM OutputFileClosed ==
  Spec => [](\A t \in Thread : pc[t] = "idle" /\ file[t] => pid[t] = NoChild \/ fd[t] = 0)
<1>1. IInv => \A t \in Thread : pc[t] = "idle" /\ file[t] => pid[t] = NoChild \/ fd[t] = 0
  BY DEF IInv, ForkCloses
<1>2. QED
  BY <1>1, Invariance, PTL

\* wait is never called without a child to find: a call that waits has one, its
\* own or another's (systemcalls.c:94, 191).
THEOREM WaitFindsAChild == Spec => [](Waiting # {} => Unreaped # {})
<1>1. ASSUME CallsAssumption, IInv PROVE Waiting # {} => Unreaped # {}
  <2>1. SUFFICES ASSUME Waiting # {}, Unreaped = {} PROVE FALSE
    OBVIOUS
  <2>2. Cardinality(Unreaped) = 0
    BY <2>1, FS_EmptySet
  <2>3. Cardinality(Waiting) # 0
    BY <1>1, <2>1, Countable, FS_EmptySet
  <2>4. QED
    BY <1>1, <2>2, <2>3, Countable DEF IInv, ChildrenAccounted, TypeOK
<1>2. QED
  BY <1>1, CallsAssumption, Invariance, PTL
=============================================================================
