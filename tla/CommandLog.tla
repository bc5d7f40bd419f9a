----------------------------- MODULE CommandLog -----------------------------
(***************************************************************************)
(* What the circular buffer promises: a log of the most recent commands,   *)
(* oldest first, that forgets the oldest one when a command arrives and    *)
(* Capacity of them are already kept.                                      *)
(***************************************************************************)
EXTENDS Naturals, Sequences

CONSTANTS Capacity, Command

VARIABLE log

Recent(l) == IF Len(l) < Capacity THEN l ELSE Tail(l)

Init   == log = << >>
Add(c) == log' = Append(Recent(log), c)
Next   == \E c \in Command : Add(c)
Spec   == Init /\ [][Next]_log
=============================================================================
