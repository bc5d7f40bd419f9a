---------------------------- MODULE CommandDevice ----------------------------
(***************************************************************************)
(* What the driver promises its writers: one pending command that every    *)
(* write extends, and a log of the last Capacity complete ones.  A command *)
(* enters the log when its terminator has arrived, whole and alone; a      *)
(* complete command is not extended.                                       *)
(***************************************************************************)
EXTENDS Naturals, Sequences

CONSTANTS Capacity, Byte, NL, Chunks

VARIABLES log, pending

dvars == <<log, pending>>

Complete(c) == Len(c) > 0 /\ c[Len(c)] = NL
Piece(c)    == Len(c) > 0 /\ \A i \in 1 .. Len(c) - 1 : c[i] # NL
Recent(l)   == IF Len(l) < Capacity THEN l ELSE Tail(l)

Init == log = << >> /\ pending = << >>

Extend == /\ ~Complete(pending)
          /\ \E c \in Chunks : Piece(c) /\ pending' = pending \o c
          /\ UNCHANGED log

Commit == /\ Complete(pending)
          /\ log' = Append(Recent(log), pending)
          /\ pending' = << >>

Next == Extend \/ Commit
Spec == Init /\ [][Next]_dvars
=============================================================================
