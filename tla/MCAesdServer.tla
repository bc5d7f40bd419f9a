---------------------------- MODULE MCAesdServer ----------------------------
(***************************************************************************)
(* Model checking of the server: every call may fail.                      *)
(***************************************************************************)
EXTENDS AesdServer

MCFaults == FaultNames
=============================================================================
