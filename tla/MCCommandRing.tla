---------------------------- MODULE MCCommandRing ----------------------------
(***************************************************************************)
(* Model checking of CommandRing at the real capacity, with commands of    *)
(* one byte and of two.                                                    *)
(***************************************************************************)
EXTENDS CommandRing

CONSTANT Sizes      \* the lengths of the commands

MCCommands == [buffptr : Ptr, size : Sizes]
=============================================================================
