----------------------------- MODULE MCAesdChar -----------------------------
(***************************************************************************)
(* Model checking of the driver: small buffers of two bytes, a and the     *)
(* terminator.                                                             *)
(***************************************************************************)
EXTENDS AesdCharRefinement, TLC

CONSTANT a      \* a byte that is not the terminator

MCByte      == {a, NL}
WithTail    == {<<NL>>, <<NL, a>>, <<a, NL>>}
OneOfEach   == {<<a>>, <<NL>>}
TwoCommands == {<<NL, NL>>, <<a>>}

OneSeek   == {[write_cmd |-> 0, write_cmd_offset |-> 0]}
OneLlseek == {[off |-> 0, whence |-> "SEEK_SET"]}
MCSeeks   == [write_cmd : {0, 1, 2}, write_cmd_offset : {0, 1}]
HoleSeek  == {[off |-> 0, whence |-> "SEEK_HOLE"]}
MCLlseeks == [off : {-1, 0, 1}, whence : {"SEEK_SET", "SEEK_CUR", "SEEK_END"}]
AllLlseeks == MCLlseeks \cup HoleSeek

Symmetry == Permutations(Ptr) \cup Permutations(Proc)
=============================================================================
