--------------------------- MODULE MCConnectionIO ---------------------------
(***************************************************************************)
(* Model checking of a worker's input and output: blocks of eight bytes,   *)
(* which grow when less than two are free, pieces of three, and streams    *)
(* that end a line within, at and beyond the end of a block.               *)
(***************************************************************************)
EXTENDS ConnectionIO

CONSTANTS a, b

MCByte == {a, b, NL, Key}

\* Lines that fill one block or two, a line that is followed by others, seeks
\* within and at the end of a block, and a stream that ends within a line.
MCStreams ==
  { <<a, b, a, a, b, b, a, NL, b, NL>>,
    <<a, b, b, a, a, b, a, b, a, a, b, a, b, b, b, NL>>,
    <<Key, NL, a, b, NL, b, NL>>,
    <<Key, a, b, a, b, a, b, NL, a, NL>>,
    <<b, NL, Key, NL, a, NL, b>> }

MCStored == { << >>, <<a, NL, b, b, NL>> }
=============================================================================
