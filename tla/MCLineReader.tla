---------------------------- MODULE MCLineReader ----------------------------
(***************************************************************************)
(* LineReader for TLC: three bytes to a line buffer and three to a read,   *)
(* for the two buffers are equally large in the code.                      *)
(***************************************************************************)
EXTENDS LineReaderRefinement
=============================================================================
