----------------------------- MODULE MCTransfer -----------------------------
(***************************************************************************)
(* Transfer for TLC: three bytes to a block and seven to the file, so that *)
(* a transfer from offset 1, 4 or 7 fills its last block and one from      *)
(* elsewhere does not.                                                     *)
(***************************************************************************)
EXTENDS Transfer
=============================================================================
