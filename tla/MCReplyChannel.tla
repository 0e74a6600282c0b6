--------------------------- MODULE MCReplyChannel ---------------------------
(***************************************************************************)
(* ReplyChannel for TLC.                                                   *)
(***************************************************************************)
EXTENDS ReplyReader
=============================================================================
