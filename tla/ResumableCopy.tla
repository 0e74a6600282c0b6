--------------------------- MODULE ResumableCopy ---------------------------
(***************************************************************************)
(* What resuming a transfer promises: the copy is a beginning of the       *)
(* original at all times, however often the transfer is broken off and     *)
(* resumed; it shrinks only when it is given up to start over; and whoever *)
(* asked for it takes it for complete only when it is, or when something   *)
(* has been lost behind the backs of both ends.                            *)
(***************************************************************************)
EXTENDS Naturals, Sequences

CONSTANT Length   \* of the original, whose bytes are numbered

VARIABLES
  dst,    \* the copy so far
  told,   \* whoever copies takes the copy for complete
  lost    \* something has been lost that neither end could see

Beginning(n) == [i \in 1..n |-> i]

CopyInit == dst = <<>> /\ told = FALSE /\ lost = FALSE

Extend ==
  /\ ~told
  /\ \E n \in Len(dst)..Length : dst' = Beginning(n)
  /\ lost' \in BOOLEAN
  /\ UNCHANGED told

StartOver ==
  /\ ~told
  /\ dst' = <<>>
  /\ lost' \in BOOLEAN
  /\ UNCHANGED told

Conclude ==
  /\ ~told
  /\ dst = Beginning(Length) \/ lost
  /\ told' = TRUE
  /\ UNCHANGED <<dst, lost>>

CopySpec == CopyInit /\ [][Extend \/ StartOver \/ Conclude]_<<dst, told, lost>>

=============================================================================
