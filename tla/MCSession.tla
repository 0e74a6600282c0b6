----------------------------- MODULE MCSession -----------------------------
(***************************************************************************)
(* Session for TLC: the handles are interchangeable.                       *)
(***************************************************************************)
EXTENDS SessionInv, TLC

HandleSymmetry == Permutations(Handles)

AllModes == {"PORT", "PASV"}
PortOnly == {"PORT"}
PasvOnly == {"PASV"}

NoFaults == {}
CallFaults == {"thread", "socket", "accept"}
AllFaults == {"thread", "socket", "accept", "spurious"}

=============================================================================
