------------------------------ MODULE MCServer ------------------------------
(***************************************************************************)
(* Server for TLC: sessions are interchangeable and so are descriptors.    *)
(***************************************************************************)
EXTENDS Server, TLC

ServerSymmetry == Permutations(Sessions) \cup Permutations(Fds)
=============================================================================
