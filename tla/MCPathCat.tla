----------------------------- MODULE MCPathCat -----------------------------
(***************************************************************************)
(* PathCat for TLC: one letter, one character that is refused.             *)
(***************************************************************************)
EXTENDS PathCatRefinement

OneLetter == {"x"}
OneOther == {"*"}

=============================================================================
