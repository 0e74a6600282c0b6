--------------------------- MODULE MCFileCommands ---------------------------
(***************************************************************************)
(* FileCommands for TLC: two directories can be made, with one entry each, *)
(* so that one can be renamed to the other with what is in it.             *)
(***************************************************************************)
EXTENDS FileCommands, TLC

Interchangeable == Permutations(Sessions)

EntryNames == {"a", "b", "x"}
TwoByOne == {<<>>, <<"a">>, <<"b">>, <<"a", "x">>, <<"b", "x">>}

=============================================================================
