------------------------- MODULE PathCatRefinement -------------------------
(***************************************************************************)
(* path_cat resolves paths by walking: PathCat implements PathWalk.  The   *)
(* names of a path are what stands between its slashes.                    *)
(***************************************************************************)
EXTENDS PathCat

\* The items that a character and what comes after it make, from those that this
\* makes: a slash stands after an empty one, and any other character is the first
\* of the item it stands before.
AddChar(ch, items) ==
  IF ch = Slash THEN <<<<>>>> \o items ELSE <<<<ch>> \o Head(items)>> \o Tail(items)

\* The items of the last k characters of s, for every k.
ItemsFromEnd(s) ==
  LET last[k \in 0..Len(s)] ==
        IF k = 0 THEN <<<<>>>> ELSE AddChar(s[Len(s) - k + 1], last[k - 1])
  IN  last

ItemsOf(s) == ItemsFromEnd(s)[Len(s)]

Names(path) == IF path = Root THEN <<>> ELSE ItemsOf(Tail(path))

W == INSTANCE PathWalk WITH
       Name  <- Seq(NameChars) \ (Stays \cup {DotDot}),
       Here  <- <<Dot>>,
       Up    <- DotDot,
       Empty <- <<>>,
       Junk  <- Seq(Chars),
       cwd   <- Names(wd),
       at    <- Names(buf),
       items <- IF pc = "Loop" THEN ItemsOf(SubSeq(rel, c, Len(rel))) ELSE <<>>,
       ok    <- pc # "Invalid"

\* The characters path_cat appends and cuts off amount to walking the items of
\* the argument one by one, from the root if it begins with a slash or is empty
\* (the tests at path_utils.c:89-100), never above the root, and refusing it at
\* the first item that holds another character.
ResolvesByWalking == W!WalkSpec

=============================================================================
