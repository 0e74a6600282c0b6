------------------------------ MODULE PathWalk ------------------------------
(***************************************************************************)
(* What resolving a path promises, with no regard to characters: a path is *)
(* the sequence of names from the root down, and resolving one walks its   *)
(* items from the working directory, or from the root, never above it.     *)
(***************************************************************************)
EXTENDS Naturals, Sequences

CONSTANTS
  Name,      \* the names a directory entry can have
  Here, Up,  \* the items that stay and go up
  Empty,     \* the item between two slashes: it stays too
  Junk       \* what else may be given for an item

VARIABLES
  cwd,   \* the working directory
  at,    \* where the walk has come to
  items, \* the items still to walk
  ok     \* FALSE: the walk met an item that is none

walkVars == <<cwd, at, items, ok>>

Item == Name \cup {Here, Up, Empty}

\* One item onwards.
Walk(path, item) ==
  CASE item \in {Here, Empty} -> path
    [] item = Up -> IF path = <<>> THEN path ELSE SubSeq(path, 1, Len(path) - 1)
    [] item \in Name -> Append(path, item)

WalkInit == cwd = <<>> /\ at = <<>> /\ items = <<>> /\ ok = TRUE

\* A path is given: the walk starts at the root if the path begins with a slash
\* (its first item is empty) or has no items at all, or else where cwd is.
Depart ==
  /\ items = <<>> /\ ok
  /\ items' \in Seq(Item \cup Junk)
  /\ at' = IF items' = <<>> \/ Head(items') = Empty THEN <<>> ELSE cwd
  /\ UNCHANGED <<cwd, ok>>

Step ==
  /\ items # <<>> /\ ok
  /\ Head(items) \in Item
  /\ at' = Walk(at, Head(items))
  /\ items' = Tail(items)
  /\ UNCHANGED <<cwd, ok>>

\* A character no name has: the path is refused.
Refuse ==
  /\ items # <<>> /\ ok
  /\ Head(items) \notin Item
  /\ ok' = FALSE
  /\ items' = <<>>
  /\ UNCHANGED <<cwd, at>>

\* The refusal has been answered.
Forget ==
  /\ ~ok
  /\ ok' = TRUE
  /\ at' = <<>>
  /\ UNCHANGED <<cwd, items>>

\* The working directory changes to where the walk has ended, or to its parent.
Arrive ==
  /\ items = <<>> /\ ok
  /\ cwd' \in {at, Walk(at, Up)}
  /\ at' = <<>>
  /\ UNCHANGED <<items, ok>>

WalkNext == Depart \/ Step \/ Refuse \/ Forget \/ Arrive
WalkSpec == WalkInit /\ [][WalkNext]_walkVars

=============================================================================
