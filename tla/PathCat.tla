------------------------------ MODULE PathCat ------------------------------
(***************************************************************************)
(* path_cat (server/path_utils.c): the working directory of a session and  *)
(* the argument of a command make an absolute path, in a buffer that the   *)
(* function grows and shrinks at its end.  A session calls it again and    *)
(* again, and CWD keeps the outcome as the next working directory, so what *)
(* path_cat needs of wd it has to ensure of its outcome.                   *)
(*                                                                         *)
(* Characters matter here: the buffer's size, the slashes and the dots are *)
(* what can go wrong.  A path is a sequence of characters, without the NUL.*)
(***************************************************************************)
EXTENDS Integers, Sequences

CONSTANTS
  Letters,   \* the characters a name may have, the dot aside
  Others,    \* the characters no name may have
  MaxArg,    \* bound: characters of a command's argument
  MaxWd      \* bound: characters of a working directory

Slash == "/"
Dot == "."
NameChars == Letters \cup {Dot}
Chars == NameChars \cup Others \cup {Slash}

ASSUME PathCatAssumption ==
  /\ Slash \notin Letters \cup Others
  /\ Dot \notin Letters \cup Others
  /\ Letters \cap Others = {}
  /\ MaxArg \in Nat
  /\ MaxWd \in Nat

VARIABLES
  wd,   \* the working directory of the session
  rel,  \* the argument
  buf,  \* the buffer, up to len
  c,    \* where the next item of rel starts
  pc    \* Idle, Loop, Done, or Invalid: NULL is returned

vars == <<wd, rel, buf, c, pc>>

Root == <<Slash>>

\* The end of the item of s that starts at i: a slash, or past the end.
ItemEnd(s, i) ==
  CHOOSE d \in i..(Len(s) + 1) :
    /\ d <= Len(s) => s[d] = Slash
    /\ \A j \in i..(d - 1) : s[j] # Slash

ItemAt(s, i) == SubSeq(s, i, ItemEnd(s, i) - 1)

\* Where the item after one that ends at d starts; SkipOneMore is off by one.
SkipOneMore(d) == d + 2
After(d) == d + 1

IsName(item) == \A i \in 1..Len(item) : item[i] \in NameChars

LastSlash(s) ==
  CHOOSE i \in 1..Len(s) : s[i] = Slash /\ \A j \in (i + 1)..Len(s) : s[j] # Slash

\* The buffer without its last name: first the name goes, then the slash before
\* it, but for the slash of the root.
GoUp(b) == LET n == LastSlash(b) IN SubSeq(b, 1, IF n > 1 THEN n - 1 ELSE n)

\* The buffer with one more name; AddNameAlways puts a second slash at the root.
AddNameAlways(b, item) == b \o Root \o item
AddName(b, item) == (IF Len(b) > 1 THEN b \o Root ELSE b) \o item

Stays == {<<>>, <<Dot>>}
DotDot == <<Dot, Dot>>

Process(b, item) ==
  IF item \in Stays THEN b ELSE IF item = DotDot THEN GoUp(b) ELSE AddName(b, item)

\* Where resolving starts; StartAtWd takes an empty argument for "here".
StartAtWd(w, r) == IF r # <<>> /\ r[1] = Slash THEN Root ELSE w
Start(w, r) == IF r = <<>> \/ r[1] = Slash THEN Root ELSE w

\* malloc(strlen(wd) + strlen(rel) + 2), and without "+2 for the slash and the
\* terminating NUL"
SizeWithoutSlash(w, r) == Len(w) + Len(r) + 1
Size(w, r) == Len(w) + Len(r) + 2

-----------------------------------------------------------------------------
\* client_create: the working directory is "/".
Init ==
  /\ wd = Root
  /\ rel = <<>>
  /\ buf = Root
  /\ c = 1
  /\ pc = "Idle"

\* A command calls path_cat(c->wd, arg).
Call(arg) ==
  /\ pc = "Idle"
  /\ rel' = arg
  /\ buf' = Start(wd, arg)
  /\ c' = 1
  /\ pc' = IF arg = <<>> THEN "Done" ELSE "Loop"
  /\ UNCHANGED wd

\* One round of the loop over the items.
NextItem ==
  /\ pc = "Loop"
  /\ IsName(ItemAt(rel, c))
  /\ buf' = Process(buf, ItemAt(rel, c))
  /\ c' = After(ItemEnd(rel, c))
  /\ pc' = IF ItemEnd(rel, c) > Len(rel) THEN "Done" ELSE "Loop"
  /\ UNCHANGED <<wd, rel>>

\* The buffer is freed and NULL returned: 501.
InvalidItem ==
  /\ pc = "Loop"
  /\ ~IsName(ItemAt(rel, c))
  /\ pc' = "Invalid"
  /\ UNCHANGED <<wd, rel, buf, c>>

\* The path made is gone: no call is under way.
Free ==
  /\ rel' = <<>>
  /\ buf' = Root
  /\ c' = 1
  /\ pc' = "Idle"

\* The path is used, or refused for what it names, and freed; ...
Return ==
  /\ pc \in {"Done", "Invalid"}
  /\ Free
  /\ UNCHANGED wd

\* ... or it is the next working directory (CWD), or its parent is: RMD and RNTO
\* of the working directory call path_cat(d, "..").
ChangeWd ==
  /\ pc = "Done"
  /\ Len(buf) <= MaxWd
  /\ wd' \in {buf, Process(buf, DotDot)}
  /\ Free

\* Arguments of up to MaxArg characters.
Args == UNION {[1..n -> Chars] : n \in 0..MaxArg}

Next ==
  \/ \E arg \in Args : Call(arg)
  \/ NextItem \/ InvalidItem \/ Return \/ ChangeWd

Spec == Init /\ [][Next]_vars

-----------------------------------------------------------------------------
TypeOK ==
  /\ wd \in Seq(Chars)
  /\ rel \in Seq(Chars)
  /\ buf \in Seq(Chars)
  /\ c \in 1..(Len(rel) + 2)
  /\ pc \in {"Idle", "Loop", "Done", "Invalid"}

\* The item of p after the slash at i is "." or "..".
DotsAt(p, i) ==
  \/ i + 1 = Len(p) /\ p[i + 1] = Dot
  \/ i + 1 < Len(p) /\ p[i + 1] = Dot /\ p[i + 2] = Slash
  \/ i + 2 = Len(p) /\ p[i + 1] = Dot /\ p[i + 2] = Dot
  \/ i + 2 < Len(p) /\ p[i + 1] = Dot /\ p[i + 2] = Dot /\ p[i + 3] = Slash

\* An absolute path with no empty items, no "." and no "..": the root, or names
\* each after one slash, of characters that neither rmdir(d + 1) and its like nor
\* the shell that LIST gives c->wd to (client_cmds.c:353-357) take for anything else.
Normal(p) ==
  /\ Len(p) >= 1 /\ p[1] = Slash
  /\ Len(p) > 1 => p[Len(p)] # Slash
  /\ \A i \in 1..(Len(p) - 1) : p[i] = Slash => p[i + 1] # Slash
  /\ \A i \in 1..Len(p) : p[i] = Slash => ~DotsAt(p, i)
  /\ \A i \in 1..Len(p) : p[i] \in NameChars \cup {Slash}

\* However many calls feed on each other's outcome, the working directory and
\* the path being made are normal after every round of the loop: no ".." is left
\* for the file system to follow out of the root (report.md:82-85), and the
\* search for the last slash always ends inside the buffer.
PathsNormal == Normal(wd) /\ Normal(buf)

\* The buffer is never written past its end, the NUL included.
BufferSuffices == pc # "Idle" => Len(buf) + 1 <= Size(wd, rel)

=============================================================================
