---------------------------- MODULE FileCommands ----------------------------
(***************************************************************************)
(* The commands on the directory tree (client_cmds.c: CWD, MKD, RMD, RNFR, *)
(* RNTO, DELE, and the file that STOR makes), sent in several sessions at  *)
(* once.  The sessions share the tree and nothing else: each has its wd    *)
(* and its rnfr, which the others' commands may leave behind.              *)
(*                                                                         *)
(* A path is the sequence of names from the root (PathCat: what path_cat   *)
(* makes of a session's wd and an argument), so any path may be given in   *)
(* any wd, and path_cat(d, "..") is the path without its last name.  The   *)
(* sessions are logged in and have no transfer (Session: PATH).            *)
(*                                                                         *)
(* A handler is one step but for DELE, which calls the file system twice.  *)
(* One that is refused frees its path and changes nothing: no step.  Any   *)
(* call of the file system may fail (permissions, space): no step either.  *)
(***************************************************************************)
EXTENDS Integers, Sequences, FiniteSets

CONSTANTS
  Sessions,
  NULL,
  Names,     \* of files and directories
  Paths,     \* the paths there may be something at: a bound on the tree
  MaxLeaks   \* bound: path strings lost by a session

VARIABLES
  tree,    \* what is at each path: a directory, a file or nothing
  wd,      \* c->wd
  rnfr,    \* c->rnfr, or NULL
  doomed,  \* d of DELE between path_exists and unlink, or NULL
  heap     \* how many path strings of the session are allocated

vars == <<tree, wd, rnfr, doomed, heap>>

Root == <<>>
Parent(p) == SubSeq(p, 1, Len(p) - 1)

ASSUME FileCommandsAssumption ==
  /\ Root \in Paths /\ Paths \subseteq Seq(Names)
  /\ \A p \in Paths : \A k \in 0..Len(p) : SubSeq(p, 1, k) \in Paths
  /\ NULL \notin Paths
  /\ MaxLeaks \in Nat

Under(p, q) == Len(p) < Len(q) /\ SubSeq(q, 1, Len(p)) = p

\* The server is started in a directory; whatever is above what exists is one.
Kinds == {"none", "file", "dir"}
IsTree(t) ==
  /\ t[Root] = "dir"
  /\ \A p, q \in Paths : Under(p, q) /\ t[q] # "none" => t[p] = "dir"

IsDir(p) == tree[p] = "dir"
Exists(p) == tree[p] # "none"
IsEmptyDir(p) == IsDir(p) /\ \A q \in Paths : Under(p, q) => ~Exists(q)

\* Where an entry can be made.
IsFree(p) == p # Root /\ ~Exists(p) /\ IsDir(Parent(p))

\* path_exists(d, PATH_REQUIREMENT_REGULAR), after strlen(d) == 1.
IsRegular(p) == tree[p] = "file"

\* rename(old, new), where either is no root: an entry may go where there is
\* none, and replace one of its own kind, a directory if it is empty.
Renames(old, new) ==
  /\ Exists(old)
  /\ ~Under(old, new)
  /\ \/ IsFree(new)
     \/ old = new
     \/ tree[old] = "file" /\ tree[new] = "file"
     \/ IsDir(old) /\ IsEmptyDir(new)

\* The path that p has come from, old having been renamed to new.
Whence(old, new, p) == old \o SubSeq(p, Len(new) + 1, Len(p))

\* The tree after it; every path that moves has to be one of Paths.
Moved(old, new) ==
  [p \in Paths |->
    IF p = new \/ Under(new, p)
    THEN IF Whence(old, new, p) \in Paths THEN tree[Whence(old, new, p)] ELSE "none"
    ELSE IF p = old \/ Under(old, p) THEN "none" ELSE tree[p]]

FitsAfter(old, new) ==
  \A p \in Paths : Under(old, p) /\ Exists(p) =>
    new \o SubSeq(p, Len(old) + 1, Len(p)) \in Paths

\* mark_dir: the working directory after `from' is gone, `to' having come in its
\* place; and without a look at it.
MarkDirNot(w, from, to) == w
MarkDir(w, from, to) == IF w = from THEN Parent(to) ELSE w

\* What RNTO leaves in c->rnfr; and what it found there.
RnfrKept(s) == rnfr[s]
RnfrAfter(s) == NULL

\* if (c->rnfr != NULL) free(c->rnfr), and without it.
NoneFreed(s) == 0
OldRnfrFreed(s) == IF rnfr[s] # NULL THEN 1 ELSE 0

\* The path strings a session keeps or is at work on.
Held(s) == 1 + (IF rnfr[s] # NULL THEN 1 ELSE 0) + (IF doomed[s] # NULL THEN 1 ELSE 0)

\* And those it has lost.
Lost(s) == heap[s] - Held(s)

-----------------------------------------------------------------------------
Init ==
  /\ tree \in {t \in [Paths -> Kinds] : IsTree(t)}
  /\ wd = [s \in Sessions |-> Root]
  /\ rnfr = [s \in Sessions |-> NULL]
  /\ doomed = [s \in Sessions |-> NULL]
  /\ heap = [s \in Sessions |-> 1]   \* wd

\* The session awaits a command: it is not within DELE.
Ready(s) == doomed[s] = NULL

\* wd is freed, and d is kept in its place.
Cwd(s, d) ==
  /\ Ready(s)
  /\ IsDir(d)
  /\ wd' = [wd EXCEPT ![s] = d]
  /\ UNCHANGED <<tree, rnfr, doomed, heap>>

Mkd(s, d) ==
  /\ Ready(s)
  /\ IsFree(d)
  /\ tree' = [tree EXCEPT ![d] = "dir"]
  /\ UNCHANGED <<wd, rnfr, doomed, heap>>

\* fopen(d + 1, "a") makes the file if there is none.
Stor(s, d) ==
  /\ Ready(s)
  /\ IsFree(d)
  /\ tree' = [tree EXCEPT ![d] = "file"]
  /\ UNCHANGED <<wd, rnfr, doomed, heap>>

Rmd(s, d) ==
  /\ Ready(s)
  /\ d # Root /\ IsEmptyDir(d)
  /\ tree' = [tree EXCEPT ![d] = "none"]
  /\ wd' = [wd EXCEPT ![s] = MarkDir(@, d, d)]
  /\ UNCHANGED <<rnfr, doomed, heap>>

\* d is kept, and what was kept is freed.
Rnfr(s, d) ==
  /\ Ready(s)
  /\ d # Root /\ Exists(d)
  /\ heap' = [heap EXCEPT ![s] = @ + 1 - OldRnfrFreed(s)]
  /\ rnfr' = [rnfr EXCEPT ![s] = d]
  /\ UNCHANGED <<tree, wd, doomed>>

\* full_path returns from the handler, and rnfr is not freed.
RntoInvalid(s) ==
  /\ Ready(s)
  /\ rnfr[s] # NULL
  /\ Lost(s) < MaxLeaks
  /\ rnfr' = [rnfr EXCEPT ![s] = RnfrAfter(s)]
  /\ UNCHANGED <<tree, wd, doomed, heap>>

\* The root, or a rename that fails: rnfr is freed.
RntoRefused(s) ==
  /\ Ready(s)
  /\ rnfr[s] # NULL
  /\ rnfr' = [rnfr EXCEPT ![s] = RnfrAfter(s)]
  /\ heap' = [heap EXCEPT ![s] = @ - 1]
  /\ UNCHANGED <<tree, wd, doomed>>

Rnto(s, d) ==
  /\ Ready(s)
  /\ rnfr[s] # NULL /\ d # Root
  /\ Renames(rnfr[s], d) /\ FitsAfter(rnfr[s], d)
  /\ tree' = IF rnfr[s] = d THEN tree ELSE Moved(rnfr[s], d)
  /\ wd' = [wd EXCEPT ![s] = MarkDir(@, rnfr[s], d)]
  /\ rnfr' = [rnfr EXCEPT ![s] = RnfrAfter(s)]
  /\ heap' = [heap EXCEPT ![s] = @ - 1]
  /\ UNCHANGED doomed

\* path_exists finds a file, ...
Dele(s, d) ==
  /\ Ready(s)
  /\ IsRegular(d)
  /\ doomed' = [doomed EXCEPT ![s] = d]
  /\ heap' = [heap EXCEPT ![s] = @ + 1]
  /\ UNCHANGED <<tree, wd, rnfr>>

\* ... and unlink removes the file that is there by now, or fails.
Unlink(s) ==
  /\ ~Ready(s)
  /\ \/ IsRegular(doomed[s]) /\ tree' = [tree EXCEPT ![doomed[s]] = "none"]
     \/ UNCHANGED tree
  /\ doomed' = [doomed EXCEPT ![s] = NULL]
  /\ heap' = [heap EXCEPT ![s] = @ - 1]
  /\ UNCHANGED <<wd, rnfr>>

\* What a session does, with a valid path or with none.
Serve(s) ==
  \/ \E d \in Paths : Cwd(s, d) \/ Mkd(s, d) \/ Stor(s, d) \/ Rmd(s, d)
                      \/ Rnfr(s, d) \/ Rnto(s, d) \/ Dele(s, d)
  \/ RntoInvalid(s) \/ RntoRefused(s) \/ Unlink(s)

Next == \E s \in Sessions : Serve(s)

Spec == Init /\ [][Next]_vars

-----------------------------------------------------------------------------
TypeOK ==
  /\ tree \in [Paths -> Kinds] /\ IsTree(tree)
  /\ wd \in [Sessions -> Paths]
  /\ rnfr \in [Sessions -> Paths \cup {NULL}]
  /\ doomed \in [Sessions -> Paths \cup {NULL}]
  /\ heap \in [Sessions -> Nat]

\* The tree stays one under several sessions' renames, and no session frees a
\* string it still keeps, or twice.
FileInv ==
  /\ TypeOK
  /\ \A s \in Sessions : Lost(s) \in 0..MaxLeaks

\* RNTO of a directory that the working directory lies in.
RenamesAbove(s) == rnfr[s] # NULL /\ rnfr'[s] = NULL /\ Under(rnfr[s], wd[s])

\* What mark_dir is for: whatever a session sends, RMD of its working directory
\* and RNTO of it included, its working directory remains one that exists, be
\* there other sessions or not; but RNTO of a directory above it takes it away.
OwnWdKept ==
  [][\A s \in Sessions :
       Serve(s) /\ IsDir(wd[s]) /\ ~RenamesAbove(s) => IsDir(wd[s])']_vars

\* Each handler frees what it allocates, or keeps it in wd or rnfr and frees what
\* was there, once; but RNTO with an argument that is no path.
OnlyInvalidRntoLeaks ==
  [][\A s \in Sessions :
       Lost(s)' = Lost(s) \/ RntoInvalid(s)]_vars

=============================================================================
