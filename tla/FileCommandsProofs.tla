------------------------- MODULE FileCommandsProofs -------------------------
(***************************************************************************)
(* What is proved of FileCommands, for any number of sessions and any set  *)
(* of paths closed under their beginnings, however deep: the tree stays    *)
(* one, a session's own RMD and RNTO leave it a working directory that     *)
(* exists, and no path string is lost or freed twice.                      *)
(***************************************************************************)
EXTENDS FileCommands, SequenceTheorems, TLAPS

-----------------------------------------------------------------------------
(***************************************************************************)
(* Paths                                                                   *)
(***************************************************************************)
\* To be under p is to begin with its names.
LEMMA UnderIs ==
  ASSUME NEW p \in Seq(Names), NEW q \in Seq(Names)
  PROVE  Under(p, q) <=> Len(p) < Len(q) /\ \A i \in 1..Len(p) : q[i] = p[i]
  <1>1. Len(p) \in Nat /\ Len(q) \in Nat
    BY LenProperties
  <1> SUFFICES ASSUME Len(p) < Len(q)
               PROVE  SubSeq(q, 1, Len(p)) = p <=> \A i \in 1..Len(p) : q[i] = p[i]
    BY DEF Under
  <1>2. \A i \in 1..Len(p) : q[i] \in Names
    BY <1>1, ElementOfSeq
  <1>3. /\ SubSeq(q, 1, Len(p)) \in Seq(Names)
        /\ Len(SubSeq(q, 1, Len(p))) = Len(p)
        /\ \A i \in 1..Len(p) : SubSeq(q, 1, Len(p))[i] = q[i]
    BY <1>1, <1>2, SubSeqProperties
  <1>4. SubSeq(q, 1, Len(p)) = p <=>
          \A i \in 1..Len(p) : SubSeq(q, 1, Len(p))[i] = p[i]
    BY <1>1, <1>3, SeqEqual
  <1> QED BY <1>3, <1>4

\* Two paths with the same names are the same.
LEMMA SameNames ==
  ASSUME NEW p \in Seq(Names), NEW q \in Seq(Names),
         Len(p) = Len(q), \A i \in 1..Len(p) : q[i] = p[i]
  PROVE  p = q
  BY SeqEqual

LEMMA UnderTransitive ==
  ASSUME NEW p \in Seq(Names), NEW q \in Seq(Names), NEW r \in Seq(Names),
         Under(p, q), Under(q, r)
  PROVE  Under(p, r)
  <1>1. Len(p) \in Nat /\ Len(q) \in Nat /\ Len(r) \in Nat
    BY LenProperties
  <1> QED BY <1>1, UnderIs

LEMMA NotUnderItself ==
  ASSUME NEW p \in Seq(Names)
  PROVE  ~Under(p, p) /\ ~Under(p, Root)
  <1>1. Len(p) \in Nat /\ Len(Root) = 0
    BY LenProperties, EmptySeq DEF Root
  <1> QED BY <1>1 DEF Under

\* Of two paths above a third one is above the other.
LEMMA AboveComparable ==
  ASSUME NEW p \in Seq(Names), NEW q \in Seq(Names), NEW r \in Seq(Names),
         Under(p, r), q = r \/ Under(q, r)
  PROVE  p = q \/ Under(p, q) \/ Under(q, p)
  <1>1. Len(p) \in Nat /\ Len(q) \in Nat /\ Len(r) \in Nat
    BY LenProperties
  <1>2. /\ Len(p) < Len(r) /\ \A i \in 1..Len(p) : r[i] = p[i]
        /\ Len(q) <= Len(r) /\ \A i \in 1..Len(q) : r[i] = q[i]
    BY <1>1, UnderIs
  <1>3. CASE Len(p) < Len(q)
    <2>1. \A i \in 1..Len(p) : q[i] = p[i]
      BY <1>1, <1>2, <1>3
    <2> QED BY <1>3, <2>1, UnderIs
  <1>4. CASE Len(q) < Len(p)
    <2>1. \A i \in 1..Len(q) : p[i] = q[i]
      BY <1>1, <1>2, <1>4
    <2> QED BY <1>4, <2>1, UnderIs
  <1>5. CASE Len(p) = Len(q)
    <2>1. \A i \in 1..Len(p) : q[i] = p[i]
      BY <1>1, <1>2, <1>5
    <2> QED BY <1>5, <2>1, SameNames
  <1> QED BY <1>1, <1>3, <1>4, <1>5

\* path_cat(p, ".."): of Paths, above p, and below or at all that is above p.
LEMMA ParentIs ==
  ASSUME NEW p \in Paths, p # Root
  PROVE  /\ Parent(p) \in Paths
         /\ Under(Parent(p), p)
         /\ \A q \in Paths : Under(q, p) => q = Parent(p) \/ Under(q, Parent(p))
  <1> USE FileCommandsAssumption
  <1>1. p \in Seq(Names) /\ Len(p) \in Nat /\ Len(p) # 0
    BY LenProperties, EmptySeq DEF Root
  <1>2. \A i \in 1..Len(p) : p[i] \in Names
    BY <1>1, ElementOfSeq
  <1>3. /\ Parent(p) \in Paths
        /\ Len(Parent(p)) = Len(p) - 1
        /\ \A i \in 1..(Len(p) - 1) : Parent(p)[i] = p[i]
    <2>1. Len(p) - 1 \in 0..Len(p) /\ \A i \in 1..(Len(p) - 1) : p[i] \in Names
      BY <1>1, <1>2
    <2>2. Parent(p) \in Paths
      BY <2>1 DEF Parent
    <2>3. /\ Len(SubSeq(p, 1, Len(p) - 1)) = Len(p) - 1
          /\ \A i \in 1..(Len(p) - 1) : SubSeq(p, 1, Len(p) - 1)[i] = p[1 + i - 1]
      <3> DEFINE n == Len(p) - 1
      <3>1. n \in Nat /\ n - 1 + 1 = n
        BY <2>1, <1>1
      <3>2. \A i \in 1..n : p[i] \in Names
        BY <2>1
      <3> HIDE DEF n
      <3>3. /\ Len(SubSeq(p, 1, n)) = IF 1 <= n THEN n - 1 + 1 ELSE 0
            /\ \A i \in 1..(n - 1 + 1) : SubSeq(p, 1, n)[i] = p[1 + i - 1]
        BY <3>1, <3>2, SubSeqProperties
      <3>4. Len(SubSeq(p, 1, n)) = n
        BY <3>1, <3>3
      <3> QED BY <3>1, <3>3, <3>4 DEF n
    <2> QED BY <2>2, <2>3 DEF Parent
  <1>4. Under(Parent(p), p)
    <2>1. PICK u : u = Parent(p)
      OBVIOUS
    <2>2. u \in Seq(Names) /\ Len(u) < Len(p) /\ \A i \in 1..Len(u) : p[i] = u[i]
      BY <1>1, <1>3, <2>1
    <2> QED BY <1>1, <2>1, <2>2, UnderIs
  <1>5. ASSUME NEW q \in Paths, Under(q, p), q # Parent(p)
        PROVE  Under(q, Parent(p))
    <2>1. Len(q) \in Nat /\ Len(q) < Len(p)
      BY <1>5, LenProperties DEF Under
    <2>2. q = Parent(p) \/ Under(q, Parent(p)) \/ Under(Parent(p), q)
      BY <1>1, <1>3, <1>4, <1>5, AboveComparable
    <2>3. ~Under(Parent(p), q)
      BY <1>1, <1>3, <2>1 DEF Under
    <2> QED BY <1>5, <2>2, <2>3
  <1> QED BY <1>3, <1>4, <1>5

\* What is renamed from old to new keeps its place below it.
LEMMA WhenceIs ==
  ASSUME NEW old \in Seq(Names), NEW new \in Seq(Names), NEW p \in Seq(Names),
         p = new \/ Under(new, p)
  PROVE  /\ Whence(old, new, p) \in Seq(Names)
         /\ Len(Whence(old, new, p)) = Len(old) + Len(p) - Len(new)
         /\ \A i \in 1..Len(old) : Whence(old, new, p)[i] = old[i]
         /\ \A i \in (Len(old) + 1)..(Len(old) + Len(p) - Len(new)) :
              Whence(old, new, p)[i] = p[i - Len(old) + Len(new)]
         /\ p = new => Whence(old, new, p) = old
         /\ Under(new, p) => Under(old, Whence(old, new, p))
  <1> DEFINE rest == SubSeq(p, Len(new) + 1, Len(p))
  <1>1. /\ Len(old) \in Nat /\ Len(new) \in Nat /\ Len(p) \in Nat
        /\ Len(new) <= Len(p)
    BY LenProperties DEF Under
  <1>2. \A i \in (Len(new) + 1)..Len(p) : p[i] \in Names
    BY <1>1, ElementOfSeq
  <1>3. /\ rest \in Seq(Names)
        /\ Len(rest) = Len(p) - Len(new)
        /\ \A i \in 1..(Len(p) - Len(new)) : rest[i] = p[Len(new) + i]
    BY <1>1, <1>2, SubSeqProperties
  <1> HIDE DEF rest
  <1>4. /\ old \o rest \in Seq(Names)
        /\ Len(old \o rest) = Len(old) + Len(rest)
        /\ \A i \in 1..(Len(old) + Len(rest)) :
             (old \o rest)[i] = IF i <= Len(old) THEN old[i] ELSE rest[i - Len(old)]
    BY <1>3, ConcatProperties
  <1>5. Whence(old, new, p) = old \o rest
    BY DEF Whence, rest
  <1>6. /\ \A i \in 1..Len(old) : Whence(old, new, p)[i] = old[i]
        /\ \A i \in (Len(old) + 1)..(Len(old) + Len(p) - Len(new)) :
              Whence(old, new, p)[i] = p[i - Len(old) + Len(new)]
    <2>1. \A i \in 1..Len(old) : (old \o rest)[i] = old[i]
      BY <1>1, <1>3, <1>4
    <2>2. ASSUME NEW i \in (Len(old) + 1)..(Len(old) + Len(p) - Len(new))
          PROVE  (old \o rest)[i] = p[i - Len(old) + Len(new)]
      <3>1. i - Len(old) \in 1..(Len(p) - Len(new)) /\ ~(i <= Len(old))
        BY <1>1
      <3>2. i \in 1..(Len(old) + Len(rest))
        BY <1>1, <1>3
      <3>3. (old \o rest)[i] = rest[i - Len(old)]
        BY <1>4, <3>1, <3>2
      <3>4. rest[i - Len(old)] = p[Len(new) + (i - Len(old))]
        BY <1>3, <3>1
      <3>5. Len(new) + (i - Len(old)) = i - Len(old) + Len(new)
        BY <1>1
      <3> QED BY <3>3, <3>4, <3>5
    <2> QED BY <1>5, <2>1, <2>2
  <1>7. p = new => Whence(old, new, p) = old
    BY <1>1, <1>3, <1>4, <1>5, <1>6, SameNames
  <1>8. Under(new, p) => Under(old, Whence(old, new, p))
    <2> SUFFICES ASSUME Under(new, p) PROVE Under(old, Whence(old, new, p))
      OBVIOUS
    <2>1. Len(old) < Len(old \o rest)
      BY <1>1, <1>3, <1>4 DEF Under
    <2> QED BY <1>4, <1>5, <1>6, <2>1, UnderIs
  <1> QED BY <1>3, <1>4, <1>5, <1>6, <1>7, <1>8

\* And whatever is above it comes to be above it again, in Paths.
LEMMA WhenceKeepsPlace ==
  ASSUME NEW old \in Seq(Names), NEW new \in Seq(Names),
         NEW p \in Seq(Names), NEW q \in Seq(Names),
         p = new \/ Under(new, p), Under(p, q)
  PROVE  /\ Under(new, q)
         /\ Under(Whence(old, new, p), Whence(old, new, q))
  <1>1. Under(new, q)
    BY UnderTransitive
  <1>2. /\ Len(old) \in Nat /\ Len(new) \in Nat /\ Len(p) \in Nat /\ Len(q) \in Nat
        /\ Len(new) <= Len(p) /\ Len(p) < Len(q)
    BY LenProperties DEF Under
  <1>3. \A i \in 1..Len(p) : q[i] = p[i]
    BY UnderIs
  <1> DEFINE from == Whence(old, new, p)
             to == Whence(old, new, q)
  <1>4. /\ from \in Seq(Names) /\ Len(from) = Len(old) + Len(p) - Len(new)
        /\ \A i \in 1..Len(old) : from[i] = old[i]
        /\ \A i \in (Len(old) + 1)..(Len(old) + Len(p) - Len(new)) :
             from[i] = p[i - Len(old) + Len(new)]
    BY WhenceIs
  <1>5. /\ to \in Seq(Names) /\ Len(to) = Len(old) + Len(q) - Len(new)
        /\ \A i \in 1..Len(old) : to[i] = old[i]
        /\ \A i \in (Len(old) + 1)..(Len(old) + Len(q) - Len(new)) :
             to[i] = q[i - Len(old) + Len(new)]
    BY <1>1, WhenceIs
  <1> HIDE DEF from, to
  <1>6. ASSUME NEW i \in 1..Len(from)
        PROVE  to[i] = from[i]
    <2>1. CASE i <= Len(old)
      BY <1>2, <1>4, <1>5, <2>1
    <2>2. CASE i > Len(old)
      <3>1. /\ i \in (Len(old) + 1)..(Len(old) + Len(p) - Len(new))
            /\ i \in (Len(old) + 1)..(Len(old) + Len(q) - Len(new))
            /\ i - Len(old) + Len(new) \in 1..Len(p)
        BY <1>2, <1>4, <2>2
      <3> QED BY <1>3, <1>4, <1>5, <3>1
    <2> QED BY <1>2, <1>4, <2>1, <2>2
  <1>7. Len(from) < Len(to)
    BY <1>2, <1>4, <1>5
  <1>8. Under(from, to)
    BY <1>4, <1>5, <1>6, <1>7, UnderIs
  <1> QED BY <1>1, <1>8 DEF from, to

\* What is above one of Paths is one of them.
LEMMA AbovePath ==
  ASSUME NEW p \in Seq(Names), NEW q \in Paths, Under(p, q)
  PROVE  p \in Paths
  <1>1. Len(p) \in 0..Len(q) /\ SubSeq(q, 1, Len(p)) = p
    <2>1. Len(p) \in Nat /\ Len(q) \in Nat
      BY FileCommandsAssumption, LenProperties
    <2> QED BY <2>1 DEF Under
  <1> QED BY <1>1, FileCommandsAssumption

-----------------------------------------------------------------------------
(***************************************************************************)
(* The tree                                                                *)
(***************************************************************************)
\* A directory or file made where there is none, in a directory.
LEMMA MadeIsTree ==
  ASSUME tree \in [Paths -> Kinds], IsTree(tree),
         NEW d \in Paths, IsFree(d), NEW kind \in {"file", "dir"}
  PROVE  IsTree([tree EXCEPT ![d] = kind])
  <1> DEFINE t == [tree EXCEPT ![d] = kind]
  <1>1. t[Root] = "dir"
    BY DEF IsTree, IsFree
  <1>2. ASSUME NEW p \in Paths, NEW q \in Paths, Under(p, q), t[q] # "none"
        PROVE  t[p] = "dir"
    <2>1. CASE q = d
      <3>1. Parent(d) \in Paths /\ (p = Parent(d) \/ Under(p, Parent(d)))
        BY <1>2, <2>1, ParentIs DEF IsFree
      <3>2. tree[p] = "dir"
        BY <3>1 DEF IsFree, IsDir, IsTree
      <3> QED BY <3>2 DEF IsFree, Exists
    <2>2. CASE q # d
      <3>1. tree[p] = "dir"
        BY <1>2, <2>2 DEF IsTree
      <3> QED BY <3>1 DEF IsFree, Exists
    <2> QED BY <2>1, <2>2
  <1> QED BY <1>1, <1>2 DEF IsTree

\* An empty directory or a file removed.
LEMMA RemovedIsTree ==
  ASSUME tree \in [Paths -> Kinds], IsTree(tree),
         NEW d \in Paths, d # Root, IsEmptyDir(d) \/ IsRegular(d)
  PROVE  IsTree([tree EXCEPT ![d] = "none"])
  <1> DEFINE t == [tree EXCEPT ![d] = "none"]
  <1>1. t[Root] = "dir"
    BY DEF IsTree
  <1>2. ASSUME NEW p \in Paths, NEW q \in Paths, Under(p, q), t[q] # "none"
        PROVE  t[p] = "dir"
    <2>1. q # d /\ tree[q] # "none"
      BY <1>2
    <2>2. tree[p] = "dir"
      BY <1>2, <2>1 DEF IsTree
    <2>3. p # d
      BY <1>2, <2>1, <2>2 DEF IsEmptyDir, IsRegular, Exists
    <2> QED BY <2>2, <2>3
  <1> QED BY <1>1, <1>2 DEF IsTree

\* What a rename that succeeds has to do with: it goes to another path, above
\* which there are directories, and below which nothing is.
LEMMA RenamesWhere ==
  ASSUME tree \in [Paths -> Kinds], IsTree(tree),
         NEW old \in Paths, NEW new \in Paths, new # Root, new # old,
         Renames(old, new)
  PROVE  /\ tree[old] # "none" /\ ~Under(old, new) /\ old # Root
         /\ \A p \in Paths : Under(p, new) => tree[p] = "dir"
         /\ \A p \in Paths : Under(new, p) => tree[p] = "none"
  <1>1. tree[old] # "none" /\ ~Under(old, new)
    BY DEF Renames, Exists
  <1>2. old # Root
    <2>1. new \in Seq(Names) /\ Root \in Seq(Names)
      BY FileCommandsAssumption
    <2>2. Len(new) \in Nat /\ Len(new) # 0 /\ Len(Root) = 0
      BY <2>1, LenProperties, EmptySeq DEF Root
    <2>3. Len(Root) < Len(new) /\ \A i \in 1..Len(Root) : new[i] = Root[i]
      BY <2>2
    <2>4. Under(Root, new)
      BY <2>1, <2>3, UnderIs
    <2> QED BY <1>1, <2>4
  <1>3. ASSUME NEW p \in Paths, Under(p, new)
        PROVE  tree[p] = "dir"
    <2>1. CASE IsFree(new)
      <3>1. Parent(new) \in Paths /\ (p = Parent(new) \/ Under(p, Parent(new)))
        BY <1>3, ParentIs
      <3> QED BY <2>1, <3>1 DEF IsFree, IsDir, IsTree
    <2>2. CASE ~IsFree(new)
      BY <1>3, <2>2 DEF Renames, IsEmptyDir, IsDir, IsTree
    <2> QED BY <2>1, <2>2
  <1>4. ASSUME NEW p \in Paths, Under(new, p)
        PROVE  tree[p] = "none"
    <2>1. CASE tree[new] # "dir"
      BY <1>4, <2>1 DEF IsTree
    <2>2. CASE tree[new] = "dir"
      <3>1. IsEmptyDir(new)
        BY <2>2 DEF Renames, IsFree, Exists, IsDir
      <3> QED BY <1>4, <3>1 DEF IsEmptyDir, Exists
    <2> QED BY <2>1, <2>2
  <1> QED BY <1>1, <1>2, <1>3, <1>4

\* The tree after a rename is one.
LEMMA MovedIsTree ==
  ASSUME tree \in [Paths -> Kinds], IsTree(tree),
         NEW old \in Paths, NEW new \in Paths, new # Root, new # old,
         Renames(old, new)
  PROVE  Moved(old, new) \in [Paths -> Kinds] /\ IsTree(Moved(old, new))
  <1> DEFINE t == Moved(old, new)
             In(a, p) == p = a \/ Under(a, p)
             from(p) == Whence(old, new, p)
  <1>1. /\ tree[old] # "none" /\ ~Under(old, new) /\ old # Root
        /\ \A p \in Paths : Under(p, new) => tree[p] = "dir"
    BY RenamesWhere
  <1>2. Paths \subseteq Seq(Names)
    BY FileCommandsAssumption
  <1>3. \A p \in Paths :
          t[p] = IF In(new, p) THEN IF from(p) \in Paths THEN tree[from(p)] ELSE "none"
                 ELSE IF In(old, p) THEN "none" ELSE tree[p]
    BY DEF Moved
  <1>4. t \in [Paths -> Kinds]
    BY DEF Moved, Kinds
  <1>5. t[Root] = "dir"
    <2>1. ~In(new, Root) /\ ~In(old, Root) /\ Root \in Paths
      BY <1>1, <1>2, NotUnderItself, FileCommandsAssumption
    <2> QED BY <1>3, <2>1 DEF IsTree
  <1> HIDE DEF t
  <1>6. ASSUME NEW p \in Paths, NEW q \in Paths, Under(p, q), t[q] # "none"
        PROVE  t[p] = "dir"
    <2>1. CASE In(new, q)
      <3>1. from(q) \in Paths /\ tree[from(q)] # "none"
        BY <1>3, <1>6, <2>1
      <3>2. CASE In(new, p)
        <4>1. /\ from(p) \in Seq(Names)
              /\ Under(from(p), from(q))
          BY <1>2, <1>6, <3>2, WhenceIs, WhenceKeepsPlace
        <4>2. from(p) \in Paths
          BY <3>1, <4>1, AbovePath
        <4>3. tree[from(p)] = "dir"
          BY <3>1, <4>1, <4>2 DEF IsTree
        <4> QED BY <1>3, <3>2, <4>2, <4>3
      <3>3. CASE ~In(new, p)
        <4>1. Under(p, new)
          BY <1>2, <1>6, <2>1, <3>3, AboveComparable
        <4>2. ~In(old, p)
          BY <1>1, <1>2, <4>1, UnderTransitive
        <4> QED BY <1>1, <1>3, <3>3, <4>1, <4>2
      <3> QED BY <3>2, <3>3
    <2>2. CASE ~In(new, q)
      <3>1. ~In(old, q) /\ tree[q] # "none"
        BY <1>3, <1>6, <2>2
      <3>2. ~In(new, p) /\ ~In(old, p)
        BY <1>2, <1>6, <2>2, <3>1, UnderTransitive
      <3>3. tree[p] = "dir"
        BY <1>6, <3>1 DEF IsTree
      <3> QED BY <1>3, <3>2, <3>3
    <2> QED BY <2>1, <2>2
  <1> QED BY <1>4, <1>5, <1>6 DEF IsTree, t

\* mark_dir after a rename: a working directory that is not below what moves is
\* one still, or was what moves, whose new place is in a directory.
LEMMA RenameKeepsWd ==
  ASSUME tree \in [Paths -> Kinds], IsTree(tree),
         NEW old \in Paths, NEW new \in Paths, new # Root, new # old,
         Renames(old, new),
         NEW w \in Paths, tree[w] = "dir", ~Under(old, w)
  PROVE  Moved(old, new)[MarkDir(w, old, new)] = "dir"
  <1>1. /\ tree[old] # "none" /\ ~Under(old, new)
        /\ \A p \in Paths : Under(p, new) => tree[p] = "dir"
        /\ \A p \in Paths : Under(new, p) => tree[p] = "none"
    BY RenamesWhere
  <1>2. Paths \subseteq Seq(Names)
    BY FileCommandsAssumption
  <1>3. CASE w = old
    <2>1. Parent(new) \in Paths /\ Under(Parent(new), new)
      BY ParentIs
    <2>2. ~Under(new, Parent(new)) /\ Parent(new) # new
      BY <1>2, <2>1, UnderTransitive, NotUnderItself
    <2>3. ~Under(old, Parent(new)) /\ Parent(new) # old
      BY <1>1, <1>2, <2>1, UnderTransitive
    <2>4. Moved(old, new)[Parent(new)] = tree[Parent(new)]
      BY <2>1, <2>2, <2>3 DEF Moved
    <2> QED BY <1>1, <1>3, <2>1, <2>4 DEF MarkDir
  <1>4. CASE w # old
    <2>1. ~Under(new, w)
      BY <1>1
    <2>2. CASE w = new
      <3>1. tree[old] = "dir"
        BY <2>2 DEF Renames, IsFree, Exists, IsDir
      <3>2. Whence(old, new, w) = old
        BY <1>2, <2>2, WhenceIs
      <3> QED BY <1>4, <2>2, <3>1, <3>2 DEF Moved, MarkDir
    <2>3. CASE w # new
      BY <1>4, <2>1, <2>3 DEF Moved, MarkDir
    <2> QED BY <2>2, <2>3
  <1> QED BY <1>3, <1>4

-----------------------------------------------------------------------------
(***************************************************************************)
(* The invariant                                                           *)
(***************************************************************************)
LEMMA InitInv == Init => FileInv
  <1> SUFFICES ASSUME Init PROVE FileInv
    OBVIOUS
  <1>1. TypeOK
    BY FileCommandsAssumption DEF Init, TypeOK
  <1>2. ASSUME NEW s \in Sessions
        PROVE  Lost(s) \in 0..MaxLeaks
    BY FileCommandsAssumption DEF Init, Lost, Held
  <1> QED BY <1>1, <1>2 DEF FileInv

\* Every step keeps the types, and the tree one.
LEMMA TypesKept ==
  ASSUME FileInv, NEW s \in Sessions, Serve(s)
  PROVE  TypeOK'
  <1> USE FileCommandsAssumption DEF FileInv, TypeOK
  <1>0. heap[s] \in Nat /\ Lost(s) \in Nat /\ heap[s] - Held(s) = Lost(s)
    BY DEF Lost
  <1>1. ASSUME NEW d \in Paths, Cwd(s, d)
        PROVE  TypeOK'
    BY <1>1 DEF Cwd
  <1>2. ASSUME NEW d \in Paths, Mkd(s, d) \/ Stor(s, d)
        PROVE  TypeOK'
    <2>1. IsTree(tree') /\ tree' \in [Paths -> Kinds]
      BY <1>2, MadeIsTree DEF Mkd, Stor, Kinds
    <2> QED BY <1>2, <2>1 DEF Mkd, Stor
  <1>3. ASSUME NEW d \in Paths, Rmd(s, d)
        PROVE  TypeOK'
    <2>1. IsTree(tree') /\ tree' \in [Paths -> Kinds]
      BY <1>3, RemovedIsTree DEF Rmd, Kinds
    <2>2. wd' \in [Sessions -> Paths]
      BY <1>3, ParentIs DEF Rmd, MarkDir
    <2> QED BY <1>3, <2>1, <2>2 DEF Rmd
  <1>4. ASSUME NEW d \in Paths, Rnfr(s, d)
        PROVE  TypeOK'
    <2>1. heap[s] + 1 - OldRnfrFreed(s) \in Nat
      BY <1>0 DEF OldRnfrFreed
    <2> QED BY <1>4, <2>1 DEF Rnfr
  <1>5. CASE RntoInvalid(s)
    BY <1>5 DEF RntoInvalid, RnfrAfter
  <1>6. ASSUME rnfr[s] # NULL
        PROVE  heap[s] - 1 \in Nat
    BY <1>0, <1>6 DEF Lost, Held
  <1>7. CASE RntoRefused(s)
    BY <1>6, <1>7 DEF RntoRefused, RnfrAfter
  <1>8. ASSUME NEW d \in Paths, Rnto(s, d)
        PROVE  TypeOK'
    <2>1. rnfr[s] \in Paths
      BY <1>8 DEF Rnto
    <2>2. IsTree(tree') /\ tree' \in [Paths -> Kinds]
      BY <1>8, <2>1, MovedIsTree DEF Rnto
    <2>3. wd' \in [Sessions -> Paths]
      BY <1>8, ParentIs DEF Rnto, MarkDir
    <2> QED BY <1>6, <1>8, <2>2, <2>3 DEF Rnto, RnfrAfter
  <1>9. ASSUME NEW d \in Paths, Dele(s, d)
        PROVE  TypeOK'
    BY <1>0, <1>9 DEF Dele
  <1>10. CASE Unlink(s)
    <2>1. doomed[s] \in Paths /\ heap[s] - 1 \in Nat
      BY <1>0, <1>10 DEF Unlink, Ready, Lost, Held
    <2>2. IsTree(tree') /\ tree' \in [Paths -> Kinds]
      <3>1. CASE UNCHANGED tree
        BY <3>1
      <3>2. CASE IsRegular(doomed[s]) /\ tree' = [tree EXCEPT ![doomed[s]] = "none"]
        <4>1. doomed[s] # Root
          BY <3>2 DEF IsRegular, IsTree
        <4> QED BY <2>1, <3>2, <4>1, RemovedIsTree DEF Kinds
      <3> QED BY <1>10, <3>1, <3>2 DEF Unlink
    <2> QED BY <1>10, <2>1, <2>2 DEF Unlink
  <1> QED BY <1>1, <1>2, <1>3, <1>4, <1>5, <1>7, <1>8, <1>9, <1>10 DEF Serve

\* What a session loses: a string in RNTO with no path, nothing in any other
\* handler; and nothing in another session's.
LEMMA StringsKept ==
  ASSUME FileInv, NEW s \in Sessions, Serve(s), NEW r \in Sessions
  PROVE  \/ Lost(r)' = Lost(r)
         \/ r = s /\ RntoInvalid(s) /\ Lost(r)' = Lost(r) + 1
  <1> USE FileCommandsAssumption DEF FileInv, TypeOK
  <1>1. CASE r # s
    <2>1. heap'[r] = heap[r] /\ rnfr'[r] = rnfr[r] /\ doomed'[r] = doomed[r]
      BY <1>1 DEF Serve, Cwd, Mkd, Stor, Rmd, Rnfr, RntoInvalid, RntoRefused,
                  Rnto, Dele, Unlink
    <2> QED BY <2>1 DEF Lost, Held
  <1>2. CASE r = s
    <2> DEFINE kept == IF rnfr[s] # NULL THEN 1 ELSE 0
               dooms == IF doomed[s] # NULL THEN 1 ELSE 0
               keeps == IF rnfr'[s] # NULL THEN 1 ELSE 0
               doom == IF doomed'[s] # NULL THEN 1 ELSE 0
    <2>1. /\ Lost(s) = heap[s] - (1 + kept + dooms)
          /\ Lost(s)' = heap'[s] - (1 + keeps + doom)
          /\ heap[s] \in Nat
      BY DEF Lost, Held
    <2>2. CASE \E d \in Paths : Cwd(s, d) \/ Mkd(s, d) \/ Stor(s, d) \/ Rmd(s, d)
      BY <1>2, <2>1, <2>2 DEF Cwd, Mkd, Stor, Rmd
    <2>3. ASSUME NEW d \in Paths, Rnfr(s, d)
          PROVE  Lost(s)' = Lost(s)
      BY <2>1, <2>3 DEF Rnfr, OldRnfrFreed
    <2>4. CASE RntoInvalid(s)
      BY <1>2, <2>1, <2>4 DEF RntoInvalid, RnfrAfter
    <2>5. CASE RntoRefused(s) \/ \E d \in Paths : Rnto(s, d)
      BY <1>2, <2>1, <2>5 DEF RntoRefused, Rnto, RnfrAfter
    <2>6. ASSUME NEW d \in Paths, Dele(s, d)
          PROVE  Lost(s)' = Lost(s)
      BY <2>1, <2>6 DEF Dele, Ready
    <2>7. CASE Unlink(s)
      BY <1>2, <2>1, <2>7 DEF Unlink, Ready
    <2> QED BY <1>2, <2>2, <2>3, <2>4, <2>5, <2>6, <2>7 DEF Serve
  <1> QED BY <1>1, <1>2

LEMMA InvKept == FileInv /\ [Next]_vars => FileInv'
  <1> SUFFICES ASSUME FileInv, [Next]_vars PROVE FileInv'
    OBVIOUS
  <1>1. ASSUME NEW s \in Sessions, Serve(s)
        PROVE  FileInv'
    <2>1. ASSUME NEW r \in Sessions
          PROVE  Lost(r)' \in 0..MaxLeaks
      <3>1. Lost(r) \in 0..MaxLeaks
        BY DEF FileInv
      <3>2. RntoInvalid(s) => Lost(s) < MaxLeaks
        BY DEF RntoInvalid
      <3> QED BY <1>1, <3>1, <3>2, StringsKept, FileCommandsAssumption
    <2> QED BY <1>1, <2>1, TypesKept DEF FileInv
  <1>2. CASE UNCHANGED vars
    BY <1>2 DEF vars, FileInv, TypeOK, Lost, Held
  <1> QED BY <1>1, <1>2 DEF Next

\* The directory of a session that serves a command, and how it stays one.
LEMMA WdKept ==
  ASSUME FileInv, NEW s \in Sessions, Serve(s), IsDir(wd[s]), ~RenamesAbove(s)
  PROVE  IsDir(wd[s])'
  <1> USE FileCommandsAssumption DEF FileInv, TypeOK, IsDir
  <1>1. ASSUME NEW d \in Paths, Cwd(s, d)
        PROVE  IsDir(wd[s])'
    BY <1>1 DEF Cwd
  <1>2. ASSUME NEW d \in Paths, Mkd(s, d) \/ Stor(s, d)
        PROVE  IsDir(wd[s])'
    BY <1>2 DEF Mkd, Stor, IsFree, Exists
  <1>3. ASSUME NEW d \in Paths, Rmd(s, d)
        PROVE  IsDir(wd[s])'
    <2>1. CASE wd[s] # d
      BY <1>3, <2>1 DEF Rmd, MarkDir
    <2>2. CASE wd[s] = d
      <3>1. Parent(d) \in Paths /\ Under(Parent(d), d)
        BY <1>3, ParentIs DEF Rmd
      <3>2. tree[Parent(d)] = "dir"
        BY <3>1, <2>2 DEF IsTree
      <3>3. Parent(d) # d
        BY <3>1, NotUnderItself
      <3> QED BY <1>3, <2>2, <3>1, <3>2, <3>3 DEF Rmd, MarkDir
    <2> QED BY <2>1, <2>2
  <1>4. ASSUME NEW d \in Paths, Rnto(s, d)
        PROVE  IsDir(wd[s])'
    <2>1. rnfr[s] \in Paths /\ ~Under(rnfr[s], wd[s])
      BY <1>4 DEF Rnto, RnfrAfter, RenamesAbove
    <2>2. CASE rnfr[s] # d
      <3>1. Moved(rnfr[s], d)[MarkDir(wd[s], rnfr[s], d)] = "dir"
        BY <1>4, <2>1, <2>2, RenameKeepsWd DEF Rnto
      <3> QED BY <1>4, <2>2, <3>1 DEF Rnto
    <2>3. CASE rnfr[s] = d
      <3>1. Parent(d) \in Paths /\ Under(Parent(d), d)
        BY <1>4, ParentIs DEF Rnto
      <3>2. tree[Parent(d)] = "dir"
        BY <1>4, <2>3, <3>1 DEF Rnto, Renames, Exists, IsTree
      <3> QED BY <1>4, <2>3, <3>2 DEF Rnto, MarkDir
    <2> QED BY <2>2, <2>3
  <1>5. CASE Unlink(s)
    <2>1. doomed[s] \in Paths
      BY <1>5 DEF Unlink, Ready
    <2> QED BY <1>5, <2>1 DEF Unlink, IsRegular
  <1>6. CASE \/ RntoInvalid(s) \/ RntoRefused(s)
             \/ \E d \in Paths : Rnfr(s, d) \/ Dele(s, d)
    BY <1>6 DEF RntoInvalid, RntoRefused, Rnfr, Dele
  <1> QED BY <1>1, <1>2, <1>3, <1>4, <1>5, <1>6 DEF Serve

-----------------------------------------------------------------------------
\* The tree stays one under the commands of any number of sessions, and each
\* frees no path string that it keeps (handler_RNFR, handler_RNTO).
THEOREM FilesKept == Spec => []FileInv
  BY InitInv, InvKept, PTL DEF Spec

\* RMD and RNTO of its own working directory leave a session one that exists
\* (mark_dir), whatever other sessions there are and however deep the tree.
THEOREM WorkingDirectoryKept == Spec => OwnWdKept
  <1>1. FileInv /\ [Next]_vars =>
          [\A s \in Sessions :
             Serve(s) /\ IsDir(wd[s]) /\ ~RenamesAbove(s) => IsDir(wd[s])']_vars
    BY WdKept
  <1> QED BY <1>1, FilesKept, PTL DEF Spec, OwnWdKept

\* Every handler frees or keeps the path strings it makes, but RNTO with an
\* argument that is no path (handler_RNTO).
THEOREM StringsFreed == Spec => OnlyInvalidRntoLeaks
  <1>1. FileInv /\ [Next]_vars =>
          [\A s \in Sessions : Lost(s)' = Lost(s) \/ RntoInvalid(s)]_vars
    <2> SUFFICES ASSUME FileInv, Next, NEW s \in Sessions
                 PROVE  Lost(s)' = Lost(s) \/ RntoInvalid(s)
      OBVIOUS
    <2> QED BY StringsKept DEF Next
  <1> QED BY <1>1, FilesKept, PTL DEF Spec, OnlyInvalidRntoLeaks

=============================================================================
