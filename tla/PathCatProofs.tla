--------------------------- MODULE PathCatProofs ---------------------------
(***************************************************************************)
(* Proofs about PathCat, for every alphabet and arguments and working      *)
(* directories of every length: type correctness, that the paths made are  *)
(* normal, that the buffer suffices, and that it implements PathWalk.      *)
(*                                                                         *)
(* The inductive invariant adds to the three properties how far the buffer *)
(* can have grown by the time the loop has come to c, and that the loop    *)
(* never starts an item past the end of the argument.                      *)
(***************************************************************************)
EXTENDS PathCatRefinement, SequenceTheorems, WellFoundedInduction, TLAPS

\* The buffer has grown by no more than has been read of the argument.
Growth == pc # "Idle" => Len(buf) <= Len(wd) + c - 1

\* An item starts within the argument or at its end.
InArgument == pc = "Loop" => c <= Len(rel) + 1

PathInv == TypeOK /\ PathsNormal /\ Growth /\ InArgument

\* Pieces of paths that are put together.
LEMMA Associative ==
  ASSUME NEW a \in Seq(Chars), NEW b \in Seq(Chars), NEW t \in Seq(Chars)
  PROVE  (a \o b) \o t = a \o (b \o t)
  BY ConcatAssociative

-----------------------------------------------------------------------------
(***************************************************************************)
(* What the searches of path_cat find.                                     *)
(***************************************************************************)
\* A nonempty set of natural numbers has a least element.
LEMMA Least ==
  ASSUME NEW T, T \subseteq Nat, T # {}
  PROVE  \E x \in T : \A y \in T : x <= y
  <1>1. PICK x \in T : \A y \in T : <<y, x>> \notin OpToRel(<, Nat)
    BY NatLessThanWellFounded, WFMin
  <1>2. \A y \in T : ~(y < x)
    BY <1>1 DEF OpToRel
  <1> QED BY <1>2

\* while (*d != '/' && *d != '\0') d++: the first slash from i on, or the end.
LEMMA ItemEndIs ==
  ASSUME NEW s \in Seq(Chars), NEW i \in 1..(Len(s) + 1)
  PROVE  /\ ItemEnd(s, i) \in i..(Len(s) + 1)
         /\ ItemEnd(s, i) <= Len(s) => s[ItemEnd(s, i)] = Slash
         /\ \A j \in i..(ItemEnd(s, i) - 1) : s[j] # Slash
  <1> DEFINE T == {d \in i..(Len(s) + 1) : d <= Len(s) => s[d] = Slash}
  <1>1. Len(s) \in Nat
    BY LenProperties
  <1>2. T \subseteq Nat /\ Len(s) + 1 \in T
    BY <1>1
  <1>3. PICK d \in T : \A y \in T : d <= y
    BY <1>2, Least
  <1>4. \A j \in i..(d - 1) : s[j] # Slash
    BY <1>1, <1>3
  <1>5. \E e \in i..(Len(s) + 1) :
          /\ e <= Len(s) => s[e] = Slash
          /\ \A j \in i..(e - 1) : s[j] # Slash
    BY <1>3, <1>4
  <1> QED BY <1>5 DEF ItemEnd

\* An item is what stands there between two slashes.
LEMMA ItemIs ==
  ASSUME NEW s \in Seq(Chars), NEW i \in 1..(Len(s) + 1)
  PROVE  /\ ItemAt(s, i) \in Seq(Chars)
         /\ Len(ItemAt(s, i)) = ItemEnd(s, i) - i
  <1> DEFINE d == ItemEnd(s, i)
  <1>1. Len(s) \in Nat /\ d \in i..(Len(s) + 1)
    BY LenProperties, ItemEndIs
  <1>2. \A j \in i..(d - 1) : s[j] \in Chars
    BY <1>1, ElementOfSeq
  <1> HIDE DEF d
  <1>3. /\ SubSeq(s, i, d - 1) \in Seq(Chars)
        /\ Len(SubSeq(s, i, d - 1)) = IF i <= d - 1 THEN d - 1 - i + 1 ELSE 0
    BY <1>1, <1>2, SubSeqProperties
  <1>4. Len(SubSeq(s, i, d - 1)) = d - i
    BY <1>1, <1>3
  <1> QED BY <1>3, <1>4 DEF d, ItemAt

\* while (buf[len - 1] != '/') len--: it stops, for a path begins with a slash.
LEMMA LastSlashIs ==
  ASSUME NEW s \in Seq(Chars), Len(s) >= 1, s[1] = Slash
  PROVE  /\ LastSlash(s) \in 1..Len(s)
         /\ s[LastSlash(s)] = Slash
         /\ \A j \in (LastSlash(s) + 1)..Len(s) : s[j] # Slash
  <1> DEFINE T == {k \in 0..(Len(s) - 1) : s[Len(s) - k] = Slash}
  <1>1. Len(s) \in Nat
    BY LenProperties
  <1>2. T \subseteq Nat /\ Len(s) - 1 \in T
    BY <1>1
  <1>3. PICK k \in T : \A y \in T : k <= y
    BY <1>2, Least
  <1>4. ASSUME NEW j \in (Len(s) - k + 1)..Len(s), s[j] = Slash
        PROVE  FALSE
    <2>1. Len(s) - j \in 0..(Len(s) - 1) /\ Len(s) - (Len(s) - j) = j
      BY <1>1, <1>3
    <2>2. Len(s) - j \in T
      BY <2>1, <1>4
    <2>3. k <= Len(s) - j
      BY <2>2, <1>3
    <2> QED BY <2>3, <1>1, <1>3
  <1>5. \E i \in 1..Len(s) :
          s[i] = Slash /\ \A j \in (i + 1)..Len(s) : s[j] # Slash
    <2>1. Len(s) - k \in 1..Len(s) /\ s[Len(s) - k] = Slash
      BY <1>1, <1>3
    <2> QED BY <2>1, <1>4
  <1> QED BY <1>5 DEF LastSlash

-----------------------------------------------------------------------------
(***************************************************************************)
(* What a round of the loop does to a normal path.                         *)
(***************************************************************************)
\* ".." leaves a normal path normal, and no longer.
LEMMA GoUpNormal ==
  ASSUME NEW b \in Seq(Chars), Normal(b)
  PROVE  /\ GoUp(b) \in Seq(Chars)
         /\ Normal(GoUp(b))
         /\ Len(GoUp(b)) <= Len(b)
  <1> DEFINE n == LastSlash(b)
             m == IF n > 1 THEN n - 1 ELSE n
             p == SubSeq(b, 1, m)
  <1>1. Len(b) \in Nat /\ Len(b) >= 1 /\ b[1] = Slash
    BY LenProperties DEF Normal
  <1>2. n \in 1..Len(b) /\ b[n] = Slash
    BY <1>1, LastSlashIs
  <1> HIDE DEF n
  <1>3. m \in 1..Len(b) /\ (m = 1 \/ (m < Len(b) /\ b[m + 1] = Slash))
    BY <1>1, <1>2
  <1> HIDE DEF m
  <1>4. \A i \in 1..m : b[i] \in Chars
    BY <1>1, <1>3, ElementOfSeq
  <1>5. /\ p \in Seq(Chars)
        /\ Len(p) = m
        /\ \A i \in 1..m : p[i] = b[i]
    <2>1. /\ p \in Seq(Chars)
          /\ Len(p) = IF 1 <= m THEN m - 1 + 1 ELSE 0
          /\ \A i \in 1..(m - 1 + 1) : p[i] = b[1 + i - 1]
      BY <1>3, <1>4, SubSeqProperties
    <2> QED BY <2>1, <1>1, <1>3
  <1> HIDE DEF p
  <1>6. \A i \in 1..m : p[i] = Slash => ~DotsAt(p, i)
    <2> SUFFICES ASSUME NEW i \in 1..m, p[i] = Slash, DotsAt(p, i)
                 PROVE  FALSE
      OBVIOUS
    <2>1. m > 1 /\ m < Len(b) /\ b[m + 1] = Slash
      BY <1>1, <1>3, <1>5 DEF DotsAt
    <2>2. DotsAt(b, i)
      BY <1>1, <1>3, <1>5, <2>1 DEF DotsAt
    <2> QED BY <2>2, <1>1, <1>3, <1>5 DEF Normal
  <1>7. Len(p) > 1 => p[Len(p)] # Slash
    BY <1>1, <1>3, <1>5 DEF Normal
  <1>8. \A i \in 1..(m - 1) : p[i] = Slash => p[i + 1] # Slash
    BY <1>1, <1>3, <1>5 DEF Normal
  <1>9. Normal(p)
    BY <1>1, <1>3, <1>5, <1>6, <1>7, <1>8 DEF Normal
  <1>10. GoUp(b) = p
    BY DEF GoUp, n, m, p
  <1> QED BY <1>1, <1>3, <1>5, <1>9, <1>10

\* A name is put after one slash, the root's own or a new one, at k.
LEMMA AddNameIs ==
  ASSUME NEW b \in Seq(Chars), Normal(b), NEW item \in Seq(Chars)
  PROVE  LET r == AddName(b, item)
             k == IF Len(b) > 1 THEN Len(b) + 1 ELSE 1
         IN  /\ r \in Seq(Chars)
             /\ Len(r) = k + Len(item)
             /\ r[k] = Slash
             /\ \A i \in 1..(k - 1) : r[i] = b[i]
             /\ \A i \in 1..Len(item) : r[k + i] = item[i]
  <1>1. Len(b) \in Nat /\ Len(b) >= 1 /\ b[1] = Slash /\ Len(item) \in Nat
    BY LenProperties DEF Normal
  <1>2. CASE Len(b) > 1
    <2>1. Root \in Seq(Chars) /\ Len(Root) = 1 /\ Root[1] = Slash
      BY DEF Root, Chars
    <2> DEFINE q == b \o Root
    <2>2. /\ q \in Seq(Chars)
          /\ Len(q) = Len(b) + Len(Root)
          /\ \A i \in 1..(Len(b) + Len(Root)) :
               q[i] = IF i <= Len(b) THEN b[i] ELSE Root[i - Len(b)]
      BY <2>1, ConcatProperties
    <2>3. q[Len(b) + 1] = Slash /\ \A i \in 1..Len(b) : q[i] = b[i]
      BY <1>1, <2>1, <2>2
    <2> HIDE DEF q
    <2>9. q \in Seq(Chars)
      BY <2>2
    <2>4. /\ q \o item \in Seq(Chars)
          /\ Len(q \o item) = Len(q) + Len(item)
          /\ \A i \in 1..(Len(q) + Len(item)) :
               (q \o item)[i] = IF i <= Len(q) THEN q[i] ELSE item[i - Len(q)]
      BY <2>9, ConcatProperties
    <2>5. AddName(b, item) = q \o item
      BY <1>2 DEF AddName, q
    <2> DEFINE r == q \o item
    <2> HIDE DEF r
    <2>6. /\ r \in Seq(Chars)
          /\ Len(r) = Len(b) + 1 + Len(item)
          /\ r[Len(b) + 1] = Slash
          /\ \A i \in 1..Len(b) : r[i] = b[i]
          /\ \A i \in 1..Len(item) : r[Len(b) + 1 + i] = item[i]
      BY <1>1, <2>1, <2>2, <2>3, <2>4 DEF r
    <2> QED BY <1>1, <1>2, <2>5, <2>6 DEF r
  <1>3. CASE Len(b) = 1
    <2>1. AddName(b, item) = b \o item
      BY <1>3 DEF AddName
    <2>2. /\ b \o item \in Seq(Chars)
          /\ Len(b \o item) = Len(b) + Len(item)
          /\ \A i \in 1..(Len(b) + Len(item)) :
               (b \o item)[i] = IF i <= Len(b) THEN b[i] ELSE item[i - Len(b)]
      BY ConcatProperties
    <2> DEFINE r == b \o item
    <2> HIDE DEF r
    <2>3. /\ r \in Seq(Chars)
          /\ Len(r) = 1 + Len(item)
          /\ r[1] = Slash
          /\ \A i \in 1..Len(item) : r[1 + i] = item[i]
      BY <1>1, <1>3, <2>2 DEF r
    <2> QED BY <1>1, <1>3, <2>1, <2>3 DEF r
  <1>4. Len(b) \in Nat /\ Len(b) >= 1
    BY <1>1
  <1>5. Len(b) > 1 \/ Len(b) = 1
    <2>1. \A n \in Nat : n >= 1 => n > 1 \/ n = 1
      OBVIOUS
    <2> QED BY <1>4, <2>1
  <1> QED BY <1>2, <1>3, <1>5

\* A dot is no slash.
LEMMA SlashIsNoDot == Dot # Slash
  BY DEF Dot, Slash

\* What an item of one or two dots is.
LEMMA DotsAreItems ==
  ASSUME NEW item \in Seq(Chars)
  PROVE  /\ Len(item) = 1 /\ item[1] = Dot => item = <<Dot>>
         /\ Len(item) = 2 /\ item[1] = Dot /\ item[2] = Dot => item = DotDot
  <1>1. Dot \in Chars
    BY DEF Chars, NameChars
  <1>2. <<Dot>> \in Seq(Chars) /\ DotDot \in Seq(Chars)
    BY <1>1 DEF DotDot
  <1>3. ASSUME Len(item) = 1, item[1] = Dot
        PROVE  item = <<Dot>>
    BY <1>2, <1>3, SeqEqual
  <1>4. ASSUME Len(item) = 2, item[1] = Dot, item[2] = Dot
        PROVE  item = DotDot
    BY <1>2, <1>4, SeqEqual DEF DotDot
  <1> QED BY <1>3, <1>4

\* A nonempty name that is no "." or ".." leaves a normal path normal, and longer
\* by the name and a slash at most.
LEMMA AddNameNormal ==
  ASSUME NEW b \in Seq(Chars), Normal(b), NEW item \in Seq(Chars),
         IsName(item), item \notin Stays, item # DotDot
  PROVE  /\ AddName(b, item) \in Seq(Chars)
         /\ Normal(AddName(b, item))
         /\ Len(AddName(b, item)) <= Len(b) + 1 + Len(item)
  <1> DEFINE r == AddName(b, item)
             k == IF Len(b) > 1 THEN Len(b) + 1 ELSE 1
             n == Len(item)
  <1>1. /\ r \in Seq(Chars)
        /\ Len(r) = k + n
        /\ r[k] = Slash
        /\ \A i \in 1..(k - 1) : r[i] = b[i]
        /\ \A i \in 1..n : r[k + i] = item[i]
    BY AddNameIs
  <1>2. Len(b) \in Nat /\ Len(b) >= 1
    BY LenProperties DEF Normal
  <1>3. n \in Nat /\ n >= 1
    BY LenProperties, EmptySeq DEF Stays
  <1>4. \A i \in 1..n : item[i] \in NameChars /\ item[i] # Slash
    BY PathCatAssumption, SlashIsNoDot DEF IsName, NameChars
  <1>5. ~(n = 1 /\ item[1] = Dot)
    <2> SUFFICES ASSUME n = 1, item[1] = Dot
                 PROVE  FALSE
      OBVIOUS
    <2>1. item = <<Dot>>
      BY DotsAreItems
    <2> QED BY <2>1 DEF Stays
  <1>6. ~(n = 2 /\ item[1] = Dot /\ item[2] = Dot)
    BY DotsAreItems
  <1> HIDE DEF n, r
  <1>7. k \in Nat /\ k >= 1 /\ (k > 1 => k = Len(b) + 1 /\ b[Len(b)] # Slash)
    BY <1>2 DEF Normal
  <1>8. k > 1 => \A i \in 1..Len(b) : b[i] = Slash => ~DotsAt(b, i)
    BY DEF Normal
  <1>9. k > 1 => \A i \in 1..(Len(b) - 1) : b[i] = Slash => b[i + 1] # Slash
    BY DEF Normal
  <1>10. \A i \in 1..(k - 1) : b[i] \in NameChars \cup {Slash}
    BY <1>2, <1>7 DEF Normal
  <1>11. k > 1 => b[1] = Slash
    BY DEF Normal
  <1> HIDE DEF k
  <1>12. \A i \in 1..(k + n) : i < k \/ i = k \/ i - k \in 1..n
    BY <1>3, <1>7
  <1>13. \A i \in 1..(k + n) : i > k => r[i] # Slash /\ r[i] \in NameChars
    <2> TAKE i \in 1..(k + n)
    <2> HAVE i > k
    <2>1. i - k \in 1..n /\ k + (i - k) = i
      BY <1>3, <1>7
    <2> QED BY <2>1, <1>1, <1>4
  <1>14. r[1] = Slash
    BY <1>1, <1>7, <1>11
  <1>15. r[k + n] # Slash
    BY <1>3, <1>7, <1>13
  <1>16. \A i \in 1..(k + n - 1) : r[i] = Slash => r[i + 1] # Slash
    <2> SUFFICES ASSUME NEW i \in 1..(k + n - 1), r[i] = Slash, r[i + 1] = Slash
                 PROVE  FALSE
      OBVIOUS
    <2>1. i + 1 <= k
      BY <1>3, <1>7, <1>13
    <2>2. r[i] = b[i]
      BY <2>1, <1>1, <1>7
    <2>3. i = Len(b) \/ b[i + 1] = Slash
      BY <2>1, <1>1, <1>2, <1>7
    <2> QED BY <2>1, <2>2, <2>3, <1>2, <1>7, <1>9
  <1>17. \A i \in 1..(k + n) : r[i] = Slash => ~DotsAt(r, i)
    <2> SUFFICES ASSUME NEW i \in 1..(k + n), r[i] = Slash, DotsAt(r, i)
                 PROVE  FALSE
      OBVIOUS
    <2>1. i <= k
      BY <1>3, <1>7, <1>13
    <2>2. CASE i = k
      <3>1. r[k + 1] = item[1]
        BY <1>1, <1>3
      <3>2. n >= 2 => r[k + 2] = item[2] /\ r[k + 2] # Slash
        BY <1>1, <1>3, <1>4
      <3>3. n >= 3 => r[k + 3] # Slash
        BY <1>3, <1>7, <1>13
      <3> QED BY <2>2, <3>1, <3>2, <3>3, <1>1, <1>3, <1>5, <1>6, <1>7 DEF DotsAt
    <2>3. CASE i < k
      <3>1. r[i] = b[i] /\ i \in 1..Len(b) /\ i < Len(b)
        BY <2>3, <1>1, <1>2, <1>7
      <3>2. \A j \in 1..Len(b) : r[j] = b[j]
        BY <2>3, <1>1, <1>2, <1>7
      <3>3. DotsAt(b, i)
        <4>1. Dot # Slash
          BY SlashIsNoDot
        <4> QED BY <4>1, <2>3, <3>1, <3>2, <1>1, <1>2, <1>3, <1>7 DEF DotsAt
      <3> QED BY <3>1, <3>3, <2>3, <1>7, <1>8
    <2> QED BY <2>1, <2>2, <2>3, <1>7
  <1>18. \A i \in 1..(k + n) : r[i] \in NameChars \cup {Slash}
    <2> TAKE i \in 1..(k + n)
    <2>1. CASE i < k
      BY <2>1, <1>1, <1>7, <1>10
    <2>2. CASE i = k
      BY <2>2, <1>1
    <2>3. CASE i > k
      BY <2>3, <1>13
    <2> QED BY <2>1, <2>2, <2>3, <1>7
  <1>19. Normal(r)
    BY <1>1, <1>3, <1>7, <1>14, <1>15, <1>16, <1>17, <1>18 DEF Normal
  <1>20. Len(r) <= Len(b) + 1 + n
    BY <1>1, <1>2, <1>3 DEF k
  <1> QED BY <1>1, <1>19, <1>20 DEF r, n

\* One round of the loop, whatever the item.
LEMMA ProcessNormal ==
  ASSUME NEW b \in Seq(Chars), Normal(b), NEW item \in Seq(Chars), IsName(item)
  PROVE  /\ Process(b, item) \in Seq(Chars)
         /\ Normal(Process(b, item))
         /\ Len(Process(b, item)) <= Len(b) + 1 + Len(item)
  <1>1. Len(b) \in Nat /\ Len(item) \in Nat /\ Len(GoUp(b)) \in Nat
    BY LenProperties, GoUpNormal
  <1>2. CASE item \in Stays
    BY <1>1, <1>2 DEF Process
  <1>3. CASE item \notin Stays /\ item = DotDot
    BY <1>1, <1>3, GoUpNormal DEF Process
  <1>4. CASE item \notin Stays /\ item # DotDot
    BY <1>4, AddNameNormal DEF Process
  <1> QED BY <1>2, <1>3, <1>4

\* The root, where a session and an absolute argument begin, is normal.
LEMMA RootNormal == Root \in Seq(Chars) /\ Len(Root) = 1 /\ Normal(Root)
  <1>1. Root \in Seq(Chars) /\ Len(Root) = 1 /\ Root[1] = Slash
    BY DEF Root, Chars
  <1>2. ~DotsAt(Root, 1)
    BY <1>1 DEF DotsAt
  <1> QED BY <1>1, <1>2 DEF Normal

-----------------------------------------------------------------------------
(***************************************************************************)
(* The inductive invariant.                                                *)
(***************************************************************************)
LEMMA PathInit == Init => PathInv
  <1> SUFFICES ASSUME Init
               PROVE  PathInv
    OBVIOUS
  <1>1. rel \in Seq(Chars) /\ Len(rel) = 0
    BY EmptySeq DEF Init
  <1>2. TypeOK
    BY <1>1, RootNormal DEF Init, TypeOK
  <1> QED BY <1>2, RootNormal DEF Init, PathInv, PathsNormal, Growth, InArgument

\* Call: resolving starts at the root or the working directory.
LEMMA CallKeeps ==
  ASSUME PathInv, NEW arg \in Args, Call(arg)
  PROVE  PathInv'
  <1>1. arg \in Seq(Chars)
    BY SeqDef, PathCatAssumption DEF Args
  <1>2. Len(arg) \in Nat /\ (arg # <<>> => Len(arg) >= 1)
    BY <1>1, LenProperties, EmptySeq
  <1>3. wd \in Seq(Chars) /\ Normal(wd) /\ Len(wd) \in Nat /\ Len(wd) >= 1
    BY LenProperties DEF PathInv, TypeOK, PathsNormal, Normal
  <1>4. /\ Start(wd, arg) \in Seq(Chars)
        /\ Normal(Start(wd, arg))
        /\ Len(Start(wd, arg)) <= Len(wd)
    BY <1>3, RootNormal DEF Start
  <1>5. wd' = wd /\ rel' = arg /\ buf' = Start(wd, arg) /\ c' = 1
    BY DEF Call
  <1>6. pc' = "Done" \/ (pc' = "Loop" /\ arg # <<>>)
    BY DEF Call
  <1>7. TypeOK'
    BY <1>1, <1>2, <1>3, <1>4, <1>5, <1>6 DEF TypeOK
  <1>8. PathsNormal'
    BY <1>3, <1>4, <1>5 DEF PathsNormal
  <1>9. Growth' /\ InArgument'
    BY <1>2, <1>3, <1>4, <1>5, <1>6 DEF Growth, InArgument
  <1> QED BY <1>7, <1>8, <1>9 DEF PathInv

\* NextItem: the item is a name, or one of the three that are none.
LEMMA NextItemKeeps ==
  ASSUME PathInv, NextItem
  PROVE  PathInv'
  <1> DEFINE item == ItemAt(rel, c)
             d == ItemEnd(rel, c)
  <1>1. /\ pc = "Loop" /\ IsName(item)
        /\ wd' = wd /\ rel' = rel /\ buf' = Process(buf, item) /\ c' = d + 1
        /\ pc' = IF d > Len(rel) THEN "Done" ELSE "Loop"
    BY DEF NextItem, After
  <1>2. /\ wd \in Seq(Chars) /\ rel \in Seq(Chars) /\ buf \in Seq(Chars)
        /\ Len(wd) \in Nat /\ Len(rel) \in Nat /\ Len(buf) \in Nat
        /\ Normal(wd) /\ Normal(buf)
    BY LenProperties DEF PathInv, TypeOK, PathsNormal
  <1>3. c \in 1..(Len(rel) + 1) /\ Len(buf) <= Len(wd) + c - 1
    BY <1>1, <1>2 DEF PathInv, TypeOK, Growth, InArgument
  <1>4. item \in Seq(Chars) /\ Len(item) = d - c /\ d \in c..(Len(rel) + 1)
    BY <1>2, <1>3, ItemIs, ItemEndIs
  <1>5. /\ Process(buf, item) \in Seq(Chars)
        /\ Normal(Process(buf, item))
        /\ Len(Process(buf, item)) <= Len(buf) + 1 + Len(item)
    BY <1>1, <1>2, <1>4, ProcessNormal
  <1>6. Len(Process(buf, item)) \in Nat
    BY <1>5, LenProperties
  <1> HIDE DEF item, d
  <1>7. TypeOK'
    BY <1>1, <1>2, <1>3, <1>4, <1>5 DEF TypeOK
  <1>8. PathsNormal'
    BY <1>1, <1>2, <1>5 DEF PathsNormal
  <1>9. Growth' /\ InArgument'
    BY <1>1, <1>2, <1>3, <1>4, <1>5, <1>6 DEF Growth, InArgument
  <1> QED BY <1>7, <1>8, <1>9 DEF PathInv

\* Free after a call: wd is as it was, or the path made or its parent.
LEMMA FreeKeeps ==
  ASSUME PathInv, Free, wd' \in Seq(Chars), Normal(wd')
  PROVE  PathInv'
  <1>1. /\ rel' \in Seq(Chars) /\ Len(rel') = 0
        /\ buf' = Root /\ c' = 1 /\ pc' = "Idle"
    BY EmptySeq DEF Free
  <1>2. TypeOK'
    BY <1>1, RootNormal DEF TypeOK
  <1> QED BY <1>1, <1>2, RootNormal DEF PathInv, PathsNormal, Growth, InArgument

LEMMA ChangeWdKeeps ==
  ASSUME PathInv, ChangeWd
  PROVE  PathInv'
  <1>1. buf \in Seq(Chars) /\ Normal(buf)
    BY DEF PathInv, TypeOK, PathsNormal
  <1>2. DotDot \in Seq(Chars) /\ IsName(DotDot)
    BY DEF DotDot, IsName, Chars, NameChars
  <1>3. Process(buf, DotDot) \in Seq(Chars) /\ Normal(Process(buf, DotDot))
    BY <1>1, <1>2, ProcessNormal
  <1>4. wd' \in {buf, Process(buf, DotDot)} /\ Free
    BY DEF ChangeWd
  <1> QED BY <1>1, <1>3, <1>4, FreeKeeps

\* Every step of path_cat and its callers keeps the invariant.
LEMMA PathStep == PathInv /\ [Next]_vars => PathInv'
  <1> SUFFICES ASSUME PathInv, [Next]_vars
               PROVE  PathInv'
    OBVIOUS
  <1>1. CASE \E arg \in Args : Call(arg)
    BY <1>1, CallKeeps
  <1>2. CASE NextItem
    BY <1>2, NextItemKeeps
  <1>3. CASE InvalidItem
    BY <1>3 DEF InvalidItem, PathInv, TypeOK, PathsNormal, Growth, InArgument
  <1>4. CASE Return
    <2>1. wd' = wd /\ Free
      BY <1>4 DEF Return
    <2>2. wd \in Seq(Chars) /\ Normal(wd)
      BY DEF PathInv, TypeOK, PathsNormal
    <2> QED BY <2>1, <2>2, FreeKeeps
  <1>5. CASE ChangeWd
    BY <1>5, ChangeWdKeeps
  <1>6. CASE UNCHANGED vars
    BY <1>6 DEF vars, PathInv, TypeOK, PathsNormal, Growth, InArgument
  <1> QED BY <1>1, <1>2, <1>3, <1>4, <1>5, <1>6 DEF Next

\* The invariant holds throughout.
THEOREM PathInvariant == Spec => []PathInv
  BY PathInit, PathStep, PTL DEF Spec

\* Every path is a sequence of characters, and the loop never reads the argument
\* beyond its NUL.
THEOREM PathTypes == Spec => []TypeOK
  <1>1. PathInv => TypeOK
    BY DEF PathInv
  <1> QED BY <1>1, PathInvariant, PTL

\* path_cat makes normal paths out of whatever commands send, for arguments and
\* working directories of any length: PathsNormal.
THEOREM PathsStayNormal == Spec => []PathsNormal
  <1>1. PathInv => PathsNormal
    BY DEF PathInv
  <1> QED BY <1>1, PathInvariant, PTL

\* malloc(strlen(wd) + strlen(rel) + 2) is enough at any length: BufferSuffices.
THEOREM BufferIsEnough == Spec => []BufferSuffices
  <1>1. PathInv => BufferSuffices
    <2> SUFFICES ASSUME PathInv, pc # "Idle"
                 PROVE  Len(buf) + 1 <= Size(wd, rel)
      BY DEF BufferSuffices
    <2>1. Len(wd) \in Nat /\ Len(rel) \in Nat /\ Len(buf) \in Nat
      BY LenProperties DEF PathInv, TypeOK
    <2>2. c \in 1..(Len(rel) + 2) /\ Len(buf) <= Len(wd) + c - 1
      BY DEF PathInv, TypeOK, Growth
    <2> QED BY <2>1, <2>2 DEF Size
  <1> QED BY <1>1, PathInvariant, PTL

-----------------------------------------------------------------------------
(***************************************************************************)
(* The items of a path, for any characters.  That ItemsFromEnd, which is   *)
(* recursive, has a value takes an induction over sets of numbers.         *)
(***************************************************************************)
\* What holds of 0, and of every number after one it holds of, holds of all.
LEMMA Inductive ==
  ASSUME NEW T, 0 \in T, \A n \in Nat : n \in T => n + 1 \in T
  PROVE  Nat \subseteq T
  <1> SUFFICES ASSUME Nat \ T # {} PROVE FALSE
    OBVIOUS
  <1>1. PICK n \in Nat \ T : \A m \in Nat \ T : n <= m
    BY Least
  <1>2. n # 0 /\ n - 1 \in Nat
    BY <1>1
  <1> QED BY <1>1, <1>2

\* What ItemsFromEnd is to be of the last n characters of s.
FromEnd(s, n, f) ==
  f = [k \in 0..n |-> IF k = 0 THEN <<<<>>>> ELSE AddChar(s[Len(s) - k + 1], f[k - 1])]

LEMMA FromEndExists ==
  ASSUME NEW s, NEW n \in Nat
  PROVE  \E f : FromEnd(s, n, f)
  <1> DEFINE T == {m \in Nat : \E f : FromEnd(s, m, f)}
  <1>1. 0 \in T
    <2>1. FromEnd(s, 0, [k \in 0..0 |-> <<<<>>>>])
      BY DEF FromEnd
    <2> QED BY <2>1
  <1>2. ASSUME NEW m \in Nat, m \in T
        PROVE  m + 1 \in T
    <2>1. PICK f : FromEnd(s, m, f)
      BY <1>2
    <2> DEFINE g == [k \in 0..(m + 1) |-> IF k = 0 THEN <<<<>>>>
                                          ELSE AddChar(s[Len(s) - k + 1], f[k - 1])]
    <2>2. ASSUME NEW k \in 0..m
          PROVE  g[k] = f[k]
      BY <2>1, <2>2 DEF FromEnd
    <2>3. ASSUME NEW k \in 0..(m + 1)
          PROVE  g[k] = IF k = 0 THEN <<<<>>>> ELSE AddChar(s[Len(s) - k + 1], g[k - 1])
      <3>1. CASE k = 0
        BY <3>1
      <3>2. CASE k # 0
        <4>1. k - 1 \in 0..m
          BY <3>2
        <4> QED BY <2>2, <3>2, <4>1
      <3> QED BY <3>1, <3>2
    <2>4. FromEnd(s, m + 1, g)
      <3> HIDE DEF g
      <3>1. g = [k \in 0..(m + 1) |-> g[k]]
        BY DEF g
      <3> QED BY <2>3, <3>1 DEF FromEnd
    <2> QED BY <2>4
  <1> HIDE DEF T
  <1>3. Nat \subseteq T
    BY <1>1, <1>2, Inductive
  <1> QED BY <1>3 DEF T

LEMMA ItemsFromEndIs ==
  ASSUME NEW s \in Seq(Chars)
  PROVE  FromEnd(s, Len(s), ItemsFromEnd(s))
  <1>1. \E f : FromEnd(s, Len(s), f)
    BY LenProperties, FromEndExists
  <1> QED BY <1>1 DEF FromEnd, ItemsFromEnd

LEMMA ItemsOfNothing == ItemsOf(<<>>) = <<<<>>>>
  <1> DEFINE f == ItemsFromEnd(<<>>)
  <1>1. <<>> \in Seq(Chars) /\ Len(<<>>) = 0
    OBVIOUS
  <1>2. FromEnd(<<>>, 0, f)
    BY <1>1, ItemsFromEndIs
  <1> HIDE DEF f
  <1>3. f[0] = <<<<>>>>
    BY <1>2 DEF FromEnd
  <1> QED BY <1>1, <1>3 DEF f, ItemsOf

\* One character more before s makes of its items what AddChar does.
LEMMA ItemsOfOneMore ==
  ASSUME NEW s \in Seq(Chars), NEW ch \in Chars
  PROVE  ItemsOf(<<ch>> \o s) = AddChar(ch, ItemsOf(s))
  <1> DEFINE t == <<ch>> \o s
             f == ItemsFromEnd(s)
             g == ItemsFromEnd(t)
             T == {k \in Nat : k <= Len(s) => g[k] = f[k]}
  <1>1. /\ t \in Seq(Chars) /\ Len(s) \in Nat /\ Len(t) = Len(s) + 1 /\ t[1] = ch
        /\ \A i \in 1..Len(s) : t[i + 1] = s[i]
    OBVIOUS
  <1> HIDE DEF t
  <1>2. FromEnd(s, Len(s), f) /\ FromEnd(t, Len(t), g)
    BY <1>1, ItemsFromEndIs
  <1> HIDE DEF f, g
  <1>3. 0 \in T
    BY <1>1, <1>2 DEF FromEnd
  <1>4. ASSUME NEW k \in Nat, k \in T
        PROVE  k + 1 \in T
    <2> SUFFICES ASSUME k + 1 <= Len(s) PROVE g[k + 1] = f[k + 1]
      OBVIOUS
    <2>1. g[k] = f[k]
      BY <1>1, <1>4
    <2>2. k + 1 \in 0..Len(s) /\ k + 1 \in 0..Len(t) /\ (k + 1) - 1 = k /\ k + 1 # 0
      BY <1>1
    <2>3. f[k + 1] = AddChar(s[Len(s) - (k + 1) + 1], f[k])
      BY <1>2, <2>2 DEF FromEnd
    <2>4. g[k + 1] = AddChar(t[Len(t) - (k + 1) + 1], g[k])
      BY <1>2, <2>2 DEF FromEnd
    <2>5. t[Len(t) - (k + 1) + 1] = s[Len(s) - (k + 1) + 1]
      <3>1. Len(s) - (k + 1) + 1 \in 1..Len(s)
        BY <1>1
      <3>2. Len(t) - (k + 1) + 1 = (Len(s) - (k + 1) + 1) + 1
        BY <1>1
      <3> QED BY <1>1, <3>1, <3>2
    <2> QED BY <2>1, <2>3, <2>4, <2>5
  <1> HIDE DEF T
  <1>5. Nat \subseteq T
    BY <1>3, <1>4, Inductive
  <1>6. g[Len(s)] = f[Len(s)]
    BY <1>1, <1>5 DEF T
  <1>7. g[Len(t)] = AddChar(t[Len(t) - Len(t) + 1], g[Len(t) - 1])
    <2>1. Len(t) \in 0..Len(t) /\ Len(t) # 0
      BY <1>1
    <2> QED BY <1>2, <2>1 DEF FromEnd
  <1>8. t[Len(t) - Len(t) + 1] = ch /\ Len(t) - 1 = Len(s)
    BY <1>1
  <1>9. ItemsOf(t) = AddChar(ch, ItemsOf(s))
    BY <1>6, <1>7, <1>8 DEF f, g, ItemsOf
  <1> QED BY <1>9 DEF t

\* A sequence is its first element and the rest.
LEMMA FirstAndRest ==
  ASSUME NEW S, NEW s \in Seq(S), NEW n \in Nat, Len(s) = n + 1
  PROVE  /\ Head(s) \in S /\ Tail(s) \in Seq(S) /\ Len(Tail(s)) = n
         /\ s = <<Head(s)>> \o Tail(s)
  OBVIOUS

\* An element before a sequence is its head, and the sequence its tail.
LEMMA HeadAndTail ==
  ASSUME NEW S, NEW e \in S, NEW s \in Seq(S)
  PROVE  /\ <<e>> \o s \in Seq(S) /\ <<e>> \o s # <<>>
         /\ Len(<<e>> \o s) = Len(s) + 1
         /\ Head(<<e>> \o s) = e
         /\ Tail(<<e>> \o s) = s
  OBVIOUS

\* Sequences of sequences of characters.
Items == Seq(Seq(Chars))

\* Two slashes enclose an item, and so do the ends: there is always one.
LEMMA AddCharIs ==
  ASSUME NEW ch \in Chars, NEW first \in Seq(Chars), NEW rest \in Items
  PROVE  /\ <<first>> \o rest \in Items /\ <<first>> \o rest # <<>>
         /\ AddChar(ch, <<first>> \o rest) =
              IF ch = Slash THEN <<<<>>>> \o (<<first>> \o rest)
              ELSE <<<<ch>> \o first>> \o rest
  <1> DEFINE S == Seq(Chars)
  <1>1. first \in S /\ rest \in Seq(S)
    BY DEF Items
  <1> HIDE DEF S
  <1>2. /\ <<first>> \o rest \in Seq(S) /\ <<first>> \o rest # <<>>
        /\ Head(<<first>> \o rest) = first /\ Tail(<<first>> \o rest) = rest
    BY <1>1, HeadAndTail
  <1> QED BY <1>2 DEF AddChar, S, Items

LEMMA AddOther ==
  ASSUME NEW ch, ch # Slash, NEW first \in Seq(Chars), NEW rest \in Items
  PROVE  AddChar(ch, <<first>> \o rest) = <<<<ch>> \o first>> \o rest
  <1> DEFINE S == Seq(Chars)
  <1>1. first \in S /\ rest \in Seq(S)
    BY DEF Items
  <1> HIDE DEF S
  <1>2. Head(<<first>> \o rest) = first /\ Tail(<<first>> \o rest) = rest
    BY <1>1, HeadAndTail
  <1> QED BY <1>2 DEF AddChar

LEMMA ItemsTypes ==
  ASSUME NEW s \in Seq(Chars)
  PROVE  /\ ItemsOf(s) \in Items /\ ItemsOf(s) # <<>>
         /\ Head(ItemsOf(s)) \in Seq(Chars) /\ Tail(ItemsOf(s)) \in Items
         /\ ItemsOf(s) = <<Head(ItemsOf(s))>> \o Tail(ItemsOf(s))
  <1> DEFINE T == {n \in Nat : \A t \in Seq(Chars) :
                     Len(t) = n => ItemsOf(t) \in Items /\ ItemsOf(t) # <<>>}
  <1>1. 0 \in T
    <2>1. ASSUME NEW t \in Seq(Chars), Len(t) = 0
          PROVE  ItemsOf(t) \in Items /\ ItemsOf(t) # <<>>
      <3>1. ItemsOf(t) = <<<<>>>>
        BY <2>1, ItemsOfNothing
      <3>2. <<>> \in Seq(Chars)
        OBVIOUS
      <3>3. <<<<>>>> \in Items /\ <<<<>>>> # <<>>
        BY <3>2 DEF Items
      <3> QED BY <3>1, <3>3
    <2> QED BY <2>1
  <1>2. ASSUME NEW n \in Nat, n \in T
        PROVE  n + 1 \in T
    <2>1. ASSUME NEW t \in Seq(Chars), Len(t) = n + 1
          PROVE  ItemsOf(t) \in Items /\ ItemsOf(t) # <<>>
      <3>1. PICK ch, r : ch = Head(t) /\ r = Tail(t)
        OBVIOUS
      <3>2. ch \in Chars /\ r \in Seq(Chars) /\ Len(r) = n /\ t = <<ch>> \o r
        BY <2>1, <3>1, FirstAndRest
      <3>3. ItemsOf(r) \in Items /\ ItemsOf(r) # <<>>
        BY <1>2, <3>2
      <3>4. PICK first, rest : first = Head(ItemsOf(r)) /\ rest = Tail(ItemsOf(r))
        OBVIOUS
      <3>5. /\ first \in Seq(Chars) /\ rest \in Items
            /\ ItemsOf(r) = <<first>> \o rest
        BY <3>3, <3>4 DEF Items
      <3>6. ItemsOf(t) = AddChar(ch, <<first>> \o rest)
        BY <3>2, <3>5, ItemsOfOneMore
      <3>7. <<>> \in Seq(Chars) /\ <<ch>> \o first \in Seq(Chars)
        BY <3>2, <3>5
      <3>8. PICK w, x : w = <<first>> \o rest /\ x = <<ch>> \o first
        OBVIOUS
      <3>9. w \in Items /\ x \in Seq(Chars)
        BY <3>2, <3>5, <3>7, <3>8, AddCharIs
      <3>10. /\ <<<<>>>> \o w \in Items /\ <<<<>>>> \o w # <<>>
             /\ <<x>> \o rest \in Items /\ <<x>> \o rest # <<>>
        BY <3>2, <3>5, <3>7, <3>9, AddCharIs
      <3>11. ItemsOf(t) = IF ch = Slash THEN <<<<>>>> \o w ELSE <<x>> \o rest
        BY <3>2, <3>5, <3>6, <3>8, AddCharIs
      <3> QED BY <3>10, <3>11
    <2> QED BY <2>1
  <1> HIDE DEF T
  <1>3. Nat \subseteq T
    BY <1>1, <1>2, Inductive
  <1>4. ItemsOf(s) \in Items /\ ItemsOf(s) # <<>>
    BY <1>3, LenProperties DEF T
  <1> QED BY <1>4 DEF Items

SlashFree(p) == \A i \in 1..Len(p) : p[i] # Slash

\* Characters that are no slashes are of the first item.
LEMMA ItemsBefore ==
  ASSUME NEW p \in Seq(Chars), SlashFree(p), NEW s \in Seq(Chars)
  PROVE  ItemsOf(p \o s) = <<p \o Head(ItemsOf(s))>> \o Tail(ItemsOf(s))
  <1> DEFINE first == Head(ItemsOf(s))
             rest == Tail(ItemsOf(s))
             T == {n \in Nat : \A q \in Seq(Chars) :
                     SlashFree(q) /\ Len(q) = n =>
                       ItemsOf(q \o s) = <<q \o first>> \o rest}
  <1>1. /\ first \in Seq(Chars) /\ rest \in Items
        /\ ItemsOf(s) = <<first>> \o rest
    BY ItemsTypes
  <1> HIDE DEF first, rest
  <1>2. 0 \in T
    <2>1. ASSUME NEW q \in Seq(Chars), Len(q) = 0
          PROVE  ItemsOf(q \o s) = <<q \o first>> \o rest
      <3>1. q \o s = s /\ q \o first = first
        BY <1>1, <2>1
      <3> QED BY <1>1, <3>1
    <2> QED BY <2>1
  <1>3. ASSUME NEW n \in Nat, n \in T
        PROVE  n + 1 \in T
    <2>1. ASSUME NEW q \in Seq(Chars), SlashFree(q), Len(q) = n + 1
          PROVE  ItemsOf(q \o s) = <<q \o first>> \o rest
      <3>1. PICK ch, r : ch = Head(q) /\ r = Tail(q)
        OBVIOUS
      <3>2. ch \in Chars /\ r \in Seq(Chars) /\ Len(r) = n /\ q = <<ch>> \o r
        BY <2>1, <3>1, FirstAndRest
      <3>3. ch # Slash /\ SlashFree(r)
        <4>1. ch = q[1] /\ \A i \in 1..n : r[i] = q[i + 1]
          BY <2>1, <3>1
        <4> QED BY <2>1, <3>2, <4>1 DEF SlashFree
      <3>4. ItemsOf(r \o s) = <<r \o first>> \o rest
        BY <1>3, <3>2, <3>3
      <3>5. <<ch>> \in Seq(Chars) /\ r \o s \in Seq(Chars)
        BY <3>2
      <3>6. q \o s = <<ch>> \o (r \o s)
        BY <3>2, <3>5, Associative
      <3>7. ItemsOf(q \o s) = AddChar(ch, <<r \o first>> \o rest)
        BY <3>2, <3>4, <3>5, <3>6, ItemsOfOneMore
      <3>8. PICK w : w = r \o first
        OBVIOUS
      <3>9. w \in Seq(Chars)
        BY <1>1, <3>2, <3>8
      <3>10. AddChar(ch, <<w>> \o rest) = <<<<ch>> \o w>> \o rest
        BY <1>1, <3>3, <3>9, AddOther
      <3>11. <<ch>> \o w = q \o first
        <4>1. (<<ch>> \o r) \o first = <<ch>> \o (r \o first)
          BY <1>1, <3>2, <3>5, Associative
        <4> QED BY <3>2, <3>8, <4>1
      <3> QED BY <3>7, <3>8, <3>10, <3>11
    <2> QED BY <2>1
  <1> HIDE DEF T
  <1>4. Nat \subseteq T
    BY <1>2, <1>3, Inductive
  <1> QED BY <1>4, LenProperties DEF T, first, rest

\* The last item of a path, and one that a slash stands behind.
LEMMA OneItem ==
  ASSUME NEW p \in Seq(Chars), SlashFree(p)
  PROVE  ItemsOf(p) = <<p>>
  <1>1. <<>> \in Seq(Chars) /\ p \o <<>> = p
    OBVIOUS
  <1>2. Head(<<<<>>>>) = <<>> /\ Tail(<<<<>>>>) = <<>>
    OBVIOUS
  <1>3. ItemsOf(p \o <<>>) = <<p \o <<>>>> \o <<>>
    BY <1>1, <1>2, ItemsBefore, ItemsOfNothing
  <1>4. <<p>> \o <<>> = <<p>>
    OBVIOUS
  <1> QED BY <1>1, <1>3, <1>4

LEMMA ItemAndSlash ==
  ASSUME NEW p \in Seq(Chars), SlashFree(p), NEW s \in Seq(Chars)
  PROVE  ItemsOf(p \o (<<Slash>> \o s)) = <<p>> \o ItemsOf(s)
  <1>1. Slash \in Chars /\ <<Slash>> \o s \in Seq(Chars) /\ p \o <<>> = p
    BY DEF Chars
  <1>2. PICK first, rest : first = Head(ItemsOf(s)) /\ rest = Tail(ItemsOf(s))
    OBVIOUS
  <1>3. first \in Seq(Chars) /\ rest \in Items /\ ItemsOf(s) = <<first>> \o rest
        /\ ItemsOf(s) \in Items
    BY <1>2, ItemsTypes
  <1>4. ItemsOf(<<Slash>> \o s) = <<<<>>>> \o ItemsOf(s)
    BY <1>1, ItemsOfOneMore DEF AddChar
  <1>5. /\ Head(<<<<>>>> \o ItemsOf(s)) = <<>>
        /\ Tail(<<<<>>>> \o ItemsOf(s)) = ItemsOf(s)
    <2> DEFINE S == Seq(Chars)
    <2>1. <<>> \in S /\ ItemsOf(s) \in Seq(S)
      BY <1>3 DEF Items
    <2> HIDE DEF S
    <2> QED BY <2>1, HeadAndTail
  <1>6. PICK w : w = <<Slash>> \o s
    OBVIOUS
  <1>7. ItemsOf(p \o w) = <<p \o Head(ItemsOf(w))>> \o Tail(ItemsOf(w))
    BY <1>1, <1>6, ItemsBefore
  <1> QED BY <1>1, <1>4, <1>5, <1>6, <1>7

\* A slash and a name behind a path make for one more item.
LEMMA ItemsAndName ==
  ASSUME NEW x \in Seq(Chars), NEW p \in Seq(Chars), SlashFree(p)
  PROVE  ItemsOf(x \o (<<Slash>> \o p)) = ItemsOf(x) \o <<p>>
  <1> DEFINE sp == <<Slash>> \o p
             T == {n \in Nat : \A q \in Seq(Chars) :
                     Len(q) = n => ItemsOf(q \o sp) = ItemsOf(q) \o <<p>>}
  <1>1. Slash \in Chars /\ sp \in Seq(Chars) /\ <<p>> \in Items
    BY DEF Chars, Items
  <1>2. 0 \in T
    <2>1. ASSUME NEW q \in Seq(Chars), Len(q) = 0
          PROVE  ItemsOf(q \o sp) = ItemsOf(q) \o <<p>>
      <3>1. <<>> \in Seq(Chars) /\ SlashFree(<<>>)
        BY DEF SlashFree
      <3>2. q = <<>> /\ q \o sp = <<>> \o sp
        BY <2>1
      <3>3. ItemsOf(q \o sp) = <<<<>>>> \o ItemsOf(p)
        BY <3>1, <3>2, ItemAndSlash
      <3> QED BY <3>2, <3>3, OneItem, ItemsOfNothing
    <2> QED BY <2>1
  <1> HIDE DEF sp
  <1>3. ASSUME NEW n \in Nat, n \in T
        PROVE  n + 1 \in T
    <2>1. ASSUME NEW q \in Seq(Chars), Len(q) = n + 1
          PROVE  ItemsOf(q \o sp) = ItemsOf(q) \o <<p>>
      <3>1. PICK ch, r : ch = Head(q) /\ r = Tail(q)
        OBVIOUS
      <3>2. ch \in Chars /\ r \in Seq(Chars) /\ Len(r) = n /\ q = <<ch>> \o r
        BY <2>1, <3>1, FirstAndRest
      <3>3. <<ch>> \in Seq(Chars) /\ r \o sp \in Seq(Chars)
        BY <1>1, <3>2
      <3>4. q \o sp = <<ch>> \o (r \o sp)
        BY <1>1, <3>2, <3>3, Associative
      <3>5. PICK first, rest : first = Head(ItemsOf(r)) /\ rest = Tail(ItemsOf(r))
        OBVIOUS
      <3>6. first \in Seq(Chars) /\ rest \in Items /\ ItemsOf(r) = <<first>> \o rest
        BY <3>2, <3>5, ItemsTypes
      <3>7. ItemsOf(r \o sp) = (<<first>> \o rest) \o <<p>>
        BY <1>3, <3>2, <3>6
      <3> DEFINE S == Seq(Chars)
      <3>8. \A f \in S : (<<f>> \o rest) \o <<p>> = <<f>> \o (rest \o <<p>>)
        <4>1. rest \in Seq(S) /\ <<p>> \in Seq(S)
          BY <3>6 DEF Items
        <4> HIDE DEF S
        <4> QED BY <4>1, ConcatAssociative
      <3>9. rest \o <<p>> \in Items
        <4>1. rest \in Seq(S) /\ <<p>> \in Seq(S)
          BY <3>6 DEF Items
        <4>2. rest \o <<p>> \in Seq(S)
          BY <4>1, ConcatProperties
        <4> QED BY <4>2 DEF Items
      <3>10. ItemsOf(q \o sp) = AddChar(ch, <<first>> \o (rest \o <<p>>))
        BY <3>2, <3>3, <3>4, <3>6, <3>7, <3>8, ItemsOfOneMore
      <3>11. ItemsOf(q) = AddChar(ch, <<first>> \o rest)
        BY <3>2, <3>6, ItemsOfOneMore
      <3>12. CASE ch = Slash
        <4>1. PICK w : w = <<first>> \o rest
          OBVIOUS
        <4>2. w \o <<p>> = <<first>> \o (rest \o <<p>>)
          BY <3>6, <3>8, <4>1
        <4>3. ItemsOf(q \o sp) = <<<<>>>> \o (w \o <<p>>)
          BY <3>10, <3>12, <4>2 DEF AddChar
        <4>4. ItemsOf(q) = <<<<>>>> \o w /\ w \in Items
          BY <3>2, <3>6, <3>11, <3>12, <4>1, AddCharIs DEF AddChar
        <4>5. <<<<>>>> \o (w \o <<p>>) = (<<<<>>>> \o w) \o <<p>>
          <5>1. <<>> \in S
            OBVIOUS
          <5>2. <<<<>>>> \in Seq(S) /\ w \in Seq(S) /\ <<p>> \in Seq(S)
            BY <4>4, <5>1 DEF Items
          <5> HIDE DEF S
          <5> QED BY <5>2, ConcatAssociative
        <4> QED BY <4>3, <4>4, <4>5
      <3>13. CASE ch # Slash
        <4>1. PICK w : w = <<ch>> \o first
          OBVIOUS
        <4>2. w \in Seq(Chars)
          BY <3>3, <3>6, <4>1
        <4>3. ItemsOf(q \o sp) = <<w>> \o (rest \o <<p>>)
          BY <3>6, <3>9, <3>10, <3>13, <4>1, AddOther
        <4>4. ItemsOf(q) = <<w>> \o rest
          BY <3>6, <3>11, <3>13, <4>1, AddOther
        <4> QED BY <3>8, <4>2, <4>3, <4>4
      <3> QED BY <3>12, <3>13
    <2> QED BY <2>1
  <1> HIDE DEF T
  <1>4. Nat \subseteq T
    BY <1>2, <1>3, Inductive
  <1> QED BY <1>4, LenProperties DEF T, sp

-----------------------------------------------------------------------------
(***************************************************************************)
(* What the characters of a path have to do with its names.                *)
(***************************************************************************)
\* A path is its first slash and the rest; only the root has no more.
LEMMA NamesIs ==
  ASSUME NEW b \in Seq(Chars), Normal(b)
  PROVE  /\ Len(b) \in Nat /\ Len(b) >= 1 /\ Tail(b) \in Seq(Chars)
         /\ Len(Tail(b)) = Len(b) - 1
         /\ b = Root \o Tail(b)
         /\ Len(b) = 1 => b = Root /\ Names(b) = <<>>
         /\ Len(b) > 1 => Names(b) = ItemsOf(Tail(b))
  <1>1. Len(b) \in Nat /\ Len(b) >= 1 /\ b[1] = Slash
    BY LenProperties DEF Normal
  <1>2. Tail(b) \in Seq(Chars) /\ Len(Tail(b)) = Len(b) - 1 /\ b = Root \o Tail(b)
    BY <1>1 DEF Root
  <1>3. Root \in Seq(Chars) /\ Len(Root) = 1
    BY RootNormal
  <1>4. Len(b) = 1 => b = Root
    BY <1>1, <1>3, SeqEqual DEF Root
  <1> QED BY <1>1, <1>2, <1>3, <1>4 DEF Names

LEMMA NamesOfRoot == Names(Root) = <<>>
  BY DEF Names

\* A name that is put behind a path is its last.
LEMMA NamesAdded ==
  ASSUME NEW b \in Seq(Chars), Normal(b), NEW item \in Seq(Chars),
         SlashFree(item), item # <<>>
  PROVE  Names(AddName(b, item)) = Append(Names(b), item)
  <1>1. Root \in Seq(Chars) /\ Len(Root) = 1 /\ Len(item) \in Nat /\ Len(item) >= 1
    BY RootNormal, LenProperties, EmptySeq
  <1>2. ASSUME NEW t \in Seq(Chars), t # <<>>
        PROVE  Names(Root \o t) = ItemsOf(t)
    <2>1. Slash \in Chars
      BY DEF Chars
    <2>2. Tail(Root \o t) = t /\ Len(Root \o t) > 1
      BY <1>2, <2>1 DEF Root
    <2>3. Root \o t # Root
      <3>1. Root \o t = Root => Len(Root \o t) = Len(Root)
        BY Zenon
      <3> QED BY <1>1, <2>2, <3>1
    <2> QED BY <2>2, <2>3 DEF Names
  <1>3. CASE Len(b) = 1
    <2>1. AddName(b, item) = Root \o item /\ Names(b) = <<>>
      BY <1>3, NamesIs DEF AddName
    <2>2. Names(AddName(b, item)) = <<item>>
      BY <1>2, <2>1, OneItem
    <2> QED BY <2>1, <2>2
  <1>4. CASE Len(b) > 1
    <2>1. PICK t : t = Tail(b)
      OBVIOUS
    <2>2. t \in Seq(Chars) /\ b = Root \o t /\ Names(b) = ItemsOf(t) /\ Len(t) >= 1
      BY <1>4, <2>1, NamesIs
    <2>3. AddName(b, item) = b \o Root \o item
      BY <1>4 DEF AddName
    <2>4. b \o Root \o item = Root \o (t \o (Root \o item))
      <3>1. Root \o item \in Seq(Chars) /\ b \in Seq(Chars)
        BY <1>1
      <3>2. (b \o Root) \o item = b \o (Root \o item)
        <4>1. Root \in Seq(Chars) /\ b \in Seq(Chars) /\ item \in Seq(Chars)
          BY <1>1
        <4> QED BY <4>1, Associative
      <3>3. PICK w : w = Root \o item
        OBVIOUS
      <3>4. (Root \o t) \o w = Root \o (t \o w)
        <4>1. w \in Seq(Chars)
          BY <3>1, <3>3
        <4>2. Root \in Seq(Chars) /\ t \in Seq(Chars)
          BY <1>1, <2>2
        <4> QED BY <4>1, <4>2, Associative
      <3> QED BY <2>2, <3>2, <3>3, <3>4
    <2>5. t \o (Root \o item) \in Seq(Chars) /\ t \o (Root \o item) # <<>>
      BY <1>1, <2>2
    <2>6. Names(AddName(b, item)) = ItemsOf(t \o (Root \o item))
      BY <1>2, <2>3, <2>4, <2>5
    <2>7. ItemsOf(t \o (Root \o item)) = ItemsOf(t) \o <<item>>
      BY <2>2, ItemsAndName DEF Root
    <2>8. ItemsOf(t) \o <<item>> = Append(ItemsOf(t), item)
      <3>1. ItemsOf(t) \in Seq(Seq(Chars))
        BY <2>2, ItemsTypes DEF Items
      <3> QED BY <3>1
    <2> QED BY <2>2, <2>6, <2>7, <2>8
  <1>5. Len(b) \in Nat /\ Len(b) >= 1
    BY NamesIs
  <1>6. Len(b) = 1 \/ Len(b) > 1
    <2>1. \A n \in Nat : n >= 1 => n = 1 \/ n > 1
      OBVIOUS
    <2> QED BY <1>5, <2>1
  <1> QED BY <1>3, <1>4, <1>6

\* Cutting off the last name and its slash leaves the names before it, if any.
LEMMA NamesUp ==
  ASSUME NEW b \in Seq(Chars), Normal(b)
  PROVE  Names(GoUp(b)) =
           IF Names(b) = <<>> THEN <<>> ELSE SubSeq(Names(b), 1, Len(Names(b)) - 1)
  <1>1. /\ Len(b) \in Nat /\ Len(b) >= 1 /\ b[1] = Slash
        /\ \A i \in 1..Len(b) : b[i] \in Chars
    BY LenProperties, ElementOfSeq DEF Normal
  <1>2. PICK n : n = LastSlash(b)
    OBVIOUS
  <1>3. n \in 1..Len(b) /\ b[n] = Slash /\ \A j \in (n + 1)..Len(b) : b[j] # Slash
    BY <1>1, <1>2, LastSlashIs
  <1>4. CASE Len(b) = 1
    <2>1. b = Root /\ n = 1 /\ Names(b) = <<>>
      BY <1>1, <1>3, <1>4, NamesIs
    <2>2. GoUp(b) = SubSeq(b, 1, 1)
      BY <1>2, <2>1 DEF GoUp
    <2>3. SubSeq(b, 1, 1) = b
      BY <1>4, SubSeqFull
    <2> QED BY <2>1, <2>2, <2>3
  <1>5. CASE Len(b) > 1 /\ n = 1
    <2>1. PICK t : t = Tail(b)
      OBVIOUS
    <2>2. t \in Seq(Chars) /\ Names(b) = ItemsOf(t) /\ SlashFree(t)
      BY <1>1, <1>3, <1>5, <2>1, NamesIs DEF SlashFree
    <2>3. Names(b) = <<t>>
      BY <2>2, OneItem
    <2>4. Len(Names(b)) = 1 /\ Names(b) # <<>> /\ SubSeq(Names(b), 1, 0) = <<>>
      BY <2>3
    <2>5. GoUp(b) = SubSeq(b, 1, 1)
      BY <1>2, <1>5 DEF GoUp
    <2>6. SubSeq(b, 1, 1) = Root
      <3>1. 1 \in 1..Len(b)
        BY <1>1
      <3>2. SubSeq(b, 1, 1) = <<b[1]>> \o SubSeq(b, 2, 1)
        BY <3>1, SubSeqRecursiveFirst
      <3>3. SubSeq(b, 2, 1) = <<>>
        BY SubSeqEmpty
      <3>4. <<b[1]>> \o <<>> = <<b[1]>>
        OBVIOUS
      <3>5. SubSeq(b, 1, 1) = <<b[1]>>
        BY <3>2, <3>3, <3>4
      <3> QED BY <1>1, <3>5 DEF Root
    <2>7. Len(Names(b)) - 1 = 0
      BY <2>4
    <2>8. Names(GoUp(b)) = <<>>
      BY <2>5, <2>6, NamesOfRoot
    <2> QED BY <2>4, <2>7, <2>8
  <1>6. CASE n > 1
    <2>1. n > 2
      BY <1>1, <1>3, <1>6 DEF Normal
    <2>2. PICK t, p : t = SubSeq(b, 2, n - 1) /\ p = SubSeq(b, n + 1, Len(b))
      OBVIOUS
    <2>3. /\ t \in Seq(Chars) /\ Len(t) = n - 2
          /\ p \in Seq(Chars) /\ Len(p) = Len(b) - n
          /\ \A i \in 1..Len(p) : p[i] = b[n + i]
      BY <1>1, <1>3, <2>1, <2>2
    <2>4. SlashFree(p)
      BY <1>1, <1>3, <2>3 DEF SlashFree
    <2>5. Tail(b) = t \o (<<Slash>> \o p)
      <3>1. Tail(b) = SubSeq(b, 2, Len(b))
        BY <1>1, TailIsSubSeq
      <3>2. SubSeq(b, 2, Len(b)) = t \o SubSeq(b, n, Len(b))
        <4>1. SubSeq(b, 2, n - 1) \o SubSeq(b, (n - 1) + 1, Len(b)) = SubSeq(b, 2, Len(b))
          <5>1. n - 1 \in (2 - 1)..Len(b) /\ Len(b) \in (n - 1)..Len(b) /\ 2 \in 1..(Len(b) + 1)
            BY <1>1, <1>3, <2>1
          <5> QED BY <5>1, ConcatAdjacentSubSeq
        <4>2. (n - 1) + 1 = n
          BY <1>3
        <4> QED BY <2>2, <4>1, <4>2
      <3>3. SubSeq(b, n, Len(b)) = <<b[n]>> \o SubSeq(b, n + 1, Len(b))
        BY <1>1, <1>3, SubSeqRecursiveFirst
      <3> QED BY <1>3, <2>2, <3>1, <3>2, <3>3
    <2>6. Names(b) = ItemsOf(t) \o <<p>>
      <3>1. Len(b) > 1
        BY <1>1, <1>3, <2>1
      <3>2. Names(b) = ItemsOf(Tail(b))
        BY <3>1, NamesIs
      <3> QED BY <2>3, <2>4, <2>5, <3>2, ItemsAndName
    <2>7. Names(GoUp(b)) = ItemsOf(t)
      <3>1. PICK u : u = SubSeq(b, 1, n - 1)
        OBVIOUS
      <3>2. GoUp(b) = u
        BY <1>2, <1>6, <3>1 DEF GoUp
      <3>3. u \in Seq(Chars) /\ Len(u) = n - 1
        BY <1>1, <1>3, <2>1, <3>1
      <3>4. Normal(u)
        BY <3>2, GoUpNormal
      <3>5. Tail(u) = t
        <4>1. 1 \in 1..Len(b) /\ n - 1 \in 1..Len(b)
          BY <1>1, <1>3, <2>1
        <4> QED BY <2>2, <3>1, <4>1, HeadTailOfSubSeq
      <3>6. Len(u) > 1
        BY <1>3, <2>1, <3>3
      <3>7. Names(u) = ItemsOf(Tail(u))
        BY <3>3, <3>4, <3>6, NamesIs
      <3> QED BY <3>2, <3>5, <3>7
    <2>8. PICK w : w = ItemsOf(t)
      OBVIOUS
    <2>9. w \in Seq(Seq(Chars))
      BY <2>3, <2>8, ItemsTypes DEF Items
    <2>10. w \o <<p>> # <<>> /\ SubSeq(w \o <<p>>, 1, Len(w \o <<p>>) - 1) = w
      <3> DEFINE S == Seq(Chars)
      <3>1. w \in Seq(S) /\ p \in S
        BY <2>3, <2>9
      <3> HIDE DEF S
      <3> QED BY <3>1
    <2> QED BY <2>6, <2>7, <2>8, <2>10
  <1>7. Len(b) = 1 \/ (Len(b) > 1 /\ n = 1) \/ n > 1
    <2>1. \A l \in Nat : \A m \in 1..l : l = 1 \/ (l > 1 /\ m = 1) \/ m > 1
      OBVIOUS
    <2> QED BY <1>1, <1>3, <2>1
  <1> QED BY <1>4, <1>5, <1>6, <1>7

\* One round of the loop is one item onwards.
LEMMA ProcessWalks ==
  ASSUME NEW b \in Seq(Chars), Normal(b), NEW item \in Seq(Chars), IsName(item)
  PROVE  Names(Process(b, item)) = W!Walk(Names(b), item)
  <1>1. DotDot \notin Stays
    <2>1. Len(DotDot) = 2 /\ Len(<<Dot>>) = 1 /\ Len(<<>>) = 0
      BY DEF DotDot
    <2>2. DotDot # <<>>
      <3>1. DotDot = <<>> => Len(DotDot) = Len(<<>>)
        BY Zenon
      <3> QED BY <2>1, <3>1
    <2>3. DotDot # <<Dot>>
      BY <2>1
    <2> QED BY <2>2, <2>3 DEF Stays
  <1>2. CASE item \in Stays
    <2>1. item \in {<<Dot>>, <<>>}
      BY <1>2 DEF Stays
    <2>2. W!Walk(Names(b), item) = Names(b)
      BY <1>1, <2>1 DEF W!Walk, Stays
    <2> QED BY <1>2, <2>2 DEF Process
  <1>3. CASE item = DotDot
    BY <1>1, <1>3, NamesUp DEF Process, W!Walk, Stays
  <1>4. CASE item \notin Stays /\ item # DotDot
    <2>1. SlashFree(item)
      BY PathCatAssumption, SlashIsNoDot DEF IsName, NameChars, SlashFree
    <2>2. item \in Seq(NameChars) \ (Stays \cup {DotDot})
      BY <1>4 DEF IsName
    <2>3. item # <<>> /\ item \notin {<<Dot>>, <<>>}
      BY <1>4 DEF Stays
    <2>4. W!Walk(Names(b), item) = Append(Names(b), item)
      BY <1>4, <2>2, <2>3 DEF W!Walk
    <2>5. Process(b, item) = AddName(b, item)
      BY <1>4 DEF Process
    <2> QED BY <2>1, <2>3, <2>4, <2>5, NamesAdded
  <1> QED BY <1>2, <1>3, <1>4

\* The items from i on are the one that starts at i and those after it.
LEMMA ItemsLeft ==
  ASSUME NEW s \in Seq(Chars), NEW i \in 1..(Len(s) + 1)
  PROVE  ItemsOf(SubSeq(s, i, Len(s))) =
           IF ItemEnd(s, i) > Len(s) THEN <<ItemAt(s, i)>>
           ELSE <<ItemAt(s, i)>> \o ItemsOf(SubSeq(s, ItemEnd(s, i) + 1, Len(s)))
  <1>1. PICK e, p : e = ItemEnd(s, i) /\ p = ItemAt(s, i)
    OBVIOUS
  <1>2. /\ Len(s) \in Nat /\ e \in i..(Len(s) + 1) /\ (e <= Len(s) => s[e] = Slash)
        /\ \A j \in i..(e - 1) : s[j] # Slash
    BY <1>1, LenProperties, ItemEndIs
  <1>3. p = SubSeq(s, i, e - 1) /\ p \in Seq(Chars) /\ Len(p) = e - i
    BY <1>1, ItemIs DEF ItemAt
  <1>4. SlashFree(p)
    <2>1. \A j \in 1..Len(p) : p[j] = s[i + j - 1] /\ i + j - 1 \in i..(e - 1)
      BY <1>2, <1>3
    <2> QED BY <1>2, <2>1 DEF SlashFree
  <1>5. CASE e > Len(s)
    <2>1. e - 1 = Len(s)
      BY <1>2, <1>5
    <2> QED BY <1>1, <1>3, <1>4, <1>5, <2>1, OneItem
  <1>6. CASE ~(e > Len(s))
    <2>1. PICK r : r = SubSeq(s, e + 1, Len(s))
      OBVIOUS
    <2>2. r \in Seq(Chars)
      BY <1>2, <1>6, <2>1
    <2>3. SubSeq(s, i, Len(s)) = p \o SubSeq(s, e, Len(s))
      <3>1. e - 1 \in (i - 1)..Len(s) /\ Len(s) \in (e - 1)..Len(s) /\ (e - 1) + 1 = e
        BY <1>2, <1>6
      <3>2. SubSeq(s, i, e - 1) \o SubSeq(s, (e - 1) + 1, Len(s)) = SubSeq(s, i, Len(s))
        BY <3>1, ConcatAdjacentSubSeq
      <3> QED BY <1>3, <3>1, <3>2
    <2>4. SubSeq(s, e, Len(s)) = <<Slash>> \o r
      <3>1. e \in 1..Len(s) /\ Len(s) \in e..Len(s)
        BY <1>2, <1>6
      <3> QED BY <1>2, <1>6, <2>1, <3>1, SubSeqRecursiveFirst
    <2>5. ItemsOf(p \o (<<Slash>> \o r)) = <<p>> \o ItemsOf(r)
      BY <1>3, <1>4, <2>2, ItemAndSlash
    <2> QED BY <1>1, <1>6, <2>1, <2>3, <2>4, <2>5
  <1> QED BY <1>5, <1>6

-----------------------------------------------------------------------------
(***************************************************************************)
(* Every step of PathCat is one of PathWalk, or changes nothing that       *)
(* PathWalk sees.                                                          *)
(***************************************************************************)
ToWalk == IF pc = "Loop" THEN ItemsOf(SubSeq(rel, c, Len(rel))) ELSE <<>>
WalkVars == <<Names(wd), Names(buf), ToWalk, pc # "Invalid">>

LEMMA CallDeparts ==
  ASSUME PathInv, NEW arg \in Args, Call(arg)
  PROVE  W!Depart
  <1>1. arg \in Seq(Chars)
    BY SeqDef, PathCatAssumption DEF Args
  <1>2. /\ pc = "Idle" /\ wd' = wd /\ rel' = arg /\ buf' = Start(wd, arg) /\ c' = 1
        /\ pc' = IF arg = <<>> THEN "Done" ELSE "Loop"
    BY DEF Call
  <1>3. ToWalk = <<>>
    BY <1>2 DEF ToWalk
  <1>4. CASE arg = <<>>
    <2>1. ToWalk' = <<>> /\ Names(buf)' = <<>>
      BY <1>2, <1>4, NamesOfRoot DEF ToWalk, Start
    <2>2. \A S : <<>> \in Seq(S)
      OBVIOUS
    <2> QED BY <1>2, <1>3, <2>1, <2>2 DEF W!Depart, ToWalk
  <1>5. CASE arg # <<>>
    <2>1. Len(arg) \in Nat /\ Len(arg) >= 1 /\ 1 \in 1..(Len(arg) + 1)
      BY <1>1, <1>5, LenProperties, EmptySeq
    <2>2. PICK p, e, w : /\ p = ItemAt(arg, 1) /\ e = ItemEnd(arg, 1)
                         /\ w = ItemsOf(SubSeq(arg, 1, Len(arg)))
      OBVIOUS
    <2>3. /\ e \in 1..(Len(arg) + 1) /\ (e <= Len(arg) => arg[e] = Slash)
          /\ (\A j \in 1..(e - 1) : arg[j] # Slash)
          /\ p \in Seq(Chars) /\ Len(p) = e - 1
      BY <1>1, <2>1, <2>2, ItemEndIs, ItemIs
    <2>4. w \in Seq(Seq(Chars)) /\ w # <<>> /\ Head(w) = p
      <3>1. SubSeq(arg, 1, Len(arg)) \in Seq(Chars)
        BY <1>1, SubSeqFull
      <3>2. w \in Items /\ w # <<>>
        BY <2>2, <3>1, ItemsTypes
      <3>3. CASE e > Len(arg)
        <4>1. w = <<p>>
          BY <1>1, <2>1, <2>2, <3>3, ItemsLeft
        <4> QED BY <3>2, <4>1 DEF Items
      <3>4. CASE ~(e > Len(arg))
        <4>1. PICK r : r = ItemsOf(SubSeq(arg, e + 1, Len(arg)))
          OBVIOUS
        <4>2. w = <<p>> \o r
          BY <1>1, <2>1, <2>2, <3>4, <4>1, ItemsLeft
        <4>3. SubSeq(arg, e + 1, Len(arg)) \in Seq(Chars)
          BY <1>1, <2>1, <2>3, <3>4
        <4> DEFINE S == Seq(Chars)
        <4>4. p \in S /\ r \in Seq(S)
          BY <2>3, <4>1, <4>3, ItemsTypes DEF Items
        <4>5. Head(<<p>> \o r) = p
          <5> HIDE DEF S
          <5> QED BY <4>4, HeadAndTail
        <4> QED BY <3>2, <4>2, <4>5 DEF Items
      <3> QED BY <3>3, <3>4
    <2>5. ToWalk' = w
      BY <1>2, <1>5, <2>2 DEF ToWalk
    <2>6. Head(w) = <<>> <=> arg[1] = Slash
      <3>1. p = <<>> <=> e = 1
        BY <2>1, <2>3, EmptySeq
      <3>2. e = 1 <=> arg[1] = Slash
        BY <2>1, <2>3
      <3> QED BY <2>4, <3>1, <3>2
    <2>7. Names(buf)' = IF w = <<>> \/ Head(w) = <<>> THEN <<>> ELSE Names(wd)
      BY <1>2, <1>5, <2>4, <2>6, NamesOfRoot DEF Start
    <2>8. w \in Seq(W!Item \cup Seq(Chars))
      BY <2>4
    <2>9. pc' = "Loop"
      BY <1>2, <1>5
    <2>10. /\ (IF pc = "Loop" THEN ItemsOf(SubSeq(rel, c, Len(rel))) ELSE <<>>) = <<>>
           /\ (IF pc = "Loop" THEN ItemsOf(SubSeq(rel, c, Len(rel))) ELSE <<>>)' = w
      BY <1>3, <2>5 DEF ToWalk
    <2> QED BY <1>2, <2>7, <2>8, <2>9, <2>10 DEF W!Depart
  <1> QED BY <1>4, <1>5

\* The item of the argument that a round is about, and the items after it.
LEMMA ItemInHand ==
  ASSUME TypeOK, InArgument, pc = "Loop"
  PROVE  /\ ToWalk # <<>> /\ Head(ToWalk) = ItemAt(rel, c) /\ ItemAt(rel, c) \in Seq(Chars)
         /\ Tail(ToWalk) = IF ItemEnd(rel, c) > Len(rel) THEN <<>>
                           ELSE ItemsOf(SubSeq(rel, ItemEnd(rel, c) + 1, Len(rel)))
  <1>1. rel \in Seq(Chars) /\ Len(rel) \in Nat /\ c \in 1..(Len(rel) + 1)
    BY LenProperties DEF TypeOK, InArgument
  <1>2. PICK p, e : p = ItemAt(rel, c) /\ e = ItemEnd(rel, c)
    OBVIOUS
  <1>3. p \in Seq(Chars) /\ e \in c..(Len(rel) + 1)
    BY <1>1, <1>2, ItemIs, ItemEndIs
  <1>4. CASE e > Len(rel)
    <2>1. ToWalk = <<p>>
      BY <1>1, <1>2, <1>4, ItemsLeft DEF ToWalk
    <2>2. <<p>> # <<>> /\ Head(<<p>>) = p /\ Tail(<<p>>) = <<>>
      OBVIOUS
    <2> QED BY <1>2, <1>3, <1>4, <2>1, <2>2
  <1>5. CASE ~(e > Len(rel))
    <2>1. PICK r : r = ItemsOf(SubSeq(rel, e + 1, Len(rel)))
      OBVIOUS
    <2>2. ToWalk = <<p>> \o r
      BY <1>1, <1>2, <1>5, <2>1, ItemsLeft DEF ToWalk
    <2>3. SubSeq(rel, e + 1, Len(rel)) \in Seq(Chars)
      BY <1>1, <1>3, <1>5
    <2> DEFINE S == Seq(Chars)
    <2>4. p \in S /\ r \in Seq(S)
      BY <1>3, <2>1, <2>3, ItemsTypes DEF Items
    <2>5. <<p>> \o r # <<>> /\ Head(<<p>> \o r) = p /\ Tail(<<p>> \o r) = r
      <3> HIDE DEF S
      <3> QED BY <2>4, HeadAndTail
    <2> QED BY <1>2, <1>3, <1>5, <2>1, <2>2, <2>5
  <1> QED BY <1>4, <1>5

\* What path_cat takes for an item is one.
LEMMA ItemsAreNames ==
  ASSUME NEW item \in Seq(Chars)
  PROVE  IsName(item) <=> item \in W!Item
  <1>1. Dot \in NameChars /\ <<Dot>>[1] = Dot /\ Len(<<Dot>>) = 1
        /\ Len(DotDot) = 2 /\ DotDot[1] = Dot /\ DotDot[2] = Dot
    BY DEF NameChars, DotDot
  <1>2. IsName(<<Dot>>) /\ IsName(DotDot) /\ IsName(<<>>)
    BY <1>1 DEF IsName
  <1>3. item \in Seq(NameChars) <=> IsName(item)
    BY ElementOfSeq DEF IsName
  <1> QED BY <1>2, <1>3 DEF W!Item, Stays

LEMMA ItemSteps ==
  ASSUME PathInv, NextItem
  PROVE  W!Step
  <1>1. PICK item, d : item = ItemAt(rel, c) /\ d = ItemEnd(rel, c)
    OBVIOUS
  <1>2. /\ pc = "Loop" /\ IsName(item)
        /\ wd' = wd /\ rel' = rel /\ buf' = Process(buf, item) /\ c' = d + 1
        /\ pc' = IF d > Len(rel) THEN "Done" ELSE "Loop"
    BY <1>1 DEF NextItem, After
  <1>3. /\ ToWalk # <<>> /\ Head(ToWalk) = item /\ item \in Seq(Chars)
        /\ Tail(ToWalk) = IF d > Len(rel) THEN <<>>
                          ELSE ItemsOf(SubSeq(rel, d + 1, Len(rel)))
    BY <1>1, <1>2, ItemInHand DEF PathInv
  <1>4. ToWalk' = Tail(ToWalk)
    <2>1. ToWalk' = IF d > Len(rel) THEN <<>> ELSE ItemsOf(SubSeq(rel, d + 1, Len(rel)))
      BY <1>2 DEF ToWalk
    <2> QED BY <1>3, <2>1
  <1>5. Names(buf)' = W!Walk(Names(buf), item)
    BY <1>2, <1>3, ProcessWalks DEF PathInv, TypeOK, PathsNormal
  <1>6. item \in W!Item
    BY <1>2, <1>3, ItemsAreNames
  <1>7. pc # "Invalid" /\ pc' # "Invalid"
    BY <1>2
  <1> QED BY <1>2, <1>3, <1>4, <1>5, <1>6, <1>7 DEF W!Step, ToWalk

LEMMA InvalidRefuses ==
  ASSUME PathInv, InvalidItem
  PROVE  W!Refuse
  <1>1. /\ pc = "Loop" /\ pc' = "Invalid" /\ ~IsName(ItemAt(rel, c))
        /\ UNCHANGED <<wd, rel, buf, c>>
    BY DEF InvalidItem
  <1>2. ToWalk # <<>> /\ Head(ToWalk) = ItemAt(rel, c) /\ ItemAt(rel, c) \in Seq(Chars)
    BY <1>1, ItemInHand DEF PathInv
  <1>3. Head(ToWalk) \notin W!Item
    BY <1>1, <1>2, ItemsAreNames
  <1>4. ToWalk' = <<>>
    BY <1>1 DEF ToWalk
  <1> QED BY <1>1, <1>2, <1>3, <1>4 DEF W!Refuse, ToWalk

\* A path that is done with is forgotten, as one that leads to the root would be.
LEMMA ReturnForgets ==
  ASSUME PathInv, Return
  PROVE  W!Depart \/ W!Forget
  <1>1. /\ pc \in {"Done", "Invalid"} /\ pc' = "Idle" /\ buf' = Root /\ wd' = wd
    BY DEF Return, Free
  <1>2. ToWalk = <<>> /\ ToWalk' = <<>> /\ Names(buf)' = <<>>
    BY <1>1, NamesOfRoot DEF ToWalk
  <1>3. \A S : <<>> \in Seq(S)
    OBVIOUS
  <1>4. CASE pc = "Done"
    BY <1>1, <1>2, <1>3, <1>4 DEF W!Depart, ToWalk
  <1>5. CASE pc = "Invalid"
    BY <1>1, <1>2, <1>5 DEF W!Forget, ToWalk
  <1> QED BY <1>1, <1>4, <1>5

LEMMA ChangeArrives ==
  ASSUME PathInv, ChangeWd
  PROVE  W!Arrive
  <1>1. /\ pc = "Done" /\ pc' = "Idle" /\ buf' = Root
        /\ wd' \in {buf, Process(buf, DotDot)}
    BY DEF ChangeWd, Free
  <1>2. ToWalk = <<>> /\ ToWalk' = <<>> /\ Names(buf)' = <<>>
    BY <1>1, NamesOfRoot DEF ToWalk
  <1>3. Names(Process(buf, DotDot)) = W!Walk(Names(buf), DotDot)
    <2>1. DotDot \in Seq(Chars) /\ IsName(DotDot)
      BY DEF DotDot, IsName, Chars, NameChars
    <2> QED BY <2>1, ProcessWalks DEF PathInv, TypeOK, PathsNormal
  <1>4. Names(wd)' \in {Names(buf), W!Walk(Names(buf), DotDot)}
    BY <1>1, <1>3
  <1> QED BY <1>1, <1>2, <1>4 DEF W!Arrive, ToWalk

LEMMA StepsWalk == PathInv /\ [Next]_vars => W!WalkNext \/ UNCHANGED WalkVars
  <1> SUFFICES ASSUME PathInv, [Next]_vars
               PROVE  W!WalkNext \/ UNCHANGED WalkVars
    OBVIOUS
  <1>1. CASE \E arg \in Args : Call(arg)
    BY <1>1, CallDeparts DEF W!WalkNext
  <1>2. CASE NextItem
    BY <1>2, ItemSteps DEF W!WalkNext
  <1>3. CASE InvalidItem
    BY <1>3, InvalidRefuses DEF W!WalkNext
  <1>4. CASE Return
    BY <1>4, ReturnForgets DEF W!WalkNext
  <1>5. CASE ChangeWd
    BY <1>5, ChangeArrives DEF W!WalkNext
  <1>6. CASE UNCHANGED vars
    BY <1>6 DEF vars, WalkVars, ToWalk
  <1> QED BY <1>1, <1>2, <1>3, <1>4, <1>5, <1>6 DEF Next

\* What path_cat does to characters resolves paths by walking their items, for
\* every alphabet and paths of every length: PathCat implements PathWalk.
THEOREM PathsResolved == Spec => ResolvesByWalking
  <1>1. Init => W!WalkInit
    BY NamesOfRoot DEF Init, W!WalkInit
  <1>2. PathInv /\ [Next]_vars => [W!WalkNext]_WalkVars
    BY StepsWalk
  <1> QED
    BY <1>1, <1>2, PathInvariant, PTL
    DEF Spec, ResolvesByWalking, W!WalkSpec, W!walkVars, WalkVars, ToWalk

=============================================================================
