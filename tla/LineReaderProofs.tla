-------------------------- MODULE LineReaderProofs --------------------------
(***************************************************************************)
(* What is proved of LineReader, for buffers of every size and connections *)
(* of every length: the types, that the caller's buffer is kept to, and    *)
(* that it implements LineStream, one line given out for each that was     *)
(* sent.                                                                   *)
(***************************************************************************)
EXTENDS LineReaderRefinement, SequenceTheorems, WellFoundedInduction, TLAPS

\* StaysInBuffer is inductive beside the types: the loops test for a full
\* buffer as soon as they have written to it.
ReaderInv == TypeOK /\ StaysInBuffer

\* What a line is made of.
LineChars == Bytes \ {CR, LF}

-----------------------------------------------------------------------------
LEMMA ReaderInit == Init => ReaderInv
<1> SUFFICES ASSUME Init PROVE ReaderInv
  OBVIOUS
<1>1. unread \in Seq(Bytes)
  BY DEF Init
<1>2. ahead \in Seq(Bytes) /\ Len(ahead) <= BufSize
  BY LineReaderAssumption DEF Init
<1>3. line \in Seq(Bytes \ {CR, LF})
  BY DEF Init
<1> QED
  BY <1>1, <1>2, <1>3 DEF Init, ReaderInv, TypeOK, StaysInBuffer

\* read() returns no more than there is room for in b->buf.
LEMMA RefillTypes ==
  ASSUME TypeOK, Refill
  PROVE  /\ unread' \in Seq(Bytes)
         /\ ahead' \in Seq(Bytes)
         /\ Len(ahead') <= BufSize
<1>1. PICK n \in Reads : /\ ahead' = SubSeq(unread, 1, n)
                         /\ unread' = SubSeq(unread, n + 1, Len(unread))
  BY DEF Refill
<1>2. unread \in Seq(Bytes) /\ n \in 1..BufSize /\ n <= Len(unread)
  BY <1>1 DEF TypeOK, Reads
<1>3. ahead' \in Seq(Bytes) /\ Len(ahead') = n
  BY <1>1, <1>2, LineReaderAssumption
<1>4. unread' \in Seq(Bytes)
  BY <1>1, <1>2, LineReaderAssumption
<1> QED
  BY <1>2, <1>3, <1>4, LineReaderAssumption

\* Consuming a byte of b->buf leaves bytes there.
LEMMA TailTypes ==
  ASSUME TypeOK, ahead # <<>>, ahead' = Tail(ahead)
  PROVE  /\ Head(ahead) \in Bytes
         /\ ahead' \in Seq(Bytes)
         /\ Len(ahead') <= BufSize
  BY LineReaderAssumption DEF TypeOK

\* What rlb_read_line does with a character that is not a CR.
LEMMA PutKeeps ==
  ASSUME TypeOK, StaysInBuffer, NEW ch \in Bytes \ {CR}, NEW ended, Put(ch, ended)
  PROVE  /\ line' \in Seq(LineChars)
         /\ pc' \in {"Idle", "Fill", "Drop"}
         /\ out' \in Seq(LineChars) \cup {TooLong, NoMore, NothingYet}
         /\ StaysInBuffer'
<1> USE DEF LineChars
<1>1. CASE PutChar(ch)
  <2>1. ch \in LineChars /\ line \in Seq(LineChars) /\ pc = "Fill"
    BY <1>1 DEF PutChar, TypeOK
  <2>2. line' = Append(line, ch) /\ line' \in Seq(LineChars)
        /\ Len(line') = Len(line) + 1
    BY <1>1, <2>1 DEF PutChar
  <2>3. Len(line') <= Size /\ Len(line') \in Nat
    BY <2>1, <2>2, LineReaderAssumption DEF StaysInBuffer
  <2>4. StaysInBuffer'
    BY <1>1, <2>3, LineReaderAssumption DEF PutChar, Full, StaysInBuffer
  <2> QED
    BY <1>1, <2>2, <2>4 DEF PutChar, TypeOK
<1>2. CASE DropChar(ch)
  BY <1>2 DEF DropChar, TypeOK, StaysInBuffer
<1>3. CASE EndOfLine(ch, ended)
  BY <1>3 DEF EndOfLine, Returns, TypeOK, StaysInBuffer
<1> QED
  BY <1>1, <1>2, <1>3 DEF Put

LEMMA ReaderStep == ReaderInv /\ [Next]_vars => ReaderInv'
<1> SUFFICES ASSUME TypeOK, StaysInBuffer, [Next]_vars PROVE ReaderInv'
  BY DEF ReaderInv
<1>1. CASE Call
  BY <1>1, LineReaderAssumption DEF Call, ReaderInv, TypeOK, StaysInBuffer
<1>2. CASE Refill
  BY <1>2, RefillTypes DEF Refill, ReaderInv, TypeOK, StaysInBuffer
<1>3. CASE SkipCR
  BY <1>3, TailTypes DEF SkipCR, ReaderInv, TypeOK, StaysInBuffer
<1>4. CASE TakeByte
  <2>1. Head(ahead) \in Bytes \ {CR} /\ Put(Head(ahead), no_more)
        /\ ahead' \in Seq(Bytes) /\ Len(ahead') <= BufSize
    BY <1>4, TailTypes DEF TakeByte
  <2> QED
    BY <1>4, <2>1, PutKeeps DEF TakeByte, ReaderInv, TypeOK, LineChars
<1>5. CASE TakeNone
  <2>1. AtEnd \in Bytes \ {CR} /\ Put(AtEnd, TRUE)
    BY <1>5 DEF TakeNone, AtEnd, Bytes, CR, LF
  <2> QED
    BY <1>5, <2>1, PutKeeps DEF TakeNone, ReaderInv, TypeOK, LineChars
<1>6. CASE UNCHANGED vars
  BY <1>6 DEF vars, ReaderInv, TypeOK, StaysInBuffer
<1> QED
  BY <1>1, <1>2, <1>3, <1>4, <1>5, <1>6 DEF Next, Read

-----------------------------------------------------------------------------
LEMMA ReaderInvariant == Spec => []ReaderInv
  BY ReaderInit, ReaderStep, PTL DEF Spec

\* b->buf holds no more than RLBUF_BUFSIZE bytes, and what is read of a line has
\* neither CR nor LF in it.
THEOREM ReaderTypes == Spec => []TypeOK
<1>1. ReaderInv => TypeOK
  BY DEF ReaderInv
<1> QED
  BY <1>1, ReaderInvariant, PTL

\* rlb_read_line writes nothing past the end of the caller's buffer, its NUL
\* included, whatever comes on the connection and in whatever pieces.
THEOREM BufferKept == Spec => []StaysInBuffer
<1>1. ReaderInv => StaysInBuffer
  BY DEF ReaderInv
<1> QED
  BY <1>1, ReaderInvariant, PTL

\* Pieces of lines that are put together.
LEMMA Associative ==
  ASSUME NEW a \in Seq(LineChars), NEW b \in Seq(LineChars), NEW t \in Seq(LineChars)
  PROVE  (a \o b) \o t = a \o (b \o t)
BY ConcatAssociative

-----------------------------------------------------------------------------
(***************************************************************************)
(* The lines of a connection, for any bytes.  LinesFromEnd is recursive,   *)
(* so that it has a value at all, and what it is, takes an induction; the  *)
(* prover has that over sets of numbers only.                              *)
(***************************************************************************)
\* A nonempty set of natural numbers has a least element.
LEMMA Least ==
  ASSUME NEW T, T \subseteq Nat, T # {}
  PROVE  \E x \in T : \A y \in T : x <= y
<1>1. PICK x \in T : \A y \in T : <<y, x>> \notin OpToRel(<, Nat)
  BY NatLessThanWellFounded, WFMin
<1>2. \A y \in T : ~(y < x)
  BY <1>1 DEF OpToRel
<1> QED
  BY <1>2

\* What holds of 0, and of every number after one it holds of, holds of all.
LEMMA Inductive ==
  ASSUME NEW T, 0 \in T, \A n \in Nat : n \in T => n + 1 \in T
  PROVE  Nat \subseteq T
<1> SUFFICES ASSUME Nat \ T # {} PROVE FALSE
  OBVIOUS
<1>1. PICK n \in Nat \ T : \A m \in Nat \ T : n <= m
  BY Least
<1>2. n # 0 /\ n - 1 \in Nat
  BY <1>1
<1> QED
  BY <1>1, <1>2

\* What LinesFromEnd is to be of the last n of bytes.
FromEnd(bytes, n, f) ==
  f = [k \in 0..n |-> IF k = 0 THEN <<>>
                      ELSE AddByte(bytes[Len(bytes) - k + 1], f[k - 1])]

LEMMA FromEndExists ==
  ASSUME NEW bytes, NEW n \in Nat
  PROVE  \E f : FromEnd(bytes, n, f)
<1> DEFINE T == {m \in Nat : \E f : FromEnd(bytes, m, f)}
<1>1. 0 \in T
  <2>1. FromEnd(bytes, 0, [k \in 0..0 |-> <<>>])
    BY DEF FromEnd
  <2> QED
    BY <2>1
<1>2. ASSUME NEW m \in Nat, m \in T
      PROVE  m + 1 \in T
  <2>1. PICK f : FromEnd(bytes, m, f)
    BY <1>2
  <2> DEFINE g == [k \in 0..(m + 1) |->
                     IF k = 0 THEN <<>>
                     ELSE AddByte(bytes[Len(bytes) - k + 1], f[k - 1])]
  <2>2. ASSUME NEW k \in 0..m
        PROVE  g[k] = f[k]
    BY <2>1, <2>2 DEF FromEnd
  <2>3. ASSUME NEW k \in 0..(m + 1)
        PROVE  g[k] = IF k = 0 THEN <<>>
                      ELSE AddByte(bytes[Len(bytes) - k + 1], g[k - 1])
    <3>1. CASE k = 0
      BY <3>1
    <3>2. CASE k # 0
      <4>1. k - 1 \in 0..m
        BY <3>2
      <4> QED
        BY <2>2, <3>2, <4>1
    <3> QED
      BY <3>1, <3>2
  <2>4. FromEnd(bytes, m + 1, g)
    <3> HIDE DEF g
    <3>1. g = [k \in 0..(m + 1) |-> g[k]]
      BY DEF g
    <3> QED
      BY <2>3, <3>1 DEF FromEnd
  <2> QED
    BY <2>4
<1> HIDE DEF T
<1>3. Nat \subseteq T
  BY <1>1, <1>2, Inductive
<1> QED
  BY <1>3 DEF T

LEMMA LinesFromEndIs ==
  ASSUME NEW bytes \in Seq(Bytes)
  PROVE  FromEnd(bytes, Len(bytes), LinesFromEnd(bytes))
<1>1. Len(bytes) \in Nat
  OBVIOUS
<1>2. \E f : FromEnd(bytes, Len(bytes), f)
  BY <1>1, FromEndExists
<1> QED
  BY <1>2 DEF FromEnd, LinesFromEnd

LEMMA LinesOfNothing == LinesOf(<<>>) = <<>>
<1> DEFINE f == LinesFromEnd(<<>>)
<1>1. <<>> \in Seq(Bytes) /\ Len(<<>>) = 0
  OBVIOUS
<1>2. FromEnd(<<>>, 0, f)
  BY <1>1, LinesFromEndIs
<1> HIDE DEF f
<1>3. f[0] = <<>>
  BY <1>2 DEF FromEnd
<1> QED
  BY <1>1, <1>3 DEF f, LinesOf

\* The lines are made from the end: one byte more before bytes makes of their
\* lines what AddByte does.
LEMMA LinesOfOneMore ==
  ASSUME NEW s \in Seq(Bytes), NEW ch \in Bytes
  PROVE  LinesOf(<<ch>> \o s) = AddByte(ch, LinesOf(s))
<1> DEFINE t == <<ch>> \o s
           f == LinesFromEnd(s)
           g == LinesFromEnd(t)
           T == {k \in Nat : k <= Len(s) => g[k] = f[k]}
<1>1. /\ t \in Seq(Bytes) /\ Len(s) \in Nat /\ Len(t) = Len(s) + 1 /\ t[1] = ch
      /\ \A i \in 1..Len(s) : t[i + 1] = s[i]
  OBVIOUS
<1> HIDE DEF t
<1>2. FromEnd(s, Len(s), f) /\ FromEnd(t, Len(t), g)
  BY <1>1, LinesFromEndIs
<1> HIDE DEF f, g
<1>3. 0 \in T
  BY <1>1, <1>2 DEF FromEnd
<1>4. ASSUME NEW k \in Nat, k \in T
      PROVE  k + 1 \in T
  <2> SUFFICES ASSUME k + 1 <= Len(s) PROVE g[k + 1] = f[k + 1]
    OBVIOUS
  <2>1. g[k] = f[k]
    BY <1>1, <1>4
  <2>2. k + 1 \in 0..Len(s) /\ k + 1 \in 0..Len(t) /\ (k + 1) - 1 = k /\ k + 1 # 0
    BY <1>1
  <2>3. f[k + 1] = AddByte(s[Len(s) - (k + 1) + 1], f[k])
    BY <1>2, <2>2 DEF FromEnd
  <2>4. g[k + 1] = AddByte(t[Len(t) - (k + 1) + 1], g[k])
    BY <1>2, <2>2 DEF FromEnd
  <2>5. t[Len(t) - (k + 1) + 1] = s[Len(s) - (k + 1) + 1]
    <3>1. Len(s) - (k + 1) + 1 \in 1..Len(s)
      BY <1>1
    <3>2. Len(t) - (k + 1) + 1 = (Len(s) - (k + 1) + 1) + 1
      BY <1>1
    <3> QED
      BY <1>1, <3>1, <3>2
  <2> QED
    BY <2>1, <2>3, <2>4, <2>5
<1> HIDE DEF T
<1>5. Nat \subseteq T
  BY <1>3, <1>4, Inductive
<1>6. g[Len(s)] = f[Len(s)]
  BY <1>1, <1>5 DEF T
<1>7. g[Len(t)] = AddByte(t[Len(t) - Len(t) + 1], g[Len(t) - 1])
  <2>1. Len(t) \in 0..Len(t) /\ Len(t) # 0
    BY <1>1
  <2> QED
    BY <1>2, <2>1 DEF FromEnd
<1>8. t[Len(t) - Len(t) + 1] = ch /\ Len(t) - 1 = Len(s)
  BY <1>1
<1>9. LinesOf(t) = AddByte(ch, LinesOf(s))
  BY <1>6, <1>7, <1>8 DEF f, g, LinesOf
<1> QED
  BY <1>9 DEF t

\* A sequence is its first element and the rest.
LEMMA FirstAndRest ==
  ASSUME NEW S, NEW s \in Seq(S), NEW n \in Nat, Len(s) = n + 1
  PROVE  /\ Head(s) \in S /\ Tail(s) \in Seq(S) /\ Len(Tail(s)) = n
         /\ s = <<Head(s)>> \o Tail(s)
  OBVIOUS

\* An element before a sequence is its head, and the sequence its tail.
LEMMA HeadAndTail ==
  ASSUME NEW S, NEW e \in S, NEW s \in Seq(S)
  PROVE  /\ <<e>> \o s \in Seq(S) /\ <<e>> \o s # <<>>
         /\ Len(<<e>> \o s) = Len(s) + 1
         /\ Head(<<e>> \o s) = e
         /\ Tail(<<e>> \o s) = s
  OBVIOUS

\* What is of the lines when a byte comes before them.
LEMMA AddByteTypes ==
  ASSUME NEW ch \in Bytes, NEW lines \in Seq(Seq(LineChars))
  PROVE  AddByte(ch, lines) \in Seq(Seq(LineChars))
<1>1. CASE ch = CR
  BY <1>1 DEF AddByte
<1>2. CASE ch = LF
  <2>1. <<>> \in Seq(LineChars)
    OBVIOUS
  <2>2. <<<<>>>> \in Seq(Seq(LineChars))
    BY <2>1
  <2> QED
    BY <1>2, <2>2, ConcatProperties DEF AddByte, CR, LF
<1>3. CASE ch \notin {CR, LF}
  <2>1. <<ch>> \in Seq(LineChars)
    BY <1>3 DEF LineChars
  <2>2. CASE lines = <<>>
    BY <1>3, <2>1, <2>2 DEF AddByte
  <2>3. CASE lines # <<>>
    <3>1. Head(lines) \in Seq(LineChars) /\ Tail(lines) \in Seq(Seq(LineChars))
      BY <2>3
    <3>2. <<ch>> \o Head(lines) \in Seq(LineChars)
      BY <2>1, <3>1, ConcatProperties
    <3>3. <<<<ch>> \o Head(lines)>> \in Seq(Seq(LineChars))
      BY <3>2
    <3>4. <<<<ch>> \o Head(lines)>> \o Tail(lines) \in Seq(Seq(LineChars))
      BY <3>1, <3>3, ConcatProperties
    <3> QED
      BY <1>3, <2>3, <3>4 DEF AddByte
  <2> QED
    BY <2>2, <2>3
<1> QED
  BY <1>1, <1>2, <1>3

LEMMA LinesTypes ==
  ASSUME NEW s \in Seq(Bytes)
  PROVE  LinesOf(s) \in Seq(Seq(LineChars))
<1> DEFINE T == {n \in Nat : \A t \in Seq(Bytes) :
                   Len(t) = n => LinesOf(t) \in Seq(Seq(LineChars))}
<1>1. 0 \in T
  <2>1. ASSUME NEW t \in Seq(Bytes), Len(t) = 0
        PROVE  LinesOf(t) \in Seq(Seq(LineChars))
    <3>1. LinesOf(t) = <<>>
      BY <2>1, LinesOfNothing
    <3>2. <<>> \in Seq(Seq(LineChars))
      OBVIOUS
    <3> QED
      BY <3>1, <3>2
  <2> QED
    BY <2>1
<1>2. ASSUME NEW n \in Nat, n \in T
      PROVE  n + 1 \in T
  <2>1. ASSUME NEW t \in Seq(Bytes), Len(t) = n + 1
        PROVE  LinesOf(t) \in Seq(Seq(LineChars))
    <3>1. /\ Head(t) \in Bytes /\ Tail(t) \in Seq(Bytes) /\ Len(Tail(t)) = n
          /\ t = <<Head(t)>> \o Tail(t)
      BY <2>1, FirstAndRest
    <3>2. LinesOf(Tail(t)) \in Seq(Seq(LineChars))
      BY <1>2, <3>1
    <3>3. LinesOf(t) = AddByte(Head(t), LinesOf(Tail(t)))
      BY <3>1, LinesOfOneMore
    <3> QED
      BY <3>1, <3>2, <3>3, AddByteTypes
  <2> QED
    BY <2>1
<1> HIDE DEF T
<1>3. Nat \subseteq T
  BY <1>1, <1>2, Inductive
<1> QED
  BY <1>3, LenProperties DEF T

\* What is read of a line stands before the first of the lines to come, which is
\* the rest of it.
Joined(l, lines) ==
  IF l = <<>> THEN lines
  ELSE IF lines = <<>> THEN <<l>>
  ELSE <<l \o Head(lines)>> \o Tail(lines)

LEMMA LinesAfter ==
  ASSUME NEW l \in Seq(LineChars), NEW s \in Seq(Bytes)
  PROVE  LinesOf(l \o s) = Joined(l, LinesOf(s))
<1> DEFINE lines == LinesOf(s)
           T == {n \in Nat : \A t \in Seq(LineChars) :
                   Len(t) = n => LinesOf(t \o s) = Joined(t, lines)}
<1>1. 0 \in T
  <2>1. ASSUME NEW t \in Seq(LineChars), Len(t) = 0
        PROVE  LinesOf(t \o s) = Joined(t, lines)
    <3>1. t = <<>> /\ t \o s = s
      BY <2>1
    <3> QED
      BY <3>1 DEF Joined
  <2> QED
    BY <2>1
<1>2. ASSUME NEW n \in Nat, n \in T
      PROVE  n + 1 \in T
  <2>1. ASSUME NEW t \in Seq(LineChars), Len(t) = n + 1
        PROVE  LinesOf(t \o s) = Joined(t, lines)
    <3> DEFINE h == Head(t)
               r == Tail(t)
    <3>1. h \in LineChars /\ r \in Seq(LineChars) /\ Len(r) = n /\ t = <<h>> \o r
      BY <2>1, FirstAndRest
    <3> HIDE DEF h, r
    <3>2. LineChars \subseteq Bytes /\ h \notin {CR, LF}
      BY <3>1 DEF LineChars
    <3>3. r \in Seq(Bytes) /\ r \o s \in Seq(Bytes) /\ t \o s = <<h>> \o (r \o s)
      BY <3>1, <3>2
    <3>4. LinesOf(r \o s) = Joined(r, lines)
      BY <1>2, <3>1
    <3>5. LinesOf(t \o s) = AddByte(h, Joined(r, lines))
      BY <3>1, <3>2, <3>3, <3>4, LinesOfOneMore
    <3>6. lines \in Seq(Seq(LineChars))
      BY LinesTypes
    <3> HIDE DEF lines
    <3>7. t # <<>>
      BY <3>1
    <3>8. CASE lines = <<>>
      <4>1. CASE r = <<>>
        <5>1. t = <<h>>
          BY <3>1, <4>1
        <5> QED
          BY <3>2, <3>5, <3>7, <3>8, <4>1, <5>1 DEF AddByte, Joined
      <4>2. CASE r # <<>>
        <5>1. Joined(r, lines) = <<r>>
          BY <3>8, <4>2 DEF Joined
        <5>2. <<r>> # <<>> /\ Head(<<r>>) = r /\ Tail(<<r>>) = <<>>
          OBVIOUS
        <5>3. <<<<h>> \o r>> \o <<>> = <<<<h>> \o r>>
          OBVIOUS
        <5>4. AddByte(h, <<r>>) = <<<<h>> \o r>>
          BY <3>2, <5>2, <5>3 DEF AddByte
        <5> QED
          BY <3>1, <3>5, <3>7, <3>8, <5>1, <5>4 DEF Joined
      <4> QED
        BY <4>1, <4>2
    <3>9. CASE lines # <<>>
      <4>1. Head(lines) \in Seq(LineChars) /\ Tail(lines) \in Seq(Seq(LineChars))
        BY <3>6, <3>9
      <4>2. CASE r = <<>>
        <5>1. t = <<h>>
          BY <3>1, <4>2
        <5> QED
          BY <3>2, <3>5, <3>7, <3>9, <4>2, <5>1 DEF AddByte, Joined
      <4>3. CASE r # <<>>
        <5> DEFINE x == r \o Head(lines)
        <5>1. Joined(r, lines) = <<x>> \o Tail(lines)
          BY <3>9, <4>3 DEF Joined
        <5>2. x \in Seq(LineChars) /\ <<h>> \o x = t \o Head(lines)
          <6>1. <<h>> \in Seq(LineChars)
            BY <3>1
          <6>2. x \in Seq(LineChars)
            BY <3>1, <4>1, ConcatProperties
          <6>3. <<h>> \o (r \o Head(lines)) = (<<h>> \o r) \o Head(lines)
            <7> DEFINE w == Head(lines)
            <7>1. r \in Seq(LineChars) /\ w \in Seq(LineChars)
              BY <3>1, <4>1
            <7> HIDE DEF w
            <7>2. <<h>> \o (r \o w) = (<<h>> \o r) \o w
              BY <6>1, <7>1, Associative
            <7> QED
              BY <7>2 DEF w
          <6> QED
            BY <3>1, <6>2, <6>3
        <5> HIDE DEF x
        <5>3. /\ <<x>> \o Tail(lines) # <<>>
              /\ Head(<<x>> \o Tail(lines)) = x
              /\ Tail(<<x>> \o Tail(lines)) = Tail(lines)
          <6> DEFINE S == Seq(LineChars)
          <6>1. x \in S /\ Tail(lines) \in Seq(S)
            BY <4>1, <5>2
          <6> HIDE DEF S
          <6> QED
            BY <6>1, HeadAndTail
        <5>4. AddByte(h, <<x>> \o Tail(lines)) = <<<<h>> \o x>> \o Tail(lines)
          BY <3>2, <5>3 DEF AddByte
        <5> QED
          BY <3>5, <3>7, <3>9, <5>1, <5>2, <5>4 DEF Joined
      <4> QED
        BY <4>2, <4>3
    <3> QED
      BY <3>8, <3>9
  <2> QED
    BY <2>1
<1> HIDE DEF T
<1>3. Nat \subseteq T
  BY <1>1, <1>2, Inductive
<1> QED
  BY <1>3, LenProperties DEF T

-----------------------------------------------------------------------------
(***************************************************************************)
(* That the lines are given out one by one.  Beside the types it takes two *)
(* more facts: between calls nothing of a line has been read, and b->no_more *)
(* is set only where there is nothing left.                                *)
(***************************************************************************)
BetweenLines == pc = "Idle" => line = <<>>
NoneLeft == no_more => ahead = <<>> /\ unread = <<>>

LEMMA EndStep ==
  TypeOK /\ BetweenLines /\ NoneLeft /\ [Next]_vars => BetweenLines' /\ NoneLeft'
<1> SUFFICES ASSUME TypeOK, BetweenLines, NoneLeft, [Next]_vars
             PROVE  BetweenLines' /\ NoneLeft'
  OBVIOUS
<1> USE DEF BetweenLines, NoneLeft
<1>1. CASE Call
  BY <1>1 DEF Call
<1>2. CASE Refill
  <2>1. PICK n \in Reads : unread' = SubSeq(unread, n + 1, Len(unread))
    BY <1>2 DEF Refill
  <2>2. unread # <<>>
    BY <2>1 DEF Reads, TypeOK
  <2> QED
    BY <1>2, <2>2 DEF Refill
<1>3. CASE SkipCR
  BY <1>3 DEF SkipCR
<1>4. CASE TakeByte
  BY <1>4 DEF TakeByte, Put, PutChar, DropChar, EndOfLine
<1>5. CASE TakeNone
  BY <1>5 DEF TakeNone, Put, PutChar, DropChar, EndOfLine
<1>6. CASE UNCHANGED vars
  BY <1>6 DEF vars
<1> QED
  BY <1>1, <1>2, <1>3, <1>4, <1>5, <1>6 DEF Next, Read

LEMMA EndInvariant == Spec => [](BetweenLines /\ NoneLeft)
<1>1. Init => BetweenLines /\ NoneLeft
  BY DEF Init, BetweenLines, NoneLeft
<1>2. ReaderInv => TypeOK
  BY DEF ReaderInv
<1> QED
  BY <1>1, <1>2, EndStep, ReaderInvariant, PTL DEF Spec

\* The line that is given for one that has been sent.
GivenFor(l) == IF Len(l) >= Size THEN TooLong ELSE l

LEMMA GivenTypes ==
  ASSUME NEW lines \in Seq(Seq(LineChars))
  PROVE  Given(lines) \in Seq(Seq(LineChars) \cup {TooLong})
  BY DEF Given

LEMMA GivenOneByOne ==
  ASSUME NEW l \in Seq(LineChars), NEW lines \in Seq(Seq(LineChars))
  PROVE  Given(<<l>> \o lines) = <<GivenFor(l)>> \o Given(lines)
<1> DEFINE S == Seq(LineChars)
           G == S \cup {TooLong}
           all == <<l>> \o lines
           g == Given(all)
           h == <<GivenFor(l)>> \o Given(lines)
<1>1. l \in S /\ lines \in Seq(S) /\ GivenFor(l) \in G
  BY DEF GivenFor
<1>2. Given(lines) \in Seq(G) /\ Len(Given(lines)) = Len(lines)
  BY GivenTypes DEF Given
<1> HIDE DEF S
<1>3. /\ all \in Seq(S) /\ Len(all) = Len(lines) + 1 /\ all[1] = l
      /\ \A k \in 1..Len(lines) : all[k + 1] = lines[k]
  BY <1>1
<1>4. g \in Seq(G) /\ Len(g) = Len(all) /\ \A k \in 1..Len(all) : g[k] = GivenFor(all[k])
  <2>1. g = [k \in 1..Len(all) |-> GivenFor(all[k])]
    BY DEF Given, GivenFor
  <2>2. g \in Seq(G)
    BY <1>3, GivenTypes DEF S
  <2> HIDE DEF all, g
  <2> QED
    BY <1>3, <2>1, <2>2
<1>5. \A k \in 1..Len(lines) : Given(lines)[k] = GivenFor(lines[k])
  BY DEF Given, GivenFor
<1> HIDE DEF all, g, G
<1>6. /\ h \in Seq(G) /\ Len(h) = Len(lines) + 1 /\ h[1] = GivenFor(l)
      /\ \A k \in 1..Len(lines) : h[k + 1] = Given(lines)[k]
  BY <1>1, <1>2
<1> HIDE DEF h
<1>7. ASSUME NEW k \in 1..Len(g)
      PROVE  g[k] = h[k]
  <2>1. CASE k = 1
    BY <1>3, <1>4, <1>6, <2>1
  <2>2. CASE k # 1
    <3>1. k - 1 \in 1..Len(lines) /\ (k - 1) + 1 = k
      BY <1>3, <1>4, <2>2
    <3>2. h[k] = Given(lines)[k - 1] /\ all[k] = lines[k - 1]
      BY <1>3, <1>6, <3>1
    <3>3. g[k] = GivenFor(all[k])
      BY <1>4
    <3> QED
      BY <1>5, <3>1, <3>2, <3>3
  <2> QED
    BY <2>1, <2>2
<1>8. g = h
  BY <1>3, <1>4, <1>6, <1>7, SeqEqual
<1> QED
  BY <1>8 DEF all, g, h

\* The lines still to come are those of the bytes that are ahead, after what has
\* been read of a line.
Coming == LinesOf(ahead \o unread)

LEMMA LinesLeft ==
  ASSUME NEW l \in Seq(LineChars), NEW a \in Seq(Bytes), NEW u \in Seq(Bytes)
  PROVE  /\ LinesOf(a \o u) \in Seq(Seq(LineChars))
         /\ LinesOf(l \o a \o u) = Joined(l, LinesOf(a \o u))
<1>1. l \in Seq(Bytes) /\ a \o u \in Seq(Bytes)
  BY DEF LineChars
<1>2. l \o a \o u = l \o (a \o u)
  BY <1>1, ConcatAssociative
<1> QED
  BY <1>1, <1>2, LinesAfter, LinesTypes

\* A byte that is taken is one of those ahead.
LEMMA ByteTaken ==
  ASSUME TypeOK, TypeOK', ahead # <<>>, ahead' = Tail(ahead), unread' = unread
  PROVE  /\ Head(ahead) \in Bytes
         /\ Coming = AddByte(Head(ahead), Coming')
<1>1. ahead \in Seq(Bytes) /\ unread \in Seq(Bytes) /\ Tail(ahead) \in Seq(Bytes)
      /\ Head(ahead) \in Bytes
  BY DEF TypeOK
<1> DEFINE h == Head(ahead)
           r == Tail(ahead)
<1>2. ahead = <<h>> \o r /\ <<h>> \in Seq(Bytes)
  BY <1>1
<1>3. r \o unread \in Seq(Bytes)
  BY <1>1, ConcatProperties
<1>4. ahead \o unread = <<h>> \o (r \o unread)
  <2>1. r \in Seq(Bytes) /\ h \in Bytes
    BY <1>1
  <2> HIDE DEF h, r
  <2> QED
    BY <1>1, <1>2, <2>1, ConcatAssociative
<1> QED
  BY <1>1, <1>3, <1>4, LinesOfOneMore DEF Coming

\* Refilling b->buf, and leaving out a CR, change nothing of what is to come.
LEMMA BytesMove ==
  ASSUME TypeOK, TypeOK', Refill \/ SkipCR
  PROVE  Coming' = Coming
<1>1. CASE Refill
  <2>1. PICK n \in Reads : /\ ahead' = SubSeq(unread, 1, n)
                           /\ unread' = SubSeq(unread, n + 1, Len(unread))
    BY <1>1 DEF Refill
  <2>2. unread \in Seq(Bytes) /\ n \in 1..Len(unread) /\ ahead = <<>>
    BY <1>1, <2>1 DEF TypeOK, Reads, Refill
  <2>3. ahead' \o unread' = ahead \o unread
    BY <2>1, <2>2
  <2> QED
    BY <2>3 DEF Coming
<1>2. CASE SkipCR
  BY <1>2, ByteTaken DEF SkipCR, AddByte
<1> QED
  BY <1>1, <1>2

ToCome == Given(LinesOf(line \o ahead \o unread))

\* What is to come, before and after a step.
LEMMA ToComeIs ==
  ASSUME TypeOK, TypeOK'
  PROVE  /\ Coming \in Seq(Seq(LineChars)) /\ ToCome = Given(Joined(line, Coming))
         /\ Coming' \in Seq(Seq(LineChars)) /\ ToCome' = Given(Joined(line', Coming'))
  BY LinesLeft DEF TypeOK, LineChars, ToCome, Coming

\* A line that has got too long is given for too long, whatever comes after it.
LEMMA TooLongGiven ==
  ASSUME NEW l \in Seq(LineChars), Len(l) >= Size,
         NEW first \in Seq(LineChars), NEW others \in Seq(Seq(LineChars))
  PROVE  Given(Joined(l, <<first>> \o others)) = <<TooLong>> \o Given(others)
<1>1. l # <<>> /\ l \o first \in Seq(LineChars) /\ Len(l \o first) >= Size
  BY LineReaderAssumption
<1>2. <<first>> \o others # <<>> /\ Head(<<first>> \o others) = first
      /\ Tail(<<first>> \o others) = others
  <2> DEFINE S == Seq(LineChars)
  <2>1. first \in S /\ others \in Seq(S)
    OBVIOUS
  <2> HIDE DEF S
  <2> QED
    BY <2>1, HeadAndTail
<1>3. Joined(l, <<first>> \o others) = <<l \o first>> \o others
  BY <1>1, <1>2 DEF Joined
<1>4. GivenFor(l \o first) = TooLong
  BY <1>1 DEF GivenFor
<1> QED
  BY <1>1, <1>3, <1>4, GivenOneByOne

LEMMA TooLongAlone ==
  ASSUME NEW l \in Seq(LineChars), Len(l) >= Size
  PROVE  Given(Joined(l, <<>>)) = <<TooLong>>
<1>1. l # <<>> /\ GivenFor(l) = TooLong
  BY LineReaderAssumption DEF GivenFor
<1>2. Joined(l, <<>>) = <<l>>
  BY <1>1 DEF Joined
<1>3. Given(<<l>>) = <<GivenFor(l)>>
  BY DEF Given, GivenFor
<1> QED
  BY <1>1, <1>2, <1>3

\* A byte that is thrown away: the line it would have been of is too long anyway.
LEMMA DropKeeps ==
  ASSUME NEW l \in Seq(LineChars), Len(l) >= Size, NEW ch \in LineChars,
         NEW lines \in Seq(Seq(LineChars))
  PROVE  Given(Joined(l, AddByte(ch, lines))) = Given(Joined(l, lines))
<1>1. ch \notin {CR, LF} /\ <<ch>> \in Seq(LineChars)
  BY DEF LineChars
<1>2. CASE lines = <<>>
  <2>1. AddByte(ch, lines) = <<<<ch>>>> \o <<>>
    BY <1>1, <1>2 DEF AddByte
  <2>2. <<>> \in Seq(Seq(LineChars)) /\ Given(<<>>) = <<>>
    BY DEF Given
  <2>3. Given(Joined(l, AddByte(ch, lines))) = <<TooLong>> \o <<>>
    <3>1. <<ch>> \in Seq(LineChars) /\ <<>> \in Seq(Seq(LineChars))
      BY <1>1, <2>2
    <3>2. Given(Joined(l, <<<<ch>>>> \o <<>>)) = <<TooLong>> \o Given(<<>>)
      BY <3>1, TooLongGiven
    <3> QED
      BY <2>1, <2>2, <3>2
  <2> QED
    BY <1>2, <2>3, TooLongAlone
<1>3. CASE lines # <<>>
  <2>1. PICK h, t : h = Head(lines) /\ t = Tail(lines)
    OBVIOUS
  <2>2. h \in Seq(LineChars) /\ t \in Seq(Seq(LineChars)) /\ lines = <<h>> \o t
    BY <1>3, <2>1
  <2>3. <<ch>> \o h \in Seq(LineChars)
    BY <1>1, <2>2, ConcatProperties
  <2>4. AddByte(ch, lines) = <<<<ch>> \o h>> \o t
    BY <1>1, <1>3, <2>1 DEF AddByte
  <2>5. Given(Joined(l, <<h>> \o t)) = <<TooLong>> \o Given(t)
    BY <2>2, TooLongGiven
  <2>6. Given(Joined(l, <<<<ch>> \o h>> \o t)) = <<TooLong>> \o Given(t)
    BY <2>2, <2>3, TooLongGiven
  <2> QED
    BY <2>2, <2>4, <2>5, <2>6
<1> QED
  BY <1>2, <1>3

\* The end of a line gives it out, or, between two calls, the news that there are
\* no more.
LEMMA EndGives ==
  ASSUME NEW l \in Seq(LineChars), NEW lines \in Seq(Seq(LineChars))
  PROVE  /\ Given(Joined(l, <<<<>>>> \o lines)) = <<GivenFor(l)>> \o Given(lines)
         /\ l # <<>> => Given(Joined(l, <<>>)) = <<GivenFor(l)>> \o Given(<<>>)
         /\ Given(Joined(<<>>, lines)) = Given(lines)
         /\ Given(<<>>) = <<>>
         /\ Tail(<<GivenFor(l)>> \o Given(lines)) = Given(lines)
         /\ Head(<<GivenFor(l)>> \o Given(lines)) = GivenFor(l)
         /\ <<GivenFor(l)>> \o Given(lines) # <<>>
<1> DEFINE S == Seq(LineChars)
           G == S \cup {TooLong}
<1>1. <<>> \in S /\ l \o <<>> = l
  OBVIOUS
<1>2. <<<<>>>> \o lines # <<>> /\ Head(<<<<>>>> \o lines) = <<>>
      /\ Tail(<<<<>>>> \o lines) = lines
  <2>1. <<>> \in S /\ lines \in Seq(S)
    BY <1>1
  <2> HIDE DEF S
  <2> QED
    BY <2>1, HeadAndTail
<1>3. Joined(l, <<<<>>>> \o lines) = <<l>> \o lines
  BY <1>1, <1>2 DEF Joined
<1>4. Joined(l, <<<<>>>> \o lines) = <<l>> \o lines => 
      Given(Joined(l, <<<<>>>> \o lines)) = <<GivenFor(l)>> \o Given(lines)
  BY GivenOneByOne
<1>5. Given(<<>>) = <<>>
  BY DEF Given
<1>6. ASSUME l # <<>>
      PROVE  Given(Joined(l, <<>>)) = <<GivenFor(l)>> \o Given(<<>>)
  <2>1. Joined(l, <<>>) = <<l>> \o <<>> /\ <<>> \in Seq(Seq(LineChars))
    BY <1>6 DEF Joined
  <2> QED
    BY <2>1, GivenOneByOne
<1>7. GivenFor(l) \in G /\ Given(lines) \in Seq(G)
  BY GivenTypes DEF GivenFor
<1>8. Joined(<<>>, lines) = lines
  BY DEF Joined
<1> HIDE DEF G
<1> QED
  BY <1>3, <1>4, <1>5, <1>6, <1>7, <1>8, HeadAndTail

\* What is done with a byte that is no CR amounts to giving a line, or to nothing.
LEMMA ByteGives ==
  ASSUME TypeOK, TypeOK', StaysInBuffer, NoneLeft, TakeByte
  PROVE  L!TakeLine \/ UNCHANGED <<ToCome, out>>
<1> DEFINE h == Head(ahead)
<1>1. /\ h \in Bytes \ {CR} /\ Put(h, no_more) /\ ~no_more /\ ahead # <<>>
      /\ Coming = AddByte(h, Coming') /\ ahead' = Tail(ahead) /\ unread' = unread
  BY ByteTaken DEF TakeByte, NoneLeft
<1>2. /\ line \in Seq(LineChars) /\ line' \in Seq(LineChars) /\ ahead \in Seq(Bytes)
      /\ unread \in Seq(Bytes) /\ LineChars = Bytes \ {CR, LF}
  BY DEF TypeOK, LineChars
<1>3. ahead = <<h>> \o ahead'
  BY <1>1, <1>2
<1>4. ahead' \in Seq(Bytes)
  BY <1>1, <1>2
<1> HIDE DEF h
<1>5. CASE PutChar(h)
  <2>1. line' = line \o <<h>> /\ UNCHANGED out
    BY <1>2, <1>5 DEF PutChar
  <2>2. <<h>> \in Seq(Bytes) /\ line \in Seq(Bytes)
    BY <1>1, <1>2
  <2>3. line' \o ahead' = line \o ahead
    BY <1>3, <1>4, <2>1, <2>2, ConcatAssociative
  <2> QED
    BY <1>1, <2>1, <2>3 DEF ToCome
<1>6. CASE DropChar(h)
  <2>1. h \in LineChars /\ Len(line) >= Size /\ UNCHANGED <<line, out>>
    BY <1>1, <1>2, <1>6, LineReaderAssumption DEF DropChar, StaysInBuffer
  <2> QED
    BY <1>1, <1>2, <2>1, ToComeIs, DropKeeps
<1>7. CASE EndOfLine(h, no_more)
  <2>1. Coming = <<<<>>>> \o Coming' /\ line' = <<>>
    BY <1>1, <1>7 DEF EndOfLine, AddByte
  <2>2. out' = GivenFor(line)
    BY <1>1, <1>2, <1>7, LineReaderAssumption
    DEF EndOfLine, Returns, GivenFor, StaysInBuffer
  <2>3. /\ ToCome = <<GivenFor(line)>> \o Given(Coming') /\ ToCome # <<>>
        /\ Head(ToCome) = GivenFor(line) /\ Tail(ToCome) = Given(Coming')
        /\ ToCome' = Given(Coming')
    <3>1. PICK r : r = Coming'
      OBVIOUS
    <3>2. /\ r \in Seq(Seq(LineChars)) /\ ToCome' = Given(Joined(<<>>, r))
          /\ ToCome = Given(Joined(line, <<<<>>>> \o r))
      BY <2>1, <3>1, ToComeIs
    <3>3. /\ Given(Joined(line, <<<<>>>> \o r)) = <<GivenFor(line)>> \o Given(r)
          /\ Given(Joined(<<>>, r)) = Given(r)
          /\ Tail(<<GivenFor(line)>> \o Given(r)) = Given(r)
          /\ Head(<<GivenFor(line)>> \o Given(r)) = GivenFor(line)
          /\ <<GivenFor(line)>> \o Given(r) # <<>>
      BY <1>2, <3>2, EndGives
    <3> QED
      BY <3>1, <3>2, <3>3
  <2> QED
    BY <2>2, <2>3 DEF L!TakeLine, ToCome
<1> QED
  BY <1>1, <1>5, <1>6, <1>7 DEF Put

\* And at the end of the connection, to giving what has been read of a line.
LEMMA NoneGives ==
  ASSUME TypeOK, TypeOK', StaysInBuffer, TakeNone
  PROVE  L!LineNext \/ UNCHANGED <<ToCome, out>>
<1>1. /\ Put(LF, TRUE) /\ ahead = <<>> /\ unread = <<>> /\ UNCHANGED <<ahead, unread>>
      /\ line \in Seq(LineChars)
  BY DEF TakeNone, AtEnd, TypeOK, LineChars
<1>2. EndOfLine(LF, TRUE)
  BY <1>1 DEF Put, PutChar, DropChar
<1>3. Coming = <<>> /\ Coming' = <<>> /\ line' = <<>>
  <2>1. ahead \o unread = <<>> /\ ahead' \o unread' = <<>>
    BY <1>1
  <2> QED
    BY <1>2, <2>1, LinesOfNothing DEF Coming, EndOfLine
<1>4. <<>> \in Seq(Seq(LineChars))
  OBVIOUS
<1>5. /\ ToCome = Given(Joined(line, <<>>)) /\ ToCome' = <<>>
      /\ Given(Joined(<<>>, <<>>)) = <<>>
  <2>1. ToCome = Given(Joined(line, <<>>)) /\ ToCome' = Given(Joined(<<>>, <<>>))
    BY <1>3, ToComeIs
  <2>2. Given(Joined(<<>>, <<>>)) = Given(<<>>) /\ Given(<<>>) = <<>>
    BY <1>1, <1>4, EndGives
  <2> QED
    BY <2>1, <2>2
<1>6. CASE line = <<>> /\ pc = "Fill"
  <2>1. ToCome = <<>>
    BY <1>5, <1>6
  <2>2. out' = NoMore
    BY <1>2, <1>6 DEF EndOfLine, Returns
  <2> QED
    BY <1>5, <2>1, <2>2 DEF L!LineNext, L!End, ToCome
<1>7. CASE line # <<>>
  <2>1. out' = GivenFor(line)
    BY <1>1, <1>2, <1>7, LineReaderAssumption
    DEF EndOfLine, Returns, GivenFor, StaysInBuffer
  <2>2. /\ ToCome = <<GivenFor(line)>> \o Given(<<>>) /\ ToCome # <<>>
        /\ Head(ToCome) = GivenFor(line) /\ Tail(ToCome) = Given(<<>>) /\ Given(<<>>) = <<>>
    BY <1>1, <1>4, <1>5, <1>7, EndGives
  <2> QED
    BY <1>5, <2>1, <2>2 DEF L!LineNext, L!TakeLine, ToCome
<1> QED
  BY <1>1, <1>2, <1>6, <1>7, LineReaderAssumption DEF EndOfLine, StaysInBuffer

LEMMA GivesLines ==
  ASSUME ReaderInv, ReaderInv', BetweenLines, NoneLeft, [Next]_vars
  PROVE  L!LineNext \/ UNCHANGED <<ToCome, out>>
<1>1. TypeOK /\ TypeOK' /\ StaysInBuffer
  BY DEF ReaderInv
<1>2. CASE Call
  BY <1>2 DEF Call, BetweenLines, ToCome
<1>3. CASE Refill
  BY <1>1, <1>3, BytesMove, ToComeIs DEF Refill
<1>4. CASE SkipCR
  BY <1>1, <1>4, BytesMove, ToComeIs DEF SkipCR
<1>5. CASE TakeByte
  BY <1>1, <1>5, ByteGives DEF L!LineNext
<1>6. CASE TakeNone
  BY <1>1, <1>6, NoneGives
<1>7. CASE UNCHANGED vars
  BY <1>7 DEF vars, ToCome
<1> QED
  BY <1>2, <1>3, <1>4, <1>5, <1>6, <1>7 DEF Next, Read

\* rlb_read_line gives out the lines that were sent, each once and in order, and
\* whole or as too long, whatever the pieces read() returns them in, for buffers
\* of every size: LineReader implements LineStream.
THEOREM LinesReadInOrder == Spec => ReadsTheLines
<1>1. Init => L!LineInit
  <2> SUFFICES ASSUME Init PROVE L!LineInit
    OBVIOUS
  <2>1. ReaderInv
    BY ReaderInit
  <2>2. line = <<>> /\ line \in Seq(LineChars) /\ ahead \in Seq(Bytes)
        /\ unread \in Seq(Bytes) /\ out = NothingYet
    BY <2>1 DEF Init, ReaderInv, TypeOK, LineChars
  <2>3. ToCome = Given(Joined(line, Coming)) /\ Coming \in Seq(Seq(LineChars))
    BY <2>2, LinesLeft DEF ToCome, Coming
  <2>4. ToCome \in Seq(Seq(LineChars) \cup {TooLong})
    BY <2>2, <2>3, GivenTypes DEF Joined
  <2>5. Seq(Seq(LineChars) \cup {TooLong}) \subseteq Seq(Seq(Bytes) \cup {TooLong})
    BY DEF LineChars
  <2> QED
    BY <2>2, <2>4, <2>5 DEF L!LineInit, ToCome
<1>2. ReaderInv /\ ReaderInv' /\ BetweenLines /\ NoneLeft /\ [Next]_vars
        => [L!LineNext]_<<ToCome, out>>
  BY GivesLines
<1>3. Spec => []ReaderInv /\ [](BetweenLines /\ NoneLeft)
  BY ReaderInvariant, EndInvariant
<1> QED
  BY <1>1, <1>2, <1>3, PTL DEF Spec, ReadsTheLines, L!LineSpec, ToCome

=============================================================================
