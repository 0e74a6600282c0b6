--------------------------- MODULE TransferProofs ---------------------------
(***************************************************************************)
(* What is proved of Transfer, for files and blocks of every length and    *)
(* however much goes wrong: the inductive invariant, and that every step   *)
(* is one of ResumableCopy or changes nothing of the copy.                 *)
(*                                                                         *)
(* Arrived, pend and wire are one beginning of the file, cut in three;     *)
(* every step of the data thread and of the far end moves a cut.           *)
(***************************************************************************)
EXTENDS Transfer, SequenceTheorems, TLAPS

USE DEF Bytes

-----------------------------------------------------------------------------
(***************************************************************************)
(* Stretches of the file                                                   *)
(***************************************************************************)
LEMMA FollowsConcat ==
  ASSUME NEW s \in Seq(Bytes), NEW t \in Seq(Bytes), NEW n \in Nat,
         Follows(s, n), Follows(t, n + Len(s))
  PROVE  /\ s \o t \in Seq(Bytes)
         /\ Len(s \o t) = Len(s) + Len(t)
         /\ Follows(s \o t, n)
  <1>1. Len(s) \in Nat /\ Len(t) \in Nat
    BY LenProperties
  <1>2. /\ s \o t \in Seq(Bytes)
        /\ Len(s \o t) = Len(s) + Len(t)
        /\ \A i \in 1..(Len(s) + Len(t)) :
             (s \o t)[i] = IF i <= Len(s) THEN s[i] ELSE t[i - Len(s)]
    BY ConcatProperties
  <1>3. ASSUME NEW i \in 1..(Len(s) + Len(t))
        PROVE  (s \o t)[i] = n + i
    <2>1. CASE i <= Len(s)
      BY <1>1, <1>2, <2>1 DEF Follows
    <2>2. CASE ~(i <= Len(s))
      <3>1. i - Len(s) \in 1..Len(t)
        BY <1>1, <2>2
      <3>2. t[i - Len(s)] = n + Len(s) + (i - Len(s))
        BY <3>1 DEF Follows
      <3>3. n + Len(s) + (i - Len(s)) = n + i
        BY <1>1
      <3> QED BY <1>2, <2>2, <3>2, <3>3
    <2> QED BY <2>1, <2>2
  <1> QED BY <1>2, <1>3 DEF Follows

LEMMA FollowsSplit ==
  ASSUME NEW s \in Seq(Bytes), NEW n \in Nat, Follows(s, n), NEW k \in 0..Len(s)
  PROVE  /\ SubSeq(s, 1, k) \in Seq(Bytes)
         /\ Len(SubSeq(s, 1, k)) = k
         /\ Follows(SubSeq(s, 1, k), n)
         /\ SubSeq(s, k + 1, Len(s)) \in Seq(Bytes)
         /\ Len(SubSeq(s, k + 1, Len(s))) = Len(s) - k
         /\ Follows(SubSeq(s, k + 1, Len(s)), n + k)
  <1> DEFINE l == Len(s)
             m == k + 1
  <1>1. l \in Nat /\ k \in Nat /\ k <= l /\ \A i \in 1..l : s[i] \in Bytes
    <2>1. l \in Nat /\ k \in Nat /\ k <= l
      BY LenProperties
    <2>2. \A i \in 1..l : s[i] \in Bytes
      BY ElementOfSeq
    <2> QED BY <2>1, <2>2
  <1>2. \A i \in 1..l : s[i] = n + i
    BY DEF Follows
  <1> HIDE DEF l
  <1>3. /\ SubSeq(s, 1, k) \in Seq(Bytes)
        /\ Len(SubSeq(s, 1, k)) = k
        /\ \A i \in 1..k : SubSeq(s, 1, k)[i] = n + i
    <2>1. \A i \in 1..k : s[i] \in Bytes
      BY <1>1
    <2>2. /\ SubSeq(s, 1, k) \in Seq(Bytes)
          /\ Len(SubSeq(s, 1, k)) = IF 1 <= k THEN k - 1 + 1 ELSE 0
          /\ \A i \in 1..(k - 1 + 1) : SubSeq(s, 1, k)[i] = s[1 + i - 1]
      BY <1>1, <2>1, SubSeqProperties
    <2>3. ASSUME NEW i \in 1..k
          PROVE  SubSeq(s, 1, k)[i] = n + i
      <3>1. i \in 1..(k - 1 + 1) /\ 1 + i - 1 = i /\ i \in 1..l
        BY <1>1
      <3> QED BY <1>2, <2>2, <3>1
    <2> QED BY <1>1, <2>2, <2>3
  <1>4. /\ SubSeq(s, m, l) \in Seq(Bytes)
        /\ Len(SubSeq(s, m, l)) = l - k
        /\ \A i \in 1..(l - k) : SubSeq(s, m, l)[i] = n + k + i
    <2>1. m \in Int /\ l \in Int /\ \A i \in m..l : s[i] \in Bytes
      BY <1>1
    <2> HIDE DEF m
    <2>2. /\ SubSeq(s, m, l) \in Seq(Bytes)
          /\ Len(SubSeq(s, m, l)) = IF m <= l THEN l - m + 1 ELSE 0
          /\ \A i \in 1..(l - m + 1) : SubSeq(s, m, l)[i] = s[m + i - 1]
      BY <2>1, SubSeqProperties
    <2>3. Len(SubSeq(s, m, l)) = l - k
      BY <1>1, <2>2 DEF m
    <2>4. ASSUME NEW i \in 1..(l - k)
          PROVE  SubSeq(s, m, l)[i] = n + k + i
      <3>1. i \in 1..(l - m + 1) /\ m + i - 1 = k + i /\ k + i \in 1..l
        BY <1>1 DEF m
      <3>2. s[k + i] = n + (k + i)
        BY <1>2, <3>1
      <3>3. SubSeq(s, m, l)[i] = s[k + i]
        BY <2>2, <3>1
      <3> QED BY <1>1, <3>2, <3>3
    <2> QED BY <2>2, <2>3, <2>4
  <1> QED BY <1>3, <1>4 DEF Follows, l

LEMMA FollowsAppend ==
  ASSUME NEW s \in Seq(Bytes), NEW n \in Nat, Follows(s, n),
         NEW e \in Bytes, e = n + Len(s) + 1
  PROVE  /\ Append(s, e) \in Seq(Bytes)
         /\ Len(Append(s, e)) = Len(s) + 1
         /\ Follows(Append(s, e), n)
  <1>1. Len(s) \in Nat
    BY LenProperties
  <1>2. /\ Append(s, e) \in Seq(Bytes)
        /\ Len(Append(s, e)) = Len(s) + 1
        /\ \A i \in 1..Len(s) : Append(s, e)[i] = s[i]
        /\ Append(s, e)[Len(s) + 1] = e
    BY AppendProperties
  <1>3. ASSUME NEW i \in 1..(Len(s) + 1)
        PROVE  Append(s, e)[i] = n + i
    <2>1. CASE i \in 1..Len(s)
      BY <1>2, <2>1 DEF Follows
    <2>2. CASE i = Len(s) + 1
      BY <1>1, <1>2, <2>2
    <2> QED BY <1>1, <2>1, <2>2
  <1> QED BY <1>2, <1>3 DEF Follows

\* The n bytes of the file that come after pos.
LEMMA StretchIs ==
  ASSUME NEW at \in Nat, NEW n \in Nat, at + n <= Length
  PROVE  /\ [i \in 1..n |-> at + i] \in Seq(Bytes)
         /\ Len([i \in 1..n |-> at + i]) = n
         /\ Follows([i \in 1..n |-> at + i], at)
  <1> DEFINE s == [i \in 1..n |-> at + i]
  <1>1. Length \in Nat
    BY TransferAssumption
  <1>2. s \in [1..n -> Bytes]
    BY <1>1
  <1>3. s \in Seq(Bytes) /\ Len(s) = n
    <2>1. s \in Seq(Bytes)
      BY <1>2, SeqDef
    <2>2. DOMAIN s = 1..n
      OBVIOUS
    <2> HIDE DEF s
    <2> QED BY <2>1, <2>2, LenProperties
  <1>4. Follows(s, at)
    BY <1>3 DEF Follows
  <1> QED BY <1>3, <1>4

LEMMA FollowsEmpty ==
  /\ <<>> \in Seq(Bytes) /\ Len(<<>>) = 0
  /\ \A n : Follows(<<>>, n)
  BY EmptySeq DEF Follows

\* The abstract specification's word for it.
LEMMA BeginningIs ==
  ASSUME NEW s \in Seq(Bytes), Follows(s, 0)
  PROVE  s = Copy!Beginning(Len(s))
  <1>1. Len(s) \in Nat /\ s \in [1..Len(s) -> Bytes]
    BY LenProperties
  <1>2. \A i \in 1..Len(s) : s[i] = i
    BY <1>1 DEF Follows
  <1>3. DOMAIN s = 1..Len(s) /\ s = [i \in DOMAIN s |-> s[i]]
    BY <1>1
  <1> QED BY <1>2, <1>3 DEF Copy!Beginning

LEMMA MinIs ==
  ASSUME NEW a \in Nat, NEW b \in Nat
  PROVE  Min({a, b}) = IF a <= b THEN a ELSE b
  <1> DEFINE P(x) == x \in {a, b} /\ \A y \in {a, b} : x <= y
  <1>1. Min({a, b}) = CHOOSE x : P(x)
    BY DEF Min
  <1>2. P(IF a <= b THEN a ELSE b)
    OBVIOUS
  <1>3. \A x : P(x) => x = IF a <= b THEN a ELSE b
    OBVIOUS
  <1> HIDE DEF P
  <1> QED BY <1>1, <1>2, <1>3

-----------------------------------------------------------------------------
(***************************************************************************)
(* The invariant, step by step                                             *)
(***************************************************************************)
\* What the invariant is about, and how long it is.
LEMMA Parts ==
  ASSUME TypeOK
  PROVE  /\ Length \in Nat /\ BufSize \in Nat /\ BufSize > 0
         /\ Opened(file) \in Seq(Bytes) /\ Arrived \in Seq(Bytes)
         /\ pend \in Seq(Bytes) /\ wire \in Seq(Bytes) /\ copy \in Seq(Bytes)
         /\ Len(Arrived) \in Nat /\ Len(pend) \in Nat /\ Len(wire) \in Nat
         /\ InHand = Len(Arrived) + Len(pend)
         /\ InHand \in Nat /\ OnItsWay \in Nat
         /\ pos \in Nat /\ pos <= Length
         /\ <<>> # Missing /\ (file # Missing => file \in Seq(Bytes))
  <1>1. Length \in Nat /\ BufSize \in Nat /\ BufSize > 0 /\ <<>> # Missing
    <2>1. <<>> \in Seq(Bytes) /\ Missing \notin Seq(Bytes)
      BY FollowsEmpty, TransferAssumption
    <2>2. Length \in Nat /\ BufSize \in Nat /\ BufSize > 0
      BY TransferAssumption
    <2> QED BY <2>1, <2>2
  <1>2. pend \in Seq(Bytes) /\ wire \in Seq(Bytes) /\ copy \in Seq(Bytes)
    BY DEF TypeOK
  <1>3. Opened(file) \in Seq(Bytes) /\ (file # Missing => file \in Seq(Bytes))
    BY FollowsEmpty DEF TypeOK, Opened
  <1>4. Arrived \in Seq(Bytes)
    BY <1>2, <1>3, FollowsEmpty DEF Arrived
  <1>5. Len(Arrived) \in Nat /\ Len(pend) \in Nat /\ Len(wire) \in Nat
    BY <1>2, <1>4, LenProperties
  <1>6. InHand = Len(Arrived) + Len(pend) /\ InHand \in Nat /\ OnItsWay \in Nat
    BY <1>5 DEF InHand, OnItsWay
  <1>7. pos \in Nat /\ pos <= Length
    BY <1>1 DEF TypeOK
  <1> QED BY <1>1, <1>2, <1>3, <1>4, <1>5, <1>6, <1>7

\* A step that leaves what is under way alone, and comes to no end.
LEMMA QuietKeeps ==
  ASSUME TransferInv, TypeOK', Phases',
         UNCHANGED <<task, file, copy, begun, pend, wire, pos, fin, cut, seen, unseen, far>>,
         Moving' => Moving,
         st' = "complete" \/ (reply' = "226" /\ ~aborted') =>
           /\ st = "complete" \/ (reply = "226" /\ ~aborted)
           /\ Moving' = Moving
  PROVE  TransferInv'
  <1>1. Arrived' = Arrived /\ InHand' = InHand
    BY DEF Arrived, Opened, InHand
  <1>2. OnItsWay' \in Nat /\ OnItsWay' <= OnItsWay
    BY Parts DEF OnItsWay, TransferInv
  <1>3. Moving' = Moving => OnItsWay' = OnItsWay
    BY DEF OnItsWay
  <1>4. InOrder'
    <2>1. InHand' + OnItsWay' <= Length
      BY <1>1, <1>2, Parts DEF TransferInv, InOrder
    <2> QED BY <1>1, <2>1 DEF TransferInv, InOrder, Follows
  <1>5. Counted'
    <2> SUFFICES ASSUME far' = "busy", Moving' PROVE
                   /\ ~seen' /\ ~unseen' => pos' = InHand' + OnItsWay'
                   /\ ~cut' => ~seen' /\ ~unseen'
                   /\ task' = "STOR" /\ fin' => pos' = Length
      BY DEF Counted
    <2>1. Moving /\ OnItsWay' = OnItsWay
      BY DEF OnItsWay
    <2> QED BY <1>1, <2>1 DEF TransferInv, Counted
  <1>6. Reported'
    BY <1>1, <1>3 DEF TransferInv, Reported
  <1> QED BY <1>4, <1>5, <1>6 DEF TransferInv

\* The transfer is not over, and has not lost anything of the copy.
Grows == far # "done" /\ far' # "done" /\ Len(Arrived') >= Len(Arrived)

\* Commands between transfers that concern the offset alone, and the steps of the
\* data thread that read and write nothing.
LEMMA QuietSteps ==
  ASSUME TransferInv, trouble' \in 0..MaxTrouble,
         \/ \E offs \in 0..Length : Rest(offs)
         \/ RetrRefused \/ Reconnect \/ Abort
         \/ Connected \/ NotConnected \/ CheckRunning \/ ReadWouldBlock
  PROVE  TransferInv' /\ Grows
  <1> USE DEF server, link, client, TransferInv
  <1>1. ASSUME \E offs \in 0..Length : Rest(offs) PROVE TransferInv'
    <2>1. TypeOK' /\ Phases'
      BY <1>1 DEF Rest, TypeOK, Phases
    <2> QED BY <1>1, <2>1, QuietKeeps DEF Rest, Moving
  <1>2. ASSUME RetrRefused PROVE TransferInv'
    <2>1. TypeOK' /\ Phases'
      BY <1>2 DEF RetrRefused, RestAfterRefusedRetr, TypeOK, Phases
    <2> QED BY <1>2, <2>1, QuietKeeps DEF RetrRefused, Moving
  <1>3. ASSUME Reconnect PROVE TransferInv'
    <2>1. TypeOK' /\ Phases'
      BY <1>3, Parts DEF Reconnect, TypeOK, Phases
    <2> QED BY <1>3, <2>1, QuietKeeps DEF Reconnect, Moving
  <1>4. ASSUME Abort PROVE TransferInv'
    <2>1. TypeOK' /\ Phases'
      BY <1>4 DEF Abort, TypeOK, Phases
    <2> QED BY <1>4, <2>1, QuietKeeps DEF Abort, Moving
  <1>5. ASSUME Connected PROVE TransferInv'
    <2>1. TypeOK' /\ Phases'
      BY <1>5 DEF Connected, Thread, TypeOK, Phases
    <2> QED BY <1>5, <2>1, QuietKeeps DEF Connected, Thread, Moving
  <1>6. ASSUME NotConnected PROVE TransferInv'
    <2>1. TypeOK' /\ Phases'
      BY <1>6 DEF NotConnected, Thread, TypeOK, Phases
    <2> QED BY <1>6, <2>1, QuietKeeps DEF NotConnected, Thread, Moving, Phases
  <1>7. ASSUME CheckRunning PROVE TransferInv'
    <2>1. TypeOK' /\ Phases'
      BY <1>7 DEF CheckRunning, Thread, TypeOK, Phases
    <2> QED BY <1>7, <2>1, QuietKeeps DEF CheckRunning, Thread, Moving, Phases
  <1>8. ASSUME ReadWouldBlock PROVE TransferInv'
    <2>1. TypeOK' /\ Phases'
      BY <1>8 DEF ReadWouldBlock, Receiving, Thread, TypeOK, Phases
    <2> QED BY <1>8, <2>1, QuietKeeps DEF ReadWouldBlock, Receiving, Thread, Moving
  <1>9. Grows
    <2>1. UNCHANGED <<task, file, copy, begun, far>> /\ far # "done"
      BY DEF Rest, RetrRefused, Reconnect, Abort, Connected, NotConnected, CheckRunning,
             ReadWouldBlock, Receiving, Thread, Phases
    <2> QED BY <2>1, Parts DEF Grows, Arrived, Opened
  <1> QED BY <1>1, <1>2, <1>3, <1>4, <1>5, <1>6, <1>7, <1>8, <1>9

\* truncate() to the length of what is there, or of nothing.
LEMMA TruncateKeeps ==
  ASSUME TransferInv, task = "STOR", asked = Resume
  PROVE  /\ Truncate(rest_offs) = Missing \/ Truncate(rest_offs) \in Seq(Bytes)
         /\ Opened(Truncate(rest_offs)) \in Seq(Bytes)
         /\ Opened(Truncate(rest_offs)) = Arrived
  <1>1. rest_offs = Len(Arrived)
    BY DEF TransferInv, Phases, Resume
  <1>2. TypeOK
    BY DEF TransferInv
  <1>3. CASE file = Missing
    BY <1>2, <1>3, Parts DEF Truncate, Opened, Arrived
  <1>4. CASE file # Missing /\ begun
    <2>1. Arrived = file /\ file \in Seq(Bytes)
      BY <1>2, <1>4, Parts DEF Arrived, Opened
    <2>2. file = [i \in 1..Len(file) |-> file[i]] /\ Len(file) \in Nat
      <3>1. file \in [1..Len(file) -> Bytes] /\ Len(file) \in Nat
        BY <2>1, LenProperties
      <3> QED BY <3>1
    <2>3. Truncate(rest_offs) = [i \in 1..Len(file) |-> file[i]]
      BY <1>1, <1>4, <2>1, <2>2 DEF Truncate
    <2> QED BY <1>2, <1>4, <2>1, <2>2, <2>3, Parts DEF Opened
  <1>5. CASE file # Missing /\ ~begun
    <2>1. Arrived = <<>> /\ rest_offs = 0
      BY <1>1, <1>5, FollowsEmpty DEF Arrived
    <2>2. Truncate(rest_offs) = <<>>
      BY <1>5, <2>1 DEF Truncate
    <2> QED BY <1>2, <2>1, <2>2, FollowsEmpty, Parts DEF Opened
  <1> QED BY <1>3, <1>4, <1>5

\* A transfer begins, or is refused, with nothing under way and the copy as it was.
LEMMA BeginKeeps ==
  ASSUME TransferInv, trouble' \in 0..MaxTrouble, Retr \/ Stor \/ StorRefused
  PROVE  TransferInv' /\ Grows
  <1>1. /\ far = "idle" /\ asked = Resume /\ rest_offs = asked
        /\ pc = "none" /\ wire = <<>> /\ pend = <<>> /\ st = "none" /\ reply = "none"
        /\ ~fin /\ ~cut /\ ~aborted /\ ~seen /\ ~unseen
    BY DEF TransferInv, Phases, Retr, Stor, StorRefused, StorTruncates
  <1>2. TypeOK /\ Len(wire) = 0 /\ Len(pend) = 0
    BY <1>1, FollowsEmpty DEF TransferInv
  <1>3. Len(Arrived) <= Length /\ Len(Arrived) \in Nat /\ Resume = Len(Arrived)
        /\ Length \in Nat
    BY <1>2, Parts DEF TransferInv, InOrder, Resume
  <1>4. /\ Arrived' = Arrived /\ wire' = wire /\ pend' = pend
        /\ unseen' = unseen /\ seen' = seen /\ fin' = fin /\ st' = st /\ reply' = reply
        /\ far' = "busy" => pos' = Len(Arrived)
    <2>1. CASE Retr
      BY <1>1, <1>3, <2>1 DEF Retr, link, Arrived, Opened
    <2>2. CASE Stor
      <3>1. task' = "STOR" /\ begun' /\ file' = Opened(Truncate(rest_offs))
        BY <2>2 DEF Stor, StorTruncates
      <3>2. file' = Arrived /\ file' \in Seq(Bytes)
        BY <1>1, <2>2, <3>1, TruncateKeeps DEF Stor, StorTruncates
      <3>3. file' # Missing
        BY <3>2, TransferAssumption
      <3>4. Arrived' = Arrived
        BY <3>1, <3>2, <3>3 DEF Arrived, Opened
      <3> QED BY <1>1, <1>3, <2>2, <3>4 DEF Stor, StorTruncates, link
    <2>3. CASE StorRefused
      <3>1. task' = "STOR" /\ begun' /\ file' = Truncate(rest_offs)
        BY <2>3 DEF StorRefused, StorTruncates
      <3>2. Opened(Truncate(rest_offs)) = Arrived
        BY <1>1, <2>3, TruncateKeeps DEF StorRefused, StorTruncates
      <3>3. Arrived' = Arrived
        BY <3>1, <3>2 DEF Arrived, Opened
      <3> QED BY <1>1, <1>3, <2>3, <3>3 DEF StorRefused, StorTruncates, link
    <2> QED BY <2>1, <2>2, <2>3
  <1>5. TypeOK' /\ Phases'
    <2>1. CASE Retr
      BY <1>1, <1>2, <1>3, <2>1 DEF Retr, link, TypeOK, TransferInv, Phases, RestAfterRetr
    <2>2. CASE Stor
      <3>1. file' \in Seq(Bytes)
        BY <1>1, <2>2, TruncateKeeps DEF Stor, StorTruncates
      <3>2. file' # Missing
        BY <3>1, TransferAssumption
      <3> QED BY <1>1, <1>2, <1>3, <2>2, <3>1, <3>2
              DEF Stor, StorTruncates, link, TypeOK, TransferInv, Phases, RestAfterStor
    <2>3. CASE StorRefused
      <3>1. file' = Missing \/ file' \in Seq(Bytes)
        BY <1>1, <2>3, TruncateKeeps DEF StorRefused, StorTruncates
      <3> QED BY <1>1, <1>2, <1>3, <2>3, <3>1
              DEF StorRefused, StorTruncates, link, TypeOK, TransferInv, Phases, RestAfterStor
    <2> QED BY <2>1, <2>2, <2>3
  <1>6. InHand' = Len(Arrived) /\ OnItsWay' = 0
    BY <1>2, <1>3, <1>4 DEF InHand, OnItsWay
  <1>7. InOrder'
    <2>1. Follows(Arrived, 0)
      BY DEF TransferInv, InOrder
    <2>2. Follows(Arrived', 0) /\ Follows(pend', Len(Arrived')) /\ Follows(wire', InHand')
      BY <1>1, <1>4, <2>1, FollowsEmpty
    <2> QED BY <1>3, <1>6, <2>2 DEF InOrder
  <1>8. Counted' /\ Reported'
    BY <1>1, <1>3, <1>4, <1>6 DEF Counted, Reported
  <1>9. Grows
    BY <1>1, <1>3, <1>4 DEF Grows, Retr, Stor, StorRefused, StorTruncates
  <1> QED BY <1>5, <1>7, <1>8, <1>9 DEF TransferInv

\* process_block sends a block: what goes out is what comes next.
LEMMA SendKeeps ==
  ASSUME TransferInv, trouble' \in 0..MaxTrouble, SendBlock \/ FreadFails
  PROVE  TransferInv' /\ Grows
  <1>1. /\ task = "RETR" /\ pc = "block" /\ far = "busy" /\ pend = <<>> /\ ~unseen
        /\ st = "none" /\ reply = "none"
    BY DEF TransferInv, Phases, SendBlock, FreadFails, Send, Thread, Ends
  <1>2. TypeOK /\ Len(pend) = 0
    BY <1>1, FollowsEmpty DEF TransferInv
  <1>3. FreadSize = IF BufSize <= Length - pos THEN BufSize ELSE Length - pos
    <2>1. BufSize \in Nat /\ Length - pos \in Nat
      BY <1>2, Parts
    <2> QED BY <2>1, MinIs DEF FreadSize
  <1>4. PICK n \in Nat :
          /\ n <= Length - pos
          /\ Send(n) /\ pc' \in {"loop", "close"}
          /\ \/ st' = "complete" /\ n = Length - pos /\ pc' = "close"
             \/ st' = "none" /\ pc' = "loop"
             \/ st' = "ioerror" /\ pc' = "close"
    <2>1. FreadSize \in Nat /\ FreadSize <= Length - pos
      BY <1>2, <1>3, Parts
    <2>2. CASE SendBlock /\ FreadSize < BufSize
      BY <1>2, <1>3, <2>1, <2>2, Parts DEF SendBlock, Feof, Ends, Thread
    <2>3. CASE SendBlock /\ ~(FreadSize < BufSize)
      BY <1>1, <2>1, <2>3 DEF SendBlock, Feof, Ends, Thread
    <2>4. CASE FreadFails
      <3>1. PICK n \in 0..FreadSize : Send(n)
        BY <2>4 DEF FreadFails
      <3> QED BY <1>2, <2>1, <2>4, <3>1, Parts DEF FreadFails, Ends, Thread
    <2> QED BY <2>2, <2>3, <2>4
  <1> DEFINE sent == [i \in 1..n |-> pos + i]
  <1>5. /\ sent \in Seq(Bytes) /\ Len(sent) = n /\ Follows(sent, pos)
    <2>1. pos \in Nat /\ n \in Nat /\ pos + n <= Length
      BY <1>2, <1>4, Parts
    <2> QED BY <2>1, StretchIs
  <1>6. /\ Moving /\ OnItsWay = Len(wire) /\ InHand = Len(Arrived)
        /\ Follows(wire, InHand) /\ InHand \in Nat /\ Len(wire) \in Nat
        /\ pos \in Nat /\ Length \in Nat
    BY <1>1, <1>2, Parts DEF Moving, OnItsWay, TransferInv, InOrder
  <1>7. ~cut => ~seen /\ pos = InHand + Len(wire)
    BY <1>1, <1>6 DEF TransferInv, Counted
  <1> HIDE DEF sent
  <1>8. /\ wire' \in Seq(Bytes) /\ Follows(wire', InHand)
        /\ cut => wire' = wire
        /\ ~cut => Len(wire') = Len(wire) + n
    <2>1. CASE cut
      BY <1>2, <1>4, <1>6, <2>1, Parts DEF Send
    <2>2. CASE ~cut
      <3>1. wire' = wire \o sent
        BY <1>4, <2>2 DEF Send, sent
      <3>2. Follows(sent, InHand + Len(wire))
        BY <1>5, <1>7, <2>2
      <3>3. wire \in Seq(Bytes)
        BY <1>2, Parts
      <3> QED BY <1>5, <1>6, <2>2, <3>1, <3>2, <3>3, FollowsConcat
    <2> QED BY <2>1, <2>2
  <1>9. /\ Arrived' = Arrived /\ InHand' = InHand /\ OnItsWay' = Len(wire')
        /\ pos' = pos + n
    <2>1. task' = "RETR" /\ copy' = copy /\ pend' = pend /\ pos' = pos + n
      BY <1>4 DEF Send, client
    <2> QED BY <1>1, <2>1 DEF Arrived, InHand, OnItsWay, Moving
  <1>10. TypeOK' /\ Phases'
    <2>1. pos' \in 0..Length
      BY <1>4, <1>6, <1>9
    <2> QED BY <1>1, <1>4, <1>8, <2>1 DEF Send, TransferInv, TypeOK, Phases, client
  <1>11. InOrder'
    <2>1. InHand' + OnItsWay' <= Length
      <3>1. CASE cut
        BY <1>6, <1>8, <1>9, <3>1 DEF TransferInv, InOrder
      <3>2. CASE ~cut
        BY <1>4, <1>6, <1>7, <1>8, <1>9, <3>2
      <3> QED BY <3>1, <3>2
    <2> QED BY <1>4, <1>8, <1>9, <2>1 DEF Send, TransferInv, InOrder
  <1>12. UNCHANGED <<cut, seen, unseen, far, task, reply, aborted, fin>>
    BY <1>4 DEF Send, client
  <1>13. ~seen => pos' = InHand' + OnItsWay'
    <2>1. cut => seen
      BY <1>1 DEF TransferInv, Phases
    <2>2. CASE ~cut
      <3>1. pos' = pos + n /\ InHand' = InHand /\ OnItsWay' = Len(wire) + n
        BY <1>8, <1>9, <2>2
      <3>2. pos = InHand + Len(wire)
        BY <1>7, <2>2
      <3> QED BY <1>4, <1>6, <3>1, <3>2
    <2> QED BY <2>1, <2>2
  <1>14. Counted'
    BY <1>1, <1>7, <1>12, <1>13 DEF Counted
  <1>15. Reported'
    BY <1>1, <1>4, <1>6, <1>9, <1>12, <1>13 DEF Reported
  <1>16. Grows
    BY <1>1, <1>6, <1>9, <1>12, Parts DEF Grows
  <1> QED BY <1>10, <1>11, <1>14, <1>15, <1>16 DEF TransferInv

\* What read gets of the wire, and what it leaves.
LEMMA GotIs ==
  ASSUME TransferInv, task = "STOR", pc = "block"
  PROVE  /\ Got \in Seq(Bytes) /\ AfterGot \in Seq(Bytes)
         /\ Len(Got) \in Nat /\ Len(AfterGot) \in Nat
         /\ Len(Got) + Len(AfterGot) = Len(wire)
         /\ Follows(Got, InHand) /\ Follows(AfterGot, InHand + Len(Got))
  <1>1. TypeOK /\ Moving /\ Follows(wire, InHand)
    BY DEF Moving, TransferInv, InOrder
  <1>2. wire \in Seq(Bytes) /\ Len(wire) \in Nat /\ BufSize \in Nat /\ InHand \in Nat
    BY <1>1, Parts
  <1> DEFINE k == Min({BufSize, Len(wire)})
  <1>3. k \in 0..Len(wire)
    BY <1>2, MinIs
  <1> HIDE DEF k
  <1>4. /\ Got \in Seq(Bytes) /\ Len(Got) = k /\ Follows(Got, InHand)
        /\ SubSeq(wire, k + 1, Len(wire)) \in Seq(Bytes)
        /\ Len(SubSeq(wire, k + 1, Len(wire))) = Len(wire) - k
        /\ Follows(SubSeq(wire, k + 1, Len(wire)), InHand + k)
    BY <1>1, <1>2, <1>3, FollowsSplit DEF Got, k
  <1>5. AfterGot = SubSeq(wire, k + 1, Len(wire))
    BY <1>4 DEF AfterGot
  <1> QED BY <1>2, <1>3, <1>4, <1>5

\* What stdio writes to the file is what comes next in it.
LEMMA WriteKeeps ==
  ASSUME TransferInv, task = "STOR", far = "busy",
         NEW s \in Seq(Bytes), Follows(s, Len(Arrived)), file' = file \o s,
         UNCHANGED <<task, begun>>
  PROVE  /\ file' \in Seq(Bytes) /\ file' # Missing /\ Arrived' = file'
         /\ Follows(Arrived', 0)
         /\ Len(Arrived') = Len(Arrived) + Len(s)
         /\ Arrived = file
  <1>1. begun /\ file # Missing /\ TypeOK /\ Follows(Arrived, 0)
    BY DEF TransferInv, Phases, InOrder
  <1>2. file \in Seq(Bytes) /\ Arrived = file
    BY <1>1, Parts DEF Arrived, Opened
  <1>3. Len(file) \in Nat /\ Follows(s, 0 + Len(file)) /\ Follows(file, 0)
    BY <1>1, <1>2, LenProperties
  <1>4. /\ file' \in Seq(Bytes) /\ Len(file') = Len(file) + Len(s) /\ Follows(file', 0)
    BY <1>2, <1>3, FollowsConcat
  <1>5. file' # Missing
    BY <1>4, TransferAssumption
  <1>6. Arrived' = file'
    BY <1>1, <1>5 DEF Arrived, Opened
  <1> QED BY <1>2, <1>4, <1>5, <1>6

\* process_block receives a block: it goes to the file, or to stdio's buffer.
LEMMA ReceiveKeeps ==
  ASSUME TransferInv, trouble' \in 0..MaxTrouble, ReceiveBlock
  PROVE  TransferInv' /\ Grows
  <1>1. /\ task = "STOR" /\ pc = "block" /\ pc' = "loop" /\ far = "busy"
        /\ st = "none" /\ reply = "none" /\ begun
        /\ wire' = AfterGot
        /\ UNCHANGED <<task, rest_offs, pos, reply, fin, cut, far, copy, asked, begun,
                       aborted, seen, unseen, st>>
    BY DEF TransferInv, Phases, ReceiveBlock, Receiving, Thread, client
  <1>2. TypeOK /\ Moving /\ Moving'
    BY <1>1 DEF TransferInv, Moving
  <1>3. /\ pend \in Seq(Bytes) /\ Follows(pend, Len(Arrived))
        /\ Len(Arrived) \in Nat /\ Len(pend) \in Nat /\ Len(wire) \in Nat
        /\ InHand = Len(Arrived) + Len(pend) /\ OnItsWay = Len(wire)
        /\ InHand + OnItsWay <= Length /\ Length \in Nat /\ Arrived \in Seq(Bytes)
    BY <1>2, Parts DEF TransferInv, InOrder, OnItsWay
  <1>4. /\ Got \in Seq(Bytes) /\ AfterGot \in Seq(Bytes)
        /\ Len(Got) \in Nat /\ Len(AfterGot) \in Nat
        /\ Len(Got) + Len(AfterGot) = Len(wire)
        /\ Follows(Got, InHand) /\ Follows(AfterGot, InHand + Len(Got))
    BY <1>1, GotIs
  <1>5. /\ pend \o Got \in Seq(Bytes) /\ Len(pend \o Got) = Len(pend) + Len(Got)
        /\ Follows(pend \o Got, Len(Arrived))
    BY <1>3, <1>4, FollowsConcat
  <1>6. /\ file' \in Seq(Bytes) /\ file' # Missing
        /\ Follows(Arrived', 0) /\ Len(Arrived') \in Nat
        /\ pend' \in Seq(Bytes) /\ Len(pend') \in Nat /\ Follows(pend', Len(Arrived'))
        /\ Len(Arrived') + Len(pend') = InHand + Len(Got)
    <2>1. CASE file' = file \o pend \o Got /\ pend' = <<>>
      <3>1. file' = file \o (pend \o Got)
        <4>1. file \in Seq(Bytes)
          BY <1>1, <1>2, Parts DEF TransferInv, Phases
        <4>2. (file \o pend) \o Got = file \o (pend \o Got)
          <5>1. pend \in Seq(Bytes) /\ Got \in Seq(Bytes)
            BY <1>3, <1>4
          <5> HIDE DEF Bytes
          <5> QED BY <4>1, <5>1, ConcatAssociative
        <4> QED BY <2>1, <4>2
      <3>2. /\ file' \in Seq(Bytes) /\ file' # Missing
            /\ Follows(Arrived', 0)
            /\ Len(Arrived') = Len(Arrived) + Len(pend \o Got)
        BY <1>1, <1>5, <3>1, WriteKeeps
      <3>3. pend' \in Seq(Bytes) /\ Len(pend') = 0 /\ Follows(pend', Len(Arrived'))
        BY <2>1, FollowsEmpty
      <3>4. Len(Arrived') = Len(Arrived) + (Len(pend) + Len(Got))
        BY <1>5, <3>2
      <3>5. Len(Arrived') \in Nat /\ Len(Arrived') + 0 = InHand + Len(Got)
        <4> HIDE DEF InHand
        <4> QED BY <1>3, <1>4, <3>4
      <3> QED BY <3>2, <3>3, <3>5
    <2>2. CASE file' = file /\ pend' = pend \o Got
      <3>1. Arrived' = Arrived
        BY <1>1, <2>2 DEF Arrived, Opened
      <3>2. file \in Seq(Bytes) /\ file # Missing /\ Follows(Arrived, 0)
        BY <1>1, <1>2, Parts DEF TransferInv, Phases, InOrder
      <3> QED BY <1>3, <1>4, <1>5, <2>2, <3>1, <3>2
    <2> QED BY <2>1, <2>2 DEF ReceiveBlock
  <1>7. InHand' = InHand + Len(Got) /\ OnItsWay' = Len(AfterGot)
    BY <1>1, <1>2, <1>6 DEF InHand, OnItsWay
  <1>8. InHand' + OnItsWay' = InHand + OnItsWay
    <2>1. Len(wire) = Len(Got) + Len(AfterGot) /\ OnItsWay = Len(wire) /\ InHand \in Nat
      BY <1>3, <1>4
    <2>2. Len(Got) \in Nat /\ Len(AfterGot) \in Nat
      BY <1>4
    <2> QED BY <1>7, <2>1, <2>2
  <1>9. TypeOK' /\ Phases'
    BY <1>1, <1>4, <1>6 DEF TransferInv, TypeOK, Phases
  <1>10. InOrder'
    BY <1>1, <1>3, <1>4, <1>6, <1>7, <1>8 DEF InOrder
  <1>11. Counted' /\ Reported'
    BY <1>1, <1>2, <1>8 DEF TransferInv, Counted, Reported
  <1>12. Grows
    <2>1. CASE file' = file \o pend \o Got /\ pend' = <<>>
      BY <1>1, <1>3, <1>4, <1>6, <2>1, FollowsEmpty DEF Grows
    <2>2. CASE file' = file
      BY <1>1, <1>3, <2>2 DEF Grows, Arrived, Opened
    <2> QED BY <2>1, <2>2 DEF ReceiveBlock
  <1> QED BY <1>9, <1>10, <1>11, <1>12 DEF TransferInv

\* stdio cannot write all it has: the rest is gone, and nothing follows it.
LEMMA WriteFailsKeeps ==
  ASSUME TransferInv, trouble' \in 0..MaxTrouble, FwriteFails
  PROVE  TransferInv' /\ Grows
  <1>1. /\ task = "STOR" /\ pc = "block" /\ pc' = "close" /\ far = "busy"
        /\ st' = "ioerror" /\ reply = "none" /\ begun
        /\ wire' = AfterGot /\ pend' = <<>>
        /\ UNCHANGED <<task, rest_offs, pos, reply, fin, cut, far, copy, asked, begun,
                       aborted, seen, unseen>>
    BY DEF TransferInv, Phases, FwriteFails, Receiving, Thread, Ends, client
  <1>2. TypeOK /\ ~Moving'
    BY <1>1 DEF TransferInv, Moving
  <1>3. /\ pend \in Seq(Bytes) /\ Follows(pend, Len(Arrived))
        /\ Len(Arrived) \in Nat /\ Len(pend) \in Nat /\ Len(wire) \in Nat
        /\ InHand = Len(Arrived) + Len(pend) /\ OnItsWay = Len(wire)
        /\ InHand + OnItsWay <= Length /\ Length \in Nat
    BY <1>1, <1>2, Parts DEF TransferInv, InOrder, OnItsWay, Moving
  <1>4. /\ Got \in Seq(Bytes) /\ AfterGot \in Seq(Bytes)
        /\ Len(Got) \in Nat /\ Len(AfterGot) \in Nat
        /\ Len(Got) + Len(AfterGot) = Len(wire)
        /\ Follows(Got, InHand)
    BY <1>1, GotIs
  <1>5. /\ pend \o Got \in Seq(Bytes) /\ Len(pend \o Got) = Len(pend) + Len(Got)
        /\ Follows(pend \o Got, Len(Arrived))
    BY <1>3, <1>4, FollowsConcat
  <1>6. PICK n \in 0..(Len(pend \o Got) - 1) : file' = file \o SubSeq(pend \o Got, 1, n)
    BY DEF FwriteFails
  <1>7. n \in 0..Len(pend \o Got) /\ n \in Nat /\ n <= Len(pend) + Len(Got)
    BY <1>3, <1>4, <1>5, <1>6
  <1>8. /\ SubSeq(pend \o Got, 1, n) \in Seq(Bytes)
        /\ Len(SubSeq(pend \o Got, 1, n)) = n
        /\ Follows(SubSeq(pend \o Got, 1, n), Len(Arrived))
    BY <1>3, <1>5, <1>7, FollowsSplit
  <1>9. /\ file' \in Seq(Bytes) /\ file' # Missing
        /\ Follows(Arrived', 0) /\ Len(Arrived') = Len(Arrived) + n
    BY <1>1, <1>6, <1>8, WriteKeeps
  <1>10. InHand' = Len(Arrived) + n /\ OnItsWay' = 0
    <2>1. Len(pend') = 0 /\ Len(Arrived) + n \in Nat
      BY <1>1, <1>3, <1>7, FollowsEmpty
    <2> QED BY <1>2, <1>9, <2>1 DEF InHand, OnItsWay
  <1>11. TypeOK' /\ Phases'
    BY <1>1, <1>4, <1>9, FollowsEmpty DEF TransferInv, TypeOK, Phases
  <1>12. InHand' + OnItsWay' <= Length
    <2>1. Len(wire) = Len(Got) + Len(AfterGot)
      BY <1>4
    <2> QED BY <1>3, <1>4, <1>7, <1>10, <2>1
  <1>13. InOrder' /\ Counted' /\ Reported'
    BY <1>1, <1>2, <1>9, <1>12, FollowsEmpty DEF InOrder, Counted, Reported
  <1>14. Grows
    BY <1>1, <1>3, <1>7, <1>9 DEF Grows
  <1> QED BY <1>11, <1>13, <1>14 DEF TransferInv

\* The end of what the far end sends: it is all there, or a reset has made away
\* with something.
LEMMA ReceiveEndKeeps ==
  ASSUME TransferInv, trouble' \in 0..MaxTrouble, ReceiveEnd
  PROVE  TransferInv' /\ Grows
  <1>1. /\ task = "STOR" /\ pc = "block" /\ pc' = "close" /\ far = "busy"
        /\ st' = "complete" /\ reply = "none" /\ wire = <<>> /\ (fin \/ cut)
        /\ UNCHANGED <<task, rest_offs, pos, reply, fin, cut, far, copy, asked, begun,
                       aborted, seen, unseen, file, pend, wire>>
    BY DEF TransferInv, Phases, ReceiveEnd, EndOfData, Receiving, Thread, Ends, client
  <1>2. TypeOK /\ Moving /\ ~Moving' /\ Len(wire) = 0
    BY <1>1, FollowsEmpty DEF TransferInv, Moving
  <1>3. Arrived' = Arrived /\ InHand' = InHand /\ OnItsWay = 0 /\ OnItsWay' = 0
        /\ InHand \in Nat /\ Length \in Nat
    BY <1>1, <1>2, Parts DEF Arrived, Opened, InHand, OnItsWay
  <1>4. TypeOK' /\ Phases'
    BY <1>1 DEF TransferInv, TypeOK, Phases
  <1>5. InOrder' /\ Counted'
    BY <1>1, <1>2, <1>3 DEF TransferInv, InOrder, Counted
  <1>6. Reported'
    <2> SUFFICES ASSUME ~seen, ~unseen PROVE InHand = Length
      BY <1>1, <1>3 DEF Reported
    <2>1. pos = InHand
      BY <1>1, <1>2, <1>3 DEF TransferInv, Counted
    <2>2. fin
      BY <1>1 DEF TransferInv, Phases
    <2> QED BY <1>1, <1>2, <2>1, <2>2 DEF TransferInv, Counted
  <1>7. Len(Arrived) \in Nat
    BY <1>2, Parts
  <1>8. Grows
    BY <1>1, <1>3, <1>7 DEF Grows
  <1> QED BY <1>4, <1>5, <1>6, <1>8 DEF TransferInv

\* cleanup: what stdio holds is written, as much of it as can be.
LEMMA CloseKeeps ==
  ASSUME TransferInv, trouble' \in 0..MaxTrouble, NEW n \in 0..Len(pend), Close(n)
  PROVE  TransferInv' /\ Grows
  <1>1. /\ pc = "close" /\ pc' = "none" /\ far = "busy" /\ pend' = <<>> /\ st' = "none"
        /\ fin' = (fin \/ task = "RETR") /\ unseen' = (unseen \/ n < Len(pend))
        /\ UNCHANGED <<task, rest_offs, pos, wire, cut, far, copy, asked, begun,
                       aborted, seen>>
    BY DEF TransferInv, Phases, Close, Thread, client
  <1>2. TypeOK /\ Moving' = Moving /\ OnItsWay' = OnItsWay
    BY <1>1 DEF TransferInv, Moving, OnItsWay
  <1>3. /\ pend \in Seq(Bytes) /\ Follows(pend, Len(Arrived)) /\ Follows(Arrived, 0)
        /\ Len(Arrived) \in Nat /\ Len(pend) \in Nat
        /\ InHand = Len(Arrived) + Len(pend) /\ OnItsWay \in Nat
        /\ InHand + OnItsWay <= Length /\ Length \in Nat
    BY <1>2, Parts DEF TransferInv, InOrder
  <1>4. /\ Follows(Arrived', 0) /\ Len(Arrived') = Len(Arrived) + n
        /\ file' = Missing \/ file' \in Seq(Bytes)
        /\ task = "STOR" => file' # Missing
    <2>1. CASE task = "STOR"
      <3>1. file' = file \o SubSeq(pend, 1, n)
        BY <2>1 DEF Close
      <3>2. /\ SubSeq(pend, 1, n) \in Seq(Bytes) /\ Len(SubSeq(pend, 1, n)) = n
            /\ Follows(SubSeq(pend, 1, n), Len(Arrived))
        BY <1>3, FollowsSplit
      <3> QED BY <1>1, <2>1, <3>1, <3>2, WriteKeeps
    <2>2. CASE task = "RETR"
      <3>1. pend = <<>> /\ n = 0
        BY <2>2, FollowsEmpty DEF TransferInv, Phases
      <3>2. Arrived' = Arrived /\ file' = file
        BY <1>1, <2>2 DEF Arrived, Close
      <3> QED BY <1>2, <1>3, <2>2, <3>1, <3>2, Parts
    <2> QED BY <1>2, <2>1, <2>2 DEF TypeOK
  <1>5. InHand' = Len(Arrived) + n
    <2>1. Len(pend') = 0
      BY <1>1, FollowsEmpty
    <2> QED BY <1>3, <1>4, <2>1 DEF InHand
  <1>6. /\ unseen' \in BOOLEAN
        /\ ~unseen' <=> ~unseen /\ n = Len(pend)
        /\ task = "RETR" => n = 0 /\ Len(pend) = 0 /\ ~unseen'
    <2>1. ~(n < Len(pend)) <=> n = Len(pend)
      BY <1>3
    <2>2. unseen' \in BOOLEAN /\ (~unseen' <=> ~unseen /\ n = Len(pend))
      BY <1>1, <2>1
    <2>3. task = "RETR" => pend = <<>> /\ ~unseen
      BY DEF TransferInv, Phases
    <2>4. task = "RETR" => Len(pend) = 0 /\ n = 0
      BY <2>3, FollowsEmpty
    <2> QED BY <2>2, <2>3, <2>4
  <1>7. TypeOK' /\ Phases'
    <2>1. fin' \in BOOLEAN /\ (fin => fin')
      BY <1>1
    <2>2. reply' \in {"none", "226", "425", "451"}
      BY DEF Close
    <2>3. TypeOK'
      BY <1>1, <1>2, <1>4, <1>6, <2>1, <2>2, FollowsEmpty DEF TypeOK
    <2>4. Phases'
      BY <1>1, <1>4, <1>6, <2>1 DEF TransferInv, Phases
    <2> QED BY <2>3, <2>4
  <1>8. InOrder'
    <2>1. Moving => task = "RETR"
      BY <1>1 DEF Moving
    <2>2. Moving => InHand' = InHand
      BY <1>3, <1>5, <1>6, <2>1
    <2>3. InHand' + OnItsWay' <= Length
      BY <1>2, <1>3, <1>5
    <2>4. Follows(pend', Len(Arrived'))
      BY <1>1, FollowsEmpty
    <2> QED BY <1>1, <1>2, <1>4, <2>2, <2>3, <2>4 DEF TransferInv, InOrder
  <1>9. Counted'
    <2>1. Moving => task = "RETR"
      BY <1>1 DEF Moving
    <2>2. Moving => InHand' = InHand
      BY <1>3, <1>5, <1>6, <2>1
    <2> QED BY <1>1, <1>2, <1>6, <2>1, <2>2 DEF TransferInv, Counted
  <1>10. Reported'
    <2> SUFFICES ASSUME reply' = "226", ~aborted, ~seen, ~unseen'
                 PROVE  InHand' + OnItsWay' = Length
      BY <1>1 DEF Reported
    <2>1. ~unseen /\ InHand' = InHand /\ OnItsWay' = OnItsWay
      BY <1>2, <1>3, <1>5, <1>6
    <2>2. st = "complete"
      BY <1>1 DEF TransferInv, Phases, TypeOK, Close
    <2> QED BY <2>1, <2>2 DEF TransferInv, Reported
  <1>11. Grows
    BY <1>1, <1>3, <1>4 DEF Grows
  <1> QED BY <1>7, <1>8, <1>9, <1>10, <1>11 DEF TransferInv

-----------------------------------------------------------------------------
\* The far end sends the byte it has come to, or has no more.
LEMMA UploadKeeps ==
  ASSUME TransferInv, trouble' \in 0..MaxTrouble, Upload
  PROVE  TransferInv' /\ Grows
  <1>1. /\ far = "busy" /\ task = "STOR" /\ pc \in {"loop", "block"} /\ ~fin /\ ~cut
        /\ st = "none" /\ reply = "none"
        /\ UNCHANGED <<task, rest_offs, file, pc, pend, st, reply, cut, far, copy, asked,
                       begun, aborted, seen, unseen>>
    BY DEF TransferInv, Phases, Upload, client
  <1>2. TypeOK /\ Moving /\ Moving' /\ Arrived' = Arrived /\ InHand' = InHand
    BY <1>1 DEF TransferInv, Moving, Arrived, Opened, InHand
  <1>3. /\ wire \in Seq(Bytes) /\ Follows(wire, InHand) /\ OnItsWay = Len(wire)
        /\ InHand \in Nat /\ Len(wire) \in Nat /\ pos \in Nat /\ pos <= Length
        /\ Length \in Nat
    BY <1>2, Parts DEF TransferInv, InOrder, OnItsWay
  <1>4. ~seen /\ ~unseen /\ pos = InHand + Len(wire)
    BY <1>1, <1>2, <1>3 DEF TransferInv, Counted
  <1>5. Len(Arrived) \in Nat
    BY <1>2, Parts
  <1>6. Grows
    BY <1>1, <1>2, <1>5 DEF Grows
  <1>7. CASE pos < Length
    <2>1. wire' = Append(wire, pos + 1) /\ pos' = pos + 1 /\ fin' = fin
      BY <1>7 DEF Upload
    <2>2. pos + 1 \in Bytes
      BY <1>3, <1>7
    <2>3. pos + 1 = InHand + Len(wire) + 1
      BY <1>4
    <2>4. /\ wire' \in Seq(Bytes) /\ Len(wire') = Len(wire) + 1
          /\ Follows(wire', InHand)
      BY <1>3, <2>1, <2>2, <2>3, FollowsAppend
    <2>5. OnItsWay' = Len(wire')
      BY <1>2 DEF OnItsWay
    <2>6. pos' = InHand' + OnItsWay' /\ pos' <= Length /\ pos' \in Nat
      BY <1>2, <1>3, <1>4, <1>7, <2>1, <2>4, <2>5
    <2>7. TypeOK' /\ Phases'
      BY <1>1, <1>3, <2>1, <2>4, <2>6 DEF TransferInv, TypeOK, Phases
    <2>8. InOrder'
      BY <1>1, <1>2, <2>4, <2>6 DEF TransferInv, InOrder
    <2>9. Counted' /\ Reported'
      BY <1>1, <1>4, <2>1, <2>6 DEF Counted, Reported
    <2> QED BY <1>6, <2>7, <2>8, <2>9 DEF TransferInv
  <1>8. CASE ~(pos < Length)
    <2>1. fin' = TRUE /\ wire' = wire /\ pos' = pos /\ pos = Length
      BY <1>3, <1>8 DEF Upload
    <2>2. OnItsWay' = OnItsWay
      BY <1>2, <2>1 DEF OnItsWay
    <2>3. TypeOK' /\ Phases'
      BY <1>1, <2>1 DEF TransferInv, TypeOK, Phases
    <2>4. InOrder'
      BY <1>1, <1>2, <2>1, <2>2 DEF TransferInv, InOrder
    <2>5. Counted' /\ Reported'
      BY <1>1, <1>2, <1>3, <1>4, <2>1, <2>2 DEF Counted, Reported
    <2> QED BY <1>6, <2>3, <2>4, <2>5 DEF TransferInv
  <1> QED BY <1>7, <1>8

\* A byte on the wire becomes the last of the far end's copy.
LEMMA DownloadKeeps ==
  ASSUME TransferInv, trouble' \in 0..MaxTrouble, Download
  PROVE  TransferInv' /\ Grows
  <1>1. /\ task = "RETR" /\ wire # <<>> /\ far = "busy" /\ pend = <<>>
        /\ copy' = Append(copy, Head(wire)) /\ wire' = Tail(wire)
        /\ UNCHANGED <<task, rest_offs, file, pc, pos, pend, st, reply, fin, cut, far,
                       asked, begun, aborted, seen, unseen>>
    BY DEF TransferInv, Phases, Download, server
  <1>2. /\ TypeOK /\ Moving /\ Moving' /\ Arrived = copy /\ Arrived' = copy'
        /\ InHand = Len(copy) /\ Len(pend) = 0
    <2>1. TypeOK /\ Arrived = copy /\ Arrived' = copy' /\ Moving /\ Moving'
      BY <1>1 DEF TransferInv, Arrived, Moving
    <2>2. Len(pend) = 0
      BY <1>1, FollowsEmpty
    <2> QED BY <2>1, <2>2, Parts DEF InHand
  <1>3. /\ wire \in Seq(Bytes) /\ copy \in Seq(Bytes)
        /\ Len(copy) \in Nat /\ Len(wire) \in Nat /\ Length \in Nat
        /\ Follows(copy, 0) /\ Follows(wire, Len(copy))
        /\ Len(copy) + Len(wire) <= Length
    BY <1>2, Parts DEF TransferInv, InOrder, OnItsWay
  <1>4. Len(wire) > 0 /\ Head(wire) = Len(copy) + 1 /\ Head(wire) \in Bytes
    <2>1. Len(wire) > 0
      BY <1>1, <1>3, EmptySeq
    <2>2. Head(wire) = wire[1] /\ 1 \in 1..Len(wire)
      BY <1>1, <1>3, <2>1, HeadTailProperties
    <2> QED BY <1>3, <2>1, <2>2 DEF Follows
  <1>5. /\ wire' \in Seq(Bytes) /\ Len(wire') = Len(wire) - 1
        /\ Follows(wire', Len(copy) + 1)
    <2>1. /\ Tail(wire) \in Seq(Bytes) /\ Len(Tail(wire)) = Len(wire) - 1
          /\ \A i \in 1..Len(Tail(wire)) : Tail(wire)[i] = wire[i + 1]
      BY <1>1, <1>3, HeadTailProperties
    <2>2. ASSUME NEW i \in 1..Len(Tail(wire))
          PROVE  Tail(wire)[i] = Len(copy) + 1 + i
      <3>1. i + 1 \in 1..Len(wire)
        BY <1>3, <1>4, <2>1
      <3> QED BY <1>3, <2>1, <3>1 DEF Follows
    <2> QED BY <1>1, <2>1, <2>2 DEF Follows
  <1>6. copy' \in Seq(Bytes) /\ Len(copy') = Len(copy) + 1 /\ Follows(copy', 0)
    <2>1. Head(wire) = 0 + Len(copy) + 1
      BY <1>3, <1>4
    <2> QED BY <1>1, <1>3, <1>4, <2>1, FollowsAppend
  <1>7. /\ InHand' = Len(copy) + 1 /\ OnItsWay' = Len(wire) - 1
        /\ OnItsWay = Len(wire)
    BY <1>1, <1>2, <1>3, <1>5, <1>6 DEF InHand, OnItsWay
  <1>8. InHand' + OnItsWay' = InHand + OnItsWay
    BY <1>2, <1>3, <1>7
  <1>9. TypeOK' /\ Phases'
    BY <1>1, <1>5, <1>6 DEF TransferInv, TypeOK, Phases
  <1>10. InOrder'
    <2>1. Follows(pend', Len(Arrived'))
      BY <1>1, FollowsEmpty
    <2>2. InHand' + OnItsWay' <= Length
      BY <1>2, <1>3, <1>7
    <2> QED BY <1>2, <1>5, <1>6, <1>7, <2>1, <2>2 DEF InOrder
  <1>11. Counted' /\ Reported'
    BY <1>1, <1>2, <1>8 DEF TransferInv, Counted, Reported
  <1>12. Grows
    BY <1>1, <1>2, <1>3, <1>6 DEF Grows
  <1> QED BY <1>9, <1>10, <1>11, <1>12 DEF TransferInv

\* The network resets the connection: of what was sent, the end is gone.
LEMMA ResetKeeps ==
  ASSUME TransferInv, trouble' \in 0..MaxTrouble, Reset
  PROVE  TransferInv' /\ Grows
  <1>1. /\ ~cut /\ cut' = TRUE /\ wire' = <<>> /\ far = "busy"
        /\ UNCHANGED <<task, rest_offs, file, pc, pos, pend, st, reply, fin, far, copy,
                       asked, begun, aborted>>
    BY DEF TransferInv, Phases, Reset, server
  <1>2. /\ TypeOK /\ Moving' = Moving /\ Arrived' = Arrived /\ InHand' = InHand
        /\ OnItsWay' = 0 /\ Len(wire') = 0
    BY <1>1, FollowsEmpty DEF TransferInv, Moving, Arrived, Opened, InHand, OnItsWay
  <1>3. OnItsWay \in Nat /\ InHand \in Nat /\ Length \in Nat
        /\ InHand + OnItsWay <= Length
    BY <1>2, Parts DEF TransferInv, InOrder
  <1>4. \/ task = "STOR" /\ fin /\ unseen' = (unseen \/ wire # <<>>) /\ seen' = seen
        \/ ~(task = "STOR" /\ fin) /\ seen' = TRUE /\ unseen' = unseen
    BY DEF Reset
  <1>5. ~seen' /\ ~unseen' => ~seen /\ ~unseen /\ OnItsWay = 0
    BY <1>4, FollowsEmpty DEF OnItsWay
  <1>6. TypeOK' /\ Phases'
    <2>1. seen' \in BOOLEAN /\ unseen' \in BOOLEAN
      BY <1>2, <1>4 DEF TypeOK
    <2>2. TypeOK'
      BY <1>1, <1>2, <2>1, FollowsEmpty DEF TypeOK
    <2>3. Phases'
      BY <1>1, <1>4 DEF TransferInv, Phases
    <2> QED BY <2>2, <2>3
  <1>7. InOrder'
    <2>1. Follows(wire', InHand')
      BY <1>1, FollowsEmpty
    <2> QED BY <1>1, <1>2, <1>3, <2>1 DEF TransferInv, InOrder
  <1>8. Counted' /\ Reported'
    BY <1>1, <1>2, <1>5 DEF TransferInv, Counted, Reported
  <1>9. Len(Arrived) \in Nat
    BY <1>2, Parts
  <1>10. Grows
    BY <1>1, <1>2, <1>9 DEF Grows
  <1> QED BY <1>6, <1>7, <1>8, <1>10 DEF TransferInv

\* The far end is done with a transfer, and between two nothing is under way.
LEMMA ConcludeKeeps ==
  ASSUME TransferInv, trouble' \in 0..MaxTrouble, Conclude
  PROVE  TransferInv' /\ Arrived' = Arrived
  <1>1. /\ far = "busy" /\ pc = "none" /\ far' \in {"done", "idle"} /\ pend = <<>>
        /\ st = "none" /\ wire' = <<>> /\ reply' = "none"
        /\ UNCHANGED <<task, rest_offs, file, pc, pos, pend, st, copy, asked, begun>>
    BY DEF TransferInv, Phases, Conclude
  <1>2. TypeOK /\ Arrived' = Arrived /\ InHand' = InHand /\ OnItsWay' = 0
    BY <1>1, FollowsEmpty DEF TransferInv, Arrived, Opened, InHand, OnItsWay
  <1>3. OnItsWay \in Nat /\ InHand \in Nat /\ Length \in Nat
        /\ InHand + OnItsWay <= Length
    BY <1>2, Parts DEF TransferInv, InOrder
  <1>4. TypeOK' /\ Phases'
    BY <1>1, FollowsEmpty DEF Conclude, TransferInv, TypeOK, Phases
  <1>5. InOrder'
    <2>1. Follows(wire', InHand')
      BY <1>1, FollowsEmpty
    <2> QED BY <1>1, <1>2, <1>3, <2>1 DEF TransferInv, InOrder
  <1>6. Counted' /\ Reported'
    BY <1>1 DEF Counted, Reported
  <1> QED BY <1>2, <1>4, <1>5, <1>6 DEF TransferInv

\* It gives the copy up.
LEMMA StartOverKeeps ==
  ASSUME TransferInv, trouble' \in 0..MaxTrouble, StartOver
  PROVE  TransferInv' /\ Arrived' = <<>>
  <1>1. /\ far = "idle" /\ far' = far /\ pend = <<>> /\ wire = <<>> /\ pc = "none"
        /\ copy' = <<>> /\ begun' = FALSE /\ st = "none" /\ reply = "none"
        /\ UNCHANGED <<task, rest_offs, file, pc, pos, pend, st, reply, wire, fin, cut,
                       asked, aborted, seen, unseen>>
    BY DEF TransferInv, Phases, StartOver, server, link
  <1>2. /\ Arrived' = <<>> /\ InHand' = 0 /\ OnItsWay' = 0
    <2>1. Arrived' = <<>>
      BY <1>1 DEF Arrived
    <2> QED BY <1>1, <2>1, FollowsEmpty DEF InHand, OnItsWay
  <1>3. TypeOK' /\ Phases'
    BY <1>1, FollowsEmpty DEF TransferInv, TypeOK, Phases
  <1>4. InOrder'
    <2>1. Length \in Nat
      BY TransferAssumption
    <2> QED BY <1>1, <1>2, <2>1, FollowsEmpty DEF InOrder
  <1>5. Counted' /\ Reported'
    BY <1>1 DEF Counted, Reported
  <1> QED BY <1>2, <1>3, <1>4, <1>5 DEF TransferInv

-----------------------------------------------------------------------------
(***************************************************************************)
(* The copy                                                                *)
(***************************************************************************)
\* What has arrived is a beginning of the file, and of no more than it.
LEMMA ArrivedIs ==
  ASSUME TransferInv
  PROVE  /\ Arrived = Copy!Beginning(Len(Arrived))
         /\ Len(Arrived) \in Nat /\ Len(Arrived) <= Length
  <1>1. TypeOK /\ Follows(Arrived, 0)
    BY DEF TransferInv, InOrder
  <1> QED BY <1>1, BeginningIs, Parts DEF TransferInv, InOrder

LEMMA GrowsExtends ==
  ASSUME TransferInv, TransferInv', Grows
  PROVE  Copy!Extend
  <1>1. /\ Arrived' = Copy!Beginning(Len(Arrived'))
        /\ Len(Arrived') \in Nat /\ Len(Arrived') <= Length
    <2>1. TypeOK' /\ Follows(Arrived', 0) /\ InHand' + OnItsWay' <= Length
      BY DEF TransferInv, InOrder
    <2>2. Arrived' \in Seq(Bytes)
      <3>1. copy' \in Seq(Bytes) /\ (file' = Missing \/ file' \in Seq(Bytes))
        BY <2>1 DEF TypeOK
      <3> QED BY <3>1, FollowsEmpty DEF Arrived, Opened
    <2>3. Len(Arrived') \in Nat /\ Len(pend') \in Nat /\ Len(wire') \in Nat
      BY <2>1, <2>2, LenProperties DEF TypeOK
    <2>4. InHand' = Len(Arrived') + Len(pend') /\ OnItsWay' \in Nat
      BY <2>3 DEF InHand, OnItsWay
    <2>5. Len(Arrived') <= Length
      BY <2>1, <2>3, <2>4, TransferAssumption
    <2> QED BY <2>1, <2>2, <2>3, <2>5, BeginningIs
  <1>2. Len(Arrived') \in Len(Arrived)..Length
    BY <1>1, ArrivedIs, TransferAssumption DEF Grows
  <1>3. unseen' \in BOOLEAN
    BY DEF TransferInv, TypeOK
  <1>4. (far = "done") = FALSE /\ (far' = "done") = FALSE
    BY DEF Grows
  <1> QED BY <1>1, <1>2, <1>3, <1>4 DEF Copy!Extend

\* Each step keeps the invariant, and is one of the copy's.
CopyStep == Copy!Extend \/ Copy!StartOver \/ Copy!Conclude

LEMMA StepKeeps ==
  ASSUME TransferInv, Next
  PROVE  TransferInv' /\ (CopyStep \/ UNCHANGED <<Arrived, far = "done", unseen>>)
  <1>1. trouble' \in 0..MaxTrouble
    BY TransferAssumption
       DEF Next, ServerStep, FarStep, GoesWrong, Trouble, NoTrouble, Done, vars,
           TransferInv, TypeOK
  <1>2. CASE ServerStep
    <2>1. CASE Connected \/ CheckRunning \/ ReadWouldBlock
      BY <1>1, <2>1, QuietSteps, GrowsExtends DEF CopyStep
    <2>2. CASE SendBlock
      BY <1>1, <2>2, SendKeeps, GrowsExtends DEF CopyStep
    <2>3. CASE ReceiveBlock
      BY <1>1, <2>3, ReceiveKeeps, GrowsExtends DEF CopyStep
    <2>4. CASE ReceiveEnd
      BY <1>1, <2>4, ReceiveEndKeeps, GrowsExtends DEF CopyStep
    <2>5. CASE Close(Len(pend))
      <3>1. Len(pend) \in 0..Len(pend)
        BY LenProperties DEF TransferInv, TypeOK
      <3> QED BY <1>1, <2>5, <3>1, CloseKeeps, GrowsExtends DEF CopyStep
    <2> QED BY <1>2, <2>1, <2>2, <2>3, <2>4, <2>5 DEF ServerStep
  <1>3. CASE FarStep
    <2>1. CASE Rest(Resume)
      <3>1. Resume \in 0..Length
        BY ArrivedIs, TransferAssumption DEF Resume
      <3> QED BY <1>1, <2>1, <3>1, QuietSteps, GrowsExtends DEF CopyStep
    <2>2. CASE Retr \/ Stor
      BY <1>1, <2>2, BeginKeeps, GrowsExtends DEF CopyStep
    <2>3. CASE Upload
      BY <1>1, <2>3, UploadKeeps, GrowsExtends DEF CopyStep
    <2>4. CASE Download
      BY <1>1, <2>4, DownloadKeeps, GrowsExtends DEF CopyStep
    <2>5. CASE Conclude
      <3>1. TransferInv' /\ Arrived' = Arrived
        BY <1>1, <2>5, ConcludeKeeps
      <3>2. CASE far' = "done"
        <4>1. /\ far = "busy" /\ reply = "226" /\ ~aborted /\ ~seen /\ pc = "none"
              /\ task = "RETR" => wire = <<>>
              /\ unseen' = unseen
          BY <2>5, <3>2 DEF Conclude, TransferInv, TypeOK
        <4>2. OnItsWay = 0 /\ InHand = Len(Arrived)
          <5>1. pend = <<>> /\ TypeOK
            BY <4>1 DEF TransferInv, Phases
          <5>2. Len(pend) = 0 /\ (Moving => Len(wire) = 0)
            BY <4>1, <5>1, FollowsEmpty DEF Moving
          <5> QED BY <5>1, <5>2, Parts DEF OnItsWay
        <4>3. ~unseen => Len(Arrived) = Length
          BY <4>1, <4>2, ArrivedIs DEF TransferInv, Reported
        <4>4. Arrived = Copy!Beginning(Length) \/ unseen
          BY <4>3, ArrivedIs
        <4> QED BY <3>1, <3>2, <4>1, <4>4 DEF CopyStep, Copy!Conclude
      <3>3. CASE far' # "done"
        BY <2>5, <3>1, <3>3, ArrivedIs, GrowsExtends DEF CopyStep, Grows, Conclude
      <3> QED BY <3>2, <3>3, <3>1
    <2> QED BY <1>3, <2>1, <2>2, <2>3, <2>4, <2>5 DEF FarStep
  <1>4. CASE GoesWrong
    <2>1. CASE (\E offs \in 0..Length : Rest(offs)) \/ RetrRefused \/ NotConnected
               \/ Abort \/ Reconnect
      BY <1>1, <2>1, QuietSteps, GrowsExtends DEF CopyStep
    <2>2. CASE StorRefused
      BY <1>1, <2>2, BeginKeeps, GrowsExtends DEF CopyStep
    <2>3. CASE FreadFails
      BY <1>1, <2>3, SendKeeps, GrowsExtends DEF CopyStep
    <2>4. CASE FwriteFails
      BY <1>1, <2>4, WriteFailsKeeps, GrowsExtends DEF CopyStep
    <2>5. ASSUME NEW n \in 0..(Len(pend) - 1), Close(n)
          PROVE  TransferInv' /\ CopyStep
      <3>1. n \in 0..Len(pend)
        BY LenProperties DEF TransferInv, TypeOK
      <3> QED BY <1>1, <2>5, <3>1, CloseKeeps, GrowsExtends DEF CopyStep
    <2>6. CASE Reset
      BY <1>1, <2>6, ResetKeeps, GrowsExtends DEF CopyStep
    <2>7. CASE StartOver
      <3>1. TransferInv' /\ Arrived' = <<>>
        BY <1>1, <2>7, StartOverKeeps
      <3>2. far = "idle" /\ far' = far /\ unseen' \in BOOLEAN
        BY <2>7, <3>1 DEF StartOver, TransferInv, TypeOK
      <3> QED BY <3>1, <3>2 DEF CopyStep, Copy!StartOver
    <2> QED BY <1>4, <2>1, <2>2, <2>3, <2>4, <2>5, <2>6, <2>7 DEF GoesWrong
  <1>5. CASE Done
    <2>1. UNCHANGED vars
      BY <1>5 DEF Done
    <2> QED BY <2>1 DEF vars, server, link, client, TransferInv, TypeOK, Phases, InOrder,
               Counted, Reported, InHand, OnItsWay, Moving, Arrived, Opened, Follows
  <1> QED BY <1>2, <1>3, <1>4, <1>5 DEF Next

LEMMA InitInv == Init => TransferInv /\ Copy!CopyInit
  <1> SUFFICES ASSUME Init PROVE TransferInv /\ Copy!CopyInit
    OBVIOUS
  <1>1. Length \in Nat /\ MaxTrouble \in Nat
    BY TransferAssumption
  <1>2. <<0, 0>> \in Seq(Bytes)
    BY <1>1
  <1>3. TypeOK /\ Phases
    <2>1. 0 \in 0..Length /\ 0 \in 0..MaxTrouble /\ <<>> \in Seq(Bytes)
      BY <1>1
    <2>2. file = Missing \/ file \in Seq(Bytes)
      BY <1>2 DEF Init
    <2>3. {fin, cut, begun, aborted, seen, unseen} \subseteq BOOLEAN
      BY DEF Init
    <2>4. TypeOK
      BY <2>1, <2>2, <2>3 DEF Init, TypeOK
    <2>5. Phases
      BY DEF Init, Phases
    <2> QED BY <2>4, <2>5
  <1>4. Arrived = <<>> /\ InHand = 0 /\ OnItsWay = 0
    <2>1. Arrived = <<>>
      BY DEF Init, Arrived
    <2> QED BY <2>1, FollowsEmpty DEF Init, InHand, OnItsWay
  <1>5. InOrder /\ Counted /\ Reported
    BY <1>1, <1>4, FollowsEmpty DEF Init, InOrder, Counted, Reported
  <1> QED BY <1>3, <1>4, <1>5 DEF TransferInv, Init, Copy!CopyInit

\* Files and blocks of any length, and any number of failures: what has arrived,
\* what stdio holds and what is on the wire are one beginning of the file.
THEOREM TransferKept == Spec => []TransferInv
  <1>1. TransferInv /\ [Next]_vars => TransferInv'
    <2> SUFFICES ASSUME TransferInv, [Next]_vars PROVE TransferInv'
      OBVIOUS
    <2>1. CASE UNCHANGED vars
      BY <2>1 DEF vars, server, link, client, TransferInv, TypeOK, Phases, InOrder,
           Counted, Reported, InHand, OnItsWay, Moving, Arrived, Opened, Follows
    <2> QED BY <2>1, StepKeeps
  <1> QED BY <1>1, InitInv, PTL DEF Spec

\* REST, RETR, STOR and the blocks of the data thread implement a copy that can
\* be resumed (report.md:76-77), for files and blocks of any length.
THEOREM Resumes == Spec => ResumesFaithfully
  <1>1. TransferInv /\ [Next]_vars => [CopyStep]_<<Arrived, far = "done", unseen>>
    <2> SUFFICES ASSUME TransferInv, [Next]_vars
                 PROVE  [CopyStep]_<<Arrived, far = "done", unseen>>
      OBVIOUS
    <2>1. CASE UNCHANGED vars
      BY <2>1 DEF vars, server, link, client, Arrived, Opened
    <2> QED BY <2>1, StepKeeps
  <1> QED BY <1>1, InitInv, TransferKept, PTL
          DEF Spec, ResumesFaithfully, Copy!CopySpec, CopyStep

=============================================================================
