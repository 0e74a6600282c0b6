---------------------------- MODULE ClientProofs ----------------------------
(***************************************************************************)
(* What is proved of Client, for any directories and however many readers, *)
(* replies and commands are left over (MaxAhead): the types, by which no   *)
(* NULL is called back; that one chain of callbacks runs at a time; and    *)
(* that while nothing untoward happens replies are read by those they are  *)
(* for, and the table is of the working directory.                         *)
(*                                                                         *)
(* OneContinuation is inductive by itself: whatever continues a chain is   *)
(* used up in the step that puts the next in its place.  The others need   *)
(* Together: who awaits which reply, what the server's transfer is at by   *)
(* the stage the data connection is in, and, when the table is of another  *)
(* directory than the server's, the listing that is on its way.            *)
(***************************************************************************)
EXTENDS Client, SequenceTheorems, FiniteSetTheorems, TLAPS

-----------------------------------------------------------------------------
(***************************************************************************)
(* Readers that come and go, and how many have somebody to call            *)
(***************************************************************************)
\* There are finitely many of them.
LEMMA CallersFinite ==
  ASSUME NEW rs \in Seq(Readers)
  PROVE  /\ IsFiniteSet(Callers(rs))
         /\ Cardinality(Callers(rs)) \in Nat
         /\ Callers(rs) \subseteq 1..Len(rs)
  <1>1. Len(rs) \in Nat
    BY LenProperties
  <1>2. IsFiniteSet(1..Len(rs)) /\ Callers(rs) \in SUBSET (1..Len(rs))
    BY <1>1, FS_Interval DEF Callers
  <1> QED BY <1>2, FS_Subset, FS_CardinalityType

\* xfer_read_mark adds one, or none where it was given no callback.
LEMMA CallersAppend ==
  ASSUME NEW rs \in Seq(Readers), NEW r \in Readers
  PROVE  /\ Append(rs, r) \in Seq(Readers)
         /\ Cardinality(Callers(Append(rs, r))) <= Cardinality(Callers(rs)) + 1
         /\ r.next = "NULL" => Callers(Append(rs, r)) = Callers(rs)
  <1>1. Len(rs) \in Nat
    BY LenProperties
  <1>2. /\ Append(rs, r) \in Seq(Readers)
        /\ Len(Append(rs, r)) = Len(rs) + 1
        /\ \A i \in 1..Len(rs) : Append(rs, r)[i] = rs[i]
        /\ Append(rs, r)[Len(rs) + 1] = r
    BY AppendProperties
  <1>3. CASE r.next = "NULL"
    <2>1. Callers(Append(rs, r)) = Callers(rs)
      BY <1>1, <1>2, <1>3 DEF Callers
    <2> QED BY <1>2, <2>1, CallersFinite
  <1>4. CASE r.next # "NULL"
    <2>1. Callers(Append(rs, r)) = Callers(rs) \cup {Len(rs) + 1}
      BY <1>1, <1>2, <1>4 DEF Callers
    <2>2. Cardinality(Callers(Append(rs, r))) =
            IF Len(rs) + 1 \in Callers(rs) THEN Cardinality(Callers(rs))
            ELSE Cardinality(Callers(rs)) + 1
      BY <2>1, CallersFinite, FS_AddElement
    <2> QED BY <1>2, <1>4, <2>2, CallersFinite
  <1> QED BY <1>3, <1>4

\* A sequence with one of its elements taken out.
LEMMA WithoutIs ==
  ASSUME NEW S, NEW s \in Seq(S), NEW i \in 1..Len(s)
  PROVE  /\ Without(s, i) \in Seq(S)
         /\ Len(Without(s, i)) = Len(s) - 1
         /\ \A j \in 1..(Len(s) - 1) :
              Without(s, i)[j] = IF j < i THEN s[j] ELSE s[j + 1]
  <1> DEFINE n == Len(s)
             before == SubSeq(s, 1, i - 1)
             after == SubSeq(s, i + 1, n)
  <1>1. n \in Nat /\ i \in Nat /\ i >= 1 /\ i <= n
    BY LenProperties
  <1>2. \A j \in 1..n : s[j] \in S
    BY ElementOfSeq
  <1> HIDE DEF n
  <1>3. /\ before \in Seq(S) /\ Len(before) = i - 1
        /\ \A j \in 1..(i - 1) : before[j] = s[j]
    <2> DEFINE k == i - 1
    <2>1. k \in Nat /\ \A j \in 1..k : s[j] \in S
      BY <1>1, <1>2
    <2> HIDE DEF k
    <2>2. /\ SubSeq(s, 1, k) \in Seq(S)
          /\ Len(SubSeq(s, 1, k)) = IF 1 <= k THEN k - 1 + 1 ELSE 0
          /\ \A j \in 1..(k - 1 + 1) : SubSeq(s, 1, k)[j] = s[1 + j - 1]
      BY <2>1, SubSeqProperties
    <2>3. SubSeq(s, 1, k) \in Seq(S) /\ Len(SubSeq(s, 1, k)) = k
      BY <2>1, <2>2
    <2>4. \A j \in 1..k : SubSeq(s, 1, k)[j] = s[j]
      BY <2>1, <2>2
    <2> QED BY <2>3, <2>4 DEF k
  <1>4. /\ after \in Seq(S) /\ Len(after) = n - i
        /\ \A j \in 1..(n - i) : after[j] = s[i + j]
    <2> DEFINE m == i + 1
    <2>1. m \in Int /\ n \in Int /\ \A j \in m..n : s[j] \in S
      BY <1>1, <1>2
    <2> HIDE DEF m
    <2>2. /\ SubSeq(s, m, n) \in Seq(S)
          /\ Len(SubSeq(s, m, n)) = IF m <= n THEN n - m + 1 ELSE 0
          /\ \A j \in 1..(n - m + 1) : SubSeq(s, m, n)[j] = s[m + j - 1]
      BY <2>1, SubSeqProperties
    <2>3. Len(SubSeq(s, m, n)) = n - i
      BY <1>1, <2>2 DEF m
    <2>4. ASSUME NEW j \in 1..(n - i)
          PROVE  SubSeq(s, m, n)[j] = s[i + j]
      <3>1. j \in 1..(n - m + 1) /\ m + j - 1 = i + j
        BY <1>1 DEF m
      <3> QED BY <2>2, <3>1
    <2> QED BY <2>2, <2>3, <2>4 DEF m
  <1>5. Without(s, i) = before \o after
    BY DEF Without, n
  <1> HIDE DEF before, after
  <1>6. /\ before \o after \in Seq(S)
        /\ Len(before \o after) = Len(before) + Len(after)
        /\ \A j \in 1..(Len(before) + Len(after)) :
             (before \o after)[j] =
               IF j <= Len(before) THEN before[j] ELSE after[j - Len(before)]
    BY <1>3, <1>4, ConcatProperties
  <1>7. Len(before \o after) = n - 1
    BY <1>1, <1>3, <1>4, <1>6
  <1>8. ASSUME NEW j \in 1..(n - 1)
        PROVE  (before \o after)[j] = IF j < i THEN s[j] ELSE s[j + 1]
    <2>1. (before \o after)[j] =
            IF j <= i - 1 THEN before[j] ELSE after[j - (i - 1)]
      BY <1>1, <1>3, <1>4, <1>6
    <2>2. CASE j < i
      BY <1>1, <1>3, <2>1, <2>2
    <2>3. CASE ~(j < i)
      <3>1. j - (i - 1) \in 1..(n - i) /\ i + (j - (i - 1)) = j + 1
        BY <1>1, <2>3
      <3>2. after[j - (i - 1)] = s[j + 1]
        BY <1>4, <3>1
      <3> QED BY <1>1, <2>1, <2>3, <3>2
    <2> QED BY <2>2, <2>3
  <1> QED BY <1>5, <1>6, <1>7, <1>8 DEF n

\* A reader that has read its mark is one less, if it was to call anybody.
LEMMA CallersWithout ==
  ASSUME NEW rs \in Seq(Readers), NEW i \in 1..Len(rs)
  PROVE  Cardinality(Callers(Without(rs, i))) <=
           Cardinality(Callers(rs)) - (IF rs[i].next = "NULL" THEN 0 ELSE 1)
  <1> DEFINE less == Without(rs, i)
             f == [j \in Callers(less) |-> IF j < i THEN j ELSE j + 1]
             others == Callers(rs) \ {i}
  <1>1. Len(rs) \in Nat /\ i \in Nat
    BY LenProperties
  <1>2. /\ less \in Seq(Readers)
        /\ Len(less) = Len(rs) - 1
        /\ \A j \in 1..(Len(rs) - 1) : less[j] = IF j < i THEN rs[j] ELSE rs[j + 1]
    BY WithoutIs
  <1> HIDE DEF less
  <1>3. ASSUME NEW j \in Callers(less)
        PROVE  j \in Nat /\ f[j] \in others /\ f[j] = IF j < i THEN j ELSE j + 1
    <2>1. j \in 1..(Len(rs) - 1) /\ less[j].next # "NULL"
      BY <1>2 DEF Callers
    <2>2. CASE j < i
      <3>1. j \in 1..Len(rs) /\ rs[j].next # "NULL" /\ j # i
        BY <1>1, <1>2, <2>1, <2>2
      <3> QED BY <2>2, <3>1 DEF Callers
    <2>3. CASE ~(j < i)
      <3>1. j + 1 \in 1..Len(rs) /\ rs[j + 1].next # "NULL" /\ j + 1 # i
        BY <1>1, <1>2, <2>1, <2>3
      <3> QED BY <2>1, <2>3, <3>1 DEF Callers
    <2> QED BY <2>2, <2>3
  <1>4. f \in Injection(Callers(less), others)
    <2>1. f \in [Callers(less) -> others]
      BY <1>3
    <2>2. ASSUME NEW a \in Callers(less), NEW b \in Callers(less), f[a] = f[b]
          PROVE  a = b
      BY <1>1, <1>3, <2>2
    <2> HIDE DEF f
    <2> QED BY <2>1, <2>2 DEF Injection, IsInjective
  <1>5. /\ IsFiniteSet(others)
        /\ Cardinality(others) = IF i \in Callers(rs) THEN Cardinality(Callers(rs)) - 1
                                 ELSE Cardinality(Callers(rs))
    BY CallersFinite, FS_RemoveElement
  <1>6. Cardinality(Callers(less)) <= Cardinality(others)
    BY <1>4, <1>5, FS_Injection
  <1>7. i \in Callers(rs) <=> rs[i].next # "NULL"
    BY DEF Callers
  <1>8. CASE rs[i].next = "NULL"
    BY <1>5, <1>6, <1>7, <1>8, CallersFinite DEF less
  <1>9. CASE rs[i].next # "NULL"
    BY <1>5, <1>6, <1>7, <1>9, CallersFinite DEF less
  <1> QED BY <1>8, <1>9

-----------------------------------------------------------------------------
(***************************************************************************)
(* Types                                                                   *)
(***************************************************************************)
\* What the tables of callbacks, marks and commands hold.
LEMMA TablesTyped ==
  /\ \A fn \in DOMAIN Expects :
       fn \in Callbacks /\ Then[fn][1] \in Commands /\ Then[fn][2] \in Callbacks
  /\ \A cmd \in DOMAIN Asks : cmd \in Commands /\ Asks[cmd] \in Callbacks
  /\ \A cmd \in Commands : Accepts[cmd] \in Nat
  /\ Transfers \subseteq Commands /\ Commands \subseteq Answered
  /\ {"PASV", "PORT"} \subseteq Commands
  <1> USE DEF Commands, Answered, Callbacks
  <1>1. \A fn \in DOMAIN Expects : fn \in Callbacks
    OBVIOUS
  <1>2. \A fn \in DOMAIN Expects :
          Then[fn][1] \in Commands /\ Then[fn][2] \in Callbacks
    BY DEF Expects, Then, Accepts, List
  <1>3. \A cmd \in DOMAIN Asks : cmd \in Commands /\ Asks[cmd] \in Callbacks
    BY DEF Asks, Accepts, Expects
  <1>4. \A cmd \in Commands : Accepts[cmd] \in Nat
    BY DEF Accepts
  <1>5. /\ Transfers \subseteq Commands /\ Commands \subseteq Answered
        /\ {"PASV", "PORT"} \subseteq Commands
    BY DEF Accepts, Transfers
  <1> QED BY <1>1, <1>2, <1>3, <1>4, <1>5

Called == [fn : Callbacks, code : Nat]
Marks == [code : Nat, of : Answered]

\* xfer_write with xfer_read_mark.
LEMMA SendKeeps ==
  ASSUME TypeOK, NEW cmd \in Commands, NEW next \in Callbacks \cup {"NULL"},
         Send(cmd, next)
  PROVE  /\ cmds' \in Seq(Commands)
         /\ readers' \in Seq(Readers)
         /\ Cardinality(Callers(readers')) <= Cardinality(Callers(readers)) + 1
         /\ next = "NULL" => Callers(readers') = Callers(readers)
  <1> DEFINE r == [next |-> next, to |-> cmd]
  <1>1. r \in Readers /\ r.next = next
    BY TablesTyped DEF Readers
  <1>2. readers \in Seq(Readers) /\ cmds \in Seq(Commands)
    BY DEF TypeOK
  <1>3. readers' = Append(readers, r) /\ cmds' = Append(cmds, cmd)
    BY DEF Send
  <1> HIDE DEF r
  <1> QED BY <1>1, <1>2, <1>3, CallersAppend, AppendProperties

\* uiQueueMain.
LEMMA QueuedIs ==
  ASSUME TypeOK, NEW fn \in Callbacks, NEW code \in Nat
  PROVE  /\ Queued(fn, code) \in Seq(Called)
         /\ Len(Queued(fn, code)) = Len(queue) + 1
  <1>1. [fn |-> fn, code |-> code] \in Called /\ queue \in Seq(Called)
    BY DEF Called, TypeOK
  <1> QED BY <1>1, AppendProperties DEF Queued

\* A reply of the server.
LEMMA ReplyKeeps ==
  ASSUME TypeOK, NEW code \in Nat, NEW of \in Answered, Reply(code, of)
  PROVE  marks' \in Seq(Marks)
  <1>1. [code |-> code, of |-> of] \in Marks /\ marks \in Seq(Marks)
    BY DEF Marks, TypeOK
  <1>2. marks' = Append(marks, [code |-> code, of |-> of])
    BY DEF Reply
  <1> QED BY <1>1, <1>2, AppendProperties

\* do_data: it goes on, or the window is enabled.
LEMMA DoDataKeeps ==
  ASSUME TypeOK, NEW cmd \in Transfers, DoData(cmd)
  PROVE  /\ job' \in Transfers /\ busy' \in BOOLEAN
         /\ cmds' \in Seq(Commands) /\ readers' \in Seq(Readers)
         /\ busy' => Cardinality(Callers(readers')) <= Cardinality(Callers(readers)) + 1
         /\ ~busy' => readers' = readers
  <1>1. {"data_pasv_1", "data_port_1"} \subseteq Callbacks
    BY DEF Callbacks
  <1>2. CASE Send("PASV", "data_pasv_1") /\ busy' = TRUE
    BY <1>1, <1>2, SendKeeps, TablesTyped DEF DoData
  <1>3. CASE Send("PORT", "data_port_1") /\ busy' = TRUE
    BY <1>1, <1>3, SendKeeps, TablesTyped DEF DoData
  <1>4. CASE busy' = FALSE /\ UNCHANGED <<cmds, readers>>
    BY <1>4 DEF DoData, TypeOK
  <1> QED BY <1>2, <1>3, <1>4 DEF DoData

-----------------------------------------------------------------------------
(***************************************************************************)
(* One chain                                                               *)
(***************************************************************************)
\* The connections that are being made or used.
X == IF x = "connecting" THEN 1 ELSE 0
Y == IF y \in {"none", "open"} THEN 0 ELSE 1

LEMMA CountIs ==
  ASSUME readers \in Seq(Readers), queue \in Seq(Called)
  PROVE  /\ Cardinality(Callers(readers)) \in Nat /\ Len(queue) \in Nat
         /\ X \in 0..1 /\ Y \in 0..1
         /\ X = 0 <=> x # "connecting"
         /\ Y = 0 <=> y \in {"none", "open"}
         /\ Continuations = Cardinality(Callers(readers)) + Len(queue) + X + Y
         /\ queue # <<>> => Len(queue) # 0
  <1>1. Cardinality(Callers(readers)) \in Nat /\ Len(queue) \in Nat
    BY CallersFinite, LenProperties
  <1>2. queue # <<>> => Len(queue) # 0
    BY EmptySeq
  <1>3. /\ X \in 0..1 /\ Y \in 0..1
        /\ X = 0 <=> x # "connecting"
        /\ Y = 0 <=> y \in {"none", "open"}
    BY DEF X, Y
  <1>4. Continuations = Cardinality(Callers(readers)) + Len(queue) + X + Y
    BY DEF Continuations, X, Y
  <1> QED BY <1>1, <1>2, <1>3, <1>4

\* There is one chain at most: with the window enabled there is none, and while
\* its callback is in the queue there is nothing else.
LEMMA OneIs ==
  ASSUME readers \in Seq(Readers), queue \in Seq(Called), busy \in BOOLEAN,
         OneContinuation
  PROVE  /\ Cardinality(Callers(readers)) + Len(queue) + X + Y <= 1
         /\ ~busy => Cardinality(Callers(readers)) + Len(queue) + X + Y = 0
         /\ queue # <<>> => /\ busy /\ Len(queue) = 1
                            /\ Cardinality(Callers(readers)) = 0
                            /\ x # "connecting" /\ y \in {"none", "open"}
  <1> DEFINE W == Cardinality(Callers(readers))
             Q == Len(queue)
  <1>1. /\ W \in Nat /\ Q \in Nat /\ X \in 0..1 /\ Y \in 0..1
        /\ Continuations = W + Q + X + Y
        /\ queue # <<>> => Q # 0
    BY CountIs
  <1> HIDE DEF W, Q
  <1>2. W + Q + X + Y <= 1
    BY <1>1 DEF OneContinuation
  <1>3. ~busy => W + Q + X + Y = 0
    BY <1>1 DEF OneContinuation
  <1>4. ASSUME queue # <<>>
        PROVE  busy /\ Q = 1 /\ W = 0 /\ X = 0 /\ Y = 0
    <2>1. Q >= 1
      BY <1>1, <1>4
    <2>2. Q = 1 /\ W = 0 /\ X = 0 /\ Y = 0
      BY <1>1, <1>2, <2>1
    <2>3. ~(W + Q + X + Y = 0)
      BY <2>2
    <2> QED BY <1>3, <2>2, <2>3
  <1> QED BY <1>2, <1>3, <1>4, CountIs DEF W, Q

\* And how to see that a step keeps to it.
LEMMA OneBy ==
  ASSUME TypeOK',
         Cardinality(Callers(readers'))  + Len(queue') + X' + Y' <= 1,
         ~busy' => Cardinality(Callers(readers')) + Len(queue') + X' + Y' = 0
  PROVE  OneContinuation'
  <1> DEFINE n == Cardinality(Callers(readers')) + Len(queue') + X' + Y'
  <1>1. Continuations' = n
    BY DEF Continuations, X, Y
  <1>2. busy' \in BOOLEAN
    BY DEF TypeOK
  <1> HIDE DEF n
  <1>3. CASE busy'
    BY <1>1, <1>3 DEF OneContinuation, n
  <1>4. CASE ~busy'
    BY <1>1, <1>4 DEF OneContinuation, n
  <1> QED BY <1>2, <1>3, <1>4

-----------------------------------------------------------------------------
(***************************************************************************)
(* The steps                                                               *)
(***************************************************************************)
\* A click, which there can be only while no chain runs.
LEMMA UserKeeps ==
  ASSUME TypeOK, OneContinuation, User
  PROVE  TypeOK' /\ OneContinuation'
  <1> DEFINE W == Cardinality(Callers(readers))
  <1>1. /\ readers \in Seq(Readers) /\ queue \in Seq(Called) /\ busy \in BOOLEAN
        /\ ~busy
    BY DEF TypeOK, Called, User, ClickConnect, Ask, AskTransfer, MayAct
  <1>2. W = 0 /\ Len(queue) = 0 /\ X = 0 /\ Y = 0
    <2>1. W + Len(queue) + X + Y = 0
      BY <1>1, OneIs
    <2>2. W \in Nat /\ Len(queue) \in Nat /\ X \in 0..1 /\ Y \in 0..1
      BY <1>1, CountIs
    <2> HIDE DEF W
    <2> QED BY <2>1, <2>2
  <1>3. CASE ClickConnect
    <2>1. TypeOK'
      BY <1>3 DEF ClickConnect, TypeOK, server, window
    <2>2. readers' = readers /\ queue' = queue /\ Y' = Y /\ X' = 1 /\ busy' = TRUE
      BY <1>3 DEF ClickConnect, X, Y
    <2> QED BY <1>2, <2>1, <2>2, OneBy
  <1>4. ASSUME NEW cmd \in DOMAIN Asks, Ask(cmd)
        PROVE  TypeOK' /\ OneContinuation'
    <2>1. /\ cmds' \in Seq(Commands) /\ readers' \in Seq(Readers)
          /\ Cardinality(Callers(readers')) <= W + 1
      BY <1>4, TablesTyped, SendKeeps DEF Ask
    <2>2. TypeOK'
      BY <1>4, <2>1 DEF Ask, TypeOK, server, window
    <2>3. queue' = queue /\ Y' = Y /\ X' = X /\ busy' = TRUE
      BY <1>4 DEF Ask, X, Y
    <2>4. Cardinality(Callers(readers')) \in Nat
      BY <2>1, CallersFinite
    <2>5. Cardinality(Callers(readers')) + Len(queue') + X' + Y' <= 1
      BY <1>2, <2>1, <2>3, <2>4
    <2> QED BY <2>2, <2>3, <2>5, OneBy
  <1>5. ASSUME NEW cmd \in {"RETR", "STOR"}, AskTransfer(cmd)
        PROVE  TypeOK' /\ OneContinuation'
    <2>1. /\ job' \in Transfers /\ busy' \in BOOLEAN
          /\ cmds' \in Seq(Commands) /\ readers' \in Seq(Readers)
          /\ busy' => Cardinality(Callers(readers')) <= W + 1
          /\ ~busy' => readers' = readers
      BY <1>5, DoDataKeeps DEF AskTransfer, Transfers
    <2>2. TypeOK'
      BY <1>5, <2>1 DEF AskTransfer, TypeOK, server, window
    <2>3. queue' = queue /\ Y' = Y /\ X' = X
      BY <1>5 DEF AskTransfer, X, Y
    <2>4. Cardinality(Callers(readers')) \in Nat
      BY <2>1, CallersFinite
    <2>5. Cardinality(Callers(readers')) <= 1
      BY <1>2, <2>1, <2>4
    <2>6. ~busy' => Cardinality(Callers(readers')) = 0
      BY <1>2, <2>1
    <2> HIDE DEF W
    <2>7. /\ Cardinality(Callers(readers')) + Len(queue') + X' + Y' <= 1
          /\ ~busy' => Cardinality(Callers(readers')) + Len(queue') + X' + Y' = 0
      BY <1>2, <2>3, <2>4, <2>5, <2>6
    <2> QED BY <2>2, <2>7, OneBy
  <1> QED BY <1>3, <1>4, <1>5 DEF User

\* What a callback may leave when it has been taken from the queue: nothing, or
\* with the window disabled a reader or a thread on the data connection.
LEMMA OneLeft ==
  ASSUME TypeOK', Len(queue') = 0, X' = 0,
         \/ Cardinality(Callers(readers')) = 0 /\ Y' = 0
         \/ busy' /\ Cardinality(Callers(readers')) = 0
         \/ busy' /\ Cardinality(Callers(readers')) <= 1 /\ Y' = 0
  PROVE  OneContinuation'
  <1> DEFINE W == Cardinality(Callers(readers'))
             YY == Y'
  <1>1. W \in Nat
    BY CallersFinite DEF TypeOK
  <1>2. YY \in 0..1
    BY DEF Y
  <1>3. \/ W = 0 /\ YY = 0
        \/ busy' /\ W = 0
        \/ busy' /\ W <= 1 /\ YY = 0
    OBVIOUS
  <1> HIDE DEF W, YY
  <1>4. (W = 0 \/ (W <= 1 /\ YY = 0)) /\ (~busy' => W = 0 /\ YY = 0)
    BY <1>3
  <1>5. W + 0 + 0 + YY <= 1
    BY <1>1, <1>2, <1>4
  <1>6. ~busy' => W + 0 + 0 + YY = 0
    BY <1>4
  <1> QED BY <1>5, <1>6, OneBy DEF W, YY

\* A callback: all there was is used up when it is taken from the queue.
LEMMA LoopKeeps ==
  ASSUME TypeOK, OneContinuation, Loop
  PROVE  TypeOK' /\ OneContinuation'
  <1> DEFINE fn == Head(queue).fn
             code == Head(queue).code
             W == Cardinality(Callers(readers))
  <1>1. /\ readers \in Seq(Readers) /\ queue \in Seq(Called) /\ busy \in BOOLEAN
        /\ queue # <<>>
    BY DEF TypeOK, Called, Loop
  <1>2. /\ busy /\ Len(queue) = 1 /\ W = 0
        /\ x # "connecting" /\ y \in {"none", "open"}
    BY <1>1, OneIs
  <1>3. /\ fn \in Callbacks /\ code \in Nat
        /\ queue' \in Seq(Called) /\ Len(queue') = 0
    <2>1. Head(queue) \in Called /\ queue' = Tail(queue)
      BY <1>1, HeadTailProperties DEF Loop
    <2>2. Tail(queue) \in Seq(Called) /\ Len(Tail(queue)) = Len(queue) - 1
      BY <1>1, HeadTailProperties
    <2> QED BY <1>2, <2>1, <2>2 DEF Called
  <1>4. unlisted' \in BOOLEAN /\ calm' = calm
    BY DEF Loop, TypeOK
  <1> HIDE DEF fn, code, W
  <1>5. \A n \in Nat : n <= W + 1 => n <= 1
    BY <1>2
  <1>6. CASE GoOn(fn, code)
    <2>1. /\ cmds' \in Seq(Commands) /\ readers' \in Seq(Readers) /\ busy' \in BOOLEAN
          /\ connected' \in BOOLEAN
          /\ \/ busy' /\ Cardinality(Callers(readers')) <= W + 1
             \/ Cardinality(Callers(readers')) = W
      <3>1. CASE code = Expects[fn]
        <4>1. Send(Then[fn][1], Then[fn][2]) /\ busy' = TRUE /\ fn \in DOMAIN Expects
          BY <1>6, <3>1 DEF GoOn
        <4>2. Then[fn][1] \in Commands /\ Then[fn][2] \in Callbacks
          BY <4>1, TablesTyped
        <4> HIDE DEF Then
        <4>3. /\ cmds' \in Seq(Commands) /\ readers' \in Seq(Readers)
              /\ Cardinality(Callers(readers')) <= W + 1
          BY <4>1, <4>2, SendKeeps DEF W
        <4> QED BY <1>6, <4>1, <4>3 DEF GoOn, TypeOK
      <3>2. CASE code # Expects[fn]
        BY <1>6, <3>2 DEF GoOn, TypeOK, W
      <3> QED BY <3>1, <3>2
    <2>2. TypeOK'
      BY <1>3, <1>4, <1>6, <2>1 DEF GoOn, TypeOK, server, Called
    <2>3. X' = 0 /\ Y' = 0
      BY <1>2, <1>6 DEF GoOn, X, Y
    <2>4. Cardinality(Callers(readers')) \in Nat
      BY <2>1, CallersFinite
    <2> QED BY <1>2, <1>3, <1>5, <2>1, <2>2, <2>3, <2>4, OneLeft
  <1>7. CASE ConnectionSetup(fn, code)
    <2>1. /\ readers' \in Seq(Readers) /\ busy' \in BOOLEAN
          /\ \/ busy' /\ Cardinality(Callers(readers')) <= W + 1
             \/ Cardinality(Callers(readers')) = W
      <3>1. CASE code = 0
        <4>1. [next |-> "auth_1", to |-> "welcome"] \in Readers
          BY DEF Readers, Callbacks, Expects, Answered
        <4> QED BY <1>1, <1>2, <1>7, <3>1, <4>1, CallersAppend DEF ConnectionSetup, W
      <3>2. CASE code # 0
        BY <1>1, <1>7, <3>2 DEF ConnectionSetup, W
      <3> QED BY <3>1, <3>2
    <2>2. TypeOK'
      BY <1>3, <1>4, <1>7, <2>1 DEF ConnectionSetup, TypeOK, server, Called
    <2>3. X' = 0 /\ Y' = 0
      BY <1>2, <1>7 DEF ConnectionSetup, X, Y
    <2>4. Cardinality(Callers(readers')) \in Nat
      BY <2>1, CallersFinite
    <2> QED BY <1>2, <1>3, <1>5, <2>1, <2>2, <2>3, <2>4, OneLeft
  <1>8. CASE List1(fn, code)
    <2>1. /\ job' \in Transfers /\ busy' \in BOOLEAN
          /\ cmds' \in Seq(Commands) /\ readers' \in Seq(Readers)
          /\ \/ busy' /\ Cardinality(Callers(readers')) <= W + 1
             \/ Cardinality(Callers(readers')) = W
      <3>1. CASE code = 257
        BY <1>8, <3>1, DoDataKeeps DEF List1, Transfers, W
      <3>2. CASE code # 257
        BY <1>8, <3>2 DEF List1, TypeOK, W
      <3> QED BY <3>1, <3>2
    <2>2. TypeOK'
      BY <1>3, <1>4, <1>8, <2>1 DEF List1, TypeOK, server, Called
    <2>3. X' = 0 /\ Y' = 0
      BY <1>2, <1>8 DEF List1, X, Y
    <2>4. Cardinality(Callers(readers')) \in Nat
      BY <2>1, CallersFinite
    <2> QED BY <1>2, <1>3, <1>5, <2>1, <2>2, <2>3, <2>4, OneLeft
  <1>9. CASE Data1(fn, code)
    <2>1. /\ cmds' \in Seq(Commands) /\ readers' \in Seq(Readers) /\ busy' \in BOOLEAN
          /\ Cardinality(Callers(readers')) = W
          /\ \/ y' \in {"connecting", "binding"} /\ busy' = busy
             \/ y' = y
      <3>1. CASE Send(job, AcceptanceNext(job))
        <4>1. /\ cmds' \in Seq(Commands) /\ readers' \in Seq(Readers)
              /\ Callers(readers') = Callers(readers)
          BY <3>1, SendKeeps, TablesTyped DEF AcceptanceNext, TypeOK
        <4> QED BY <1>9, <4>1 DEF Data1, TypeOK, W
      <3>2. CASE busy' = FALSE /\ UNCHANGED <<y, cmds, readers>>
        BY <1>9, <3>2 DEF TypeOK, W
      <3> QED BY <1>9, <3>1, <3>2 DEF Data1
    <2>2. TypeOK'
      BY <1>3, <1>4, <1>9, <2>1 DEF Data1, TypeOK, server, Called
    <2>3. X' = 0 /\ (y' = y => Y' = 0)
      BY <1>2, <1>9 DEF Data1, X, Y
    <2> QED BY <1>2, <1>3, <2>1, <2>2, <2>3, OneLeft
  <1>10. CASE Data2(fn, code)
    <2>1. \/ y' \in {"gathering", "receiving", "sending"} /\ busy' = busy
          \/ y' = "none" /\ busy' = FALSE
      <3>1. CASE code = 0
        <4>1. job \in {"LIST", "RETR", "STOR"}
          BY DEF TypeOK, Transfers
        <4> QED BY <1>10, <3>1, <4>1 DEF Data2
      <3>2. CASE code # 0
        BY <1>10, <3>2 DEF Data2
      <3> QED BY <3>1, <3>2
    <2>2. TypeOK'
      <3>1. y' \in {"none", "connecting", "binding", "listening", "open",
                    "gathering", "receiving", "sending"} /\ busy' \in BOOLEAN
        BY <1>1, <2>1
      <3> QED BY <1>3, <1>4, <1>10, <3>1 DEF Data2, TypeOK, server, Called
    <2>3. X' = 0 /\ (y' = "none" => Y' = 0) /\ Cardinality(Callers(readers')) = 0
      BY <1>2, <1>10 DEF Data2, X, Y, W
    <2> QED BY <1>2, <1>3, <2>1, <2>2, <2>3, OneLeft
  <1>11. CASE Finish(fn)
    <2>1. /\ readers' \in Seq(Readers)
          /\ Cardinality(Callers(readers')) = W
      <3>1. [next |-> "NULL", to |-> "completion"] \in Readers
        BY DEF Readers, Answered
      <3>2. readers' = Append(readers, [next |-> "NULL", to |-> "completion"])
        BY <1>1, <1>11, <3>1, AppendIsConcat DEF Finish, CompletionReader
      <3> QED BY <1>1, <3>1, <3>2, CallersAppend DEF W
    <2>2. TypeOK'
      BY <1>3, <1>4, <1>11, <2>1 DEF Finish, CloseData, TypeOK, Called
    <2>3. X' = 0 /\ Y' = 0
      BY <1>2, <1>11 DEF Finish, CloseData, X, Y
    <2> QED BY <1>2, <1>3, <2>1, <2>2, <2>3, OneLeft
  <1>12. CASE FinishStor(fn)
    <2>1. /\ readers' \in Seq(Readers)
          /\ Cardinality(Callers(readers')) <= W + 1
      <3>1. [next |-> "stor_3", to |-> "completion"] \in Readers
        BY DEF Readers, Answered, Callbacks, Expects
      <3> QED BY <1>1, <1>12, <3>1, CallersAppend DEF FinishStor, W
    <2>2. TypeOK'
      BY <1>3, <1>4, <1>12, <2>1 DEF FinishStor, CloseData, TypeOK, Called
    <2>3. X' = 0 /\ Y' = 0 /\ busy'
      BY <1>2, <1>12 DEF FinishStor, CloseData, X, Y
    <2>4. Cardinality(Callers(readers')) \in Nat
      BY <2>1, CallersFinite
    <2> QED BY <1>3, <1>5, <2>1, <2>2, <2>3, <2>4, OneLeft
  <1>13. CASE Disconnect(fn)
    <2>1. TypeOK'
      <3>1. cmds' \in Seq(Commands) /\ marks' \in Seq([code : Nat, of : Answered])
        BY <1>13, EmptySeq DEF Disconnect
      <3>2. srv' = NoTransfer /\ NoTransfer \in
              [st : {"none", "ready", "accepted", "drained"},
               mode : {"PASV", "PORT"}, cmd : Transfers]
        BY <1>13 DEF Disconnect, NoTransfer, Transfers
      <3> QED BY <1>3, <1>4, <1>13, <3>1, <3>2 DEF Disconnect, TypeOK, Called
    <2>2. X' = 0 /\ Y' = 0 /\ Cardinality(Callers(readers')) = 0
      BY <1>2, <1>13 DEF Disconnect, X, Y, W
    <2> QED BY <1>3, <2>1, <2>2, OneLeft
  <1> QED BY <1>6, <1>7, <1>8, <1>9, <1>10, <1>11, <1>12, <1>13 DEF Loop, fn, code

\* A step that leaves the window as it is and makes no more continuations.
LEMMA NoMore ==
  ASSUME TypeOK, OneContinuation, TypeOK', busy' = busy,
         Cardinality(Callers(readers')) + Len(queue') + X' + Y'
           <= Cardinality(Callers(readers)) + Len(queue) + X + Y
  PROVE  OneContinuation'
  <1> DEFINE n == Cardinality(Callers(readers)) + Len(queue) + X + Y
             m == Cardinality(Callers(readers')) + Len(queue') + X' + Y'
  <1>1. readers \in Seq(Readers) /\ queue \in Seq(Called) /\ busy \in BOOLEAN
    BY DEF TypeOK, Called
  <1>2. n \in Nat /\ m \in Nat /\ m <= n
    <2>1. /\ Cardinality(Callers(readers)) \in Nat /\ Len(queue) \in Nat
          /\ X \in 0..1 /\ Y \in 0..1
      BY <1>1, CountIs
    <2>2. Cardinality(Callers(readers')) \in Nat /\ Len(queue') \in Nat
      BY CallersFinite, LenProperties DEF TypeOK
    <2>3. X' \in 0..1 /\ Y' \in 0..1
      BY DEF X, Y
    <2> QED BY <2>1, <2>2, <2>3
  <1>3. n <= 1 /\ (~busy => n = 0)
    BY <1>1, OneIs
  <1> HIDE DEF n, m
  <1>4. m <= 1
    BY <1>2, <1>3
  <1>5. n = 0 => m = 0
    BY <1>2
  <1>6. ~busy' => m = 0
    BY <1>3, <1>5
  <1> QED BY <1>4, <1>6, OneBy DEF m

\* A thread that ends or goes on: it has queued its callback when it is gone.
LEMMA ThreadsKeep ==
  ASSUME TypeOK, OneContinuation, Threads
  PROVE  TypeOK' /\ OneContinuation'
  <1> DEFINE W == Cardinality(Callers(readers))
             Q == Len(queue)
  <1>1. /\ readers \in Seq(Readers) /\ queue \in Seq(Called)
        /\ W \in Nat /\ Q \in Nat /\ X \in 0..1 /\ Y \in 0..1
    BY CountIs DEF TypeOK, Called
  <1>2. {"connection_setup", "data_2", "list_3", "data_3"} \subseteq Callbacks
    BY DEF Callbacks
  <1>3. CASE Connect
    <2>1. queue' \in Seq(Called) /\ Len(queue') = Q + 1
      BY <1>2, <1>3, QueuedIs DEF Connect
    <2>2. /\ marks' \in Seq([code : Nat, of : Answered])
          /\ cmds' \in Seq(Commands)
          /\ srv' \in [st : {"none", "starting", "ready", "accepted", "drained", "lost",
                             "hung"},
                       mode : {"PASV", "PORT"}, cmd : Transfers]
          /\ link' \in {"down", "up", "eof", "shut"}
          /\ wd' \in Dirs /\ listed' \in Dirs \cup {Unknown}
      <3>1. CASE x' = "open"
        <4>1. [code |-> 220, of |-> "welcome"] \in [code : Nat, of : Answered]
          BY DEF Answered
        <4>2. NoTransfer \in [st : {"none", "ready", "accepted", "drained"},
                               mode : {"PASV", "PORT"}, cmd : Transfers]
          BY DEF NoTransfer, Transfers
        <4>3. /\ cmds' = <<>> /\ srv' = NoTransfer /\ link' = "down"
              /\ marks' = <<[code |-> 220, of |-> "welcome"]>>
              /\ wd' = Root /\ listed' = Unknown
          BY <1>3, <3>1 DEF Connect
        <4>4. cmds' \in Seq(Commands)
          BY <4>3, EmptySeq
        <4>5. marks' \in Seq([code : Nat, of : Answered])
          BY <4>1, <4>3
        <4> QED BY <4>2, <4>3, <4>4, <4>5, ClientAssumption
      <3>2. CASE x' = "none"
        BY <1>3, <3>2 DEF Connect, TypeOK, server
      <3> QED BY <1>3, <3>1, <3>2 DEF Connect
    <2>3. TypeOK'
      BY <1>3, <2>1, <2>2 DEF Connect, TypeOK, window, Called
    <2>4. X = 1 /\ X' = 0 /\ Y' = Y /\ readers' = readers /\ busy' = busy
      BY <1>3 DEF Connect, X, Y
    <2>5. W + Len(queue') + X' + Y' <= W + Q + X + Y
      BY <1>1, <2>1, <2>4
    <2> QED BY <2>3, <2>4, <2>5, NoMore
  <1>4. CASE ConnectData
    <2>1. /\ queue' \in Seq(Called) /\ readers' = readers /\ busy' = busy
          /\ y' \in {"open", "listening"}
          /\ \/ Len(queue') = Q + 1 /\ Y = 1 /\ Y' = 0
             \/ Len(queue') = Q /\ Y = 1 /\ Y' = 1
      BY <1>1, <1>2, <1>4, QueuedIs DEF ConnectData, Y
    <2>2. TypeOK'
      BY <1>4, <2>1 DEF ConnectData, TypeOK, window, Called
    <2>3. X' = X
      BY <1>4 DEF ConnectData, X
    <2>4. W + Len(queue') + X' + Y' <= W + Q + X + Y
      BY <1>1, <2>1, <2>3
    <2> QED BY <2>1, <2>2, <2>4, NoMore
  <1>5. ASSUME NEW i \in 1..Len(readers), ReadMark(i)
        PROVE  TypeOK' /\ OneContinuation'
    <2> DEFINE next == readers[i].next
    <2>1. /\ readers' \in Seq(Readers)
          /\ Cardinality(Callers(readers')) <= W - (IF next = "NULL" THEN 0 ELSE 1)
          /\ Cardinality(Callers(readers')) \in Nat
      BY <1>1, <1>5, WithoutIs, CallersWithout, CallersFinite DEF ReadMark
    <2>2. next \in Callbacks \cup {"NULL"}
      <3>1. readers[i] \in Readers
        BY <1>1, ElementOfSeq
      <3> QED BY <3>1 DEF Readers
    <2>3. marks' \in Seq(Marks) /\ Head(marks).code \in Nat
      <3>1. marks \in Seq(Marks) /\ marks # <<>> /\ marks' = Tail(marks)
        BY <1>5 DEF ReadMark, TypeOK, Marks
      <3>2. Head(marks) \in Marks /\ Tail(marks) \in Seq(Marks)
        BY <3>1, HeadTailProperties
      <3> QED BY <3>1, <3>2 DEF Marks
    <2>4. PICK code \in Nat : queue' = CallsBack(next, code)
      BY <1>5, <2>3 DEF ReadMark
    <2> HIDE DEF next
    <2>5. /\ queue' \in Seq(Called)
          /\ Len(queue') = Q + (IF next = "NULL" THEN 0 ELSE 1)
      BY <1>1, <2>2, <2>4, QueuedIs DEF CallsBack
    <2>6. TypeOK'
      BY <1>5, <2>1, <2>3, <2>5 DEF ReadMark, TypeOK, server, window, Called, Marks
    <2>7. X' = X /\ Y' = Y /\ busy' = busy
      BY <1>5 DEF ReadMark, X, Y
    <2>8. Cardinality(Callers(readers')) + Len(queue') <= W + Q
      <3>1. CASE next = "NULL"
        BY <1>1, <2>1, <2>5, <3>1
      <3>2. CASE next # "NULL"
        BY <1>1, <2>1, <2>5, <3>2
      <3> QED BY <3>1, <3>2
    <2>9. Len(queue') \in Nat
      BY <2>5, LenProperties
    <2> HIDE DEF W, Q
    <2>10. Cardinality(Callers(readers')) + Len(queue') + X' + Y' <= W + Q + X + Y
      BY <1>1, <2>1, <2>7, <2>8, <2>9
    <2> QED BY <2>6, <2>7, <2>10, NoMore DEF W, Q
  <1>6. CASE LoseMark
    <2>1. marks' \in Seq([code : Nat, of : Answered])
      BY <1>6, HeadTailProperties DEF LoseMark, TypeOK
    <2>2. TypeOK'
      BY <1>6, <2>1 DEF LoseMark, TypeOK, server, window
    <2>3. /\ readers' = readers /\ queue' = queue /\ busy' = busy
          /\ X' = X /\ Y' = Y
      BY <1>6 DEF LoseMark, X, Y
    <2>4. W + Len(queue') + X' + Y' <= W + Q + X + Y
      BY <1>1, <2>3
    <2> QED BY <2>2, <2>3, <2>4, NoMore
  <1>7. CASE MoveData
    <2>1. /\ queue' \in Seq(Called) /\ readers' = readers /\ busy' = busy
          /\ Len(queue') = Q + 1 /\ Y = 1 /\ Y' = 0 /\ X' = X
      BY <1>2, <1>7, QueuedIs DEF MoveData, X, Y
    <2>2. TypeOK'
      BY <1>7, <2>1 DEF MoveData, TypeOK, server, window, Called
    <2>3. W + Len(queue') + X' + Y' <= W + Q + X + Y
      BY <1>1, <2>1
    <2> QED BY <2>1, <2>2, <2>3, NoMore
  <1> QED BY <1>3, <1>4, <1>5, <1>6, <1>7 DEF Threads

\* The server replies to what it is sent, and moves its end of a transfer.
LEMMA ServerKeeps ==
  ASSUME TypeOK, OneContinuation, Server
  PROVE  TypeOK' /\ OneContinuation'
  <1> DEFINE W == Cardinality(Callers(readers))
             Q == Len(queue)
             Transfer == [st : {"none", "starting", "ready", "accepted", "drained", "lost",
                                "hung"},
                          mode : {"PASV", "PORT"}, cmd : Transfers]
  <1>1. /\ readers \in Seq(Readers) /\ queue \in Seq(Called)
        /\ W \in Nat /\ Q \in Nat /\ X \in 0..1 /\ Y \in 0..1
    BY CountIs DEF TypeOK, Called
  <1>2. NoTransfer \in Transfer
    BY DEF NoTransfer, Transfers
  <1>3. "completion" \in Answered /\ {226, 425, 451, 550} \subseteq Nat
    BY DEF Answered
  <1>4. ASSUME TypeOK', readers' = readers, queue' = queue, busy' = busy, x' = x, y' = y
        PROVE  OneContinuation'
    <2>1. X' = X /\ Y' = Y
      BY <1>4 DEF X, Y
    <2>2. W + Len(queue') + X' + Y' <= W + Q + X + Y
      BY <1>1, <1>4, <2>1
    <2> QED BY <1>4, <2>2, NoMore
  <1>5. ASSUME NEW i \in 1..Len(cmds), Serve(i)
        PROVE  TypeOK' /\ OneContinuation'
    <2>1. cmds' \in Seq(Commands) /\ cmds[i] \in Commands
      BY <1>5, WithoutIs, ElementOfSeq DEF Serve, TypeOK
    <2>2. CASE Accept(cmds[i]) /\ ~Hangs(cmds[i])
      <3>1. marks' \in Seq(Marks)
        BY <2>1, <2>2, ReplyKeeps, TablesTyped DEF Accept
      <3>2. srv' \in Transfer
        <4>1. cmds[i] \in Transfers \/ cmds[i] \in {"PASV", "PORT"} \/ srv' \in {srv, NoTransfer}
          BY <2>2 DEF Accept
        <4> QED BY <1>2, <2>2, <4>1 DEF Accept, TypeOK, Transfers
      <3>3. link' \in {"down", "up", "eof", "shut"}
            /\ wd' \in Dirs /\ listed' \in Dirs \cup {Unknown}
        BY <2>2 DEF Accept, TypeOK
      <3>4. TypeOK'
        BY <1>5, <2>1, <3>1, <3>2, <3>3 DEF Serve, TypeOK, window, Marks
      <3> QED BY <1>4, <1>5, <3>4 DEF Serve
    <2>3. CASE Refuse(cmds[i]) /\ ~Hangs(cmds[i])
      <3>1. marks' \in Seq(Marks)
        <4>1. cmds[i] \in Answered /\ Reply(550, cmds[i])
          BY <2>1, <2>3, TablesTyped DEF Refuse
        <4> QED BY <1>3, <4>1, ReplyKeeps
      <3>2. TypeOK'
        BY <1>5, <2>1, <2>3, <3>1 DEF Serve, Refuse, TypeOK, server, window, Marks
      <3> QED BY <1>4, <1>5, <3>2 DEF Serve
    <2>4. CASE Hangs(cmds[i])
      <3>1. srv' \in Transfer /\ UNCHANGED <<marks, link, wd, listed>>
        BY <1>5, <2>4 DEF Serve, TypeOK
      <3>2. TypeOK'
        BY <1>5, <2>1, <3>1 DEF Serve, TypeOK, window
      <3> QED BY <1>4, <1>5, <3>2 DEF Serve
    <2> QED BY <1>5, <2>2, <2>3, <2>4 DEF Serve
  <1>6. CASE ConnectBack
    <2>1. CASE y = "listening"
      <3>1. /\ queue' \in Seq(Called) /\ Len(queue') = Q + 1
            /\ y' = "open" /\ link' = "up" /\ UNCHANGED <<marks, srv>>
        BY <1>6, <2>1, QueuedIs DEF ConnectBack, Callbacks
      <3>2. TypeOK'
        BY <1>6, <3>1 DEF ConnectBack, TypeOK, window, Called
      <3>3. /\ Y = 1 /\ Y' = 0 /\ X' = X /\ readers' = readers /\ busy' = busy
        BY <1>6, <2>1, <3>1 DEF ConnectBack, X, Y
      <3>4. W + Len(queue') + X' + Y' <= W + Q + X + Y
        BY <1>1, <3>1, <3>3
      <3> QED BY <3>2, <3>3, <3>4, NoMore
    <2>2. CASE y # "listening"
      <3>1. /\ Reply(425, "completion") /\ srv' = NoTransfer
            /\ UNCHANGED <<y, queue, link>>
        BY <1>6, <2>2 DEF ConnectBack
      <3>2. marks' \in Seq(Marks)
        BY <1>3, <3>1, ReplyKeeps
      <3>3. TypeOK'
        BY <1>2, <1>6, <3>1, <3>2 DEF ConnectBack, TypeOK, window, Marks
      <3> QED BY <1>4, <1>6, <3>1, <3>3 DEF ConnectBack
    <2> QED BY <2>1, <2>2
  <1>7. CASE Drain
    <2>1. srv' \in Transfer
      BY <1>7 DEF Drain, TypeOK
    <2>2. TypeOK'
      BY <1>7, <2>1 DEF Drain, TypeOK, window
    <2> QED BY <1>4, <1>7, <2>2 DEF Drain
  <1>8. CASE Complete
    <2>1. PICK code \in {226, 451} : Reply(code, "completion")
      BY <1>8 DEF Complete
    <2>2. TypeOK'
      <3>1. marks' \in Seq(Marks)
        BY <1>3, <2>1, ReplyKeeps
      <3> QED BY <1>2, <1>8, <3>1 DEF Complete, TypeOK, window, Marks
    <2> QED BY <1>4, <1>8, <2>2 DEF Complete
  <1>9. CASE Forget
    <2>1. TypeOK'
      BY <1>9 DEF Forget, TypeOK, window
    <2> QED BY <1>4, <1>9, <2>1 DEF Forget
  <1>10. CASE CondWait
    <2>1. srv' \in Transfer
      BY <1>10 DEF CondWait, TypeOK
    <2>2. TypeOK'
      BY <1>10, <2>1 DEF CondWait, TypeOK, window
    <2> QED BY <1>4, <1>10, <2>2 DEF CondWait
  <1> QED BY <1>5, <1>6, <1>7, <1>8, <1>9, <1>10 DEF Server

LEMMA InitInv == Init => TypeOK /\ OneContinuation
  <1> SUFFICES ASSUME Init PROVE TypeOK /\ OneContinuation
    OBVIOUS
  <1>1. NoTransfer \in [st : {"none", "starting", "ready", "accepted", "drained", "lost",
                               "hung"},
                         mode : {"PASV", "PORT"}, cmd : Transfers]
    BY DEF NoTransfer, Transfers
  <1>2. TypeOK
    BY <1>1, EmptySeq, ClientAssumption DEF Init, TypeOK, Transfers
  <1>3. Callers(readers) = {} /\ Len(queue) = 0 /\ X = 0 /\ Y = 0
    BY DEF Init, Callers, X, Y
  <1>4. Continuations = 0
    BY <1>3, FS_EmptySet DEF Continuations, X, Y
  <1> QED BY <1>2, <1>4 DEF OneContinuation, Init

LEMMA InvKept == TypeOK /\ OneContinuation /\ [Next]_vars => (TypeOK /\ OneContinuation)'
  <1> SUFFICES ASSUME TypeOK, OneContinuation, [Next]_vars
               PROVE  TypeOK' /\ OneContinuation'
    OBVIOUS
  <1>1. CASE Next
    BY <1>1, UserKeeps, LoopKeeps, ThreadsKeep, ServerKeeps DEF Next
  <1>2. CASE UNCHANGED vars
    BY <1>2 DEF vars, TypeOK, OneContinuation, Continuations, Callers
  <1> QED BY <1>1, <1>2

-----------------------------------------------------------------------------
\* The event loop is never given a callback that is none, whatever replies are
\* lost, garbled or read by another reader (read_mark_thr).
THEOREM CallbacksTyped == Spec => []TypeOK
  BY InitInv, InvKept, PTL DEF Spec

\* One chain of callbacks runs at a time, and none with the window enabled, for
\* any number of readers and replies left over: what is static in main.c is that
\* chain's (main.c:84, 436, 489).
THEOREM OneChain == Spec => []OneContinuation
  BY InitInv, InvKept, PTL DEF Spec

-----------------------------------------------------------------------------
(***************************************************************************)
(* Where the client and the server are together                            *)
(***************************************************************************)
\* Who is to have the reply of what.
Paired(next, to) ==
  /\ next \notin {"connection_setup", "data_2", "list_3", "data_3"}
  /\ next = "NULL" => to \in Transfers \cup {"completion"}
  /\ to \in Transfers => next = "NULL"
  /\ to = "completion" => next \in {"NULL", "stor_3"}
  /\ next = "data_pasv_1" <=> to = "PASV"
  /\ next = "data_port_1" <=> to = "PORT"
  /\ to = "CWD" => next = "cwd_1"
  /\ to = "PWD" => next = "list_1"

\* There is one reader, and at most the command it awaits the reply of.
OneAtATime ==
  /\ Len(readers) <= 1 /\ Len(cmds) <= Len(readers)
  /\ Len(cmds) = 1 => readers[1].to = cmds[1] /\ Len(marks) = 0
  /\ Len(readers) = 1 => Paired(readers[1].next, readers[1].to)
  /\ Len(readers) = 1 /\ Len(queue) = 1 => queue[1].fn = "data_2"
  /\ x = "connecting" => Len(readers) = 0

\* The reply to the command, or the welcome, is the first mark there is; another,
\* which is the last, can only be the completion.
Own == Len(readers) = 1 /\ Len(cmds) = 0 /\ readers[1].to # "completion"
Greeted == Len(queue) = 1 /\ queue[1].fn = "connection_setup" /\ queue[1].code = 0
First == IF Own \/ Greeted THEN 1 ELSE 0
Reported == Len(marks) > First

MarksExpected ==
  /\ Len(marks) \in {First, First + 1}
  /\ Own => marks[1].of = readers[1].to
  /\ Greeted => marks[1].of = "welcome"
  /\ Reported => marks[First + 1].of = "completion"

\* A completion is due while data is moved, or a reader awaits it; the server has
\* the transfer, or has had it.  Otherwise there is none to come: a transfer that
\* was accepted has no data connection, and gets none.
Due == y # "none" \/ (Len(readers) = 1 /\ readers[1].to = "completion")
Offered ==
  \/ Own /\ <<readers[1].to, marks[1].code>> \in {<<"PASV", 227>>, <<"PORT", 200>>}
  \/ /\ Len(queue) = 1
     /\ <<queue[1].fn, queue[1].code>>
        \in {<<"data_pasv_1", 227>>, <<"data_port_1", 200>>}
Unconnected ==
  \/ y \in {"connecting", "binding", "listening"}
  \/ Len(queue) = 1 /\ queue[1].fn = "data_2" /\ queue[1].code # 0

DataStage ==
  /\ y = "open" <=> Len(queue) = 1 /\ queue[1].fn \in {"data_2", "list_3", "data_3"}
  /\ y # "none" /\ Len(readers) = 1 => readers[1].to = job
  /\ y = "gathering" \/ (Len(queue) = 1 /\ queue[1].fn = "list_3") => job = "LIST"
  /\ y \in {"receiving", "sending"} \/ (Len(queue) = 1 /\ queue[1].fn = "data_3") =>
       job # "LIST"
  /\ Len(cmds) = 1 /\ cmds[1] \in Transfers =>
       srv.st \in {"starting", "ready"} /\ cmds[1] = job
  /\ Due /\ Len(cmds) = 0 =>
       IF Reported THEN srv.st = "none" ELSE srv.st \in {"accepted", "drained"}
  /\ ~Due => ~Reported /\ srv.st # "drained" /\ (srv.st # "none" => link = "down")
  /\ Unconnected => link = "down" /\ srv.st \in {"starting", "ready", "accepted"}
  /\ Offered => srv.st \in {"starting", "ready"}
  /\ Sleeping => Offered \/ (Len(cmds) = 1 /\ cmds[1] \in Transfers)
  /\ srv.st \notin {"lost", "hung"}

\* A table that is not of the working directory is to be replaced.
Early == {"auth_1", "auth_2", "auth_3"}
Relisting ==
  \/ /\ Len(readers) = 1
     /\ \/ Own /\ readers[1].to = "CWD" /\ marks[1].code = 250
        \/ readers[1].to = "PWD"
        \/ readers[1].to \in {"PASV", "PORT"} /\ job = "LIST"
  \/ /\ Len(queue) = 1
     /\ \/ queue[1].fn = "cwd_1" /\ queue[1].code = 250
        \/ queue[1].fn = "list_1"
        \/ queue[1].fn \in {"data_pasv_1", "data_port_1"} /\ job = "LIST"
  \/ y # "none" /\ job = "LIST"

Table ==
  /\ connected => x # "connecting"
  /\ ~connected => /\ y = "none" /\ shown = Empty
                   /\ Len(readers) = 1 => readers[1].next \in Early
                   /\ Len(queue) = 1 => queue[1].fn \in Early \cup {"connection_setup"}
  /\ job = "LIST" /\ y # "none" /\ Len(cmds) = 0 => listed = wd
  /\ connected /\ ~unlisted /\ shown \notin {wd, Empty} => Relisting

Together == OneAtATime /\ MarksExpected /\ DataStage /\ Table

-----------------------------------------------------------------------------
(***************************************************************************)
(* Sequences of one or two, and what is left when nothing is going on      *)
(***************************************************************************)
\* The types, once more.
LEMMA SeqTypes ==
  ASSUME TypeOK
  PROVE  /\ readers \in Seq(Readers) /\ queue \in Seq(Called)
         /\ cmds \in Seq(Commands) /\ marks \in Seq(Marks)
         /\ Len(readers) \in Nat /\ Len(queue) \in Nat /\ Len(cmds) \in Nat
         /\ Len(marks) \in Nat
  BY LenProperties DEF TypeOK, Called, Marks

\* Nothing in it.
LEMMA LenZero ==
  ASSUME NEW S, NEW s \in Seq(S)
  PROVE  s = <<>> <=> Len(s) = 0
  BY EmptySeq

\* The first is put in.
LEMMA AppendOne ==
  ASSUME NEW S, NEW s \in Seq(S), Len(s) = 0, NEW e \in S
  PROVE  Len(Append(s, e)) = 1 /\ Append(s, e)[1] = e
  BY AppendProperties

\* And the second.
LEMMA AppendTwo ==
  ASSUME NEW S, NEW s \in Seq(S), Len(s) = 1, NEW e \in S
  PROVE  Len(Append(s, e)) = 2 /\ Append(s, e)[1] = s[1] /\ Append(s, e)[2] = e
  BY AppendProperties

\* The only one is taken.
LEMMA TailOne ==
  ASSUME NEW S, NEW s \in Seq(S), Len(s) = 1
  PROVE  Len(Tail(s)) = 0 /\ Head(s) = s[1]
  <1>1. s # <<>>
    BY LenZero
  <1> QED BY <1>1, HeadTailProperties

\* The first of two is taken.
LEMMA TailTwo ==
  ASSUME NEW S, NEW s \in Seq(S), Len(s) = 2
  PROVE  Len(Tail(s)) = 1 /\ Head(s) = s[1] /\ Tail(s)[1] = s[2]
  <1>1. s # <<>>
    BY LenZero
  <1> QED BY <1>1, HeadTailProperties

\* The only one is taken out.
LEMMA WithoutOne ==
  ASSUME NEW S, NEW s \in Seq(S), Len(s) = 1, NEW i \in 1..Len(s)
  PROVE  Len(Without(s, i)) = 0 /\ s[i] = s[1]
  <1>1. i = 1
    OBVIOUS
  <1>2. Len(Without(s, i)) = Len(s) - 1
    BY WithoutIs
  <1> QED BY <1>1, <1>2

\* One chain: whatever goes on with it, nothing else does.
Nobody == \A i \in 1..Len(readers) : readers[i].next = "NULL"

\* So whatever there is of it, there is nothing else of.
LEMMA Alone ==
  ASSUME TypeOK, OneContinuation
  PROVE  /\ Len(queue) \in {0, 1}
         /\ ~busy => Len(queue) = 0 /\ x # "connecting" /\ y \in {"none", "open"}
            /\ Nobody
         /\ Len(queue) = 1 => busy /\ x # "connecting" /\ y \in {"none", "open"} /\ Nobody
         /\ x = "connecting" => Len(queue) = 0 /\ y \in {"none", "open"} /\ Nobody
         /\ y \notin {"none", "open"} => busy /\ Len(queue) = 0 /\ x # "connecting"
            /\ Nobody
         /\ ~Nobody => busy /\ Len(queue) = 0 /\ x # "connecting"
            /\ y \in {"none", "open"}
  <1> DEFINE W == Cardinality(Callers(readers))
             Q == Len(queue)
  <1>1. /\ readers \in Seq(Readers) /\ queue \in Seq(Called) /\ busy \in BOOLEAN
    BY DEF TypeOK, Called
  <1>2. /\ W \in Nat /\ Q \in Nat /\ X \in 0..1 /\ Y \in 0..1
        /\ X = 0 <=> x # "connecting"
        /\ Y = 0 <=> y \in {"none", "open"}
    BY <1>1, CountIs
  <1>3. W + Q + X + Y <= 1 /\ (~busy => W + Q + X + Y = 0)
    BY <1>1, OneIs
  <1>4. W = 0 <=> Nobody
    <2>1. W = 0 <=> Callers(readers) = {}
      BY <1>1, CallersFinite, FS_EmptySet
    <2> QED BY <2>1 DEF Callers, Nobody
  <1> HIDE DEF W, Q
  <1>5. /\ Q \in {0, 1}
        /\ ~busy => Q = 0 /\ X = 0 /\ Y = 0 /\ W = 0
        /\ Q = 1 => X = 0 /\ Y = 0 /\ W = 0
        /\ X # 0 => Q = 0 /\ Y = 0 /\ W = 0
        /\ Y # 0 => Q = 0 /\ X = 0 /\ W = 0
        /\ W # 0 => Q = 0 /\ X = 0 /\ Y = 0
    BY <1>2, <1>3
  <1>6. Q = 1 => busy
    BY <1>1, <1>5
  <1>7. ~busy => Q = 0 /\ x # "connecting" /\ y \in {"none", "open"} /\ Nobody
    BY <1>2, <1>4, <1>5
  <1>8. Q = 1 => x # "connecting" /\ y \in {"none", "open"} /\ Nobody
    BY <1>2, <1>4, <1>5
  <1>9. x = "connecting" => Q = 0 /\ y \in {"none", "open"} /\ Nobody
    BY <1>2, <1>4, <1>5
  <1>10. y \notin {"none", "open"} => busy /\ Q = 0 /\ x # "connecting" /\ Nobody
    BY <1>1, <1>2, <1>4, <1>5
  <1>11. ~Nobody => busy /\ Q = 0 /\ x # "connecting" /\ y \in {"none", "open"}
    BY <1>1, <1>2, <1>4, <1>5
  <1> QED BY <1>5, <1>6, <1>7, <1>8, <1>9, <1>10, <1>11 DEF Q

\* With the window enabled and nothing to be read, nothing is going on.
Idle ==
  /\ Len(readers) = 0 /\ Len(cmds) = 0 /\ Len(marks) = 0 /\ y = "none"
  /\ srv.st # "drained" /\ (srv.st # "none" => link = "down")
  /\ srv.st \notin {"lost", "hung"} /\ (Sleeping => Offered)

\* Which is how the user finds it.
LEMMA AtRest ==
  ASSUME TypeOK, OneContinuation, Together, calm, MayAct
  PROVE  /\ Idle /\ Len(queue) = 0 /\ x # "connecting" /\ ~Relisting /\ ~Offered
  <1>1. Len(readers) = 0 /\ ~busy
    BY SeqTypes, LenZero DEF MayAct
  <1>2. Len(queue) = 0 /\ x # "connecting" /\ y \in {"none", "open"}
    BY <1>1, Alone
  <1>3. y = "none" /\ ~Due /\ ~Own /\ ~Greeted
    BY <1>1, <1>2 DEF Together, DataStage, Due, Own, Greeted
  <1>4. Len(cmds) = 0 /\ Len(marks) = 0
    BY <1>1, <1>3, SeqTypes
    DEF Together, OneAtATime, MarksExpected, DataStage, First, Reported
  <1>5. srv.st # "drained" /\ (srv.st # "none" => link = "down")
    BY <1>3 DEF Together, DataStage
  <1>6. srv.st \notin {"lost", "hung"} /\ (Sleeping => Offered)
    BY <1>4 DEF Together, DataStage
  <1>7. ~Offered
    BY <1>2, <1>3 DEF Offered
  <1> QED BY <1>1, <1>2, <1>3, <1>4, <1>5, <1>6, <1>7 DEF Idle, Relisting

\* The callback that is run is the only one.
Run(fn, code) ==
  /\ Len(queue) = 1 /\ queue[1].fn = fn /\ queue[1].code = code
  /\ Len(queue') = 0

\* So it is with the one the loop takes.
LEMMA RunIs ==
  ASSUME TypeOK, OneContinuation, queue # <<>>, queue' = Tail(queue)
  PROVE  Run(Head(queue).fn, Head(queue).code)
  <1>1. Len(queue) = 1
    BY Alone, SeqTypes, LenZero
  <1> QED BY <1>1, SeqTypes, TailOne DEF Run

\* Nor is anything going on when it is run, but for that.
LEMMA AtCallback ==
  ASSUME TypeOK, OneContinuation, Together, calm, NEW fn, NEW code, Run(fn, code),
         fn \notin {"data_2", "list_3", "data_3"},
         fn = "connection_setup" => code # 0
  PROVE  /\ Idle /\ x # "connecting" /\ busy
         /\ Offered => fn \in {"data_pasv_1", "data_port_1"}
  <1>1. Len(queue) = 1 /\ x # "connecting" /\ y \in {"none", "open"} /\ busy
    BY Alone DEF Run
  <1>2. y = "none" /\ Len(readers) = 0
    BY <1>1, SeqTypes DEF Together, DataStage, OneAtATime, Run
  <1>3. ~Due /\ ~Own /\ ~Greeted
    BY <1>2 DEF Due, Own, Greeted, Run
  <1>4. Len(cmds) = 0 /\ Len(marks) = 0
    BY <1>2, <1>3, SeqTypes
    DEF Together, OneAtATime, MarksExpected, DataStage, First, Reported
  <1>5. srv.st # "drained" /\ (srv.st # "none" => link = "down")
    BY <1>3 DEF Together, DataStage
  <1>6. srv.st \notin {"lost", "hung"} /\ (Sleeping => Offered)
    BY <1>4 DEF Together, DataStage
  <1>7. Offered => fn \in {"data_pasv_1", "data_port_1"}
    BY <1>3 DEF Offered, Run
  <1> QED BY <1>1, <1>2, <1>4, <1>5, <1>6, <1>7 DEF Idle

-----------------------------------------------------------------------------
(***************************************************************************)
(* What the user asks for                                                  *)
(***************************************************************************)
\* A command is sent when nothing is going on.
LEMMA SendIs ==
  ASSUME TypeOK, Len(readers) = 0, Len(cmds) = 0,
         NEW cmd \in Commands, NEW next \in Callbacks \cup {"NULL"}, Send(cmd, next)
  PROVE  /\ Len(readers') = 1 /\ readers'[1].next = next /\ readers'[1].to = cmd
         /\ Len(cmds') = 1 /\ cmds'[1] = cmd
  <1> DEFINE r == [next |-> next, to |-> cmd]
  <1>1. r \in Readers /\ r.next = next /\ r.to = cmd
    BY TablesTyped DEF Readers
  <1>2. readers' = Append(readers, r) /\ cmds' = Append(cmds, cmd)
    BY DEF Send
  <1> HIDE DEF r
  <1> QED BY <1>1, <1>2, SeqTypes, AppendOne

\* What is asked for is what the reader awaits, and nothing else is.
LEMMA SendKeepsPace ==
  ASSUME TypeOK, Idle, ~Offered, NEW cmd \in Commands \ Transfers, NEW next \in Callbacks,
         Paired(next, cmd), Send(cmd, next),
         Len(queue') = 0, x' # "connecting", UNCHANGED <<y, marks, srv, link>>
  PROVE  OneAtATime' /\ MarksExpected' /\ DataStage'
  <1>1. /\ Len(readers') = 1 /\ readers'[1].next = next /\ readers'[1].to = cmd
        /\ Len(cmds') = 1 /\ cmds'[1] = cmd
    BY SendIs DEF Idle
  <1>2. Len(marks') = 0 /\ y' = "none" /\ cmd # "completion"
    BY DEF Idle, Commands, Accepts
  <1>3. OneAtATime'
    BY <1>1, <1>2 DEF OneAtATime, Paired
  <1>4. ~Own' /\ ~Greeted' /\ First' = 0 /\ ~Reported' /\ ~Due' /\ ~Offered'
        /\ ~Unconnected'
    BY <1>1, <1>2 DEF Own, Greeted, First, Reported, Due, Offered, Unconnected
  <1>5. MarksExpected'
    BY <1>2, <1>4 DEF MarksExpected
  <1>6. DataStage'
    BY <1>1, <1>2, <1>4 DEF DataStage, Idle, Sleeping
  <1> QED BY <1>3, <1>5, <1>6

\* The chain ends.
LEMMA EndKeepsPace ==
  ASSUME TypeOK, Idle, ~Offered, Len(queue') = 0,
         UNCHANGED <<readers, cmds, y, marks, srv, link>>
  PROVE  OneAtATime' /\ MarksExpected' /\ DataStage' /\ Idle'
  <1>1. Len(marks') = 0 /\ y' = "none" /\ Len(readers') = 0 /\ Len(cmds') = 0
    BY DEF Idle
  <1>2. OneAtATime'
    BY <1>1 DEF OneAtATime
  <1>3. ~Own' /\ ~Greeted' /\ First' = 0 /\ ~Reported' /\ ~Due' /\ ~Offered'
        /\ ~Unconnected'
    BY <1>1 DEF Own, Greeted, First, Reported, Due, Offered, Unconnected
  <1>4. MarksExpected'
    BY <1>1, <1>3 DEF MarksExpected
  <1>5. DataStage'
    BY <1>1, <1>3 DEF DataStage, Idle, Sleeping
  <1>6. Idle'
    BY DEF Idle, Sleeping
  <1> QED BY <1>2, <1>4, <1>5, <1>6

\* do_data: the one or the other.
LEMMA DoDataKeepsPace ==
  ASSUME TypeOK, Idle, ~Offered, NEW cmd, DoData(cmd), Len(queue') = 0, x' # "connecting",
         UNCHANGED <<y, marks, srv, link>>
  PROVE  /\ OneAtATime' /\ MarksExpected' /\ DataStage'
         /\ busy' => Len(readers') = 1 /\ readers'[1].to \in {"PASV", "PORT"}
  <1>1. ASSUME NEW asked \in {"PASV", "PORT"}, NEW next
        \in {"data_pasv_1", "data_port_1"},
               Paired(next, asked), Send(asked, next)
        PROVE  /\ OneAtATime' /\ MarksExpected' /\ DataStage'
               /\ Len(readers') = 1 /\ readers'[1].to \in {"PASV", "PORT"}
    <2>1. asked \in Commands \ Transfers /\ next \in Callbacks
      BY TablesTyped DEF Transfers, Callbacks
    <2> QED BY <1>1, <2>1, SendKeepsPace, SendIs DEF Idle
  <1>2. Paired("data_pasv_1", "PASV") /\ Paired("data_port_1", "PORT")
    BY DEF Paired, Transfers
  <1>3. CASE Send("PASV", "data_pasv_1")
    BY <1>1, <1>2, <1>3
  <1>4. CASE Send("PORT", "data_port_1")
    BY <1>1, <1>2, <1>4
  <1>5. CASE busy' = FALSE /\ UNCHANGED <<cmds, readers>>
    BY <1>5, EndKeepsPace
  <1> QED BY <1>3, <1>4, <1>5 DEF DoData

\* The table is as good as it was.
LEMMA TableStays ==
  ASSUME Table, connected, ~Relisting, x' # "connecting", y' = "none",
         UNCHANGED <<connected, wd, shown>>, unlisted => unlisted'
  PROVE  Table'
  BY DEF Table

\* A click begins a chain where there is nothing left of another.
LEMMA UserTogether ==
  ASSUME TypeOK, OneContinuation, Together, calm, User
  PROVE  Together'
  <1>1. MayAct /\ Len(queue') = 0 /\ UNCHANGED <<queue, y, marks, srv, link, connected,
                                                 wd, shown, unlisted>>
    <2>1. CASE ClickConnect
      BY <2>1, AtRest DEF ClickConnect, server, window
    <2>2. ASSUME NEW cmd \in DOMAIN Asks, Ask(cmd)
          PROVE  MayAct /\ UNCHANGED <<queue, y, marks, srv, link, connected, wd, shown,
                                       unlisted>>
      BY <2>2 DEF Ask, server, window
    <2>3. ASSUME NEW cmd \in {"RETR", "STOR"}, AskTransfer(cmd)
          PROVE  MayAct /\ UNCHANGED <<queue, y, marks, srv, link, connected, wd, shown,
                                       unlisted>>
      BY <2>3 DEF AskTransfer, server, window
    <2> QED BY <2>1, <2>2, <2>3, AtRest DEF User
  <1>2. Idle /\ x # "connecting" /\ ~Relisting /\ Table /\ ~Offered
    BY <1>1, AtRest DEF Together
  <1>3. CASE ClickConnect
    <2>1. OneAtATime' /\ MarksExpected' /\ DataStage' /\ Idle'
      BY <1>1, <1>2, <1>3, EndKeepsPace DEF ClickConnect
    <2>2. Table'
      BY <1>1, <1>2, <1>3, <2>1 DEF ClickConnect, Table, Idle
    <2> QED BY <2>1, <2>2 DEF Together
  <1>4. ASSUME NEW cmd \in DOMAIN Asks, Ask(cmd)
        PROVE  Together'
    <2>1. x' = x /\ connected /\ Send(cmd, Asks[cmd])
      BY <1>4 DEF Ask
    <2>2. /\ cmd \in Commands \ Transfers /\ Asks[cmd] \in Callbacks
          /\ Paired(Asks[cmd], cmd)
      BY TablesTyped DEF Asks, Transfers, Paired
    <2>3. OneAtATime' /\ MarksExpected' /\ DataStage'
      BY <1>1, <1>2, <2>1, <2>2, SendKeepsPace
    <2>4. Table'
      BY <1>1, <1>2, <2>1, TableStays DEF Idle
    <2> QED BY <2>3, <2>4 DEF Together
  <1>5. ASSUME NEW cmd \in {"RETR", "STOR"}, AskTransfer(cmd)
        PROVE  Together'
    <2>1. x' = x /\ connected /\ DoData(cmd)
      BY <1>5 DEF AskTransfer
    <2>2. OneAtATime' /\ MarksExpected' /\ DataStage'
      BY <1>1, <1>2, <2>1, DoDataKeepsPace
    <2>3. Table'
      BY <1>1, <1>2, <2>1, TableStays DEF Idle
    <2> QED BY <2>2, <2>3 DEF Together
  <1> QED BY <1>3, <1>4, <1>5 DEF User

-----------------------------------------------------------------------------
(***************************************************************************)
(* The callbacks                                                           *)
(***************************************************************************)
LEMMA OneOrNone ==
  ASSUME NEW n \in Nat, n <= 1
  PROVE  n \in {0, 1}
  OBVIOUS

\* And of these, one.
LEMMA NotTwo ==
  ASSUME NEW n \in {1, 2}, ~(n > 1)
  PROVE  n = 1
  OBVIOUS

\* What the state can be while there is a reader, a command, or a callback.
LEMMA StageIs ==
  ASSUME TypeOK, OneContinuation, Together
  PROVE  /\ Len(readers) \in {0, 1} /\ Len(cmds) \in {0, 1} /\ Len(cmds) <= Len(readers)
         /\ Len(queue) \in {0, 1}
         /\ Len(readers) = 1 => readers[1].to \in Answered
         /\ Len(cmds) = 1 => cmds[1] \in Commands /\ cmds[1] = readers[1].to
         /\ Len(readers) = 1 /\ y # "none" => readers[1].to \in Transfers
         /\ Len(readers) = 1 /\ Len(queue) = 1 =>
              queue[1].fn = "data_2" /\ y = "open" /\ readers[1].to \in Transfers
         /\ {"welcome", "completion"} \cap Commands = {}
         /\ Greeted => Len(readers) = 0
  <1>1. /\ Len(readers) \in {0, 1} /\ Len(cmds) \in {0, 1} /\ Len(cmds) <= Len(readers)
    <2>1. Len(readers) \in Nat /\ Len(cmds) \in Nat
      BY SeqTypes
    <2>2. Len(readers) <= 1 /\ Len(cmds) <= Len(readers)
      BY DEF Together, OneAtATime
    <2>3. Len(cmds) <= 1
      BY <2>1, <2>2
    <2> QED BY <2>1, <2>2, <2>3, OneOrNone
  <1>2. Len(queue) \in {0, 1}
    BY Alone
  <1>3. Len(readers) = 1 => readers[1].to \in Answered
    <2>1. ASSUME Len(readers) = 1 PROVE readers[1] \in Readers
      <3>1. readers \in Seq(Readers) /\ 1 \in 1..Len(readers)
        BY <2>1, SeqTypes
      <3> QED BY <3>1, ElementOfSeq
    <2> QED BY <2>1 DEF Readers
  <1>4. ASSUME Len(cmds) = 1 PROVE cmds[1] \in Commands /\ cmds[1] = readers[1].to
    <2>1. cmds \in Seq(Commands) /\ 1 \in 1..Len(cmds)
      BY <1>4, SeqTypes
    <2>2. cmds[1] \in Commands
      BY <2>1, ElementOfSeq
    <2> QED BY <1>4, <2>2 DEF Together, OneAtATime
  <1>5. Len(readers) = 1 /\ y # "none" => readers[1].to \in Transfers
    BY DEF Together, DataStage, TypeOK
  <1>6. Len(readers) = 1 /\ Len(queue) = 1 => queue[1].fn = "data_2" /\ y = "open"
    BY DEF Together, DataStage, OneAtATime
  <1>7. {"welcome", "completion"} \cap Commands = {}
    BY DEF Commands, Accepts
  <1>8. Greeted => Len(readers) = 0
    BY <1>1, <1>6 DEF Greeted
  <1> QED BY <1>1, <1>2, <1>3, <1>4, <1>5, <1>6, <1>7, <1>8

\* A callback goes on, or gives up.
LEMMA GoOnTogether ==
  ASSUME TypeOK, OneContinuation, Together, calm, NEW fn, NEW code, Run(fn, code),
         GoOn(fn, code), unlisted => unlisted'
  PROVE  Together'
  <1>1. fn \notin {"data_2", "list_3", "data_3", "connection_setup", "list_1",
                   "data_pasv_1", "data_port_1"}
    BY DEF GoOn, Expects
  <1>2. /\ Idle /\ ~Offered /\ x # "connecting" /\ Len(queue) = 1
        /\ queue[1].fn = fn /\ queue[1].code = code /\ Len(queue') = 0
    BY <1>1, AtCallback DEF Run
  <1>3. UNCHANGED <<x, y, marks, srv, link, wd, shown>> /\ (connected => connected')
    BY DEF GoOn, server
  <1>4. Relisting => fn = "cwd_1" /\ code = 250
    BY <1>1, <1>2 DEF Relisting, Idle
  <1>5. Table /\ y = "none" /\ (~connected => fn \in Early /\ shown = Empty)
    BY <1>1, <1>2 DEF Together, Table, Idle
  <1>6. CASE code = Expects[fn]
    <2> DEFINE cmd == Then[fn][1]
               next == Then[fn][2]
    <2>1. Send(cmd, next) /\ fn \in DOMAIN Expects
          /\ connected' = (connected \/ (fn = "auth_3" /\ code = 230))
      BY <1>6 DEF GoOn
    <2>2. cmd \in Commands /\ next \in Callbacks
      BY <2>1, TablesTyped
    <2>3. /\ cmd \notin Transfers /\ Paired(next, cmd)
          /\ fn = "cwd_1" => cmd = "PWD"
          /\ fn \in {"auth_1", "auth_2"} => next \in Early
          /\ fn = "auth_3" => Expects[fn] = 230
      BY <2>1 DEF Then, Expects, Transfers, Paired, Early, List
    <2> HIDE DEF cmd, next
    <2>4. /\ OneAtATime' /\ MarksExpected' /\ DataStage'
          /\ Len(readers') = 1 /\ readers'[1].next = next /\ readers'[1].to = cmd
      BY <1>2, <1>3, <2>1, <2>2, <2>3, SendKeepsPace, SendIs DEF Idle
    <2>5. ~connected' => ~connected /\ next \in Early
      BY <1>5, <1>6, <2>1, <2>3 DEF Early
    <2>6. fn = "cwd_1" => Relisting'
      BY <2>3, <2>4 DEF Relisting
    <2>7. Table'
      BY <1>2, <1>3, <1>4, <1>5, <2>4, <2>5, <2>6 DEF Table
    <2> QED BY <2>4, <2>7 DEF Together
  <1>7. CASE code # Expects[fn]
    <2>1. UNCHANGED <<cmds, readers>>
      BY <1>7 DEF GoOn
    <2>2. OneAtATime' /\ MarksExpected' /\ DataStage' /\ Idle'
      BY <1>2, <1>3, <2>1, EndKeepsPace
    <2>3. ~Relisting
      BY <1>4, <1>7 DEF Expects, CwdDone
    <2>4. connected' = connected
      <3>1. ~(fn = "auth_3" /\ code = 230)
        BY <1>7 DEF Expects
      <3> QED BY <3>1 DEF GoOn, TypeOK
    <2>5. Table'
      BY <1>2, <1>3, <1>5, <2>2, <2>3, <2>4 DEF Table, Idle
    <2> QED BY <2>2, <2>5 DEF Together
  <1> QED BY <1>6, <1>7

\* The connection is made: the welcome is to be read; or there is none.
LEMMA SetupTogether ==
  ASSUME TypeOK, OneContinuation, Together, calm, NEW fn, NEW code, Run(fn, code),
         ConnectionSetup(fn, code), unlisted => unlisted'
  PROVE  Together'
  <1>1. /\ fn = "connection_setup"
        /\ UNCHANGED <<connected, x, y, cmds, marks, srv, link, wd, shown>>
    BY DEF ConnectionSetup, server
  <1>2. /\ Len(queue) = 1 /\ queue[1].fn = fn /\ queue[1].code = code /\ Len(queue') = 0
        /\ x # "connecting" /\ y \in {"none", "open"}
    BY Alone DEF Run
  <1>3. y = "none" /\ Len(readers) = 0 /\ Len(cmds) = 0
    BY <1>1, <1>2, StageIs DEF Together, DataStage
  <1>4. ~Relisting /\ Table /\ ~Due
    BY <1>1, <1>2, <1>3 DEF Relisting, Together, Due
  <1>5. CASE code = 0
    <2> DEFINE r == [next |-> "auth_1", to |-> "welcome"]
    <2>1. r \in Readers /\ r.next = "auth_1" /\ r.to = "welcome"
      BY DEF Readers, Callbacks, Answered, Expects
    <2>2. readers' = Append(readers, r)
      BY <1>5 DEF ConnectionSetup
    <2> HIDE DEF r
    <2>3. Len(readers') = 1 /\ readers'[1].next = "auth_1" /\ readers'[1].to = "welcome"
      BY <1>3, <2>1, <2>2, SeqTypes, AppendOne
    <2>4. Greeted /\ First = 1
      BY <1>1, <1>2, <1>5 DEF Greeted, First
    <2>5. ~Reported /\ Len(marks) \in {1, 2} /\ marks[1].of = "welcome"
      BY <1>4, <2>4 DEF Together, DataStage, MarksExpected
    <2>6. Len(marks) = 1
      BY <2>4, <2>5, NotTwo DEF Reported
    <2>7. Own' /\ ~Greeted' /\ First' = 1 /\ ~Reported' /\ ~Due' /\ ~Offered'
      BY <1>1, <1>2, <1>3, <2>3, <2>5, <2>6
      DEF Own, Greeted, First, Reported, Due, Offered
    <2>8. OneAtATime'
      BY <1>1, <1>2, <1>3, <2>3 DEF OneAtATime, Paired, Transfers
    <2>9. MarksExpected'
      BY <1>1, <2>3, <2>5, <2>6, <2>7 DEF MarksExpected
    <2>10. DataStage'
      <3>1. srv.st # "drained" /\ (srv.st # "none" => link = "down")
        BY <1>4 DEF Together, DataStage
      <3>2. y' = "none" /\ Len(cmds') = 0
        BY <1>1, <1>3
      <3>3. ~Offered
        BY <1>1, <1>2, <1>3 DEF Offered, Own
      <3>4. srv.st \notin {"lost", "hung"} /\ ~Sleeping
        BY <1>3, <3>3 DEF Together, DataStage
      <3> QED
        BY <1>1, <1>2, <2>7, <3>1, <3>2, <3>4 DEF DataStage, Unconnected, Sleeping
    <2>11. Table'
      BY <1>1, <1>2, <1>3, <1>4, <2>3 DEF Table, Early
    <2> QED BY <2>8, <2>9, <2>10, <2>11 DEF Together
  <1>6. CASE code # 0
    <2>1. Idle /\ ~Offered
      BY <1>1, <1>6, AtCallback
    <2>2. OneAtATime' /\ MarksExpected' /\ DataStage' /\ Idle'
      BY <1>1, <1>2, <1>6, <2>1, EndKeepsPace DEF ConnectionSetup
    <2>3. Table'
      BY <1>1, <1>2, <1>4, <2>2 DEF Table, Idle
    <2> QED BY <2>2, <2>3 DEF Together
  <1> QED BY <1>5, <1>6

\* list_1: the table is on its way, or the listing has failed.
LEMMA List1Together ==
  ASSUME TypeOK, OneContinuation, Together, calm, NEW fn, NEW code, Run(fn, code),
         List1(fn, code), unlisted \/ ~busy' => unlisted'
  PROVE  Together'
  <1>1. fn = "list_1" /\ UNCHANGED <<connected, x, y, marks, srv, link, wd, shown>>
    BY DEF List1, server
  <1>2. /\ Idle /\ ~Offered /\ x # "connecting" /\ Len(queue) = 1
        /\ queue[1].fn = fn /\ Len(queue') = 0
    BY <1>1, AtCallback DEF Run
  <1>3. connected
    BY <1>1, <1>2 DEF Together, Table, Early
  <1>4. CASE code = 257
    <2>1. DoData("LIST") /\ job' = "LIST"
      BY <1>4 DEF List1, DoData
    <2>2. /\ OneAtATime' /\ MarksExpected' /\ DataStage'
          /\ busy' => Len(readers') = 1 /\ readers'[1].to \in {"PASV", "PORT"}
      BY <1>1, <1>2, <2>1, DoDataKeepsPace
    <2>3. busy' => Relisting'
      BY <2>1, <2>2 DEF Relisting
    <2>4. Table'
      BY <1>1, <1>2, <1>3, <2>3 DEF Table, Idle
    <2> QED BY <2>2, <2>4 DEF Together
  <1>5. CASE code # 257
    <2>1. ~busy' /\ UNCHANGED <<cmds, readers>>
      BY <1>5 DEF List1
    <2>2. OneAtATime' /\ MarksExpected' /\ DataStage'
      BY <1>1, <1>2, <2>1, EndKeepsPace
    <2>3. Table'
      BY <1>1, <1>2, <1>3, <2>1 DEF Table, Idle
    <2> QED BY <2>2, <2>3 DEF Together
  <1> QED BY <1>4, <1>5

\* data_pasv_1 and data_port_1: the command goes out, with or without a connection.
LEMMA Data1Together ==
  ASSUME TypeOK, OneContinuation, Together, calm, NEW fn, NEW code, Run(fn, code),
         Data1(fn, code), unlisted \/ (job = "LIST" /\ ~busy') => unlisted'
  PROVE  Together'
  <1>1. /\ fn \in {"data_pasv_1", "data_port_1"}
        /\ UNCHANGED <<connected, x, job, marks, srv, link, wd, shown>>
    BY DEF Data1, server
  <1>2. /\ Idle /\ x # "connecting" /\ busy /\ Len(queue) = 1
        /\ queue[1].fn = fn /\ queue[1].code = code /\ Len(queue') = 0
    BY <1>1, AtCallback DEF Run
  <1>3. connected /\ Table
    BY <1>1, <1>2 DEF Together, Table, Early
  <1>4. Relisting => job = "LIST"
    BY <1>1, <1>2 DEF Relisting, Idle
  <1>5. job \in Transfers
    BY DEF TypeOK
  <1>6. CASE code = (IF fn = "data_pasv_1" THEN 227 ELSE 200)
    <2>1. Offered
      BY <1>1, <1>2, <1>6 DEF Offered
    <2>2. srv.st \in {"starting", "ready"} /\ link = "down"
      BY <1>2, <2>1 DEF Together, DataStage, Idle
    <2>3. Send(job, "NULL") /\ (y' \in {"connecting", "binding"} \/ (~busy'
          /\ y' = "none"))
      BY <1>2, <1>6 DEF Data1, AcceptanceNext, Idle
    <2>4. /\ Len(readers') = 1 /\ readers'[1].next = "NULL" /\ readers'[1].to = job
          /\ Len(cmds') = 1 /\ cmds'[1] = job
      BY <1>2, <1>5, <2>3, SendIs, TablesTyped DEF Idle
    <2>5. Len(marks') = 0 /\ job # "completion"
      BY <1>1, <1>2, <1>5 DEF Idle, Transfers
    <2>6. OneAtATime'
      BY <1>1, <1>2, <1>5, <2>4, <2>5 DEF OneAtATime, Paired, Transfers
    <2>7. /\ ~Own' /\ ~Greeted' /\ First' = 0 /\ ~Reported' /\ ~Offered'
          /\ Due' => y' # "none"
      BY <1>2, <2>4, <2>5 DEF Own, Greeted, First, Reported, Offered, Due
    <2>8. MarksExpected'
      BY <2>5, <2>7 DEF MarksExpected
    <2>9. DataStage'
      <3>1. y' \in {"connecting", "binding", "none"}
        BY <2>3
      <3>2. srv'.st \in {"starting", "ready"} /\ link' = "down" /\ job' = job
        BY <1>1, <2>2
      <3> QED BY <1>2, <1>5, <2>4, <2>7, <3>1, <3>2 DEF DataStage
    <2>10. job = "LIST" => unlisted' \/ Relisting'
      BY <1>1, <2>3 DEF Relisting
    <2>11. Table'
      BY <1>1, <1>2, <1>3, <1>4, <2>4, <2>10 DEF Table
    <2> QED BY <2>6, <2>8, <2>9, <2>11 DEF Together
  <1>7. CASE code # (IF fn = "data_pasv_1" THEN 227 ELSE 200)
    <2>1. ~busy' /\ UNCHANGED <<y, cmds, readers>> /\ ~Offered
      BY <1>2, <1>7 DEF Data1, Offered, Own, Idle
    <2>2. OneAtATime' /\ MarksExpected' /\ DataStage'
      BY <1>1, <1>2, <2>1, EndKeepsPace
    <2>3. Table'
      BY <1>1, <1>2, <1>3, <1>4, <2>1 DEF Table, Idle
    <2> QED BY <2>2, <2>3 DEF Together
  <1> QED BY <1>6, <1>7

\* With a data connection in hand no reply but the command's own, and the
\* completion, is to come.
LEMMA Connected ==
  ASSUME TypeOK, OneContinuation, Together, y # "none"
  PROVE  /\ connected /\ Due /\ ~Offered
         /\ Len(readers) \in {0, 1} /\ Len(cmds) \in {0, 1} /\ Len(cmds) <= Len(readers)
         /\ Len(readers) = 1 => readers[1].to = job
         /\ job \in Transfers /\ job \notin {"completion", "PASV", "PORT", "CWD", "PWD"}
         /\ Len(queue) = 1 => queue[1].fn \in {"data_2", "list_3", "data_3"}
         /\ ~Greeted
         /\ Relisting => job = "LIST"
  <1>1. connected /\ Due
    BY DEF Together, Table, Due
  <1>2. job \in Transfers /\ job \notin {"completion", "PASV", "PORT", "CWD", "PWD"}
    BY DEF TypeOK, Transfers
  <1>3. Len(readers) = 1 => readers[1].to = job
    BY DEF Together, DataStage
  <1>4. Len(queue) = 1 => queue[1].fn \in {"data_2", "list_3", "data_3"}
    <2>1. Len(queue) = 1 => y \in {"none", "open"}
      BY Alone
    <2> QED BY <2>1 DEF Together, DataStage
  <1>5. ~Greeted
    BY <1>4 DEF Greeted
  <1>6. ~Offered
    BY <1>2, <1>3, <1>4 DEF Offered, Own
  <1>7. Relisting => job = "LIST"
    BY <1>2, <1>3, <1>4 DEF Relisting
  <1> QED BY <1>1, <1>2, <1>3, <1>4, <1>5, <1>6, <1>7, StageIs

\* data_2: the data is moved, or the transfer is given up at our end only.
LEMMA Data2Together ==
  ASSUME TypeOK, OneContinuation, Together, calm, NEW fn, NEW code, Run(fn, code),
         Data2(fn, code), unlisted \/ (job = "LIST" /\ ~busy') => unlisted'
  PROVE  Together'
  <1>1. /\ fn = "data_2"
        /\ UNCHANGED <<connected, x, job, readers, cmds, marks, srv, link, wd, listed,
                       shown>>
    BY DEF Data2, server
  <1>2. /\ Len(queue) = 1 /\ queue[1].fn = fn /\ queue[1].code = code /\ Len(queue') = 0
        /\ x # "connecting" /\ y = "open"
    BY <1>1, Alone DEF Run, Together, DataStage
  <1>3. /\ connected /\ Due /\ ~Greeted /\ ~Offered
        /\ Len(readers) \in {0, 1} /\ Len(cmds) \in {0, 1} /\ Len(cmds) <= Len(readers)
        /\ Len(readers) = 1 => readers[1].to = job
        /\ job \in Transfers /\ job \notin {"completion", "PASV", "PORT", "CWD", "PWD"}
        /\ Relisting => job = "LIST"
    BY <1>2, Connected
  <1>4. OneAtATime'
    BY <1>1, <1>2 DEF OneAtATime, Together
  <1>5. /\ Own' = Own /\ ~Greeted' /\ First' = First /\ Reported' = Reported
    <2>1. Own' = Own /\ ~Greeted'
      BY <1>1, <1>2 DEF Own, Greeted
    <2>2. First' = First
      BY <1>3, <2>1 DEF First
    <2> QED BY <1>1, <2>1, <2>2 DEF Reported
  <1>6. MarksExpected'
    BY <1>1, <1>3, <1>5 DEF MarksExpected, Together
  <1>7. Table
    BY DEF Together
  <1>8. CASE code = 0
    <2>1. /\ y' \in {"gathering", "receiving", "sending"}
          /\ y' = "gathering" <=> job = "LIST"
      BY <1>3, <1>8 DEF Data2, Transfers
    <2>2. Due' /\ ~Offered' /\ ~Unconnected'
      BY <1>1, <1>2, <1>3, <2>1 DEF Due, Own, Offered, Unconnected
    <2>3. DataStage'
      BY <1>1, <1>2, <1>3, <1>5, <2>1, <2>2 DEF DataStage, Together, Sleeping
    <2>4. Relisting => Relisting'
      BY <1>1, <1>3, <2>1 DEF Relisting
    <2>5. Table'
      BY <1>1, <1>2, <1>3, <1>7, <2>1, <2>4 DEF Table
    <2> QED BY <1>4, <1>6, <2>3, <2>5 DEF Together
  <1>9. CASE code # 0
    <2>1. y' = "none" /\ ~busy'
      BY <1>9 DEF Data2
    <2>2. Unconnected
      BY <1>1, <1>2, <1>9 DEF Unconnected
    <2>3. link = "down" /\ srv.st \in {"starting", "ready", "accepted"}
      BY <2>2 DEF Together, DataStage
    <2>4. ~Due' /\ ~Offered' /\ ~Unconnected'
      BY <1>1, <1>2, <1>3, <2>1 DEF Due, Own, Offered, Unconnected
    <2>5. ~Reported
      <3>1. CASE Len(cmds) = 0
        BY <1>3, <2>3, <3>1 DEF Together, DataStage
      <3>2. CASE Len(cmds) = 1
        <4>1. Len(marks) = 0 /\ First = 0
          BY <1>3, <3>2 DEF Together, OneAtATime, First, Own
        <4> QED BY <4>1 DEF Reported
      <3> QED BY <1>3, <3>1, <3>2
    <2>6. DataStage'
      BY <1>1, <1>2, <1>3, <1>5, <2>1, <2>3, <2>4, <2>5
      DEF DataStage, Together, Sleeping
    <2>7. Table'
      BY <1>1, <1>2, <1>3, <1>7, <2>1 DEF Table
    <2> QED BY <1>4, <1>6, <2>6, <2>7 DEF Together
  <1> QED BY <1>8, <1>9

\* The data has moved: its callback is told, and a reader awaits the completion.
LEMMA MovedTogether ==
  ASSUME TypeOK, OneContinuation, Together, calm, NEW fn, NEW code, Run(fn, code),
         fn \in {"list_3", "data_3"}, NEW next \in {"NULL", "stor_3"},
         readers' = Append(readers, [next |-> next, to |-> "completion"]), y' = "none",
         fn = "list_3" => shown' = listed,
         fn = "data_3" => job # "LIST" /\ shown' = shown /\ (unlisted => unlisted'),
         UNCHANGED <<connected, x, job, cmds, marks, srv, wd>>
  PROVE  Together'
  <1>1. /\ Len(queue) = 1 /\ queue[1].fn = fn /\ Len(queue') = 0
        /\ x # "connecting" /\ y = "open"
    BY Alone DEF Run, Together, DataStage
  <1>2. /\ connected /\ Due /\ ~Greeted /\ ~Offered
        /\ Len(readers) \in {0, 1} /\ Len(cmds) \in {0, 1} /\ Len(cmds) <= Len(readers)
        /\ Relisting => job = "LIST"
    BY <1>1, Connected
  <1>3. Len(readers) = 0 /\ Len(cmds) = 0
    BY <1>1, <1>2, StageIs
  <1>4. Len(readers') = 1 /\ readers'[1].next = next /\ readers'[1].to = "completion"
    <2> DEFINE r == [next |-> next, to |-> "completion"]
    <2>1. r \in Readers /\ r.next = next /\ r.to = "completion"
      BY DEF Readers, Answered, Callbacks, Expects
    <2>2. readers' = Append(readers, r)
      OBVIOUS
    <2> HIDE DEF r
    <2> QED BY <1>3, <2>1, <2>2, SeqTypes, AppendOne
  <1>5. OneAtATime'
    BY <1>1, <1>3, <1>4 DEF OneAtATime, Paired, Transfers
  <1>6. First = 0 /\ First' = 0 /\ ~Own' /\ ~Greeted'
    BY <1>1, <1>2, <1>3, <1>4 DEF Own, Greeted, First
  <1>7. Reported' = Reported /\ Due' /\ ~Offered' /\ ~Unconnected'
    BY <1>1, <1>4, <1>6 DEF Reported, Due, Offered, Unconnected
  <1>8. MarksExpected'
    BY <1>6, <1>7 DEF MarksExpected, Together
  <1>9. DataStage'
    BY <1>1, <1>2, <1>3, <1>4, <1>7 DEF DataStage, Together, Sleeping
  <1>10. fn = "list_3" => listed = wd
    BY <1>1, <1>3 DEF Together, DataStage, Table
  <1>11. Table
    BY DEF Together
  <1>12. Table'
    BY <1>1, <1>2, <1>10, <1>11 DEF Table
  <1> QED BY <1>5, <1>8, <1>9, <1>12 DEF Together

\* disconn_1: nothing is left.
LEMMA DisconnectTogether ==
  ASSUME TypeOK, OneContinuation, Together, calm, NEW fn, NEW code, Run(fn, code),
         Disconnect(fn)
  PROVE  Together'
  <1>1. /\ fn = "disconn_1" /\ ~connected' /\ shown' = Empty /\ srv' = NoTransfer
        /\ cmds' = <<>> /\ marks' = <<>> /\ UNCHANGED <<y, readers>> /\ x' = "none"
    BY DEF Disconnect
  <1>2. Idle /\ Len(queue') = 0
    BY <1>1, AtCallback DEF Run
  <1>3. Len(readers') = 0 /\ Len(cmds') = 0 /\ Len(marks') = 0 /\ y' = "none"
    BY <1>1, <1>2 DEF Idle
  <1>4. OneAtATime'
    BY <1>1, <1>3 DEF OneAtATime
  <1>5. ~Own' /\ ~Greeted' /\ First' = 0 /\ ~Reported' /\ ~Due' /\ ~Offered'
        /\ ~Unconnected'
    BY <1>2, <1>3 DEF Own, Greeted, First, Reported, Due, Offered, Unconnected
  <1>6. MarksExpected'
    BY <1>3, <1>5 DEF MarksExpected
  <1>7. srv'.st = "none"
    BY <1>1 DEF NoTransfer
  <1>8. DataStage'
    BY <1>2, <1>3, <1>5, <1>7 DEF DataStage, Sleeping
  <1>9. Table'
    BY <1>1, <1>2, <1>3 DEF Table
  <1> QED BY <1>4, <1>6, <1>8, <1>9 DEF Together

\* Whatever callback the event loop runs.
LEMMA LoopTogether ==
  ASSUME TypeOK, OneContinuation, Together, calm, Loop
  PROVE  Together'
  <1> DEFINE fn == Head(queue).fn
             code == Head(queue).code
  <1>1. Run(fn, code)
    BY RunIs DEF Loop
  <1>2. unlisted' = IF fn \in {"list_3", "disconn_1"} THEN FALSE
                    ELSE unlisted \/ (Listing(fn) /\ ~busy')
    BY DEF Loop
  <1>3. \/ GoOn(fn, code) \/ ConnectionSetup(fn, code) \/ List1(fn, code)
        \/ Data1(fn, code) \/ Data2(fn, code)
        \/ Finish(fn) \/ FinishStor(fn) \/ Disconnect(fn)
    BY DEF Loop
  <1> HIDE DEF fn, code
  <1>4. fn \notin {"list_3", "disconn_1"} => (unlisted => unlisted')
    BY <1>2
  <1>5. CASE GoOn(fn, code)
    <2>1. fn \notin {"list_3", "disconn_1"}
      BY <1>5 DEF GoOn, Expects
    <2> QED BY <1>1, <1>4, <1>5, <2>1, GoOnTogether
  <1>6. CASE ConnectionSetup(fn, code)
    BY <1>1, <1>4, <1>6, SetupTogether DEF ConnectionSetup
  <1>7. CASE List1(fn, code)
    <2>1. fn = "list_1" /\ Listing(fn)
      BY <1>7 DEF List1, Listing
    <2> QED BY <1>1, <1>2, <1>7, <2>1, List1Together
  <1>8. CASE Data1(fn, code)
    <2>1. fn \in {"data_pasv_1", "data_port_1"} /\ (job = "LIST" => Listing(fn))
      BY <1>8 DEF Data1, Listing
    <2> QED BY <1>1, <1>2, <1>8, <2>1, Data1Together
  <1>9. CASE Data2(fn, code)
    <2>1. fn = "data_2" /\ (job = "LIST" => Listing(fn))
      BY <1>9 DEF Data2, Listing
    <2> QED BY <1>1, <1>2, <1>9, <2>1, Data2Together
  <1>10. CASE Finish(fn)
    <2>1. readers' = Append(readers, [next |-> "NULL", to |-> "completion"])
      <3>1. /\ readers \in Seq(Readers)
               /\ [next |-> "NULL", to |-> "completion"] \in Readers
        BY SeqTypes DEF Readers, Answered
      <3> QED BY <1>10, <3>1, AppendIsConcat DEF Finish, CompletionReader
    <2>2. /\ fn \in {"list_3", "data_3"} /\ y' = "none"
          /\ fn = "list_3" => shown' = listed
          /\ fn = "data_3" => job # "LIST" /\ shown' = shown
          /\ UNCHANGED <<connected, x, job, cmds, marks, srv, wd>>
      BY <1>10 DEF Finish, CloseData
    <2> QED BY <1>1, <1>4, <2>1, <2>2, MovedTogether
  <1>11. CASE FinishStor(fn)
    <2>1. /\ fn = "data_3" /\ job # "LIST" /\ y' = "none"
          /\ readers' = Append(readers, [next |-> "stor_3", to |-> "completion"])
          /\ UNCHANGED <<connected, x, job, cmds, marks, srv, wd, shown>>
      BY <1>11 DEF FinishStor, CloseData
    <2>2. fn \in {"list_3", "data_3"} /\ fn # "list_3" /\ (unlisted => unlisted')
      BY <1>4, <2>1
    <2> QED BY <1>1, <2>1, <2>2, MovedTogether
  <1>12. CASE Disconnect(fn)
    BY <1>1, <1>12, DisconnectTogether
  <1> QED BY <1>3, <1>5, <1>6, <1>7, <1>8, <1>9, <1>10, <1>11, <1>12

-----------------------------------------------------------------------------
(***************************************************************************)
(* The threads                                                             *)
(***************************************************************************)
\* A callback is put into the queue.
LEMMA QueuedOne ==
  ASSUME TypeOK, Len(queue) = 0, NEW fn \in Callbacks, NEW code \in Nat,
         queue' = Queued(fn, code)
  PROVE  Len(queue') = 1 /\ queue'[1].fn = fn /\ queue'[1].code = code
  <1> DEFINE e == [fn |-> fn, code |-> code]
  <1>1. e \in Called /\ e.fn = fn /\ e.code = code
    BY DEF Called
  <1>2. queue' = Append(queue, e)
    BY DEF Queued
  <1> HIDE DEF e
  <1> QED BY <1>1, <1>2, SeqTypes, AppendOne

\* There is a welcome to be read if the connection is made.
LEMMA ConnectTogether ==
  ASSUME TypeOK, OneContinuation, Together, calm, Connect
  PROVE  Together'
  <1>1. x = "connecting" /\ UNCHANGED <<connected, y, readers, shown>>
    BY DEF Connect, window
  <1>2. /\ Len(queue) = 0 /\ y = "none" /\ Len(readers) = 0 /\ Len(cmds) = 0
        /\ ~connected /\ shown = Empty
    BY <1>1, Alone, StageIs DEF Together, DataStage, OneAtATime, Table
  <1>3. PICK code \in {0, 1} : queue' = Queued("connection_setup", code)
                               /\ (code = 0 <=> x' = "open") /\ x' \in {"open", "none"}
    BY DEF Connect
  <1>4. Len(queue') = 1 /\ queue'[1].fn = "connection_setup" /\ queue'[1].code = code
    BY <1>2, <1>3, QueuedOne DEF Callbacks
  <1>5. ~Due /\ ~Own /\ ~Greeted
    BY <1>2 DEF Due, Own, Greeted
  <1>6. Len(marks) = 0 /\ srv.st # "drained" /\ (srv.st # "none" => link = "down")
    BY <1>5, SeqTypes DEF Together, DataStage, MarksExpected, First, Reported
  <1>6a. srv.st \notin {"lost", "hung"} /\ ~Sleeping
    <2>1. ~Offered
      BY <1>2, <1>5 DEF Offered
    <2> QED BY <1>2, <2>1 DEF Together, DataStage
  <1>7. /\ Len(cmds') = 0 /\ srv'.st # "drained" /\ (srv'.st # "none" => link' = "down")
        /\ srv'.st \notin {"lost", "hung"} /\ ~Sleeping'
        /\ Len(marks') = IF code = 0 THEN 1 ELSE 0
        /\ code = 0 => marks'[1].of = "welcome"
    <2>1. CASE code = 0
      <3>1. /\ marks' = <<[code |-> 220, of |-> "welcome"]>> /\ cmds' = <<>>
            /\ srv' = NoTransfer
        BY <1>3, <2>1 DEF Connect
      <3>2. Len(marks') = 1 /\ marks'[1].of = "welcome" /\ Len(cmds') = 0
        BY <3>1
      <3>3. srv'.st = "none"
        BY <3>1 DEF NoTransfer
      <3> QED BY <2>1, <3>2, <3>3 DEF Sleeping
    <2>2. CASE code # 0
      BY <1>2, <1>3, <1>6, <1>6a, <2>2 DEF Connect, server, Sleeping
    <2> QED BY <2>1, <2>2
  <1>8. OneAtATime'
    BY <1>1, <1>2, <1>3, <1>7 DEF OneAtATime
  <1>9. ~Own' /\ ~Due' /\ ~Offered' /\ ~Unconnected' /\ (Greeted' <=> code = 0)
    BY <1>1, <1>2, <1>4 DEF Own, Due, Offered, Unconnected, Greeted
  <1>10. First' = (IF code = 0 THEN 1 ELSE 0)
    BY <1>9 DEF First
  <1>11. ~Reported'
    BY <1>3, <1>7, <1>10 DEF Reported
  <1>12. MarksExpected'
    BY <1>3, <1>7, <1>9, <1>10, <1>11 DEF MarksExpected
  <1>13. DataStage'
    BY <1>1, <1>2, <1>4, <1>7, <1>9, <1>11 DEF DataStage
  <1>14. Table'
    BY <1>1, <1>2, <1>4 DEF Table
  <1> QED BY <1>8, <1>12, <1>13, <1>14 DEF Together

\* A thread of the data connection goes on, or puts its callback into the queue.
LEMMA DataThreadTogether ==
  ASSUME TypeOK, OneContinuation, Together, y \notin {"none", "open"},
         \/ /\ y' = "open" /\ Len(queue') = 1
            /\ queue'[1].fn \in {"data_2", "list_3", "data_3"}
            /\ queue'[1].fn # "data_2" => Len(readers) = 0
            /\ queue'[1].fn = "data_2" /\ queue'[1].code # 0 =>
                 y \in {"connecting", "binding"} /\ link' = link
            /\ queue'[1].fn = "list_3" => y = "gathering"
            /\ queue'[1].fn = "data_3" => y \in {"receiving", "sending"}
         \/ y = "binding" /\ y' = "listening" /\ Len(queue') = 0 /\ link' = link,
         UNCHANGED <<connected, x, job, readers, cmds, marks, srv, wd, listed, shown,
                     unlisted>>
  PROVE  Together'
  <1>1. Len(queue) = 0 /\ x # "connecting"
    BY Alone
  <1>2. /\ connected /\ Due /\ ~Offered /\ ~Greeted
        /\ Len(readers) \in {0, 1} /\ Len(cmds) \in {0, 1} /\ Len(cmds) <= Len(readers)
        /\ Len(readers) = 1 => readers[1].to = job
        /\ job \in Transfers /\ job \notin {"completion", "PASV", "PORT", "CWD", "PWD"}
        /\ Relisting => job = "LIST"
    BY Connected
  <1>3. Table /\ OneAtATime /\ MarksExpected /\ DataStage
    BY DEF Together
  <1>4. y' # "none" /\ Due'
    BY DEF Due
  <1>5. OneAtATime'
    BY <1>1, <1>3 DEF OneAtATime
  <1>6. /\ Own' = Own /\ ~Greeted' /\ First' = First /\ Reported' = Reported
    <2>1. Own' = Own /\ ~Greeted'
      BY DEF Own, Greeted
    <2>2. First' = First
      BY <1>2, <2>1 DEF First
    <2> QED BY <2>1, <2>2 DEF Reported
  <1>7. MarksExpected'
    BY <1>2, <1>3, <1>6 DEF MarksExpected
  <1>8. ~Offered' /\ (Unconnected' => Unconnected /\ link' = link)
    BY <1>2 DEF Offered, Own, Unconnected
  <1>9. DataStage'
    BY <1>1, <1>2, <1>3, <1>4, <1>6, <1>8 DEF DataStage, Sleeping
  <1>10. Relisting => Relisting'
    BY <1>2, <1>4 DEF Relisting
  <1>11. Table'
    BY <1>1, <1>2, <1>3, <1>4, <1>10 DEF Table
  <1> QED BY <1>5, <1>7, <1>9, <1>11 DEF Together

\* The connection of the data, which the server is ready for or not.
LEMMA ConnectDataTogether ==
  ASSUME TypeOK, OneContinuation, Together, calm, ConnectData
  PROVE  Together'
  <1>1. y \in {"connecting", "binding"}
        /\ UNCHANGED <<connected, x, job, readers, cmds, marks, srv, wd, listed, shown,
                       unlisted>>
    BY DEF ConnectData, window
  <1>2. Len(queue) = 0
    BY <1>1, Alone
  <1>3. "data_2" \in Callbacks
    BY DEF Callbacks
  <1>4. CASE y' = "open" /\ queue' = Queued("data_2", 0)
    <2>1. Len(queue') = 1 /\ queue'[1].fn = "data_2" /\ queue'[1].code = 0
      BY <1>2, <1>3, <1>4, QueuedOne
    <2> QED BY <1>1, <1>4, <2>1, DataThreadTogether
  <1>5. CASE y = "binding" /\ y' = "listening" /\ UNCHANGED <<queue, link>>
    <2>1. Len(queue') = 0 /\ link' = link
      BY <1>2, <1>5
    <2> QED BY <1>1, <1>5, <2>1, DataThreadTogether
  <1>6. CASE y' = "open" /\ queue' = Queued("data_2", 1) /\ link' = link
    <2>1. Len(queue') = 1 /\ queue'[1].fn = "data_2"
      BY <1>2, <1>3, <1>6, QueuedOne
    <2> QED BY <1>1, <1>6, <2>1, DataThreadTogether
  <1> QED BY <1>4, <1>5, <1>6 DEF ConnectData

\* All the data has come or gone, and nobody reads a reply.
LEMMA MoveDataTogether ==
  ASSUME TypeOK, OneContinuation, Together, calm, MoveData
  PROVE  Together'
  <1>1. /\ y \in {"gathering", "receiving", "sending"} /\ y' = "open" /\ Len(readers) = 0
        /\ UNCHANGED <<connected, x, job, readers, cmds, marks, srv, wd, listed, shown,
                       unlisted>>
    BY DEF MoveData, server, window
  <1>2. Len(queue) = 0
    BY <1>1, Alone
  <1>3. PICK fn \in {"list_3", "data_3"} : queue' = Queued(fn, 0)
             /\ (fn = "list_3" <=> y = "gathering")
    BY DEF MoveData
  <1>4. Len(queue') = 1 /\ queue'[1].fn = fn
    <2>1. fn \in Callbacks /\ 0 \in Nat /\ queue' = Queued(fn, 0)
      BY <1>3 DEF Callbacks
    <2> QED BY <1>2, <2>1, QueuedOne
  <1>5. /\ queue'[1].fn = "list_3" => y = "gathering"
        /\ queue'[1].fn = "data_3" => y \in {"receiving", "sending"}
        /\ queue'[1].fn \in {"data_2", "list_3", "data_3"} /\ queue'[1].fn # "data_2"
    BY <1>1, <1>3, <1>4
  <1> QED BY <1>1, <1>4, <1>5, DataThreadTogether

\* What a reader reads is what it was started for.
LEMMA ReadsItsOwn ==
  ASSUME TypeOK, OneContinuation, Together, NEW i \in 1..Len(readers), marks # <<>>
  PROVE  /\ i = 1 /\ Len(readers) = 1 /\ Len(cmds) = 0
         /\ Head(marks) = marks[1] /\ marks[1].of = readers[1].to
         /\ ~Own => /\ Len(marks) = 1 /\ y = "none" /\ Len(queue) = 0
                    /\ readers[1].to = "completion" /\ srv.st = "none"
  <1>1. /\ Len(readers) \in {0, 1} /\ Len(cmds) \in {0, 1}
        /\ Len(queue) \in {0, 1}
        /\ Len(readers) = 1 /\ y # "none" => readers[1].to \in Transfers
        /\ Len(readers) = 1 /\ Len(queue) = 1 => y = "open"
        /\ Greeted => Len(readers) = 0
        /\ "completion" \notin Transfers
    BY StageIs DEF Transfers
  <1>2. i = 1 /\ Len(readers) = 1
    <2>1. \A n \in {0, 1} : \A j \in 1..n : j = 1 /\ n = 1
      OBVIOUS
    <2> QED BY <1>1, <2>1
  <1>3. Len(marks) # 0 /\ Head(marks) = marks[1]
    BY SeqTypes, LenZero, HeadTailProperties
  <1>4. Len(cmds) = 0
    BY <1>1, <1>3 DEF Together, OneAtATime
  <1>5. CASE Own
    BY <1>2, <1>3, <1>4, <1>5 DEF Together, MarksExpected
  <1>6. CASE ~Own
    <2>1. readers[1].to = "completion" /\ y = "none" /\ Len(queue) = 0
      BY <1>1, <1>2, <1>4, <1>6 DEF Own
    <2>2. First = 0 /\ Due
      BY <1>1, <1>2, <1>6, <2>1 DEF First, Due
    <2>3. Len(marks) = 1
      BY <1>3, <2>2 DEF Together, MarksExpected
    <2>4. Reported
      BY <2>2, <2>3 DEF Reported
    <2>5. marks[1].of = "completion"
      BY <2>2, <2>4 DEF Together, MarksExpected
    <2>6. srv.st = "none"
      BY <1>4, <2>2, <2>4 DEF Together, DataStage
    <2> QED BY <1>2, <1>3, <1>4, <2>1, <2>3, <2>5, <2>6
  <1> QED BY <1>5, <1>6

\* A reader that has its mark leaves nothing behind but its callback.
LEMMA ReadMarkTogether ==
  ASSUME TypeOK, OneContinuation, Together, calm, NEW i \in 1..Len(readers), ReadMark(i)
  PROVE  Together'
  <1>1. /\ marks # <<>> /\ marks' = Tail(marks) /\ readers' = Without(readers, i)
        /\ UNCHANGED <<connected, x, y, job, cmds, srv, link, wd, listed, shown,
                       unlisted>>
    BY DEF ReadMark, server, window
  <1>2. /\ i = 1 /\ Len(readers) = 1 /\ Len(cmds) = 0
        /\ Head(marks) = marks[1] /\ marks[1].of = readers[1].to
        /\ ~Own => /\ Len(marks) = 1 /\ y = "none" /\ Len(queue) = 0
                   /\ readers[1].to = "completion" /\ srv.st = "none"
    BY <1>1, ReadsItsOwn
  <1>3. PICK next, to, code : next = readers[1].next /\ to = readers[1].to
             /\ code = marks[1].code
    OBVIOUS
  <1>4. /\ Paired(next, to) /\ next \in Callbacks \cup {"NULL"} /\ to \in Answered
           /\ code \in Nat
    <2>1. Paired(next, to)
      BY <1>2, <1>3 DEF Together, OneAtATime
    <2>2. readers[1] \in Readers
      <3>1. readers \in Seq(Readers) /\ 1 \in 1..Len(readers)
        BY <1>2, SeqTypes
      <3> QED BY <3>1, ElementOfSeq
    <2>3. marks[1] \in Marks
      <3>1. marks \in Seq(Marks) /\ marks # <<>>
        BY <1>1, SeqTypes
      <3> QED BY <1>2, <3>1, HeadTailProperties
    <2> QED BY <1>3, <2>1, <2>2, <2>3 DEF Readers, Marks
  <1>5. Len(readers') = 0
    BY <1>1, <1>2, SeqTypes, WithoutOne
  <1>6. queue' = CallsBack(next, code)
    BY <1>2, <1>3 DEF ReadMark
  <1>7. OneAtATime' /\ ~Own' /\ Table /\ Len(queue) \in {0, 1}
    BY <1>1, <1>2, <1>5, Alone DEF OneAtATime, Own, Together, Table
  <1>8. /\ next = "NULL" => queue' = queue
        /\ next # "NULL" => /\ Len(queue) = 0 /\ y = "none" /\ Len(queue') = 1
                            /\ queue'[1].fn = next /\ queue'[1].code = code
    <2>1. CASE next = "NULL"
      BY <1>6, <2>1 DEF CallsBack
    <2>2. CASE next # "NULL"
      <3>1. ~Nobody
        BY <1>2, <1>3, <2>2 DEF Nobody
      <3>2. Len(queue) = 0 /\ y \in {"none", "open"}
        BY <3>1, Alone
      <3>3. y = "none"
        BY <3>2 DEF Together, DataStage
      <3>4. Len(queue') = 1 /\ queue'[1].fn = next /\ queue'[1].code = code
        BY <1>4, <1>6, <2>2, <3>2, QueuedOne DEF CallsBack
      <3> QED BY <2>2, <3>2, <3>3, <3>4
    <2> QED BY <2>1, <2>2
  <1>9. ~Greeted'
    <2>1. ~(Len(queue) = 1 /\ queue[1].fn = "connection_setup")
      BY <1>2, StageIs
    <2> QED BY <1>4, <1>8, <2>1 DEF Greeted, Paired
  <1>10. First' = 0
    BY <1>7, <1>9 DEF First
  <1>11. CASE ~Own
    <2>1. Len(marks') = 0
      BY <1>1, <1>2, <1>11, SeqTypes, TailOne
    <2>2. MarksExpected' /\ ~Reported'
      BY <1>7, <1>9, <1>10, <2>1 DEF MarksExpected, Reported
    <2>3. y' = "none" /\ srv'.st = "none" /\ Len(cmds') = 0
      BY <1>1, <1>2, <1>11
    <2>4. next \in {"NULL", "stor_3"}
      BY <1>2, <1>3, <1>4, <1>11 DEF Paired
    <2>5. Len(queue') = 0 \/ (Len(queue') = 1 /\ queue'[1].fn = "stor_3")
      BY <1>2, <1>8, <1>11, <2>4
    <2>6. ~Due' /\ ~Offered' /\ ~Unconnected'
      BY <1>5, <1>7, <2>3, <2>5 DEF Due, Offered, Unconnected
    <2>7. DataStage'
      BY <2>2, <2>3, <2>5, <2>6 DEF DataStage, Sleeping
    <2>8. connected /\ ~Relisting
      <3>1. connected
        BY <1>2, <1>3, <1>7, <2>4 DEF Table, Early
      <3> QED BY <1>2, <1>11, <3>1 DEF Relisting
    <2>9. Table'
      BY <1>1, <1>2, <1>7, <1>11, <2>8 DEF Table
    <2> QED BY <1>7, <2>2, <2>7, <2>9 DEF Together
  <1>12. CASE Own
    <2>1. First = 1 /\ to # "completion" /\ Len(marks) \in {1, 2}
      BY <1>3, <1>12 DEF First, Own, Together, MarksExpected
    <2>2. /\ Reported <=> Len(marks) = 2
          /\ Reported => marks[2].of = "completion"
      <3>1. Reported <=> Len(marks) = 2
        BY <2>1 DEF Reported
      <3> QED BY <2>1, <3>1 DEF Together, MarksExpected
    <2>3. /\ Len(marks') \in {0, 1} /\ (Len(marks') = 1 <=> Reported)
          /\ Len(marks') = 1 => marks'[1].of = "completion"
      <3>1. CASE Len(marks) = 1
        <4>1. Len(marks') = 0
          BY <1>1, <3>1, SeqTypes, TailOne
        <4> QED BY <2>2, <3>1, <4>1
      <3>2. CASE Len(marks) = 2
        BY <1>1, <2>2, <3>2, SeqTypes, TailTwo
      <3> QED BY <2>1, <3>1, <3>2
    <2>4. Reported' = Reported
      BY <1>10, <2>3 DEF Reported
    <2>5. MarksExpected'
      BY <1>7, <1>9, <1>10, <2>3, <2>4 DEF MarksExpected
    <2>6. Due' = Due
      BY <1>1, <1>3, <1>5, <2>1 DEF Due
    <2>7. CASE next = "NULL"
      <3>1. to \in Transfers
        BY <1>4, <2>1, <2>7 DEF Paired
      <3>2. queue' = queue
        BY <1>8, <2>7
      <3>3. /\ Len(queue) = 1 => queue[1].fn = "data_2"
        BY <1>2, StageIs
      <3>4. ~Offered /\ ~Offered' /\ Unconnected' = Unconnected
        BY <1>1, <1>3, <1>7, <3>1, <3>2, <3>3 DEF Offered, Unconnected, Transfers
      <3>5. DataStage'
        BY <1>1, <1>2, <1>5, <2>4, <2>6, <3>2, <3>4 DEF DataStage, Together, Sleeping
      <3>6. Relisting => Relisting'
        BY <1>1, <1>3, <1>12, <3>1, <3>2, <3>3 DEF Relisting, Transfers
      <3>7. Table'
        BY <1>1, <1>2, <1>5, <1>7, <3>2, <3>6 DEF Table
      <3> QED BY <1>7, <2>5, <3>5, <3>7 DEF Together
    <2>8. CASE next # "NULL"
      <3>1. /\ Len(queue) = 0 /\ y' = "none" /\ Len(queue') = 1
            /\ queue'[1].fn = next /\ queue'[1].code = code /\ Len(cmds') = 0
            /\ srv' = srv /\ link' = link /\ job' = job
        BY <1>1, <1>2, <1>8, <2>8
      <3>2. next \notin {"connection_setup", "data_2", "list_3", "data_3"}
        BY <1>4 DEF Paired
      <3>3. ~Unconnected'
        BY <3>1, <3>2 DEF Unconnected
      <3>4. Offered' = Offered
        <4>1. Offered' <=> <<next, code>>
              \in {<<"data_pasv_1", 227>>, <<"data_port_1", 200>>}
          BY <1>7, <3>1 DEF Offered
        <4>2. Offered <=> <<to, code>> \in {<<"PASV", 227>>, <<"PORT", 200>>}
          BY <1>3, <1>12, <3>1 DEF Offered
        <4>3. <<next, code>> \in {<<"data_pasv_1", 227>>, <<"data_port_1", 200>>}
              <=> <<to, code>> \in {<<"PASV", 227>>, <<"PORT", 200>>}
          BY <1>4 DEF Paired
        <4>4. Offered' \in BOOLEAN /\ Offered \in BOOLEAN
          BY DEF Offered, Own
        <4> QED BY <4>1, <4>2, <4>3, <4>4
      <3>5. ~Due
        BY <1>1, <1>3, <2>1, <3>1 DEF Due
      <3>6. DataStage'
        BY <1>2, <2>4, <2>6, <3>1, <3>2, <3>3, <3>4, <3>5
        DEF DataStage, Together, Sleeping
      <3>7. Relisting => Relisting'
        <4>1. Relisting => \/ to = "CWD" /\ code = 250
                           \/ to = "PWD"
                           \/ to \in {"PASV", "PORT"} /\ job = "LIST"
          BY <1>1, <1>2, <1>3, <3>1 DEF Relisting
        <4> QED BY <1>4, <3>1, <4>1 DEF Relisting, Paired
      <3>8. ~connected => next \in Early
        BY <1>2, <1>3, <1>7 DEF Table
      <3>9. Table'
        BY <1>1, <1>5, <1>7, <3>1, <3>7, <3>8 DEF Table
      <3> QED BY <1>7, <2>5, <3>6, <3>9 DEF Together
    <2> QED BY <2>7, <2>8
  <1> QED BY <1>11, <1>12

\* Whatever thread ends or goes on.
LEMMA ThreadsTogether ==
  ASSUME TypeOK, OneContinuation, Together, calm, Threads
  PROVE  Together'
  <1>1. CASE LoseMark
    <2>1. Len(readers) \in {0, 1} /\ Len(readers) > 1
      BY <1>1, StageIs DEF LoseMark
    <2>2. \A n \in {0, 1} : ~(n > 1)
      OBVIOUS
    <2> QED BY <2>1, <2>2
  <1> QED
    BY <1>1, ConnectTogether, ConnectDataTogether, ReadMarkTogether, MoveDataTogether
    DEF Threads

-----------------------------------------------------------------------------
(***************************************************************************)
(* The server                                                              *)
(***************************************************************************)
\* Reply, to a command and at the end of a transfer.
LEMMA ReplyIs ==
  ASSUME TypeOK, NEW code \in Nat, NEW of \in Answered, Reply(code, of),
         Len(marks) \in {0, 1}
  PROVE  /\ Len(marks') = Len(marks) + 1
         /\ Len(marks) = 0 => marks'[1].of = of /\ marks'[1].code = code
         /\ Len(marks) = 1 => marks'[1] = marks[1] /\ marks'[2].of = of
  <1> DEFINE m == [code |-> code, of |-> of]
  <1>1. m \in Marks /\ m.code = code /\ m.of = of
    BY DEF Marks
  <1>2. marks' = Append(marks, m)
    BY DEF Reply
  <1> HIDE DEF m
  <1>3. CASE Len(marks) = 0
    BY <1>1, <1>2, <1>3, SeqTypes, AppendOne
  <1>4. CASE Len(marks) = 1
    BY <1>1, <1>2, <1>4, SeqTypes, AppendTwo
  <1> QED BY <1>3, <1>4

\* The state in which there is a command to be handled.
LEMMA ServedIs ==
  ASSUME TypeOK, OneContinuation, Together, NEW i \in 1..Len(cmds)
  PROVE  /\ i = 1 /\ Len(cmds) = 1 /\ Len(readers) = 1 /\ Len(marks) = 0
         /\ cmds[1] \in Commands /\ readers[1].to = cmds[1] /\ cmds[1] # "completion"
         /\ cmds[1] \in Transfers => cmds[1] = job /\ srv.st \in {"starting", "ready"}
         /\ ~Hangs(cmds[1])
         /\ cmds[1] \notin Transfers => y = "none" /\ ~Due
         /\ ~Own /\ ~Greeted /\ ~Reported /\ Len(queue) \in {0, 1}
         /\ Len(queue) = 1 => queue[1].fn = "data_2" /\ cmds[1] \in Transfers
  <1>1. /\ Len(readers) \in {0, 1} /\ Len(cmds) \in {0, 1} /\ Len(cmds) <= Len(readers)
        /\ Len(queue) \in {0, 1}
        /\ Len(readers) = 1 => readers[1].to \in Answered
        /\ Len(cmds) = 1 => cmds[1] \in Commands /\ cmds[1] = readers[1].to
        /\ Len(readers) = 1 /\ y # "none" => readers[1].to \in Transfers
        /\ Len(readers) = 1 /\ Len(queue) = 1 =>
                queue[1].fn = "data_2" /\ y = "open" /\ readers[1].to \in Transfers
        /\ {"welcome", "completion"} \cap Commands = {}
        /\ Greeted => Len(readers) = 0
    BY StageIs
  <1>2. i = 1 /\ Len(cmds) = 1
    <2>1. \A n \in {0, 1} : \A j \in 1..n : j = 1 /\ n = 1
      OBVIOUS
    <2> QED BY <1>1, <2>1
  <1>3. Len(readers) = 1
    <2>1. \A n \in {0, 1} : 1 <= n => n = 1
      OBVIOUS
    <2> QED BY <1>1, <1>2, <2>1
  <1>4. Len(marks) = 0 /\ ~Own /\ ~Greeted
    BY <1>1, <1>2, <1>3 DEF Together, OneAtATime, Own
  <1>5. ~Reported
    BY <1>4 DEF Reported, First
  <1>6. cmds[1] \in Transfers => cmds[1] = job /\ srv.st \in {"starting", "ready"}
    BY <1>2 DEF Together, DataStage
  <1>7. cmds[1] \notin Transfers => y = "none" /\ ~Due
    BY <1>1, <1>2, <1>3 DEF Due
  <1>8. ~Hangs(cmds[1])
    <2>1. ~Offered
      BY <1>1, <1>2, <1>4 DEF Offered
    <2>2. Sleeping => cmds[1] \in Transfers
      BY <2>1 DEF Together, DataStage
    <2>3. srv.st # "lost"
      BY DEF Together, DataStage
    <2> QED BY <2>2, <2>3 DEF Hangs, Transfers
  <1> QED BY <1>1, <1>2, <1>3, <1>4, <1>5, <1>6, <1>7, <1>8

\* A command has its reply, and the server has done what it says.
LEMMA ServeTogether ==
  ASSUME TypeOK, OneContinuation, Together, calm, NEW i \in 1..Len(cmds), Serve(i)
  PROVE  Together'
  <1>1. /\ cmds' = Without(cmds, i) /\ UNCHANGED <<connected, x, y, job, readers, queue,
                                                   shown, unlisted>>
    BY DEF Serve, window
  <1>2. PICK cmd : cmd = cmds[1]
    OBVIOUS
  <1>3. /\ i = 1 /\ Len(cmds) = 1 /\ Len(readers) = 1 /\ Len(marks) = 0
        /\ cmd \in Commands /\ readers[1].to = cmd /\ cmd # "completion"
        /\ cmd \in Transfers => cmd = job /\ srv.st \in {"starting", "ready"}
        /\ ~Hangs(cmd)
        /\ cmd \notin Transfers => y = "none" /\ ~Due
        /\ ~Own /\ ~Greeted /\ ~Reported /\ Len(queue) \in {0, 1}
        /\ Len(queue) = 1 => queue[1].fn = "data_2" /\ cmd \in Transfers
    BY <1>2, ServedIs
  <1>4. Len(cmds') = 0
    BY <1>1, <1>3, SeqTypes, WithoutOne
  <1>5. PICK code \in Nat : /\ Reply(code, cmd)
                            /\ \/ Accept(cmd) /\ code = Accepts[cmd]
                               \/ Refuse(cmd) /\ code = 550
    BY <1>1, <1>2, <1>3, TablesTyped DEF Serve, Accept, Refuse
  <1>6. Len(marks') = 1 /\ marks'[1].of = cmd /\ marks'[1].code = code
    <2>1. cmd \in Answered
      BY <1>3, TablesTyped
    <2> QED BY <1>3, <1>5, <2>1, ReplyIs
  <1>7. OneAtATime'
    BY <1>1, <1>3, <1>4 DEF OneAtATime, Together
  <1>8. Own' /\ ~Greeted' /\ First' = 1 /\ ~Reported' /\ Due' = Due
    <2>1. Own' /\ ~Greeted'
      BY <1>1, <1>3, <1>4 DEF Own, Greeted
    <2>2. First' = 1
      BY <2>1 DEF First
    <2>3. ~Reported'
      BY <1>6, <2>2 DEF Reported
    <2> QED BY <1>1, <2>1, <2>2, <2>3 DEF Due
  <1>9. MarksExpected'
    BY <1>1, <1>3, <1>6, <1>8 DEF MarksExpected
  <1>10. Unconnected' = Unconnected /\ (Unconnected => Due \/ cmd \in Transfers)
    BY <1>1, <1>3 DEF Unconnected, Due
  <1>11. Offered' => <<cmd, code>> \in {<<"PASV", 227>>, <<"PORT", 200>>}
    BY <1>1, <1>3, <1>6 DEF Offered
  <1>12. DataStage /\ Table
    BY DEF Together
  \* What the server's transfer is, and its data connection.
  <1>13. /\ cmd \in Transfers => srv'.st = "accepted" /\ link' = link
         /\ cmd \notin Transfers => /\ srv'.st # "drained"
                                    /\ srv'.st # "none" => link' = "down"
         /\ Offered' => srv'.st \in {"starting", "ready"}
         /\ Sleeping' => Offered'
         /\ srv'.st \notin {"lost", "hung"}
    <2>1. CASE cmd \in Transfers
      <3>1. Accept(cmd)
        BY <1>3, <1>5, <2>1 DEF Refuse
      <3>2. cmd \notin {"PASV", "PORT", "QUIT"}
        BY <2>1 DEF Transfers
      <3>3. srv.st = "ready"
        BY <2>1, <3>1 DEF Accept
      <3>4. srv' = [srv EXCEPT !.st = "accepted", !.cmd = cmd] /\ link' = link
        BY <2>1, <3>1, <3>2, <3>3 DEF Accept
      <3> QED BY <1>11, <2>1, <3>2, <3>4 DEF TypeOK, Sleeping
    <2>2. CASE cmd \notin Transfers
      <3>1. /\ srv.st # "drained" /\ (srv.st # "none" => link = "down")
            /\ srv.st \notin {"lost", "hung"} /\ ~Sleeping
        <4>1. ~Offered
          BY <1>3, <2>2 DEF Offered
        <4> QED BY <1>2, <1>3, <1>12, <2>2, <4>1 DEF DataStage
      <3>2. CASE Accept(cmd) /\ code = Accepts[cmd]
        <4>1. CASE cmd \in {"PASV", "PORT"}
          <5>1. /\ srv'.st = IF cmd = "PORT" THEN "starting" ELSE "ready"
                /\ srv'.mode = cmd /\ link' = "down"
            BY <2>2, <3>2, <4>1 DEF Accept, TypeOK
          <5>2. cmd = "PORT" => Offered'
            BY <1>1, <1>3, <1>6, <1>8, <3>2 DEF Offered, Accepts
          <5> QED BY <2>2, <4>1, <5>1, <5>2 DEF Sleeping
        <4>2. CASE cmd = "QUIT"
          <5>1. srv' = NoTransfer /\ link' = "down"
            BY <2>2, <3>2, <4>2 DEF Accept
          <5> QED BY <1>11, <2>2, <4>2, <5>1 DEF NoTransfer, Sleeping
        <4>3. CASE cmd \notin {"PASV", "PORT", "QUIT"}
          <5>1. srv' = srv /\ link' = link
            BY <2>2, <3>2, <4>3 DEF Accept
          <5> QED BY <1>11, <2>2, <3>1, <4>3, <5>1 DEF Sleeping
        <4> QED BY <4>1, <4>2, <4>3
      <3>3. CASE Refuse(cmd) /\ code = 550
        <4>1. srv' = srv /\ link' = link /\ ~Offered'
          BY <1>11, <3>3 DEF Refuse, server
        <4> QED BY <2>2, <3>1, <4>1 DEF Sleeping
      <3> QED BY <1>5, <3>2, <3>3
    <2> QED BY <2>1, <2>2
  <1>14. cmd \in Transfers /\ ~Due => link = "down"
    BY <1>3, <1>12 DEF DataStage
  <1>6a. DataStage'
    <2>1. Due' /\ Len(cmds') = 0 => srv'.st \in {"accepted", "drained"}
      BY <1>3, <1>8, <1>13
    <2>2. ~Due' => srv'.st # "drained" /\ (srv'.st # "none" => link' = "down")
      BY <1>8, <1>13, <1>14
    <2>3. Unconnected' => link' = "down" /\ srv'.st \in {"starting", "ready", "accepted"}
      BY <1>3, <1>10, <1>12, <1>13 DEF DataStage
    <2> QED BY <1>1, <1>4, <1>8, <1>12, <1>13, <2>1, <2>2, <2>3 DEF DataStage
  <1>16. job = "LIST" /\ y # "none" => listed' = wd'
    <2>1. ASSUME job = "LIST", y # "none"
          PROVE  listed' = wd'
      <3>1. cmd = "LIST" /\ cmd \in Transfers
        BY <1>3, <2>1
      <3>2. Accept(cmd)
        BY <1>3, <1>5, <3>1 DEF Refuse
      <3> QED BY <3>1, <3>2 DEF Accept
    <2> QED BY <2>1
  <1>17. wd' = wd \/ Relisting'
    <2>1. CASE Accept(cmd) /\ code = Accepts[cmd] /\ cmd = "CWD"
      BY <1>1, <1>3, <1>6, <1>8, <2>1 DEF Relisting, Accepts
    <2>2. CASE Refuse(cmd)
      BY <2>2 DEF Refuse, server
    <2>3. CASE Accept(cmd) /\ cmd # "CWD"
      BY <2>3 DEF Accept
    <2> QED BY <1>5, <2>1, <2>2, <2>3
  <1>18. Relisting => Relisting'
    BY <1>1, <1>3 DEF Relisting
  <1>19. Table'
    BY <1>1, <1>12, <1>16, <1>17, <1>18 DEF Table
  <1> QED BY <1>7, <1>9, <1>6a, <1>19 DEF Together

\* A transfer the server is at.
LEMMA BusyServer ==
  ASSUME TypeOK, OneContinuation, Together,
         srv.st \in {"accepted", "drained"} /\ (srv.st = "drained" \/ link # "down")
  PROVE  Due /\ Len(cmds) = 0 /\ ~Reported /\ Len(marks) = First /\ ~Offered
  <1>1. Due
    BY DEF Together, DataStage
  <1>2. Len(cmds) = 0
    <2>1. ASSUME Len(cmds) = 1 PROVE FALSE
      <3>1. 1 \in 1..Len(cmds)
        BY <2>1
      <3> QED BY <1>1, <3>1, ServedIs
    <2> QED BY <2>1, StageIs
  <1>3. ~Reported
    BY <1>1, <1>2 DEF Together, DataStage
  <1>4. Len(marks) = First
    <2>1. First \in {0, 1} /\ Len(marks) \in {First, First + 1} /\ ~(Len(marks) > First)
      BY <1>3 DEF First, Reported, Together, MarksExpected
    <2> QED BY <2>1
  <1>5. ~Offered
    BY DEF Together, DataStage
  <1> QED BY <1>1, <1>2, <1>3, <1>4, <1>5

\* The end of the data.
LEMMA DrainTogether ==
  ASSUME TypeOK, OneContinuation, Together, calm, Drain
  PROVE  Together'
  <1>1. /\ srv.st = "accepted" /\ link \in {"up", "shut"} /\ srv'.st = "drained"
        /\ UNCHANGED <<connected, x, y, job, readers, queue, cmds, marks, wd, listed,
                       shown, unlisted>>
    BY DEF Drain, TypeOK, window
  <1>2. Due /\ Len(cmds) = 0 /\ ~Reported /\ ~Offered
    BY <1>1, BusyServer
  <1>3. ~Unconnected
    BY <1>1 DEF Together, DataStage
  <1>4. OneAtATime' /\ MarksExpected' /\ Table'
    BY <1>1
    DEF Together, OneAtATime, MarksExpected, Table, Own, Greeted, Reported, First,
        Relisting
  <1>5. Due' /\ ~Reported' /\ ~Offered' /\ ~Unconnected'
    BY <1>1, <1>2, <1>3 DEF Due, Reported, First, Own, Greeted, Offered, Unconnected
  <1>6. DataStage'
    BY <1>1, <1>2, <1>5 DEF Together, DataStage, Sleeping
  <1> QED BY <1>4, <1>6 DEF Together

\* The completion is sent once, and it is due.
LEMMA CompleteTogether ==
  ASSUME TypeOK, OneContinuation, Together, calm, Complete
  PROVE  Together'
  <1>1. /\ srv.st = "drained" /\ srv'.st = "none" /\ Reply(226, "completion")
        /\ UNCHANGED <<connected, x, y, job, readers, queue, cmds, link, wd, listed,
                       shown, unlisted>>
    BY DEF Complete, NoTransfer, window
  <1>2. Due /\ Len(cmds) = 0 /\ ~Reported /\ Len(marks) = First /\ ~Offered
    BY <1>1, BusyServer
  <1>3. ~Unconnected
    BY <1>1 DEF Together, DataStage
  <1>4. First \in {0, 1} /\ "completion" \in Answered
    BY DEF First, Answered
  <1>5. /\ Len(marks') = First + 1
        /\ First = 0 => marks'[1].of = "completion"
        /\ First = 1 => marks'[1] = marks[1] /\ marks'[2].of = "completion"
    BY <1>1, <1>2, <1>4, ReplyIs
  <1>6. Own' = Own /\ Greeted' = Greeted /\ First' = First /\ Due'
    BY <1>1, <1>2 DEF Own, Greeted, First, Due
  <1>7. OneAtATime'
    BY <1>1, <1>2 DEF Together, OneAtATime
  <1>8. MarksExpected'
    <2>1. Own \/ Greeted => First = 1
      BY DEF First
    <2>2. marks'[First' + 1].of = "completion"
      BY <1>4, <1>5, <1>6
    <2> QED BY <1>1, <1>4, <1>5, <1>6, <2>1, <2>2 DEF Together, MarksExpected
  <1>9. Reported'
    BY <1>4, <1>5, <1>6 DEF Reported
  <1>10. ~Offered' /\ ~Unconnected' /\ (Relisting => Relisting')
    <2>1. Own => marks'[1] = marks[1]
      BY <1>5 DEF First
    <2>2. ~Offered'
      BY <1>1, <1>2, <1>6, <2>1 DEF Offered
    <2>3. ~Unconnected'
      BY <1>1, <1>3 DEF Unconnected
    <2>4. Relisting => Relisting'
      BY <1>1, <1>6, <2>1 DEF Relisting
    <2> QED BY <2>2, <2>3, <2>4
  <1>11. DataStage'
    BY <1>1, <1>2, <1>6, <1>9, <1>10 DEF Together, DataStage, Sleeping
  <1>12. Table'
    BY <1>1, <1>10 DEF Together, Table
  <1> QED BY <1>7, <1>8, <1>11, <1>12 DEF Together

\* Whatever the server does.
LEMMA ServerTogether ==
  ASSUME TypeOK, OneContinuation, Together, calm, Server
  PROVE  Together'
  <1>1. CASE ConnectBack
    <2>1. /\ y = "listening" /\ y' = "open" /\ queue' = Queued("data_2", 0)
          /\ UNCHANGED <<connected, x, job, readers, cmds, marks, srv, wd, listed, shown,
                         unlisted>>
      BY <1>1 DEF ConnectBack, window
    <2>2. Len(queue) = 0
      BY <2>1, Alone
    <2>3. Len(queue') = 1 /\ queue'[1].fn = "data_2" /\ queue'[1].code = 0
      <3>1. "data_2" \in Callbacks /\ 0 \in Nat
        BY DEF Callbacks
      <3> QED BY <2>1, <2>2, <3>1, QueuedOne
    <2> QED BY <2>1, <2>3, DataThreadTogether
  <1>2. CASE Forget
    <2>1. /\ srv.st = "ready" /\ link = "shut" /\ link' = "down"
          /\ UNCHANGED <<connected, x, y, job, readers, queue, cmds, marks, srv, wd,
                         listed, shown, unlisted>>
      BY <1>2 DEF Forget, window
    <2>2. OneAtATime' /\ MarksExpected' /\ Table'
      BY <2>1
      DEF Together, OneAtATime, MarksExpected, Table, Own, Greeted, Reported, First,
          Relisting
    <2>3. Due' = Due /\ Reported' = Reported /\ Offered' = Offered
          /\ Unconnected' = Unconnected
      BY <2>1 DEF Due, Reported, First, Own, Greeted, Offered, Unconnected
    <2>4. DataStage'
      BY <2>1, <2>3 DEF Together, DataStage, Sleeping
    <2> QED BY <2>2, <2>4 DEF Together
  <1>3. CASE CondWait
    <2>1. /\ srv.st = "starting" /\ srv'.st = "ready" /\ srv'.mode = srv.mode
          /\ UNCHANGED <<connected, x, y, job, readers, queue, cmds, marks, link, wd,
                         listed, shown, unlisted>>
      BY <1>3 DEF CondWait, TypeOK, window
    <2>2. OneAtATime' /\ MarksExpected' /\ Table'
      BY <2>1
      DEF Together, OneAtATime, MarksExpected, Table, Own, Greeted, Reported, First,
          Relisting
    <2>3. Due' = Due /\ Reported' = Reported /\ Offered' = Offered
          /\ Unconnected' = Unconnected /\ Sleeping' = Sleeping
      BY <2>1 DEF Due, Reported, First, Own, Greeted, Offered, Unconnected, Sleeping
    <2>4. DataStage'
      BY <2>1, <2>3 DEF Together, DataStage
    <2> QED BY <2>2, <2>4 DEF Together
  <1> QED
    BY <1>1, <1>2, <1>3, ServeTogether, DrainTogether, CompleteTogether DEF Server

-----------------------------------------------------------------------------
(***************************************************************************)
(* Every step                                                              *)
(***************************************************************************)
\* Nothing has begun.
LEMMA InitTogether == Init => Together
  <1> SUFFICES ASSUME Init PROVE Together
    OBVIOUS
  <1>1. /\ Len(readers) = 0 /\ Len(queue) = 0 /\ Len(cmds) = 0 /\ Len(marks) = 0
        /\ y = "none" /\ srv.st = "none" /\ ~connected /\ shown = Empty /\ x = "none"
    BY DEF Init, NoTransfer
  <1>2. ~Own /\ ~Greeted /\ First = 0 /\ ~Reported /\ ~Due /\ ~Offered /\ ~Unconnected
    BY <1>1 DEF Own, Greeted, First, Reported, Due, Offered, Unconnected
  <1>3. OneAtATime /\ MarksExpected /\ DataStage /\ Table
    BY <1>1, <1>2 DEF OneAtATime, MarksExpected, DataStage, Table, Sleeping
  <1> QED BY <1>3 DEF Together

\* No step leaves it while nothing untoward happens, which it was decided at the start.
LEMMA TogetherKept ==
  TypeOK /\ OneContinuation /\ (calm => Together) /\ [Next]_vars => (calm => Together)'
  <1> SUFFICES ASSUME TypeOK, OneContinuation, calm => Together, [Next]_vars, calm'
               PROVE  Together'
    OBVIOUS
  <1>1. CASE Next
    <2>1. calm
      BY <1>1 DEF Next, User, ClickConnect, Ask, AskTransfer, Loop, Threads, Connect,
         ConnectData, ReadMark, LoseMark, MoveData, Server, Serve, CondWait, ConnectBack,
         Drain, Complete, Forget
    <2> QED
      BY <1>1, <2>1, UserTogether, LoopTogether, ThreadsTogether, ServerTogether DEF Next
  <1>2. CASE UNCHANGED vars
    BY <1>2 DEF vars, Together, OneAtATime, MarksExpected, DataStage, Table, Own, Greeted,
       First, Reported, Due, Offered, Unconnected, Relisting, Sleeping
  <1> QED BY <1>1, <1>2

\* So it is always so.
LEMMA StayTogether == Spec => [](calm => Together)
  <1>1. Init => (calm => Together)
    BY InitTogether
  <1> QED BY <1>1, TogetherKept, CallbacksTyped, OneChain, PTL DEF Spec

\* While nothing untoward happens, the table that can be clicked is of the working
\* directory, unless its listing has failed.
THEOREM TableIsOfWd == Spec => []TableShowsWd
  <1>1. TypeOK /\ OneContinuation /\ (calm => Together) => TableShowsWd
    <2> SUFFICES ASSUME TypeOK, OneContinuation, Together, connected, ~busy, ~unlisted
                 PROVE  shown \in {wd, Empty}
      BY DEF TableShowsWd
    <2>1. Len(queue) = 0 /\ y \in {"none", "open"} /\ Nobody
      BY Alone
    <2>2. y = "none"
      BY <2>1 DEF Together, DataStage
    <2>3. ~Relisting
      <3>1. ASSUME Len(readers) = 1
            PROVE  readers[1].next = "NULL"
            /\ readers[1].to \in Transfers \cup {"completion"}
        BY <2>1, <3>1 DEF Nobody, Together, OneAtATime, Paired
      <3> QED BY <2>1, <2>2, <3>1 DEF Relisting, Transfers
    <2> QED BY <2>3 DEF Together, Table
  <1> QED BY <1>1, StayTogether, CallbacksTyped, OneChain, PTL

\* While nothing untoward happens, every reply is read by the reader that was started
\* for it.
THEOREM InStep == Spec => RepliesInStep
  <1> DEFINE A == \A i \in 1..Len(readers) : calm
  /\ ReadMark(i) => readers[i].to = Head(marks).of
  <1>1. TypeOK /\ OneContinuation /\ (calm => Together) => A
    <2> SUFFICES ASSUME TypeOK, OneContinuation, calm, Together,
                        NEW i \in 1..Len(readers), ReadMark(i)
                 PROVE  readers[i].to = Head(marks).of
      OBVIOUS
    <2>1. marks # <<>>
      BY DEF ReadMark
    <2> QED BY <2>1, ReadsItsOwn
  <1>2. Spec => [][A]_vars
    BY <1>1, StayTogether, CallbacksTyped, OneChain, PTL
  <1> QED
    BY <1>2 DEF RepliesInStep

=============================================================================
