------------------------- MODULE ReplyChannelProofs -------------------------
(***************************************************************************)
(* What is proved of ReplyChannel, for sessions of any length: the types,  *)
(* that replies sent under mutex_ctl are never mixed up, that nothing      *)
(* follows the 221, that completions follow their 150, and that the client *)
(* reads every reply that is not torn.                                     *)
(*                                                                         *)
(* The argument.  A thread sends under the lock only while it holds it,    *)
(* and what it has sent since the first piece is its own but for what is   *)
(* sent without (SendsUnderLock); so a piece it adds mixes it up with      *)
(* nothing, and one that another adds is not under the lock.               *)
(*                                                                         *)
(* A reply of two lines is together on the wire (InTurn): the welcome is   *)
(* sent before there is a data thread, and the reply to TYPE A under the   *)
(* lock.  What is read of a connection is a matter of one state, and goes  *)
(* by induction over its pieces: where the line begun begins (LineBegun),  *)
(* that the replies read are in the order of what they were sent as        *)
(* (RepliesInOrder), and that nothing is left between whole replies.       *)
(***************************************************************************)
EXTENDS ReplyReader, FiniteSetTheorems, SequenceTheorems, TLAPS

USE DEF Threads, Locks

Mark == [kind : Kinds, locked : BOOLEAN]
ControlPlaces == {"Idle", "Join", "Lock", "Send", "Goodbye", "Close", "Closed"}
DataPlaces == {"Off", "Starting", "Asleep", "AtWork", "Lock", "Send", "Leaving", "Exited"}
Places == ControlPlaces \cup DataPlaces

\* Begin adds a mark, which is locked or not by its kind, and changes no other.
LEMMA BeginMark ==
  ASSUME marks \in Seq(Mark), NEW t \in Threads, NEW kind \in Kinds, NEW at,
         Begin(t, kind, at)
  PROVE  /\ marks' \in Seq(Mark)
         /\ Len(marks') = Len(marks) + 1
         /\ \A m \in 1..Len(marks) : marks'[m] = marks[m]
         /\ marks'[Len(marks')].kind = kind
         /\ marks'[Len(marks')].locked = (kind \in Locked)
<1>1. [kind |-> kind, locked |-> kind \in Locked] \in Mark
  BY DEF Mark
<1> QED
  BY <1>1 DEF Begin

\* Beginning a mark keeps the marks apart: it is a new one, and not sent yet.
LEMMA BeginApart ==
  ASSUME ReplyInv, NEW t \in Threads, NEW kind \in Kinds, NEW at \in [Threads -> Places],
         \A u \in Threads \ {t} : at[u] = pc[u] \/ {at[u], pc[u]} \cap {"Lock", "Send"} = {},
         pc[t] # "Send", Begin(t, kind, at), UNCHANGED <<wire, mutex_ctl>>
  PROVE  /\ marks' \in Seq(Mark) /\ wire' \in Seq(1..Len(marks'))
         /\ mine' \in [Threads -> 0..Len(marks')]
         /\ mine'.control # mine'.data
         /\ \A u \in Threads : MarkBegun(u)' /\ SendsUnderLock(u)'
         /\ LockedMarksWhole'
         /\ GoodbyeIsLast'
<1>0. /\ marks \in Seq(Mark) /\ wire \in Seq(1..Len(marks))
      /\ mine \in [Threads -> 0..Len(marks)]
      /\ pc \in [Threads -> Places]
      /\ Len(marks) \in Nat /\ Len(wire) \in Nat
  BY DEF ReplyInv, TypeOK, Mark, Places, ControlPlaces, DataPlaces
<1>1. /\ marks' \in Seq(Mark)
      /\ Len(marks') = Len(marks) + 1
      /\ \A m \in 1..Len(marks) : marks'[m] = marks[m]
      /\ marks'[Len(marks')].locked = (kind \in Locked)
  BY <1>0, BeginMark
<1>2. wire' = wire /\ wire' \in Seq(1..Len(marks'))
  BY <1>0, <1>1
<1>3. mine' = [mine EXCEPT ![t] = Len(marks) + 1] /\ mine' \in [Threads -> 0..Len(marks')]
  BY <1>0, <1>1 DEF Begin
<1>4. pc' = [at EXCEPT ![t] = IF kind \in Locked THEN "Lock" ELSE "Send"]
  BY DEF Begin
<1>5. \A i \in 1..Len(wire) : wire[i] \in 1..Len(marks) /\ marks'[wire[i]] = marks[wire[i]]
  BY <1>0, <1>1
<1>6. mine'.control # mine'.data
  BY <1>0, <1>3
<1>7. ASSUME NEW u \in Threads
      PROVE  MarkBegun(u)' /\ SendsUnderLock(u)'
  <2>1. CASE u = t
    <3>1. mine'[u] = Len(marks) + 1 /\ pc'[u] = IF kind \in Locked THEN "Lock" ELSE "Send"
      BY <2>1, <1>0, <1>3, <1>4
    <3>2. MarkBegun(u)'
      <4>1. \A i \in 1..Len(wire') : wire'[i] # mine'[u]
        BY <3>1, <1>0, <1>2, <1>5
      <4>2. mine'[u] # 0 /\ marks'[mine'[u]].locked = (kind \in Locked)
        BY <3>1, <1>0, <1>1
      <4> QED
        BY <3>1, <4>1, <4>2 DEF MarkBegun
    <3>3. ~Locks(u)'
      BY <3>1, <1>0, <1>1
    <3>4. mutex_ctl' # u
      BY <2>1 DEF ReplyInv, SendsUnderLock
    <3>5. SendsUnderLock(u)'
      BY <3>3, <3>4 DEF SendsUnderLock
    <3> QED
      BY <3>2, <3>5
  <2>2. CASE u # t
    <3>1. /\ mine'[u] = mine[u]
          /\ pc'[u] = pc[u] \/ (pc'[u] \notin {"Lock", "Send"} /\ pc[u] \notin {"Lock", "Send"})
      BY <2>2, <1>0, <1>3, <1>4
    <3>2. MarkBegun(u) /\ SendsUnderLock(u)
      BY DEF ReplyInv
    <3>3. pc'[u] \in {"Lock", "Send"} => mine[u] \in 1..Len(marks)
      BY <3>1, <3>2, <1>0 DEF MarkBegun
    <3>4. MarkBegun(u)'
      BY <3>1, <3>2, <3>3, <1>1, <1>2 DEF MarkBegun
    <3>5. SendsUnderLock(u)'
      BY <3>1, <3>2, <3>3, <1>0, <1>1, <1>2, <1>5 DEF SendsUnderLock
    <3> QED
      BY <3>4, <3>5
  <2> QED
    BY <2>1, <2>2
<1>8. LockedMarksWhole'
  <2>1. LockedMarksWhole
    BY DEF ReplyInv
  <2>2. ASSUME NEW i \in 1..Len(wire), NEW k \in 1..Len(wire), NEW j \in i..k,
               i < k, wire[i] = wire[k], marks'[wire[i]].locked
        PROVE  wire[j] = wire[i] \/ ~marks'[wire[j]].locked
    <3>1. j \in 1..Len(wire) /\ marks[wire[i]].locked
      BY <2>2, <1>0, <1>5
    <3> QED
      BY <2>1, <2>2, <3>1, <1>5 DEF LockedMarksWhole
  <2> QED
    BY <2>2, <1>2 DEF LockedMarksWhole
<1>9. GoodbyeIsLast'
  <2>1. GoodbyeIsLast
    BY DEF ReplyInv
  <2> QED
    BY <2>1, <1>0, <1>2, <1>5 DEF GoodbyeIsLast
<1> QED
  BY <1>1, <1>2, <1>3, <1>6, <1>7, <1>8, <1>9

-----------------------------------------------------------------------------
(***************************************************************************)
(* One lemma for each action                                               *)
(***************************************************************************)
\* The types, without their sets written out.
LEMMA Types ==
  ASSUME ReplyInv
  PROVE  /\ marks \in Seq(Mark) /\ wire \in Seq(1..Len(marks))
         /\ mine \in [Threads -> 0..Len(marks)] /\ pc \in [Threads -> Places]
         /\ Len(marks) \in Nat /\ Len(wire) \in Nat
         /\ \A i \in 1..Len(wire) : wire[i] \in 1..Len(marks)
  BY DEF ReplyInv, TypeOK, Mark, Places, ControlPlaces, DataPlaces

\* When the control thread is not at the reply to QUIT, none has been begun.
LEMMA NoQuit ==
  ASSUME ReplyInv, pc.control \notin {"Send", "Close", "Closed"} \/ pc.data # "Off"
  PROVE  \A m \in 1..Len(marks) : marks[m].kind # "QUIT"
  BY DEF ReplyInv, QuitEnds

\* A mark begun that is no answer to QUIT, when there is none.
LEMMA QuitNotBegun ==
  ASSUME ReplyInv, NEW t \in Threads, NEW kind \in Kinds, NEW at,
         Begin(t, kind, at), kind # "QUIT",
         pc.control \notin {"Send", "Close", "Closed"} \/ pc.data # "Off"
  PROVE  QuitEnds'
<1>1. \A m \in 1..Len(marks) : marks'[m] = marks[m] /\ marks[m].kind # "QUIT"
  BY Types, BeginMark, NoQuit
<1>2. Len(marks') = Len(marks) + 1 /\ marks'[Len(marks')].kind = kind /\ Len(marks) \in Nat
  BY Types, BeginMark
<1>3. \A m \in 1..Len(marks') : marks'[m].kind # "QUIT"
  BY <1>1, <1>2
<1> QED
  BY <1>3 DEF QuitEnds

LEMMA ReceiveKeeps ==
  ASSUME ReplyInv, NEW h \in Hands, Receive(h)
  PROVE  ReplyInv'
<1>1. pc.control = "Idle" /\ UNCHANGED <<wire, mutex_ctl>> /\ hand' = h
  BY DEF Receive
<1>2. file' \in BOOLEAN
  BY DEF Receive, ReplyInv, TypeOK
<1>3. CASE h \in JoinsFirst
  <2>1. pc' = [pc EXCEPT !["control"] = "Join"] /\ running' = FALSE /\ UNCHANGED <<marks, mine>>
    BY <1>3 DEF Receive
  <2>2. TypeOK'
    BY <1>1, <1>2, <2>1 DEF ReplyInv, TypeOK
  <2>3. \A t \in Threads : MarkBegun(t)' /\ SendsUnderLock(t)'
    BY Types, <1>1, <2>1 DEF ReplyInv, MarkBegun, SendsUnderLock
  <2>4. QuitEnds'
    BY NoQuit, <1>1, <2>1 DEF QuitEnds
  <2> QED
    BY <1>1, <2>1, <2>2, <2>3, <2>4 DEF ReplyInv, LockedMarksWhole, GoodbyeIsLast
<1>4. CASE h \notin JoinsFirst
  <2>1. Begin("control", h, pc) /\ UNCHANGED running /\ h \in Kinds /\ h # "QUIT"
    BY <1>4 DEF Receive, Kinds, JoinsFirst
  <2>2. /\ marks' \in Seq(Mark) /\ wire' \in Seq(1..Len(marks'))
        /\ mine' \in [Threads -> 0..Len(marks')]
        /\ mine'.control # mine'.data
        /\ \A u \in Threads : MarkBegun(u)' /\ SendsUnderLock(u)'
        /\ LockedMarksWhole' /\ GoodbyeIsLast'
    BY <1>1, <2>1, Types, BeginApart
  <2>3. pc' = [pc EXCEPT !["control"] = IF h \in Locked THEN "Lock" ELSE "Send"]
    BY <2>1 DEF Begin
  <2>4. TypeOK'
    BY <1>1, <1>2, <2>1, <2>2, <2>3 DEF ReplyInv, TypeOK, Mark
  <2>5. QuitEnds'
    BY <1>1, <2>1, QuitNotBegun
  <2> QED
    BY <2>2, <2>4, <2>5 DEF ReplyInv
<1> QED
  BY <1>3, <1>4

LEMMA WriteKeeps ==
  ASSUME ReplyInv, NEW t \in Threads, Write(t)
  PROVE  ReplyInv'
<1> DEFINE m == mine[t]
           n == Len(wire)
<1>1. pc[t] = "Send" /\ UNCHANGED <<marks, mutex_ctl, pc, mine, hand, file, running>>
  BY DEF Write
<1>2. m \in 1..Len(marks) /\ n \in Nat
  BY <1>1, Types DEF ReplyInv, MarkBegun
<1>3. /\ wire' \in Seq(1..Len(marks)) /\ Len(wire') = n + 1
      /\ wire'[n + 1] = m /\ \A i \in 1..n : wire'[i] = wire[i]
  BY <1>2, Types DEF Write
<1>4. TypeOK'
  BY <1>1, <1>3 DEF ReplyInv, TypeOK
<1>5. ASSUME NEW u \in Threads
      PROVE  MarkBegun(u)' /\ SendsUnderLock(u)'
  <2>1. MarkBegun(u) /\ SendsUnderLock(u) /\ SendsUnderLock(t)
    BY DEF ReplyInv
  <2>2. CASE u = t
    <3>1. MarkBegun(u)'
      BY <1>1, <2>1, <2>2 DEF MarkBegun
    <3>2. ASSUME marks[m].locked, NEW i \in 1..(n + 1), wire'[i] = m, NEW j \in i..(n + 1)
          PROVE  wire'[j] = m \/ ~marks[wire'[j]].locked
      <4>1. CASE j = n + 1
        BY <1>3, <4>1
      <4>2. CASE j # n + 1
        <5>1. i \in 1..n /\ j \in i..n
          BY <1>2, <3>2, <4>2
        <5> QED
          BY <1>1, <1>3, <2>1, <3>2, <5>1 DEF SendsUnderLock
      <4> QED
        BY <4>1, <4>2
    <3> QED
      BY <1>1, <1>3, <2>1, <2>2, <3>1, <3>2 DEF SendsUnderLock
  <2>3. CASE u # t
    <3>1. mine[u] # m
      BY <2>3 DEF ReplyInv
    <3>2. MarkBegun(u)'
      BY <1>1, <1>2, <1>3, <2>1, <3>1 DEF MarkBegun
    <3>3. pc[u] = "Send" /\ marks[mine[u]].locked => ~marks[m].locked
      BY <1>1, <2>1, <2>3 DEF SendsUnderLock
    <3>4. ASSUME pc[u] = "Send", marks[mine[u]].locked,
                 NEW i \in 1..(n + 1), wire'[i] = mine[u], NEW j \in i..(n + 1)
          PROVE  wire'[j] = mine[u] \/ ~marks[wire'[j]].locked
      BY <1>2, <1>3, <2>1, <3>1, <3>3, <3>4 DEF SendsUnderLock
    <3> QED
      BY <1>1, <1>3, <2>1, <3>2, <3>4 DEF SendsUnderLock
  <2> QED
    BY <2>2, <2>3
<1>6. LockedMarksWhole'
  <2>1. ASSUME NEW i \in 1..(n + 1), NEW k \in 1..(n + 1), NEW j \in i..k,
               i < k, wire'[i] = wire'[k], marks[wire'[i]].locked
        PROVE  wire'[j] = wire'[i] \/ ~marks[wire'[j]].locked
    <3>1. CASE k = n + 1
      <4>1. i \in 1..n /\ wire[i] = m /\ marks[m].locked
        BY <1>2, <1>3, <2>1, <3>1
      <4>2. SendsUnderLock(t)
        BY DEF ReplyInv
      <4> QED
        BY <1>1, <1>2, <1>3, <2>1, <3>1, <4>1, <4>2 DEF SendsUnderLock
    <3>2. CASE k # n + 1
      <4>1. i \in 1..n /\ k \in 1..n /\ j \in 1..n
        BY <1>2, <2>1, <3>2
      <4>2. LockedMarksWhole
        BY DEF ReplyInv
      <4> QED
        BY <1>3, <2>1, <4>1, <4>2 DEF LockedMarksWhole
    <3> QED
      BY <3>1, <3>2
  <2> QED
    BY <1>1, <1>3, <2>1 DEF LockedMarksWhole
<1>7. GoodbyeIsLast'
  <2>1. ASSUME NEW i \in 1..(n + 1), NEW k \in 1..(n + 1), i < k,
               marks[wire'[i]].kind = "QUIT"
        PROVE  wire'[k] = wire'[i]
    <3>1. i \in 1..n /\ wire'[i] = wire[i] /\ wire[i] \in 1..Len(marks)
      BY <1>2, <1>3, <2>1, Types
    <3>2. CASE k = n + 1
      <4>1. wire[i] = mine.control /\ pc.data = "Off"
        BY <2>1, <3>1 DEF ReplyInv, QuitEnds
      <4> QED
        BY <1>1, <1>3, <3>1, <3>2, <4>1
    <3>3. CASE k # n + 1
      <4>1. k \in 1..n /\ wire'[k] = wire[k]
        BY <1>2, <1>3, <3>3
      <4>2. GoodbyeIsLast
        BY DEF ReplyInv
      <4> QED
        BY <2>1, <3>1, <4>1, <4>2 DEF GoodbyeIsLast
    <3> QED
      BY <3>2, <3>3
  <2> QED
    BY <1>1, <1>3, <2>1 DEF GoodbyeIsLast
<1>8. QuitEnds' /\ mine'.control # mine'.data
  BY <1>1 DEF ReplyInv, QuitEnds
<1> QED
  BY <1>4, <1>5, <1>6, <1>7, <1>8 DEF ReplyInv

\* What a join leads to: an answer that is to QUIT only if that was to be answered,
\* and a data thread only if there was none.
LEMMA JoinIs ==
  ASSUME ReplyInv, Join
  PROVE  \E h \in Hands \cup {"shutdown"}, place \in {"Off", "Starting", "AtWork"} :
           /\ Joined(h, place)
           /\ h = "QUIT" => hand = "QUIT" /\ place = "Off"
           /\ place = "AtWork" => hand = "PASV"
           /\ h = "transfer" => hand = "transfer"
           /\ running' \in BOOLEAN
<1>1. hand \in Hands \cup {"shutdown"} /\ "plain" \in Hands /\ "PORT" \in Hands /\ "PASV" \in Hands
  BY DEF ReplyInv, TypeOK, Hands, Modes
<1>2. CASE hand \in {"ABOR", "QUIT"} /\ Joined(hand, "Off") /\ running' = FALSE
  BY <1>1, <1>2
<1>3. CASE hand = "PORT" /\ Joined("PORT", "Starting") /\ running' = TRUE
  BY <1>1, <1>3
<1>4. CASE hand = "PASV" /\ Joined("PASV", "AtWork") /\ running' = TRUE
  BY <1>1, <1>4
<1>5. CASE hand = "PORT" /\ Joined("plain", "Off") /\ running' = FALSE
  BY <1>1, <1>5
<1>6. CASE hand \in Modes /\ Joined("shutdown", "Off") /\ running' \in {hand = "PORT", TRUE}
  BY <1>1, <1>6
<1> QED
  BY <1>2, <1>3, <1>4, <1>5, <1>6 DEF Join

LEMMA JoinKeeps ==
  ASSUME ReplyInv, Join
  PROVE  ReplyInv'
<1>0. PICK h \in Hands \cup {"shutdown"}, place \in {"Off", "Starting", "AtWork"} :
         /\ Joined(h, place)
         /\ h = "QUIT" => hand = "QUIT" /\ place = "Off"
         /\ running' \in BOOLEAN
  BY JoinIs
<1> DEFINE at == [pc EXCEPT !["data"] = place]
<1>1. /\ pc.control = "Join" /\ Begin("control", h, at)
      /\ UNCHANGED <<wire, mutex_ctl, file>> /\ hand' = h
  BY <1>0 DEF Joined
<1>2. h \in Kinds /\ at \in [Threads -> Places]
  BY Types DEF Kinds, Places, DataPlaces
<1>3. \A u \in Threads \ {"control"} : {at[u], pc[u]} \cap {"Lock", "Send"} = {}
  BY <1>0, Types DEF Joined
<1>4. /\ marks' \in Seq(Mark) /\ wire' \in Seq(1..Len(marks'))
      /\ mine' \in [Threads -> 0..Len(marks')]
      /\ mine'.control # mine'.data
      /\ \A u \in Threads : MarkBegun(u)' /\ SendsUnderLock(u)'
      /\ LockedMarksWhole' /\ GoodbyeIsLast'
  BY <1>1, <1>2, <1>3, BeginApart
<1>5. pc' = [at EXCEPT !["control"] = IF h \in Locked THEN "Lock" ELSE "Send"]
  BY <1>1 DEF Begin
<1>6. TypeOK'
  <2>1. TypeOK
    BY DEF ReplyInv
  <2> QED
    BY <1>0, <1>1, <1>2, <1>4, <1>5, <2>1 DEF TypeOK, Mark, Places, ControlPlaces, DataPlaces
<1>7. QuitEnds'
  <2>1. CASE h # "QUIT"
    BY <1>1, <1>2, <2>1, QuitNotBegun
  <2>2. CASE h = "QUIT"
    <3>1. \A k \in 1..Len(marks) : marks'[k] = marks[k] /\ marks[k].kind # "QUIT"
      BY <1>1, <1>2, Types, BeginMark, NoQuit
    <3>2. Len(marks') = Len(marks) + 1 /\ Len(marks) \in Nat
      BY <1>1, <1>2, Types, BeginMark
    <3>3. mine'.control = Len(marks')
      BY <1>1, Types DEF Begin
    <3>4. pc'.control = "Send" /\ pc'.data = "Off"
      BY <1>0, <1>5, <2>2, Types DEF Locked, Modes
    <3> QED
      BY <1>1, <2>2, <3>1, <3>2, <3>3, <3>4 DEF QuitEnds
  <2> QED
    BY <2>1, <2>2
<1> QED
  BY <1>4, <1>6, <1>7 DEF ReplyInv

LEMMA GoodbyeKeeps ==
  ASSUME ReplyInv, Goodbye
  PROVE  ReplyInv'
<1>1. /\ pc.control = "Goodbye" /\ Begin("control", "EOF", pc) /\ hand' = "EOF"
      /\ UNCHANGED <<wire, mutex_ctl, file, running>>
  BY DEF Goodbye
<1>2. "EOF" \in Kinds /\ "EOF" \in Hands /\ "EOF" \notin Locked
  BY DEF Kinds, Hands, Locked, Modes
<1>3. /\ marks' \in Seq(Mark) /\ wire' \in Seq(1..Len(marks'))
      /\ mine' \in [Threads -> 0..Len(marks')]
      /\ mine'.control # mine'.data
      /\ \A u \in Threads : MarkBegun(u)' /\ SendsUnderLock(u)'
      /\ LockedMarksWhole' /\ GoodbyeIsLast'
  BY <1>1, <1>2, Types, BeginApart
<1>4. pc' = [pc EXCEPT !["control"] = "Send"]
  BY <1>1, <1>2 DEF Begin
<1>5. TypeOK'
  BY <1>1, <1>2, <1>3, <1>4 DEF ReplyInv, TypeOK, Mark
<1>6. QuitEnds'
  BY <1>1, <1>2, QuitNotBegun
<1> QED
  BY <1>3, <1>5, <1>6 DEF ReplyInv

LEMMA FinishKeeps ==
  ASSUME ReplyInv, Finish
  PROVE  ReplyInv'
<1>1. PICK kind \in {"done", "failed"} : Begin("data", kind, pc) /\ file' = (kind = "failed")
  BY DEF Finish
<1>2. pc.data = "AtWork" /\ UNCHANGED <<wire, mutex_ctl, hand, running>>
  BY DEF Finish
<1>3. kind \in Kinds /\ kind # "QUIT"
  BY DEF Kinds
<1>4. /\ marks' \in Seq(Mark) /\ wire' \in Seq(1..Len(marks'))
      /\ mine' \in [Threads -> 0..Len(marks')]
      /\ mine'.control # mine'.data
      /\ \A u \in Threads : MarkBegun(u)' /\ SendsUnderLock(u)'
      /\ LockedMarksWhole' /\ GoodbyeIsLast'
  BY <1>1, <1>2, <1>3, Types, BeginApart
<1>5. pc' = [pc EXCEPT !["data"] = "Lock"]
  BY <1>1 DEF Begin, Locked
<1>6. TypeOK'
  BY <1>1, <1>2, <1>4, <1>5 DEF ReplyInv, TypeOK, Mark
<1>7. QuitEnds'
  BY <1>1, <1>2, <1>3, QuitNotBegun
<1> QED
  BY <1>4, <1>6, <1>7 DEF ReplyInv

\* A step of thread t that begins and writes nothing, or of none.
Quiet(t) ==
  /\ pc'[t] = "Lock" => pc[t] = "Lock"
  /\ pc'[t] = "Send" => pc[t] \in {"Lock", "Send"}
  /\ Locks(t)' <=> mutex_ctl' = t

\* It is a matter of pc and the lock.
LEMMA QuietStep ==
  ASSUME ReplyInv, UNCHANGED <<marks, wire, mine, hand>>, TypeOK', QuitEnds',
         \A t \in Threads : Quiet(t)
  PROVE  ReplyInv'
<1>1. ASSUME NEW t \in Threads
      PROVE  MarkBegun(t)' /\ SendsUnderLock(t)'
  <2>1. MarkBegun(t) /\ SendsUnderLock(t) /\ Quiet(t)
    BY DEF ReplyInv
  <2>2. wire' = wire /\ marks' = marks /\ mine' = mine
    OBVIOUS
  <2>3. MarkBegun(t)'
    BY <2>1, <2>2 DEF MarkBegun, Quiet
  <2>4. pc[t] = "Lock" => \A i \in 1..Len(wire) : wire[i] # mine[t]
    BY <2>1 DEF MarkBegun
  <2>5. SendsUnderLock(t)'
    BY <2>1, <2>2, <2>4 DEF SendsUnderLock, Quiet
  <2> QED
    BY <2>3, <2>5
<1> QED
  BY <1>1 DEF ReplyInv, LockedMarksWhole, GoodbyeIsLast

LEMMA CloseKeeps ==
  ASSUME ReplyInv, Close
  PROVE  ReplyInv'
<1>1. TypeOK'
  BY DEF ReplyInv, TypeOK, Close
<1>2. QuitEnds'
  BY DEF ReplyInv, QuitEnds, Close
<1> QED
  BY <1>1, <1>2, Types, QuietStep DEF Quiet, Close, ReplyInv, SendsUnderLock

\* The data thread goes to sleep, stops, or is ready.
LEMMA DataKeeps ==
  ASSUME ReplyInv, CondWait \/ Stop \/ SetReady
  PROVE  ReplyInv'
<1>1. PICK place \in {"Asleep", "Exited"} : pc' = [pc EXCEPT !["data"] = place]
  BY DEF CondWait, Stop, SetReady
<1>2. /\ pc.data \in {"Starting", "AtWork", "Leaving"} /\ file' \in BOOLEAN
      /\ UNCHANGED <<marks, wire, mutex_ctl, mine, hand, running>>
  BY DEF CondWait, Stop, SetReady, ReplyInv, TypeOK
<1>3. TypeOK'
  BY <1>1, <1>2 DEF ReplyInv, TypeOK
<1>4. QuitEnds'
  BY <1>1, <1>2 DEF ReplyInv, QuitEnds
<1> QED
  BY <1>1, <1>2, <1>3, <1>4, Types, QuietStep DEF Quiet, ReplyInv, SendsUnderLock

LEMMA LockKeeps ==
  ASSUME ReplyInv, NEW t \in Threads, Lock(t)
  PROVE  ReplyInv'
<1>1. pc' = [pc EXCEPT ![t] = "Send"] /\ mutex_ctl = "nobody" /\ mutex_ctl' = t
  BY DEF Lock, Free
<1>2. TypeOK'
  BY <1>1 DEF ReplyInv, TypeOK, Lock
<1>3. QuitEnds'
  BY <1>1 DEF ReplyInv, QuitEnds, Lock
<1>4. ASSUME NEW u \in Threads
      PROVE  Quiet(u)
  <2>1. MarkBegun(u) /\ SendsUnderLock(u) /\ UNCHANGED <<marks, mine>>
    BY DEF ReplyInv, Lock
  <2>2. CASE u = t
    BY <1>1, <2>1, <2>2, Types DEF Quiet, Lock, MarkBegun
  <2>3. CASE u # t
    BY <1>1, <2>1, <2>3, Types DEF Quiet, SendsUnderLock
  <2> QED
    BY <2>2, <2>3
<1> QED
  BY <1>2, <1>3, <1>4, QuietStep DEF Lock

LEMMA SentKeeps ==
  ASSUME ReplyInv, NEW t \in Threads, Sent(t)
  PROVE  ReplyInv'
<1>1. /\ pc[t] = "Send" /\ UNCHANGED <<marks, wire, mine, hand>>
      /\ mutex_ctl' = IF marks[mine[t]].locked THEN "nobody" ELSE mutex_ctl
  BY DEF Sent, Unlock
<1>2. /\ pc'[t] \in ControlPlaces \cup DataPlaces /\ pc'[t] \notin {"Lock", "Send"}
      /\ \A u \in Threads \ {t} :
           pc'[u] = pc[u] \/ (u = "data" /\ pc[u] = "Asleep" /\ pc'[u] = "AtWork")
      /\ pc' \in [Threads -> Places]
      /\ pc'.control \in ControlPlaces /\ pc'.data \in DataPlaces
      /\ hand = "QUIT" => /\ t = "control" => pc'.control = "Close"
                          /\ t = "data" => pc'.control = pc.control
  <2>1. pc.control \in ControlPlaces /\ pc.data \in DataPlaces /\ pc \in [Threads -> Places]
    BY Types DEF ReplyInv, TypeOK, ControlPlaces, DataPlaces
  <2>2. CASE t = "control"
    <3>1. Onward \in {"Close", "Goodbye", "Idle"} /\ (hand = "QUIT" => Onward = "Close")
      BY DEF Onward
    <3>2. pc' = [control |-> Onward,
                 data |-> IF Signals("Send") /\ pc.data = "Asleep" THEN "AtWork" ELSE pc.data]
      BY <2>2 DEF Sent, SentByControl
    <3> QED
      BY <2>1, <2>2, <3>1, <3>2 DEF Places, ControlPlaces, DataPlaces
  <2>3. CASE t = "data"
    <3>1. PICK place \in {"Leaving", "Exited"} : pc' = [pc EXCEPT !["data"] = place]
      BY <2>3 DEF Sent, SentByData
    <3> QED
      BY <2>1, <2>3, <3>1 DEF Places, ControlPlaces, DataPlaces
  <2> QED
    BY <2>2, <2>3
<1>3. TypeOK'
  <2>1. TypeOK /\ SendsUnderLock(t)
    BY DEF ReplyInv
  <2>2. running' \in BOOLEAN /\ file' \in BOOLEAN
    BY <2>1 DEF TypeOK, Sent, SentByControl, SentByData
  <2>3. mutex_ctl' \in {"nobody"} \cup Threads
    BY <1>1, <2>1 DEF TypeOK
  <2> QED
    BY <1>1, <1>2, <2>1, <2>2, <2>3 DEF TypeOK, Places, ControlPlaces, DataPlaces
<1>4. QuitEnds'
  <2>1. QuitEnds /\ (pc.data = "Off" => t = "control")
    BY <1>1 DEF ReplyInv
  <2> QED
    BY <1>1, <1>2, <2>1 DEF QuitEnds
<1> QED
  BY <1>1, <1>2, <1>3, <1>4, Types, QuietStep DEF Quiet, ReplyInv, SendsUnderLock

-----------------------------------------------------------------------------
\* The welcome is being sent, and there is no data thread.
LEMMA InitInv == Init => ReplyInv
<1> SUFFICES ASSUME Init
             PROVE  ReplyInv
  OBVIOUS
<1>1. /\ Len(marks) = 1 /\ marks[1].kind = "welcome" /\ marks[1].locked = FALSE
      /\ marks \in Seq([kind : Kinds, locked : BOOLEAN])
  BY DEF Init, Kinds
<1>2. wire \in Seq(1..Len(marks)) /\ Len(wire) = 0
  BY DEF Init
<1>3. TypeOK
  <2>1. pc \in [Threads -> Places] /\ pc.control = "Send" /\ pc.data = "Off"
    BY DEF Init, Places, ControlPlaces, DataPlaces
  <2>2. mine \in [Threads -> 0..Len(marks)]
    BY <1>1 DEF Init
  <2> QED
    BY <1>1, <1>2, <2>1, <2>2 DEF Init, TypeOK, Hands, Places, ControlPlaces, DataPlaces
<1>4. \A t \in Threads : MarkBegun(t) /\ SendsUnderLock(t)
  BY <1>1, <1>2 DEF Init, MarkBegun, SendsUnderLock
<1>5. mine.control # mine.data
  BY DEF Init
<1>6. LockedMarksWhole /\ QuitEnds /\ GoodbyeIsLast
  BY <1>1, <1>2 DEF LockedMarksWhole, QuitEnds, GoodbyeIsLast
<1> QED
  BY <1>3, <1>4, <1>5, <1>6 DEF ReplyInv

LEMMA InvKept == ReplyInv /\ [Next]_vars => ReplyInv'
<1> SUFFICES ASSUME ReplyInv, [Next]_vars
             PROVE  ReplyInv'
  OBVIOUS
<1>1. ASSUME NEW h \in Hands, Receive(h)
      PROVE  ReplyInv'
  BY <1>1, ReceiveKeeps
<1>2. CASE ControlStep
  BY <1>2, JoinKeeps, GoodbyeKeeps, CloseKeeps, LockKeeps, WriteKeeps, SentKeeps DEF ControlStep
<1>3. CASE DataStep
  BY <1>3, DataKeeps, LockKeeps, WriteKeeps, SentKeeps DEF DataStep
<1>4. CASE Finish
  BY <1>4, FinishKeeps
<1>5. CASE UNCHANGED vars
  BY <1>5 DEF vars, ReplyInv, TypeOK, MarkBegun, SendsUnderLock, LockedMarksWhole,
              QuitEnds, GoodbyeIsLast
<1> QED
  BY <1>1, <1>2, <1>3, <1>4, <1>5 DEF Next, Over

\* The inductive invariant holds in a session of any number of replies, which
\* mark() sends in any order the two threads are scheduled in.
THEOREM RepliesKept == Spec => []ReplyInv
<1>1. Init => ReplyInv
  BY InitInv
<1>2. ReplyInv /\ [Next]_vars => ReplyInv'
  BY InvKept
<1> QED
  BY <1>1, <1>2, PTL DEF Spec

\* No two replies that are sent by mark() are mixed up on the connection.
THEOREM MarksStayWhole == Spec => []LockedMarksWhole
<1>1. ReplyInv => LockedMarksWhole
  BY DEF ReplyInv
<1> QED
  BY <1>1, RepliesKept, PTL

\* Nothing is sent after the 221, or into it.
THEOREM NothingAfterGoodbye == Spec => []GoodbyeIsLast
<1>1. ReplyInv => GoodbyeIsLast
  BY DEF ReplyInv
<1> QED
  BY <1>1, RepliesKept, PTL

-----------------------------------------------------------------------------
(***************************************************************************)
(* Completions and acceptances are counted.  A data thread has a file only *)
(* when the 150 is whole on the wire, and gives it up with the completion  *)
(* it begins.                                                              *)
(***************************************************************************)
LEMMA Subsets ==
  ASSUME NEW n \in Nat, NEW S \in SUBSET (1..n), NEW T \in SUBSET S
  PROVE  /\ IsFiniteSet(S) /\ IsFiniteSet(T)
         /\ Cardinality(S) \in Nat /\ Cardinality(T) \in Nat
         /\ Cardinality(T) <= Cardinality(S)
<1>1. IsFiniteSet(1..n)
  BY FS_Interval
<1>2. IsFiniteSet(S)
  BY <1>1, FS_Subset
<1>3. IsFiniteSet(T) /\ Cardinality(T) <= Cardinality(S)
  BY <1>2, FS_Subset
<1> QED
  BY <1>2, <1>3, FS_CardinalityType

AllAccepted == Accepted(Len(wire))

\* A mark begun is counted when it is a completion, and is no whole acceptance.
LEMMA BeginCounts ==
  ASSUME ReplyInv, NEW t \in Threads, NEW kind \in Kinds, NEW at,
         Begin(t, kind, at), UNCHANGED wire
  PROVE  /\ Completions' = Completions \cup
              (IF kind \in {"done", "failed"} THEN {Len(marks) + 1} ELSE {})
         /\ Len(marks) + 1 \notin Completions
         /\ AllAccepted' = AllAccepted
         /\ \A i \in 1..Len(wire) : Reported(i)' = Reported(i) /\ Accepted(i)' = Accepted(i)
<1>0. PICK n \in Nat : n = Len(marks)
  BY Types
<1>1. /\ n \in Nat /\ Len(marks') = n + 1 /\ marks'[n + 1].kind = kind
      /\ \A m \in 1..n : marks'[m] = marks[m]
      /\ Len(wire) \in Nat /\ \A i \in 1..Len(wire) : wire[i] \in 1..n
  BY <1>0, Types, BeginMark
<1>2. Completions' = Completions \cup (IF kind \in {"done", "failed"} THEN {n + 1} ELSE {})
      /\ n + 1 \notin Completions
  BY <1>0, <1>1 DEF Completions
<1>3. ASSUME NEW i \in 0..Len(wire)
      PROVE  Reported(i)' = Reported(i) /\ Accepted(i)' = Accepted(i)
  <2>1. \A k \in 1..i : wire'[k] = wire[k] /\ wire[k] \in 1..n
    BY <1>1
  <2>2. Reported(i)' = Reported(i)
    BY <1>0, <1>1, <1>2, <2>1 DEF Reported
  <2>3. \A m \in 1..n : Pieces(m)' = Pieces(m) /\ WrittenBy(m, i)' = WrittenBy(m, i)
    BY <1>0, <1>1 DEF Pieces, Lines, WrittenBy
  <2>4. WrittenBy(n + 1, i)' # Pieces(n + 1)'
    <3>1. {k \in 1..i : wire'[k] = n + 1} = {}
      BY <1>1, <2>1
    <3>2. WrittenBy(n + 1, i)' = 0
      BY <3>1, FS_EmptySet DEF WrittenBy
    <3>3. Pieces(n + 1)' \in {3, 6}
      BY DEF Pieces, Lines
    <3> QED
      BY <3>2, <3>3
  <2>5. Accepted(i)' = Accepted(i)
    <3>1. \A m : m \in Accepted(i)' <=> m \in 1..n /\ m \in Accepted(i)'
      BY <1>0, <1>1, <2>4 DEF Accepted
    <3>2. \A m \in 1..n : m \in Accepted(i)' <=> m \in Accepted(i)
      BY <1>0, <1>1, <2>3 DEF Accepted
    <3> QED
      BY <1>0, <3>1, <3>2 DEF Accepted
  <2> QED
    BY <2>2, <2>5
<1>4. AllAccepted' = AllAccepted
  <2>1. PICK i \in 0..Len(wire) : i = Len(wire) /\ i = Len(wire')
    BY <1>1
  <2> QED
    BY <1>3, <2>1 DEF AllAccepted
<1> QED
  BY <1>0, <1>2, <1>3, <1>4

\* A piece written adds to neither what is reported of the pieces before it nor to
\* what is begun; what was whole stays so.
LEMMA WriteCounts ==
  ASSUME ReplyInv, NEW t \in Threads, Write(t)
  PROVE  /\ Completions' = Completions
         /\ AllAccepted \subseteq AllAccepted'
         /\ Len(wire') = Len(wire) + 1
         /\ \A i \in 1..Len(wire) : Reported(i)' = Reported(i) /\ Accepted(i)' = Accepted(i)
<1>0. PICK n \in Nat : n = Len(wire)
  BY Types
<1>1. /\ pc[t] = "Send" /\ UNCHANGED marks /\ Written(mine[t]) < Pieces(mine[t])
      /\ n \in Nat /\ mine[t] \in 1..Len(marks)
  BY <1>0, Types DEF Write, ReplyInv, MarkBegun
<1>2. /\ Len(wire') = n + 1 /\ wire'[n + 1] = mine[t] /\ \A i \in 1..n : wire'[i] = wire[i]
  BY <1>0, <1>1, Types DEF Write
<1>3. Completions' = Completions
  BY <1>1 DEF Completions
<1>4. ASSUME NEW i \in 1..n
      PROVE  Reported(i)' = Reported(i) /\ Accepted(i)' = Accepted(i)
  <2>1. \A k \in 1..i : wire'[k] = wire[k]
    BY <1>1, <1>2
  <2>2. Reported(i)' = Reported(i)
    BY <1>1, <1>3, <2>1 DEF Reported
  <2>3. ASSUME NEW m
        PROVE  WrittenBy(m, i)' = WrittenBy(m, i) /\ Pieces(m)' = Pieces(m)
    <3>1. {k \in 1..i : wire'[k] = m} = {k \in 1..i : wire[k] = m}
      BY <2>1
    <3> QED
      BY <1>1, <3>1 DEF WrittenBy, Pieces, Lines
  <2> QED
    BY <1>1, <2>2, <2>3 DEF Accepted
<1>5. ASSUME NEW m \in AllAccepted
      PROVE  m \in AllAccepted'
  <2>1. m \in 1..Len(marks) /\ marks[m].kind = "transfer" /\ WrittenBy(m, n) = Pieces(m)
    BY <1>0 DEF AllAccepted, Accepted
  <2>2. m # mine[t]
    <3>1. WrittenBy(m, n) = Written(m) /\ Pieces(m) \in {3, 6}
      BY <1>0 DEF WrittenBy, Written, Pieces, Lines
    <3>2. Written(m) = Pieces(m) /\ ~(Written(m) < Pieces(m))
      BY <2>1, <3>1
    <3> QED
      BY <1>1, <3>2
  <2>3. {k \in 1..(n + 1) : wire'[k] = m} = {k \in 1..n : wire[k] = m}
    BY <1>1, <1>2, <2>2
  <2>4. WrittenBy(m, n + 1)' = WrittenBy(m, n)
    BY <2>3 DEF WrittenBy
  <2>5. Pieces(m)' = Pieces(m) /\ n + 1 = Len(wire')
    BY <1>1, <1>2 DEF Pieces, Lines
  <2>6. m \in Accepted(n + 1)'
    BY <1>1, <2>1, <2>4, <2>5 DEF Accepted
  <2> QED
    BY <2>5, <2>6 DEF AllAccepted
<1> QED
  BY <1>0, <1>2, <1>3, <1>4, <1>5

\* What is counted can be counted.
LEMMA Counts ==
  ASSUME ReplyInv
  PROVE  /\ Cardinality(Completions) \in Nat /\ IsFiniteSet(Completions)
         /\ Cardinality(AllAccepted) \in Nat /\ IsFiniteSet(AllAccepted)
         /\ \A m : Cardinality(AllAccepted \ {m}) <= Cardinality(AllAccepted)
<1>1. Len(marks) \in Nat
  BY Types
<1>2. Completions \in SUBSET (1..Len(marks)) /\ AllAccepted \in SUBSET (1..Len(marks))
  BY DEF Completions, AllAccepted, Accepted
<1> QED
  BY <1>1, <1>2, Subsets

\* CompletionsAwaited is about how many there are; a mark begun or no mark at all
\* keeps what it says of the connection.
LEMMA CountsKept ==
  ASSUME ReplyInv, CompletionsAwaited, wire' = wire,
         \A i \in 1..Len(wire) : Reported(i)' = Reported(i) /\ Accepted(i)' = Accepted(i)
  PROVE  CompletionAfterAcceptance'
BY DEF CompletionsAwaited, CompletionAfterAcceptance

LEMMA QuietCounts ==
  ASSUME ReplyInv, CompletionsAwaited, UNCHANGED <<marks, wire>>
  PROVE  /\ Completions' = Completions /\ AllAccepted' = AllAccepted
         /\ CompletionAfterAcceptance'
<1>1. /\ Completions' = Completions
      /\ AllAccepted' = AllAccepted
      /\ \A i \in 1..Len(wire) : Reported(i)' = Reported(i) /\ Accepted(i)' = Accepted(i)
  BY DEF Completions, AllAccepted, Reported, Accepted, WrittenBy, Pieces, Lines
<1> QED
  BY <1>1, CountsKept

\* A transfer is accepted with no file waiting, and all that is done answered.
LEMMA ReceiveAwaits ==
  ASSUME ReplyInv, CompletionsAwaited, NEW h \in Hands, Receive(h)
  PROVE  CompletionsAwaited'
<1> USE DEF CompletionsAwaited, InFlight
<1>1. /\ pc.control = "Idle" /\ UNCHANGED wire /\ hand' = h /\ file' = file
      /\ h \in Modes \cup {"transfer"} => ~file
  BY DEF Receive, Signals, ReplyInv, TypeOK
<1>2. CASE h \in JoinsFirst
  <2>1. /\ pc'.control = "Join" /\ pc'.data = pc.data /\ UNCHANGED <<marks, mine>>
    BY <1>2, Types DEF Receive
  <2> QED
    BY <1>1, <1>2, <2>1, QuietCounts DEF AllAccepted, JoinsFirst, Modes
<1>3. CASE h \notin JoinsFirst
  <2>1. Begin("control", h, pc) /\ h \in Kinds /\ h \notin {"done", "failed"}
    BY <1>3 DEF Receive, Kinds, Hands, Modes
  <2>2. /\ Completions' = Completions /\ AllAccepted' = AllAccepted
        /\ CompletionAfterAcceptance'
    BY <1>1, <2>1, BeginCounts, CountsKept
  <2>3. /\ pc'.control \in {"Lock", "Send"} /\ pc'.data = pc.data
        /\ mine'.control = Len(marks') /\ marks'[Len(marks')].kind = h
        /\ Len(marks') = Len(marks) + 1 /\ Len(marks) \in Nat
    <3>1. pc' = [pc EXCEPT !["control"] = IF h \in Locked THEN "Lock" ELSE "Send"]
          /\ mine' = [mine EXCEPT !["control"] = Len(marks')]
      BY <2>1 DEF Begin
    <3> QED
      BY <2>1, <3>1, Types, BeginMark
  <2>4. AllAccepted \ {Len(marks) + 1} = AllAccepted
    BY <2>3 DEF AllAccepted, Accepted
  <2> QED
    BY <1>1, <2>2, <2>3, <2>4 DEF AllAccepted
<1> QED
  BY <1>2, <1>3

\* PASV starts a data thread that has no file, and PORT one that sleeps.
LEMMA JoinAwaits ==
  ASSUME ReplyInv, CompletionsAwaited, Join
  PROVE  CompletionsAwaited'
<1> USE DEF CompletionsAwaited, InFlight
<1>0. PICK h \in Hands \cup {"shutdown"}, place \in {"Off", "Starting", "AtWork"} :
         /\ Joined(h, place)
         /\ place = "AtWork" => hand = "PASV"
         /\ h = "transfer" => hand = "transfer"
  BY JoinIs
<1> DEFINE at == [pc EXCEPT !["data"] = place]
<1>1. /\ pc.control = "Join" /\ Begin("control", h, at)
      /\ UNCHANGED <<wire, file>> /\ hand' = h
  BY <1>0 DEF Joined
<1>2. h \in Kinds /\ h \notin {"done", "failed"} /\ h # "transfer"
  BY <1>0, <1>1 DEF Kinds, Hands, Modes
<1>3. /\ Completions' = Completions /\ AllAccepted' = AllAccepted
      /\ CompletionAfterAcceptance'
  BY <1>1, <1>2, BeginCounts, CountsKept
<1>4. /\ pc'.control \in {"Lock", "Send"}
      /\ pc'.data = "AtWork" => ~file
  <2>1. pc' = [at EXCEPT !["control"] = IF h \in Locked THEN "Lock" ELSE "Send"]
    BY <1>1 DEF Begin
  <2>2. pc'.data = place
    BY <2>1, Types
  <2> QED
    BY <1>0, <1>1, <2>1, <2>2, Types DEF Modes
<1> QED
  BY <1>1, <1>2, <1>3, <1>4 DEF AllAccepted

\* So does the 221 after a 421.
LEMMA GoodbyeAwaits ==
  ASSUME ReplyInv, CompletionsAwaited, Goodbye
  PROVE  CompletionsAwaited'
<1> USE DEF CompletionsAwaited, InFlight
<1>1. /\ Begin("control", "EOF", pc) /\ hand' = "EOF" /\ UNCHANGED <<wire, file>>
  BY DEF Goodbye
<1>2. "EOF" \in Kinds
  BY DEF Kinds, Hands
<1>3. /\ Completions' = Completions /\ AllAccepted' = AllAccepted
      /\ CompletionAfterAcceptance'
  BY <1>1, <1>2, BeginCounts, CountsKept
<1>4. pc'.control \in {"Lock", "Send"} /\ pc'.data = pc.data
  BY <1>1, Types DEF Begin
<1> QED
  BY <1>1, <1>3, <1>4 DEF AllAccepted

\* The data thread uses its spare acceptance up for the completion it begins.
LEMMA FinishAwaits ==
  ASSUME ReplyInv, CompletionsAwaited, Finish
  PROVE  CompletionsAwaited'
<1> USE DEF CompletionsAwaited, InFlight
<1>1. PICK kind \in {"done", "failed"} : Begin("data", kind, pc)
  BY DEF Finish
<1>2. pc.data = "AtWork" /\ file /\ UNCHANGED <<wire, hand>> /\ kind \in Kinds
  BY DEF Finish, Kinds
<1>3. /\ Completions' = Completions \cup {Len(marks) + 1} /\ Len(marks) + 1 \notin Completions
      /\ AllAccepted' = AllAccepted /\ CompletionAfterAcceptance'
  BY <1>1, <1>2, BeginCounts, CountsKept
<1>4. Cardinality(Completions') = Cardinality(Completions) + 1
  BY <1>3, Counts, FS_AddElement
<1>5. pc'.control = pc.control /\ pc'.data # "AtWork"
  BY <1>1, Types DEF Begin
<1>6. Cardinality(Completions') <= Cardinality(AllAccepted')
  BY <1>2, <1>3, <1>4, Counts DEF AllAccepted
<1>7. ~InFlight /\ ~(pc.control = "Join" /\ hand \in Modes)
  BY <1>2
<1> QED
  BY <1>2, <1>3, <1>5, <1>6, <1>7 DEF AllAccepted

\* What is written may complete an acceptance; a completion reported is one begun.
LEMMA WriteAwaits ==
  ASSUME ReplyInv, ReplyInv', CompletionsAwaited, NEW t \in Threads, Write(t)
  PROVE  CompletionsAwaited'
<1> USE DEF CompletionsAwaited, InFlight
<1>1. UNCHANGED <<marks, pc, mine, hand, file>> /\ Len(wire) \in Nat
  BY Types DEF Write
<1>2. /\ Completions' = Completions /\ AllAccepted \subseteq AllAccepted'
      /\ Len(wire') = Len(wire) + 1
      /\ \A i \in 1..Len(wire) : Reported(i)' = Reported(i) /\ Accepted(i)' = Accepted(i)
  BY WriteCounts
<1>3. AllAccepted' \in SUBSET (1..Len(marks)) /\ Len(marks) \in Nat
  BY <1>1, Types DEF AllAccepted, Accepted
<1>4. /\ Cardinality(AllAccepted) <= Cardinality(AllAccepted')
      /\ Cardinality(AllAccepted') \in Nat
  BY <1>2, <1>3, Subsets
<1>5. Cardinality(Completions') <= Cardinality(AllAccepted')
  BY <1>2, <1>4, Counts DEF AllAccepted
<1>6. ASSUME InFlight
      PROVE  Cardinality(Completions) <= Cardinality(AllAccepted' \ {mine.control})
  <2>1. AllAccepted \ {mine.control} \in SUBSET (AllAccepted' \ {mine.control})
        /\ AllAccepted' \ {mine.control} \in SUBSET (1..Len(marks))
    BY <1>2, <1>3
  <2>2. Cardinality(AllAccepted \ {mine.control}) <= Cardinality(AllAccepted' \ {mine.control})
        /\ Cardinality(AllAccepted \ {mine.control}) \in Nat
        /\ Cardinality(AllAccepted' \ {mine.control}) \in Nat
    BY <1>3, <2>1, Subsets
  <2> QED
    BY <1>6, <2>2, Counts DEF AllAccepted
<1>7. CompletionAfterAcceptance'
  <2>1. PICK n \in Nat : n = Len(wire)
    BY <1>1
  <2>2. Cardinality(Reported(n + 1)') <= Cardinality(Accepted(n + 1)')
    <3>1. Accepted(n + 1)' = AllAccepted'
      BY <1>2, <2>1 DEF AllAccepted
    <3>2. Reported(n + 1)' \in SUBSET (Completions')
          /\ Completions' \in SUBSET (1..Len(marks))
      BY <1>1 DEF Reported, Completions
    <3>3. /\ Cardinality(Reported(n + 1)') <= Cardinality(Completions')
          /\ Cardinality(Reported(n + 1)') \in Nat /\ Cardinality(Completions') \in Nat
      BY <1>3, <3>2, Subsets
    <3> QED
      BY <1>4, <1>5, <3>1, <3>3
  <2>3. ASSUME NEW i \in 1..n
        PROVE  Cardinality(Reported(i)') <= Cardinality(Accepted(i)')
    BY <1>2, <2>1 DEF CompletionAfterAcceptance
  <2> QED
    BY <1>2, <2>1, <2>2, <2>3 DEF CompletionAfterAcceptance
<1>8. file /\ pc.data = "AtWork" => Cardinality(Completions') < Cardinality(AllAccepted')
  BY <1>2, <1>4, Counts DEF AllAccepted
<1> QED
  BY <1>1, <1>2, <1>5, <1>6, <1>7, <1>8 DEF AllAccepted

\* When the 150 is sent it counts, and the thread has its file.
LEMMA SentAwaits ==
  ASSUME ReplyInv, CompletionsAwaited, NEW t \in Threads, Sent(t)
  PROVE  CompletionsAwaited'
<1> USE DEF CompletionsAwaited, InFlight
<1>1. /\ pc[t] = "Send" /\ UNCHANGED <<marks, wire, mine, hand>>
      /\ Written(mine[t]) = Pieces(mine[t])
  BY DEF Sent
<1>2. /\ Completions' = Completions /\ AllAccepted' = AllAccepted
      /\ CompletionAfterAcceptance'
  BY <1>1, QuietCounts
<1>3. CASE t = "data"
  <2>1. pc'.control = pc.control /\ pc'.data # "AtWork" /\ (file' => file)
    BY <1>3, Types DEF Sent, SentByData
  <2> QED
    BY <1>1, <1>2, <2>1 DEF AllAccepted
<1>4. CASE t = "control"
  <2>1. /\ pc'.control \in {"Close", "Goodbye", "Idle"}
        /\ hand # "transfer" => pc'.data = pc.data
        /\ file' = (file \/ hand = "transfer")
    BY <1>1, <1>4, Types DEF Sent, SentByControl, Signals, Onward
  <2>2. CASE hand # "transfer"
    BY <1>1, <1>2, <2>1, <2>2 DEF AllAccepted
  <2>3. CASE hand = "transfer"
    <3>1. mine.control \in AllAccepted
      <4>1. mine.control \in 1..Len(marks) /\ marks[mine.control].kind = "transfer"
        BY <1>1, <1>4, <2>3, Types DEF ReplyInv, MarkBegun
      <4> QED
        BY <1>1, <1>4, <4>1 DEF AllAccepted, Accepted, Written, WrittenBy
    <3>2. Cardinality(AllAccepted \ {mine.control}) = Cardinality(AllAccepted) - 1
      BY <3>1, Counts, FS_RemoveElement
    <3>3. Cardinality(Completions) < Cardinality(AllAccepted)
      BY <1>1, <1>4, <2>3, <3>2, Counts DEF AllAccepted
    <3> QED
      BY <1>1, <1>2, <2>1, <3>3, Counts DEF AllAccepted
  <2> QED
    BY <2>2, <2>3
<1> QED
  BY <1>3, <1>4

\* The other steps begin and write nothing, and hand the data thread no file.
LEMMA QuietAwaits ==
  ASSUME ReplyInv, CompletionsAwaited,
         Close \/ CondWait \/ Stop \/ SetReady \/ \E t \in Threads : Lock(t)
  PROVE  CompletionsAwaited'
<1> USE DEF CompletionsAwaited, InFlight
<1>1. UNCHANGED <<marks, wire, mine, hand>> /\ (file' => file)
  BY DEF Close, CondWait, Stop, SetReady, Lock
<1>2. /\ pc'.control \in {"Lock", "Send"} => pc.control \in {"Lock", "Send"}
      /\ pc'.data = "AtWork" => pc.data = "AtWork"
      /\ pc'.control = "Join" => pc.control = "Join"
  BY Types DEF Close, CondWait, Stop, SetReady, Lock
<1> QED
  BY <1>1, <1>2, QuietCounts DEF AllAccepted

\* 226, 451 and 425 never reach the far end before all of the 150 they answer, in
\* sessions of any number of replies: the file is signalled when the 150 is sent.
THEOREM CompletionsLate == Spec => []CompletionAfterAcceptance
<1>1. Init => CompletionsAwaited
  <2> SUFFICES ASSUME Init PROVE CompletionsAwaited
    OBVIOUS
  <2>1. Len(marks) = 1 /\ marks[1].kind = "welcome" /\ Len(wire) = 0
    BY DEF Init
  <2>2. Completions = {}
    BY <2>1 DEF Completions
  <2>3. Accepted(Len(wire)) = {}
    BY <2>1 DEF Accepted
  <2>4. /\ Cardinality(Completions) = 0 /\ Cardinality(Accepted(Len(wire))) = 0
        /\ hand = "plain" /\ file = FALSE /\ pc.control = "Send"
    BY <2>2, <2>3, FS_EmptySet DEF Init
  <2> QED
    BY <2>1, <2>4
       DEF CompletionsAwaited, InFlight, CompletionAfterAcceptance
<1>2. ReplyInv /\ ReplyInv' /\ CompletionsAwaited /\ [Next]_vars => CompletionsAwaited'
  <2> SUFFICES ASSUME ReplyInv, ReplyInv', CompletionsAwaited, [Next]_vars
               PROVE  CompletionsAwaited'
    OBVIOUS
  <2>1. CASE UNCHANGED vars
    BY <2>1, QuietCounts DEF vars, CompletionsAwaited, InFlight, AllAccepted
  <2>2. CASE ControlStep \/ DataStep
    BY <2>2, JoinAwaits, GoodbyeAwaits, QuietAwaits, WriteAwaits, SentAwaits DEF ControlStep, DataStep
  <2>3. CASE Finish \/ \E h \in Hands : Receive(h)
    BY <2>3, FinishAwaits, ReceiveAwaits
  <2> QED
    BY <2>1, <2>2, <2>3 DEF Next, Over
<1>3. CompletionsAwaited => CompletionAfterAcceptance
  BY DEF CompletionsAwaited
<1> QED
  BY <1>1, <1>2, <1>3, RepliesKept, PTL DEF Spec

-----------------------------------------------------------------------------
(***************************************************************************)
(* The pieces of a mark of two lines are together, all six of them before  *)
(* another mark's: the welcome is sent before there is a data thread, and  *)
(* the reply to TYPE under the lock, as all that a data thread sends.  And *)
(* no mark has more pieces on the wire than it has.                        *)
(***************************************************************************)
LongTogether ==
  \A i \in 1..Len(wire) : Lines(wire[i]) = 2 /\ Nth(i) # 5 =>
    IF i < Len(wire) THEN wire[i + 1] = wire[i]
    ELSE pc.control = "Send" /\ mine.control = wire[i]

InTurn ==
  /\ \A m \in 1..Len(marks) : /\ Written(m) <= Pieces(m)
                             /\ marks[m].locked = (marks[m].kind \in Locked)
  /\ mine.data # 0 => marks[mine.data].kind \in {"done", "failed"}
  /\ pc.control = "Send" /\ marks[mine.control].kind = "welcome" => pc.data = "Off"
  /\ LongTogether

LEMMA UpTo ==
  ASSUME NEW n \in Nat
  PROVE  IsFiniteSet(1..n) /\ Cardinality(1..n) = n
<1>1. 1 \in Int /\ n \in Int /\ (IF 1 > n THEN 0 ELSE n - 1 + 1) = n
  OBVIOUS
<1>2. Cardinality(1..n) = IF 1 > n THEN 0 ELSE n - 1 + 1
  BY <1>1, FS_Interval, Zenon
<1> QED
  BY <1>1, <1>2, FS_Interval

\* How long a mark is.
LEMMA Lengths ==
  ASSUME NEW m
  PROVE  (Lines(m) = 1 /\ Pieces(m) = 3) \/ (Lines(m) = 2 /\ Pieces(m) = 6)
BY DEF Lines, Pieces

LEMMA NthType ==
  ASSUME ReplyInv, NEW i \in 1..Len(wire)
  PROVE  Nth(i) \in Nat
<1>1. PICK n \in Nat : n = i - 1
  BY Types
<1>2. {j \in 1..n : wire[j] = wire[i]} \in SUBSET (1..n)
  OBVIOUS
<1> QED
  BY <1>1, <1>2, UpTo, FS_Subset, FS_CardinalityType DEF Nth

\* A step that adds nothing to the wire, and takes the control thread from no mark
\* of two lines that is not all there.
LEMMA TurnStays ==
  ASSUME ReplyInv, InTurn, UNCHANGED <<wire, marks, mine>>,
         pc.control = "Send" => pc'.control = "Send",
         pc'.control = "Send" /\ marks[mine.control].kind = "welcome" => pc'.data = "Off"
  PROVE  InTurn'
BY DEF InTurn, LongTogether, Written, Pieces, Lines, Nth

\* A mark is begun, and nothing of it is sent; it is not by the control thread in
\* the middle of another.
LEMMA TurnBegin ==
  ASSUME ReplyInv, InTurn, NEW t \in Threads, NEW kind \in Kinds \ {"welcome"},
         NEW at \in [Threads -> Places],
         Begin(t, kind, at), UNCHANGED wire, pc[t] # "Send",
         t = "data" => kind \in {"done", "failed"} /\ at = pc /\ pc.data # "Off"
  PROVE  InTurn'
<1>1. PICK n \in Nat : n = Len(marks)
  BY Types
<1>2. /\ Len(marks') = n + 1 /\ marks'[n + 1].kind = kind
      /\ marks'[n + 1].locked = (kind \in Locked)
      /\ \A m \in 1..n : marks'[m] = marks[m]
      /\ \A i \in 1..Len(wire) : wire[i] \in 1..n
      /\ mine' = [mine EXCEPT ![t] = n + 1]
      /\ pc' = [at EXCEPT ![t] = IF kind \in Locked THEN "Lock" ELSE "Send"]
  BY <1>1, BeginMark, Types DEF Begin
<1>3. ASSUME NEW m \in 1..(n + 1)
      PROVE  Written(m)' <= Pieces(m)' /\ marks'[m].locked = (marks'[m].kind \in Locked)
  <2>1. CASE m \in 1..n
    <3>1. Written(m) <= Pieces(m) /\ marks[m].locked = (marks[m].kind \in Locked)
      BY <1>1, <2>1 DEF InTurn
    <3> QED
      BY <1>2, <2>1, <3>1 DEF Written, Pieces, Lines
  <2>2. CASE m = n + 1
    <3>1. {i \in 1..Len(wire) : wire[i] = n + 1} = {}
      BY <1>2
    <3>2. Written(n + 1)' = 0
      BY <3>1, FS_EmptySet DEF Written
    <3> QED
      BY <1>2, <2>2, <3>2 DEF Pieces, Lines
  <2> QED
    BY <2>1, <2>2
<1>4. mine'.data # 0 => marks'[mine'.data].kind \in {"done", "failed"}
  <2>1. CASE t = "data"
    BY <1>2, <2>1, Types
  <2>2. CASE t = "control"
    <3>1. mine'.data = mine.data /\ mine.data \in 0..n
      BY <1>1, <1>2, <2>2, Types
    <3> QED
      BY <1>2, <3>1 DEF InTurn
  <2> QED
    BY <2>1, <2>2
<1>5. pc'.control = "Send" /\ marks'[mine'.control].kind = "welcome" => pc'.data = "Off"
  <2>1. CASE t = "control"
    BY <1>2, <2>1, Types
  <2>2. CASE t = "data"
    <3> SUFFICES ASSUME pc'.control = "Send", marks'[mine'.control].kind = "welcome"
                 PROVE  FALSE
      OBVIOUS
    <3>1. pc.control = "Send" /\ mine'.control = mine.control
      BY <1>2, <2>2, Types
    <3>2. mine.control \in 1..n
      BY <1>1, <3>1, Types DEF ReplyInv, MarkBegun
    <3>3. pc.data = "Off"
      BY <1>2, <3>1, <3>2 DEF InTurn
    <3>4. kind \in Locked /\ pc' = [pc EXCEPT !["data"] = "Lock"]
      BY <1>2, <2>2 DEF Locked
    <3> QED
      BY <2>2, <3>3
  <2> QED
    BY <2>1, <2>2
<1>6. LongTogether'
  <2>1. ASSUME NEW i \in 1..Len(wire), Lines(wire[i])' = 2, Nth(i)' # 5
        PROVE  IF i < Len(wire) THEN wire[i + 1] = wire[i]
               ELSE pc'.control = "Send" /\ mine'.control = wire[i]
    <3>1. Lines(wire[i]) = 2 /\ Nth(i) # 5
      BY <1>2, <2>1 DEF Lines, Nth
    <3>2. CASE i < Len(wire)
      BY <3>1, <3>2 DEF InTurn, LongTogether
    <3>3. CASE ~(i < Len(wire))
      <4>1. pc.control = "Send" /\ mine.control = wire[i]
        BY <3>1, <3>3 DEF InTurn, LongTogether
      <4>2. t = "data"
        BY <4>1
      <4> QED
        BY <1>2, <3>3, <4>1, <4>2, Types
    <3> QED
      BY <3>2, <3>3
  <2> QED
    BY <2>1 DEF LongTogether
<1> QED
  BY <1>1, <1>2, <1>3, <1>4, <1>5, <1>6 DEF InTurn

\* A piece more: where each one is does not change, and the new one comes after
\* those of its mark.
LEMMA NthWrite ==
  ASSUME ReplyInv, NEW t \in Threads, Write(t), NEW n \in Nat, n = Len(wire)
  PROVE  /\ \A i \in 1..n : wire'[i] = wire[i] /\ Nth(i)' = Nth(i)
         /\ Len(wire') = n + 1 /\ wire'[n + 1] = mine[t] /\ mine[t] \in 1..Len(marks)
         /\ Nth(n + 1)' = Written(mine[t])
<1>1. pc[t] = "Send" /\ mine[t] \in 1..Len(marks)
  BY Types DEF Write, ReplyInv, MarkBegun
<1>2. Len(wire') = n + 1 /\ wire'[n + 1] = mine[t] /\ \A i \in 1..n : wire'[i] = wire[i]
  BY <1>1, Types DEF Write
<1>3. ASSUME NEW i \in 1..n
      PROVE  Nth(i)' = Nth(i)
  <2>1. \A j \in 1..(i - 1) : wire'[j] = wire[j]
    BY <1>2
  <2>2. {j \in 1..(i - 1) : wire'[j] = wire'[i]} = {j \in 1..(i - 1) : wire[j] = wire[i]}
    BY <1>2, <2>1
  <2> QED
    BY <2>2 DEF Nth
<1>4. Nth(n + 1)' = Written(mine[t])
  <2>1. (n + 1) - 1 = n
    OBVIOUS
  <2>2. {j \in 1..n : wire'[j] = wire'[n + 1]} = {j \in 1..n : wire[j] = mine[t]}
    BY <1>2
  <2> QED
    BY <2>1, <2>2 DEF Nth, Written
<1> QED
  BY <1>1, <1>2, <1>3, <1>4

\* What is added is of the mark of two lines that is not all there, if there is one:
\* another thread than the one that sends it could only send under the lock.
LEMMA TurnWrite ==
  ASSUME ReplyInv, InTurn, NEW t \in Threads, Write(t)
  PROVE  InTurn'
<1>1. PICK n \in Nat : n = Len(wire)
  BY Types
<1>2. /\ pc[t] = "Send" /\ UNCHANGED <<marks, pc, mine>>
      /\ Written(mine[t]) < Pieces(mine[t])
  BY DEF Write
<1>3. /\ \A i \in 1..n : wire'[i] = wire[i] /\ Nth(i)' = Nth(i)
      /\ Len(wire') = n + 1 /\ wire'[n + 1] = mine[t] /\ mine[t] \in 1..Len(marks)
  BY <1>1, NthWrite
<1>4. ASSUME NEW m \in 1..Len(marks)
      PROVE  Written(m)' <= Pieces(m)'
  <2>1. Written(m) <= Pieces(m) /\ Pieces(m)' = Pieces(m)
    BY <1>2 DEF InTurn, Pieces, Lines
  <2> DEFINE S == {i \in 1..n : wire[i] = m}
  <2>2. IsFiniteSet(S) /\ Cardinality(S) \in Nat /\ n + 1 \notin S
    <3>1. S \in SUBSET (1..n)
      OBVIOUS
    <3>2. n + 1 \notin 1..n
      BY <1>1
    <3> QED
      BY <3>1, <3>2, UpTo, FS_Subset, FS_CardinalityType
  <2>3. Written(m) = Cardinality(S) /\ Pieces(m) \in {3, 6}
    BY <1>1, Lengths DEF Written
  <2>4. CASE m = mine[t]
    <3>1. {i \in 1..Len(wire') : wire'[i] = m} = S \cup {n + 1}
      BY <1>3, <2>4
    <3>2. Written(m)' = Cardinality(S) + 1
      BY <2>2, <3>1, FS_AddElement DEF Written
    <3> QED
      BY <1>2, <2>1, <2>2, <2>3, <2>4, <3>2
  <2>5. CASE m # mine[t]
    <3>1. {i \in 1..Len(wire') : wire'[i] = m} = S
      BY <1>3, <2>5
    <3>2. Written(m)' = Cardinality(S)
      BY <3>1 DEF Written
    <3> QED
      BY <2>1, <2>3, <3>2
  <2> QED
    BY <2>4, <2>5
<1>5. ASSUME t = "data"
      PROVE  /\ Lines(mine[t]) = 1
             /\ pc.control = "Send" => Lines(mine.control) = 1
  <2>1. mine.data # 0 /\ mine.data \in 1..Len(marks)
    BY <1>2, <1>5, Types DEF ReplyInv, MarkBegun
  <2>2. marks[mine.data].kind \in {"done", "failed"} /\ pc.data = "Send"
    BY <1>2, <1>5, <2>1 DEF InTurn
  <2>3. ASSUME pc.control = "Send", Lines(mine.control) = 2
        PROVE  FALSE
    <3>1. marks[mine.control].kind \in {"welcome", "type"}
      BY <2>3 DEF Lines
    <3>2. marks[mine.control].kind = "type"
      BY <2>2, <2>3, <3>1 DEF InTurn
    <3>3. "type" \in Locked /\ "done" \in Locked /\ "failed" \in Locked
      BY DEF Locked
    <3>4. mine.control \in 1..Len(marks)
      BY <2>3, Types DEF ReplyInv, MarkBegun
    <3>5. marks[mine.control].locked /\ marks[mine.data].locked
      BY <2>1, <2>2, <3>2, <3>3, <3>4 DEF InTurn
    <3>6. mutex_ctl = "control" /\ mutex_ctl = "data"
      BY <2>2, <2>3, <3>5 DEF ReplyInv, SendsUnderLock
    <3> QED
      BY <3>6
  <2> QED
    BY <1>5, <2>2, <2>3, Lengths DEF Lines
<1>6. ASSUME NEW i \in 1..(n + 1), Lines(wire[i])' = 2, Nth(i)' # 5
      PROVE  IF i < n + 1 THEN wire'[i + 1] = wire'[i]
             ELSE pc'.control = "Send" /\ mine'.control = wire'[i]
  <2>1. CASE i < n
    <3>1. i \in 1..n /\ i + 1 \in 1..n /\ Lines(wire[i]) = 2 /\ Nth(i) # 5
      BY <1>2, <1>3, <1>6, <2>1 DEF Lines
    <3> QED
      BY <1>1, <1>3, <2>1, <3>1 DEF InTurn, LongTogether
  <2>2. CASE i = n
    <3>1. i \in 1..n /\ Lines(wire[i]) = 2 /\ Nth(i) # 5
      BY <1>2, <1>3, <1>6, <2>2 DEF Lines
    <3>2. pc.control = "Send" /\ mine.control = wire[i]
      BY <1>1, <2>2, <3>1 DEF InTurn, LongTogether
    <3>3. t = "control"
      BY <1>5, <3>1, <3>2
    <3> QED
      BY <1>3, <2>2, <3>1, <3>2, <3>3
  <2>3. CASE i = n + 1
    <3>1. Lines(mine[t]) = 2
      BY <1>2, <1>3, <1>6, <2>3 DEF Lines
    <3>2. t = "control"
      BY <1>5, <3>1
    <3> QED
      BY <1>2, <1>3, <2>3, <3>2
  <2> QED
    BY <1>6, <2>1, <2>2, <2>3
<1>7. LongTogether'
  BY <1>3, <1>6 DEF LongTogether
<1> QED
  BY <1>2, <1>4, <1>7 DEF InTurn

\* A mark of two lines is all there when the control thread goes on.
LEMMA TurnSent ==
  ASSUME ReplyInv, InTurn, NEW t \in Threads, Sent(t)
  PROVE  InTurn'
<1>1. /\ pc[t] = "Send" /\ Written(mine[t]) = Pieces(mine[t])
      /\ UNCHANGED <<marks, wire, mine>>
  BY DEF Sent
<1>2. CASE t = "data"
  <2>1. pc' = [pc EXCEPT !["data"] = IF marks[mine.data].kind = "failed"
                                     THEN "Leaving" ELSE "Exited"]
    BY <1>2 DEF Sent, SentByData
  <2>2. pc'.control = pc.control /\ pc.data # "Off"
    BY <1>1, <1>2, <2>1, Types
  <2> QED
    BY <1>1, <2>2, TurnStays DEF InTurn
<1>3. CASE t = "control"
  <2>1. pc'.control # "Send"
    BY <1>3 DEF Sent, SentByControl, Onward
  <2>2. ASSUME NEW i \in 1..Len(wire), Lines(wire[i]) = 2, Nth(i) # 5
        PROVE  i < Len(wire) /\ wire[i + 1] = wire[i]
    <3>1. CASE i < Len(wire)
      BY <2>2, <3>1 DEF InTurn, LongTogether
    <3>2. CASE ~(i < Len(wire))
      <4>1. PICK n \in Nat : n = Len(wire) /\ i = n /\ n >= 1
        BY <3>2, Types
      <4>2. mine.control = wire[n]
        BY <2>2, <3>2, <4>1 DEF InTurn, LongTogether
      <4> DEFINE S == {j \in 1..(n - 1) : wire[j] = wire[n]}
      <4>3. {j \in 1..n : wire[j] = wire[n]} = S \cup {n}
        BY <4>1
      <4>4. IsFiniteSet(S) /\ n \notin S
        <5>1. S \in SUBSET (1..n)
          BY <4>1
        <5> QED
          BY <5>1, UpTo, FS_Subset
      <4>5. Written(wire[n]) = Cardinality(S) + 1 /\ Cardinality(S) \in Nat
        BY <4>1, <4>3, <4>4, FS_AddElement, FS_CardinalityType DEF Written
      <4>6. Written(wire[n]) = 6
        BY <1>1, <1>3, <2>2, <4>1, <4>2, Lengths
      <4>7. Nth(n) = Cardinality(S)
        BY DEF Nth
      <4> QED
        BY <2>2, <4>1, <4>5, <4>6, <4>7
    <3> QED
      BY <3>1, <3>2
  <2>3. LongTogether'
    <3>1. ASSUME NEW i \in 1..Len(wire), Lines(wire[i])' = 2, Nth(i)' # 5
          PROVE  i < Len(wire) /\ wire[i + 1] = wire[i]
      BY <1>1, <2>2, <3>1 DEF Lines, Nth
    <3> QED
      BY <1>1, <3>1 DEF LongTogether
  <2> QED
    BY <1>1, <2>1, <2>3 DEF InTurn, Written, Pieces, Lines
<1> QED
  BY <1>2, <1>3

LEMMA TurnInit == Init => InTurn
<1> SUFFICES ASSUME Init PROVE InTurn
  OBVIOUS
<1>1. /\ Len(marks) = 1 /\ Len(wire) = 0 /\ mine.data = 0 /\ pc.data = "Off"
  BY DEF Init
<1>2. \A m : {i \in 1..Len(wire) : wire[i] = m} = {}
  BY <1>1
<1>3. \A m : Written(m) = 0 /\ Pieces(m) \in {3, 6}
  BY <1>2, FS_EmptySet, Lengths DEF Written
<1>4. marks[1].locked = (marks[1].kind \in Locked)
  <2>1. marks[1] = [kind |-> "welcome", locked |-> FALSE]
    BY DEF Init
  <2>2. "welcome" \notin Locked
    BY DEF Locked, Modes
  <2>3. marks[1].kind \notin Locked /\ ~marks[1].locked /\ marks[1].locked \in BOOLEAN
    BY <2>1, <2>2
  <2> QED
    BY <2>3
<1>5. LongTogether
  BY <1>1 DEF LongTogether
<1> QED
  BY <1>1, <1>3, <1>4, <1>5 DEF InTurn

LEMMA TurnKept == ReplyInv /\ InTurn /\ [Next]_vars => InTurn'
<1> SUFFICES ASSUME ReplyInv, InTurn, [Next]_vars PROVE InTurn'
  OBVIOUS
<1>1. ASSUME NEW h \in Hands, Receive(h) PROVE InTurn'
  <2>1. CASE h \in JoinsFirst
    <3>1. pc' = [pc EXCEPT !["control"] = "Join"] /\ UNCHANGED <<wire, marks, mine>>
          /\ pc.control = "Idle"
      BY <1>1, <2>1 DEF Receive
    <3>2. pc'.control = "Join"
      BY <3>1, Types
    <3> QED
      BY <3>1, <3>2, TurnStays
  <2>2. CASE h \notin JoinsFirst
    <3>1. /\ Begin("control", h, pc) /\ h \in Kinds \ {"welcome"} /\ UNCHANGED wire
          /\ pc.control # "Send"
      BY <1>1, <2>2 DEF Receive, Kinds, Hands, Modes
    <3> QED
      BY <3>1, TurnBegin, Types
  <2> QED
    BY <2>1, <2>2
<1>2. CASE Join
  <2>1. PICK h \in Hands \cup {"shutdown"}, place \in {"Off", "Starting", "AtWork"} :
           Joined(h, place)
    BY <1>2, JoinIs
  <2>2. /\ Begin("control", h, [pc EXCEPT !["data"] = place])
        /\ UNCHANGED wire /\ pc.control = "Join"
    BY <2>1 DEF Joined
  <2>3. h \in Kinds \ {"welcome"} /\ [pc EXCEPT !["data"] = place] \in [Threads -> Places]
    BY Types DEF Kinds, Hands, Modes, Places, DataPlaces
  <2> QED
    BY <2>2, <2>3, TurnBegin
<1>3. CASE Goodbye
  <2>1. /\ Begin("control", "EOF", pc) /\ "EOF" \in Kinds \ {"welcome"} /\ UNCHANGED wire
        /\ pc.control # "Send"
    BY <1>3 DEF Goodbye, Kinds, Hands
  <2> QED
    BY <2>1, TurnBegin, Types
<1>4. CASE Finish
  <2>1. PICK kind \in {"done", "failed"} : Begin("data", kind, pc)
    BY <1>4 DEF Finish
  <2>2. kind \in Kinds \ {"welcome"} /\ UNCHANGED wire /\ pc.data = "AtWork"
    BY <1>4 DEF Kinds, Finish
  <2> QED
    BY <2>1, <2>2, TurnBegin, Types
<1>5. ASSUME NEW t \in Threads, Lock(t) PROVE InTurn'
  <2>1. /\ pc[t] = "Lock" /\ pc' = [pc EXCEPT ![t] = "Send"]
        /\ UNCHANGED <<wire, marks, mine>>
    BY <1>5 DEF Lock
  <2>2. t = "control" => mine.control \in 1..Len(marks) /\ marks[mine.control].locked
    BY <2>1, Types DEF ReplyInv, MarkBegun
  <2>3. ASSUME pc'.control = "Send", marks[mine.control].kind = "welcome"
        PROVE  pc'.data = "Off"
    <3>1. CASE t = "control"
      BY <2>2, <2>3, <3>1 DEF InTurn, Locked, Modes
    <3>2. CASE t = "data"
      <4>1. pc.control = "Send" /\ pc.data = "Lock"
        BY <2>1, <2>3, <3>2, Types
      <4> QED
        BY <2>3, <4>1 DEF InTurn
    <3> QED
      BY <3>1, <3>2
  <2>4. pc.control = "Send" => pc'.control = "Send"
    BY <2>1, Types
  <2> QED
    BY <2>1, <2>3, <2>4, TurnStays
<1>6. ASSUME NEW t \in Threads, Sent(t) PROVE InTurn'
  BY <1>6, TurnSent
<1>7. CASE Close
  <2>1. pc'.control = "Closed" /\ pc.control = "Close" /\ UNCHANGED <<wire, marks, mine>>
    BY <1>7 DEF Close
  <2> QED
    BY <2>1, TurnStays
<1>8. CASE CondWait \/ Stop \/ SetReady
  <2>1. /\ pc'.control = pc.control /\ pc.data # "Off"
        /\ UNCHANGED <<wire, marks, mine>>
    BY <1>8, Types DEF CondWait, Stop, SetReady
  <2> QED
    BY <2>1, TurnStays DEF InTurn
<1>9. CASE UNCHANGED vars
  BY <1>9, TurnStays DEF vars, InTurn
<1>10. ASSUME NEW t \in Threads, Write(t) PROVE InTurn'
  BY <1>10, TurnWrite
<1> QED
  BY <1>1, <1>2, <1>3, <1>4, <1>5, <1>6, <1>7, <1>8, <1>9, <1>10
     DEF Next, ControlStep, DataStep, Over

LEMMA TurnInvariant == Spec => [](ReplyInv /\ InTurn)
BY TurnInit, TurnKept, RepliesKept, PTL DEF Spec

-----------------------------------------------------------------------------
\* Which piece of its mark each one is.
LEMMA NthGrows ==
  ASSUME ReplyInv, NEW i \in 1..Len(wire), NEW k \in 1..Len(wire), i < k, wire[i] = wire[k]
  PROVE  Nth(i) < Nth(k)
<1> DEFINE S == {j \in 1..(i - 1) : wire[j] = wire[i]}
           T == {j \in 1..(k - 1) : wire[j] = wire[k]}
<1>1. PICK n \in Nat : n = k - 1
  BY Types
<1>2. T \in SUBSET (1..n) /\ S \cup {i} \in SUBSET T /\ i \notin S /\ S \in SUBSET T
  BY <1>1, Types
<1>3. IsFiniteSet(T) /\ IsFiniteSet(S)
  BY <1>2, UpTo, FS_Subset
<1>4. Cardinality(S \cup {i}) = Cardinality(S) + 1
  BY <1>2, <1>3, FS_AddElement
<1>5. Cardinality(S \cup {i}) <= Cardinality(T)
  BY <1>2, <1>3, FS_Subset
<1>6. Cardinality(S) \in Nat /\ Cardinality(T) \in Nat
  BY <1>3, FS_CardinalityType
<1> QED
  BY <1>4, <1>5, <1>6 DEF Nth

LEMMA NthFirst ==
  ASSUME ReplyInv, NEW i \in 1..Len(wire)
  PROVE  Nth(i) = 0 <=> \A j \in 1..Len(wire) : wire[j] = wire[i] => i <= j
<1> DEFINE S == {j \in 1..(i - 1) : wire[j] = wire[i]}
<1>1. PICK n \in Nat : n = i - 1
  BY Types
<1>2. S \in SUBSET (1..n)
  BY <1>1
<1>3. IsFiniteSet(S)
  BY <1>2, UpTo, FS_Subset
<1>4. Cardinality(S) = 0 <=> S = {}
  BY <1>3, FS_EmptySet
<1>5. ASSUME S = {}, NEW j \in 1..Len(wire), wire[j] = wire[i]
      PROVE  i <= j
  <2>1. j \notin 1..(i - 1)
    BY <1>5
  <2> QED
    BY <2>1, Types
<1>6. ASSUME S # {}
      PROVE  \E j \in 1..Len(wire) : wire[j] = wire[i] /\ ~(i <= j)
  <2>1. PICK j \in 1..(i - 1) : wire[j] = wire[i]
    BY <1>6
  <2>2. j \in 1..Len(wire) /\ ~(i <= j)
    BY <2>1, Types
  <2> QED
    BY <2>1, <2>2
<1> QED
  BY <1>4, <1>5, <1>6 DEF Nth

LEMMA NthNext ==
  ASSUME ReplyInv, NEW i \in 1..Len(wire), i + 1 \in 1..Len(wire), wire[i + 1] = wire[i]
  PROVE  Nth(i + 1) = Nth(i) + 1
<1> DEFINE S == {j \in 1..(i - 1) : wire[j] = wire[i]}
<1>1. PICK n \in Nat : n = i - 1
  BY Types
<1>2. S \in SUBSET (1..n) /\ i \notin S
  BY <1>1, Types
<1>3. IsFiniteSet(S)
  BY <1>2, UpTo, FS_Subset
<1>4. (i + 1) - 1 = i /\ {j \in 1..i : wire[j] = wire[i + 1]} = S \cup {i}
  BY Types
<1>5. Cardinality(S \cup {i}) = Cardinality(S) + 1
  BY <1>2, <1>3, FS_AddElement
<1> QED
  BY <1>4, <1>5 DEF Nth

LEMMA NthLimit ==
  ASSUME ReplyInv, InTurn, NEW i \in 1..Len(wire)
  PROVE  Nth(i) \in Nat /\ Nth(i) < Pieces(wire[i])
<1> DEFINE S == {j \in 1..(i - 1) : wire[j] = wire[i]}
           T == {j \in 1..Len(wire) : wire[j] = wire[i]}
<1>1. PICK n \in Nat : n = Len(wire)
  BY Types
<1>2. T \in SUBSET (1..n) /\ S \cup {i} \in SUBSET T /\ i \notin S /\ S \in SUBSET T
  BY <1>1
<1>3. IsFiniteSet(T) /\ IsFiniteSet(S)
  BY <1>2, UpTo, FS_Subset
<1>4. Cardinality(S \cup {i}) = Cardinality(S) + 1
  BY <1>2, <1>3, FS_AddElement
<1>5. Cardinality(S \cup {i}) <= Cardinality(T)
  BY <1>2, <1>3, FS_Subset
<1>6. Cardinality(S) \in Nat /\ Cardinality(T) \in Nat
  BY <1>3, FS_CardinalityType
<1>7. Cardinality(T) <= Pieces(wire[i])
  <2>1. wire[i] \in 1..Len(marks)
    BY Types
  <2> QED
    BY <2>1 DEF InTurn, Written
<1>8. Pieces(wire[i]) \in Nat
  BY Lengths
<1> QED
  BY <1>4, <1>5, <1>6, <1>7, <1>8 DEF Nth

\* The three of a mark of one line, and the six of one of two.
ThreeOf(k) == IF k \in {0, 3} THEN "pfx" ELSE IF k \in {1, 4} THEN "msg" ELSE "EOL"

LEMMA ShortPieces ==
  ASSUME ReplyInv, InTurn, NEW i \in 1..Len(wire), Lines(wire[i]) = 1
  PROVE  /\ Nth(i) \in 0..2 /\ Part(i) = ThreeOf(Nth(i))
         /\ LineOf(i) = 1 /\ LastLine(i)
<1>1. Nth(i) \in 0..2
  BY NthLimit, Lengths
<1>2. Nth(i) % 3 = Nth(i) /\ Nth(i) \div 3 = 0
  BY <1>1
<1>3. Part(i) = ThreeOf(Nth(i))
  BY <1>1, <1>2 DEF Part, ThreeOf
<1>4. LineOf(i) = 1
  BY <1>2 DEF LineOf
<1> QED
  BY <1>1, <1>3, <1>4 DEF LastLine

LEMMA LongPieces ==
  ASSUME ReplyInv, InTurn, NEW i \in 1..Len(wire), Lines(wire[i]) = 2
  PROVE  /\ Nth(i) \in 0..5
         /\ Part(i) = ThreeOf(Nth(i))
         /\ LineOf(i) = (IF Nth(i) <= 2 THEN 1 ELSE 2) /\ (LastLine(i) <=> Nth(i) >= 3)
<1>1. PICK k \in 0..5 : k = Nth(i)
  BY NthLimit, Lengths
<1>2. k \in {0, 1, 2, 3, 4, 5}
  BY <1>1
<1>3. /\ 0 % 3 = 0 /\ 1 % 3 = 1 /\ 2 % 3 = 2 /\ 3 % 3 = 0 /\ 4 % 3 = 1 /\ 5 % 3 = 2
      /\ 0 \div 3 = 0 /\ 1 \div 3 = 0 /\ 2 \div 3 = 0
      /\ 3 \div 3 = 1 /\ 4 \div 3 = 1 /\ 5 \div 3 = 1
  OBVIOUS
<1>4. Part(i) = ThreeOf(Nth(i))
  BY <1>1, <1>2, <1>3 DEF Part, ThreeOf
<1>5. LineOf(i) = IF Nth(i) <= 2 THEN 1 ELSE 2
  BY <1>1, <1>2, <1>3 DEF LineOf
<1>6. LastLine(i) <=> Nth(i) >= 3
  BY <1>1, <1>5 DEF LastLine
<1> QED
  BY <1>1, <1>4, <1>5, <1>6

\* A nonempty set of natural numbers has a least element.
LEMMA Least ==
  ASSUME NEW T, T \subseteq Nat, T # {}
  PROVE  \E x \in T : \A y \in T : x <= y
<1>1. PICK x \in T : \A y \in T : <<y, x>> \notin OpToRel(<, Nat)
  BY NatLessThanWellFounded, WFMin
<1>2. \A y \in T : ~(y < x)
  BY <1>1 DEF OpToRel
<1> QED
  BY <1>2

\* Of a mark of two lines the next piece is the next on the wire, and the one
\* before it the one before.
LEMMA LongNext ==
  ASSUME ReplyInv, InTurn, NEW i \in 1..Len(wire), i + 1 \in 1..Len(wire),
         Lines(wire[i]) = 2, Nth(i) # 5
  PROVE  wire[i + 1] = wire[i] /\ Nth(i + 1) = Nth(i) + 1
<1>1. i < Len(wire)
  BY Types
<1>2. wire[i + 1] = wire[i]
  BY <1>1 DEF InTurn, LongTogether
<1> QED
  BY <1>2, NthNext

LEMMA LongBefore ==
  ASSUME ReplyInv, InTurn, NEW i \in 1..Len(wire), Lines(wire[i]) = 2, Nth(i) # 0
  PROVE  /\ i - 1 \in 1..Len(wire) /\ wire[i - 1] = wire[i]
         /\ Nth(i - 1) + 1 = Nth(i)
<1>0. PICK n \in Nat : n = Len(wire)
  BY Types
<1> DEFINE D == {d \in 1..(i - 1) : wire[i - d] = wire[i]}
<1>1. D # {}
  <2>1. PICK j \in 1..n : wire[j] = wire[i] /\ ~(i <= j)
    BY <1>0, NthFirst
  <2>2. i - j \in 1..(i - 1) /\ i - (i - j) = j
    BY <1>0, <2>1
  <2>3. i - j \in D
    BY <2>1, <2>2
  <2> QED
    BY <2>3
<1>2. D \subseteq Nat
  OBVIOUS
<1>3. PICK d \in D : \A e \in D : d <= e
  BY <1>1, <1>2, Least
<1>4. PICK j \in 1..n : j = i - d /\ j < i /\ wire[j] = wire[i] /\ i \in 1..n
  <2>1. i - d \in 1..n /\ i - d < i /\ wire[i - d] = wire[i] /\ i \in 1..n
    BY <1>0, <1>3
  <2> QED
    BY <2>1
<1>5. Nth(j) < Nth(i)
  BY <1>0, <1>4, NthGrows
<1>6. Nth(j) # 5
  <2>1. Nth(i) \in 0..5
    BY LongPieces
  <2> QED
    BY <1>5, <2>1
<1>7. j + 1 \in 1..n /\ wire[j + 1] = wire[i] /\ Nth(j + 1) = Nth(j) + 1
  <2>1. j + 1 \in 1..n /\ Lines(wire[j]) = 2
    BY <1>4
  <2> QED
    BY <1>0, <1>4, <1>6, <2>1, LongNext
<1>8. j + 1 = i
  <2> SUFFICES ASSUME j + 1 # i PROVE FALSE
    OBVIOUS
  <2>1. d - 1 \in 1..(i - 1) /\ i - (d - 1) = j + 1
    BY <1>3, <1>4
  <2>2. d - 1 \in D
    BY <1>7, <2>1
  <2> QED
    BY <1>3, <2>2
<1>9. j = i - 1
  BY <1>4, <1>8
<1> QED
  BY <1>0, <1>4, <1>7, <1>8, <1>9

\* The code that begins the last line of a mark.
Ends(p) == Part(p) = "pfx" /\ LastLine(p)

LEMMA EndsAt ==
  ASSUME ReplyInv, InTurn, NEW p \in 1..Len(wire)
  PROVE  Ends(p) <=> IF Lines(wire[p]) = 1 THEN Nth(p) = 0 ELSE Nth(p) = 3
<1>1. CASE Lines(wire[p]) = 1
  <2>1. Nth(p) \in 0..2 /\ Part(p) = ThreeOf(Nth(p)) /\ LastLine(p)
    BY <1>1, ShortPieces
  <2> QED
    BY <1>1, <2>1 DEF Ends, ThreeOf
<1>2. CASE Lines(wire[p]) = 2
  <2>1. /\ Nth(p) \in 0..5 /\ Part(p) = ThreeOf(Nth(p))
        /\ LastLine(p) <=> Nth(p) >= 3
    BY <1>2, LongPieces
  <2> QED
    BY <1>2, <2>1 DEF Ends, ThreeOf
<1> QED
  BY <1>1, <1>2, Lengths

\* A mark is where its first piece is; the one whose last line begins earlier is
\* the one that began earlier.
LEMMA FirstIs ==
  ASSUME ReplyInv, NEW p \in 1..Len(wire), Nth(p) = 0
  PROVE  Min(At(wire[p])) = p
<1>1. p \in At(wire[p]) /\ \A j \in At(wire[p]) : p <= j
  BY NthFirst DEF At
<1>2. \A x \in At(wire[p]) : (\A y \in At(wire[p]) : x <= y) => x = p
  BY <1>1, Types DEF At
<1> QED
  BY <1>1, <1>2 DEF Min

LEMMA FirstOf ==
  ASSUME ReplyInv, InTurn, NEW p \in 1..Len(wire), Ends(p), Lines(wire[p]) = 2
  PROVE  /\ Min(At(wire[p])) = p - 3
         /\ \A d \in {1, 2, 3} : p - d \in 1..Len(wire) /\ ~Ends(p - d)
<1>0. p \in Nat
  BY Types
<1>1. Nth(p) = 3
  BY EndsAt
<1>2. /\ p - 1 \in 1..Len(wire) /\ wire[p - 1] = wire[p] /\ Nth(p - 1) = 2
  <2>1. Nth(p - 1) + 1 = 3 /\ p - 1 \in 1..Len(wire) /\ wire[p - 1] = wire[p]
    BY <1>1, LongBefore
  <2> QED
    BY <2>1, NthType
<1>3. /\ p - 2 \in 1..Len(wire) /\ wire[p - 2] = wire[p] /\ Nth(p - 2) = 1
  <2>1. (p - 1) - 1 = p - 2
    BY <1>0
  <2>2. Nth(p - 2) + 1 = 2 /\ p - 2 \in 1..Len(wire) /\ wire[p - 2] = wire[p]
    BY <1>2, <2>1, LongBefore
  <2> QED
    BY <2>2, NthType
<1>4. /\ p - 3 \in 1..Len(wire) /\ wire[p - 3] = wire[p] /\ Nth(p - 3) = 0
  <2>1. (p - 2) - 1 = p - 3
    BY <1>0
  <2>2. Nth(p - 3) + 1 = 1 /\ p - 3 \in 1..Len(wire) /\ wire[p - 3] = wire[p]
    BY <1>3, <2>1, LongBefore
  <2> QED
    BY <2>2, NthType
<1>5. Min(At(wire[p])) = p - 3
  BY <1>4, FirstIs
<1>6. ~Ends(p - 1) /\ ~Ends(p - 2) /\ ~Ends(p - 3)
  BY <1>2, <1>3, <1>4, EndsAt
<1> QED
  BY <1>2, <1>3, <1>4, <1>5, <1>6

LEMMA EndsInOrder ==
  ASSUME ReplyInv, InTurn, NEW p \in 1..Len(wire), NEW q \in 1..Len(wire),
         Ends(p), Ends(q), p < q
  PROVE  Min(At(wire[p])) < Min(At(wire[q]))
<1>1. Min(At(wire[p])) \in Nat /\ Min(At(wire[p])) <= p /\ p \in Nat /\ q \in Nat
  <2>1. CASE Lines(wire[p]) = 1
    <3>1. Nth(p) = 0
      BY <2>1, EndsAt
    <3> QED
      BY <3>1, FirstIs, Types
  <2>2. CASE Lines(wire[p]) = 2
    <3>1. Min(At(wire[p])) = p - 3 /\ p - 3 \in 1..Len(wire)
      BY <2>2, FirstOf
    <3> QED
      BY <3>1, Types
  <2> QED
    BY <2>1, <2>2, Lengths
<1>2. CASE Lines(wire[q]) = 1
  <2>1. Min(At(wire[q])) = q
    BY <1>2, EndsAt, FirstIs
  <2> QED
    BY <1>1, <2>1
<1>3. CASE Lines(wire[q]) = 2
  <2>1. Min(At(wire[q])) = q - 3 /\ ~Ends(q - 1) /\ ~Ends(q - 2) /\ ~Ends(q - 3)
    BY <1>3, FirstOf
  <2>2. p # q - 1 /\ p # q - 2 /\ p # q - 3
    BY <2>1
  <2> QED
    BY <1>1, <2>1, <2>2
<1> QED
  BY <1>2, <1>3, Lengths

-----------------------------------------------------------------------------
\* What holds of 0, and of every number after one it holds of, holds of all.
LEMMA Inductive ==
  ASSUME NEW T, 0 \in T, \A n \in Nat : n \in T => n + 1 \in T
  PROVE  Nat \subseteq T
<1> SUFFICES ASSUME Nat \ T # {} PROVE FALSE
  OBVIOUS
<1>1. PICK n \in Nat \ T : \A m \in Nat \ T : n <= m
  BY Least
<1>2. n # 0 /\ n - 1 \in Nat
  BY <1>1
<1> QED
  BY <1>1, <1>2

\* What Read is to be of the first n pieces.
UpToPiece(n, f) == f = [k \in 0..n |-> IF k = 0 THEN Nothing ELSE AddPiece(f[k - 1], k)]

LEMMA UpToPieceExists ==
  ASSUME NEW n \in Nat
  PROVE  \E f : UpToPiece(n, f)
<1> DEFINE T == {m \in Nat : \E f : UpToPiece(m, f)}
<1>1. 0 \in T
  <2>1. UpToPiece(0, [k \in 0..0 |-> Nothing])
    BY DEF UpToPiece
  <2> QED
    BY <2>1
<1>2. ASSUME NEW m \in Nat, m \in T
      PROVE  m + 1 \in T
  <2>1. PICK f : UpToPiece(m, f)
    BY <1>2
  <2> DEFINE g == [k \in 0..(m + 1) |-> IF k = 0 THEN Nothing ELSE AddPiece(f[k - 1], k)]
  <2>2. ASSUME NEW k \in 0..m
        PROVE  g[k] = f[k]
    BY <2>1, <2>2 DEF UpToPiece
  <2>3. ASSUME NEW k \in 0..(m + 1)
        PROVE  g[k] = IF k = 0 THEN Nothing ELSE AddPiece(g[k - 1], k)
    <3>1. CASE k = 0
      BY <3>1
    <3>2. CASE k # 0
      <4>1. k - 1 \in 0..m
        BY <3>2
      <4> QED
        BY <2>2, <3>2, <4>1
    <3> QED
      BY <3>1, <3>2
  <2>4. UpToPiece(m + 1, g)
    <3> HIDE DEF g
    <3>1. g = [k \in 0..(m + 1) |-> g[k]]
      BY DEF g
    <3> QED
      BY <2>3, <3>1 DEF UpToPiece
  <2> QED
    BY <2>4
<1> HIDE DEF T
<1>3. Nat \subseteq T
  BY <1>1, <1>2, Inductive
<1> QED
  BY <1>3 DEF T

LEMMA ReadIs ==
  ASSUME ReplyInv
  PROVE  /\ Read[0] = Nothing
         /\ \A n \in 1..Len(wire) : Read[n] = AddPiece(Read[n - 1], n)
<1>1. PICK l \in Nat : l = Len(wire)
  BY Types
<1>2. \E f : UpToPiece(l, f)
  BY UpToPieceExists
<1>3. UpToPiece(l, Read)
  BY <1>1, <1>2 DEF UpToPiece, Read
<1>4. PICK f : f = Read
  OBVIOUS
<1>5. UpToPiece(l, f)
  BY <1>3, <1>4
<1>6. f[0] = Nothing /\ \A n \in 1..l : f[n] = AddPiece(f[n - 1], n)
  BY <1>5 DEF UpToPiece
<1> QED
  BY <1>1, <1>4, <1>6

-----------------------------------------------------------------------------
\* What the reader is at.
Reply == [mark : Nat, text : Seq(Nat)]
Reader == [replies : Seq(Reply), text : Seq(Nat), line : Seq(Nat)]

LEMMA PieceOfLine ==
  ASSUME NEW n, NEW r \in Reader, Part(n) # "EOL"
  PROVE  AddPiece(r, n) = [replies |-> r.replies, text |-> r.text, line |-> Append(r.line, n)]
<1>1. AddPiece(r, n) = [r EXCEPT !.line = Append(r.line, n)]
  BY DEF AddPiece
<1> QED
  BY <1>1 DEF Reader

LEMMA EmptyLine ==
  ASSUME NEW n, NEW r \in Reader, Part(n) = "EOL", r.line = <<>>
  PROVE  AddPiece(r, n) = r
BY DEF AddPiece, AddLine

LEMMA LastLineRead ==
  ASSUME NEW n, NEW r \in Reader, Part(n) = "EOL", r.line # <<>>, Ends(r.line[1]),
         NEW text, text = r.text \o Tail(r.line)
  PROVE  AddPiece(r, n) =
           [replies |-> Append(r.replies, [mark |-> wire[r.line[1]], text |-> text]),
            text |-> <<>>, line |-> <<>>]
BY DEF AddPiece, AddLine, EndsMark, Ends

LEMMA LineRead ==
  ASSUME NEW n, NEW r \in Reader, Part(n) = "EOL", r.line # <<>>, ~Ends(r.line[1]),
         NEW text, text = r.text \o Tail(r.line)
  PROVE  AddPiece(r, n) = [replies |-> r.replies, text |-> text, line |-> <<>>]
<1>1. AddPiece(r, n) = [r EXCEPT !.text = text, !.line = <<>>]
  BY DEF AddPiece, AddLine, EndsMark, Ends
<1> QED
  BY <1>1 DEF Reader

LEMMA LineEnded ==
  ASSUME NEW n, NEW r \in Reader, Part(n) = "EOL"
  PROVE  AddPiece(r, n).line = <<>>
<1>1. PICK text : text = r.text \o Tail(r.line)
  OBVIOUS
<1>2. CASE r.line = <<>>
  BY <1>2, EmptyLine
<1>3. CASE r.line # <<>> /\ Ends(r.line[1])
  <2>1. AddPiece(r, n) =
          [replies |-> Append(r.replies, [mark |-> wire[r.line[1]], text |-> text]),
           text |-> <<>>, line |-> <<>>]
    BY <1>1, <1>3, LastLineRead
  <2> QED
    BY <2>1
<1>4. CASE r.line # <<>> /\ ~Ends(r.line[1])
  <2>1. AddPiece(r, n) = [replies |-> r.replies, text |-> text, line |-> <<>>]
    BY <1>1, <1>4, LineRead
  <2> QED
    BY <2>1
<1> QED
  BY <1>2, <1>3, <1>4

\* The line begun is empty after a line end, and else begins after one, or with
\* the first piece of all, and no other line has ended since.
LineBegun(n) ==
  LET line == Read[n].line IN
  /\ Read[n] \in Reader
  /\ line = <<>> <=> n = 0 \/ Part(n) = "EOL"
  /\ line # <<>> => /\ line[1] \in 1..n
                    /\ line[1] = 1 \/ Part(line[1] - 1) = "EOL"
                    /\ \A k \in line[1]..n : Part(k) # "EOL"

LEMMA PieceTypes ==
  ASSUME ReplyInv, NEW n \in 1..Len(wire), NEW r \in Reader,
         r.line # <<>> => r.line[1] \in 1..Len(wire)
  PROVE  AddPiece(r, n) \in Reader
<1>1. n \in Nat /\ r.text \in Seq(Nat) /\ r.line \in Seq(Nat) /\ r.replies \in Seq(Reply)
  BY DEF Reader
<1>2. CASE Part(n) # "EOL"
  <2>1. Append(r.line, n) \in Seq(Nat)
    BY <1>1
  <2>2. AddPiece(r, n) =
          [replies |-> r.replies, text |-> r.text, line |-> Append(r.line, n)]
    BY <1>2, PieceOfLine
  <2> QED
    BY <1>1, <2>1, <2>2 DEF Reader
<1>3. CASE Part(n) = "EOL" /\ r.line = <<>>
  BY <1>3, EmptyLine
<1>4. CASE Part(n) = "EOL" /\ r.line # <<>>
  <2>1. Tail(r.line) \in Seq(Nat)
    BY <1>1, <1>4
  <2>2. PICK text \in Seq(Nat) : text = r.text \o Tail(r.line)
    <3>1. r.text \o Tail(r.line) \in Seq(Nat)
      BY <1>1, <2>1
    <3> QED
      BY <3>1
  <2>3. <<>> \in Seq(Nat)
    OBVIOUS
  <2>4. CASE Ends(r.line[1])
    <3>1. wire[r.line[1]] \in Nat
      BY <1>4, Types
    <3>2. [mark |-> wire[r.line[1]], text |-> text] \in Reply
      BY <2>2, <3>1 DEF Reply
    <3>3. Append(r.replies, [mark |-> wire[r.line[1]], text |-> text]) \in Seq(Reply)
      BY <1>1, <3>2
    <3>4. AddPiece(r, n) =
            [replies |-> Append(r.replies, [mark |-> wire[r.line[1]], text |-> text]),
             text |-> <<>>, line |-> <<>>]
      BY <1>4, <2>2, <2>4, LastLineRead
    <3> QED
      BY <2>3, <3>3, <3>4 DEF Reader
  <2>5. CASE ~Ends(r.line[1])
    <3>1. AddPiece(r, n) = [replies |-> r.replies, text |-> text, line |-> <<>>]
      BY <1>4, <2>2, <2>5, LineRead
    <3> QED
      BY <1>1, <2>2, <2>3, <3>1 DEF Reader
  <2> QED
    BY <2>4, <2>5
<1> QED
  BY <1>2, <1>3, <1>4

LEMMA LineGoesOn ==
  ASSUME ReplyInv, InTurn, NEW n \in 1..Len(wire), LineBegun(n - 1)
  PROVE  LineBegun(n)
<1>1. PICK r : r = Read[n - 1]
  OBVIOUS
<1>2. PICK s : s = Read[n]
  OBVIOUS
<1>3. s = AddPiece(r, n) /\ r \in Reader /\ n \in Nat
  BY <1>1, <1>2, ReadIs DEF LineBegun
<1>4. r.line # <<>> => r.line[1] \in 1..(n - 1)
  BY <1>1 DEF LineBegun
<1>5. s \in Reader
  <2>1. r.line # <<>> => r.line[1] \in 1..Len(wire)
    BY <1>4, Types
  <2> QED
    BY <1>3, <2>1, PieceTypes
<1>6. CASE Part(n) = "EOL"
  <2>1. s.line = <<>>
    BY <1>3, <1>6, LineEnded
  <2> QED
    BY <1>2, <1>5, <1>6, <2>1 DEF LineBegun
<1>7. CASE Part(n) # "EOL"
  <2>1. s.line = Append(r.line, n) /\ r.line \in Seq(Nat)
    BY <1>3, <1>7, PieceOfLine DEF Reader
  <2>2. s.line # <<>>
    BY <1>3, <2>1, AppendProperties
  <2>4. CASE r.line = <<>>
    <3>1. s.line[1] = n
      BY <1>3, <2>1, <2>4
    <3>2. n = 1 \/ Part(n - 1) = "EOL"
      BY <1>1, <2>4 DEF LineBegun
    <3>3. \A k \in n..n : Part(k) # "EOL"
      BY <1>3, <1>7
    <3> QED
      BY <1>2, <1>3, <1>5, <1>7, <2>2, <3>1, <3>2, <3>3 DEF LineBegun
  <2>5. CASE r.line # <<>>
    <3>1. s.line[1] = r.line[1]
      BY <1>3, <2>1, <2>5
    <3>2. /\ r.line[1] = 1 \/ Part(r.line[1] - 1) = "EOL"
          /\ \A k \in r.line[1]..(n - 1) : Part(k) # "EOL"
      BY <1>1, <2>5 DEF LineBegun
    <3>3. r.line[1] \in 1..n /\ \A k \in r.line[1]..n : k \in r.line[1]..(n - 1) \/ k = n
      BY <1>3, <1>4, <2>5
    <3>4. \A k \in r.line[1]..n : Part(k) # "EOL"
      BY <1>7, <3>2, <3>3
    <3> QED
      BY <1>2, <1>3, <1>5, <1>7, <2>2, <3>1, <3>2, <3>3, <3>4 DEF LineBegun
  <2> QED
    BY <2>4, <2>5
<1> QED
  BY <1>6, <1>7

LEMMA LinesBegun ==
  ASSUME ReplyInv, InTurn
  PROVE  \A n \in 0..Len(wire) : LineBegun(n)
<1> DEFINE T == {n \in Nat : n <= Len(wire) => LineBegun(n)}
<1>1. 0 \in T
  <2>1. Read[0] = Nothing
    BY ReadIs
  <2>2. Nothing \in Reader /\ Nothing.line = <<>>
    BY DEF Nothing, Reader
  <2>3. LineBegun(0)
    BY <2>1, <2>2 DEF LineBegun
  <2> QED
    BY <2>3
<1>2. ASSUME NEW n \in Nat, n \in T PROVE n + 1 \in T
  <2> SUFFICES ASSUME n + 1 <= Len(wire) PROVE LineBegun(n + 1)
    OBVIOUS
  <2>1. LineBegun((n + 1) - 1)
    BY <1>2, Types
  <2>2. n + 1 \in 1..Len(wire)
    BY Types
  <2> QED
    BY <2>1, <2>2, LineGoesOn
<1> HIDE DEF T
<1>3. Nat \subseteq T
  BY <1>1, <1>2, Inductive
<1> QED
  BY <1>3, Types DEF T

-----------------------------------------------------------------------------
\* Each reply read is of the line its mark ends with, which is before the line
\* begun, and they are in order.
RepliesInOrder(n) ==
  LET replies == Read[n].replies
      begun   == IF Read[n].line = <<>> THEN n + 1 ELSE Read[n].line[1]
  IN  /\ \A k \in 1..Len(replies) : \E p \in 1..n :
           Ends(p) /\ p < begun /\ replies[k].mark = wire[p]
      /\ \A j, k \in 1..Len(replies) :
           j < k => Min(At(replies[j].mark)) < Min(At(replies[k].mark))

LEMMA OrderGoesOn ==
  ASSUME ReplyInv, InTurn, NEW n \in 1..Len(wire), RepliesInOrder(n - 1)
  PROVE  RepliesInOrder(n)
<1>1. PICK r : r = Read[n - 1]
  OBVIOUS
<1>2. PICK s : s = Read[n]
  OBVIOUS
<1>3. LineBegun(n - 1) /\ LineBegun(n) /\ n \in Nat
  BY LinesBegun, Types
<1>4. s = AddPiece(r, n) /\ r \in Reader
  BY <1>1, <1>2, <1>3, ReadIs DEF LineBegun
<1>5. PICK rs \in Seq(Reply) : rs = r.replies
  BY <1>4 DEF Reader
<1>6. PICK b : b = IF r.line = <<>> THEN n ELSE r.line[1]
  OBVIOUS
<1>7. b \in 1..n /\ (r.line # <<>> => b \in 1..(n - 1))
  BY <1>1, <1>3, <1>6 DEF LineBegun
<1>8. /\ \A k \in 1..Len(rs) : \E p \in 1..(n - 1) : Ends(p) /\ p < b /\ rs[k].mark = wire[p]
      /\ \A j, k \in 1..Len(rs) : j < k => Min(At(rs[j].mark)) < Min(At(rs[k].mark))
  BY <1>1, <1>3, <1>5, <1>6 DEF RepliesInOrder
<1>9. PICK c : c = IF s.line = <<>> THEN n + 1 ELSE s.line[1]
  OBVIOUS
<1>10. b <= c /\ c \in Nat
  <2>1. CASE Part(n) = "EOL"
    <3>1. s.line = <<>>
      BY <1>2, <1>3, <2>1 DEF LineBegun
    <3> QED
      BY <1>3, <1>7, <1>9, <3>1
  <2>2. CASE Part(n) # "EOL"
    <3>1. s.line = Append(r.line, n) /\ r.line \in Seq(Nat)
      BY <1>4, <2>2, PieceOfLine DEF Reader
    <3>2. s.line # <<>> /\ s.line[1] = b
      BY <1>3, <1>6, <3>1
    <3> QED
      BY <1>7, <1>9, <3>2
  <2> QED
    BY <2>1, <2>2
<1>11. CASE s.replies = rs
  <2>1. ASSUME NEW k \in 1..Len(rs)
        PROVE  \E p \in 1..n : Ends(p) /\ p < c /\ rs[k].mark = wire[p]
    <3>1. PICK p \in 1..(n - 1) : Ends(p) /\ p < b /\ rs[k].mark = wire[p]
      BY <1>8
    <3>2. p \in 1..n /\ p < c
      BY <1>3, <1>7, <1>10, <3>1
    <3> QED
      BY <3>1, <3>2
  <2> QED
    BY <1>2, <1>8, <1>9, <1>11, <2>1 DEF RepliesInOrder
<1>12. CASE s.replies # rs
  <2>1. /\ Part(n) = "EOL" /\ r.line # <<>> /\ Ends(r.line[1])
        /\ \E text : s.replies = Append(rs, [mark |-> wire[r.line[1]], text |-> text])
    <3>1. PICK text : text = r.text \o Tail(r.line)
      OBVIOUS
    <3>2. ~(Part(n) # "EOL")
      BY <1>4, <1>5, <1>12, PieceOfLine
    <3>3. r.line # <<>>
      BY <1>4, <1>5, <1>12, <3>2, EmptyLine
    <3>4. Ends(r.line[1])
      <4> SUFFICES ASSUME ~Ends(r.line[1]) PROVE FALSE
        OBVIOUS
      <4>1. s = [replies |-> r.replies, text |-> text, line |-> <<>>]
        BY <1>4, <3>1, <3>2, <3>3, LineRead
      <4> QED
        BY <1>5, <1>12, <4>1
    <3>5. s = [replies |-> Append(r.replies, [mark |-> wire[r.line[1]], text |-> text]),
               text |-> <<>>, line |-> <<>>]
      BY <1>4, <3>1, <3>2, <3>3, <3>4, LastLineRead
    <3> QED
      BY <1>5, <3>2, <3>3, <3>4, <3>5
  <2>2. PICK e : s.replies = Append(rs, e) /\ e.mark = wire[b]
    BY <1>6, <2>1
  <2>3. Ends(b) /\ b \in 1..(n - 1) /\ c = n + 1
    BY <1>2, <1>3, <1>6, <1>7, <1>9, <2>1 DEF LineBegun
  <2>4. PICK l \in Nat : l = Len(rs)
    BY <1>5
  <2>5. PICK ss : ss = s.replies
    OBVIOUS
  <2>6. Len(ss) = l + 1 /\ ss[l + 1] = e /\ \A k \in 1..l : ss[k] = rs[k]
    BY <1>5, <2>2, <2>4, <2>5
  <2>7. \A k \in 1..(l + 1) : k \in 1..l \/ k = l + 1
    BY <2>4
  <2>8. ASSUME NEW k \in 1..(l + 1)
        PROVE  \E p \in 1..n : Ends(p) /\ p < c /\ ss[k].mark = wire[p]
    <3>1. CASE k \in 1..l
      <4>1. PICK p \in 1..(n - 1) : Ends(p) /\ p < b /\ rs[k].mark = wire[p]
        BY <1>8, <2>4, <3>1
      <4>2. p \in 1..n /\ p < c
        BY <1>3, <1>7, <1>10, <4>1
      <4> QED
        BY <2>6, <3>1, <4>1, <4>2
    <3>2. CASE k = l + 1
      BY <1>3, <2>2, <2>3, <2>6, <3>2
    <3> QED
      BY <2>7, <3>1, <3>2
  <2>9. ASSUME NEW j \in 1..l
        PROVE  Min(At(ss[j].mark)) < Min(At(e.mark))
    <3>1. PICK p \in 1..(n - 1) : Ends(p) /\ p < b /\ rs[j].mark = wire[p]
      BY <1>8, <2>4
    <3>2. p \in 1..Len(wire) /\ b \in 1..Len(wire)
      BY <2>3, Types
    <3>3. Min(At(wire[p])) < Min(At(wire[b]))
      BY <2>3, <3>1, <3>2, EndsInOrder
    <3> QED
      BY <2>2, <2>6, <3>1, <3>3
  <2>10. ASSUME NEW j \in 1..(l + 1), NEW k \in 1..(l + 1), j < k
         PROVE  Min(At(ss[j].mark)) < Min(At(ss[k].mark))
    <3>1. j \in 1..l
      BY <2>10
    <3>2. CASE k = l + 1
      BY <2>6, <2>9, <3>1, <3>2
    <3>3. CASE k \in 1..l
      BY <1>8, <2>4, <2>6, <2>10, <3>1, <3>3
    <3> QED
      BY <2>7, <3>2, <3>3
  <2> QED
    BY <1>2, <1>9, <2>5, <2>6, <2>8, <2>10 DEF RepliesInOrder
<1> QED
  BY <1>11, <1>12

LEMMA OrderKept ==
  ASSUME ReplyInv, InTurn
  PROVE  \A n \in 0..Len(wire) : RepliesInOrder(n)
<1> DEFINE T == {n \in Nat : n <= Len(wire) => RepliesInOrder(n)}
<1>1. 0 \in T
  <2>1. Read[0].replies = <<>>
    BY ReadIs DEF Nothing
  <2>2. RepliesInOrder(0)
    BY <2>1 DEF RepliesInOrder
  <2> QED
    BY <2>2
<1>2. ASSUME NEW n \in Nat, n \in T PROVE n + 1 \in T
  <2> SUFFICES ASSUME n + 1 <= Len(wire) PROVE RepliesInOrder(n + 1)
    OBVIOUS
  <2>1. RepliesInOrder((n + 1) - 1)
    BY <1>2, Types
  <2>2. n + 1 \in 1..Len(wire)
    BY Types
  <2> QED
    BY <2>1, <2>2, OrderGoesOn
<1> HIDE DEF T
<1>3. Nat \subseteq T
  BY <1>1, <1>2, Inductive
<1> QED
  BY <1>3, Types DEF T

-----------------------------------------------------------------------------
\* A reply that is read stays read.
LEMMA ReplyStays ==
  ASSUME ReplyInv, InTurn, NEW n \in 1..Len(wire),
         NEW k \in 1..Len(Read[n - 1].replies)
  PROVE  k \in 1..Len(Read[n].replies) /\ Read[n].replies[k] = Read[n - 1].replies[k]
<1>1. PICK r : r = Read[n - 1]
  OBVIOUS
<1>2. PICK s : s = Read[n]
  OBVIOUS
<1>3. s = AddPiece(r, n) /\ r \in Reader
  <2>1. n - 1 \in 0..Len(wire)
    BY Types
  <2>2. LineBegun(n - 1) /\ Read[n] = AddPiece(Read[n - 1], n)
    BY <2>1, LinesBegun, ReadIs
  <2> QED
    BY <1>1, <1>2, <2>2 DEF LineBegun
<1>4. PICK rs \in Seq(Reply) : rs = r.replies
  BY <1>3 DEF Reader
<1>5. s.replies = rs \/ \E e : s.replies = Append(rs, e)
  <2>1. PICK text : text = r.text \o Tail(r.line)
    OBVIOUS
  <2>2. CASE Part(n) # "EOL"
    <3>1. s = [replies |-> r.replies, text |-> r.text, line |-> Append(r.line, n)]
      BY <1>3, <2>2, PieceOfLine
    <3> QED
      BY <1>4, <3>1
  <2>3. CASE Part(n) = "EOL" /\ r.line = <<>>
    BY <1>3, <1>4, <2>3, EmptyLine
  <2>4. CASE Part(n) = "EOL" /\ r.line # <<>> /\ Ends(r.line[1])
    <3>1. s = [replies |-> Append(r.replies, [mark |-> wire[r.line[1]], text |-> text]),
               text |-> <<>>, line |-> <<>>]
      BY <1>3, <2>1, <2>4, LastLineRead
    <3> QED
      BY <1>4, <3>1
  <2>5. CASE Part(n) = "EOL" /\ r.line # <<>> /\ ~Ends(r.line[1])
    <3>1. s = [replies |-> r.replies, text |-> text, line |-> <<>>]
      BY <1>3, <2>1, <2>5, LineRead
    <3> QED
      BY <1>4, <3>1
  <2> QED
    BY <2>2, <2>3, <2>4, <2>5
<1>6. k \in 1..Len(rs)
  BY <1>1, <1>4
<1>7. k \in 1..Len(s.replies) /\ s.replies[k] = rs[k]
  <2>1. CASE s.replies = rs
    BY <1>6, <2>1
  <2>2. ASSUME NEW e, s.replies = Append(rs, e)
        PROVE  k \in 1..Len(s.replies) /\ s.replies[k] = rs[k]
    <3>1. PICK ss : ss = s.replies
      OBVIOUS
    <3>2. k \in 1..Len(ss) /\ ss[k] = rs[k]
      BY <1>4, <1>6, <2>2, <3>1
    <3> QED
      BY <3>1, <3>2
  <2> QED
    BY <1>5, <2>1, <2>2
<1> QED
  BY <1>1, <1>2, <1>4, <1>7

LEMMA RepliesStay ==
  ASSUME ReplyInv, InTurn, NEW n \in 0..Len(wire), NEW k \in 1..Len(Read[n].replies)
  PROVE  /\ k \in 1..Len(Read[Len(wire)].replies)
         /\ Read[Len(wire)].replies[k] = Read[n].replies[k]
<1> DEFINE Stays(i) == /\ k \in 1..Len(Read[i].replies)
                       /\ Read[i].replies[k] = Read[n].replies[k]
           T == {d \in Nat : n + d <= Len(wire) => Stays(n + d)}
<1>0. n \in Nat /\ Len(wire) \in Nat
  BY Types
<1>1. 0 \in T
  <2>1. n + 0 = n
    BY <1>0
  <2>2. Stays(n + 0)
    BY <2>1
  <2> QED
    BY <2>2
<1>2. ASSUME NEW d \in Nat, d \in T PROVE d + 1 \in T
  <2> SUFFICES ASSUME n + (d + 1) <= Len(wire) PROVE Stays(n + (d + 1))
    OBVIOUS
  <2>1. Stays(n + d)
    BY <1>0, <1>2
  <2>2. PICK i \in 1..Len(wire) : i = n + (d + 1) /\ i - 1 = n + d
    BY <1>0
  <2>3. Stays(i - 1)
    BY <2>1, <2>2
  <2>4. Stays(i)
    BY <2>3, ReplyStays
  <2> QED
    BY <2>2, <2>4
<1> HIDE DEF T
<1>3. Nat \subseteq T
  BY <1>1, <1>2, Inductive
<1>4. PICK d \in Nat : n + d = Len(wire)
  <2>1. Len(wire) - n \in Nat /\ n + (Len(wire) - n) = Len(wire)
    BY <1>0
  <2> QED
    BY <2>1
<1>5. Stays(n + d)
  <2>1. d \in T /\ n + d <= Len(wire)
    BY <1>0, <1>3, <1>4
  <2> HIDE DEF Stays
  <2> QED
    BY <2>1 DEF T
<1> QED
  BY <1>4, <1>5

-----------------------------------------------------------------------------
\* Two pieces.
LEMMA Two ==
  ASSUME NEW a \in Nat, NEW b \in Nat
  PROVE  /\ Append(<<a>>, b) = <<a, b>> /\ <<a>> \o <<b>> = <<a, b>>
         /\ Tail(<<a, b>>) = <<b>>
<1>1. <<a, b>> \in Seq(Nat) /\ Len(<<a, b>>) = 2 /\ <<a, b>>[1] = a /\ <<a, b>>[2] = b
  OBVIOUS
<1>2. PICK v : v = Append(<<a>>, b)
  OBVIOUS
<1>3. PICK w : w = <<a>> \o <<b>>
  OBVIOUS
<1>4. <<a>> \in Seq(Nat) /\ <<b>> \in Seq(Nat) /\ Len(<<a>>) = 1 /\ Len(<<b>>) = 1
  OBVIOUS
<1>5. v \in Seq(Nat) /\ Len(v) = 2 /\ v[1] = a /\ v[2] = b
  BY <1>2, <1>4
<1>7. w \in Seq(Nat) /\ Len(w) = 2 /\ w[1] = a /\ w[2] = b
  BY <1>3, <1>4
<1>8. PICK u \in Seq(Nat) : u = <<a, b>> /\ Len(u) = 2 /\ u[1] = a /\ u[2] = b
  BY <1>1
<1>9. \A i \in 1..2 : i = 1 \/ i = 2
  OBVIOUS
<1>10. u = v
  BY <1>5, <1>8, <1>9, SeqEqual
<1>11. u = w
  BY <1>7, <1>8, <1>9, SeqEqual
<1>6. Tail(<<a, b>>) = <<b>>
  OBVIOUS
<1> QED
  BY <1>2, <1>3, <1>6, <1>8, <1>10, <1>11

\* A line of three pieces, after a line end, is read as it is.
LEMMA WholeLine ==
  ASSUME ReplyInv, InTurn, NEW a \in 1..Len(wire), a + 2 \in 1..Len(wire),
         Part(a) = "pfx", Part(a + 1) = "msg", Part(a + 2) = "EOL",
         a = 1 \/ Part(a - 1) = "EOL",
         NEW r, r = Read[a - 1]
  PROVE  /\ r \in Reader
         /\ Ends(a) => Read[a + 2] =
              [replies |-> Append(r.replies, [mark |-> wire[a], text |-> r.text \o <<a + 1>>]),
               text |-> <<>>, line |-> <<>>]
         /\ ~Ends(a) => Read[a + 2] =
              [replies |-> r.replies, text |-> r.text \o <<a + 1>>, line |-> <<>>]
<1>1. a \in Nat /\ a + 1 \in Nat /\ a + 1 \in 1..Len(wire)
  BY Types
<1>2. /\ Read[a] = AddPiece(r, a)
      /\ Read[a + 1] = AddPiece(Read[a], a + 1)
      /\ Read[a + 2] = AddPiece(Read[a + 1], a + 2)
      /\ r \in Reader /\ Read[a] \in Reader /\ Read[a + 1] \in Reader
      /\ r.line = <<>>
  <2>1. /\ a - 1 \in 0..Len(wire) /\ (a = 1 => a - 1 = 0) /\ a \in 0..Len(wire)
        /\ a + 1 \in 0..Len(wire) /\ (a + 1) - 1 = a /\ (a + 2) - 1 = a + 1
    BY <1>1, Types
  <2>2. LineBegun(a - 1) /\ LineBegun(a) /\ LineBegun(a + 1)
    BY <2>1, LinesBegun
  <2>3. /\ Read[a] = AddPiece(Read[a - 1], a)
        /\ Read[a + 1] = AddPiece(Read[(a + 1) - 1], a + 1)
        /\ Read[a + 2] = AddPiece(Read[(a + 2) - 1], a + 2)
    BY <1>1, ReadIs
  <2> QED
    BY <2>1, <2>2, <2>3 DEF LineBegun
<1>3. Read[a] = [replies |-> r.replies, text |-> r.text, line |-> <<a>>]
  <2>1. AddPiece(r, a) = [replies |-> r.replies, text |-> r.text, line |-> Append(r.line, a)]
    BY <1>2, PieceOfLine
  <2>2. Append(<<>>, a) = <<a>>
    OBVIOUS
  <2> QED
    BY <1>2, <2>1, <2>2
<1>4. Read[a + 1] = [replies |-> r.replies, text |-> r.text, line |-> <<a, a + 1>>]
  <2>1. PICK s \in Reader : s = Read[a]
    BY <1>2
  <2>2. AddPiece(s, a + 1) =
          [replies |-> s.replies, text |-> s.text, line |-> Append(s.line, a + 1)]
    BY PieceOfLine
  <2>3. Append(<<a>>, a + 1) = <<a, a + 1>>
    BY <1>1, Two
  <2> QED
    BY <1>2, <1>3, <2>1, <2>2, <2>3
<1>5. PICK s \in Reader : s = Read[a + 1]
  BY <1>2
<1>6. s.line # <<>> /\ s.line[1] = a /\ s.replies = r.replies /\ s.text = r.text
  BY <1>4, <1>5
<1>7. PICK text : text = r.text \o <<a + 1>>
  OBVIOUS
<1>8. text = s.text \o Tail(s.line)
  <2>1. Tail(<<a, a + 1>>) = <<a + 1>>
    BY <1>1, Two
  <2>2. s.line = <<a, a + 1>>
    BY <1>4, <1>5
  <2> QED
    BY <1>6, <1>7, <2>1, <2>2
<1>9. ASSUME Ends(a)
      PROVE  Read[a + 2] = [replies |-> Append(r.replies, [mark |-> wire[a], text |-> text]),
                            text |-> <<>>, line |-> <<>>]
  <2>1. AddPiece(s, a + 2) =
          [replies |-> Append(s.replies, [mark |-> wire[s.line[1]], text |-> text]),
           text |-> <<>>, line |-> <<>>]
    BY <1>6, <1>9, <1>8, LastLineRead
  <2> QED
    BY <1>2, <1>5, <1>6, <2>1
<1>10. ASSUME ~Ends(a)
      PROVE  Read[a + 2] = [replies |-> r.replies, text |-> text, line |-> <<>>]
  <2>1. AddPiece(s, a + 2) = [replies |-> s.replies, text |-> text, line |-> <<>>]
    BY <1>6, <1>10, <1>8, LineRead
  <2> QED
    BY <1>2, <1>5, <1>6, <2>1
<1> QED
  BY <1>2, <1>7, <1>9, <1>10

\* A line that is not torn begins with the code, for what its mark has before is
\* just before it.
LEMMA LineOfOne ==
  ASSUME ReplyInv, InTurn, NoneTorn, NEW b \in 1..Len(wire),
         b = 1 \/ Part(b - 1) = "EOL"
  PROVE  Ends(b) \/ (Lines(wire[b]) = 2 /\ Nth(b) = 0)
<1>1. ASSUME Nth(b) # 0
      PROVE  b - 1 \in 1..Len(wire) /\ wire[b - 1] = wire[b] /\ Part(b - 1) = "EOL"
  <2>1. PICK j \in 1..Len(wire) : wire[j] = wire[b] /\ ~(b <= j)
    BY <1>1, NthFirst
  <2>2. b - 1 \in 1..Len(wire) /\ b - 1 \in j..b /\ b # 1
    BY <2>1, Types
  <2>3. wire[b - 1] = wire[b]
    BY <2>1, <2>2 DEF NoneTorn
  <2> QED
    BY <2>2, <2>3
<1>2. CASE Lines(wire[b]) = 1
  <2> SUFFICES ASSUME Nth(b) # 0 PROVE FALSE
    BY <1>2, EndsAt
  <2>1. /\ Nth(b) \in 0..2 /\ Nth(b - 1) \in 0..2
        /\ Part(b - 1) = ThreeOf(Nth(b - 1))
    BY <1>1, <1>2, ShortPieces
  <2>2. Nth(b - 1) < Nth(b)
    BY <1>1, NthGrows
  <2>3. Nth(b - 1) = 0 \/ Nth(b - 1) = 1
    BY <2>1, <2>2
  <2> QED
    BY <1>1, <2>1, <2>3 DEF ThreeOf
<1>3. CASE Lines(wire[b]) = 2
  <2> SUFFICES ASSUME Nth(b) # 0, Nth(b) # 3 PROVE FALSE
    BY <1>3, EndsAt
  <2>1. PICK k \in 0..5 : k = Nth(b - 1) /\ Part(b - 1) = ThreeOf(k)
    BY <1>1, <1>3, LongPieces
  <2>2. k + 1 = Nth(b) /\ Nth(b) \in 0..5
    BY <1>3, <2>1, LongBefore, LongPieces
  <2>3. k \in {0, 1, 3, 4}
    BY <2>2
  <2> QED
    BY <1>1, <2>1, <2>3 DEF ThreeOf
<1> QED
  BY <1>2, <1>3, Lengths

\* Where no mark is torn, what a reader is left with is the first line of a mark of
\* two, and nothing when another begins.
TextLeft(n) == Read[n].text # <<>> => n # 0 /\ Lines(wire[n]) = 2 /\ Nth(n) \in 2..4

LEMMA LeftGoesOn ==
  ASSUME ReplyInv, InTurn, NoneTorn, NEW i \in 1..Len(wire), TextLeft(i - 1)
  PROVE  TextLeft(i)
<1>0. i \in Nat /\ i - 1 \in 0..Len(wire) /\ Len(wire) \in Nat
  BY Types
<1>1. PICK r \in Reader : r = Read[i - 1] /\ Read[i] = AddPiece(r, i) /\ LineBegun(i - 1)
  BY <1>0, ReadIs, LinesBegun DEF LineBegun
<1>2. PICK text : text = r.text \o Tail(r.line)
  OBVIOUS
<1>3. ASSUME r.text # <<>>
      PROVE  Lines(wire[i]) = 2 /\ Nth(i) \in 3..5
  <2>1. i - 1 \in 1..Len(wire) /\ Lines(wire[i - 1]) = 2 /\ Nth(i - 1) \in 2..4
    BY <1>0, <1>1, <1>3 DEF TextLeft
  <2>2. (i - 1) + 1 = i
    BY <1>0
  <2>3. wire[i] = wire[i - 1] /\ Nth(i) = Nth(i - 1) + 1
    BY <2>1, <2>2, LongNext
  <2> QED
    BY <2>1, <2>3
<1>4. CASE Part(i) # "EOL"
  <2>1. Read[i] = [replies |-> r.replies, text |-> r.text, line |-> Append(r.line, i)]
    BY <1>1, <1>4, PieceOfLine
  <2>2. ASSUME r.text # <<>> PROVE Nth(i) # 5
    <3>1. Nth(i) = 5 => Part(i) = "EOL"
      BY <1>3, <2>2, LongPieces DEF ThreeOf
    <3> QED
      BY <1>4, <3>1
  <2> QED
    BY <1>0, <1>3, <2>1, <2>2 DEF TextLeft
<1>5. CASE Part(i) = "EOL" /\ r.line = <<>>
  <2>1. Read[i] = r
    BY <1>1, <1>5, EmptyLine
  <2>2. ASSUME r.text # <<>> PROVE FALSE
    <3>1. i - 1 \in 1..Len(wire) /\ Lines(wire[i - 1]) = 2 /\ Nth(i - 1) \in 2..4
      BY <1>0, <1>1, <2>2 DEF TextLeft
    <3>2. Part(i - 1) = "EOL"
      BY <1>1, <1>5, <3>1 DEF LineBegun
    <3>3. Nth(i - 1) = 2
      BY <3>1, <3>2, LongPieces DEF ThreeOf
    <3>4. (i - 1) + 1 = i
      BY <1>0
    <3>5. Nth(i) = 3 /\ wire[i] = wire[i - 1]
      BY <3>1, <3>3, <3>4, LongNext
    <3>6. Part(i) = "pfx"
      BY <3>1, <3>5, LongPieces DEF ThreeOf
    <3> QED
      BY <1>5, <3>6
  <2> QED
    BY <2>1, <2>2 DEF TextLeft
<1>6. CASE Part(i) = "EOL" /\ r.line # <<>>
  <2>1. PICK b \in 1..(i - 1) : /\ b = r.line[1] /\ (b = 1 \/ Part(b - 1) = "EOL")
                                /\ \A k \in b..(i - 1) : Part(k) # "EOL"
    BY <1>1, <1>6 DEF LineBegun
  <2>2. b \in 1..Len(wire)
    BY <1>0
  <2>3. CASE Ends(b)
    <3>1. Ends(r.line[1])
      BY <2>1, <2>3
    <3>2. AddPiece(r, i) =
            [replies |-> Append(r.replies, [mark |-> wire[r.line[1]], text |-> text]),
             text |-> <<>>, line |-> <<>>]
      BY <1>2, <1>6, <3>1, LastLineRead
    <3>3. AddPiece(r, i).text = <<>>
      BY <3>2
    <3> QED
      BY <1>1, <3>3 DEF TextLeft
  <2>4. CASE Lines(wire[b]) = 2 /\ Nth(b) = 0
    <3>1. b + 1 \in 1..Len(wire)
      BY <1>0
    <3>2. wire[b + 1] = wire[b] /\ Nth(b + 1) = 1
      BY <2>2, <2>4, <3>1, LongNext
    <3>3. Part(b + 1) = "msg"
      BY <2>4, <3>1, <3>2, LongPieces DEF ThreeOf
    <3>4. i # b + 1
      BY <1>6, <3>3
    <3>5. b + 2 \in 1..Len(wire) /\ (b + 1) + 1 = b + 2
      BY <1>0, <3>4
    <3>6. wire[b + 2] = wire[b] /\ Nth(b + 2) = 2
      BY <2>4, <3>1, <3>2, <3>5, LongNext
    <3>7. Part(b + 2) = "EOL"
      BY <2>4, <3>5, <3>6, LongPieces DEF ThreeOf
    <3>8. b + 2 \notin b..(i - 1)
      BY <2>1, <3>7
    <3>9. i = b + 2
      BY <1>0, <3>4, <3>8
    <3> QED
      BY <1>0, <2>4, <3>6, <3>9 DEF TextLeft
  <2> QED
    BY <2>1, <2>2, <2>3, <2>4, LineOfOne
<1> QED
  BY <1>4, <1>5, <1>6

LEMMA NothingLeft ==
  ASSUME ReplyInv, InTurn, NoneTorn, NEW a \in 1..Len(wire), Nth(a) = 0
  PROVE  Read[a - 1].text = <<>>
<1>0. Len(wire) \in Nat /\ a \in Nat /\ a - 1 \in Nat /\ a - 1 <= Len(wire) /\ (a - 1) + 1 = a
  BY Types
<1> DEFINE T == {n \in Nat : n <= Len(wire) => TextLeft(n)}
<1>1. 0 \in T
  <2>1. Read[0].text = <<>>
    BY ReadIs DEF Nothing
  <2>2. TextLeft(0)
    BY <2>1 DEF TextLeft
  <2> QED
    BY <2>2
<1>2. ASSUME NEW n \in Nat, n \in T PROVE n + 1 \in T
  <2> SUFFICES ASSUME n + 1 <= Len(wire) PROVE TextLeft(n + 1)
    OBVIOUS
  <2>1. n + 1 \in 1..Len(wire) /\ TextLeft((n + 1) - 1)
    BY <1>0, <1>2
  <2> QED
    BY <2>1, LeftGoesOn
<1> HIDE DEF T
<1>3. Nat \subseteq T
  BY <1>1, <1>2, Inductive
<1>4. TextLeft(a - 1)
  BY <1>0, <1>3 DEF T
<1> SUFFICES ASSUME Read[a - 1].text # <<>> PROVE FALSE
  OBVIOUS
<1>5. a - 1 \in 1..Len(wire) /\ Lines(wire[a - 1]) = 2 /\ Nth(a - 1) \in 2..4
  BY <1>0, <1>4 DEF TextLeft
<1>6. Nth(a) = Nth(a - 1) + 1
  BY <1>0, <1>5, LongNext
<1> QED
  BY <1>5, <1>6

\* A sequence ends with what is put after it.
LEMMA EndsWith ==
  ASSUME NEW s \in Seq(Nat), NEW t \in Seq(Nat)
  PROVE  IsSuffix(t, s \o t)
<1>0. s \o t \in Seq(Nat)
  OBVIOUS
<1>1. PICK u \in Seq(Nat) : u = s \o t
  BY <1>0
<1>2. PICK l \in Nat, k \in Nat : l = Len(s) /\ k = Len(t) /\ Len(u) = l + k
  BY <1>1
<1>3. \A i \in 1..k : u[l + i] = t[i]
  BY <1>1, <1>2
<1>4. PICK x, y : x = Reverse(t) /\ y = Reverse(u)
  OBVIOUS
<1>5. /\ x = [i \in 1..k |-> t[(k - i) + 1]]
      /\ y = [i \in 1..(l + k) |-> u[((l + k) - i) + 1]]
  BY <1>2, <1>4 DEF Reverse
<1>6. ASSUME NEW i \in 1..k PROVE x[i] = y[i]
  <2>1. PICK j \in 1..k : j = (k - i) + 1 /\ l + j = ((l + k) - i) + 1
    <3>1. (k - i) + 1 \in 1..k /\ l + ((k - i) + 1) = ((l + k) - i) + 1
      BY <1>2
    <3> QED
      BY <3>1
  <2>2. i \in 1..(l + k)
    BY <1>2
  <2> QED
    BY <1>3, <1>5, <2>1, <2>2
<1>7. x \in Seq(Nat) /\ y \in Seq(Nat) /\ Len(x) = k /\ Len(y) = l + k
  <2>1. \A i \in 1..k : t[(k - i) + 1] \in Nat
    BY <1>2
  <2>2. \A i \in 1..(l + k) : u[((l + k) - i) + 1] \in Nat
    BY <1>2
  <2> QED
    BY <1>2, <1>5, <2>1, <2>2
<1>8. SubSeq(x, 1, k) = SubSeq(y, 1, k)
  BY <1>2, <1>6, <1>7
<1>9. IsPrefix(x, y)
  BY <1>2, <1>7, <1>8 DEF IsPrefix
<1> QED
  BY <1>1, <1>4, <1>9 DEF IsSuffix

\* The text of a mark of one line, and of one of two.
LEMMA OneText ==
  ASSUME ReplyInv, NEW m, NEW i \in At(m), Lines(m) = 1,
         Part(i) = "msg", LineOf(i) = 1, \A j \in At(m) : Part(j) = "msg" => j = i
  PROVE  Text(m) = <<i>>
<1>1. PICK t : t = Text(m)
  OBVIOUS
<1>2. (CHOOSE j \in At(m) : Part(j) = "msg" /\ LineOf(j) = 1) = i
  OBVIOUS
<1>3. t = [l \in 1..1 |-> i]
  BY <1>1, <1>2 DEF Text
<1>4. i \in Nat
  BY DEF At
<1>5. t \in Seq(Nat) /\ Len(t) = 1 /\ t[1] = i
  BY <1>3, <1>4
<1>6. <<i>> \in Seq(Nat) /\ Len(<<i>>) = 1 /\ <<i>>[1] = i
  BY <1>4
<1>7. \A k \in 1..1 : k = 1
  OBVIOUS
<1> QED
  BY <1>1, <1>5, <1>6, <1>7, SeqEqual

LEMMA TwoTexts ==
  ASSUME ReplyInv, NEW m, NEW i \in At(m), NEW k \in At(m), Lines(m) = 2,
         \A j \in At(m) : Part(j) = "msg" /\ LineOf(j) = 1 <=> j = i,
         \A j \in At(m) : Part(j) = "msg" /\ LineOf(j) = 2 <=> j = k
  PROVE  Text(m) = <<i, k>>
<1>1. PICK t : t = Text(m)
  OBVIOUS
<1>2. /\ (CHOOSE j \in At(m) : Part(j) = "msg" /\ LineOf(j) = 1) = i
      /\ (CHOOSE j \in At(m) : Part(j) = "msg" /\ LineOf(j) = 2) = k
  OBVIOUS
<1>3. t = [l \in 1..2 |-> CHOOSE j \in At(m) : Part(j) = "msg" /\ LineOf(j) = l]
  BY <1>1 DEF Text
<1>4. t = [l \in 1..2 |-> t[l]] /\ t[1] = i /\ t[2] = k
  BY <1>2, <1>3
<1>5. \A l \in 1..2 : l = 1 \/ l = 2
  OBVIOUS
<1>6. i \in Nat /\ k \in Nat
  BY DEF At
<1>7. t \in Seq(Nat) /\ Len(t) = 2
  <2>1. \A l \in 1..2 : t[l] \in Nat
    BY <1>4, <1>5, <1>6
  <2> QED
    BY <1>4, <2>1
<1>8. <<i, k>> \in Seq(Nat) /\ Len(<<i, k>>) = 2 /\ <<i, k>>[1] = i /\ <<i, k>>[2] = k
  BY <1>6
<1> QED
  BY <1>1, <1>4, <1>5, <1>7, <1>8, SeqEqual

\* What there is to be of a reply among those that are read.
IsRead(m) ==
  LET read == Read[Len(wire)].replies IN
  \E k \in 1..Len(read) : /\ read[k].mark = m
                          /\ IsSuffix(Text(m), read[k].text)
                          /\ NoneTorn => read[k].text = Text(m)

\* It is read with the last of its pieces, after what was left before the first.
LEMMA ReadAtLast ==
  ASSUME ReplyInv, InTurn, NEW a \in 1..Len(wire), Nth(a) = 0, NEW b \in 1..Len(wire),
         NEW m, Text(m) \in Seq(Nat),
         Read[b].replies = Append(Read[a - 1].replies,
                                  [mark |-> m, text |-> Read[a - 1].text \o Text(m)])
  PROVE  IsRead(m)
<1>1. PICK rs, ss, text, t : /\ rs = Read[a - 1].replies /\ ss = Read[b].replies
                             /\ text = Read[a - 1].text /\ t = Text(m)
  OBVIOUS
<1>2. rs \in Seq(Reply) /\ text \in Seq(Nat) /\ t \in Seq(Nat)
  <2>1. a - 1 \in 0..Len(wire)
    BY Types
  <2>2. Read[a - 1] \in Reader
    BY <2>1, LinesBegun DEF LineBegun
  <2> QED
    BY <1>1, <2>2 DEF Reader
<1>3. PICK k \in Nat : k = Len(rs) + 1
  BY <1>2
<1>4. PICK e : e = [mark |-> m, text |-> text \o t]
  OBVIOUS
<1>5. k \in 1..Len(ss) /\ ss[k] = e
  <2>1. ss = Append(rs, e)
    BY <1>1, <1>4
  <2> QED
    BY <1>2, <1>3, <2>1
<1>6. PICK read : read = Read[Len(wire)].replies
  OBVIOUS
<1>7. k \in 1..Len(read) /\ read[k] = e
  <2>1. b \in 0..Len(wire) /\ k \in 1..Len(Read[b].replies)
    BY <1>1, <1>5, Types
  <2> QED
    BY <1>1, <1>5, <1>6, <2>1, RepliesStay
<1>8. IsSuffix(t, e.text)
  BY <1>2, <1>4, EndsWith
<1>9. NoneTorn => e.text = t
  <2> SUFFICES ASSUME NoneTorn PROVE e.text = t
    OBVIOUS
  <2>1. text = <<>>
    BY <1>1, NothingLeft
  <2>2. <<>> \o t = t
    BY <1>2
  <2> QED
    BY <1>4, <2>1, <2>2
<1>10. /\ read[k].mark = m /\ IsSuffix(Text(m), read[k].text)
       /\ NoneTorn => read[k].text = Text(m)
  BY <1>1, <1>4, <1>7, <1>8, <1>9
<1> QED
  BY <1>6, <1>7, <1>10, Zenon DEF IsRead

\* Where an untorn mark begins.
LEMMA Begins ==
  ASSUME ReplyInv, InTurn, NEW m, NEW l \in {2, 5}, Pieces(m) = l + 1, Untorn(m)
  PROVE  \E a \in 1..Len(wire) : /\ a \in Nat /\ At(m) = a..(a + l)
                                 /\ \A d \in 0..l : a + d \in 1..Len(wire) /\ wire[a + d] = m
                                 /\ Nth(a) = 0
                                 /\ a = 1 \/ Part(a - 1) = "EOL"
<1>1. PICK a \in At(m) : /\ At(m) = a..(a + Pieces(m) - 1)
                         /\ a > 1 => Part(a - 1) = "EOL"
  BY DEF Untorn
<1>2. a \in 1..Len(wire) /\ wire[a] = m /\ Len(wire) \in Nat
  BY Types DEF At
<1>3. a + Pieces(m) - 1 = a + l
  BY <1>2
<1>4. At(m) = a..(a + l)
  BY <1>1, <1>3
<1>5. \A d \in 0..l : a + d \in At(m)
  BY <1>2, <1>4
<1>6. \A j \in 1..Len(wire) : wire[j] = wire[a] => a <= j
  BY <1>2, <1>4 DEF At
<1>7. Nth(a) = 0
  BY <1>2, <1>6, NthFirst
<1>8. \A d \in 0..l : a + d \in 1..Len(wire) /\ wire[a + d] = m
  BY <1>5 DEF At
<1>9. a \in Nat /\ (a = 1 \/ Part(a - 1) = "EOL")
  BY <1>1, <1>2
<1> QED
  BY <1>2, <1>4, <1>7, <1>8, <1>9

LEMMA OneIsRead ==
  ASSUME ReplyInv, InTurn, NEW m, Lines(m) = 1, Untorn(m)
  PROVE  IsRead(m)
<1>1. PICK a \in 1..Len(wire) :
         /\ a \in Nat /\ At(m) = a..(a + 2)
         /\ \A d \in 0..2 : a + d \in 1..Len(wire) /\ wire[a + d] = m
         /\ Nth(a) = 0
         /\ a = 1 \/ Part(a - 1) = "EOL"
  <2>1. 2 \in {2, 5} /\ Pieces(m) = 2 + 1
    BY Lengths
  <2> QED
    BY <2>1, Begins
<1>2. /\ a + 0 = a /\ a + 1 \in 1..Len(wire) /\ a + 2 \in 1..Len(wire) /\ (a + 1) + 1 = a + 2
      /\ wire[a] = m /\ wire[a + 1] = m /\ wire[a + 2] = m
  <2>1. 0 \in 0..2 /\ 1 \in 0..2 /\ 2 \in 0..2 /\ a + 0 = a /\ (a + 1) + 1 = a + 2
    BY <1>1
  <2> QED
    BY <1>1, <2>1
<1>3. Nth(a + 1) = 1 /\ Nth(a + 2) = 2
  <2>1. Nth(a + 1) = 1
    BY <1>1, <1>2, NthNext
  <2> QED
    BY <1>2, <2>1, NthNext
<1>4. Part(a) = "pfx" /\ Part(a + 1) = "msg" /\ Part(a + 2) = "EOL" /\ LineOf(a + 1) = 1
  BY <1>1, <1>2, <1>3, ShortPieces DEF ThreeOf
<1>5. Ends(a)
  BY <1>1, <1>2, EndsAt
<1>6. Text(m) = <<a + 1>>
  <2>1. \A j \in a..(a + 2) : j = a \/ j = a + 1 \/ j = a + 2
    BY <1>1
  <2>2. \A j \in At(m) : Part(j) = "msg" => j = a + 1
    BY <1>1, <1>4, <2>1
  <2>3. a + 1 \in At(m)
    BY <1>2 DEF At
  <2> QED
    BY <1>4, <2>2, <2>3, OneText
<1>7. PICK r : r = Read[a - 1]
  OBVIOUS
<1>8. Read[a + 2].replies = Append(r.replies, [mark |-> m, text |-> r.text \o Text(m)])
  <2>1. Read[a + 2] =
          [replies |-> Append(r.replies, [mark |-> wire[a], text |-> r.text \o <<a + 1>>]),
           text |-> <<>>, line |-> <<>>]
    BY <1>1, <1>2, <1>4, <1>5, <1>7, WholeLine
  <2> QED
    BY <1>2, <1>6, <2>1
<1>9. Text(m) \in Seq(Nat)
  BY <1>1, <1>6
<1> QED
  BY <1>1, <1>2, <1>7, <1>8, <1>9, ReadAtLast

LEMMA ThenBoth ==
  ASSUME NEW s \in Seq(Nat), NEW i \in Nat, NEW k \in Nat
  PROVE  (s \o <<i>>) \o <<k>> = s \o <<i, k>>
<1>1. <<i>> \in Seq(Nat) /\ <<k>> \in Seq(Nat)
  OBVIOUS
<1>2. \A t, u \in Seq(Nat) : (s \o t) \o u = s \o (t \o u)
  BY ConcatAssociative
<1>3. <<i>> \o <<k>> = <<i, k>>
  BY Two
<1> QED
  BY <1>1, <1>2, <1>3

LEMMA TwoIsRead ==
  ASSUME ReplyInv, InTurn, NEW m, Lines(m) = 2, Untorn(m)
  PROVE  IsRead(m)
<1>1. PICK a \in 1..Len(wire) :
         /\ a \in Nat /\ At(m) = a..(a + 5)
         /\ \A d \in 0..5 : a + d \in 1..Len(wire) /\ wire[a + d] = m
         /\ Nth(a) = 0
         /\ a = 1 \/ Part(a - 1) = "EOL"
  <2>1. 5 \in {2, 5} /\ Pieces(m) = 5 + 1
    BY Lengths
  <2> QED
    BY <2>1, Begins
<1>2. /\ a + 1 \in 1..Len(wire) /\ a + 2 \in 1..Len(wire) /\ a + 3 \in 1..Len(wire)
      /\ a + 4 \in 1..Len(wire) /\ a + 5 \in 1..Len(wire)
      /\ wire[a] = m /\ wire[a + 1] = m /\ wire[a + 2] = m
      /\ wire[a + 3] = m /\ wire[a + 4] = m /\ wire[a + 5] = m
  <2>1. /\ 0 \in 0..5 /\ 1 \in 0..5 /\ 2 \in 0..5 /\ 3 \in 0..5 /\ 4 \in 0..5 /\ 5 \in 0..5
        /\ a + 0 = a
    BY <1>1
  <2> QED
    BY <1>1, <2>1
<1>3. /\ (a + 1) + 1 = a + 2 /\ (a + 2) + 1 = a + 3 /\ (a + 3) + 1 = a + 4
      /\ (a + 4) + 1 = a + 5 /\ (a + 3) + 2 = a + 5 /\ (a + 3) - 1 = a + 2
  BY <1>1
<1>4. Nth(a + 1) = 1 /\ Nth(a + 2) = 2 /\ Nth(a + 3) = 3 /\ Nth(a + 4) = 4 /\ Nth(a + 5) = 5
  <2>1. Nth(a + 1) = 1
    BY <1>1, <1>2, NthNext
  <2>2. Nth(a + 2) = 2
    BY <1>2, <1>3, <2>1, NthNext
  <2>3. Nth(a + 3) = 3
    BY <1>2, <1>3, <2>2, NthNext
  <2>4. Nth(a + 4) = 4
    BY <1>2, <1>3, <2>3, NthNext
  <2>5. Nth(a + 5) = 5
    BY <1>2, <1>3, <2>4, NthNext
  <2> QED
    BY <2>1, <2>2, <2>3, <2>4, <2>5
<1>5. /\ Part(a) = "pfx" /\ Part(a + 1) = "msg" /\ Part(a + 2) = "EOL"
      /\ LineOf(a + 1) = 1
  BY <1>1, <1>2, <1>4, LongPieces DEF ThreeOf
<1>6. /\ Part(a + 3) = "pfx" /\ Part(a + 4) = "msg" /\ Part(a + 5) = "EOL"
      /\ LineOf(a + 4) = 2
  BY <1>2, <1>4, LongPieces DEF ThreeOf
<1>7. ~Ends(a) /\ Ends(a + 3)
  BY <1>1, <1>2, <1>4, EndsAt
<1>8. Text(m) = <<a + 1, a + 4>>
  <2>1. \A j \in a..(a + 5) : \/ j = a \/ j = a + 1 \/ j = a + 2
                              \/ j = a + 3 \/ j = a + 4 \/ j = a + 5
    BY <1>1
  <2>2. \A j \in At(m) : Part(j) = "msg" /\ LineOf(j) = 1 <=> j = a + 1
    BY <1>1, <1>5, <1>6, <2>1
  <2>3. \A j \in At(m) : Part(j) = "msg" /\ LineOf(j) = 2 <=> j = a + 4
    BY <1>1, <1>5, <1>6, <2>1
  <2>4. a + 1 \in At(m) /\ a + 4 \in At(m)
    BY <1>2 DEF At
  <2> QED
    BY <2>2, <2>3, <2>4, TwoTexts
<1>9. PICK r : r = Read[a - 1]
  OBVIOUS
<1>10. PICK s : s = Read[a + 2]
  OBVIOUS
<1>11. /\ r \in Reader
       /\ s = [replies |-> r.replies, text |-> r.text \o <<a + 1>>, line |-> <<>>]
  BY <1>1, <1>2, <1>5, <1>7, <1>9, <1>10, WholeLine
<1>12. Read[a + 5] =
         [replies |-> Append(s.replies, [mark |-> m, text |-> s.text \o <<a + 4>>]),
          text |-> <<>>, line |-> <<>>]
  <2>1. PICK b \in 1..Len(wire) : /\ b = a + 3 /\ b + 1 = a + 4 /\ b + 2 = a + 5
                                  /\ b - 1 = a + 2
    BY <1>2, <1>3
  <2>2. /\ Part(b) = "pfx" /\ Part(b + 1) = "msg" /\ Part(b + 2) = "EOL" /\ Ends(b)
        /\ b + 2 \in 1..Len(wire) /\ Part(b - 1) = "EOL" /\ s = Read[b - 1] /\ wire[b] = m
    BY <1>2, <1>5, <1>6, <1>7, <1>10, <2>1
  <2>3. Read[b + 2] =
          [replies |-> Append(s.replies, [mark |-> wire[b], text |-> s.text \o <<b + 1>>]),
           text |-> <<>>, line |-> <<>>]
    BY <2>2, WholeLine
  <2> QED
    BY <2>1, <2>2, <2>3
<1>13. s.text \o <<a + 4>> = r.text \o Text(m)
  <2>1. r.text \in Seq(Nat) /\ a + 1 \in Nat /\ a + 4 \in Nat
    BY <1>1, <1>11 DEF Reader
  <2>2. (r.text \o <<a + 1>>) \o <<a + 4>> = r.text \o <<a + 1, a + 4>>
    BY <2>1, ThenBoth
  <2>4. s.text = r.text \o <<a + 1>>
    BY <1>11
  <2> QED
    BY <1>8, <2>2, <2>4
<1>14. Read[a + 5].replies = Append(r.replies, [mark |-> m, text |-> r.text \o Text(m)])
  <2>1. s.replies = r.replies
    BY <1>11
  <2>2. Read[a + 5].replies = Append(s.replies, [mark |-> m, text |-> s.text \o <<a + 4>>])
    BY <1>12
  <2> QED
    BY <1>13, <2>1, <2>2
<1>15. Text(m) \in Seq(Nat)
  BY <1>1, <1>8
<1> QED
  BY <1>1, <1>2, <1>9, <1>14, <1>15, ReadAtLast

LEMMA AllRead ==
  ASSUME ReplyInv, InTurn
  PROVE  RepliesRead
<1>1. \A m \in 1..Len(marks) : Untorn(m) => IsRead(m)
  BY OneIsRead, TwoIsRead, Lengths
<1>2. RepliesInOrder(Len(wire))
  BY OrderKept, Types
<1> QED
  BY <1>1, <1>2 DEF RepliesRead, ReadMarks, IsRead, RepliesInOrder

\* The client reads every reply that reaches it untorn, once, in order and with
\* its text, one of two lines as one reply, be it the welcome or the reply to
\* TYPE A beside a data thread, in sessions of any number of replies.
THEOREM RepliesUnderstood == Spec => []RepliesRead
BY TurnInvariant, AllRead, PTL

=============================================================================
