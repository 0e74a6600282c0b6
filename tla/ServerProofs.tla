---------------------------- MODULE ServerProofs ----------------------------
(***************************************************************************)
(* What is proved of Server, for any number of sessions and any table of   *)
(* descriptors: the inductive invariant, and that nothing leaks but what   *)
(* OnlyKnownLeaks names.                                                   *)
(***************************************************************************)
EXTENDS Server, TLAPS

USE ServerAssumption DEF vars, threads, Set, Goto, Free, Unused, Pending, Uses, Named,
    Threads, Gone

\* Every step keeps the types: a name is a descriptor or -1.
LEMMA TypesKept ==
  ASSUME ServerInv, ~crashed, Next
  PROVE  TypeOK'
<1> USE DEF ServerInv, TypeOK
<1>1. CASE Accept
  BY <1>1 DEF Accept, Take
<1>2. CASE AcceptFails
  BY <1>2 DEF AcceptFails, Panic
<1>3. CASE ServeFails
  BY <1>3 DEF ServeFails, CloseAll
<1>4. ASSUME NEW s \in Sessions, Step(s)
       PROVE  TypeOK'
  <2>1. CASE Serve(s)
    BY <2>1 DEF Serve, Take
  <2>2. ASSUME NEW c \in {"PORT", "PASV", "ABOR", "QUIT", "END"}, StopThread(s, c)
        PROVE  TypeOK'
    BY <2>2 DEF StopThread
  <2>3. CASE JoinThread(s)
    <3>1. CASE thr' = [thr EXCEPT ![s] = "none"] /\ UNCHANGED crashed
      BY <2>3, <3>1 DEF JoinThread, Panic
    <3>2. CASE Panic
      BY <2>3, <3>2 DEF JoinThread, Panic
    <3> QED
      BY <2>3, <3>1, <3>2 DEF JoinThread
  <2>4. CASE Resume(s)
    BY <2>4 DEF Resume
  <2>5. CASE EndOfConnection(s)
    BY <2>5 DEF EndOfConnection
  <2>6. CASE PortMode(s)
    BY <2>6 DEF PortMode, StartThread
  <2>7. CASE PasvMode(s)
    BY <2>7 DEF PasvMode, StartThread, Take
  <2>8. CASE PasvNoSocket(s)
    BY <2>8 DEF PasvNoSocket, Take
  <2>9. CASE Transfer(s)
    BY <2>9 DEF Transfer, XferInProgress, Take
  <2>10. CASE CloseControl(s)
    BY <2>10 DEF CloseControl, CloseAll
  <2>11. CASE Dial(s)
    BY <2>11 DEF Dial, Full, Take
  <2>12. CASE AcceptData(s)
    BY <2>12 DEF AcceptData, Take
  <2>13. CASE AcceptDataFails(s)
    BY <2>13 DEF AcceptDataFails, Panic
  <2>14. CASE HangUp(s)
    BY <2>14 DEF HangUp, ConnAfter, CloseAll
  <2>15. CASE TakeFile(s)
    BY <2>15 DEF TakeFile
  <2>16. CASE TransferOver(s)
    BY <2>16 DEF TransferOver, Cleanup, CloseAll
  <2>17. CASE Stopped(s)
    BY <2>17 DEF Stopped, Cleanup, CloseAll
  <2>18. CASE CondWait(s)
    BY <2>18 DEF CondWait
  <2>19. CASE SetReady(s)
    BY <2>19 DEF SetReady
  <2> QED
    BY <1>4, <2>1, <2>2, <2>3, <2>4, <2>5, <2>6, <2>7, <2>8,
       <2>9, <2>10, <2>11, <2>12, <2>13, <2>14, <2>15, <2>16, <2>17, <2>18, <2>19 DEF Step
<1> QED
  BY <1>1, <1>2, <1>3, <1>4 DEF Next

\* Every step keeps the owners apart: one takes a number that is free, and closes
\* none but those it has a name for, which the invariant says are its own.
LEMMA OwnersKept ==
  ASSUME ServerInv, ~crashed, Next
  PROVE  DescriptorsOwned'
<1> USE DEF ServerInv, TypeOK, DescriptorsOwned, Owned
<1>1. CASE Accept
  BY <1>1 DEF Accept, Take
<1>2. CASE AcceptFails
  BY <1>2 DEF AcceptFails, Panic
<1>3. CASE ServeFails
  BY <1>3 DEF ServeFails, CloseAll
<1>4. ASSUME NEW s \in Sessions, Step(s)
       PROVE  DescriptorsOwned'
  <2>1. CASE Serve(s)
    BY <2>1 DEF Serve, Take
  <2>2. ASSUME NEW c \in {"PORT", "PASV", "ABOR", "QUIT", "END"}, StopThread(s, c)
        PROVE  DescriptorsOwned'
    BY <2>2 DEF StopThread
  <2>3. CASE JoinThread(s)
    <3>1. UNCHANGED <<open, accepted, sock_ctl, dat_fp, sock_fd, conn_fd, fp>>
      BY <2>3 DEF JoinThread, Panic
    <3> QED
      BY <3>1
  <2>4. CASE Resume(s)
    BY <2>4 DEF Resume
  <2>5. CASE EndOfConnection(s)
    BY <2>5 DEF EndOfConnection
  <2>6. CASE PortMode(s)
    BY <2>6 DEF PortMode, StartThread
  <2>7. CASE PasvMode(s)
    BY <2>7 DEF PasvMode, StartThread, Take
  <2>8. CASE PasvNoSocket(s)
    <3>1. CASE UNCHANGED open
      BY <2>8, <3>1 DEF PasvNoSocket
    <3>2. ASSUME NEW n \in Free, open' = Take(n, <<"listening", s>>)
          PROVE  DescriptorsOwned'
      BY <2>8, <3>2 DEF PasvNoSocket, Take
    <3> QED
      BY <2>8, <3>1, <3>2 DEF PasvNoSocket
  <2>9. CASE Transfer(s)
    BY <2>9 DEF Transfer, XferInProgress, Take
  <2>10. CASE CloseControl(s)
    BY <2>10 DEF CloseControl, CloseAll
  <2>11. CASE Dial(s)
    <3>1. CASE Full
      BY <2>11, <3>1 DEF Dial
    <3>2. CASE ~Full
      <4>1. PICK n \in Free :
              open' = Take(n, <<"data", s>>) /\ conn_fd' = [conn_fd EXCEPT ![s] = n]
        BY <2>11, <3>2 DEF Dial
      <4>2. /\ fp' = [fp EXCEPT ![s] = dat_fp[s]]
            /\ UNCHANGED <<accepted, sock_ctl, dat_fp, sock_fd>>
        BY <2>11 DEF Dial
      <4> QED
        BY <4>1, <4>2 DEF Take
    <3> QED
      BY <3>1, <3>2
  <2>12. CASE AcceptData(s)
    BY <2>12 DEF AcceptData, Take
  <2>13. CASE AcceptDataFails(s)
    BY <2>13 DEF AcceptDataFails, Panic
  <2>14. CASE HangUp(s)
    BY <2>14 DEF HangUp, ConnAfter, CloseAll
  <2>15. CASE TakeFile(s)
    BY <2>15 DEF TakeFile
  <2>16. CASE TransferOver(s)
    BY <2>16 DEF TransferOver, Cleanup, CloseAll
  <2>17. CASE Stopped(s)
    BY <2>17 DEF Stopped, Cleanup, CloseAll
  <2>18. CASE CondWait(s)
    BY <2>18 DEF CondWait
  <2>19. CASE SetReady(s)
    BY <2>19 DEF SetReady
  <2> QED
    BY <1>4, <2>1, <2>2, <2>3, <2>4, <2>5, <2>6, <2>7, <2>8,
       <2>9, <2>10, <2>11, <2>12, <2>13, <2>14, <2>15, <2>16, <2>17, <2>18, <2>19 DEF Step
<1> QED
  BY <1>1, <1>2, <1>3, <1>4 DEF Next

\* Every step keeps what holds of a session and its data thread (session r; the
\* step may be of another).
LEMMA ThreadsKept ==
  ASSUME ServerInv, ~crashed, Next, NEW r \in Sessions
  PROVE  ThreadHolds(r)' /\ ThreadJoined(r)'
<1> USE DEF TypeOK, ThreadHolds, ThreadJoined
<1> TypeOK /\ ThreadHolds(r) /\ ThreadJoined(r)
  BY DEF ServerInv
<1>1. CASE Accept
  BY <1>1 DEF Accept, Take
<1>2. CASE AcceptFails
  BY <1>2 DEF AcceptFails, Panic
<1>3. CASE ServeFails
  BY <1>3 DEF ServeFails, CloseAll
<1>4. ASSUME NEW s \in Sessions, Step(s)
       PROVE  ThreadHolds(r)' /\ ThreadJoined(r)'
  <2>1. CASE Serve(s)
    BY <2>1 DEF Serve, Take
  <2>2. ASSUME NEW c \in {"PORT", "PASV", "ABOR", "QUIT", "END"}, StopThread(s, c)
        PROVE  ThreadHolds(r)' /\ ThreadJoined(r)'
    BY <2>2 DEF StopThread
  <2>3. CASE JoinThread(s)
    <3>1. /\ UNCHANGED <<sock_ctl, dat_fp, sock_fd, conn_fd, fp, running>>
          /\ ctl[s] = "join"
      BY <2>3 DEF JoinThread, Panic
    <3>2. CASE UNCHANGED <<thr, ctl>>
      BY <3>1, <3>2
    <3>3. CASE /\ thr[s] \in {"none", "exited"} /\ thr' = [thr EXCEPT ![s] = "none"]
               /\ ctl' = [ctl EXCEPT ![s] = "resume"]
      BY <3>1, <3>3
    <3> QED
      BY <2>3, <3>2, <3>3 DEF JoinThread, Panic
  <2>4. CASE Resume(s)
    BY <2>4 DEF Resume
  <2>5. CASE EndOfConnection(s)
    BY <2>5 DEF EndOfConnection
  <2>6. CASE PortMode(s)
    <3>1. /\ UNCHANGED <<sock_ctl, dat_fp, sock_fd, conn_fd, fp>>
          /\ ctl[s] = "resume" /\ running' = [running EXCEPT ![s] = TRUE]
      BY <2>6 DEF PortMode, StartThread
    <3>2. CASE UNCHANGED thr /\ ctl' = [ctl EXCEPT ![s] = "bye"]
      BY <3>1, <3>2
    <3>3. CASE thr' = [thr EXCEPT ![s] = "start"] /\ ctl' = [ctl EXCEPT ![s] = "idle"]
      BY <3>1, <3>3
    <3> QED
      BY <2>6, <3>2, <3>3 DEF PortMode, StartThread
  <2>7. CASE PasvMode(s)
    BY <2>7 DEF PasvMode, StartThread, Take
  <2>8. CASE PasvNoSocket(s)
    BY <2>8 DEF PasvNoSocket, Take
  <2>9. CASE Transfer(s)
    BY <2>9 DEF Transfer, XferInProgress, Take
  <2>10. CASE CloseControl(s)
    BY <2>10 DEF CloseControl, CloseAll
  <2>11. CASE Dial(s)
    BY <2>11 DEF Dial, Full, Take
  <2>12. CASE AcceptData(s)
    BY <2>12 DEF AcceptData, Take
  <2>13. CASE AcceptDataFails(s)
    BY <2>13 DEF AcceptDataFails, Panic
  <2>14. CASE HangUp(s)
    BY <2>14 DEF HangUp, ConnAfter, CloseAll
  <2>15. CASE TakeFile(s)
    BY <2>15 DEF TakeFile
  <2>16. CASE TransferOver(s)
    BY <2>16 DEF TransferOver, Cleanup, CloseAll
  <2>17. CASE Stopped(s)
    BY <2>17 DEF Stopped, Cleanup, CloseAll
  <2>18. CASE CondWait(s)
    BY <2>18 DEF CondWait
  <2>19. CASE SetReady(s)
    BY <2>19 DEF SetReady
  <2> QED
    BY <1>4, <2>1, <2>2, <2>3, <2>4, <2>5, <2>6, <2>7, <2>8,
       <2>9, <2>10, <2>11, <2>12, <2>13, <2>14, <2>15, <2>16, <2>17, <2>18, <2>19 DEF Step
<1> QED
  BY <1>1, <1>2, <1>3, <1>4 DEF Next

\* What is open after a step, and had an owner before or was free, has an owner or
\* is one of the three leaks: a name is given up only when it is closed, handed on
\* or already -1, which ThreadHolds says of those of a thread that is gone.
LEMMA LeaksKnown ==
  ASSUME ServerInv, ~crashed, Next, NEW n \in Fds,
         open'[n] # Unused, n \in Held \/ open[n] = Unused
  PROVE  n \in Held' \/ KnownLeak(n)
<1> USE DEF ServerInv, TypeOK, DescriptorsOwned, Owned, ThreadHolds, ThreadJoined,
           Held, Names, KnownLeak, PasvFailed
<1>1. CASE Accept
  BY <1>1 DEF Accept, Take
<1>2. CASE AcceptFails
  BY <1>2 DEF AcceptFails, Panic
<1>3. CASE ServeFails
  BY <1>3 DEF ServeFails, CloseAll
<1>4. ASSUME NEW s \in Sessions, Step(s)
       PROVE  n \in Held' \/ KnownLeak(n)
  <2>1. CASE Serve(s)
    BY <2>1 DEF Serve, Take
  <2>2. ASSUME NEW c \in {"PORT", "PASV", "ABOR", "QUIT", "END"}, StopThread(s, c)
        PROVE  n \in Held' \/ KnownLeak(n)
    BY <2>2 DEF StopThread
  <2>3. CASE JoinThread(s)
    BY <2>3 DEF JoinThread, Panic
  <2>4. CASE Resume(s)
    BY <2>4 DEF Resume
  <2>5. CASE EndOfConnection(s)
    BY <2>5 DEF EndOfConnection
  <2>6. CASE PortMode(s)
    BY <2>6 DEF PortMode, StartThread
  <2>7. CASE PasvMode(s)
    <3>1. PICK m \in Free : /\ open' = Take(m, <<"listening", s>>)
                          /\ sock_fd' = IF thr'[s] = "passive"
                                        THEN [sock_fd EXCEPT ![s] = m] ELSE sock_fd
      BY <2>7 DEF PasvMode
    <3>2. /\ UNCHANGED <<accepted, sock_ctl, dat_fp, conn_fd, fp>>
          /\ ctl[s] = "resume" /\ cmd[s] = "PASV" /\ thr[s] = "none"
      BY <2>7 DEF PasvMode
    <3>3. sock_fd[s] = NoFd
      BY <3>2
    <3>4. CASE thr' = [thr EXCEPT ![s] = "passive"]
      BY <3>1, <3>2, <3>3, <3>4 DEF Take
    <3>5. CASE UNCHANGED thr /\ ctl' = [ctl EXCEPT ![s] = "bye"]
      BY <3>1, <3>2, <3>5 DEF Take
    <3> QED
      BY <2>7, <3>4, <3>5 DEF PasvMode, StartThread
  <2>8. CASE PasvNoSocket(s)
    BY <2>8 DEF PasvNoSocket, Take
  <2>9. CASE Transfer(s)
    <3>1. PICK m \in Free :
            open' = Take(m, <<"file", s>>) /\ dat_fp' = [dat_fp EXCEPT ![s] = m]
      BY <2>9 DEF Transfer
    <3>2. /\ UNCHANGED <<accepted, sock_ctl, sock_fd, conn_fd, fp>>
          /\ dat_fp[s] = NoFd /\ thr[s] \in {"start", "asleep", "passive", "leaving"}
          /\ thr' = IF thr[s] = "asleep" THEN [thr EXCEPT ![s] = "active"] ELSE thr
      BY <2>9 DEF Transfer, XferInProgress
    <3>3. \A r \in Sessions \ {s} : thr'[r] = thr[r] /\ dat_fp'[r] = dat_fp[r]
      BY <3>1, <3>2
    <3>4. dat_fp'[s] = m /\ (thr'[s] \in Gone <=> thr[s] = "leaving")
      BY <3>1, <3>2
    <3>5. CASE n = m
      BY <2>9, <3>1, <3>4, <3>5
    <3>6. CASE n # m
      <4>1. n \in Held
        BY <3>1, <3>6 DEF Take
      <4>2. CASE n = accepted
        BY <3>2, <4>2
      <4>3. ASSUME NEW r \in Sessions, n \in Names(r)
            PROVE  n \in Names(r)'
        <5>1. CASE n \in {sock_ctl[r], sock_fd[r], conn_fd[r], fp[r]}
          BY <3>2, <5>1
        <5>2. CASE n = dat_fp[r] /\ thr[r] \notin Gone
          BY <3>2, <3>3, <5>2
        <5> QED
          BY <4>3, <5>1, <5>2
      <4> QED
        BY <4>1, <4>2, <4>3
    <3> QED
      BY <3>5, <3>6
  <2>10. CASE CloseControl(s)
    BY <2>10 DEF CloseControl, CloseAll
  <2>11. CASE Dial(s)
    BY <2>11 DEF Dial, Full, Take
  <2>12. CASE AcceptData(s)
    BY <2>12 DEF AcceptData, Take
  <2>13. CASE AcceptDataFails(s)
    BY <2>13 DEF AcceptDataFails, Panic
  <2>14. CASE HangUp(s)
    BY <2>14 DEF HangUp, ConnAfter, CloseAll
  <2>15. CASE TakeFile(s)
    BY <2>15 DEF TakeFile
  <2>16. CASE TransferOver(s)
    BY <2>16 DEF TransferOver, Cleanup, CloseAll
  <2>17. CASE Stopped(s)
    <3>1. CASE n \in {sock_fd[s], conn_fd[s], fp[s]}
      BY <2>17, <3>1 DEF Stopped, Cleanup, CloseAll
    <3>2. CASE n = dat_fp[s] /\ thr[s] = "passive"
      BY <2>17, <3>2
    <3>3. CASE n \notin {sock_fd[s], conn_fd[s], fp[s], dat_fp[s]}
      <4>1. /\ UNCHANGED <<accepted, sock_ctl>>
            /\ open'[n] = open[n]
            /\ \A r \in Sessions \ {s} :
                 /\ sock_fd'[r] = sock_fd[r] /\ conn_fd'[r] = conn_fd[r]
                 /\ fp'[r] = fp[r] /\ dat_fp'[r] = dat_fp[r] /\ thr'[r] = thr[r]
        BY <2>17, <3>3 DEF Stopped, Cleanup, CloseAll
      <4>2. n \in Held
        BY <4>1
      <4>3. CASE n = accepted
        BY <4>1, <4>3
      <4>4. ASSUME NEW r \in Sessions, n \in Names(r)
            PROVE  n \in Names(r)'
        <5>1. CASE r = s
          BY <3>3, <4>1, <4>4, <5>1
        <5>2. CASE r # s
          BY <4>1, <4>4, <5>2
        <5> QED
          BY <5>1, <5>2
      <4> QED
        BY <4>2, <4>3, <4>4
    <3> QED
      BY <2>17, <3>1, <3>2, <3>3 DEF Stopped
  <2>18. CASE CondWait(s)
    BY <2>18 DEF CondWait
  <2>19. CASE SetReady(s)
    BY <2>19 DEF SetReady
  <2> QED
    BY <1>4, <2>1, <2>2, <2>3, <2>4, <2>5, <2>6, <2>7, <2>8,
       <2>9, <2>10, <2>11, <2>12, <2>13, <2>14, <2>15, <2>16, <2>17, <2>18, <2>19 DEF Step
<1> QED
  BY <1>1, <1>2, <1>3, <1>4 DEF Next

-----------------------------------------------------------------------------
\* At first the table is empty.
LEMMA InitInv == Init => ServerInv
<1> SUFFICES ASSUME Init
             PROVE  ServerInv
  OBVIOUS
<1>1. \A v \in {sock_ctl, sock_fd, conn_fd, dat_fp, fp} :
        v \in Named /\ \A s \in Sessions : v[s] = NoFd
  BY DEF Init
<1>2. TypeOK
  BY <1>1 DEF Init, TypeOK
<1>3. DescriptorsOwned
  BY <1>1 DEF Init, DescriptorsOwned, Owned
<1>4. \A s \in Sessions : ThreadHolds(s) /\ ThreadJoined(s)
  BY <1>1 DEF Init, ThreadHolds, ThreadJoined
<1> QED
  BY <1>2, <1>3, <1>4 DEF ServerInv

\* Every step keeps the invariant; nothing happens after a panic.
LEMMA InvKept == ServerInv /\ [Next]_vars => ServerInv'
<1> SUFFICES ASSUME ServerInv, [Next]_vars
             PROVE  ServerInv'
  OBVIOUS
<1>1. CASE ~crashed /\ Next
  BY <1>1, TypesKept, OwnersKept, ThreadsKept DEF ServerInv
<1>2. CASE UNCHANGED vars
  BY <1>2 DEF ServerInv, TypeOK, DescriptorsOwned, Owned, ThreadHolds, ThreadJoined
<1> QED
  BY <1>1, <1>2 DEF Next

\* In any number of sessions that share any table of descriptors, none has a name
\* for a descriptor that is closed or another's: no close() of main, of a control
\* thread or of a data thread takes somebody else's.
THEOREM DescriptorsKept == Spec => []ServerInv
<1>1. Init => ServerInv
  BY InitInv
<1>2. ServerInv /\ [Next]_vars => ServerInv'
  BY InvKept
<1> QED
  BY <1>1, <1>2, PTL DEF Spec

\* And none that is open is lost but the socket of a PASV that fails, the file of a
\* passive transfer that is stopped before it is taken, and a file that is handed
\* to a thread that is on its way out.
THEOREM LeaksAreKnown == Spec => OnlyKnownLeaks
<1> DEFINE Leaks == \A n \in Fds :
             open'[n] # Unused /\ (n \in Held \/ open[n] = Unused)
               => n \in Held' \/ KnownLeak(n)
<1>1. ASSUME ServerInv, [Next]_vars
      PROVE  [Leaks]_vars
  <2>1. CASE ~crashed /\ Next
    BY <1>1, <2>1, LeaksKnown
  <2>2. CASE UNCHANGED vars
    BY <2>2
  <2> QED
    BY <1>1, <2>1, <2>2 DEF Next
<1>2. Spec => []ServerInv
  BY DescriptorsKept
<1> QED
  BY <1>1, <1>2, PTL DEF Spec, OnlyKnownLeaks

=============================================================================
