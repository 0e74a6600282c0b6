--------------------------- MODULE SessionProofs ---------------------------
(***************************************************************************)
(* What is proved of Session, for every value of its constants: the types, *)
(* the inductive invariant of SessionInv, and the properties it implies;   *)
(* those that need pthread_cond_wait to return on a signal only, and those *)
(* that need a far end which awaits the answers to its transfers.          *)
(***************************************************************************)
EXTENDS SessionInv, TLAPS

\* The tuples of UNCHANGED, and the idioms of the control thread's actions.
USE DEF vars, record, ctl, At, Alive, Goto, Reply

-----------------------------------------------------------------------------
(***************************************************************************)
(* What a step does to the data thread                                     *)
(***************************************************************************)
KeepsFile == thr'.mode = thr.mode /\ thr'.fp = thr.fp /\ thr'.type = thr.type
KeepsSt == thr'.st = thr.st

\* A thread that moves on is a thread, whatever it sets on the way.
LEMMA ThreadGoto ==
  ASSUME thr \in Threads, NEW p \in ThrSteps
  PROVE  /\ [thr EXCEPT !.pc = p] \in Threads
         /\ \A c \in BOOLEAN : [thr EXCEPT !.pc = p, !.conn = c] \in Threads
         /\ \A s \in {"none", "complete", "ioerror"} :
              [thr EXCEPT !.pc = p, !.st = s] \in Threads
<1>1. [thr EXCEPT !.pc = p] \in Threads
  BY DEF Threads
<1>2. \A c \in BOOLEAN : [thr EXCEPT !.pc = p, !.conn = c] \in Threads
  BY DEF Threads
<1>3. \A s \in {"none", "complete", "ioerror"} :
        [thr EXCEPT !.pc = p, !.st = s] \in Threads
  BY DEF Threads
<1> QED
  BY <1>1, <1>2, <1>3

\* A step that moves the thread and does no more.
LEMMA PcOnly ==
  ASSUME thr \in Threads, NEW p, thr' = [thr EXCEPT !.pc = p]
  PROVE  thr'.pc = p /\ KeepsFile /\ KeepsSt
  BY DEF Threads, KeepsFile, KeepsSt

\* The thread that PORT and PASV start.
LEMMA NewThread ==
  ASSUME NEW p, NEW m, thr' = [NoThread EXCEPT !.pc = p, !.mode = m]
  PROVE  thr'.pc = p /\ thr'.mode = m /\ thr'.fp = NULL /\ thr'.st = "none"
  BY DEF NoThread

LEMMA PortCreateThreadEffect ==
  ASSUME PortCreateThread
  PROVE  \/ UNCHANGED thr /\ cpc' = "Bye"
         \/ /\ thr'.pc = "Start" /\ thr'.mode = "active"
            /\ thr'.fp = NULL /\ thr'.st = "none" /\ cpc' = "SetPort"
  BY NewThread DEF PortCreateThread

LEMMA PasvCreateThreadEffect ==
  ASSUME PasvCreateThread
  PROVE  \/ UNCHANGED thr /\ cpc' = "Bye"
         \/ /\ thr'.pc = "Loop" /\ thr'.mode = "passive"
            /\ thr'.fp = NULL /\ thr'.st = "none" /\ cpc' = "Idle"
  BY NewThread DEF PasvCreateThread

LEMMA JoinNoThreadEffect ==
  ASSUME thr \in Threads, JoinNoThread
  PROVE  /\ thr.pc = "None"
         /\ \/ UNCHANGED thr /\ cpc' = "Resume" /\ state' = "READY"
            \/ /\ thr'.pc = "Crashed" /\ KeepsFile /\ KeepsSt
               /\ UNCHANGED <<state, cpc>>
  BY PcOnly DEF JoinNoThread

LEMMA CheckRunningEffect ==
  ASSUME thr \in Threads, CheckRunning
  PROVE  /\ thr.pc = "Loop"
         /\ \/ thr'.pc = "CloseFile"
            \/ thr.mode = "active" /\ thr'.pc = "Block"
            \/ thr.mode \in {"none", "passive"} /\ thr'.pc \in {"Conn", "Accept"}
         /\ KeepsFile /\ KeepsSt
<1>1. thr.mode \in {"none", "active", "passive"}
  BY DEF Threads
<1> QED
  BY <1>1, PcOnly DEF CheckRunning, ThrAt, ThrGoto

\* connect() keeps the file, and leaves no result when it fails.
LEMMA ConnectEffect ==
  ASSUME thr \in Threads, Connect
  PROVE  /\ thr.pc = "Connect"
         /\ KeepsFile
         /\ \/ thr'.pc = "Loop" /\ KeepsSt /\ owed' = owed
            \/ thr'.pc = "CloseFile" /\ thr'.st = "none"
<1>1. CASE thr' = [thr EXCEPT !.pc = "Loop", !.conn = TRUE] /\ owed' = owed
  BY <1>1 DEF Connect, ThrAt, Threads, KeepsFile, KeepsSt
<1>2. CASE thr' = [thr EXCEPT !.pc = "CloseFile", !.st = "none"]
  BY <1>2 DEF Connect, ThrAt, Threads, KeepsFile
<1> QED
  BY <1>1, <1>2 DEF Connect, ConnectFailed

\* passive_data keeps the file it has, or takes dat_fp if that is not NULL.
LEMMA LookForFileEffect ==
  ASSUME thr \in Threads, LookForFile
  PROVE  /\ thr.pc = "Conn"
         /\ thr.fp # NULL => thr'.pc = "Block" /\ KeepsFile
         /\ thr.fp = NULL =>
              /\ thr'.pc = IF dat_fp = NULL THEN "Poll" ELSE "Block"
              /\ thr'.fp = dat_fp /\ thr'.type = dat_type
         /\ thr'.mode = thr.mode /\ KeepsSt
<1>1. CASE thr.fp # NULL
  BY <1>1 DEF LookForFile, ThrAt, Threads, KeepsFile, KeepsSt
<1>2. CASE thr.fp = NULL
  BY <1>2 DEF LookForFile, ThrAt, Threads, KeepsFile, KeepsSt
<1> QED
  BY <1>1, <1>2

\* process_block keeps the file.
LEMMA MoveBlockEffect ==
  ASSUME thr \in Threads, MoveBlock
  PROVE  /\ thr.pc = "Block" /\ thr.fp # NULL
         /\ KeepsFile
         /\ (thr'.pc = "Loop" /\ KeepsSt) \/ (thr'.pc = "CloseFile" /\ thr'.st # "none")
<1>1. CASE thr' = [thr EXCEPT !.pc = "Loop"]
  BY <1>1, PcOnly DEF MoveBlock, ThrAt
<1>2. ASSUME NEW s \in {"complete", "ioerror"},
             thr' = [thr EXCEPT !.pc = "CloseFile", !.st = s]
      PROVE  thr'.pc = "CloseFile" /\ thr'.st # "none" /\ KeepsFile
  BY <1>2 DEF Threads, KeepsFile
<1> QED
  BY <1>1, <1>2 DEF MoveBlock, ThrGoto, ThrAt

\* process_block without a file ends the process, or the transfer it is not.
LEMMA NullFileEffect ==
  ASSUME thr \in Threads, NullFile
  PROVE  /\ thr.pc = "Block" /\ thr.fp = NULL
         /\ KeepsFile
         /\ (thr'.pc = "Crashed" /\ KeepsSt) \/ (thr'.pc = "CloseFile" /\ thr'.st = "complete")
<1>1. CASE thr' = [thr EXCEPT !.pc = "Crashed"]
  BY <1>1, PcOnly DEF NullFile, ThrAt
<1>2. CASE thr' = [thr EXCEPT !.pc = "CloseFile", !.st = "complete"]
  BY <1>2 DEF NullFile, ThrAt, Threads, KeepsFile
<1> QED
  BY <1>1, <1>2 DEF NullFile, ThrGoto

-----------------------------------------------------------------------------
(***************************************************************************)
(* Types                                                                   *)
(***************************************************************************)
LEMMA TypeInit == ASSUME Init PROVE TypeOK /\ CmdFits
<1> USE SessionAssumption
<1>1. thr \in Threads
  BY DEF Init, NoThread, Threads, ThrSteps
<1>2. /\ rest_offs \in 0..MaxBlocks
      /\ left \in 0..MaxBlocks
  BY DEF Init
<1>3. handle \in [Handles -> DatTypes \cup {"CLOSED"}]
  BY DEF Init
<1> QED
  BY <1>1, <1>2, <1>3 DEF Init, TypeOK, CmdFits, States, CtlSteps

\* Every step keeps the types.  signal_file has a type for the command in hand.
LEMMA TypeNext ==
  ASSUME TypeOK, CmdFits, [Next]_vars
  PROVE  TypeOK'
<1> USE SessionAssumption DEF TypeOK
<1>1. ASSUME NEW c \in Commands, Receive(c) PROVE TypeOK'
  BY <1>1 DEF Receive, CtlSteps
<1>2. CASE Dispatch
  BY <1>2 DEF Dispatch, CtlSteps
<1>3. CASE User
  BY <1>3 DEF User, CtlSteps, States
<1>4. CASE Pass
  BY <1>4 DEF Pass, CtlSteps, States
<1>5. CASE Rest
  BY <1>5 DEF Rest, CtlSteps
<1>6. CASE Check
  BY <1>6 DEF Check, CtlSteps
<1>7. CASE OpenFile
  <2>1. left' \in 0..MaxBlocks /\ rest_offs' \in 0..MaxBlocks
    BY <1>7 DEF OpenFile, LeftAfter
  <2>2. DatTypeOf[cmd] \in DatTypes
    BY <1>7 DEF OpenFile, CmdFits, DatTypeOf, DatTypes, TransferCmds
  <2> QED
    BY <2>1, <2>2, <1>7 DEF OpenFile, CtlSteps
<1>8. CASE OpenFails
  BY <1>8 DEF OpenFails, CtlSteps
<1>9. CASE SignalFile
  <2>1. thr' \in Threads
    BY ThreadGoto, <1>9 DEF SignalFile, ThrSteps
  <2>2. dat_type' \in DatTypes
    BY <1>9 DEF SignalFile, SignalledType, CmdFits, DatTypeOf, DatTypes,
       TransferCmds
  <2> QED
    BY <2>1, <2>2, <1>9 DEF SignalFile, CtlSteps
<1>10. CASE StopThread
  BY <1>10 DEF StopThread, CtlSteps, StopFlag
<1>11. CASE JoinThread
  <2>1. thr' \in Threads
    BY <1>11 DEF JoinThread, NoThread, Threads, ThrSteps
  <2> QED
    BY <2>1, <1>11 DEF JoinThread, CtlSteps, States
<1>12. CASE JoinNoThread
  <2>1. thr' \in Threads
    BY ThreadGoto, <1>12 DEF JoinNoThread, ThrSteps
  <2> QED
    BY <2>1, <1>12 DEF JoinNoThread, CtlSteps, States
<1>13. CASE Aborted
  BY <1>13 DEF Aborted, CtlSteps
<1>14. CASE PortBadAddress
  BY <1>14 DEF PortBadAddress, CtlSteps
<1>15. CASE PortCreateThread
  <2>1. thr' \in Threads
    BY <1>15 DEF PortCreateThread, NoThread, Threads, ThrSteps
  <2> QED
    BY <2>1, <1>15 DEF PortCreateThread, CtlSteps
<1>16. CASE SetPort
  BY <1>16 DEF SetPort, CtlSteps, States
<1>17. CASE PasvNoSocket
  BY <1>17 DEF PasvNoSocket, CtlSteps
<1>18. CASE PasvCreateThread
  <2>1. thr' \in Threads
    BY <1>18 DEF PasvCreateThread, NoThread, Threads, ThrSteps
  <2> QED
    BY <2>1, <1>18 DEF PasvCreateThread, CtlSteps, States
<1>19. CASE QuitLoop
  BY <1>19 DEF QuitLoop, CtlSteps
<1>20. CASE Bye
  BY <1>20 DEF Bye, CtlSteps
<1>21. CASE FreeClient
  BY <1>21 DEF FreeClient, CtlSteps
<1>22. CASE CondWait
  <2>1. thr' \in Threads
    BY ThreadGoto, <1>22 DEF CondWait, ThrGoto, Await, ThrSteps
  <2> QED
    BY <2>1, <1>22 DEF CondWait
<1>23. CASE TakeFile
  <2>1. thr' \in Threads
    BY <1>23 DEF TakeFile, Threads, ThrSteps
  <2> QED
    BY <2>1, <1>23 DEF TakeFile
<1>24. CASE Connect
  <2>1. thr' \in Threads
    BY ThreadGoto, <1>24 DEF Connect, ThrGoto, ConnectFailed, ThrSteps
  <2> QED
    BY <2>1, <1>24 DEF Connect
<1>25. CASE CheckRunning
  <2>1. thr' \in Threads
    BY ThreadGoto, <1>25 DEF CheckRunning, ThrGoto, ThrSteps
  <2> QED
    BY <2>1, <1>25 DEF CheckRunning
<1>26. CASE AcceptNone
  <2>1. thr' \in Threads
    BY ThreadGoto, <1>26 DEF AcceptNone, ThrGoto, ThrSteps
  <2> QED
    BY <2>1, <1>26 DEF AcceptNone
<1>27. CASE LookForFile
  <2>1. thr' \in Threads
    BY <1>27 DEF LookForFile, Threads, ThrSteps
  <2> QED
    BY <2>1, <1>27 DEF LookForFile
<1>28. CASE Poll
  <2>1. thr' \in Threads
    BY ThreadGoto, <1>28 DEF Poll, ThrSteps
  <2> QED
    BY <2>1, <1>28 DEF Poll
<1>29. CASE ReadWouldBlock
  <2>1. thr' \in Threads
    BY ThreadGoto, <1>29 DEF ReadWouldBlock, ThrGoto, ThrSteps
  <2> QED
    BY <2>1, <1>29 DEF ReadWouldBlock
<1>30. CASE NullFile
  <2>1. thr' \in Threads
    BY ThreadGoto, <1>30 DEF NullFile, ThrGoto, ThrSteps
  <2> QED
    BY <2>1, <1>30 DEF NullFile
<1>31. CASE CloseFile
  <2>1. thr' \in Threads
    BY <1>31 DEF CloseFile, Threads, ThrSteps
  <2> QED
    BY <2>1, <1>31 DEF CloseFile, Closes
<1>32. CASE ClearFp
  <2>1. thr' \in Threads
    BY ThreadGoto, <1>32 DEF ClearFp, ThrGoto, ThrSteps
  <2> QED
    BY <2>1, <1>32 DEF ClearFp, FpAfter
<1>33. CASE SetReady
  <2>1. thr' \in Threads
    BY ThreadGoto, <1>33 DEF SetReady, ThrGoto, ThrSteps
  <2> QED
    BY <2>1, <1>33 DEF SetReady, StateAfter, States
<1>34. CASE Report
  <2>1. thr' \in Threads
    BY ThreadGoto, <1>34 DEF Report, ThrGoto, ThrSteps
  <2> QED
    BY <2>1, <1>34 DEF Report
<1>35. CASE AcceptConnection
  <2>1. thr' \in Threads
    BY ThreadGoto, <1>35 DEF AcceptConnection, ThrSteps
  <2> QED
    BY <2>1, <1>35 DEF AcceptConnection
<1>36. CASE MoveBlock
  <2>1. thr' \in Threads
    BY ThreadGoto, <1>36 DEF MoveBlock, ThrGoto, ThrSteps
  <2> QED
    BY <2>1, <1>36 DEF MoveBlock
<1>37. CASE SpuriousWakeup
  <2>1. thr' \in Threads
    BY ThreadGoto, <1>37 DEF SpuriousWakeup, ThrGoto, ThrSteps
  <2> QED
    BY <2>1, <1>37 DEF SpuriousWakeup
<1>38. CASE Over \/ UNCHANGED vars
  BY <1>38 DEF Over
<1> QED
  BY <1>1, <1>2, <1>3, <1>4, <1>5, <1>6, <1>7, <1>8, <1>9, <1>10, <1>11,
     <1>12, <1>13, <1>14, <1>15, <1>16, <1>17, <1>18, <1>19, <1>20, <1>21, <1>22,
     <1>23, <1>24, <1>25, <1>26, <1>27, <1>28, <1>29, <1>30, <1>31, <1>32, <1>33,
     <1>34, <1>35, <1>36, <1>37, <1>38 DEF Next, CtlStep, ThrStep, PeerStep

\* Every step leaves a command in hand that fits where the handler is.
LEMMA CmdFitsNext ==
  ASSUME TypeOK, CmdFits, [Next]_vars
  PROVE  CmdFits'
<1> USE SessionAssumption DEF TypeOK, CmdFits
<1>1. ASSUME NEW c \in Commands, Receive(c) PROVE CmdFits'
  BY <1>1 DEF Receive
<1>2. CASE ThrStep \/ PeerStep \/ SpuriousWakeup \/ Over \/ UNCHANGED vars
  BY <1>2 DEF ThrStep, PeerStep, SpuriousWakeup, Over, CondWait, TakeFile,
     Connect, CheckRunning, AcceptNone, LookForFile, Poll, ReadWouldBlock,
     NullFile, CloseFile, ClearFp, SetReady, Report, AcceptConnection, MoveBlock
<1>3. CASE Check
  BY <1>3 DEF Check
<1>4. CASE OpenFile \/ OpenFails \/ SignalFile
  BY <1>4 DEF OpenFile, OpenFails, SignalFile
<1>5. CASE PortCreateThread
  BY <1>5 DEF PortCreateThread
<1>6. CASE Dispatch \/ User \/ Pass \/ Rest
  BY <1>6 DEF Dispatch, User, Pass, Rest
<1>7. CASE \/ StopThread \/ JoinThread \/ JoinNoThread
           \/ Aborted \/ PortBadAddress \/ SetPort
  BY <1>7 DEF StopThread, JoinThread, JoinNoThread, Aborted, PortBadAddress,
     SetPort
<1>8. CASE PasvNoSocket \/ PasvCreateThread \/ QuitLoop \/ Bye \/ FreeClient
  BY <1>8 DEF PasvNoSocket, PasvCreateThread, QuitLoop, Bye, FreeClient
<1> QED
  BY <1>1, <1>2, <1>3, <1>4, <1>5, <1>6, <1>7, <1>8 DEF Next, CtlStep

\* Every variable of a session keeps its type, in particular dat_type, which is
\* looked up for the command that signal_file serves, and what is left of a file
\* after REST, which never goes below zero.
THEOREM TypeCorrect == Spec => []TypeOK
<1>1. Init => TypeOK /\ CmdFits
  BY TypeInit
<1>2. TypeOK /\ CmdFits /\ [Next]_vars => (TypeOK /\ CmdFits)'
  BY TypeNext, CmdFitsNext
<1> QED
  BY <1>1, <1>2, PTL DEF Spec

-----------------------------------------------------------------------------
(***************************************************************************)
(* The inductive invariant                                                 *)
(***************************************************************************)
LEMMA InvInit == ASSUME Init PROVE SessionInv
<1> USE SessionAssumption
<1>1. thr.pc = "None" /\ thr.fp = NULL /\ thr.st = "none" /\ thr.mode = "none"
  BY DEF Init, NoThread
<1> QED
  BY <1>1, TypeInit DEF Init, SessionInv, HandlerOwns, PastGate, FileInHand,
     ThreadHoldsDatFp, Transferring, DatFpOpen, RunningOrJoined,
     JoinedBeforeReuse, NoThreadBeforeLogin, ModeFits, AnswerOwed, CanTake

LEMMA InvNext ==
  ASSUME SessionInv, TypeOK', CmdFits', [Next]_vars
  PROVE  SessionInv'
<1> USE SessionAssumption DEF SessionInv, TypeOK
<1> USE DEF CmdFits, HandlerOwns, PastGate, FileInHand, ThreadHoldsDatFp,
            Transferring, DatFpOpen, RunningOrJoined, JoinedBeforeReuse,
            NoThreadBeforeLogin, ModeFits, AnswerOwed, CanTake
<1>1. ASSUME NEW c \in Commands, Receive(c) PROVE SessionInv'
  BY <1>1 DEF Receive
<1>2. CASE Dispatch
  BY <1>2 DEF Dispatch, GatedCmds, XferInProgress
<1>3. CASE User
  <2>1. (HandlerOwns /\ FileInHand)'
    BY <1>3 DEF User, Auth, States
  <2>2. (ThreadHoldsDatFp /\ DatFpOpen)'
    BY <1>3 DEF User, Auth, States
  <2>3. (RunningOrJoined /\ NoThreadBeforeLogin /\ ModeFits)'
    BY <1>3 DEF User, Auth, States
  <2>4. AnswerOwed'
    BY <1>3 DEF User, Auth, States
  <2> QED
    BY <2>1, <2>2, <2>3, <2>4
<1>4. CASE Pass
  BY <1>4 DEF Pass
<1>5. CASE Rest
  BY <1>5 DEF Rest
<1>6. CASE Check
  BY <1>6 DEF Check, Auth
<1>7. CASE OpenFile
  BY <1>7 DEF OpenFile, DatTypeOf, TransferCmds, DatTypes
<1>8. CASE OpenFails
  BY <1>8 DEF OpenFails
<1>9. CASE SignalFile
  <2>1. thr' = thr \/ (thr.pc = "Waiting" /\ thr'.pc = "Woken"
                    /\ KeepsFile /\ KeepsSt)
    BY PcOnly, <1>9 DEF SignalFile
  <2>2. (HandlerOwns /\ FileInHand)'
    BY <2>1, <1>9 DEF SignalFile, SignalledType, KeepsFile, KeepsSt
  <2>3. (ThreadHoldsDatFp /\ DatFpOpen)'
    BY <2>1, <1>9 DEF SignalFile, SignalledType, KeepsFile, KeepsSt
  <2>4. (RunningOrJoined /\ NoThreadBeforeLogin /\ ModeFits)'
    BY <2>1, <1>9 DEF SignalFile, SignalledType, KeepsFile, KeepsSt
  <2>5. AnswerOwed'
    BY <2>1, <1>9 DEF SignalFile, SignalledType, KeepsFile, KeepsSt
  <2> QED
    BY <2>2, <2>3, <2>4, <2>5
<1>10. CASE StopThread
  BY <1>10 DEF StopThread, MustJoin, StopFlag
<1>11. CASE JoinThread
  BY <1>11 DEF JoinThread, NoThread
<1>12. CASE JoinNoThread
  BY JoinNoThreadEffect, <1>12 DEF JoinNoThread, KeepsFile, KeepsSt
<1>13. CASE Aborted
  BY <1>13 DEF Aborted
<1>14. CASE PortBadAddress
  BY <1>14 DEF PortBadAddress
<1>15. CASE PortCreateThread
  BY PortCreateThreadEffect, <1>15 DEF PortCreateThread, Commands, GatedCmds,
     TransferCmds, KeepsFile, KeepsSt
<1>16. CASE SetPort
  BY <1>16 DEF SetPort
<1>17. CASE PasvNoSocket
  BY <1>17 DEF PasvNoSocket
<1>18. CASE PasvCreateThread
  BY PasvCreateThreadEffect, <1>18 DEF PasvCreateThread, Commands, GatedCmds,
     TransferCmds, KeepsFile, KeepsSt
<1>19. CASE QuitLoop
  BY <1>19 DEF QuitLoop
<1>20. CASE Bye
  BY <1>20 DEF Bye
<1>21. CASE FreeClient
  BY <1>21 DEF FreeClient
<1>22. CASE CondWait
  <2>1. /\ thr.pc = "Start" /\ thr'.pc = "Waiting"
        /\ KeepsFile /\ KeepsSt
    BY PcOnly, <1>22 DEF CondWait, ThrAt, ThrGoto, Await
  <2> QED
    BY <2>1, <1>22 DEF CondWait, KeepsFile, KeepsSt
<1>23. CASE TakeFile
  <2>1. /\ thr.pc = "Woken" /\ thr'.pc = "Connect"
        /\ thr'.fp = dat_fp /\ thr'.type = dat_type
        /\ thr'.mode = thr.mode /\ KeepsSt
    BY <1>23 DEF TakeFile, ThrAt, Threads, KeepsFile, KeepsSt
  <2> QED
    BY <2>1, <1>23 DEF TakeFile, KeepsFile, KeepsSt
<1>24. CASE Connect
  BY ConnectEffect, <1>24 DEF Connect, KeepsFile, KeepsSt
<1>25. CASE CheckRunning
  <2>1. (HandlerOwns /\ FileInHand)'
    BY CheckRunningEffect, <1>25 DEF CheckRunning, KeepsFile, KeepsSt
  <2>2. (ThreadHoldsDatFp /\ DatFpOpen)'
    BY CheckRunningEffect, <1>25 DEF CheckRunning, KeepsFile, KeepsSt
  <2>3. (RunningOrJoined /\ NoThreadBeforeLogin /\ ModeFits)'
    BY CheckRunningEffect, <1>25 DEF CheckRunning, KeepsFile, KeepsSt
  <2>4. AnswerOwed'
    BY CheckRunningEffect, <1>25 DEF CheckRunning, KeepsFile, KeepsSt
  <2> QED
    BY <2>1, <2>2, <2>3, <2>4
<1>26. CASE AcceptNone
  <2>1. /\ thr.pc = "Accept" /\ thr'.pc \in {"Loop", "Crashed"}
        /\ KeepsFile /\ KeepsSt
    BY PcOnly, <1>26 DEF AcceptNone, ThrAt, ThrGoto
  <2> QED
    BY <2>1, <1>26 DEF AcceptNone, KeepsFile, KeepsSt
<1>27. CASE LookForFile
  BY LookForFileEffect, <1>27 DEF LookForFile, KeepsFile, KeepsSt
<1>28. CASE Poll
  <2>1. /\ thr.pc = "Poll" /\ thr'.pc = "Loop"
        /\ KeepsFile /\ KeepsSt
    BY <1>28 DEF Poll, ThrAt, Threads, KeepsFile, KeepsSt
  <2> QED
    BY <2>1, <1>28 DEF Poll, KeepsFile, KeepsSt
<1>29. CASE ReadWouldBlock
  <2>1. /\ thr.pc = "Block" /\ thr'.pc = "Loop"
        /\ KeepsFile /\ KeepsSt
    BY PcOnly, <1>29 DEF ReadWouldBlock, ThrAt, ThrGoto
  <2> QED
    BY <2>1, <1>29 DEF ReadWouldBlock, KeepsFile, KeepsSt
<1>30. CASE NullFile
  <2>1. thr.mode = "active"
    BY NullFileEffect, <1>30 DEF Threads
  <2> QED
    BY <2>1, NullFileEffect, <1>30 DEF NullFile, KeepsFile, KeepsSt
<1>31. CASE CloseFile
  <2>1. /\ thr.pc = "CloseFile" /\ thr'.pc = "ClearFp"
        /\ KeepsFile /\ KeepsSt
    BY <1>31 DEF CloseFile, ThrAt, Threads, KeepsFile, KeepsSt
  <2> QED
    BY <2>1, <1>31 DEF CloseFile, Closes, KeepsFile, KeepsSt
<1>32. CASE ClearFp
  <2>1. /\ thr.pc = "ClearFp" /\ thr'.pc = "SetReady"
        /\ KeepsFile /\ KeepsSt
    BY PcOnly, <1>32 DEF ClearFp, ThrAt, ThrGoto
  <2> QED
    BY <2>1, <1>32 DEF ClearFp, FpAfter, KeepsFile, KeepsSt
<1>33. CASE SetReady
  <2>1. /\ thr.pc = "SetReady" /\ thr'.pc = "Report"
        /\ KeepsFile /\ KeepsSt
    BY PcOnly, <1>33 DEF SetReady, ThrAt, ThrGoto
  <2> QED
    BY <2>1, <1>33 DEF SetReady, StateAfter, KeepsFile, KeepsSt
<1>34. CASE Report
  <2>1. /\ thr.pc = "Report" /\ thr'.pc = "Exited"
        /\ KeepsFile /\ KeepsSt
    BY PcOnly, <1>34 DEF Report, ThrAt, ThrGoto
  <2> QED
    BY <2>1, <1>34 DEF Report, KeepsFile, KeepsSt
<1>35. CASE AcceptConnection
  <2>1. /\ thr.pc = "Accept" /\ thr'.pc = "Conn"
        /\ KeepsFile /\ KeepsSt
    BY <1>35 DEF AcceptConnection, ThrAt, Threads, KeepsFile, KeepsSt
  <2> QED
    BY <2>1, <1>35 DEF AcceptConnection, KeepsFile, KeepsSt
<1>36. CASE MoveBlock
  BY MoveBlockEffect, <1>36 DEF MoveBlock, KeepsFile, KeepsSt
<1>37. CASE SpuriousWakeup
  <2>1. /\ thr.pc = "Waiting" /\ thr'.pc = "Woken"
        /\ KeepsFile /\ KeepsSt
    BY PcOnly, <1>37 DEF SpuriousWakeup, ThrAt, ThrGoto
  <2> QED
    BY <2>1, <1>37 DEF SpuriousWakeup, KeepsFile, KeepsSt
<1>38. CASE Over \/ UNCHANGED vars
  BY <1>38 DEF Over
<1> QED
  BY <1>1, <1>2, <1>3, <1>4, <1>5, <1>6, <1>7, <1>8, <1>9, <1>10, <1>11,
     <1>12, <1>13, <1>14, <1>15, <1>16, <1>17, <1>18, <1>19, <1>20, <1>21, <1>22,
     <1>23, <1>24, <1>25, <1>26, <1>27, <1>28, <1>29, <1>30, <1>31, <1>32, <1>33,
     <1>34, <1>35, <1>36, <1>37, <1>38 DEF Next, CtlStep, ThrStep, PeerStep

\* The invariant holds of every session, in every mode, whatever the far end
\* sends when, and whichever calls fail.
THEOREM Invariance == Spec => []SessionInv
<1>1. Init => SessionInv
  BY InvInit
<1>2. SessionInv /\ [Next]_vars => SessionInv'
  <2> SUFFICES ASSUME SessionInv, [Next]_vars
               PROVE  SessionInv'
    OBVIOUS
  <2>1. TypeOK' /\ CmdFits'
    BY TypeNext, CmdFitsNext DEF SessionInv
  <2> QED
    BY <2>1, InvNext
<1> QED
  BY <1>1, <1>2, PTL DEF Spec

-----------------------------------------------------------------------------
(***************************************************************************)
(* What follows                                                            *)
(***************************************************************************)
\* The data thread never uses or closes a FILE that is closed already, and
\* closes it the way it was opened, in every interleaving of its copying dat_fp
\* and dat_type with the control thread's signal_file.
THEOREM FilesUsedWhileOpen == Spec => []TransferUsesItsFile
<1>1. SessionInv => TransferUsesItsFile
  BY DEF SessionInv, ThreadHoldsDatFp, TransferUsesItsFile
<1> QED
  BY <1>1, Invariance, PTL

\* One look at dat_fp at the head of a handler keeps transfers out of all of it.
THEOREM GateHolds == Spec => []GateExcludesTransfer
<1>1. SessionInv => GateExcludesTransfer
  BY DEF SessionInv, HandlerOwns, ThreadHoldsDatFp, GateExcludesTransfer,
     Transferring
<1> QED
  BY <1>1, Invariance, PTL

\* No second data thread is started, and the client record is not freed, while
\* a data thread runs.
THEOREM ThreadsJoined == Spec => []JoinedBeforeReuse
<1>1. SessionInv => JoinedBeforeReuse
  BY DEF SessionInv, RunningOrJoined
<1> QED
  BY <1>1, Invariance, PTL

\* The unconditional "state = READY" of cleanup and of client_close_threads never
\* logs anybody in.
THEOREM LoginByPassOnly == Spec => OnlyPassLogsIn
<1> DEFINE A == state \in {"CONN", "WAIT_PASS"} /\ state' \notin {"CONN", "WAIT_PASS"}
                => state = "WAIT_PASS" /\ cmd = "PASS"
<1>1. SessionInv /\ [Next]_vars => [A]_vars
  <2> SUFFICES ASSUME SessionInv, Next,
                      state \in {"CONN", "WAIT_PASS"},
                      state' \notin {"CONN", "WAIT_PASS"}
               PROVE  state = "WAIT_PASS" /\ cmd = "PASS"
    OBVIOUS
  <2>1. /\ thr.pc = "None"
        /\ cpc \notin {"Join", "SetPort"}
        /\ cpc = "Resume" => cmd \notin Modes
        /\ cmd = "PASV" => "PASV" \in Modes
    BY SessionAssumption DEF SessionInv, NoThreadBeforeLogin, TypeOK, Commands,
       GatedCmds, TransferCmds
  <2>2. ~ThrStep /\ ~PeerStep /\ ~SpuriousWakeup
    BY <2>1 DEF ThrStep, PeerStep, SpuriousWakeup, ThrAt, CondWait, TakeFile,
       Connect, CheckRunning, AcceptNone, LookForFile, Poll, ReadWouldBlock,
       NullFile, CloseFile, ClearFp, SetReady, Report, AcceptConnection,
       MoveBlock
  <2>3. ~JoinThread /\ ~JoinNoThread /\ ~SetPort /\ ~PasvCreateThread
    BY <2>1 DEF JoinThread, JoinNoThread, SetPort, PasvCreateThread
  <2>4. CASE User
    BY <2>4 DEF User
  <2>5. CASE Pass
    BY <2>5 DEF Pass
  <2>6. CASE CtlStep /\ ~User /\ ~Pass
    <3>1. state' = state
      BY <2>3, <2>6 DEF CtlStep, Dispatch, Rest, Check, OpenFile, OpenFails,
         SignalFile, StopThread, Aborted, PortBadAddress, PortCreateThread,
         PasvNoSocket, QuitLoop, Bye, FreeClient
    <3> QED
      BY <3>1
  <2>7. CASE Over \/ \E c \in Commands : Receive(c)
    BY <2>7 DEF Over, Receive
  <2> QED
    BY <2>2, <2>4, <2>5, <2>6, <2>7 DEF Next
<1> QED
  BY <1>1, Invariance, PTL DEF Spec, OnlyPassLogsIn, A

-----------------------------------------------------------------------------
(***************************************************************************)
(* When pthread_cond_wait returns only on a signal                         *)
(***************************************************************************)
LEMMA SignalInit == ASSUME Init PROVE SignalInv
  BY DEF Init, NoThread, SignalInv, WokenWithFile, StateHasThread, FileTaken

LEMMA SignalNext ==
  ASSUME "spurious" \notin Faults, SessionInv, SignalInv, [Next]_vars
  PROVE  SignalInv'
<1> USE DEF SignalInv, WokenWithFile, StateHasThread, FileTaken
<1> USE DEF SessionInv, TypeOK, HandlerOwns, PastGate, RunningOrJoined,
            JoinedBeforeReuse, ThreadHoldsDatFp, Transferring, FileInHand, ModeFits
<1>1. ASSUME NEW c \in Commands, Receive(c) PROVE SignalInv'
  BY <1>1 DEF Receive
<1>2. CASE Dispatch
  BY <1>2 DEF Dispatch, GatedCmds, XferInProgress
<1>3. CASE User
  BY <1>3 DEF User, Auth, States
<1>4. CASE Pass
  BY <1>4 DEF Pass
<1>5. CASE Rest
  BY <1>5 DEF Rest
<1>6. CASE Check
  BY <1>6 DEF Check, Auth, HasDataMode
<1>7. CASE OpenFile
  BY <1>7 DEF OpenFile, DatTypeOf, TransferCmds, DatTypes
<1>8. CASE OpenFails
  BY <1>8 DEF OpenFails
<1>9. CASE SignalFile
  <2>1. thr' = thr \/ (thr.pc = "Waiting" /\ thr'.pc = "Woken"
                    /\ KeepsFile /\ KeepsSt)
    BY PcOnly, <1>9 DEF SignalFile
  <2> QED
    BY <2>1, <1>9 DEF SignalFile, SignalledType, KeepsFile
<1>10. CASE StopThread
  BY <1>10 DEF StopThread, MustJoin, StopFlag
<1>11. CASE JoinThread
  BY <1>11 DEF JoinThread, NoThread
<1>12. CASE JoinNoThread
  BY JoinNoThreadEffect, <1>12 DEF JoinNoThread, KeepsFile
<1>13. CASE Aborted
  BY <1>13 DEF Aborted
<1>14. CASE PortBadAddress
  BY <1>14 DEF PortBadAddress
<1>15. CASE PortCreateThread
  BY PortCreateThreadEffect, <1>15 DEF PortCreateThread, Commands, GatedCmds,
     TransferCmds, KeepsFile
<1>16. CASE SetPort
  BY <1>16 DEF SetPort
<1>17. CASE PasvNoSocket
  BY <1>17 DEF PasvNoSocket
<1>18. CASE PasvCreateThread
  BY PasvCreateThreadEffect, <1>18 DEF PasvCreateThread, Commands, GatedCmds,
     TransferCmds, KeepsFile
<1>19. CASE QuitLoop
  BY <1>19 DEF QuitLoop
<1>20. CASE Bye
  BY <1>20 DEF Bye
<1>21. CASE FreeClient
  BY <1>21 DEF FreeClient
<1>22. CASE CondWait
  <2>1. /\ thr.pc = "Start" /\ thr'.pc = "Waiting"
        /\ KeepsFile /\ KeepsSt
    BY PcOnly, <1>22 DEF CondWait, ThrAt, ThrGoto, Await
  <2> QED
    BY <2>1, <1>22 DEF CondWait, KeepsFile
<1>23. CASE TakeFile
  <2>1. /\ thr.pc = "Woken" /\ thr'.pc = "Connect"
        /\ thr'.fp = dat_fp /\ thr'.type = dat_type
        /\ thr'.mode = thr.mode /\ KeepsSt
    BY <1>23 DEF TakeFile, ThrAt, Threads, KeepsFile, KeepsSt
  <2> QED
    BY <2>1, <1>23 DEF TakeFile, KeepsFile
<1>24. CASE Connect
  BY ConnectEffect, <1>24 DEF Connect, KeepsFile
<1>25. CASE CheckRunning
  BY CheckRunningEffect, <1>25 DEF CheckRunning, KeepsFile
<1>26. CASE AcceptNone
  <2>1. /\ thr.pc = "Accept" /\ thr'.pc \in {"Loop", "Crashed"}
        /\ KeepsFile /\ KeepsSt
    BY PcOnly, <1>26 DEF AcceptNone, ThrAt, ThrGoto
  <2> QED
    BY <2>1, <1>26 DEF AcceptNone, KeepsFile
<1>27. CASE LookForFile
  BY LookForFileEffect, <1>27 DEF LookForFile, KeepsFile
<1>28. CASE Poll
  <2>1. /\ thr.pc = "Poll" /\ thr'.pc = "Loop"
        /\ KeepsFile /\ KeepsSt
    BY <1>28 DEF Poll, ThrAt, Threads, KeepsFile, KeepsSt
  <2> QED
    BY <2>1, <1>28 DEF Poll, KeepsFile
<1>29. CASE ReadWouldBlock
  <2>1. /\ thr.pc = "Block" /\ thr'.pc = "Loop"
        /\ KeepsFile /\ KeepsSt
    BY PcOnly, <1>29 DEF ReadWouldBlock, ThrAt, ThrGoto
  <2> QED
    BY <2>1, <1>29 DEF ReadWouldBlock, KeepsFile
<1>30. CASE NullFile
  BY NullFileEffect, <1>30 DEF NullFile, KeepsFile
<1>31. CASE CloseFile
  <2>1. /\ thr.pc = "CloseFile" /\ thr'.pc = "ClearFp"
        /\ KeepsFile /\ KeepsSt
    BY <1>31 DEF CloseFile, ThrAt, Threads, KeepsFile, KeepsSt
  <2> QED
    BY <2>1, <1>31 DEF CloseFile, Closes, KeepsFile
<1>32. CASE ClearFp
  <2>1. /\ thr.pc = "ClearFp" /\ thr'.pc = "SetReady"
        /\ KeepsFile /\ KeepsSt
    BY PcOnly, <1>32 DEF ClearFp, ThrAt, ThrGoto
  <2> QED
    BY <2>1, <1>32 DEF ClearFp, FpAfter, KeepsFile
<1>33. CASE SetReady
  <2>1. /\ thr.pc = "SetReady" /\ thr'.pc = "Report"
        /\ KeepsFile /\ KeepsSt
    BY PcOnly, <1>33 DEF SetReady, ThrAt, ThrGoto
  <2> QED
    BY <2>1, <1>33 DEF SetReady, StateAfter, KeepsFile
<1>34. CASE Report
  <2>1. /\ thr.pc = "Report" /\ thr'.pc = "Exited"
        /\ KeepsFile /\ KeepsSt
    BY PcOnly, <1>34 DEF Report, ThrAt, ThrGoto
  <2> QED
    BY <2>1, <1>34 DEF Report, KeepsFile
<1>35. CASE AcceptConnection
  <2>1. /\ thr.pc = "Accept" /\ thr'.pc = "Conn"
        /\ KeepsFile /\ KeepsSt
    BY <1>35 DEF AcceptConnection, ThrAt, Threads, KeepsFile, KeepsSt
  <2> QED
    BY <2>1, <1>35 DEF AcceptConnection, KeepsFile
<1>36. CASE MoveBlock
  BY MoveBlockEffect, <1>36 DEF MoveBlock, KeepsFile
<1>37. CASE SpuriousWakeup
  BY <1>37 DEF SpuriousWakeup
<1>38. CASE Over \/ UNCHANGED vars
  BY <1>38 DEF Over
<1> QED
  BY <1>1, <1>2, <1>3, <1>4, <1>5, <1>6, <1>7, <1>8, <1>9, <1>10, <1>11,
     <1>12, <1>13, <1>14, <1>15, <1>16, <1>17, <1>18, <1>19, <1>20, <1>21, <1>22,
     <1>23, <1>24, <1>25, <1>26, <1>27, <1>28, <1>29, <1>30, <1>31, <1>32, <1>33,
     <1>34, <1>35, <1>36, <1>37, <1>38 DEF Next, CtlStep, ThrStep, PeerStep

\* SignalInv holds of every session without spurious wakeups.
LEMMA SignalKept ==
  ASSUME "spurious" \notin Faults
  PROVE  Spec => [](SessionInv /\ SignalInv)
<1>1. Init => SignalInv
  BY SignalInit
<1>2. SessionInv /\ SignalInv /\ [Next]_vars => SignalInv'
  BY SignalNext
<1> QED
  BY <1>1, <1>2, Invariance, PTL DEF Spec

\* Active mode dials with a file in hand and a whole address, provided that
\* pthread_cond_wait has no spurious wakeups (POSIX allows them).
THEOREM DialsPrepared ==
  ASSUME "spurious" \notin Faults
  PROVE  Spec => []ConnectsForATransfer
<1>1. SessionInv /\ SignalInv => ConnectsForATransfer
  BY DEF SignalInv, WokenWithFile, ConnectsForATransfer
<1> QED
  BY <1>1, SignalKept, PTL

\* A session in PORT or PASV state has a thread for the next transfer when it reads
\* a command, though two threads write state without a lock; without spurious
\* wakeups.
THEOREM ModesServed ==
  ASSUME "spurious" \notin Faults
  PROVE  Spec => []ModeHasThread
<1>1. SessionInv /\ SignalInv => ModeHasThread
  BY DEF SignalInv, StateHasThread, ModeHasThread
<1> QED
  BY <1>1, SignalKept, PTL

\* A data thread reports 226 or 451 only for a transfer whose 150 is unanswered;
\* without spurious wakeups, since one that is woken by nobody may report what it
\* has not had.
THEOREM AnswersAreOwed ==
  ASSUME "spurious" \notin Faults
  PROVE  Spec => []CompletionFollowsAcceptance
<1>1. SessionInv /\ SignalInv => CompletionFollowsAcceptance
  BY DEF SessionInv, AnswerOwed, SignalInv, FileTaken, CompletionFollowsAcceptance
<1> QED
  BY <1>1, SignalKept, PTL

\* A file the data thread has is dat_fp, and that thread is at work until it has
\* cleared dat_fp; so a file is lost only where ClearFp clears one that it has not,
\* or where signal_file comes after it.
LEMMA FileKept ==
  ASSUME "spurious" \notin Faults, SessionInv, SignalInv, Next, NEW h \in Handles,
         handle[h] # "CLOSED", handle'[h] # "CLOSED", Accounted(h), Alive'
  PROVE  Accounted(h)' \/ LeftUntaken \/ HandedTooLate
<1> USE SessionAssumption
<1>0. h # NULL /\ thr \in Threads
  BY DEF SessionInv, TypeOK
<1>1. h = f \/ (h = dat_fp /\ AtWork)
  BY DEF SessionInv, ThreadHoldsDatFp, Accounted, Transferring, AtWork
<1>2. CASE UNCHANGED <<f, dat_fp>> /\ (AtWork => AtWork')
  BY <1>1, <1>2 DEF Accounted
<1>3. CASE OpenFile
  BY <1>0, <1>1, <1>3 DEF OpenFile, Accounted, AtWork, SessionInv, FileInHand
<1>4. CASE SignalFile
  <2>1. dat_fp = NULL /\ cpc = "Signal"
    BY <1>4 DEF SignalFile, SessionInv, HandlerOwns, PastGate
  <2>2. h = f /\ dat_fp' = h
    BY <1>0, <1>1, <1>4, <2>1 DEF SignalFile
  <2>3. thr.pc \notin {"None", "Crashed"}
    BY <2>1, <1>4 DEF SignalFile, SignalInv, FileTaken
  <2>4. CASE AtWork
    <3>1. thr'.pc = thr.pc \/ thr'.pc = "Woken"
      BY PcOnly, <1>0, <1>4 DEF SignalFile
    <3> QED
      BY <2>2, <2>4, <3>1 DEF AtWork, Accounted
  <2>5. CASE ~AtWork
    BY <1>4, <2>3, <2>5 DEF AtWork, HandedTooLate
  <2> QED
    BY <2>4, <2>5
<1>5. CASE ClearFp
  <2>1. thr.pc = "ClearFp" /\ f' = f /\ handle' = handle
    BY <1>5 DEF ClearFp, ThrAt
  <2>2. CASE h = f
    BY <2>1, <2>2 DEF Accounted
  <2>3. CASE h = dat_fp
    <3>1. thr.fp = NULL
      BY <1>0, <2>1, <2>3 DEF SessionInv, ThreadHoldsDatFp, SignalInv, FileTaken
    <3>2. thr.mode = "passive"
      BY <1>0, <2>1, <3>1 DEF Threads, SessionInv, ModeFits, SignalInv, FileTaken
    <3> QED
      BY <1>5, <3>1, <3>2 DEF LeftUntaken
  <2> QED
    BY <1>1, <2>2, <2>3
<1>6. CASE (\E c \in Commands : Receive(c)) \/ (CtlStep /\ ~OpenFile /\ ~SignalFile)
  <2>1. UNCHANGED <<f, dat_fp>>
    BY <1>6 DEF Receive, CtlStep, Dispatch, User, Pass, Rest, Check, OpenFails, StopThread,
       JoinThread, JoinNoThread, Aborted, PortBadAddress, PortCreateThread, SetPort,
       PasvNoSocket, PasvCreateThread, QuitLoop, Bye, FreeClient
  <2>2. \/ UNCHANGED thr
        \/ thr.pc \in {"None", "Exited"}
    BY <1>6 DEF Receive, CtlStep, Dispatch, User, Pass, Rest, Check, OpenFails, StopThread,
       JoinThread, JoinNoThread, Aborted, PortBadAddress, PortCreateThread, SetPort,
       PasvNoSocket, PasvCreateThread, QuitLoop, Bye, FreeClient,
       SessionInv, RunningOrJoined, JoinedBeforeReuse
  <2> QED
    BY <1>2, <2>1, <2>2 DEF AtWork
<1>7. CASE (ThrStep /\ ~ClearFp) \/ PeerStep \/ SpuriousWakeup \/ Over
  <2>1. UNCHANGED <<f, dat_fp>>
    BY <1>7 DEF ThrStep, CondWait, TakeFile, Connect, CheckRunning, AcceptNone,
       LookForFile, Poll, ReadWouldBlock, NullFile, CloseFile, SetReady, Report,
       PeerStep, AcceptConnection, MoveBlock, SpuriousWakeup, Over
  <2>2. AtWork => AtWork'
    <3> USE <1>0
    <3>1. CASE CondWait \/ ReadWouldBlock
      BY <3>1, PcOnly DEF CondWait, ReadWouldBlock, ThrGoto, Await, AtWork
    <3>2. CASE TakeFile \/ Poll \/ CloseFile \/ AcceptConnection
      BY <3>2 DEF TakeFile, Poll, CloseFile, AcceptConnection, Threads, AtWork
    <3>3. CASE Connect \/ CheckRunning \/ LookForFile \/ MoveBlock
      BY <3>3, ConnectEffect, CheckRunningEffect, LookForFileEffect, MoveBlockEffect DEF AtWork
    <3>4. CASE AcceptNone
      BY <3>4, PcOnly DEF AcceptNone, ThrGoto, AtWork
    <3>5. CASE NullFile
      BY <3>5, NullFileEffect DEF AtWork
    <3>6. CASE SetReady \/ Report
      BY <3>6 DEF SetReady, Report, ThrAt, AtWork
    <3>7. CASE SpuriousWakeup \/ Over
      BY <3>7 DEF SpuriousWakeup, Over, AtWork
    <3> QED
      BY <1>7, <3>1, <3>2, <3>3, <3>4, <3>5, <3>6, <3>7 DEF ThrStep, PeerStep
  <2> QED
    BY <1>2, <2>1, <2>2
<1> QED
  BY <1>3, <1>4, <1>5, <1>6, <1>7 DEF Next, ThrStep

\* No FILE that is open is lost but in two places, in every interleaving, provided
\* that there are no spurious wakeups: where a passive thread is stopped before it
\* has taken it, and where it is handed to a thread that is leaving.
THEOREM FilesNotLost ==
  ASSUME "spurious" \notin Faults
  PROVE  Spec => OnlyUntakenFilesLost
<1> DEFINE A == \A h \in Handles :
                  handle[h] # "CLOSED" /\ handle'[h] # "CLOSED" /\ Accounted(h) /\ Alive' =>
                    Accounted(h)' \/ LeftUntaken \/ HandedTooLate
<1>1. SessionInv /\ SignalInv /\ [Next]_vars => [A]_vars
  BY FileKept
<1> QED
  BY <1>1, SignalKept, PTL DEF Spec, OnlyUntakenFilesLost, A

-----------------------------------------------------------------------------
(***************************************************************************)
(* When the far end awaits the answer to a transfer before the next        *)
(***************************************************************************)
LEMMA LockstepInit == ASSUME Init PROVE LockstepInv
  BY DEF Init, NoThread, LockstepInv, JoinsAThread, LeavesWithResult, AnsweredBefore,
     AwaitsFile, TransferHasWorker

LEMMA LockstepNext ==
  ASSUME Lockstep, Modes \subseteq {"PASV"},
         Faults \cap {"thread", "accept", "spurious"} = {},
         SessionInv, SignalInv, LockstepInv, [Next]_vars
  PROVE  LockstepInv'
<1> USE DEF LockstepInv, JoinsAThread, LeavesWithResult, AnsweredBefore, AwaitsFile,
            TransferHasWorker, AtWork
<1> USE DEF SessionInv, TypeOK, HandlerOwns, PastGate, RunningOrJoined,
            JoinedBeforeReuse, ThreadHoldsDatFp, Transferring, FileInHand, ModeFits,
            AnswerOwed, CanTake, CmdFits
<1>0. cmd # "PORT"
  BY DEF Commands, GatedCmds, TransferCmds
<1>1. ASSUME NEW c \in Commands, Receive(c) PROVE LockstepInv'
  BY <1>0, <1>1 DEF Receive, MaySend, GatedCmds, TransferCmds
<1>2. CASE Dispatch
  BY <1>2 DEF Dispatch, GatedCmds, XferInProgress
<1>3. CASE User
  BY <1>3 DEF User, Auth, States
<1>4. CASE Pass
  BY <1>4 DEF Pass
<1>5. CASE Rest
  BY <1>5 DEF Rest
<1>6. CASE Check
  <2>1. UNCHANGED <<record, f, thr, owed>> /\ cmd' \in {cmd, "none"}
        /\ (cpc' = "Idle" \/ (cpc' = "CloseThreads" /\ cmd' = cmd)
             \/ (cpc' = "Open" /\ cmd' = cmd /\ cmd \in TransferCmds /\ HasDataMode))
    BY <1>6 DEF Check
  <2>2. CASE cpc' # "Open"
    BY <1>6, <2>1, <2>2 DEF Check
  <2>3. CASE cpc' = "Open"
    <3>1. state \in {"PORT", "PASV"} /\ ~owed /\ cpc = "Check" /\ dat_fp = NULL
      BY <1>6, <2>1, <2>3 DEF Check, HasDataMode, GatedCmds
    <3>2. thr.mode = "passive" /\ thr.pc \notin {"None", "Report", "Exited"}
      BY <3>1 DEF SignalInv, StateHasThread, Threads
    <3>3. thr_dat_running
      BY <3>1, <3>2
    <3>4. thr.pc \notin {"CloseFile", "ClearFp", "SetReady"}
      BY <3>1, <3>3
    <3>5. thr.pc \in {"Loop", "Accept", "Conn", "Poll", "Block"}
      BY <3>2, <3>4 DEF Threads, ThrSteps
    <3>6. thr.fp = NULL
      BY <3>1, <3>5
    <3>7. thr.pc # "Block"
      BY <3>2, <3>6
    <3> QED
      BY <1>6, <2>1, <2>3, <3>1, <3>3, <3>5, <3>6, <3>7
  <2> QED
    BY <2>2, <2>3
<1>7. CASE OpenFile
  BY <1>7 DEF OpenFile, DatTypeOf, TransferCmds, DatTypes
<1>8. CASE OpenFails
  BY <1>8 DEF OpenFails
<1>9. CASE SignalFile
  <2>1. thr' = thr \/ (thr.pc = "Waiting" /\ thr'.pc = "Woken"
                    /\ KeepsFile /\ KeepsSt)
    BY PcOnly, <1>9 DEF SignalFile
  <2> QED
    BY <2>1, <1>9 DEF SignalFile, SignalledType, KeepsFile
<1>10. CASE StopThread
  BY <1>10 DEF StopThread, MustJoin, StopFlag
<1>11. CASE JoinThread
  BY <1>11 DEF JoinThread, NoThread
<1>12. CASE JoinNoThread
  BY JoinNoThreadEffect, <1>12 DEF JoinNoThread, KeepsFile
<1>13. CASE Aborted
  BY <1>13 DEF Aborted
<1>14. CASE PortBadAddress
  BY <1>14 DEF PortBadAddress
<1>15. CASE PortCreateThread
  BY PortCreateThreadEffect, <1>15 DEF PortCreateThread, Commands, GatedCmds,
     TransferCmds, KeepsFile
<1>16. CASE SetPort
  BY <1>16 DEF SetPort
<1>17. CASE PasvNoSocket
  BY <1>17 DEF PasvNoSocket
<1>18. CASE PasvCreateThread
  BY PasvCreateThreadEffect, <1>18 DEF PasvCreateThread, Commands, GatedCmds,
     TransferCmds, KeepsFile
<1>19. CASE QuitLoop
  BY <1>19 DEF QuitLoop
<1>20. CASE Bye
  BY <1>20 DEF Bye
<1>21. CASE FreeClient
  BY <1>21 DEF FreeClient
<1>22. CASE CondWait
  <2>1. /\ thr.pc = "Start" /\ thr'.pc = "Waiting"
        /\ KeepsFile /\ KeepsSt
    BY PcOnly, <1>22 DEF CondWait, ThrAt, ThrGoto, Await
  <2> QED
    BY <2>1, <1>22 DEF CondWait, KeepsFile
<1>23. CASE TakeFile
  <2>1. /\ thr.pc = "Woken" /\ thr'.pc = "Connect"
        /\ thr'.fp = dat_fp /\ thr'.type = dat_type
        /\ thr'.mode = thr.mode /\ KeepsSt
    BY <1>23 DEF TakeFile, ThrAt, Threads, KeepsFile, KeepsSt
  <2> QED
    BY <2>1, <1>23 DEF TakeFile, KeepsFile
<1>24. CASE Connect
  BY ConnectEffect, <1>24 DEF Connect, KeepsFile
<1>25. CASE CheckRunning
  <2>1. thr.pc = "Loop" /\ thr.mode = "passive" /\ thr \in Threads
    BY <1>25 DEF CheckRunning, ThrAt, Threads
  <2>2. /\ thr'.pc = IF ~thr_dat_running THEN "CloseFile" ELSE IF thr.conn THEN "Conn" ELSE "Accept"
        /\ KeepsFile /\ KeepsSt
    BY PcOnly, <1>25, <2>1 DEF CheckRunning, ThrGoto
  <2> QED
    BY <2>1, <2>2, <1>25 DEF CheckRunning, KeepsFile, KeepsSt
<1>26. CASE AcceptNone
  <2>1. /\ thr.pc = "Accept" /\ thr'.pc = "Loop"
        /\ KeepsFile /\ KeepsSt
    BY PcOnly, <1>26 DEF AcceptNone, ThrAt, ThrGoto
  <2> QED
    BY <2>1, <1>26 DEF AcceptNone, KeepsFile
<1>27. CASE LookForFile
  BY LookForFileEffect, <1>27 DEF LookForFile, KeepsFile
<1>28. CASE Poll
  <2>1. /\ thr.pc = "Poll" /\ thr'.pc = "Loop"
        /\ KeepsFile /\ KeepsSt
    BY <1>28 DEF Poll, ThrAt, Threads, KeepsFile, KeepsSt
  <2> QED
    BY <2>1, <1>28 DEF Poll, KeepsFile
<1>29. CASE ReadWouldBlock
  <2>1. /\ thr.pc = "Block" /\ thr'.pc = "Loop"
        /\ KeepsFile /\ KeepsSt
    BY PcOnly, <1>29 DEF ReadWouldBlock, ThrAt, ThrGoto
  <2> QED
    BY <2>1, <1>29 DEF ReadWouldBlock, KeepsFile
<1>30. CASE NullFile
  BY NullFileEffect, <1>30 DEF NullFile, KeepsFile, Threads
<1>31. CASE CloseFile
  <2>1. /\ thr.pc = "CloseFile" /\ thr'.pc = "ClearFp"
        /\ KeepsFile /\ KeepsSt
    BY <1>31 DEF CloseFile, ThrAt, Threads, KeepsFile, KeepsSt
  <2> QED
    BY <2>1, <1>31 DEF CloseFile, Closes, KeepsFile
<1>32. CASE ClearFp
  <2>1. /\ thr.pc = "ClearFp" /\ thr'.pc = "SetReady"
        /\ KeepsFile /\ KeepsSt
    BY PcOnly, <1>32 DEF ClearFp, ThrAt, ThrGoto
  <2> QED
    BY <2>1, <1>32 DEF ClearFp, FpAfter, KeepsFile, KeepsSt
<1>33. CASE SetReady
  <2>1. /\ thr.pc = "SetReady" /\ thr'.pc = "Report"
        /\ KeepsFile /\ KeepsSt
    BY PcOnly, <1>33 DEF SetReady, ThrAt, ThrGoto
  <2> QED
    BY <2>1, <1>33 DEF SetReady, StateAfter, KeepsFile, KeepsSt
<1>34. CASE Report
  <2>1. /\ thr.pc = "Report" /\ thr'.pc = "Exited"
        /\ KeepsFile /\ KeepsSt
    BY PcOnly, <1>34 DEF Report, ThrAt, ThrGoto
  <2> QED
    BY <2>1, <1>34 DEF Report, KeepsFile
<1>35. CASE AcceptConnection
  <2>1. /\ thr.pc = "Accept" /\ thr'.pc = "Conn"
        /\ KeepsFile /\ KeepsSt
    BY <1>35 DEF AcceptConnection, ThrAt, Threads, KeepsFile, KeepsSt
  <2> QED
    BY <2>1, <1>35 DEF AcceptConnection, KeepsFile
<1>36. CASE MoveBlock
  BY MoveBlockEffect, <1>36 DEF MoveBlock, KeepsFile
<1>37. CASE SpuriousWakeup
  BY <1>37 DEF SpuriousWakeup
<1>38. CASE Over \/ UNCHANGED vars
  BY <1>38 DEF Over
<1> QED
  BY <1>1, <1>2, <1>3, <1>4, <1>5, <1>6, <1>7, <1>8, <1>9, <1>10, <1>11,
     <1>12, <1>13, <1>14, <1>15, <1>16, <1>17, <1>18, <1>19, <1>20, <1>21, <1>22,
     <1>23, <1>24, <1>25, <1>26, <1>27, <1>28, <1>29, <1>30, <1>31, <1>32, <1>33,
     <1>34, <1>35, <1>36, <1>37, <1>38 DEF Next, CtlStep, ThrStep, PeerStep

\* LockstepInv holds in passive mode of a far end that does not send a transfer
\* command before the one before is answered.
LEMMA LockstepKept ==
  ASSUME Lockstep, Modes \subseteq {"PASV"},
         Faults \cap {"thread", "accept", "spurious"} = {}
  PROVE  Spec => [](SessionInv /\ LockstepInv)
<1>1. Init => LockstepInv
  BY LockstepInit
<1>2. SessionInv /\ SignalInv /\ LockstepInv /\ [Next]_vars => LockstepInv'
  BY LockstepNext
<1>3. Spec => [](SessionInv /\ SignalInv)
  <2>1. "spurious" \notin Faults
    OBVIOUS
  <2> QED
    BY <2>1, SignalKept
<1> QED
  BY <1>1, <1>2, <1>3, PTL DEF Spec

\* Then each transfer accepted has a thread at work on it: the window between
\* dat_fp = NULL and state = READY in cleanup is never met.
THEOREM TransfersServed ==
  ASSUME Lockstep, Modes \subseteq {"PASV"},
         Faults \cap {"thread", "accept", "spurious"} = {}
  PROVE  Spec => []TransferHasWorker
<1>1. LockstepInv => TransferHasWorker
  BY DEF LockstepInv, AwaitsFile
<1> QED
  BY <1>1, LockstepKept, PTL

\* And "226 Transfer aborted." is true when ABOR is answered with it.
THEOREM AbortsEnd ==
  ASSUME Lockstep, Modes \subseteq {"PASV"},
         Faults \cap {"thread", "accept", "spurious"} = {}
  PROVE  Spec => []AbortEndsTransfer
<1>1. SessionInv /\ LockstepInv => AbortEndsTransfer
  BY DEF SessionInv, RunningOrJoined, JoinedBeforeReuse, LockstepInv, AwaitsFile,
         TransferHasWorker, AbortEndsTransfer, AtWork, At
<1> QED
  BY <1>1, LockstepKept, PTL

=============================================================================
