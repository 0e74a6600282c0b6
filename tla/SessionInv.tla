----------------------------- MODULE SessionInv -----------------------------
(***************************************************************************)
(* Why a session is safe: an inductive invariant.                          *)
(*                                                                         *)
(* The argument.  A handler that starts a transfer or a thread goes past   *)
(* ignore_if_xfer() with dat_fp = NULL, and nothing but signal_file sets   *)
(* dat_fp; so dat_fp stays NULL to the end of the handler (HandlerOwns).   *)
(* A data thread holds no file but dat_fp, from the moment it copies it to *)
(* the moment it clears it (ThreadHoldsDatFp), and dat_fp is open for      *)
(* dat_type until that thread has closed it (DatFpOpen).  thr_dat_running  *)
(* is false only when there is no thread or the thread is being joined     *)
(* (RunningOrJoined).                                                      *)
(***************************************************************************)
EXTENDS Session

\* The command in hand is one whose handler has the step the thread is at.
CmdFits ==
  /\ cpc \in {"Open", "Signal"} => cmd \in TransferCmds
  /\ cpc = "SetPort" => cmd = "PORT"

\* A handler past the gate has dat_fp to itself.
HandlerOwns == PastGate => dat_fp = NULL

\* f is the file of the handler, open, between fopen or popen and signal_file.
FileInHand ==
  /\ cpc = "Signal" => f # NULL /\ handle[f] = DatTypeOf[cmd]
  /\ cpc # "Signal" => f = NULL

\* What the data thread holds is dat_fp, and open for what it was taken for.
ThreadHoldsDatFp ==
  /\ Transferring => dat_fp = thr.fp /\ handle[thr.fp] = thr.type
  /\ thr.pc = "ClearFp" /\ thr.fp # NULL => dat_fp = thr.fp

\* dat_fp is open until the data thread that took it has closed it.
DatFpOpen ==
  dat_fp # NULL => \/ handle[dat_fp] = dat_type
                   \/ thr.pc = "ClearFp" /\ thr.fp = dat_fp

\* thr_dat_running is false of no thread but one that is being joined.
RunningOrJoined ==
  /\ ~thr_dat_running /\ cpc # "Join" => thr.pc \in {"None", "Crashed"}
  /\ JoinedBeforeReuse

\* Before login there is no data thread, and none being started.
NoThreadBeforeLogin ==
  state \in {"CONN", "WAIT_PASS"} =>
    /\ thr.pc = "None"
    /\ ~thr_dat_running
    /\ cpc \notin {"Join", "SetPort"}
    /\ cpc \in {"CloseThreads", "Resume"} => cmd \notin Modes

\* The data thread may yet copy dat_fp.
CanTake ==
  \/ thr.pc \in {"Start", "Waiting", "Woken"}
  \/ thr.mode = "passive" /\ thr.pc \in {"Loop", "Accept", "Conn", "Poll"}

\* The 150 of what is, or is to become, the data thread's transfer has not been
\* answered; a thread that has yet to transfer has no result to report.  (One that
\* has gone on without a file, as only an active one does, may report a transfer
\* all the same: NullFile.)
AnswerOwed ==
  /\ CanTake /\ (dat_fp # NULL \/ cpc = "Signal") => owed
  /\ Transferring /\ thr.pc # "CloseFile" => owed
  /\ thr.pc \in {"CloseFile", "ClearFp", "SetReady", "Report"} /\ thr.st # "none"
       => owed \/ (thr.fp = NULL /\ thr.mode = "active")
  /\ thr.pc \notin {"CloseFile", "ClearFp", "SetReady", "Report", "Exited",
                    "Crashed"} => thr.st = "none"

\* The steps of the two kinds of data thread.
ModeFits ==
  /\ thr.pc \in {"Start", "Waiting", "Woken", "Connect"} => thr.mode = "active"
  /\ thr.pc \in {"Accept", "Conn", "Poll"} => thr.mode = "passive"
  /\ thr.mode = "none" => thr.pc \in {"None", "Crashed"}
  /\ thr.mode = "passive" /\ thr.pc = "Block" => thr.fp # NULL

SessionInv ==
  /\ TypeOK
  /\ CmdFits
  /\ HandlerOwns
  /\ FileInHand
  /\ ThreadHoldsDatFp
  /\ DatFpOpen
  /\ RunningOrJoined
  /\ NoThreadBeforeLogin
  /\ ModeFits
  /\ AnswerOwed

-----------------------------------------------------------------------------
(***************************************************************************)
(* And when pthread_cond_wait returns only on a signal: the active thread  *)
(* wakes with a file, after PORT has finished, and state follows the       *)
(* thread until cleanup sets it.                                           *)
(***************************************************************************)
\* The active thread sleeps until it has a file, and PORT is done by then.
WokenWithFile ==
  /\ thr.pc = "Woken" => dat_fp # NULL
  /\ thr.pc = "Connect" => thr.fp # NULL
  /\ cpc = "SetPort" => thr.pc \in {"Start", "Waiting"} /\ thr.mode = "active"

\* PORT and PASV state have their thread, unless pthread_create has failed and
\* the session is on its way out.
StateHasThread ==
  state \in {"PORT", "PASV"} =>
    \/ /\ thr.mode = IF state = "PORT" THEN "active" ELSE "passive"
       /\ thr.pc \notin {"None", "Report", "Exited"}
    \/ /\ thr.pc \in {"None", "Crashed"}
       /\ cpc \in {"Bye", "CloseThreads", "Join"}
       /\ cpc # "Join" => thr_dat_running

\* The active thread has its file from then on, no thread that has closed its file
\* has it open again, and what a handler opens a file for is a thread there was.
FileTaken ==
  /\ thr.mode = "active" /\ thr.pc \in {"Loop", "Block", "CloseFile", "ClearFp",
                                       "SetReady", "Report"} => thr.fp # NULL
  /\ thr.pc = "ClearFp" /\ thr.fp # NULL => handle[thr.fp] = "CLOSED"
  /\ cpc \in {"Open", "Signal"} => thr.pc # "None"

SignalInv == WokenWithFile /\ StateHasThread /\ FileTaken

-----------------------------------------------------------------------------
(***************************************************************************)
(* And when the far end awaits the answer to a transfer before it asks for *)
(* another, in passive mode, with threads that can be started and accept() *)
(* that does not fail: the thread that PASV has started is there to take   *)
(* the file of the next transfer, because it does not leave before it has  *)
(* had one, and what it leaves with is still owed an answer.               *)
(***************************************************************************)
\* There is a thread to join, and it has come to no harm.
JoinsAThread ==
  /\ thr_dat_running \/ cpc = "Join" => thr.pc # "None"
  /\ cpc = "Join" => ~thr_dat_running
  /\ thr.pc # "Crashed"
  /\ thr.mode # "active"

\* The thread ends of itself only with the result of a transfer.
LeavesWithResult ==
  thr.pc \in {"CloseFile", "ClearFp", "SetReady", "Report"} /\ thr_dat_running
    => thr.st # "none"

\* A command that is refused during a transfer comes when nothing is owed.
AnsweredBefore ==
  cpc \in {"Handle", "Check", "Open"} /\ cmd \in GatedCmds => ~owed

\* The thread is there to take the file, and does not leave until it has cleared
\* dat_fp.
AwaitsFile ==
  /\ cpc \in {"Open", "Signal"} =>
       /\ thr_dat_running
       /\ thr.pc \in {"Loop", "Accept", "Conn", "Poll"} /\ thr.fp = NULL
  /\ TransferHasWorker

LockstepInv == JoinsAThread /\ LeavesWithResult /\ AnsweredBefore /\ AwaitsFile

=============================================================================
