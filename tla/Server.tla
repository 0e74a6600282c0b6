------------------------------- MODULE Server -------------------------------
(***************************************************************************)
(* The descriptors of the server process: main's accept loop and the       *)
(* sessions it starts, each with a control thread and at most one data     *)
(* thread, take numbers from one table and give them back.  A number that  *)
(* is closed is soon another's: whoever closes it again closes what is not *)
(* his.  When the table is full accept(), socket() and fopen() fail.       *)
(*                                                                         *)
(* A session is here what it does to descriptors; what its two threads say *)
(* and to whom is in Session.  The far end asks for what it likes when it  *)
(* likes, so that a transfer may come before the thread of PORT waits for  *)
(* one, or beside a thread that is on its way out.  No wait ends without a *)
(* signal.                                                                 *)
(***************************************************************************)
EXTENDS Naturals, FiniteSets

CONSTANTS
  Sessions,   \* client records that can be in use at once
  Fds,        \* the numbers left beside stdio and main's own socket
  NoFd        \* -1

ASSUME ServerAssumption == NoFd \notin Fds \cup Sessions

VARIABLES
  open,       \* what each descriptor is, or free
  accepted,   \* main's conn_fd, before its thread has taken it
  ctl,        \* where each control thread is
  cmd,        \* and what it is to do when client_close_threads has returned
  thr,        \* the data thread of each session
  running,    \* thr_dat_running
  \* descriptors by name: sock_ctl and dat_fp of the client record; sock_fd,
  \* conn_fd and fp of its data thread
  sock_ctl, dat_fp, sock_fd, conn_fd, fp,
  crashed     \* the process is gone

threads == <<ctl, cmd, thr, running>>
vars == <<open, accepted, threads, sock_ctl, dat_fp, sock_fd, conn_fd, fp, crashed>>

\* A descriptor is open as something and for a session; main's for none yet.
Uses == {"control", "listening", "data", "file"}
Unused == <<"free", NoFd>>
Pending == <<"control", NoFd>>
Free == {n \in Fds : open[n] = Unused}
Full == Free = {}

Named == [Sessions -> Fds \cup {NoFd}]

\* A thread of PORT starts, falls asleep on cond_dat and becomes active when it is
\* signalled; cleanup takes two steps, after the first of which it is leaving.
Threads == {"none", "start", "asleep", "active", "passive", "leaving", "exited"}
Gone == {"none", "leaving", "exited"}

TypeOK ==
  /\ open \in [Fds -> {Unused, Pending} \cup (Uses \X Sessions)]
  /\ accepted \in Fds \cup {NoFd}
  /\ ctl \in [Sessions -> {"off", "idle", "join", "resume", "bye"}]
  /\ cmd \in [Sessions -> {"none", "PORT", "PASV", "ABOR", "QUIT", "END"}]
  /\ thr \in [Sessions -> Threads]
  /\ running \in [Sessions -> BOOLEAN]
  /\ sock_ctl \in Named /\ dat_fp \in Named
  /\ sock_fd \in Named /\ conn_fd \in Named /\ fp \in Named
  /\ crashed \in BOOLEAN

Init ==
  /\ open = [n \in Fds |-> Unused]
  /\ accepted = NoFd
  /\ ctl = [s \in Sessions |-> "off"]
  /\ cmd = [s \in Sessions |-> "none"]
  /\ thr = [s \in Sessions |-> "none"]
  /\ running = [s \in Sessions |-> FALSE]
  /\ sock_ctl = [s \in Sessions |-> NoFd]
  /\ dat_fp = sock_ctl /\ sock_fd = sock_ctl /\ conn_fd = sock_ctl /\ fp = sock_ctl
  /\ crashed = FALSE

Set(v, s, x) == [v EXCEPT ![s] = x]
Goto(s, step) == ctl' = Set(ctl, s, step)

\* The table with n taken, and with what is named in ns closed, -1 or not.
Take(n, what) == [open EXCEPT ![n] = what]
CloseAll(ns) == [n \in Fds |-> IF n \in ns THEN Unused ELSE open[n]]

\* panic(): the process ends and the kernel closes what it had.
Panic ==
  /\ crashed' = TRUE
  /\ UNCHANGED <<open, accepted, threads, sock_ctl, dat_fp, sock_fd, conn_fd, fp>>

-----------------------------------------------------------------------------
(***************************************************************************)
(* main                                                                    *)
(***************************************************************************)
Accept ==
  /\ accepted = NoFd
  /\ \E n \in Free : open' = Take(n, Pending) /\ accepted' = n
  /\ UNCHANGED <<threads, sock_ctl, dat_fp, sock_fd, conn_fd, fp, crashed>>

AcceptFails == accepted = NoFd /\ Full /\ Panic

\* pthread_create, and client_create in the new thread; or "cannot serve more
\* clients".
Serve(s) ==
  /\ accepted # NoFd /\ ctl[s] = "off"
  /\ open' = Take(accepted, <<"control", s>>)
  /\ sock_ctl' = Set(sock_ctl, s, accepted)
  /\ Goto(s, "idle")
  /\ accepted' = NoFd
  /\ UNCHANGED <<cmd, thr, running, dat_fp, sock_fd, conn_fd, fp, crashed>>

ServeFails ==
  /\ accepted # NoFd
  /\ open' = CloseAll({accepted})
  /\ accepted' = NoFd
  /\ UNCHANGED <<threads, sock_ctl, dat_fp, sock_fd, conn_fd, fp, crashed>>

-----------------------------------------------------------------------------
(***************************************************************************)
(* The control thread of a session                                         *)
(***************************************************************************)
\* client_xfer_in_progress, and the same not looked at.
XferInProgressIgnored(s) == FALSE
XferInProgress(s) == dat_fp[s] # NoFd

\* A command whose handler begins with client_close_threads, or the end.
StopThread(s, c) ==
  /\ ctl[s] = IF c = "END" THEN "bye" ELSE "idle"
  /\ c \in {"PORT", "PASV"} => ~XferInProgress(s)
  /\ c = "ABOR" => XferInProgress(s)
  /\ cmd' = Set(cmd, s, c)
  /\ running' = Set(running, s, FALSE)
  /\ Goto(s, IF running[s] THEN "join" ELSE "resume")
  /\ UNCHANGED <<open, accepted, thr, sock_ctl, dat_fp, sock_fd, conn_fd, fp, crashed>>

\* pthread_join; of a thread that was never created it is undefined, and
\* returns or brings the process down.
JoinThread(s) ==
  /\ ctl[s] = "join"
  /\ \/ /\ thr[s] \in {"none", "exited"}
        /\ thr' = Set(thr, s, "none")
        /\ Goto(s, "resume")
        /\ UNCHANGED <<open, accepted, cmd, running, sock_ctl, dat_fp, sock_fd,
                       conn_fd, fp, crashed>>
     \/ thr[s] = "none" /\ Panic

\* ABOR has no more to do, nor PORT with a bad address; QUIT ends the session.
Resume(s) ==
  /\ ctl[s] = "resume" /\ cmd[s] \in {"ABOR", "PORT", "QUIT"}
  /\ Goto(s, IF cmd[s] = "QUIT" THEN "bye" ELSE "idle")
  /\ UNCHANGED <<open, accepted, cmd, thr, running, sock_ctl, dat_fp, sock_fd,
                 conn_fd, fp, crashed>>

\* The far end has closed the control connection, and nothing is stopped yet.
EndOfConnection(s) ==
  /\ ctl[s] = "idle"
  /\ Goto(s, "bye")
  /\ UNCHANGED <<open, accepted, cmd, thr, running, sock_ctl, dat_fp, sock_fd,
                 conn_fd, fp, crashed>>

\* running is set before the thread is created, and stays when it is not: 421.
StartThread(s, mode) ==
  /\ running' = Set(running, s, TRUE)
  /\ \/ thr' = Set(thr, s, mode) /\ Goto(s, "idle")
     \/ UNCHANGED thr /\ Goto(s, "bye")

PortMode(s) ==
  /\ ctl[s] = "resume" /\ cmd[s] = "PORT"
  /\ StartThread(s, "start")
  /\ UNCHANGED <<open, accepted, cmd, sock_ctl, dat_fp, sock_fd, conn_fd, fp, crashed>>

\* The thread's sock_fd is what ephemeral() has opened; without a thread it is
\* nobody's.
PasvMode(s) ==
  /\ ctl[s] = "resume" /\ cmd[s] = "PASV"
  /\ \E n \in Free :
       /\ open' = Take(n, <<"listening", s>>)
       /\ StartThread(s, "passive")
       /\ sock_fd' = IF thr'[s] = "passive" THEN Set(sock_fd, s, n) ELSE sock_fd
  /\ UNCHANGED <<accepted, cmd, sock_ctl, dat_fp, conn_fd, fp, crashed>>

\* ephemeral(), fcntl() or listen() fails: the last two leave the socket.
PasvNoSocket(s) ==
  /\ ctl[s] = "resume" /\ cmd[s] = "PASV"
  /\ \/ UNCHANGED open
     \/ \E n \in Free : open' = Take(n, <<"listening", s>>)
  /\ Goto(s, "bye")
  /\ UNCHANGED <<accepted, cmd, thr, running, sock_ctl, dat_fp, sock_fd, conn_fd,
                 fp, crashed>>

\* RETR, STOR and LIST in PORT or PASV state, which a leaving thread has not taken
\* back yet; with the table full, 550.  The signal reaches a thread that sleeps.
Transfer(s) ==
  /\ ctl[s] = "idle" /\ ~XferInProgress(s)
  /\ thr[s] \in {"start", "asleep", "passive", "leaving"}
  /\ \E n \in Free :
       open' = Take(n, <<"file", s>>) /\ dat_fp' = Set(dat_fp, s, n)
  /\ thr' = IF thr[s] = "asleep" THEN Set(thr, s, "active") ELSE thr
  /\ UNCHANGED <<accepted, ctl, cmd, running, sock_ctl, sock_fd, conn_fd, fp, crashed>>

\* 421 or 221 is sent; client_close stops the thread, closes the connection and
\* frees the record, whatever dat_fp holds.
CloseControl(s) ==
  /\ ctl[s] = "resume" /\ cmd[s] = "END"
  /\ open' = CloseAll({sock_ctl[s]})
  /\ sock_ctl' = Set(sock_ctl, s, NoFd)
  /\ dat_fp' = Set(dat_fp, s, NoFd)
  /\ Goto(s, "off")
  /\ cmd' = Set(cmd, s, "none")
  /\ UNCHANGED <<accepted, thr, running, sock_fd, conn_fd, fp, crashed>>

-----------------------------------------------------------------------------
(***************************************************************************)
(* The data thread of a session                                            *)
(***************************************************************************)
\* conn_fd when the far end has hung up; and left as it was.
ConnAfterKept(s) == conn_fd[s]
ConnAfter(s) == NoFd

\* pthread_cond_wait of active_data.
CondWait(s) ==
  /\ thr[s] = "start"
  /\ thr' = Set(thr, s, "asleep")
  /\ UNCHANGED <<open, accepted, ctl, cmd, running, sock_ctl, dat_fp, sock_fd,
                 conn_fd, fp, crashed>>

\* close(sock_fd) of passive_data, and cleanup as far as dat_fp.
Cleanup(s) ==
  /\ open' = CloseAll({sock_fd[s], conn_fd[s], fp[s]})
  /\ dat_fp' = Set(dat_fp, s, NoFd)
  /\ sock_fd' = Set(sock_fd, s, NoFd)
  /\ conn_fd' = Set(conn_fd, s, NoFd)
  /\ fp' = Set(fp, s, NoFd)
  /\ thr' = Set(thr, s, "leaving")
  /\ UNCHANGED <<accepted, ctl, cmd, running, sock_ctl, crashed>>

\* The rest of cleanup: the state is READY, and the thread ends.
SetReady(s) ==
  /\ thr[s] = "leaving"
  /\ thr' = Set(thr, s, "exited")
  /\ UNCHANGED <<open, accepted, ctl, cmd, running, sock_ctl, dat_fp, sock_fd,
                 conn_fd, fp, crashed>>

\* active_data is woken with a file, and opens the socket for its connection.
Dial(s) ==
  /\ thr[s] = "active" /\ fp[s] = NoFd
  /\ fp' = Set(fp, s, dat_fp[s])
  /\ IF Full THEN UNCHANGED <<open, conn_fd>>
     ELSE \E n \in Free :
            open' = Take(n, <<"data", s>>) /\ conn_fd' = Set(conn_fd, s, n)
  /\ UNCHANGED <<accepted, threads, sock_ctl, dat_fp, sock_fd, crashed>>

\* passive_data, which looks for a connection until there is one.
AcceptData(s) ==
  /\ thr[s] = "passive" /\ conn_fd[s] = NoFd
  /\ \E n \in Free :
       open' = Take(n, <<"data", s>>) /\ conn_fd' = Set(conn_fd, s, n)
  /\ UNCHANGED <<accepted, threads, sock_ctl, dat_fp, sock_fd, fp, crashed>>

AcceptDataFails(s) == thr[s] = "passive" /\ conn_fd[s] = NoFd /\ Full /\ Panic

HangUp(s) ==
  /\ thr[s] = "passive" /\ conn_fd[s] # NoFd /\ fp[s] = NoFd
  /\ open' = CloseAll({conn_fd[s]})
  /\ conn_fd' = Set(conn_fd, s, ConnAfter(s))
  /\ UNCHANGED <<accepted, threads, sock_ctl, dat_fp, sock_fd, fp, crashed>>

TakeFile(s) ==
  /\ thr[s] = "passive" /\ conn_fd[s] # NoFd /\ fp[s] = NoFd /\ dat_fp[s] # NoFd
  /\ fp' = Set(fp, s, dat_fp[s])
  /\ UNCHANGED <<open, accepted, threads, sock_ctl, dat_fp, sock_fd, conn_fd, crashed>>

\* It is done, cannot connect, or meets an error.
TransferOver(s) == thr[s] \in {"active", "passive"} /\ fp[s] # NoFd /\ Cleanup(s)

\* It is told to stop, which active_data does not see while it waits for a file.
Stopped(s) ==
  /\ ~running[s]
  /\ thr[s] = "passive" \/ (thr[s] = "active" /\ fp[s] # NoFd)
  /\ Cleanup(s)

Step(s) ==
  \/ Serve(s) \/ \E c \in {"PORT", "PASV", "ABOR", "QUIT", "END"} : StopThread(s, c)
  \/ JoinThread(s) \/ Resume(s) \/ EndOfConnection(s)
  \/ PortMode(s) \/ PasvMode(s) \/ PasvNoSocket(s)
  \/ Transfer(s) \/ CloseControl(s)
  \/ CondWait(s) \/ Dial(s) \/ AcceptData(s) \/ AcceptDataFails(s) \/ HangUp(s) \/ TakeFile(s)
  \/ TransferOver(s) \/ Stopped(s) \/ SetReady(s)

Next ==
  \/ /\ ~crashed
     /\ \/ Accept \/ AcceptFails \/ ServeFails \/ \E s \in Sessions : Step(s)
  \/ crashed /\ UNCHANGED vars

Spec == Init /\ [][Next]_vars

-----------------------------------------------------------------------------
\* The descriptors session s has a name for that somebody will close: dat_fp is for
\* a thread to take, and nobody's when the thread there was is gone.
Names(s) == {sock_ctl[s], sock_fd[s], conn_fd[s], fp[s]}
              \cup (IF thr[s] \in Gone THEN {} ELSE {dat_fp[s]})
Held == {n \in Fds : n = accepted \/ \E s \in Sessions : n \in Names(s)}

Owned(s, n, use) == n # NoFd => open[n] = <<use, s>>

\* Whatever order the threads of several sessions run in, a descriptor that one
\* of them has a name for is open, and as what he takes it for: nobody has
\* closed it under him, and he reads, writes and closes nobody else's.
DescriptorsOwned ==
  /\ accepted # NoFd => open[accepted] = Pending
  /\ \A s \in Sessions :
       /\ Owned(s, sock_ctl[s], "control")
       /\ Owned(s, sock_fd[s], "listening")
       /\ Owned(s, conn_fd[s], "data")
       /\ Owned(s, dat_fp[s], "file")
       /\ Owned(s, fp[s], "file")

\* A data thread has a file of its own only while it is dat_fp's; that of PORT
\* listens on nothing, is awake only for a file, and has no connection before it
\* has taken it; where there is none, it has left nothing.
ThreadHolds(s) ==
  /\ fp[s] # NoFd => fp[s] = dat_fp[s]
  /\ thr[s] \in {"start", "asleep", "active"} =>
       sock_fd[s] = NoFd /\ (fp[s] = NoFd => conn_fd[s] = NoFd)
  /\ thr[s] \in {"start", "asleep"} => fp[s] = NoFd
  /\ thr[s] = "active" => dat_fp[s] # NoFd
  /\ thr[s] \in Gone => {sock_fd[s], conn_fd[s], fp[s]} \subseteq {NoFd}

\* No command goes on from client_close_threads, and no record is given back,
\* with a data thread still there.
ThreadJoined(s) ==
  /\ ctl[s] \in {"resume", "off"} => thr[s] = "none"
  /\ ctl[s] \in {"join", "resume", "off"} => ~running[s]
  /\ ~running[s] => thr[s] = "none" \/ ctl[s] = "join"
  /\ ctl[s] = "off" => sock_ctl[s] = NoFd

\* A descriptor never has two owners, one that is gone, or a thread that runs on
\* behind the back of its session.
ServerInv ==
  /\ TypeOK
  /\ DescriptorsOwned
  /\ \A s \in Sessions : ThreadHolds(s) /\ ThreadJoined(s)

PasvFailed(s) == ctl[s] = "resume" /\ cmd[s] = "PASV" /\ ctl'[s] = "bye"

\* The socket of a PASV that fails after ephemeral(); the file of a passive transfer
\* that is stopped before the thread has taken it; and a file that is handed to a
\* thread that is past its last look at dat_fp, which goes with the record.
KnownLeak(n) ==
  \E s \in Sessions :
    \/ PasvFailed(s) /\ open'[n] = <<"listening", s>>
    \/ Stopped(s) /\ n = dat_fp[s] /\ thr[s] = "passive"
    \/ Transfer(s) /\ n = dat_fp'[s] /\ thr[s] = "leaving"

\* "no memory leaks or file descriptor leaks" (report.md:51-52), but for three: a
\* descriptor that is open is one that main or a session has a name for, with
\* somebody to close it before that name is given up.
OnlyKnownLeaks ==
  [][\A n \in Fds :
       open'[n] # Unused /\ (n \in Held \/ open[n] = Unused)
         => n \in Held' \/ KnownLeak(n)]_vars

=============================================================================
