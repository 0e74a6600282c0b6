------------------------------ MODULE Session ------------------------------
(***************************************************************************)
(* One FTP session of the server: the thread that serves the control       *)
(* connection (client_run_loop and the handlers of client_cmds.c) and the  *)
(* data thread it starts for PORT or PASV (client_xfer_thr.h).  They share *)
(* the client record: state, thr_dat_running, dat_fp, dat_type.            *)
(*                                                                         *)
(* A step is the code between two accesses to the shared record that the   *)
(* other thread could separate.  A crit block is one step: mutex_dat is    *)
(* held for no longer, and pthread_cond_wait is two, before and after the  *)
(* sleep.  c->state is read and written outside any lock.                  *)
(*                                                                         *)
(* The far end (the FTP client, its data connection, the network) is free: *)
(* it is the choices of Receive, Accept, Connect, Poll and MoveBlock.      *)
(***************************************************************************)
EXTENDS Naturals, FiniteSets

CONSTANTS
  Handles,    \* the FILE objects one session can have open at once
  NULL,       \* the null pointer
  Modes,      \* the data connection commands that are sent: PORT, PASV
  Lockstep,   \* TRUE: the far end awaits the completion reply of a transfer
              \* before anything but ABOR, SYST, QUIT or hanging up
  NonblockingAccept, \* TRUE: accept() passes O_NONBLOCK on (BSD, macOS);
                     \* FALSE: it does not (Linux)
  Faults,     \* the calls that may fail: thread, socket, accept, spurious
  MaxBlocks   \* bound: blocks in a file, and blocks skipped by REST

ASSUME SessionAssumption ==
  /\ NULL \notin Handles
  /\ Modes \subseteq {"PORT", "PASV"}
  /\ Lockstep \in BOOLEAN
  /\ NonblockingAccept \in BOOLEAN
  /\ Faults \subseteq {"thread", "socket", "accept", "spurious"}
  /\ MaxBlocks \in Nat

VARIABLES
  \* the shared client record
  state, username, rest_offs, thr_dat_running, dat_fp, dat_type,
  \* the control thread: where it is, the command in hand, the handler's f
  cpc, cmd, f,
  thr,        \* the data thread: where it is and its local variables
  listening,  \* the listening socket of PASV is open
  handle,     \* what each FILE is open for, or CLOSED
  left,       \* blocks still to be moved by the transfer last started
  owed        \* a 150 reply has been sent whose completion reply has not

vars == <<state, username, rest_offs, thr_dat_running, dat_fp, dat_type,
          cpc, cmd, f, thr, listening, handle, left, owed>>

record == <<state, username, rest_offs, thr_dat_running, dat_fp, dat_type>>

States == {"CONN", "WAIT_PASS", "READY", "PORT", "PASV"}
TransferCmds == {"RETR", "STOR", "LIST"}
DatTypes == {"SEND_FILE", "RECV_FILE", "SEND_PIPE"}
DatTypeOf == [RETR |-> "SEND_FILE", STOR |-> "RECV_FILE", LIST |-> "SEND_PIPE"]

\* Commands that begin with ignore_if_xfer().  PATH stands for CWD, PWD, MKD,
\* RMD, RNFR, RNTO and DELE, which touch nothing of this module beyond that.
GatedCmds == {"TYPE", "USER", "PASS", "PATH", "REST"} \cup Modes \cup TransferCmds
\* EOF: the control connection ends.  END: client_close after the loop.
Commands == GatedCmds \cup {"SYST", "ABOR", "QUIT", "EOF"}

CtlSteps == {"Idle", "Handle", "Check", "Open", "Signal", "CloseThreads",
             "Join", "Resume", "SetPort", "Bye", "Gone"}
\* "None": no thread, or joined.  "Crashed": the process is gone.
ThrSteps == {"None", "Start", "Waiting", "Woken", "Connect", "Loop", "Accept",
             "Conn", "Poll", "Block", "CloseFile", "ClearFp", "SetReady",
             "Report", "Exited", "Crashed"}

\* The thread and its local variables conn_fd, fp, dat_type and st.
Threads == [pc : ThrSteps, mode : {"none", "active", "passive"},
            conn : BOOLEAN, fp : Handles \cup {NULL},
            type : DatTypes \cup {"UNDEFINED"},
            st : {"none", "complete", "ioerror"}]
NoThread == [pc |-> "None", mode |-> "none", conn |-> FALSE, fp |-> NULL,
             type |-> "UNDEFINED", st |-> "none"]

TypeOK ==
  /\ state \in States
  /\ username \in {"NULL", "given", "anonymous"}
  /\ rest_offs \in 0..MaxBlocks
  /\ thr_dat_running \in BOOLEAN
  /\ dat_fp \in Handles \cup {NULL}
  /\ dat_type \in DatTypes \cup {"UNDEFINED"}
  /\ cpc \in CtlSteps
  /\ cmd \in Commands \cup {"none", "END"}
  /\ f \in Handles \cup {NULL}
  /\ thr \in Threads
  /\ listening \in BOOLEAN
  /\ handle \in [Handles -> DatTypes \cup {"CLOSED"}]
  /\ left \in 0..MaxBlocks
  /\ owed \in BOOLEAN

\* client_create.  malloc leaves dat_type with whatever it finds.
Init ==
  /\ state = "CONN"
  /\ username = "NULL"
  /\ rest_offs = 0
  /\ thr_dat_running = FALSE
  /\ dat_fp = NULL
  /\ dat_type \in DatTypes \cup {"UNDEFINED"}
  /\ cpc = "Idle"
  /\ cmd = "none"
  /\ f = NULL
  /\ thr = NoThread
  /\ listening = FALSE
  /\ handle = [h \in Handles |-> "CLOSED"]
  /\ left = 0
  /\ owed = FALSE

-----------------------------------------------------------------------------
(***************************************************************************)
(* The control thread                                                      *)
(***************************************************************************)
Alive == thr.pc # "Crashed"
At(step) == cpc = step /\ Alive
Goto(step) == cpc' = step
\* A final reply, and back to reading the next command line.
Reply == cpc' = "Idle" /\ cmd' = "none"

\* client_xfer_in_progress, and how it could go wrong: no look at dat_fp.
XferInProgressIgnored == FALSE
XferInProgress == dat_fp # NULL

\* auth(), and the same under NO_AUTH.
AuthIgnored == TRUE
Auth == state \in {"READY", "PORT", "PASV"}

\* data(), and a handler that forgets it.
HasDataModeIgnored == TRUE
HasDataMode == state \in {"PORT", "PASV"}

\* What fseek leaves to be read of a file of this size.
LeftAfter(size, offset) == IF offset < size THEN size - offset ELSE 0

\* The type signal_file() stores, and the one a bare dat_fp = f leaves there.
SignalledTypeForgotten == dat_type
SignalledType == DatTypeOf[cmd]

\* client_close_threads: whether there is a thread to join, and one that takes
\* a thread without a transfer for no thread.
MustJoinIfBusy == thr_dat_running /\ dat_fp # NULL
MustJoin == thr_dat_running

\* client_close_threads: thr_dat_running for the thread to see.
StopFlagKept == thr_dat_running
StopFlag == FALSE

\* When the far end may send c.
MaySend(c) == Lockstep /\ owed => c \in {"ABOR", "SYST", "QUIT", "EOF"}

\* client_run_loop has read a line, or the end of the connection.
Receive(c) ==
  /\ At("Idle")
  /\ MaySend(c)
  /\ cmd' = c
  /\ Goto(IF c = "EOF" THEN "Bye" ELSE "Handle")
  /\ UNCHANGED <<record, f, thr, listening, handle, left, owed>>

\* The first thing each handler does: SYST replies, QUIT stops the data thread,
\* ABOR stops it if there is a transfer (226 follows, else 225), the others
\* reply 503 if there is one.
Dispatch ==
  /\ At("Handle")
  /\ \/ cmd = "SYST" /\ Reply
     \/ cmd = "QUIT" /\ Goto("CloseThreads") /\ UNCHANGED cmd
     \/ cmd = "ABOR" /\ XferInProgress /\ Goto("CloseThreads") /\ UNCHANGED cmd
     \/ cmd = "ABOR" /\ ~XferInProgress /\ Reply
     \/ cmd \in GatedCmds /\ XferInProgress /\ Reply
     \/ cmd \in GatedCmds /\ ~XferInProgress /\ Goto("Check") /\ UNCHANGED cmd
  /\ UNCHANGED <<record, f, thr, listening, handle, left, owed>>

User ==
  /\ At("Check") /\ cmd = "USER"
  /\ IF Auth
     THEN UNCHANGED <<state, username>>
     ELSE /\ state' = "WAIT_PASS"
          /\ username' \in {"NULL", "given"}   \* NULL: anonymous
  /\ Reply
  /\ UNCHANGED <<rest_offs, thr_dat_running, dat_fp, dat_type, f, thr,
                 listening, handle, left, owed>>

\* Out of order, or the password is refused; or the session is logged in.
Pass ==
  /\ At("Check") /\ cmd = "PASS"
  /\ \/ UNCHANGED <<state, username>>
     \/ /\ state = "WAIT_PASS"
        /\ state' = "READY"
        /\ username' = IF username = "NULL" THEN "anonymous" ELSE username
  /\ Reply
  /\ UNCHANGED <<rest_offs, thr_dat_running, dat_fp, dat_type, f, thr,
                 listening, handle, left, owed>>

Rest ==
  /\ At("Check") /\ cmd = "REST"
  /\ IF Auth THEN rest_offs' \in 0..MaxBlocks ELSE UNCHANGED rest_offs
  /\ Reply
  /\ UNCHANGED <<state, username, thr_dat_running, dat_fp, dat_type, f, thr,
                 listening, handle, left, owed>>

\* TYPE and the path commands, and the others up to auth() and data().
Check ==
  /\ At("Check")
  /\ \/ cmd \in {"TYPE", "PATH"} /\ Reply
     \/ cmd \in Modes \cup TransferCmds /\ ~Auth /\ Reply
     \/ cmd \in Modes /\ Auth /\ Goto("CloseThreads") /\ UNCHANGED cmd
     \/ cmd \in TransferCmds /\ Auth /\ ~HasDataMode /\ Reply
     \/ cmd \in TransferCmds /\ HasDataMode /\ Goto("Open") /\ UNCHANGED cmd
  /\ UNCHANGED <<record, f, thr, listening, handle, left, owed>>

\* RETR, STOR and LIST open their file and send the 150 reply.
OpenFile ==
  /\ At("Open")
  /\ \E h \in Handles :
       /\ handle[h] = "CLOSED"
       /\ f' = h
       /\ handle' = [handle EXCEPT ![h] = DatTypeOf[cmd]]
  /\ \E size \in 0..MaxBlocks :
       left' = IF cmd = "RETR" THEN LeftAfter(size, rest_offs) ELSE size
  /\ rest_offs' = IF cmd = "LIST" THEN rest_offs ELSE 0
  /\ owed' = TRUE
  /\ Goto("Signal")
  /\ UNCHANGED <<state, username, thr_dat_running, dat_fp, dat_type, cmd, thr,
                 listening>>

\* They cannot: 501 or 550.  STOR has forgotten the offset before fopen fails.
OpenFails ==
  /\ At("Open")
  /\ \/ UNCHANGED rest_offs
     \/ cmd = "STOR" /\ rest_offs' = 0
  /\ Reply
  /\ UNCHANGED <<state, username, thr_dat_running, dat_fp, dat_type, f, thr,
                 listening, handle, left, owed>>

\* signal_file: a thread that is not asleep in pthread_cond_wait misses it.
SignalFile ==
  /\ At("Signal")
  /\ dat_fp' = f
  /\ dat_type' = SignalledType
  /\ thr' = IF thr.pc = "Waiting" THEN [thr EXCEPT !.pc = "Woken"] ELSE thr
  /\ f' = NULL
  /\ Reply
  /\ UNCHANGED <<state, username, rest_offs, thr_dat_running, listening,
                 handle, left, owed>>

\* client_close_threads, before and after pthread_join.
StopThread ==
  /\ At("CloseThreads")
  /\ thr_dat_running' = StopFlag
  /\ Goto(IF MustJoin THEN "Join" ELSE "Resume")
  /\ UNCHANGED <<state, username, rest_offs, dat_fp, dat_type, cmd, f, thr,
                 listening, handle, left, owed>>

JoinThread ==
  /\ At("Join")
  /\ thr.pc = "Exited"
  /\ thr' = NoThread
  /\ state' = "READY"
  /\ Goto("Resume")
  /\ UNCHANGED <<username, rest_offs, thr_dat_running, dat_fp, dat_type, cmd, f,
                 listening, handle, left, owed>>

\* pthread_join of a thr_dat that names no thread, after pthread_create has
\* failed, is undefined: it returns an error or brings the process down.
JoinNoThread ==
  /\ At("Join")
  /\ thr.pc = "None"
  /\ \/ state' = "READY" /\ Goto("Resume") /\ UNCHANGED thr
     \/ thr' = [thr EXCEPT !.pc = "Crashed"] /\ UNCHANGED <<state, cpc>>
  /\ UNCHANGED <<username, rest_offs, thr_dat_running, dat_fp, dat_type, cmd, f,
                 listening, handle, left, owed>>

\* After client_close_threads: what the handler, or the end of the session, does.
Aborted ==   \* reply 226
  /\ At("Resume") /\ cmd = "ABOR"
  /\ owed' = FALSE
  /\ Reply
  /\ UNCHANGED <<record, f, thr, listening, handle, left>>

PortBadAddress ==
  /\ At("Resume") /\ cmd = "PORT"
  /\ Reply
  /\ UNCHANGED <<record, f, thr, listening, handle, left, owed>>

\* The thread runs from here on; c->state and c->addr are still to be written.
PortCreateThread ==
  /\ At("Resume") /\ cmd = "PORT"
  /\ thr_dat_running' = TRUE
  /\ \/ /\ thr' = [NoThread EXCEPT !.pc = "Start", !.mode = "active"]
        /\ Goto("SetPort")
     \/ /\ "thread" \in Faults   \* reply 421
        /\ UNCHANGED thr
        /\ Goto("Bye")
  /\ UNCHANGED <<state, username, rest_offs, dat_fp, dat_type, cmd, f,
                 listening, handle, left, owed>>

SetPort ==
  /\ At("SetPort")
  /\ state' = "PORT"
  /\ Reply
  /\ UNCHANGED <<username, rest_offs, thr_dat_running, dat_fp, dat_type, f, thr,
                 listening, handle, left, owed>>

\* ephemeral() fails, or fcntl or listen does and leaves the socket open: 421.
PasvNoSocket ==
  /\ At("Resume") /\ cmd = "PASV"
  /\ "socket" \in Faults
  /\ listening' \in BOOLEAN
  /\ Goto("Bye")
  /\ UNCHANGED <<record, cmd, f, thr, handle, left, owed>>

PasvCreateThread ==
  /\ At("Resume") /\ cmd = "PASV"
  /\ listening' = TRUE
  /\ state' = "PASV"
  /\ thr_dat_running' = TRUE
  /\ \/ /\ thr' = [NoThread EXCEPT !.pc = "Loop", !.mode = "passive"]
        /\ Reply
     \/ /\ "thread" \in Faults   \* reply 421
        /\ UNCHANGED <<thr, cmd>>
        /\ Goto("Bye")
  /\ UNCHANGED <<username, rest_offs, dat_fp, dat_type, f, handle, left, owed>>

QuitLoop ==
  /\ At("Resume") /\ cmd = "QUIT"
  /\ Goto("Bye")
  /\ UNCHANGED <<record, cmd, f, thr, listening, handle, left, owed>>

\* The 221 reply, then client_close: it stops the data thread first of all.
Bye ==
  /\ At("Bye")
  /\ cmd' = "END"
  /\ Goto("CloseThreads")
  /\ UNCHANGED <<record, f, thr, listening, handle, left, owed>>

\* The rest of client_close: the client record is freed.
FreeClient ==
  /\ At("Resume") /\ cmd = "END"
  /\ Goto("Gone")
  /\ UNCHANGED <<record, cmd, f, thr, listening, handle, left, owed>>

CtlStep ==
  \/ Dispatch \/ User \/ Pass \/ Rest \/ Check
  \/ OpenFile \/ OpenFails \/ SignalFile
  \/ StopThread \/ JoinThread \/ JoinNoThread
  \/ Aborted \/ PortBadAddress \/ PortCreateThread \/ SetPort
  \/ PasvNoSocket \/ PasvCreateThread \/ QuitLoop \/ Bye \/ FreeClient

-----------------------------------------------------------------------------
(***************************************************************************)
(* The data thread.  Each step changes thr; most change nothing else.      *)
(***************************************************************************)
ctl == <<cpc, cmd, f>>
ThrAt(step) == thr.pc = step
ThrGoto(step) == thr' = [thr EXCEPT !.pc = step]

\* Where the thread goes for its file, and without the wait.
AwaitSkipped == "Woken"
Await == "Waiting"

\* st where connect() fails, and where the failure is reported twice.
ConnectFailedTwice == "ioerror"
ConnectFailed == "none"

\* What cleanup leaves in dat_fp and in state, and a missing reset of each.
FpAfterKept == dat_fp
FpAfter == NULL
StateAfterKept == state
StateAfter == "READY"

\* What cleanup closes, and a cleanup that leaves pipes to the far end.
ClosesFilesOnly(h) == h = thr.fp /\ thr.type # "SEND_PIPE"
Closes(h) == h = thr.fp

\* active_data: into pthread_cond_wait, which releases mutex_dat; a wakeup
\* that nobody asked for; and back out of it with the file of the moment.
CondWait ==
  /\ ThrAt("Start")
  /\ ThrGoto(Await)
  /\ UNCHANGED <<record, ctl, listening, handle, left, owed>>

SpuriousWakeup ==
  /\ ThrAt("Waiting") /\ "spurious" \in Faults
  /\ ThrGoto("Woken")
  /\ UNCHANGED <<record, ctl, listening, handle, left, owed>>

TakeFile ==
  /\ ThrAt("Woken")
  /\ thr' = [thr EXCEPT !.pc = "Connect", !.fp = dat_fp, !.type = dat_type]
  /\ UNCHANGED <<record, ctl, listening, handle, left, owed>>

\* socket() and connect(), which has no timeout of its own; 425 if they fail.
Connect ==
  /\ ThrAt("Connect")
  /\ \/ thr' = [thr EXCEPT !.pc = "Loop", !.conn = TRUE] /\ UNCHANGED owed
     \/ /\ thr' = [thr EXCEPT !.pc = "CloseFile", !.st = ConnectFailed]
        /\ owed' = FALSE
  /\ UNCHANGED <<record, ctl, listening, handle, left>>

\* The head of either loop: has client_close_threads asked the thread to stop?
CheckRunning ==
  /\ ThrAt("Loop")
  /\ ThrGoto(IF ~thr_dat_running THEN "CloseFile"
             ELSE IF thr.mode = "active" THEN "Block"
             ELSE IF thr.conn THEN "Conn" ELSE "Accept")
  /\ UNCHANGED <<record, ctl, listening, handle, left, owed>>

\* passive_data: accept() on the non-blocking socket finds nobody, or fails.
AcceptNone ==
  /\ ThrAt("Accept")
  /\ \/ ThrGoto("Loop")
     \/ "accept" \in Faults /\ ThrGoto("Crashed")   \* panic()
  /\ UNCHANGED <<record, ctl, listening, handle, left, owed>>

AcceptConnection ==
  /\ ThrAt("Accept")
  /\ thr' = [thr EXCEPT !.pc = "Conn", !.conn = TRUE]
  /\ UNCHANGED <<record, ctl, listening, handle, left, owed>>

\* Connected: look for a file, unless there is one already.
LookForFile ==
  /\ ThrAt("Conn")
  /\ LET got == IF thr.fp = NULL
                THEN [thr EXCEPT !.fp = dat_fp, !.type = dat_type] ELSE thr
     IN  thr' = [got EXCEPT !.pc = IF got.fp = NULL THEN "Poll" ELSE "Block"]
  /\ UNCHANGED <<record, ctl, listening, handle, left, owed>>

\* No file yet: has the far end hung up?
Poll ==
  /\ ThrAt("Poll")
  /\ \E stays \in BOOLEAN : thr' = [thr EXCEPT !.pc = "Loop", !.conn = stays]
  /\ UNCHANGED <<record, ctl, listening, handle, left, owed>>

\* process_block.  Reading from a non-blocking connection may find nothing yet.
ReadWouldBlock ==
  /\ ThrAt("Block") /\ thr.type = "RECV_FILE" /\ thr.fp # NULL
  /\ thr.mode = "active" \/ NonblockingAccept
  /\ ThrGoto("Loop")
  /\ UNCHANGED <<record, ctl, listening, handle, left, owed>>

\* One block moved; the end of what there is to move, where for RECV_FILE an
\* end or a read error may come early; or an error of the file.
MoveBlock ==
  /\ ThrAt("Block") /\ thr.fp # NULL
  /\ \/ left > 0 /\ left' = left - 1 /\ ThrGoto("Loop")
     \/ /\ left = 0 \/ thr.type = "RECV_FILE"
        /\ thr' = [thr EXCEPT !.pc = "CloseFile", !.st = "complete"]
        /\ UNCHANGED left
     \/ /\ thr' = [thr EXCEPT !.pc = "CloseFile", !.st = "ioerror"]
        /\ UNCHANGED left
  /\ UNCHANGED <<record, ctl, listening, handle, owed>>

\* process_block with no file: fread, fwrite and ferror of a null pointer bring
\* the process down, but where there is nothing to receive (any type but the
\* two that send) the transfer is complete before the file is looked at.
NullFile ==
  /\ ThrAt("Block") /\ thr.fp = NULL
  /\ \/ ThrGoto("Crashed")
     \/ /\ thr.type \notin {"SEND_FILE", "SEND_PIPE"}
        /\ thr' = [thr EXCEPT !.pc = "CloseFile", !.st = "complete"]
  /\ UNCHANGED <<record, ctl, listening, handle, left, owed>>

\* cleanup: close the sockets and the file, ...
CloseFile ==
  /\ ThrAt("CloseFile")
  /\ thr' = [thr EXCEPT !.pc = "ClearFp", !.conn = FALSE]
  /\ listening' = (listening /\ thr.mode = "active")
  /\ handle' = [h \in Handles |-> IF Closes(h) THEN "CLOSED" ELSE handle[h]]
  /\ UNCHANGED <<record, ctl, left, owed>>

\* ... then dat_fp = NULL, in a crit block, ...
ClearFp ==
  /\ ThrAt("ClearFp")
  /\ dat_fp' = FpAfter
  /\ ThrGoto("SetReady")
  /\ UNCHANGED <<state, username, rest_offs, thr_dat_running, dat_type, ctl,
                 listening, handle, left, owed>>

\* ... then state, outside it, ...
SetReady ==
  /\ ThrAt("SetReady")
  /\ state' = StateAfter
  /\ ThrGoto("Report")
  /\ UNCHANGED <<username, rest_offs, thr_dat_running, dat_fp, dat_type, ctl,
                 listening, handle, left, owed>>

\* ... then the 226 or 451 reply, unless the thread was told to stop.
Report ==
  /\ ThrAt("Report")
  /\ owed' = (owed /\ thr.st = "none")
  /\ ThrGoto("Exited")
  /\ UNCHANGED <<record, ctl, listening, handle, left>>

\* The steps the thread takes by itself, and those it needs the far end for.
ThrStep ==
  \/ CondWait \/ TakeFile \/ Connect \/ CheckRunning
  \/ AcceptNone \/ LookForFile \/ Poll \/ ReadWouldBlock \/ NullFile
  \/ CloseFile \/ ClearFp \/ SetReady \/ Report
PeerStep == AcceptConnection \/ MoveBlock

\* A session that is over stays over.
Over == (cpc = "Gone" \/ ~Alive) /\ UNCHANGED vars

Next ==
  \/ \E c \in Commands : Receive(c)
  \/ CtlStep
  \/ ThrStep
  \/ PeerStep
  \/ SpuriousWakeup
  \/ Over

Spec == Init /\ [][Next]_vars

\* Both threads are scheduled.  Nothing obliges the far end to send a command.
ThreadFairness == WF_vars(CtlStep) /\ WF_vars(ThrStep)

\* A far end that connects stays in the backlog until an accept finds it, and
\* one that sends or reads ends some wait in read or write_all.
FairSpec ==
  Spec /\ ThreadFairness /\ SF_vars(AcceptConnection) /\ SF_vars(MoveBlock)

-----------------------------------------------------------------------------
(***************************************************************************)
(* Safety                                                                  *)
(***************************************************************************)
\* The data thread holds a file and has not closed it.
Transferring ==
  /\ thr.fp # NULL
  /\ thr.pc \in {"Connect", "Loop", "Accept", "Conn", "Poll", "Block",
                "CloseFile"}

\* A handler that begins with ignore_if_xfer() has passed it and is not done.
PastGate ==
  \/ cpc \in {"Check", "Open", "Signal", "SetPort"}
  \/ cpc \in {"CloseThreads", "Join", "Resume"} /\ cmd \in Modes

\* The data thread can still look at dat_fp, or has and is to clear it.
AtWork == thr.pc \notin {"None", "SetReady", "Report", "Exited", "Crashed"}

\* The file the data thread reads, writes and closes is open, and open for
\* what the thread takes it for: it is never closed twice, used after it is
\* closed, or a pipe closed with fclose().  dat_fp and dat_type are written
\* by one thread and copied by another (signal_file, client_xfer_thr.h:97, 177).
TransferUsesItsFile == Transferring => handle[thr.fp] = thr.type

\* ignore_if_xfer() looks at dat_fp once, outside any lock that lasts; still no
\* handler it lets through runs beside a transfer, to the handler's end.
GateExcludesTransfer == PastGate => dat_fp = NULL /\ ~Transferring

\* A client in PORT or PASV state between commands has a data thread of that
\* mode to serve the next transfer.  state is written by both threads, unlocked.
ModeHasThread ==
  At("Idle") /\ state \in {"PORT", "PASV"} =>
    /\ thr.mode = IF state = "PORT" THEN "active" ELSE "passive"
    /\ thr.pc \notin {"Report", "Exited"}

\* A new data thread is started, and the client record freed, only when the
\* old thread is joined: never do two share the record or one outlive it.
JoinedBeforeReuse == cpc \in {"Resume", "Gone"} => thr.pc \in {"None", "Crashed"}

\* Active mode dials with a file in hand (client_xfer_thr.h:94, "Wait for the
\* file") and an address that PORT has finished writing (client_cmds.c:157-159).
ConnectsForATransfer == thr.pc = "Connect" => thr.fp # NULL /\ cpc # "SetPort"

\* 226 and 451 of the data thread answer a 150 that has had no answer, so a 425
\* or the 226 of ABOR is not followed by another completion reply.
CompletionFollowsAcceptance == thr.pc = "Report" /\ thr.st # "none" => owed

\* Only PASS after USER logs in, although the data thread's cleanup and
\* client_close_threads set state to READY without looking at it.
OnlyPassLogsIn ==
  [][/\ state \in {"CONN", "WAIT_PASS"}
     /\ state' \notin {"CONN", "WAIT_PASS"}
     => state = "WAIT_PASS" /\ cmd = "PASS"]_vars

\* A transfer that has been accepted has a data thread at work on it.  (So long
\* as the far end awaits completion replies, in passive mode.)
TransferHasWorker == dat_fp # NULL => AtWork

\* "226 Transfer aborted." (client_cmds.c:440-442) is true: when ABOR has stopped
\* the data thread no transfer is in progress, and what comes next is not
\* answered 503.
AbortEndsTransfer == At("Resume") /\ cmd = "ABOR" => dat_fp = NULL

\* The FILE is on its way to a data thread that has yet to look at dat_fp or to
\* clear it, or with that thread until it is closed.
Accounted(h) ==
  h = f \/ (h = dat_fp /\ AtWork) \/ (h = thr.fp /\ Transferring)

\* The data thread of PASV is stopped before it has taken the FILE, and clears
\* dat_fp without closing it.
LeftUntaken == ClearFp /\ thr.mode = "passive" /\ thr.fp = NULL

\* The handler has come through data() between dat_fp = NULL and state = READY of
\* cleanup: no thread will look at this dat_fp, and client_close frees the record
\* with the FILE still in it.
HandedTooLate == SignalFile /\ thr.pc \in {"SetReady", "Report", "Exited"}

\* No FILE that is open is lost ("no memory leaks or file descriptor leaks",
\* report.md:51-52), whatever the interleaving and as long as the process runs, but
\* in two places, where no data thread ever takes it.
OnlyUntakenFilesLost ==
  [][\A h \in Handles :
       handle[h] # "CLOSED" /\ handle'[h] # "CLOSED" /\ Accounted(h) /\ Alive' =>
         Accounted(h)' \/ LeftUntaken \/ HandedTooLate]_vars

-----------------------------------------------------------------------------
(***************************************************************************)
(* Liveness                                                                *)
(***************************************************************************)
\* "handles commands sent to the control connection at any time, be it abort
\* (ABOR), quit (QUIT), ..." (report.md:67-69): the handler of every command
\* comes back to reading commands, and a session that is to end does.
CommandsHandled == cpc # "Idle" ~> cpc \in {"Idle", "Gone"}

\* Every transfer accepted comes to an end, and 503 replies with it.
TransferEnds == dat_fp # NULL ~> dat_fp = NULL \/ cpc = "Gone"

=============================================================================
