------------------------------- MODULE Client -------------------------------
(***************************************************************************)
(* The graphical client (client/main.c on client/xfer.c).  An event loop   *)
(* runs one callback or one click at a time; connecting, reading a reply   *)
(* and moving data are threads, each of which ends by queueing a callback  *)
(* (uiQueueMain).  An operation is a chain of them: send a command, have a *)
(* thread read a mark, go on in the callback.  loading() disables the      *)
(* window when the chain begins, done() enables it when it ends, and what  *)
(* the chain works with (data_next, retr_name, rename_from, ...) is static.*)
(*                                                                         *)
(* A reader takes the next mark, whatever command it answers.  Two readers *)
(* at once race on x.b without a lock: either takes it, or it comes out    *)
(* garbled, or it is lost.                                                 *)
(*                                                                         *)
(* The server at the other end is what Session makes visible of one.       *)
(***************************************************************************)
EXTENDS Naturals, Sequences, FiniteSets

CONSTANTS
  Dirs, Root, \* the server's directories, and the one a session begins in
  Empty,      \* a table without rows
  Unknown,    \* what is no listing
  MaxAhead    \* bound: readers and marks left over when the user acts

ASSUME ClientAssumption ==
  /\ Root \in Dirs
  /\ Empty \notin Dirs /\ Unknown \notin Dirs
  /\ MaxAhead \in Nat \ {0}

VARIABLES
  busy,       \* loading() has been called, and done() has not
  connected,
  x,          \* the control connection
  y,          \* the data connection: the thread that works on it
  job,        \* data_fd, data_inter and data_next: what do_data is for
  readers,    \* the threads in read_mark_thr
  queue,      \* callbacks queued to the event loop
  cmds,       \* commands given to a writer and not handled yet
  marks,      \* marks sent and not read yet
  srv,        \* the server's transfer
  link,       \* the data connection: down, up, closed by the server or by us
  wd,         \* the working directory at the server
  listed,     \* the directory whose listing the server has sent
  shown,      \* the directory whose listing the table shows
  unlisted,   \* history: the listing begun last has failed
  calm        \* does nothing untoward happen?  See the end of Init.

vars == <<busy, connected, x, y, job, readers, queue, cmds, marks, srv, link, wd,
          listed, shown, unlisted, calm>>

Transfers == {"LIST", "RETR", "STOR"}

\* The mark cwd_1 takes for success; and the general one.
CwdDone200 == 200
CwdDone == 250

\* The callbacks that send a command if they are given the mark they expect:
\* the mark, the command, and who is to have the reply.
List == <<"PWD", "list_1">>
Expects ==
  [auth_1 |-> 220, auth_2 |-> 331, auth_3 |-> 230, sys_1 |-> 200, sys_2 |-> 215,
   cwd_1 |-> CwdDone, rename_1 |-> 250, rename_2 |-> 250, mkd_1 |-> 250,
   rm_1 |-> 250, stor_3 |-> 226]
Then ==
  [auth_1 |-> <<"USER", "auth_2">>, auth_2 |-> <<"PASS", "auth_3">>,
   auth_3 |-> <<"TYPE", "sys_1">>, sys_1 |-> <<"SYST", "sys_2">>, sys_2 |-> List,
   cwd_1 |-> List, rename_1 |-> <<"RNTO", "rename_2">>, rename_2 |-> List,
   mkd_1 |-> List, rm_1 |-> List, stor_3 |-> List]

\* What the table and the button ask for; RMD stands for DELE as well.
Asks == [CWD |-> "cwd_1", RNFR |-> "rename_1", MKD |-> "mkd_1", RMD |-> "rm_1",
         QUIT |-> "disconn_1"]

\* The callbacks that call done() for a mark that is not the one expected; and
\* with one forgotten.
GivesUpButCwd == DOMAIN Expects \ {"stor_3", "cwd_1"}
GivesUp == DOMAIN Expects \ {"stor_3"}

\* next of xfer_read_mark for the 150; and with a callback that would go on.
AcceptanceTo(cmd) == IF cmd = "STOR" THEN "stor_3" ELSE "NULL"
AcceptanceNext(cmd) == "NULL"

\* The readers list_3 and retr_2 start for the 226; and with that left out.
NoReader == <<>>
CompletionReader == <<[next |-> "NULL", to |-> "completion"]>>

NoTransfer == [st |-> "none", mode |-> "PASV", cmd |-> "LIST"]

Init ==
  /\ busy = FALSE
  /\ connected = FALSE
  /\ x = "none"
  /\ y = "none"
  /\ job = "LIST"
  /\ readers = <<>>
  /\ queue = <<>>
  /\ cmds = <<>>
  /\ marks = <<>>
  /\ srv = NoTransfer
  /\ link = "down"
  /\ wd = Root /\ listed = Unknown /\ shown = Empty /\ unlisted = FALSE
  \* TRUE: every reply is read before the user acts and before data has all
  \* moved, transfers are neither refused nor fail, the thread of PORT waits to
  \* be signalled before it is, and its connection comes after listen().
  /\ calm \in BOOLEAN

server == <<srv, link, wd, listed>>
window == <<shown, unlisted>>

-----------------------------------------------------------------------------
(***************************************************************************)
(* What the handlers have in common                                        *)
(***************************************************************************)
\* xfer_write and xfer_read_mark.
Send(cmd, next) ==
  /\ cmds' = Append(cmds, cmd)
  /\ readers' = Append(readers, [next |-> next, to |-> cmd])

\* A thread queues its callback.
Queued(fn, code) == Append(queue, [fn |-> fn, code |-> code])

\* A reader does, unless it was given none to queue; and without that test.
CallsAnyway(next, code) == Queued(next, code)
CallsBack(next, code) == IF next = "NULL" THEN queue ELSE Queued(next, code)

\* do_data: PASV or PORT, or a port to listen on is not to be had.
DoData(cmd) ==
  /\ job' = cmd
  /\ \/ Send("PASV", "data_pasv_1") /\ busy' = TRUE
     \/ Send("PORT", "data_port_1") /\ busy' = TRUE
     \/ busy' = FALSE /\ UNCHANGED <<cmds, readers>>

\* xfer_deinit(&y)
CloseData ==
  /\ y' = "none"
  /\ link' = IF link = "up" THEN "shut" ELSE "down"

-----------------------------------------------------------------------------
(***************************************************************************)
(* The user, who can act while the window is enabled, and on the rows of   *)
(* the table, of which the last is for uploads and new directories         *)
(***************************************************************************)
MayAct ==
  /\ ~busy
  /\ Len(readers) + Len(marks) + Len(cmds) < MaxAhead
  /\ calm => readers = <<>>

\* btnConnClick, disconnected.
ClickConnect ==
  /\ MayAct /\ ~connected
  /\ busy' = TRUE
  /\ x' = "connecting"
  /\ UNCHANGED <<connected, y, job, readers, queue, cmds, marks, server, window,
                 calm>>

\* do_cwd, do_rename, do_mkd, do_rm; and btnConnClick, connected.
Ask(cmd) ==
  /\ MayAct /\ connected
  /\ shown = Empty => cmd = "QUIT"
  /\ busy' = TRUE
  /\ Send(cmd, Asks[cmd])
  /\ UNCHANGED <<connected, x, y, job, queue, marks, server, window, calm>>

\* do_retr and do_stor, the local file being there.
AskTransfer(cmd) ==
  /\ MayAct /\ connected /\ shown # Empty
  /\ DoData(cmd)
  /\ UNCHANGED <<connected, x, y, queue, marks, server, window, calm>>

User ==
  \/ ClickConnect
  \/ \E cmd \in DOMAIN Asks : Ask(cmd)
  \/ \E cmd \in {"RETR", "STOR"} : AskTransfer(cmd)

-----------------------------------------------------------------------------
(***************************************************************************)
(* The callbacks.  Loop takes the first of the queue; code is the mark, or *)
(* 0 where the callback is told that something has worked.                 *)
(***************************************************************************)
\* The handlers of a mark that send a command or give up.
GoOn(fn, code) ==
  /\ fn \in DOMAIN Expects
  /\ IF code = Expects[fn]
     THEN Send(Then[fn][1], Then[fn][2]) /\ busy' = TRUE
     ELSE /\ busy' = (busy /\ fn \notin GivesUp)
          /\ UNCHANGED <<cmds, readers>>
  /\ connected' = (connected \/ (fn = "auth_3" /\ code = 230))
  /\ UNCHANGED <<x, y, job, marks, server, shown>>

ConnectionSetup(fn, code) ==
  /\ fn = "connection_setup"
  /\ IF code = 0
     THEN /\ readers' = Append(readers, [next |-> "auth_1", to |-> "welcome"])
          /\ UNCHANGED busy
     ELSE busy' = FALSE /\ UNCHANGED readers
  /\ UNCHANGED <<connected, x, y, job, cmds, marks, server, shown>>

\* list_1: on to do_data(0, list_2, list_3).
List1(fn, code) ==
  /\ fn = "list_1"
  /\ IF code = 257 THEN DoData("LIST")
     ELSE busy' = FALSE /\ UNCHANGED <<job, cmds, readers>>
  /\ UNCHANGED <<connected, x, y, marks, server, shown>>

\* data_pasv_1 and data_port_1: connect, or listen, in a thread, and send the
\* command (data_inter), whose 150 nobody waits for.
Data1(fn, code) ==
  /\ fn \in {"data_pasv_1", "data_port_1"}
  /\ IF code = (IF fn = "data_pasv_1" THEN 227 ELSE 200)
     THEN /\ Send(job, AcceptanceNext(job))
          /\ \/ /\ y' = IF fn = "data_pasv_1" THEN "connecting" ELSE "binding"
                /\ UNCHANGED busy
             \/ busy' = FALSE /\ UNCHANGED y   \* no socket or thread: data_2(-1)
     ELSE busy' = FALSE /\ UNCHANGED <<y, cmds, readers>>
  /\ UNCHANGED <<connected, x, job, marks, server, shown>>

Data2(fn, code) ==
  /\ fn = "data_2"
  /\ IF code = 0
     THEN /\ y' = CASE job = "LIST" -> "gathering"
                    [] job = "RETR" -> "receiving"
                    [] job = "STOR" -> "sending"
          /\ UNCHANGED busy
     ELSE busy' = FALSE /\ y' = "none"
  /\ UNCHANGED <<connected, x, job, readers, cmds, marks, server, shown>>

\* list_3; and data_3 with (size_t)-1, which calls retr_2 or stor_2.
Finish(fn) ==
  /\ \/ fn = "list_3"
     \/ fn = "data_3" /\ job = "RETR"
  /\ CloseData
  /\ busy' = FALSE
  /\ readers' = readers \o CompletionReader
  /\ shown' = IF fn = "list_3" THEN listed ELSE shown   \* file_list_reset
  /\ UNCHANGED <<connected, x, job, cmds, marks, srv, wd, listed>>

FinishStor(fn) ==
  /\ fn = "data_3" /\ job = "STOR"
  /\ CloseData
  /\ readers' = Append(readers, [next |-> "stor_3", to |-> "completion"])
  /\ UNCHANGED <<busy, connected, x, job, cmds, marks, srv, wd, listed, shown>>

\* disconn_1, whatever the mark: the socket is closed and the table cleared.
Disconnect(fn) ==
  /\ fn = "disconn_1"
  /\ x' = "none"
  /\ busy' = FALSE
  /\ connected' = FALSE
  /\ cmds' = <<>> /\ marks' = <<>> /\ srv' = NoTransfer /\ link' = "down"
  /\ listed' = Unknown
  /\ shown' = Empty
  /\ UNCHANGED <<y, job, readers, wd>>

\* What is the beginning of a listing, to where it can fail.
Listing(fn) ==
  fn = "list_1" \/ (job = "LIST" /\ fn \in {"data_pasv_1", "data_port_1", "data_2"})

Loop ==
  /\ queue # <<>>
  /\ queue' = Tail(queue)
  /\ LET fn == Head(queue).fn
         code == Head(queue).code
     IN  \/ GoOn(fn, code) \/ ConnectionSetup(fn, code) \/ List1(fn, code)
         \/ Data1(fn, code) \/ Data2(fn, code)
         \/ Finish(fn) \/ FinishStor(fn) \/ Disconnect(fn)
  /\ unlisted' = IF Head(queue).fn \in {"list_3", "disconn_1"} THEN FALSE
                 ELSE unlisted \/ (Listing(Head(queue).fn) /\ ~busy')
  /\ UNCHANGED calm

-----------------------------------------------------------------------------
(***************************************************************************)
(* The threads                                                             *)
(***************************************************************************)
\* conn_thr for x.  The server welcomes us.
Connect ==
  /\ x = "connecting"
  /\ \/ /\ x' = "open"
        /\ queue' = Queued("connection_setup", 0)
        /\ marks' = <<[code |-> 220, of |-> "welcome"]>>
        /\ cmds' = <<>> /\ srv' = NoTransfer /\ link' = "down"
        /\ wd' = Root /\ listed' = Unknown
     \/ /\ x' = "none"
        /\ queue' = Queued("connection_setup", 1)
        /\ UNCHANGED <<marks, cmds, server>>
  /\ UNCHANGED <<busy, connected, y, job, readers, window, calm>>

\* conn_thr for y: connects to the port of PASV, or listens on that of PORT.
ConnectData ==
  /\ \/ /\ y = "connecting"
        /\ srv.mode = "PASV" /\ srv.st \in {"ready", "accepted"} /\ link = "down"
        /\ y' = "open" /\ link' = "up"
        /\ queue' = Queued("data_2", 0)
     \/ y = "binding" /\ y' = "listening" /\ UNCHANGED <<queue, link>>
     \/ /\ y \in {"connecting", "binding"}
        /\ y' = "open"
        /\ queue' = Queued("data_2", 1)
        /\ UNCHANGED link
  /\ UNCHANGED <<busy, connected, x, job, readers, cmds, marks, srv, wd, listed,
                 window, calm>>

Without(s, i) == SubSeq(s, 1, i - 1) \o SubSeq(s, i + 1, Len(s))

\* read_mark_thr has read a mark; 0 stands for one that comes out garbled.
ReadMark(i) ==
  /\ marks # <<>>
  /\ marks' = Tail(marks)
  /\ readers' = Without(readers, i)
  /\ \E code \in {Head(marks).code} \cup (IF Len(readers) > 1 THEN {0} ELSE {}) :
       queue' = CallsBack(readers[i].next, code)
  /\ UNCHANGED <<busy, connected, x, y, job, cmds, server, window, calm>>

\* Two readers have had a part of it each.
LoseMark ==
  /\ marks # <<>> /\ Len(readers) > 1
  /\ marks' = Tail(marks)
  /\ UNCHANGED <<busy, connected, x, y, job, readers, queue, cmds, server, window,
                 calm>>

\* read_all_thr and read_all_to_thr come to the end of the data, or cannot write
\* the file; write_all_from_thr has written it all.
MoveData ==
  /\ calm => readers = <<>>
  /\ \/ y = "gathering" /\ link = "eof" /\ queue' = Queued("list_3", 0)
     \/ y = "receiving" /\ (link = "eof" \/ ~calm) /\ queue' = Queued("data_3", 0)
     \/ y = "sending" /\ queue' = Queued("data_3", 0)
  /\ y' = "open"
  /\ UNCHANGED <<busy, connected, x, job, readers, cmds, marks, server, window, calm>>

Threads ==
  Connect \/ ConnectData \/ (\E i \in 1..Len(readers) : ReadMark(i)) \/ LoseMark
  \/ MoveData

-----------------------------------------------------------------------------
(***************************************************************************)
(* The server (Session): a transfer in progress refuses other commands.    *)
(***************************************************************************)
Accepts == [USER |-> 331, PASS |-> 230, TYPE |-> 200, SYST |-> 215, PWD |-> 257,
            CWD |-> 250, RNFR |-> 250, RNTO |-> 250, MKD |-> 250, RMD |-> 250,
            PASV |-> 227, PORT |-> 200, QUIT |-> 221,
            LIST |-> 150, RETR |-> 150, STOR |-> 150]
Reply(code, of) == marks' = Append(marks, [code |-> code, of |-> of])

\* The thread of PORT is "starting" until it waits to be signalled; a transfer
\* that comes before that is accepted, and "lost" on it.
Accept(cmd) ==
  /\ srv.st \in {"accepted", "lost"} => cmd \in {"SYST", "QUIT"}
  /\ srv.st = "drained" => cmd \notin {"PASV", "PORT", "QUIT"}  \* which join
  /\ cmd \in Transfers => srv.st = "ready" \/ (srv.st = "starting" /\ ~calm)
  /\ Reply(Accepts[cmd], cmd)
  /\ srv' = CASE cmd = "PASV" -> [srv EXCEPT !.st = "ready", !.mode = cmd]
              [] cmd = "PORT" -> [srv EXCEPT !.st = "starting", !.mode = cmd]
              [] cmd \in Transfers ->
                   [srv EXCEPT !.st = IF srv.st = "starting" THEN "lost"
                                      ELSE "accepted", !.cmd = cmd]
              [] cmd = "QUIT" -> NoTransfer
              [] OTHER -> srv
  /\ link' = IF cmd \in {"PASV", "PORT", "QUIT"} THEN "down" ELSE link
  /\ IF cmd = "CWD" THEN wd' \in Dirs ELSE UNCHANGED wd
  /\ listed' = CASE cmd = "LIST" -> wd
                 [] cmd \in {"RETR", "STOR"} -> Unknown
                 [] OTHER -> listed

\* 503, 550 and others, which mean the same to the client; 503 until cleanup has
\* cleared dat_fp.
Refuse(cmd) ==
  /\ cmd \notin {"SYST", "QUIT"}
  /\ calm /\ cmd \in Transfers => srv.st \notin {"starting", "ready"}
  /\ Reply(550, cmd)
  /\ UNCHANGED server

\* What joins the data thread of PORT joins it for ever while it sleeps.
Sleeping == srv.mode = "PORT" /\ srv.st \in {"starting", "ready"}
Hangs(cmd) ==
  \/ cmd \in {"PASV", "PORT", "QUIT"} /\ Sleeping
  \/ cmd = "QUIT" /\ srv.st = "lost"

\* Each command is written by a thread of its own (write_thr), which a later one
\* may overtake.
Serve(i) ==
  /\ srv.st # "hung"
  /\ cmds' = Without(cmds, i)
  /\ IF Hangs(cmds[i])
     THEN srv' = [srv EXCEPT !.st = "hung"] /\ UNCHANGED <<marks, link, wd, listed>>
     ELSE Accept(cmds[i]) \/ Refuse(cmds[i])
  /\ UNCHANGED <<busy, connected, x, y, job, readers, queue, window, calm>>

\* active_data has come to pthread_cond_wait.
CondWait ==
  /\ srv.st = "starting"
  /\ srv' = [srv EXCEPT !.st = "ready"]
  /\ UNCHANGED <<busy, connected, x, y, job, readers, queue, cmds, marks, link, wd,
                 listed, window, calm>>

\* active_data, signalled, connects; if nobody listens yet, or any more: 425.
ConnectBack ==
  /\ srv.st = "accepted" /\ srv.mode = "PORT" /\ link = "down"
  /\ \/ /\ y = "listening"
        /\ y' = "open" /\ link' = "up"
        /\ queue' = Queued("data_2", 0)
        /\ UNCHANGED <<marks, srv>>
     \/ /\ y # "listening" /\ ~calm
        /\ Reply(425, "completion")
        /\ srv' = NoTransfer
        /\ UNCHANGED <<y, queue, link>>
  /\ UNCHANGED <<busy, connected, x, job, readers, cmds, wd, listed, window, calm>>

\* The data thread sends the last of the data and closes the connection, or finds
\* that we have: what is stored is complete, what is sent is given up.
Drain ==
  /\ srv.st = "accepted"
  /\ \/ srv.cmd # "STOR" /\ link = "up" /\ link' = "eof"
     \/ link = "shut" /\ link' = "down"
  /\ srv' = [srv EXCEPT !.st = "drained"]
  /\ UNCHANGED <<busy, connected, x, y, job, readers, queue, cmds, marks, wd,
                 listed, window, calm>>

\* cleanup: 226, or 451.
Complete ==
  /\ srv.st = "drained"
  /\ srv' = NoTransfer
  /\ \E code \in IF calm THEN {226} ELSE {226, 451} : Reply(code, "completion")
  /\ UNCHANGED <<busy, connected, x, y, job, readers, queue, cmds, link, wd,
                 listed, window, calm>>

\* The data thread of PASV has no file and sees that we have hung up.
Forget ==
  /\ srv.st = "ready" /\ link = "shut"
  /\ link' = "down"
  /\ UNCHANGED <<busy, connected, x, y, job, readers, queue, cmds, marks, srv, wd,
                 listed, window, calm>>

Server ==
  (\E i \in 1..Len(cmds) : Serve(i)) \/ CondWait \/ ConnectBack \/ Drain \/ Complete
  \/ Forget

Next == User \/ Loop \/ Threads \/ Server

Spec == Init /\ [][Next]_vars

\* The event loop runs, threads are scheduled, the server serves.
FairSpec == Spec /\ WF_vars(Loop) /\ WF_vars(Threads) /\ WF_vars(Server)

-----------------------------------------------------------------------------
Callbacks ==
  DOMAIN Expects \cup {"connection_setup", "list_1", "list_3", "data_pasv_1",
                       "data_port_1", "data_2", "data_3", "disconn_1"}

\* The server replies to commands, to a connection, and at a transfer's end.
Commands == DOMAIN Accepts
Answered == Commands \cup {"welcome", "completion"}
Readers == [next : Callbacks \cup {"NULL"}, to : Answered]

TypeOK ==
  /\ busy \in BOOLEAN /\ connected \in BOOLEAN /\ calm \in BOOLEAN
  /\ x \in {"none", "connecting", "open"}
  /\ y \in {"none", "connecting", "binding", "listening", "open", "gathering",
            "receiving", "sending"}
  /\ job \in Transfers
  /\ readers \in Seq(Readers)
  /\ queue \in Seq([fn : Callbacks, code : Nat])
  /\ cmds \in Seq(Commands)
  /\ marks \in Seq([code : Nat, of : Answered])
  /\ srv \in [st : {"none", "starting", "ready", "accepted", "drained", "lost",
                     "hung"},
              mode : {"PASV", "PORT"}, cmd : Transfers]
  /\ link \in {"down", "up", "eof", "shut"}
  /\ wd \in Dirs /\ listed \in Dirs \cup {Unknown}
  /\ shown \in Dirs \cup {Empty, Unknown} /\ unlisted \in BOOLEAN

\* The readers that were given a callback, and all that will call the event loop
\* back, now or later.
Callers(rs) == {i \in 1..Len(rs) : rs[i].next # "NULL"}
Continuations ==
  Cardinality(Callers(readers)) + Len(queue)
  + (IF x = "connecting" THEN 1 ELSE 0)
  + (IF y \in {"none", "open"} THEN 0 ELSE 1)

\* "Note: the function is not re-entrant" (main.c:84, 436, 489): one chain of
\* callbacks runs at a time, to its end, so that what is static is that chain's;
\* and the window is enabled only when it has ended.
OneContinuation == Continuations <= (IF busy THEN 1 ELSE 0)

\* While nothing untoward happens each reply is read by the reader that was started
\* for it: commands, replies and readers stay in step over any number of operations.
RepliesInStep ==
  [][\A i \in 1..Len(readers) :
       calm /\ ReadMark(i) => readers[i].to = Head(marks).of]_vars

\* "xfer_read_mark(&x, stor_3); // Code 226" (main.c:533): it is not given the 150
\* of its transfer.
UploadReadsCompletion ==
  \A i \in 1..Len(queue) : queue[i].fn = "stor_3" => queue[i].code # 150

\* The names the user acts on are those of the directory the server works in:
\* while nothing untoward happens the table that can be clicked is of the working
\* directory, unless the listing after CWD has failed (main.c:217, 224, 177: done()
\* leaves the table of the directory before).
TableShowsWd ==
  calm /\ connected /\ ~busy /\ ~unlisted => shown \in {wd, Empty}

\* While nothing untoward happens every operation comes to its end, whatever else
\* the server refuses, and leaves the window enabled.
OperationsEnd == calm /\ busy ~> ~busy

=============================================================================
