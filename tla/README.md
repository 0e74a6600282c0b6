# A verification development for zzFTP

zzFTP is an FTP server (`src/server`) and a graphical FTP client (`src/client`), both in C. This directory
holds TLA+ modules translated from its source, TLC configurations that model-check them on small instances,
and theorems about them that TLAPS checks for every value of the constants. `PROJECT.json` lists the runs, the
lines of source each definition stands for, the mutations each property is known to catch, and the hazards.

Contents: [the system](#the-system) · [the modules](#the-modules) · [the runs](#the-runs) ·
[fairness](#fairness) · [what is proved](#what-is-proved) · [what the code does that its documents do not
say](#what-the-code-does-that-its-documents-do-not-say) · [what is not modelled](#what-is-not-modelled) ·
[plan](#plan) · [running it](#running-it)

## The system

### The server

`main` accepts control connections for ever and gives each a detached thread (`serve_client`), which is a
*session*. Sessions share the process (a `panic` in one ends all), its table of descriptors, the directory tree,
and nothing else.

| component | state | operations | interacts with |
|---|---|---|---|
| accept loop (`main.c`) | the listening socket | `accept`, `pthread_create`, `panic` | starts sessions; takes descriptors from the table they take theirs from |
| session control thread (`client.c`, `client_cmds.c`) | the client record: `state`, `username`, `wd`, `rnfr`, `rest_offs`, `thr_dat_running`, `dat_fp`, `dat_type`, `addr`, `pasv_sock_fd` | `client_create`, `client_run_loop` with one handler per verb, `client_close_threads`, `client_close` | starts, signals, stops and joins the data thread |
| data thread (`client_xfer_thr.h`) | locals `conn_fd`, `fp`, `dat_type`, `st` | `active_data` (PORT), `passive_data` (PASV), `process_block`, `cleanup` | reads and clears the shared record, replies 226/425/451 itself |
| reply channel (`mark` in `client.h`, `send_mark`, `write_all`) | the socket, `mutex_ctl` | send a reply in three pieces | both threads write to one socket |
| transfer contents (`process_block`, `handler_REST`, `handler_RETR`, `handler_STOR`) | `rest_offs`, the file and its position, stdio's buffer, the data connection | where a transfer begins, what each block moves, what is reported of it | the far end's copy, and its idea of how far it has come |
| line reader (`rlb_*` in `io_utils.c`) | `buf`, `head`, `tail`, `no_more` | `rlb_read_line`, `rlb_get_char` | `read()`; the client uses it as well |
| path resolution (`path_utils.c`) | `wd` and the buffer being built | `path_cat`, `path_exists`; `path_change` has no caller | every command with a path |
| file commands (`client_cmds.c`) | `wd`, `rnfr`, the tree | CWD, PWD, MKD, RMD, RNFR, RNTO, DELE, STOR's file | other sessions, through the tree |
| socket allocation (`sock_ephemeral`, `ephemeral`) | none | find a free port | PASV |
| credentials (`auth.h`) | none | two string comparisons | PASS |

What is hard, component by component, and what makes it correct:

* **Control and data thread.** `mutex_dat` guards `dat_fp`, `dat_type` and `thr_dat_running` one access at a
  time, never a decision and the action that follows it; `state` is written by both threads with no lock.
  A correct session never runs two transfers at once, never uses a FILE that is closed or takes a pipe for a
  file, never has two data threads on one record, never frees the record under a running thread, answers each
  accepted transfer once, loses no FILE, ends every transfer, and handles every command.
* **Contents.** A transfer that breaks off is resumed by REST at what has arrived; offset, truncation, blocks
  and buffers must meet so that the copy is always a beginning of the file. Errors of `write_all`, `read` and
  `fclose` go unreported.
* **Descriptors.** A number that is closed is soon another session's; one that is lost stays lost, until the
  table is full and `accept` panics.
* **Replies.** They must reach the far end whole, and the completion of a transfer after its 150, nothing after
  the 221.
* **Lines.** They come in any pieces; CR, the size of the caller's buffer and the end of the connection meet
  at the same places. A correct reader gives out the lines that were sent, once each.
* **Paths.** `path_cat`'s outcome is the next call's `wd`. Its loop relies on properties of `wd` that only its
  own earlier outcomes provide, and the session stays inside the server's root only if no `..` survives.
* **Tree.** A session's `wd` and `rnfr` are names remembered across commands, its own and other sessions'.

### The client

`main.c` is one event loop (libui) that starts threads (`xfer.c`: connect, write, read a reply, send or
receive a file, accept the server's connection) and gets each one's result as a callback queued to the loop;
an operation (login, list, retrieve, store, rename, …) is a chain of such callbacks. `model_filelist.c` is the
table of names on display.

| component | state | operations | interacts with |
|---|---|---|---|
| client operations (`main.c`) | the window enabled or not, `connected`, `passive_mode`, and what the chain in progress works on: `data_fd`, `data_inter`, `data_next`, `retr_name`, `stor_name`, `rename_from`, … (all static) | `btnConnClick`, `do_auth`, `do_sys_setup`, `do_list`, `do_cwd`, `do_rename`, `do_mkd`, `do_rm`, `do_retr`, `do_stor`, `do_data`, and the callbacks of each | starts threads on `x` and `y`, is called back by them |
| connection threads (`xfer.c`) | `fd`, `pasv_fd` and the line reader of each connection | `conn_thr`, `write_thr`, `read_mark_thr`, `read_all_thr`, `read_all_to_thr`, `write_all_from_thr` | `uiQueueMain`, the server |
| file list (`model_filelist.c`) | sorted records | table cells, the name of an upload | user |

Hard: a reader takes the next reply whatever it answers, so readers and replies have to stay in step over a
session; two readers at once on one connection race without a lock; the static variables allow one chain at a
time; a chain that nobody calls back leaves the window disabled for good; PORT mode sends the transfer command
before it listens.

## The modules

| module | models | state ↔ code | actions ↔ code |
|---|---|---|---|
| `Session` | one session: control thread, data thread, the far end's choices | `state … dat_type` are the fields of `client`; `cpc`, `cmd`, `f` are where the control thread is, the verb in hand, the handler's `FILE *`; `thr` is the data thread's place and locals; `handle` is what each FILE is open for; `left` the blocks still to move; `owed` a 150 without its answer | one per stretch of code between two accesses to the shared record; see below |
| `SessionInv` | the inductive invariant of the proofs | | |
| `SessionProofs` | theorems | | |
| `ResumableCopy` | the abstract specification of transfers: the copy is a beginning of the original, and is taken for complete only when it is | | |
| `Transfer` | RETR, STOR and REST over any number of transfers and sessions, with the far end that resumes | `rest_offs`, `file`, `pos`, `pend` (stdio's buffer), `st` are the server's; `wire`, `fin`, `cut` the data connection; `copy`, `asked`, `begun`, `aborted`, `seen` the far end's | a handler each (`Rest`, `Retr`, `RetrRefused`, `Stor`, `StorRefused`); the data thread's blocks (`SendBlock`, `ReceiveBlock`, `ReadWouldBlock`, `ReceiveEnd`, `FreadFails`, `FwriteFails`) and `Close`; `Upload`, `Download`, `Conclude` of the far end; `Reset` |
| `TransferProofs` | theorems | | |
| `Server` | the process: the accept loop and several sessions on one table of descriptors | `open` is the table; `accepted`, `sock_ctl`, `dat_fp`, `sock_fd`, `conn_fd`, `fp` are the variables that hold descriptors, by their names in the code | `Accept`, `Serve` of `main`; what a session's two threads open and close, one action each; `Panic` |
| `ServerProofs` | theorems | | |
| `PathCat` | `path_cat` character by character, and CWD, RMD and RNTO (`handler_CWD`, `mark_dir`) feeding `wd` back | `wd`, `rel`, `buf`, `c` are the function's variables | `Call`, `NextItem` (one round of the loop), `InvalidItem`, `Return`, `ChangeWd` |
| `PathWalk` | the abstract specification: a path is a sequence of names, resolving one walks its items | | |
| `PathCatRefinement` | the refinement mapping from characters to names | | |
| `PathCatProofs` | theorems | | |
| `LineReader` | `rlb_get_char`, `rlb_read_line` | `unread` is in the kernel; `ahead` is `buf[head..tail)`; `line` the caller's buffer | `Refill`, `SkipCR`, `TakeByte`, `TakeNone`, each with what the loop in progress does with the character |
| `LineStream` | the abstract specification: a sequence of lines given out in order | | |
| `LineReaderRefinement` | the lines that the bytes not yet consumed amount to | | |
| `LineReaderProofs` | theorems | | |
| `FileCommands` | the path handlers in several sessions on one tree | `tree`, and per session `wd`, `rnfr`, the path of a DELE under way, a count of allocated path strings | one per handler; DELE is two, `path_exists` and `unlink` |
| `FileCommandsProofs` | theorems | | |
| `ReplyChannel` | `mark`, `send_mark`, `write_all` by two threads | `wire` is the sequence of pieces written; `mutex_ctl` its holder | `Begin`/`Lock`/`Write`/`Sent` per mark, and when each thread begins one |
| `ReplyReader` | `read_mark_thr` of the client on what `ReplyChannel` has written | none: what has been read is a function of `wire` | `AddPiece`, `AddLine` |
| `ReplyChannelProofs` | theorems | | |
| `Client` | the GUI client against a server | `busy` is what `loading()` and `done()` make of the window; `x`, `y` the threads that work on the connections; `readers` those in `read_mark_thr`, each with the callback it is to queue; `queue` is libui's; `job` stands for `data_fd`, `data_inter`, `data_next`; `cmds`, `marks`, `srv`, `link`, `wd`, `listed` are the server's end; `shown` is the directory whose listing the table has, `listed` that of the listing the server has sent | a click each (`ClickConnect`, `Ask`, `AskTransfer`); `Loop` takes a callback (`GoOn` for those that only send the next command, by the tables `Expects` and `Then`, and one action for each other); the threads (`Connect`, `ConnectData`, `ReadMark`, `LoseMark`, `MoveData`); the server, a step for each of its two threads (`Serve`; `CondWait`, `ConnectBack`, `Drain`, `Complete`, `Forget`) |
| `ClientProofs` | theorems | | |
| `MC…` | instances for TLC: sets of model values, the symmetry, small trees | | |

`Session`, `Transfer`, `PathCat`, `FileCommands`, `ReplyChannel` and `LineReader` look at a session from six
sides. They share no variables on purpose: a path command touches nothing of `Session` beyond the gate
(`ignore_if_xfer()`), and a reply is, to `Session`, the step back to reading commands. Where one leans on
another it says so: `FileCommands` takes paths to be sequences of names because `PathCat` refines `PathWalk`;
`ReplyChannel` lets a transfer be accepted only beside a data thread, which is what `Session`'s
`GateExcludesTransfer` and `ModeHasThread` say. `Transfer` makes a handler one step and gives a session one
transfer at a time, by `GateExcludesTransfer` and `TransferUsesItsFile`, for a far end that starts the next when
the server has ended the last. `Server` has several sessions of a coarser kind: each is what it does to
descriptors, for far ends that send anything at any time, so that a transfer may come before the thread of PORT
waits for one, or beside a thread that is leaving; the FILEs that `Session` loses in `OnlyUntakenFilesLost` are
among the descriptors lost here. `ReplyChannel` has the thread of PORT asleep on `cond_dat` too, and the control
thread hanging in the join of it. `ReplyReader` reads what `ReplyChannel` writes. The server in `Client` is what
`Session` lets a client see: a transfer accepted refuses everything but SYST and QUIT, PASV, PORT and QUIT wait
for the data thread, any other command can be handled before the completion is sent, the signal for a transfer
is lost if the thread of PORT is not waiting yet (`lost`), and the join of one that sleeps never returns (`hung`).
Of what point 5 below says, the transfer handed to a leaving thread is left out of it. Spurious wakeups are in
`Session` alone.

`calm` in `Client` is chosen at the start and says of a whole behaviour that nothing untoward happens in it:
the user acts when every reply has been read, data ends after the 150 has been read, transfers neither fail nor
are refused, the thread of PORT waits before it is signalled, and the connection of PORT mode comes when the
client listens. `TypeOK` and `OneContinuation` are claimed of every behaviour, the other three of calm ones: each
of the five conditions is one the code relies on and does not ensure.

Steps of `Session`. A `crit` block is one step, because `mutex_dat` is held for no longer and nothing
in it waits. `pthread_cond_wait` is two (`CondWait`, `TakeFile`): what happens between them is the point.
`cleanup` is four (`CloseFile`, `ClearFp`, `SetReady`, `Report`), because it writes `dat_fp`, then `state`,
then replies, and a command can be handled between any two. A handler is cut where it has decided
(`Dispatch`, `Check`), has opened its file (`OpenFile`), has signalled (`SignalFile`), has told the data
thread to stop (`StopThread`) and has joined it (`JoinThread`). Undefined behaviour is a choice: joining a
thread that `pthread_create` did not create either returns an error or ends the process (`JoinNoThread`), and
`dat_type` is any value at first, since `malloc` clears nothing. Failures of `pthread_create`, of sockets, of
`accept` and spurious wakeups are enabled by the constant `Faults`. `NonblockingAccept` is the difference
between BSD, where `accept()` hands on `O_NONBLOCK`, and Linux, where it does not.

`Lockstep` restricts the far end: TRUE means that it awaits the reply that ends a transfer before it sends
anything but ABOR, SYST, QUIT or hanging up, as FTP clients do. Most properties do not need it.

## The runs

| run | bounds | shows |
|---|---|---|
| `pipelined` | 2 FILEs, files of ≤ 1 block, both modes, commands at any time, calls may fail | the data thread uses its FILE only while it is open and for what it is (`TransferUsesItsFile`); a handler past the gate runs beside no transfer (`GateExcludesTransfer`); PORT/PASV state between commands has its thread (`ModeHasThread`); one data thread at a time, none after `client_close` (`JoinedBeforeReuse`); active mode dials with a file and a whole address (`ConnectsForATransfer`); a 226/451 answers an open 150 (`CompletionFollowsAcceptance`); only PASS logs in (`OnlyPassLogsIn`); no FILE is lost but in two places (`OnlyUntakenFilesLost`) |
| `faults` | the same, and spurious wakeups | `SessionInv`, the inductive invariant: what is left of the safety properties when a thread may go on without a file, and crash, or report what it has not moved |
| `passive` | PASV, far end in lockstep, fair | an accepted transfer has a thread (`TransferHasWorker`); ABOR leaves no transfer (`AbortEndsTransfer`); every command is handled (`CommandsHandled`); every transfer ends (`TransferEnds`); no deadlock |
| `path_cat` | arguments ≤ 5, `wd` ≤ 5 characters, of `a`, `.`, `/` and one no name has | types; `wd` and the buffer stay normal (`PathsNormal`) and within the allocation (`BufferSuffices`); every call is a walk (`ResolvesByWalking`, refinement of `PathWalk`) |
| `line_reader` | ≤ 8 bytes of 3 kinds, reads of ≤ 3, a caller's buffer of 3 | types; no write outside the caller's buffer (`StaysInBuffer`); the lines sent come out in order (`ReadsTheLines`, refinement of `LineStream`); every call returns (`CallReturns`) |
| `file_commands` | 2 sessions, a tree two deep, 1 leak | types, what exists is in a directory, and no string is freed while kept (`FileInv`); a working directory survives its session's own RMD and RNTO, whatever others do between (`OwnWdKept`); path strings are freed exactly once but in one handler (`OnlyInvalidRntoLeaks`) |
| `replies` | ≤ 5 marks, of which the welcome and the reply to TYPE A have two lines, then the end | types, lock holder and what the proofs need besides (`ReplyInv`); marks under the lock are whole (`LockedMarksWhole`); a completion follows its 150 (`CompletionAfterAcceptance`); nothing after the 221 of QUIT (`GoodbyeIsLast`); the client reads each reply that is not torn once, in order, with its text (`RepliesRead`); no command waits for ever but to join a thread of PORT that sleeps (`CommandsAnswered`) |
| `transfer` | a file of 7 bytes, blocks of 3, ≤ 5 things that go wrong | types, and that what has arrived, what stdio holds and what is on the wire are one beginning of the file (`TransferInv`); every run of transfers is a resumable copy (`ResumesFaithfully`, refinement of `ResumableCopy`); the file gets over when nothing goes wrong any more (`CopyCompletes`) |
| `server` | 2 sessions, 6 descriptors | a descriptor has one owner, who closes it, and no data thread outlives the stop of its session (`ServerInv`); nothing leaks but in three places (`OnlyKnownLeaks`) |
| `client` | < 2 readers, replies and commands left over when the user acts; 2 directories | types, no NULL callback called; one chain of callbacks at a time, with the window disabled while there is one (`OneContinuation`), even when replies are lost, garbled or misdirected; in calm behaviours each reply reaches the reader started for it (`RepliesInStep`), every operation ends (`OperationsEnd`), and the table is that of the working directory unless its listing failed (`TableShowsWd`) |
| `port_stop`, `upload` | | each finds the code at odds with `report.md` or a comment; see below |

Why the bounds are enough. In `Session` a handler holds one FILE and the data thread one, and
`GateExcludesTransfer` keeps a third from being opened, so two handles meet every case, and a lost one still
leaves one to go on with; a transfer loops over its blocks without looking at their number, so "one more" and
"none left" are the cases; a session's length is unbounded. The proofs do away with both bounds. In `PathCat`
five characters hold an item after an item (`a/..`, `../a`, `//..`) with a slash on either side, and calls feed
on each other without bound; the proofs do away with the lengths. In `LineReader` a buffer of three meets lines
shorter, equal, one longer and twice as long, cut at every place by the reads. In `FileCommands` two levels are
the least that have a directory with something in it, and a working directory below a directory that is renamed;
an entry whose descendants would leave the bounded tree is not renamed (`FitsAfter`). `MaxLeaks` only stops a
count that grows. In `ReplyChannel` five marks are the welcome, a PORT or PASV, a transfer, its
completion and one more, such as the reply to TYPE A while the completion is being sent;
`EOF` and `QUIT` end the session at any point. In `Transfer` seven bytes are two blocks of three and one byte:
transfers that begin at 1 or 4 fill their last block, others do not, and 7 is the end itself; five troubles are
enough for a transfer that is broken off, refused when it is resumed, broken off again and resumed in a new
session (`MaxTrouble`, which only stops them from going on for ever). The proofs do away with all three bounds.
In `Server` a session holds four descriptors at most (control, listening, data, file), so two sessions run out
of six with and without leaks, in each of the calls that take one. In `Client` one reader or reply left over is
enough to put all that follow out of step, and a transfer adds two more to it; operations follow each other
without bound.

`CHECK_DEADLOCK FALSE` stands in the runs of `Session` that have active mode: there `pthread_join` may
wait for ever for a data thread that sleeps in `pthread_cond_wait`, which is what `port_stop` is about; and in
the runs of `Client`, where an operation may wait for ever for data or for a reply that another reader took. It
is checked in all the others; a session that is over stutters (`Over`).

## Fairness

* `ThreadFairness` (`Session`): each of the two threads goes on when it can, `WF` of all its steps: the
  system schedules threads, and every wait is a condition of the step. Nothing obliges the far end to send a
  command, or the network to fail.
* `SF(AcceptConnection)`: `passive_data` polls `accept()`, and a far end that connects stays in the
  backlog until a poll finds it. Strong fairness, because the action is enabled at one place of the polling
  loop only. It says that the far end does connect.
* `SF(MoveBlock)`: a far end that sends or reads ends some wait in `read` or `write_all`. Strong for the same
  reason: with `O_NONBLOCK` the loop goes round.
* `LineReader`: `WF(Read)`: `read()` returns in the end, with bytes or because the connection has ended.
* `ReplyChannel`: `WF` of each thread; the far end reads what it is sent. `Finish` has none: a transfer need
  not end.
* `Transfer`: `WF` of the data thread and of the far end, with what goes wrong bounded: both are scheduled, the
  far end goes on sending or reading, resumes what was broken off, and connects. `CopyCompletes` says nothing of
  one that gives up.
* `Client`: `WF` of the event loop, of the threads and of the server: libui runs its queue, threads are
  scheduled, the server serves, and its thread of PORT comes to wait (`CondWait`) and, once it is signalled
  while it waits, dials (`ConnectBack`). A signal that is lost is followed by neither: `OperationsEnd` is of calm
  behaviours, in which none is. The user need not click.

The first three are the assumption "the far end keeps its data connection moving" of `passive`. Without it
`CommandsHandled` is not the code's promise; see below. The safety counterexamples need no fairness; `port_stop`
is found with all of it.

## What is proved

`SessionProofs`, for any set of FILEs, any modes, either `Lockstep`, either `NonblockingAccept`, any faults
(but see the last two items), and any `MaxBlocks` (`SessionAssumption` says no more than their kinds):

* `TypeCorrect`; `Invariance`: `Spec => []SessionInv`.
* `FilesUsedWhileOpen`, `GateHolds`, `ThreadsJoined`, `LoginByPassOnly`: the properties `TransferUsesItsFile`,
  `GateExcludesTransfer`, `JoinedBeforeReuse` and `OnlyPassLogsIn`.
* `DialsPrepared`, `ModesServed`, `AnswersAreOwed` and `FilesNotLost`: `ConnectsForATransfer`, `ModeHasThread`,
  `CompletionFollowsAcceptance` and `OnlyUntakenFilesLost`, assuming there are no spurious wakeups.
* `TransfersServed` and `AbortsEnd`: `TransferHasWorker` and `AbortEndsTransfer`, assuming `Lockstep`, passive mode,
  no spurious wakeups, and that threads can be started and `accept()` does not fail otherwise than by `EAGAIN`.

None of these properties is inductive. The argument is that of `SessionInv`: a handler that starts anything has
gone past the gate with `dat_fp = NULL`, and nothing but `signal_file` sets `dat_fp`, so it stays NULL to the end
of the handler (`HandlerOwns`); a data thread holds nothing but `dat_fp` from copying it to clearing it
(`ThreadHoldsDatFp`); `dat_fp` is open, for `dat_type`, until the thread that took it has closed it (`DatFpOpen`);
`thr_dat_running` is false only of no thread or of one being joined (`RunningOrJoined`). `NoThreadBeforeLogin` is
needed for `OnlyPassLogsIn`: `cleanup` and `client_close_threads` write `READY` without looking, which would log
in a session that is not, if there were a data thread before login. `AnswerOwed` carries the debt of the 150
along, but for a thread that has gone on without a file, which owes nothing and may report all the same. Without
spurious wakeups there is `SignalInv` on top: an active thread wakes with a file at hand and only after PORT has
written its address (`WokenWithFile`), and a state of PORT or PASV has its thread until `cleanup`
(`StateHasThread`), and one of PORT that goes on from there has a file (`FileTaken`). A FILE counts as held by
`dat_fp` only while there is a thread that has still to look at it (`AtWork`), and what the data thread holds is
`dat_fp` (`ThreadHoldsDatFp`), so `OnlyUntakenFilesLost` comes down to the steps that write `dat_fp`, end a thread
or hand it a file. `LockstepInv` is for a far end in lockstep: a passive thread that is not told to stop leaves
its loop only with the result of a transfer (`LeavesWithResult`), whose 150 is then unanswered, so no handler is
between `data()` and `signal_file` (`AnsweredBefore`, `AwaitsFile`). The proof has a step per action, and under it
one per conjunct that the action can disturb.

`PathCatProofs`, for every alphabet and arguments and working directories of every length:

* `PathInvariant`: `PathInv` is `TypeOK`, `PathsNormal`, `Growth` (the buffer is no longer than `wd` and what
  has been consumed of the argument) and `InArgument` (the loop is within the argument while it runs).
* `PathTypes`, `PathsStayNormal`, `BufferIsEnough`: the loop reads no further than the NUL; no empty item, `.`
  or `..` is ever left in a path; `strlen(wd) + strlen(rel) + 2` bytes suffice. The lemmas on `ItemEnd`,
  `LastSlash`, `GoUp` and `AddName` say what each helper returns.
* `PathsResolved` (`ResolvesByWalking`): `PathCat` implements `PathWalk`. The mapping takes a path apart into its
  items with `ItemsFromEnd`, a recursive function from the last character to the first. A round of the loop is
  a step of the walk because the items of a path are those before a slash and those behind it (`ItemAndSlash`,
  by induction over what stands before), so that consuming one takes the first of what is left to walk, adding a
  name to a normal path appends it to the names (`NamesAdded`), and `GoUp` drops the last (`NamesUp`).

`LineReaderProofs`, for any sizes and any number of bytes:

* `ReaderTypes` and `BufferKept` (`TypeOK`, `StaysInBuffer`), with an invariant that says in which order the
  loops fill the buffer.
* `LinesReadInOrder` (`ReadsTheLines`): `LineReader` implements `LineStream`. The lines that are left are those
  of the bytes not consumed, from the last to the first (`LinesFromEnd`), with the line in progress put before
  (`Joined`). A byte that is put into the line or thrown away does not change them, for what is thrown away is of
  a line that is too long whatever follows (`DropKeeps`); the end of a line gives the first of them out
  (`EndGives`). Between calls the line in progress is empty and at the end nothing is left (`BetweenLines`,
  `NoneLeft`, which TLC has checked as well).

`FileCommandsProofs`, for any number of sessions and any set of paths closed under their beginnings (so a tree
of any depth): `FilesKept`, `WorkingDirectoryKept` and `StringsFreed` (`FileInv`, `OwnWdKept`,
`OnlyInvalidRntoLeaks`). `OwnWdKept` needs more than the handler shows: after RMD or RNTO, `mark_dir` goes to the
parent of the working directory without asking whether there is one. There is, because all that is above what
exists is a directory, and RNTO keeps it so: the subtree below the old name is moved to the new one whole
(`Whence`), and nothing else is.

`ReplyChannelProofs`, for sessions of any number of replies: `RepliesKept`, `MarksStayWhole`,
`NothingAfterGoodbye` and `CompletionsLate` (`ReplyInv`, `LockedMarksWhole`, `GoodbyeIsLast`,
`CompletionAfterAcceptance`). A thread sends under the lock only while it holds it, and what is on the wire
since its first piece is its own or was sent without (`SendsUnderLock`); the 221 is sent when the other thread
is gone (`QuitEnds`). Completions are counted against acceptances that are whole on the wire: a data thread with
a file has one to spare, which `signal_file` gives it after the 150 and its completion uses up
(`CompletionsAwaited`).

`RepliesUnderstood` is `RepliesRead`: whatever has been written, the client has read each reply that is not torn
once, in order and with its text. `Read` is a recursive function over the number of pieces read, so that the
theorem goes by induction over the pieces (`RepliesInOrder`): what has been read stays as it is when more is read
(`RepliesStay`), the first piece of a reply begins a line of its own or ends one that is torn (`LineBegun`), and
the pieces of an untorn reply, read one after the other from there, give its code and its lines (`OneIsRead`,
`TwoIsRead`). The lines of a longer reply are together (`LongTogether`, in `InTurn`): those of the welcome because
there is no data thread yet, those of the reply to TYPE A because a data thread sends under the lock as well; and
no text is left over from before a reply where none is torn (`NothingLeft`).

`ServerProofs`, for any number of sessions and any table: `DescriptorsKept` and `LeaksAreKnown` (`ServerInv`,
`OnlyKnownLeaks`). A step takes a number that is free and closes those it has a name for, which
`DescriptorsOwned` says are its own; a thread that is gone or leaving has left no name (`ThreadHolds`), and no
record is given back with a thread on it (`ThreadJoined`). `dat_fp` is a name that somebody will close only while
there is a thread that has still to look at it (`Names`), which is why the file handed to a leaving thread is the
third of the known leaks.

`ClientProofs`, for any directories and however many readers and replies are left over:

* `CallbacksTyped` and `OneChain` (`TypeOK`, `OneContinuation`). `OneContinuation` is inductive beside the types:
  readers that are to call back, callbacks in the queue, a connection being made and a data connection being
  worked on are counted together, and a step uses one up for each that it makes, or disables the window for the
  first. The counting is in the lemmas on `Callers`.
* `InStep` and `TableIsOfWd` (`RepliesInStep`, `TableShowsWd`), of calm behaviours. Neither is near to being
  inductive: that a reply is read by the right reader depends on how many are to come, hence on what the server is
  at, hence on the stage of the data connection; and a reader that nobody calls back (the one that throws the 150
  away) is at work beside the chain. The invariant is `calm => Together`, which TLC has checked on the instance of
  `client` (1.48 million states). It has four parts. `OneAtATime`: one reader, one command, and next to a callback
  only the reader of a 150. `MarksExpected`: the first mark is for the reader of a command or of the welcome, and
  one more can only be the completion. `DataStage`: a completion is due while data is moved or a reader awaits it,
  and then the server has the transfer or has sent it; a thread of PORT that sleeps, or is about to, has its
  transfer command coming, so that its signal is not lost and no join of it hangs; a transfer given up at the
  client's end only leaves the server with one that never gets a connection, and never a mark to come. `Table`: a
  table of another directory than the server's has a listing on its way (`Relisting`: a 250 to CWD, PWD, or a LIST
  at any stage), or its listing has failed.

`TransferProofs`, for files and blocks of any length and any amount of trouble: `TransferKept` (`TransferInv`)
and `Resumes` (`ResumesFaithfully`: `Transfer` implements `ResumableCopy`). What has arrived, what stdio holds
and what is on the wire follow each other in the file without a gap (`InOrder`), and every step moves a byte
across one of the two borders, adds to the end of the last, or cuts that end off; nothing is put in between,
because a transfer begins with the last two empty and at the offset where the first ends, which REST has set and
a refused RETR has kept (`Phases`: `rest_offs = asked`). What lets a 226 be believed is counting: without a
reset the sender's position is where the three end (`Counted`), the data thread reports an end only when `feof`
or the closing of the far end says that the sender is at the end of the file, and from then on nothing is lost
without `seen` or `unseen` (`Reported`). The lemmas on `Follows` say what concatenation and cutting keep.

Induction. The library's induction theorems take an operator, which the provers at hand cannot instantiate. What
is proved by induction here is proved of a set of numbers instead: `Least` (from `NatLessThanWellFounded` and
`WFMin`) says that a set of numbers that is not empty has a least, and `Inductive` that one with 0 in it and the
successor of each has them all; a lemma names the set of lengths it holds for and proves it to be such. The
operators it is done for (`LinesFromEnd`, `ItemsFromEnd`, `Read`) are recursive functions on an interval; that
there is such a function is proved as well (`FromEndExists` and the like), as nothing says it of a `CHOOSE`.

Only model-checked: liveness and everything with `ENABLED`, which TLAPS does not do: `CommandsHandled`,
`TransferEnds`, `CommandsAnswered`, `CallReturns`, `CopyCompletes` and `OperationsEnd`. Every invariant, action
property and refinement that a run checks is also a theorem.

## What the code does that its documents do not say

Each of the first two is a run in which TLC finds the counterexample.

1. **`port_stop`.** `client_close_threads` clears `thr_dat_running` and joins, but does not signal `cond_dat`.
   After PORT without a transfer, QUIT, a second PORT or PASV and the end of the connection wait for ever:
   `CommandsAnswered` excepts such a join (`Hangs`), `Client` has it too.
   `report.md:67-69` has the server handle commands at any time. A transfer command that is handled before the
   new thread waits leads there too: `active_data` waits without looking at `dat_fp` first, so the signal is
   lost.
2. **`upload`.** `stor_2` starts a reader for the 226 when the data is written; if the 150 has not been read by
   then, that reader can take it. `stor_3` then gives up without calling `done()`: the upload works, and the
   window stays disabled.

Others show in the models and have no run of their own, since they are allowed for by a constant, a guard or a
variable, or named in a property:

3. *Lost descriptors*, of which `report.md:51-52` says there are none. `passive_data` takes `dat_fp` once it is
   connected; `cleanup` closes what it has taken, and clears `dat_fp`: ABOR before the connection leaks the
   FILE. A FILE that is handed to a thread on its way out (point 5) stays in `dat_fp`, and `client_close` frees
   the record without looking there. `OnlyUntakenFilesLost` names these two and says that there are no others;
   `OnlyKnownLeaks` says the same of all descriptors, with a third: `handler_PASV` returns without closing its
   socket where `fcntl`, `listen` or `pthread_create` fails.
4. *A full table ends the server.* `accept` that fails, in `main` (`AcceptFails`) or in a data thread
   (`AcceptDataFails`), calls `panic`, and every session ends.
5. *Orphaned transfer.* `cleanup` sets `dat_fp` to NULL before it sets `state` to READY, and `active_data`
   replies 425 before either, so that a far end that awaits every reply can meet the gap as well. A transfer
   command in between passes both `ignore_if_xfer()` and `data()`, and hands its file to a thread that is leaving;
   everything is 503 from then on, ABOR says "Transfer aborted." without ending it, and the FILE is lost with the
   record. `TransferHasWorker` and `AbortEndsTransfer` hold in passive mode with
   a far end in lockstep, and in no more than that.
6. *Torn replies.* `client_run_loop` and `process_command` call `send_mark` without `mutex_ctl`; such a reply can
   be mixed up with one of the data thread. `RepliesRead` says which replies the client loses by it.
7. *A false 226.* `process_block` treats a failed `read()` as the end of the data, and nobody looks at what
   `write_all` and the last `fclose` return: `unseen` in `Transfer`, without which `ResumesFaithfully` would fail.
   After ABOR the completion is 226 as well.
8. *STOR truncates first*, and opens then: where `fopen` fails the file has been cut off at the offset all the
   same, and the offset is forgotten (`StorRefused`). REST before a STOR of a file that is not there puts the
   data at its beginning. A refused RETR keeps the offset for whatever comes next (`RetrRefused`).
9. *DELE of an empty directory.* `report.md:56` says that DELE removes them; `handler_DELE` asks for a regular
   file first (guard of `Dele`).
10. *A far end that stalls* holds up ABOR and QUIT: the data thread looks at `thr_dat_running` between blocks only,
    `write_all` retries without end, and on Linux `read` blocks. The second half of the fairness above excludes it.
11. *Spurious wakeups.* `pthread_cond_wait` stands in no loop. A thread that wakes by itself goes on without a
    file and crashes on it, or, with `dat_type` never set or left at `RECV_FILE`, and nothing to read, sends a 226
    that is owed to nobody (`NullFile`). `ConnectsForATransfer`, `CompletionFollowsAcceptance`, `ModeHasThread`
    and `OnlyUntakenFilesLost` need the assumption that there are none, and `Server`, `ReplyChannel` and `Client`
    make it too.
12. *RNTO with an invalid path* returns from within `full_path` without freeing `rnfr`: the exception in
    `OnlyInvalidRntoLeaks`.
13. *A cut-off command.* If the connection ends within a line, what came of it is executed: `LineReaderRefinement`
    has the rest after the last LF as a line.
14. *A client that waits for ever.* A transfer that is refused or that the server cannot connect for has its
    reply thrown away (`xfer_read_mark(&x, NULL)`), and the client goes on waiting for data or in `accept()`;
    in PORT mode the command is sent before the client listens (main.c:153-156), and the server may accept it before
    its thread waits for the signal (point 1). `calm` leaves these out.
15. *Readers in the way of each other.* A download or listing calls `done()` when the reader of its 226 has just
    been started, so the next operation's reader may race with it on `x.b`.
16. *A stale table.* A listing that fails after CWD leaves the table of the directory before in an enabled window:
    `unlisted`, the exception in `TableShowsWd`.

## What is not modelled

* The parsing of arguments (the numbers of PORT and REST), the text of replies, the output of LIST.
* What `main` does before its loop: the arguments of the command line and the setting up of the socket.
* `path_change` and `read_all` have no caller.
* `sock_ephemeral`, `ephemeral`: their failure and the socket they open are in `Session` and `Server`, how they
  choose a port is not.
* `auth.h` compares strings; `Pass` takes either answer.
* Of the client: failures of local files, threads of it that cannot be started (but for the data connection),
  `read_mark_thr` on a connection that has been closed, what becomes of a buffer that a disconnect frees under a
  reader, progress callbacks, and of the file list all but whose listing it holds: sorting, cells and the search
  for a free name are pure. Its resources, their generator (`gen.sh`, `binfc.c`) and the drawing are data and
  layout.
* The composition of `Client` with `Session`: its server is what `Session` lets one client see, by hand. A run of
  both together has the product of their states, of which `Client` alone has 1.5 million.
* The file system: `rmdir`, `mkdir`, `rename`, `unlink` and `fopen` are modelled by what the handlers see of
  them, on a tree without links; the first three are marked external in the map.

## Plan

Done: `Session`, `SessionInv`, `SessionProofs`; `PathWalk`, `PathCat`, `PathCatRefinement`, `PathCatProofs`;
`LineStream`, `LineReader`, `LineReaderRefinement`, `LineReaderProofs`; `FileCommands` and `FileCommandsProofs`;
`ReplyChannel`, `ReplyReader` and `ReplyChannelProofs`; `ResumableCopy`, `Transfer` and `TransferProofs`;
`Server` and `ServerProofs`; `Client` and `ClientProofs`. Left:

1. An abstract transfer service (accepted, then completed, failed or aborted) that `Session` implements in
   passive mode, and the server in `Client` as an instance of it.
2. In `Client`: a disconnect with threads at work, threads that cannot be started, local files that cannot be
   opened.

## Running it

`tlc -config X.cfg M` for a run's `module` and `cfg` in `PROJECT.json`; `tlapm M.tla` for each of the modules
whose name ends in `Proofs`. The longest runs are `file_commands` and `client`, about a minute each with two
workers.
