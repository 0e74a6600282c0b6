------------------------------ MODULE Transfer ------------------------------
(***************************************************************************)
(* The contents of a transfer: REST, RETR and STOR, and the blocks the     *)
(* data thread moves (process_block and cleanup of client_xfer_thr.h),     *)
(* with stdio's buffer between fwrite and the file.  How the two threads   *)
(* of a session share the client record is in Session; here a handler is   *)
(* one step.                                                               *)
(*                                                                         *)
(* The far end is a client that wants one file whole, downloaded or        *)
(* uploaded, and resumes at the length of what has arrived, which LIST     *)
(* shows it of an upload.  It starts again only when the server has ended  *)
(* the transfer before.                                                    *)
(***************************************************************************)
EXTENDS Naturals, Sequences, FiniteSetsExt

CONSTANTS
  Length,     \* of the file to be copied, whose bytes are numbered
  BufSize,    \* BUF_SIZE
  Missing,    \* no file of that name
  MaxTrouble  \* bound: failures, and whims of the far end

ASSUME TransferAssumption ==
  /\ Length \in Nat
  /\ BufSize \in Nat \ {0}
  /\ Missing \notin Seq(0..Length)
  /\ MaxTrouble \in Nat

VARIABLES
  task,       \* what the far end is about: RETR or STOR
  rest_offs,  \* of the client record
  file,       \* what STOR writes to
  pc,         \* the data thread: none, dial, loop, block, close
  pos,        \* RETR: where the FILE is; STOR: how much the far end has sent
  pend,       \* STOR: what stdio has not written to the file yet
  st,         \* of the data thread: none, complete, ioerror
  wire, fin, cut, \* the data connection: bytes under way, their sender has
                  \* closed its end, the network has reset it
  reply,      \* the completion reply, until the far end acts on it
  \* the far end: what it is doing, its copy of the file (RETR), the mark it
  \* believes set, whether it has ever stored, has sent ABOR, has seen an error
  far, copy, asked, begun, aborted, seen,
  unseen,     \* bytes were lost where neither end can see it
  trouble

server == <<rest_offs, file, pc, pos, pend, st, reply>>
link == <<wire, fin, cut>>
client == <<far, copy, asked, begun, aborted, seen>>
vars == <<task, server, link, client, unseen, trouble>>

Bytes == 0..Length
TypeOK ==
  /\ task \in {"RETR", "STOR"}
  /\ rest_offs \in 0..Length /\ asked \in 0..Length
  /\ file = Missing \/ file \in Seq(Bytes)
  /\ pc \in {"none", "dial", "loop", "block", "close"}
  /\ pos \in 0..Length
  /\ pend \in Seq(Bytes) /\ wire \in Seq(Bytes) /\ copy \in Seq(Bytes)
  /\ st \in {"none", "complete", "ioerror"}
  /\ reply \in {"none", "226", "425", "451"}
  /\ far \in {"idle", "busy", "done"}
  /\ {fin, cut, begun, aborted, seen, unseen} \subseteq BOOLEAN
  /\ trouble \in 0..MaxTrouble

\* Two bytes of another file may be in the way of an upload.
Init ==
  /\ task \in {"RETR", "STOR"}
  /\ file \in {Missing, <<0, 0>>}
  /\ rest_offs = 0 /\ asked = 0
  /\ pc = "none" /\ pos = 0 /\ pend = <<>> /\ st = "none"
  /\ wire = <<>> /\ fin = FALSE /\ cut = FALSE
  /\ reply = "none"
  /\ far = "idle" /\ copy = <<>> /\ begun = FALSE
  /\ aborted = FALSE /\ seen = FALSE
  /\ unseen = FALSE
  /\ trouble = 0

Trouble == trouble < MaxTrouble /\ trouble' = trouble + 1
NoTrouble == UNCHANGED trouble

-----------------------------------------------------------------------------
(***************************************************************************)
(* The handlers, each at a command the far end sends between transfers     *)
(***************************************************************************)
\* The file after truncate(): cut off, or filled up with zeros; not created.
Truncate(size) ==
  IF file = Missing THEN Missing
  ELSE [i \in 1..size |-> IF i <= Len(file) THEN file[i] ELSE 0]
Opened(f) == IF f = Missing THEN <<>> ELSE f   \* fopen with "a"

\* The offset after a transfer command, accepted or refused, and a RETR that
\* does not use it up.
RestAfterRetrKept == rest_offs
RestAfterRetr == 0
RestAfterRefusedRetr == rest_offs
RestAfterStor == 0

\* The copy, at the end of which the far end goes on.
Arrived == IF task = "RETR" THEN copy
           ELSE IF begun THEN Opened(file) ELSE <<>>
Resume == Len(Arrived)

Rest(offs) ==
  /\ far = "idle"
  /\ rest_offs' = offs
  /\ asked' = offs
  /\ UNCHANGED <<task, file, pc, pos, pend, st, reply, link, far, copy, begun,
                 aborted, seen, unseen>>

\* 550, of this or of some other file: the offset stays for the next transfer,
\* and this far end knows that it does.
RetrRefused ==
  /\ far = "idle"
  /\ rest_offs' = RestAfterRefusedRetr
  /\ UNCHANGED <<task, file, pc, pos, pend, st, reply, link, client, unseen>>

Retr ==
  /\ far = "idle" /\ task = "RETR" /\ asked = Resume
  /\ pos' = rest_offs          \* fseek
  /\ rest_offs' = RestAfterRetr
  /\ pc' = "dial"
  /\ far' = "busy" /\ asked' = 0
  /\ UNCHANGED <<task, file, pend, st, reply, link, copy, begun, aborted, seen,
                 unseen>>

\* The file is truncated before it is known whether it can be opened.
StorTruncates ==
  /\ far = "idle" /\ task = "STOR" /\ asked = Resume
  /\ rest_offs' = RestAfterStor
  /\ asked' = 0 /\ begun' = TRUE
  /\ UNCHANGED <<task, pend, st, reply, link, copy, aborted, seen, unseen>>

Stor ==
  /\ StorTruncates
  /\ file' = Opened(Truncate(rest_offs))
  /\ pos' = asked              \* the far end's own
  /\ pc' = "dial"
  /\ far' = "busy"

StorRefused ==
  /\ StorTruncates
  /\ file' = Truncate(rest_offs)
  /\ UNCHANGED <<pos, pc, far>>

-----------------------------------------------------------------------------
(***************************************************************************)
(* The data thread                                                         *)
(***************************************************************************)
Thread(from, to) == pc = from /\ pc' = to
Ends(how) == Thread("block", "close") /\ st' = how

Connected ==
  /\ Thread("dial", "loop")
  /\ UNCHANGED <<task, rest_offs, file, pos, pend, st, reply, link, client,
                 unseen>>

NotConnected ==
  /\ Thread("dial", "close")
  /\ reply' = "425"
  /\ UNCHANGED <<task, rest_offs, file, pos, pend, st, link, client, unseen>>

\* thr_dat_running, which ABOR has cleared.
CheckRunning ==
  /\ Thread("loop", IF aborted THEN "close" ELSE "block")
  /\ UNCHANGED <<task, rest_offs, file, pos, pend, st, reply, link, client,
                 unseen>>

\* process_block for DATA_SEND_FILE.  write_all fails only on a connection
\* that was reset, and nobody looks.
Send(n) ==
  /\ task = "RETR"
  /\ pos' = pos + n
  /\ wire' = IF cut THEN wire ELSE wire \o [i \in 1..n |-> pos + i]
  /\ UNCHANGED <<task, rest_offs, file, pend, reply, fin, cut, client, unseen>>

\* What fread gets of the file, and a count that forgets how much is left; and
\* whether feof() holds after it: a file that fills its last block takes one
\* more.
FreadSizeUnclipped == BufSize
FreadSize == Min({BufSize, Length - pos})
Feof(n) == n < BufSize

SendBlock ==
  /\ Send(FreadSize)
  /\ IF Feof(FreadSize) THEN Ends("complete")
     ELSE Thread("block", "loop") /\ UNCHANGED st

FreadFails ==
  /\ Ends("ioerror")
  /\ \E n \in 0..FreadSize : n < BufSize /\ Send(n)

\* process_block for DATA_RECV_FILE.
Receiving ==
  /\ task = "STOR"
  /\ UNCHANGED <<task, rest_offs, pos, reply, fin, cut, client, unseen>>

\* What read gets of the connection, and what follows it on the wire.
Got == SubSeq(wire, 1, Min({BufSize, Len(wire)}))
AfterGot == SubSeq(wire, Len(Got) + 1, Len(wire))

ReceiveBlock ==
  /\ wire # <<>>
  /\ Receiving
  /\ Thread("block", "loop")
  /\ \/ file' = file \o pend \o Got /\ pend' = <<>>
     \/ file' = file /\ pend' = pend \o Got
  /\ wire' = AfterGot
  /\ UNCHANGED st

\* fwrite has to write and cannot, or not all of it.
FwriteFails ==
  /\ wire # <<>>
  /\ Receiving
  /\ Ends("ioerror")
  /\ \E n \in 0..(Len(pend \o Got) - 1) :
       file' = file \o SubSeq(pend \o Got, 1, n)
  /\ pend' = <<>>
  /\ wire' = AfterGot

\* The far end has closed its end, or read() has failed: "Treat transfer as
\* complete"; and a read that has failed taken for one to be tried again.
EndOfDataRetried == wire = <<>> /\ fin /\ ~cut
EndOfData == wire = <<>> /\ (fin \/ cut)

\* EAGAIN: the connection has nothing to read yet.
ReadWouldBlock ==
  /\ wire = <<>> /\ ~EndOfData
  /\ Receiving
  /\ Thread("block", "loop")
  /\ UNCHANGED <<file, pend, wire, st>>

ReceiveEnd ==
  /\ EndOfData
  /\ Receiving
  /\ Ends("complete")
  /\ UNCHANGED <<file, pend, wire>>

\* cleanup: fclose writes out what stdio holds, all of it or, where the file
\* cannot take it, n bytes.  Then the reply; ABOR has one of its own.
Close(n) ==
  /\ Thread("close", "none")
  /\ file' = IF task = "STOR" THEN file \o SubSeq(pend, 1, n) ELSE file
  /\ pend' = <<>>
  /\ fin' = (fin \/ task = "RETR")
  /\ reply' = CASE st = "complete" -> "226"
                [] st = "ioerror" -> "451"
                [] OTHER -> IF reply = "425" THEN "425" ELSE "226"
  /\ st' = "none"
  /\ unseen' = (unseen \/ n < Len(pend))
  /\ UNCHANGED <<task, rest_offs, pos, wire, cut, client>>

ServerStep ==
  /\ \/ Connected \/ CheckRunning
     \/ SendBlock \/ ReceiveBlock \/ ReadWouldBlock \/ ReceiveEnd
     \/ Close(Len(pend))
  /\ NoTrouble

-----------------------------------------------------------------------------
(***************************************************************************)
(* The far end and the network                                             *)
(***************************************************************************)
Upload ==
  /\ far = "busy" /\ task = "STOR" /\ pc \in {"loop", "block"}
  /\ ~fin /\ ~cut /\ ~aborted
  /\ IF pos < Length
     THEN /\ wire' = Append(wire, pos + 1)
          /\ pos' = pos + 1
          /\ UNCHANGED fin
     ELSE fin' = TRUE /\ UNCHANGED <<wire, pos>>
  /\ UNCHANGED <<task, rest_offs, file, pc, pend, st, reply, cut, client, unseen>>

Download ==
  /\ task = "RETR" /\ wire # <<>>
  /\ copy' = Append(copy, Head(wire))
  /\ wire' = Tail(wire)
  /\ UNCHANGED <<task, server, fin, cut, far, asked, begun, aborted, seen, unseen>>

Abort ==
  /\ far = "busy" /\ ~aborted
  /\ aborted' = TRUE
  /\ UNCHANGED <<task, server, link, far, copy, asked, begun, seen, unseen>>

\* What is under way is gone.  The far end notices unless it has closed.
Reset ==
  /\ ~cut
  /\ pc \in {"loop", "block"} \/ wire # <<>>
  /\ cut' = TRUE
  /\ wire' = <<>>
  /\ IF task = "STOR" /\ fin
     THEN unseen' = (unseen \/ wire # <<>>) /\ UNCHANGED seen
     ELSE seen' = TRUE /\ UNCHANGED unseen
  /\ UNCHANGED <<task, server, fin, far, copy, asked, begun, aborted>>

\* The reply is read, and the connection to its end.  Only a 226 after an end
\* without error that was not asked for with ABOR makes the copy complete.
Conclude ==
  /\ far = "busy" /\ reply # "none" /\ pc = "none"
  /\ task = "RETR" => wire = <<>>
  /\ far' = IF reply = "226" /\ ~aborted /\ ~seen THEN "done" ELSE "idle"
  /\ unseen' = (unseen /\ far' = "done")
  /\ reply' = "none"
  /\ wire' = <<>> /\ fin' = FALSE /\ cut' = FALSE
  /\ aborted' = FALSE /\ seen' = FALSE
  /\ UNCHANGED <<task, rest_offs, file, pc, pos, pend, st, copy, asked, begun>>

\* A session of its own, with a new client record (client_create).
Reconnect ==
  /\ far = "idle"
  /\ rest_offs' = 0 /\ asked' = 0
  /\ UNCHANGED <<task, file, pc, pos, pend, st, reply, link, far, copy, begun,
                 aborted, seen, unseen>>

\* Not to resume after all: what has arrived is thrown away, or to be replaced.
StartOver ==
  /\ far = "idle"
  /\ copy' = <<>>
  /\ begun' = FALSE
  /\ UNCHANGED <<task, server, link, far, asked, aborted, seen, unseen>>

FarStep ==
  /\ \/ asked # Resume /\ Rest(Resume)
     \/ Retr \/ Stor \/ Upload \/ Download \/ Conclude
  /\ NoTrouble

GoesWrong ==
  /\ \/ \E offs \in 0..Length : Rest(offs)
     \/ RetrRefused \/ StorRefused \/ NotConnected
     \/ FreadFails \/ FwriteFails \/ \E n \in 0..(Len(pend) - 1) : Close(n)
     \/ Abort \/ Reset \/ Reconnect \/ StartOver
  /\ Trouble

\* The far end has what it wanted.
Done == far = "done" /\ UNCHANGED vars

Next == ServerStep \/ FarStep \/ GoesWrong \/ Done

Spec == Init /\ [][Next]_vars

\* The data thread and the far end are scheduled; nothing has to go wrong.
FairSpec == Spec /\ WF_vars(ServerStep) /\ WF_vars(FarStep)

-----------------------------------------------------------------------------
\* Between transfers nothing is under way, and the two ends agree on the offset
\* of the next; a data thread reports an end once, when it has come to it.
Phases ==
  /\ far # "busy" => /\ pc = "none" /\ wire = <<>> /\ reply = "none"
                     /\ ~fin /\ ~cut /\ ~aborted /\ ~seen
  /\ far = "idle" => ~unseen
  /\ far = "busy" /\ task = "STOR" => begun /\ file # Missing
  /\ task = "RETR" => pend = <<>> /\ ~unseen
  /\ cut => seen \/ (task = "STOR" /\ fin)
  /\ pc \in {"none", "dial"} => pend = <<>>
  /\ pc # "close" => st = "none"
  /\ pc \in {"dial", "loop", "block"} => reply = "none"
  /\ pc = "close" => reply \in {"none", "425"}
  /\ pc = "close" /\ st = "none" /\ reply # "425" => aborted
  /\ rest_offs = asked

\* s is bytes of the file that come next after n of them.
Follows(s, n) == \A i \in 1..Len(s) : s[i] = n + i

\* What is on the wire is still to be taken, what is in stdio's buffer to be
\* written: the three are in order and without a gap.
Moving == task = "RETR" \/ pc \in {"dial", "loop", "block"}
InHand == Len(Arrived) + Len(pend)
OnItsWay == IF Moving THEN Len(wire) ELSE 0
InOrder ==
  /\ Follows(Arrived, 0)
  /\ Follows(pend, Len(Arrived))
  /\ Moving => Follows(wire, InHand)
  /\ InHand + OnItsWay <= Length

\* What the sender has sent is all there unless a reset is to blame.
Counted ==
  far = "busy" /\ Moving =>
    /\ ~seen /\ ~unseen => pos = InHand + OnItsWay
    /\ ~cut => ~seen /\ ~unseen
    /\ task = "STOR" /\ fin => pos = Length

\* And when the end is reported there is nothing more to come.
Reported ==
  (st = "complete" \/ (reply = "226" /\ ~aborted)) /\ ~seen /\ ~unseen =>
    InHand + OnItsWay = Length

\* Why an end can be believed: at every moment what has arrived, what stdio
\* holds and what is on the wire are one beginning of the file.
TransferInv == TypeOK /\ Phases /\ InOrder /\ Counted /\ Reported

Copy == INSTANCE ResumableCopy WITH
          dst <- Arrived, told <- far = "done", lost <- unseen

\* "allowing the client to read/write files at any specified offset, hence
\* allowing recovery of broken transmissions" (report.md:76-77): whatever
\* breaks a transfer off (ABOR, a reset, a disk error, a refusal, a new
\* session), what has arrived is a beginning of the file, without holes,
\* repetitions or old contents; and a 226 that the far end has no reason to
\* doubt is true unless a reset reached the server alone or fclose failed.
ResumesFaithfully == Copy!CopySpec

\* If things go wrong a bounded number of times, resuming gets the file over:
\* the thread sees the end of either side (an exact multiple of the block, an
\* offset at the very end of the file) and reports it.
CopyCompletes == <>(far = "done")

=============================================================================
