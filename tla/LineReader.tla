----------------------------- MODULE LineReader -----------------------------
(***************************************************************************)
(* rlb (io_utils.c), the line reader of the control connection at both     *)
(* ends: client_run_loop of the server and read_mark_thr of the client     *)
(* call rlb_read_line again and again.  read() fills a buffer with as many *)
(* bytes as there happen to be; rlb_get_char takes them out one by one     *)
(* and leaves out the CRs; rlb_read_line puts them in the caller's buffer  *)
(* up to a LF, and throws away what does not fit.                          *)
(*                                                                         *)
(* A connection that has ended, or failed, gives no byte ever after.       *)
(***************************************************************************)
EXTENDS Naturals, Sequences

CONSTANTS
  BufSize,   \* RLBUF_BUFSIZE
  Size,      \* the caller's buffer: 1024, at either end
  MaxBytes   \* bound: the bytes a connection carries

ASSUME LineReaderAssumption ==
  /\ BufSize \in Nat \ {0}
  /\ Size \in Nat \ {0, 1}
  /\ MaxBytes \in Nat

VARIABLES
  unread,   \* bytes that no read() has returned yet
  ahead,    \* bytes of b->buf between b->head and b->tail
  no_more,  \* b->no_more
  line,     \* what is in the caller's buffer
  pc,       \* Idle: no call; Fill: the first loop; Drop: the second
  out       \* what the last call returned

vars == <<unread, ahead, no_more, line, pc, out>>

CR == "CR"
LF == "LF"
Bytes == {"a", CR, LF}   \* one byte for all those that are neither

TooLong == <<"too long">>    \* size is returned
NoMore == <<"no more">>      \* -1 is returned
NothingYet == <<"nothing">>

\* How many bytes the next read() may return; and with a wrong size given to it.
ReadsAll == 1..Len(unread)
Reads == {n \in 1..BufSize : n <= Len(unread)}

\* What rlb_get_char gives when there are no more bytes: a LF; or it could
\* be a NUL, which ends a string but no line.
AtEndNul == "NUL"
AtEnd == LF

\* The caller's buffer is full: i == size.  One byte too late, or too early.
FullOneLate(l) == Len(l) = Size + 1
FullButOne(l) == Len(l) = Size - 1
Full(l) == Len(l) = Size

\* What the call returns for the line it has read up to a LF.
Returns(l, ended) == IF l = <<>> /\ ended THEN NoMore ELSE l

-----------------------------------------------------------------------------
Init ==
  /\ unread \in UNION {[1..n -> Bytes] : n \in 0..MaxBytes}
  /\ ahead = <<>>
  /\ no_more = FALSE
  /\ line = <<>>
  /\ pc = "Idle"
  /\ out = NothingYet

\* rlb_read_line is called.
Call ==
  /\ pc = "Idle"
  /\ pc' = "Fill"
  /\ line' = <<>>
  /\ UNCHANGED <<unread, ahead, no_more, out>>

\* rlb_get_char: the buffer has been all consumed, and read() refills it, ...
Refill ==
  /\ pc # "Idle"
  /\ ahead = <<>>
  /\ \E n \in Reads :
       /\ ahead' = SubSeq(unread, 1, n)
       /\ unread' = SubSeq(unread, n + 1, Len(unread))
  /\ UNCHANGED <<no_more, line, pc, out>>

\* ... or there is a CR to be left out.
SkipCR ==
  /\ pc # "Idle"
  /\ ahead # <<>> /\ Head(ahead) = CR
  /\ ahead' = Tail(ahead)
  /\ UNCHANGED <<unread, no_more, line, pc, out>>

\* A character for the caller's buffer; or one that does not fit.
PutChar(ch) ==
  /\ pc = "Fill" /\ ch # LF
  /\ line' = Append(line, ch)
  /\ pc' = IF Full(line') THEN "Drop" ELSE "Fill"
  /\ UNCHANGED out

DropChar(ch) ==
  /\ pc = "Drop" /\ ch # LF
  /\ UNCHANGED <<line, pc, out>>

\* The LF that ends the line, put in the buffer and truncated, or that ends
\* what is thrown away.
EndOfLine(ch, ended) ==
  /\ pc \in {"Fill", "Drop"} /\ ch = LF
  /\ out' = IF pc = "Drop" THEN TooLong ELSE Returns(line, ended)
  /\ pc' = "Idle"
  /\ line' = <<>>

Put(ch, ended) == PutChar(ch) \/ DropChar(ch) \/ EndOfLine(ch, ended)

\* rlb_get_char returns a byte of the buffer.
TakeByte ==
  /\ ahead # <<>> /\ Head(ahead) # CR
  /\ ahead' = Tail(ahead)
  /\ Put(Head(ahead), no_more)
  /\ UNCHANGED <<unread, no_more>>

\* read() returns 0 or -1.
TakeNone ==
  /\ ahead = <<>> /\ unread = <<>>
  /\ no_more' = TRUE
  /\ Put(AtEnd, TRUE)
  /\ UNCHANGED <<unread, ahead>>

Read == Refill \/ SkipCR \/ TakeByte \/ TakeNone
Next == Call \/ Read

Spec == Init /\ [][Next]_vars

\* read() returns in the end: with bytes, or because the connection has ended.
FairSpec == Spec /\ WF_vars(Read)

-----------------------------------------------------------------------------
TypeOK ==
  /\ unread \in Seq(Bytes)
  /\ ahead \in Seq(Bytes) /\ Len(ahead) <= BufSize
  /\ no_more \in BOOLEAN
  /\ line \in Seq(Bytes \ {CR, LF})
  /\ pc \in {"Idle", "Fill", "Drop"}
  /\ out \in Seq(Bytes \ {CR, LF}) \cup {TooLong, NoMore, NothingYet}

\* buf[i] = ch and buf[i] = '\0' stay inside the caller's buffer, of Size bytes:
\* at the next byte, LF or not, the line has at most Size - 1, and what is
\* thrown away has filled it exactly.
StaysInBuffer ==
  /\ pc = "Fill" => Len(line) < Size
  /\ pc = "Drop" => Len(line) = Size

\* Every call returns: the loop that throws away what does not fit too, on a
\* connection that ends before the LF.
CallReturns == pc # "Idle" ~> pc = "Idle"

=============================================================================
