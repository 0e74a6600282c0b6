------------------------ MODULE LineReaderRefinement ------------------------
(***************************************************************************)
(* rlb_read_line gives out the lines of the connection, whatever the sizes *)
(* of the pieces read() returns them in: LineReader implements LineStream. *)
(***************************************************************************)
EXTENDS LineReader

\* The lines that a byte and what comes after it make, from those that this
\* makes: a LF ends an empty one, and any other byte but a CR is the first of
\* the line it stands before.
AddByte(ch, lines) ==
  IF ch = CR THEN lines
  ELSE IF ch = LF THEN <<<<>>>> \o lines
  ELSE IF lines = <<>> THEN <<<<ch>>>>
  ELSE <<<<ch>> \o Head(lines)>> \o Tail(lines)

\* The lines of the last k of bytes, for every k.
LinesFromEnd(bytes) ==
  LET last[k \in 0..Len(bytes)] ==
        IF k = 0 THEN <<>> ELSE AddByte(bytes[Len(bytes) - k + 1], last[k - 1])
  IN  last

LinesOf(bytes) == LinesFromEnd(bytes)[Len(bytes)]

\* What rlb_read_line is to return for each of them.
Given(lines) ==
  [k \in 1..Len(lines) |-> IF Len(lines[k]) >= Size THEN TooLong ELSE lines[k]]

L == INSTANCE LineStream WITH
       Streams <- Seq(Seq(Bytes) \cup {TooLong}),
       todo    <- Given(LinesOf(line \o ahead \o unread))

\* The server executes the commands, and the client sees the replies, that were
\* sent: no line is lost, split, joined or doubled by where a read() ends, nor
\* by one that does not fit (client_run_loop answers that with 500).
ReadsTheLines == L!LineSpec

=============================================================================
