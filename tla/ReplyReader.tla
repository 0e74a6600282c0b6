---------------------------- MODULE ReplyReader ----------------------------
(***************************************************************************)
(* What the client makes of the replies the server writes: read_mark_thr   *)
(* (client/xfer.c) takes lines off the connection and puts marks together. *)
(* What it has read by now is a function of the pieces on the wire.        *)
(***************************************************************************)
EXTENDS ReplyChannel, SequencesExt, FiniteSetsExt

\* Which piece of its mark the piece at i is, from 0 on, and of which line.
Nth(i) == Cardinality({j \in 1..(i - 1) : wire[j] = wire[i]})
Part(i) == <<"pfx", "msg", "EOL">>[(Nth(i) % 3) + 1]
LineOf(i) == (Nth(i) \div 3) + 1

\* send_mark puts a space and not a hyphen after the code of the last line.
LastLine(i) == LineOf(i) = Lines(wire[i])

\* The marks read so far, the text of the one begun, and the pieces of the line
\* begun, the four characters of its code still among them.
Nothing == [replies |-> <<>>, text |-> <<>>, line |-> <<>>]

\* Whether a line is the last of its mark, and any line with a code for one.
EndsMarkAnyCode(line) == Part(line[1]) = "pfx"
EndsMark(line) == Part(line[1]) = "pfx" /\ LastLine(line[1])

\* A line is read: one without a code is text all the same, less its first four
\* characters, and an empty one is not looked at.
AddLine(r) ==
  LET text == r.text \o Tail(r.line) IN
  IF r.line = <<>> THEN r
  ELSE IF EndsMark(r.line)
       THEN [replies |-> Append(r.replies, [mark |-> wire[r.line[1]], text |-> text]),
             text |-> <<>>, line |-> <<>>]
       ELSE [r EXCEPT !.text = text, !.line = <<>>]

AddPiece(r, i) ==
  IF Part(i) = "EOL" THEN AddLine(r) ELSE [r EXCEPT !.line = Append(@, i)]

\* What it is at after each number of pieces.
Read ==
  LET upto[n \in 0..Len(wire)] == IF n = 0 THEN Nothing ELSE AddPiece(upto[n - 1], n)
  IN  upto

ReadMarks(n) == Read[n].replies

-----------------------------------------------------------------------------
\* Where the pieces of m are, and its own text among them, a line at a time.
At(m) == {i \in 1..Len(wire) : wire[i] = m}
Text(m) == [l \in 1..Lines(m) |-> CHOOSE i \in At(m) : Part(i) = "msg" /\ LineOf(i) = l]

\* All of m is on the wire from the beginning of a line on, nothing within it.
Untorn(m) ==
  \E first \in At(m) : /\ At(m) = first..(first + Pieces(m) - 1)
                       /\ first > 1 => Part(first - 1) = "EOL"

NoneTorn == \A i, k \in 1..Len(wire) : wire[i] = wire[k] => \A j \in i..k : wire[j] = wire[i]

\* The client gets every reply that is untorn, once, in order and with its text,
\* the lines of a longer one as one reply: where a reply sent without the lock is
\* mixed up with one of the data thread those two are lost or spoilt and no
\* other, but for what is left of them before the text of the next.
RepliesRead ==
  LET read == ReadMarks(Len(wire))
      whole == {m \in 1..Len(marks) : Untorn(m)}
  IN  /\ \A m \in whole : \E k \in 1..Len(read) :
           /\ read[k].mark = m
           /\ IsSuffix(Text(m), read[k].text)
           /\ NoneTorn => read[k].text = Text(m)
      /\ \A j, k \in 1..Len(read) :
           j < k => Min(At(read[j].mark)) < Min(At(read[k].mark))

=============================================================================
