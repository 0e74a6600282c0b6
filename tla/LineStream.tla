----------------------------- MODULE LineStream -----------------------------
(***************************************************************************)
(* What reading a connection line by line promises: its lines come out one *)
(* after the other, however the bytes come in, and after the last of them  *)
(* the news that there are no more.                                        *)
(***************************************************************************)
EXTENDS Sequences

CONSTANTS
  Streams,    \* what may be sent: sequences of lines
  NoMore,     \* the connection has ended
  NothingYet  \* no line has been asked for

VARIABLES
  todo,  \* the lines still to come
  out    \* what the reader was last given

LineInit == todo \in Streams /\ out = NothingYet

TakeLine ==
  /\ todo # <<>>
  /\ out' = Head(todo)
  /\ todo' = Tail(todo)

End ==
  /\ todo = <<>>
  /\ out' = NoMore
  /\ UNCHANGED todo

LineNext == TakeLine \/ End

LineSpec == LineInit /\ [][LineNext]_<<todo, out>>

=============================================================================
