---------------------------- MODULE ReplyChannel ----------------------------
(***************************************************************************)
(* What the far end reads on the control connection.  A reply is a mark;   *)
(* send_mark writes each of its lines in three pieces: the code, the text, *)
(* the line end.                                                           *)
(* Two threads send marks on one socket: the control thread and the data   *)
(* thread.  mark() holds mutex_ctl while it sends; client_run_loop, and    *)
(* process_command for an unknown verb, call send_mark without.            *)
(*                                                                         *)
(* Session has what the commands do.  Here a command is how it is answered *)
(* and what that has to do with the data thread, which is a thread that    *)
(* waits for a file, and ends with a mark or because it is told to stop.   *)
(* That of PORT waits on cond_dat, which has to be signalled while it      *)
(* does, and looks at nothing else meanwhile; that of PASV looks around.   *)
(* The welcome has more than one line, and so has the reply to TYPE A,     *)
(* which may be sent while a data thread is about to send its own.         *)
(***************************************************************************)
EXTENDS Naturals, Sequences, FiniteSets

CONSTANT MaxMarks   \* bound: marks begun when another command is read

ASSUME ReplyChannelAssumption == MaxMarks \in Nat

VARIABLES
  marks,      \* the marks begun: of what kind, and whether under the lock
  wire,       \* the pieces written: which mark each is of
  mutex_ctl,  \* the thread that holds it, or nobody
  pc,         \* where each thread is
  mine,       \* the mark each thread sends
  hand,       \* the command in hand
  file,       \* dat_fp # NULL
  running     \* thr_dat_running

vars == <<marks, wire, mutex_ctl, pc, mine, hand, file, running>>

Threads == {"control", "data"}
\* plain: any command that is answered at once, 503 and the like included.
\* garbled: the line is too long, or has no verb, or an unknown one.
\* type: TYPE A.  transfer: RETR, STOR, LIST, which are accepted.
Modes == {"PORT", "PASV"}
Hands == Modes \cup {"plain", "garbled", "type", "transfer", "ABOR", "QUIT", "EOF"}
\* shutdown: 421.  done: 226 or 451 of the data thread; failed: its 425.
Kinds == Hands \cup {"shutdown", "done", "failed", "welcome"}

\* The lines of a mark, and its pieces: pfx, msg and EOL of each.
Lines(m) == IF marks[m].kind \in {"welcome", "type"} THEN 2 ELSE 1
Pieces(m) == 3 * Lines(m)
Written(m) == Cardinality({i \in 1..Len(wire) : wire[i] = m})

\* The replies that are sent by mark().
Locked == Modes \cup {"plain", "type", "transfer", "ABOR", "shutdown", "done", "failed"}

\* When pthread_mutex_lock lets thread t go on; and with a mutex per thread.
FreeForItself(t) == mutex_ctl # t
Free(t) == mutex_ctl = "nobody"

\* What pthread_mutex_unlock leaves, and where it is forgotten.
UnlockForgotten == mutex_ctl
Unlock == "nobody"

\* The commands whose handler begins with client_close_threads, but for a QUIT
\* that leaves it to client_close, and as it is.
JoinsFirstButQuit == Modes \cup {"ABOR"}
JoinsFirst == Modes \cup {"ABOR", "QUIT"}

\* Whether the file is signalled once the mark of acceptance is sent, or before.
SignalsEarly(now) == now = "Idle" /\ hand' = "transfer"
Signals(now) == now = "Send" /\ hand = "transfer"

-----------------------------------------------------------------------------
\* The welcome is about to be sent, without the lock.
Init ==
  /\ marks = <<[kind |-> "welcome", locked |-> FALSE]>>
  /\ wire = <<>>
  /\ mutex_ctl = "nobody"
  /\ pc = [control |-> "Send", data |-> "Off"]
  /\ mine = [control |-> 1, data |-> 0]
  /\ hand = "plain"
  /\ file = FALSE
  /\ running = FALSE

\* Thread t, both being where `at' says, begins a mark: mark() awaits the lock.
Begin(t, kind, at) ==
  /\ marks' = Append(marks, [kind |-> kind, locked |-> kind \in Locked])
  /\ mine' = [mine EXCEPT ![t] = Len(marks')]
  /\ pc' = [at EXCEPT ![t] = IF kind \in Locked THEN "Lock" ELSE "Send"]

\* A line is read, or the end of the connection.  ABOR without a transfer is
\* plain, and so is a transfer beside another, or in READY state: without a data
\* thread, or when the one there was has come that far.
Receive(h) ==
  /\ pc.control = "Idle"
  /\ h # "EOF" => Len(marks) < MaxMarks
  /\ h \in Modes \cup {"type", "transfer"} => ~file
  /\ h = "transfer" => pc.data \in {"Starting", "Asleep", "AtWork", "Lock", "Leaving"}
  /\ h = "ABOR" => file
  /\ hand' = h
  /\ IF h \in JoinsFirst
     THEN /\ pc' = [pc EXCEPT !.control = "Join"]
          /\ running' = FALSE
          /\ UNCHANGED <<marks, mine>>
     ELSE Begin("control", h, pc) /\ UNCHANGED running
  /\ file' = (file \/ Signals("Idle"))
  /\ UNCHANGED <<wire, mutex_ctl>>

\* client_close_threads in a handler: pthread_join returns, and the command, or
\* what has become of it, is answered.
Joined(h, place) ==
  /\ pc.control = "Join" /\ pc.data \in {"Off", "Exited"}
  /\ hand' = h
  /\ Begin("control", h, [pc EXCEPT !.data = place])
  /\ UNCHANGED <<wire, mutex_ctl, file>>

\* PORT and PASV start another thread; or PORT has a bad address, or 421 is sent:
\* before the thread was to be created, or after that has failed.
Join ==
  \/ hand \in {"ABOR", "QUIT"} /\ Joined(hand, "Off") /\ running' = FALSE
  \/ hand = "PORT" /\ Joined("PORT", "Starting") /\ running' = TRUE
  \/ hand = "PASV" /\ Joined("PASV", "AtWork") /\ running' = TRUE
  \/ hand = "PORT" /\ Joined("plain", "Off") /\ running' = FALSE
  \/ hand \in Modes /\ Joined("shutdown", "Off") /\ running' \in {hand = "PORT", TRUE}

\* After a 421 client_run_loop goes on as at the end of the connection.
Goodbye ==
  /\ pc.control = "Goodbye"
  /\ hand' = "EOF"
  /\ Begin("control", "EOF", pc)
  /\ UNCHANGED <<wire, mutex_ctl, file, running>>

\* client_close_threads in client_close, and then the socket is closed.  A join of
\* a thread that was not created returns.
Close ==
  /\ pc.control = "Close" /\ pc.data \in {"Off", "Exited"}
  /\ pc' = [control |-> "Closed", data |-> "Off"]
  /\ UNCHANGED <<marks, wire, mutex_ctl, mine, hand, file, running>>

\* pthread_cond_wait of active_data: what was signalled before is lost on it.
CondWait ==
  /\ pc.data = "Starting"
  /\ pc' = [pc EXCEPT !.data = "Asleep"]
  /\ UNCHANGED <<marks, wire, mutex_ctl, mine, hand, file, running>>

\* The data thread has its file and is done with it: cleanup clears dat_fp and
\* then sends its mark; where it cannot connect the mark comes first.
Finish ==
  /\ pc.data = "AtWork" /\ file
  /\ \E kind \in {"done", "failed"} :
       /\ Begin("data", kind, pc)
       /\ file' = (kind = "failed")
  /\ UNCHANGED <<wire, mutex_ctl, hand, running>>

\* It sees in its loop that it is told to stop, and ends without a mark.
Stop ==
  /\ pc.data = "AtWork" /\ ~running
  /\ pc' = [pc EXCEPT !.data = "Exited"]
  /\ file' = FALSE
  /\ UNCHANGED <<marks, wire, mutex_ctl, mine, hand, running>>

\* After a 425 it is left to make the state READY, which after a transfer comes
\* before the mark.
SetReady ==
  /\ pc.data = "Leaving"
  /\ pc' = [pc EXCEPT !.data = "Exited"]
  /\ UNCHANGED <<marks, wire, mutex_ctl, mine, hand, file, running>>

\* pthread_mutex_lock(&c->mutex_ctl)
Lock(t) ==
  /\ pc[t] = "Lock" /\ Free(t)
  /\ mutex_ctl' = t
  /\ pc' = [pc EXCEPT ![t] = "Send"]
  /\ UNCHANGED <<marks, wire, mine, hand, file, running>>

\* write_all writes a piece.
Write(t) ==
  /\ pc[t] = "Send" /\ Written(mine[t]) < Pieces(mine[t])
  /\ wire' = Append(wire, mine[t])
  /\ UNCHANGED <<marks, mutex_ctl, pc, mine, hand, file, running>>

\* send_mark returns, mark() unlocks, and the thread goes on: the control thread
\* to signal_file, which wakes a thread that waits, and the next command, or to
\* the end.
Onward ==
  CASE hand \in {"QUIT", "EOF"} -> "Close"
    [] hand = "shutdown" -> "Goodbye"
    [] OTHER -> "Idle"

SentByControl ==
  /\ pc' = [control |-> Onward,
            data |-> IF Signals("Send") /\ pc.data = "Asleep" THEN "AtWork" ELSE pc.data]
  /\ running' = (running /\ hand \notin {"QUIT", "EOF"})
  /\ file' = (file \/ Signals("Send"))

SentByData ==
  /\ pc' = [pc EXCEPT !.data = IF marks[mine.data].kind = "failed" THEN "Leaving" ELSE "Exited"]
  /\ file' = (file /\ marks[mine.data].kind # "failed")
  /\ UNCHANGED running

Sent(t) ==
  /\ pc[t] = "Send" /\ Written(mine[t]) = Pieces(mine[t])
  /\ mutex_ctl' = IF marks[mine[t]].locked THEN Unlock ELSE mutex_ctl
  /\ IF t = "control" THEN SentByControl ELSE SentByData
  /\ UNCHANGED <<marks, wire, mine, hand>>

ControlStep ==
  Join \/ Goodbye \/ Close \/ Lock("control") \/ Write("control") \/ Sent("control")
DataStep ==
  CondWait \/ Stop \/ SetReady \/ Lock("data") \/ Write("data") \/ Sent("data")

\* The control thread joins a thread of PORT that sleeps: both do for good.
Hangs == pc.control \in {"Join", "Close"} /\ pc.data = "Asleep"

Over == (pc.control = "Closed" \/ Hangs) /\ UNCHANGED vars

Next == (\E h \in Hands : Receive(h)) \/ ControlStep \/ DataStep \/ Finish \/ Over

Spec == Init /\ [][Next]_vars

\* Both threads are scheduled, and the far end reads what it is sent.
FairSpec == Spec /\ WF_vars(ControlStep) /\ WF_vars(DataStep)

-----------------------------------------------------------------------------
TypeOK ==
  /\ marks \in Seq([kind : Kinds, locked : BOOLEAN])
  /\ wire \in Seq(1..Len(marks))
  /\ mutex_ctl \in {"nobody"} \cup Threads
  /\ pc \in [Threads -> {"Idle", "Join", "Lock", "Send", "Goodbye", "Close", "Closed",
                        "Off", "Starting", "Asleep", "AtWork", "Leaving", "Exited"}]
  /\ pc.control \in {"Idle", "Join", "Lock", "Send", "Goodbye", "Close", "Closed"}
  /\ pc.data \in {"Off", "Starting", "Asleep", "AtWork", "Lock", "Send", "Leaving", "Exited"}
  /\ mine \in [Threads -> 0..Len(marks)]
  /\ hand \in Hands \cup {"shutdown"}
  /\ file \in BOOLEAN
  /\ running \in BOOLEAN

\* mutex_ctl keeps the replies of the two threads apart: of those that are sent
\* by mark(), no two are mixed up on the connection.
LockedMarksWhole ==
  \A i, k \in 1..Len(wire) :
    i < k /\ wire[i] = wire[k] /\ marks[wire[i]].locked =>
      \A j \in i..k : wire[j] = wire[i] \/ ~marks[wire[j]].locked

\* Of the first i pieces: how many are of mark m, the completions that have begun
\* and the acceptances that are whole.
WrittenBy(m, i) == Cardinality({k \in 1..i : wire[k] = m})
Completions == {m \in 1..Len(marks) : marks[m].kind \in {"done", "failed"}}
Reported(i) == {m \in Completions : \E k \in 1..i : wire[k] = m}
Accepted(i) == {m \in 1..Len(marks) :
                  marks[m].kind = "transfer" /\ WrittenBy(m, i) = Pieces(m)}

\* The reply that ends a transfer (226, 451, 425) is never read before all of the
\* 150 that accepted it, though a thread of its own sends it.
CompletionAfterAcceptance ==
  \A i \in 1..Len(wire) : Cardinality(Reported(i)) <= Cardinality(Accepted(i))

\* "221 Goodbye" in answer to QUIT is the last that is sent: no reply of the data
\* thread comes after it or into it, although it is sent without the lock.
GoodbyeIsLast ==
  \A i, k \in 1..Len(wire) :
    i < k /\ marks[wire[i]].kind = "QUIT" => wire[k] = wire[i]

\* A thread at a mark has begun it, alone; awaiting the lock, it has written
\* nothing of it.
MarkBegun(t) ==
  /\ pc[t] \in {"Lock", "Send"} => mine[t] # 0
  /\ pc[t] = "Lock" => marks[mine[t]].locked /\ \A i \in 1..Len(wire) : wire[i] # mine[t]

\* The lock is held by the thread that sends a mark under it, and since the first
\* piece nothing has come in between that is sent under it as well.
Locks(t) == pc[t] = "Send" /\ marks[mine[t]].locked

SendsUnderLock(t) ==
  /\ Locks(t) <=> mutex_ctl = t
  /\ Locks(t) =>
       \A i \in 1..Len(wire) : wire[i] = mine[t] =>
         \A j \in i..Len(wire) : wire[j] = mine[t] \/ ~marks[wire[j]].locked

\* The reply to QUIT is the last to be begun, with no data thread left.
QuitEnds ==
  \A m \in 1..Len(marks) : marks[m].kind = "QUIT" =>
    /\ m = Len(marks) /\ m = mine.control
    /\ hand = "QUIT"
    /\ pc.control \in {"Send", "Close", "Closed"} /\ pc.data = "Off"

\* At every moment, of every reply begun: no two are mixed up that are sent under
\* the lock, and none comes after the 221.
ReplyInv ==
  /\ TypeOK
  /\ mine.control # mine.data
  /\ \A t \in Threads : MarkBegun(t) /\ SendsUnderLock(t)
  /\ LockedMarksWhole
  /\ QuitEnds
  /\ GoodbyeIsLast

\* Completions that are begun have an acceptance each that is whole on the wire, a
\* thread with a file has one to spare, and so will a transfer that is accepted:
\* it has none to answer yet.
InFlight == hand = "transfer" /\ pc.control \in {"Lock", "Send"}
CompletionsAwaited ==
  /\ Cardinality(Completions) <= Cardinality(Accepted(Len(wire)))
  /\ file /\ pc.data = "AtWork" =>
       Cardinality(Completions) < Cardinality(Accepted(Len(wire)))
  /\ InFlight =>
       /\ ~file /\ marks[mine.control].kind = "transfer"
       /\ Cardinality(Completions) <= Cardinality(Accepted(Len(wire)) \ {mine.control})
  /\ pc.control = "Join" => hand # "transfer" /\ (hand \in Modes => ~file)
  /\ CompletionAfterAcceptance

\* Each command is answered, or the session closed, unless it has to wait for a
\* thread of PORT that sleeps: no other data thread, neither one that is awaited
\* nor one that has ended, keeps the control thread from mutex_ctl or its join.
CommandsAnswered == pc.control # "Idle" ~> pc.control \in {"Idle", "Closed"} \/ Hangs

=============================================================================
