-------------------------------- MODULE Fifo --------------------------------
(***************************************************************************)
(* libevent_test/read_fifo.c and write_fifo.c: a writer and a reader that  *)
(* meet at a named pipe, either of which may be stopped and started again. *)
(* The reader makes the fifo anew each time it starts; a writer that is    *)
(* still there keeps the old one.  libevent calls write_cb while there is  *)
(* room and read_cb while there is something to read; what it does about a *)
(* fifo that was not opened is to wait for ever.                           *)
(*                                                                         *)
(* A message is a number.  A read takes up to 1024 bytes, more than the    *)
(* messages modelled here have together.                                   *)
(***************************************************************************)
EXTENDS Integers, Sequences

CONSTANTS
  MaxMessages,  \* bound: messages written by all writers
  MaxStarts     \* bound: starts of both programs

\* What is assumed of them
FifoAssumption == MaxMessages \in Nat /\ MaxStarts \in Nat

VARIABLES
  at,       \* where the reader and the writer are
  myfifo,   \* the fifo that has the name, 0 if none has
  opened,   \* the fifo that each of them has open, 0 if none
  content,  \* fifo -> messages in it
  num,      \* messages written so far, by all writers
  shown,    \* the message that the reader printed last
  since,    \* num when the reader started
  starts

vars == <<at, myfifo, opened, content, num, shown, since, starts>>

FifoStates == {"off", "mkfifo", "open", "loop", "stuck", "killed"}
Fifos == 1..MaxStarts

Init ==
  /\ at = [p \in {"reader", "writer"} |-> "off"]
  /\ myfifo = 0
  /\ opened = [p \in {"reader", "writer"} |-> 0]
  /\ content = [f \in Fifos |-> <<>>]
  /\ num = 0 /\ shown = 0 /\ since = 0 /\ starts = 0

Runs(p) == at[p] \notin {"off", "killed"}
Starts(p) == ~Runs(p) /\ starts < MaxStarts /\ starts' = starts + 1
Goes(p, state) == at' = [at EXCEPT ![p] = state]
Opens(p, f) == opened' = [opened EXCEPT ![p] = f]

\* A fifo that nobody has open loses what is in it
Closes(p) ==
  /\ Opens(p, 0)
  /\ content' = [f \in Fifos |-> IF \E q \in DOMAIN at : q # p /\ opened[q] = f
                                 THEN content[f] ELSE <<>>]

UnlinkFifo ==
  /\ Starts("reader")
  /\ Goes("reader", "mkfifo")
  /\ myfifo' = 0
  /\ since' = num
  /\ UNCHANGED <<opened, content, num, shown>>

\* mkfifo fails if there is a fifo, unnoticed
MakeFifo ==
  /\ at["reader"] = "mkfifo"
  /\ Goes("reader", "open")
  /\ myfifo' = IF myfifo = 0 THEN starts ELSE myfifo
  /\ UNCHANGED <<opened, content, num, shown, since, starts>>

OpenReader ==
  /\ at["reader"] = "open"
  /\ Goes("reader", "loop")
  /\ Opens("reader", myfifo)
  /\ UNCHANGED <<myfifo, content, num, shown, since, starts>>

\* open does not wait: it fails unless the fifo is there and a reader has it open
OpenWriter ==
  /\ Starts("writer")
  /\ IF myfifo # 0 /\ opened["reader"] = myfifo
       THEN Goes("writer", "loop") /\ Opens("writer", myfifo)
       ELSE Goes("writer", "stuck") /\ UNCHANGED opened
  /\ UNCHANGED <<myfifo, content, num, shown, since>>

\* Without a reader the write kills
write_cb ==
  /\ at["writer"] = "loop"
  /\ IF opened["reader"] = opened["writer"]
       THEN /\ num < MaxMessages
            /\ num' = num + 1
            /\ content' = [content EXCEPT ![opened["writer"]] = Append(@, num + 1)]
            /\ UNCHANGED <<at, opened>>
       ELSE Goes("writer", "killed") /\ Closes("writer") /\ UNCHANGED num
  /\ UNCHANGED <<myfifo, shown, since, starts>>

\* All that is there is read, and printed up to the end of the first string.  When the
\* writer has left, read_cb is called again and again for nothing.
read_cb ==
  /\ at["reader"] = "loop" /\ content[opened["reader"]] # <<>>
  /\ shown' = Head(content[opened["reader"]])
  /\ content' = [content EXCEPT ![opened["reader"]] = <<>>]
  /\ UNCHANGED <<at, myfifo, opened, num, since, starts>>

Stop(p) ==
  /\ Runs(p)
  /\ Goes(p, "off")
  /\ Closes(p)
  /\ UNCHANGED <<myfifo, num, shown, since, starts>>

Reader == MakeFifo \/ OpenReader \/ read_cb

Next == UnlinkFifo \/ OpenWriter \/ Reader \/ write_cb \/ \E p \in DOMAIN at : Stop(p)

Spec == Init /\ [][Next]_vars

-----------------------------------------------------------------------------

\* Every variable keeps its type.
TypeOK ==
  /\ at \in [{"reader", "writer"} -> FifoStates]
  /\ myfifo \in Fifos \cup {0}
  /\ opened \in [{"reader", "writer"} -> Fifos \cup {0}]
  /\ content \in [Fifos -> Seq(1..MaxMessages)]
  /\ num \in 0..MaxMessages /\ shown \in 0..num /\ since \in 0..num
  /\ starts \in 0..MaxStarts

\* A reader only gets what was written after it was started, also when a writer of the
\* fifo before is still at work.
ReadsFresh ==
  at["reader"] = "loop" =>
     \A k \in DOMAIN content[opened["reader"]] : content[opened["reader"]][k] > since

\* What is written to a reader that stays is read.
Unread == at["reader"] = "loop" /\ content[opened["reader"]] # <<>>
ReadsOn == Unread ~> ~Unread

=============================================================================
