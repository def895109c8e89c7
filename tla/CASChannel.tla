----------------------------- MODULE CASChannel -----------------------------
(***************************************************************************)
(* The channel of libgo/sync/cas_channel_impl.h.  It has no lock of its    *)
(* own: one atomic word, wait_, counts the readers and the writers that    *)
(* wait or are about to, and a compare and exchange of it decides who may  *)
(* queue.  The buffer is wq_ itself: the first capacity_ entries belong to *)
(* writers that need not wait.  wq_ has a position, pos_, at the first     *)
(* writer that does; every pop() turns that one into a buffered value.     *)
(*                                                                         *)
(* A step is one access to wait_ or closed_, or what happens under the     *)
(* lock of a queue.  The calls have no deadline and are made by            *)
(* coroutines, so Entry::notify succeeds (module CondVar): taking an entry *)
(* off and notifying it, which touches nothing but the entry, are one      *)
(* step.  compare_exchange_weak fails only when wait_ has changed.         *)
(***************************************************************************)
EXTENDS Integers, Sequences

CONSTANTS Pushes, Pops, Waiting, Closable, None \* as in LockedChannel

VARIABLES
  capacity, closed, wq, rq, pc, st, t, issued, received, \* as in LockedChannel
  wait,      \* wait_: the numbers of readers and writers
  seen,      \* what a call has loaded from wait_, while it needs it
  pos,       \* the place of pos_ in wq_, 0 for null
  closing    \* what Close() is at

Nobody == [readers |-> 0, writers |-> 0]

casVars == <<wait, seen, pos, closing>>

Init == wait = Nobody /\ seen = [c \in Pushes \cup Pops |-> Nobody] /\ pos = 0 /\ closing = "no"

Goto(c, l) == pc' = [pc EXCEPT ![c] = l]

\* The half of wait_ that counts calls like c, and the other one.
Own(c) == IF c \in Pushes THEN "writers" ELSE "readers"
Other(c) == IF c \in Pushes THEN "readers" ELSE "writers"

-----------------------------------------------------------------------------
(* The loop that Push and Pop begin with.                                  *)

\* Only Push looks at closed_ first.
PushStart(c) ==
  /\ c \in Pushes /\ pc[c] = "start"
  /\ Goto(c, IF closed THEN "false" ELSE "load")
  /\ UNCHANGED <<capacity, closed, wq, rq, st, t, issued, received, casVars>>

\* Is there somebody to notify?  If not, a Push with a buffer goes on to queue.
Load(c) ==
  /\ pc[c] = "load" \/ (c \in Pops /\ pc[c] = "start")
  /\ IF wait[Other(c)] > 0 THEN Goto(c, "notify") /\ UNCHANGED seen
     ELSE /\ Goto(c, IF c \in Pushes /\ capacity > 0 THEN "exchange" ELSE "check")
          /\ seen' = [seen EXCEPT ![c] = wait]
  /\ UNCHANGED <<capacity, closed, wq, rq, st, t, issued, received, wait, pos, closing>>

\* The others give up if the channel is closed, or if they do not wait.
Check(c) ==
  /\ pc[c] \in {"check", "recheck"}
  /\ Goto(c, IF closed \/ c \notin Waiting THEN "false"
             ELSE IF pc[c] = "check" THEN "exchange" ELSE "load")
  /\ seen' = IF closed \/ c \notin Waiting THEN [seen EXCEPT ![c] = Nobody] ELSE seen
  /\ UNCHANGED <<capacity, closed, wq, rq, st, t, issued, received, wait, pos, closing>>

\* wait_ counts somebody who is not, or no longer, on the queue: try again.
NotifyNobody(c) ==
  /\ pc[c] = "notify" /\ (IF c \in Pushes THEN rq ELSE wq) = <<>>
  /\ Goto(c, IF c \in Pushes /\ capacity > 0 THEN "load" ELSE "recheck")
  /\ UNCHANGED <<capacity, closed, wq, rq, st, t, issued, received, casVars>>

\* Push gives its value to the first reader.
NotifyReader(c) ==
  /\ c \in Pushes /\ pc[c] = "notify" /\ rq # <<>>
  /\ t' = [t EXCEPT ![Head(rq)] = c]
  /\ st' = [st EXCEPT ![Head(rq)] = "served"]
  /\ rq' = Tail(rq)
  /\ issued' = Append(issued, c) /\ received' = Append(received, c)
  /\ Goto(c, "notified")
  /\ UNCHANGED <<capacity, closed, wq, casVars>>

PopWriter_KeepsPos(how) ==
  /\ wq # <<>>
  /\ wq' = Tail(wq)
  /\ st' = [st EXCEPT ![Head(wq)] = how]
  /\ pos' = IF pos < Len(wq) THEN pos ELSE 0

\* pop() on wq_: the first writer leaves, the one at pos_ need not wait any longer.
PopWriter(how) ==
  /\ wq # <<>>
  /\ wq' = Tail(wq)
  /\ st' = [c \in DOMAIN st |-> IF c = Head(wq) THEN how
                                ELSE IF pos > 0 /\ c = wq[pos] THEN "buffered" ELSE st[c]]
  /\ pos' = IF pos < Len(wq) THEN pos ELSE 0

\* Pop takes the value of the first writer.
NotifyWriter(c) ==
  /\ c \in Pops /\ pc[c] = "notify"
  /\ PopWriter("served")
  /\ t' = [t EXCEPT ![c] = Head(wq)]
  /\ received' = Append(received, Head(wq))
  /\ Goto(c, "notified")
  /\ UNCHANGED <<capacity, closed, rq, issued, wait, seen, closing>>

\* wait_ -= read1, or write1, for the one that was notified.
Discount(c) ==
  /\ pc[c] = "notified"
  /\ wait' = [wait EXCEPT ![Other(c)] = @ - 1]
  /\ Goto(c, "true")
  /\ UNCHANGED <<capacity, closed, wq, rq, st, t, issued, received, seen, pos, closing>>

Exchange_Blind(c) ==
  /\ pc[c] = "exchange"
  /\ wait' = [wait EXCEPT ![Own(c)] = @ + 1]
  /\ Goto(c, "queue")
  /\ UNCHANGED <<capacity, closed, wq, rq, st, t, issued, received, seen, pos, closing>>

\* compare_exchange_weak: nobody came or went since the load.
Exchange(c) ==
  /\ pc[c] = "exchange"
  /\ IF wait = seen[c]
     THEN wait' = [wait EXCEPT ![Own(c)] = @ + 1] /\ Goto(c, "queue")
     ELSE Goto(c, "load") /\ UNCHANGED wait
  /\ seen' = [seen EXCEPT ![c] = Nobody]
  /\ UNCHANGED <<capacity, closed, wq, rq, st, t, issued, received, pos, closing>>

-----------------------------------------------------------------------------
(* Queueing: WaitQueue::push with the conditions of Push and Pop.          *)

\* There is room: the entry stays as a buffered value.  Else a writer waits.
PushQueue(c) ==
  /\ c \in Pushes /\ pc[c] = "queue"
  /\ ~closed /\ (Len(wq) < capacity \/ c \in Waiting)
  /\ wq' = Append(wq, c)
  /\ pos' = IF capacity > 0 /\ Len(wq') = capacity + 1 THEN Len(wq') ELSE pos
  /\ st' = [st EXCEPT ![c] = IF Len(wq) < capacity THEN "buffered" ELSE "waiting"]
  /\ issued' = Append(issued, c)
  /\ Goto(c, "wait")
  /\ UNCHANGED <<capacity, closed, rq, t, received, wait, seen, closing>>

PopQueue(c) ==
  /\ c \in Pops /\ pc[c] = "queue" /\ ~closed
  /\ rq' = Append(rq, c)
  /\ st' = [st EXCEPT ![c] = "waiting"]
  /\ Goto(c, "wait")
  /\ UNCHANGED <<capacity, closed, wq, t, issued, received, casVars>>

\* no_queued: closed_, or a full channel and a call that does not wait.
NotQueued(c) ==
  /\ pc[c] = "queue"
  /\ closed \/ (c \in Pushes /\ Len(wq) >= capacity /\ c \notin Waiting)
  /\ Goto(c, "undo")
  /\ UNCHANGED <<capacity, closed, wq, rq, st, t, issued, received, casVars>>

Undo(c) ==
  /\ pc[c] = "undo"
  /\ wait' = [wait EXCEPT ![Own(c)] = @ - 1]
  /\ Goto(c, "false")
  /\ UNCHANGED <<capacity, closed, wq, rq, st, t, issued, received, seen, pos, closing>>

\* The wait has ended, or there was none.
WaitReturn(c) ==
  /\ pc[c] = "wait" /\ st[c] \in {"buffered", "served", "phantom"}
  /\ Goto(c, IF closed THEN "false" ELSE "true")
  /\ UNCHANGED <<capacity, closed, wq, rq, st, t, issued, received, casVars>>

-----------------------------------------------------------------------------
(* Close: closed_ = true, then notify_all on either queue.  It leaves      *)
(* wait_ as it is.                                                         *)

Close ==
  /\ Closable /\ ~closed
  /\ closed' = TRUE /\ closing' = "readers"
  /\ UNCHANGED <<capacity, wq, rq, pc, st, t, issued, received, wait, seen, pos>>

CloseReaders ==
  /\ closing = "readers"
  /\ IF rq = <<>> THEN closing' = "writers" /\ UNCHANGED <<rq, st>>
     ELSE rq' = Tail(rq) /\ st' = [st EXCEPT ![Head(rq)] = "phantom"] /\ UNCHANGED closing
  /\ UNCHANGED <<capacity, closed, wq, pc, t, issued, received, wait, seen, pos>>

CloseWriters ==
  /\ closing = "writers"
  /\ IF wq = <<>> THEN closing' = "done" /\ UNCHANGED <<wq, st, pos>>
     ELSE PopWriter("phantom") /\ UNCHANGED closing
  /\ UNCHANGED <<capacity, closed, rq, pc, t, issued, received, wait, seen>>

-----------------------------------------------------------------------------
\* What a call does once it has begun.
Step(c) ==
  \/ Load(c) /\ pc[c] = "load"
  \/ Check(c) \/ NotifyNobody(c) \/ NotifyReader(c) \/ NotifyWriter(c) \/ Discount(c)
  \/ Exchange(c) \/ PushQueue(c) \/ PopQueue(c) \/ NotQueued(c) \/ Undo(c) \/ WaitReturn(c)

Closing == CloseReaders \/ CloseWriters

Next ==
  \/ \E c \in Pushes \cup Pops : PushStart(c) \/ (Load(c) /\ pc[c] = "start") \/ Step(c)
  \/ Close \/ Closing
=============================================================================
