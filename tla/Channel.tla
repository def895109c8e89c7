------------------------------ MODULE Channel ------------------------------
(***************************************************************************)
(* Channel of libgo/sync/channel.h: the constructor chooses one of two     *)
(* implementations, CASChannelImpl for capacities below choose1 and        *)
(* LockedChannelImpl for the others, and every operation goes to the one   *)
(* chosen.  The properties are what a user of Channel may rely on          *)
(* whichever it is.                                                        *)
(***************************************************************************)
EXTENDS LockedChannel

CONSTANTS
  Choices,   \* the values of choose1
  CasCalls   \* sets of calls made on a CASChannelImpl

VARIABLES
  choose1, calls,            \* the constructor's argument and the calls made, both fixed
  wait, seen, pos, closing   \* of CASChannel

Cas == INSTANCE CASChannel

casVars == <<wait, seen, pos, closing>>
chanVars == <<vars, choose1, calls, casVars>>

UseCas == capacity < choose1

\* Calls on a CASChannelImpl have no deadline in this model, and it has no ring.  One
\* choose1 stands for
\* all that choose a LockedChannelImpl.
ChanInit ==
  /\ Init /\ Cas!Init
  /\ choose1 \in Choices
  /\ calls \in IF UseCas THEN CasCalls ELSE {Calls}
  /\ IF UseCas THEN timed = {} /\ q = NewRing(capacity, 0) ELSE choose1 = 0

ChanNext ==
  /\ \/ ~UseCas /\ Next /\ UNCHANGED casVars
     \/ UseCas /\ Cas!Next /\ UNCHANGED <<timed, q>>
        /\ \A c \in Calls \ calls : pc'[c] = pc[c]
  /\ UNCHANGED <<choose1, calls>>

\* What a call that has begun goes on to do, and Close().
GoOn(c) ==
  \/ ~UseCas /\ WaitEnd(c) /\ UNCHANGED <<choose1, calls, casVars>>
  \/ UseCas /\ Cas!Step(c) /\ UNCHANGED <<choose1, calls, timed, q>>
Closing == UseCas /\ Cas!Closing /\ UNCHANGED <<choose1, calls, timed, q>>

\* A call that can go on does, timers fire, Close() ends.
ChanSpec ==
  /\ ChanInit /\ [][ChanNext]_chanVars
  /\ \A c \in Calls : WF_chanVars(GoOn(c))
  /\ WF_chanVars(Closing)

-----------------------------------------------------------------------------
(* Properties.                                                             *)

NotWaiting(c) == st[c] # "waiting"

\* The values in the buffer, and all that are in the channel.
Buffered == IF UseCas THEN SelectSeq(wq, NotWaiting) ELSE buf
Inside == IF UseCas THEN wq ELSE buf \o wq

\* Without deadlines the channel is first in, first out, across the buffer and the
\* waiting writers: no later Push overtakes one that waits, or is handed over while
\* earlier values are inside, and no value is lost.  This and the two properties on
\* values below end with the first wrap in a ring that tears (see RingBuffer).
Fifo == timed = {} /\ ~closed /\ ~q.torn => issued = received \o Inside

\* Nobody waits in vain.  LockedChannelImpl notifies only when the buffer stops being
\* empty or full (Size() == 1, Size() == capacity_ - 1); CASChannelImpl when wait_
\* counts somebody on the other side, and moves pos_ on.
NoneStranded ==
  /\ Live(rq) # {} => Buffered = <<>> /\ Live(wq) = {}
  /\ Live(wq) # {} => Len(Buffered) = capacity

\* Without deadlines a call that returns true did its work: the value it pushed was
\* received or is in the buffer (Close() of CASChannelImpl empties it), the value it
\* popped is in t.
TrueIsReal ==
  timed = {} /\ ~q.torn =>
    /\ \A c \in Pushes : pc[c] = "true" /\ ~(UseCas /\ closed) =>
         \E i \in 1..Len(received \o Buffered) : (received \o Buffered)[i] = c
    /\ \A c \in Pops : pc[c] = "true" => t[c] # None

\* Timeouts or not, no value is received twice, or received and still buffered, and
\* none is received by a Pop that gives up: only Close() can make that one fail.
AtMostOnce ==
  LET all == received \o Buffered IN
  ~q.torn =>
    /\ \A i, j \in 1..Len(all) : all[i] = all[j] => i = j
    /\ \A i \in 1..Len(received) : \E c \in Pops :
         t[c] = received[i] /\ (pc[c] \in {"clear", "false"} => closed)

Returned(c) == pc[c] \in {"true", "false"}

\* Close() leaves wait_ counting the readers it woke: a Push with a buffer that was
\* past its test of closed_ looks for them for ever.
Spins(c) ==
  /\ UseCas /\ capacity > 0 /\ c \in Pushes
  /\ pc[c] \in {"load", "notify"}
  /\ closed /\ wait.readers > 0 /\ rq = <<>>

\* The loops on wait_ end: a call that has begun returns or goes to wait.  Close()
\* releases every waiting call, and a call with a deadline, or that does not wait,
\* returns.
WaitsEnd ==
  \A c \in Calls :
    pc[c] # "start" ~>
      Returned(c) \/ []Spins(c) \/ (pc[c] = "wait" /\ ~closed /\ c \in Waiting \ timed)
=============================================================================
