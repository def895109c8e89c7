---------------------------- MODULE LockedChannel ----------------------------
(***************************************************************************)
(* The channel of libgo/sync/locked_channel_impl.h: a bounded ring buffer  *)
(* (none when the capacity is 0) and two condition variables, wq_ for      *)
(* writers and rq_ for readers that have to wait.                          *)
(*                                                                         *)
(* Everything a call does under lock_ is one step, the notify_one loop     *)
(* included.  An element of Pushes or Pops is one call of Push or Pop made *)
(* by a coroutine; a push stands for the value it carries.  What a wait    *)
(* can end in is what module CondVar shows: notified with the functor      *)
(* applied ("served"), notified without a value ("phantom": by Close, by   *)
(* another waiter's timeout, or because the timer woke the coroutine       *)
(* before the notifier did), or timed out.  The sweep for dead entries,    *)
(* which begins with 16 waiters, is left to CondVar.                       *)
(***************************************************************************)
EXTENDS RingBuffer, FiniteSets

CONSTANTS
  Pushes,    \* calls of Push
  Pops,      \* calls of Pop
  Waiting,   \* the calls with bWait, operator<< and >>, TimedPush and TimedPop
  Deadlines, \* sets of the ones among them that may have a deadline
  Capacities, \* the capacities a channel may be created with
  Closable   \* whether somebody calls Close

Calls == Pushes \cup Pops

ASSUME LockedChannelAssumption ==
  /\ Pushes \cap Pops = {}
  /\ Deadlines \subseteq SUBSET Waiting /\ Waiting \subseteq Calls
  /\ Capacities \subseteq Nat
  /\ Closable \in BOOLEAN
  /\ None \notin Calls

VARIABLES
  capacity,  \* capacity_, which never changes
  timed,     \* the calls that have a deadline
  q,         \* q_
  closed,    \* closed_
  wq, rq,    \* the calls whose entries are on wq_ and rq_
  pc,        \* where a call is; "true" and "false" are what it returned
  st,        \* how the wait of a call stands
  t,         \* the value a Pop has got
  issued,    \* history: values in the order Push accepted them or let them wait
  received   \* history: values in the order they reached a Pop

vars == <<capacity, timed, q, closed, wq, rq, pc, st, t, issued, received>>
fixed == <<capacity, timed>>

\* The values in the buffer.
buf == Contents(q)

Init ==
  /\ capacity \in Capacities
  /\ timed \in Deadlines
  /\ q \in {NewRing(capacity, n) : n \in IF capacity = 0 THEN {0} ELSE Starts}
  /\ closed = FALSE
  /\ wq = <<>> /\ rq = <<>>
  /\ pc = [c \in Calls |-> "start"]
  /\ st = [c \in Calls |-> "none"]
  /\ t = [c \in Pops |-> None]
  /\ issued = <<>> /\ received = <<>>

Goto(c, l) == pc' = [pc EXCEPT ![c] = l]

-----------------------------------------------------------------------------
(* notify_one, as module CondVar has it.                                   *)

\* The positions of entries whose waiter can still be notified, and the first.
Live_All(l) == 1..Len(l)
Live(l) == {i \in 1..Len(l) : st[l[i]] = "waiting"}
FirstLive(l) == CHOOSE i \in Live(l) : \A j \in Live(l) : i <= j

\* The waiter notify_one finds, the queue it leaves, and what becomes of the
\* waiters: the timer has woken an "expired" one, but it has not decided yet.
Hit(l) == IF Live(l) = {} THEN None ELSE l[FirstLive(l)]
Rest(l) == IF Live(l) = {} THEN <<>> ELSE SubSeq(l, FirstLive(l) + 1, Len(l))
Notified(l, how) ==
  LET passed == IF Live(l) = {} THEN l ELSE SubSeq(l, 1, FirstLive(l) - 1)
      late == {c \in {passed[i] : i \in 1..Len(passed)} : st[c] = "expired"}
  IN [c \in Calls |-> IF c = Hit(l) THEN how ELSE IF c \in late THEN "phantom" ELSE st[c]]

\* wait or wait_util queues the call.
Enqueue(c, how) == [how EXCEPT ![c] = "waiting"]

-----------------------------------------------------------------------------
(* Push.                                                                   *)

PushClosed(c) ==
  /\ pc[c] = "start" /\ closed
  /\ Goto(c, "false")
  /\ UNCHANGED <<fixed, q, closed, wq, rq, st, t, issued, received>>

\* No buffer, a reader waits: give it the value.
PushHandOver(c) ==
  /\ pc[c] = "start" /\ ~closed
  /\ capacity = 0 /\ Hit(rq) # None
  /\ t' = [t EXCEPT ![Hit(rq)] = c]
  /\ st' = Notified(rq, "served")
  /\ rq' = Rest(rq)
  /\ issued' = Append(issued, c)
  /\ received' = Append(received, c)
  /\ Goto(c, "true")
  /\ UNCHANGED <<fixed, q, closed, wq>>

\* There is room.  The first value in the buffer goes to a waiting reader.
PushQueued(c) ==
  LET q2 == RingPush(q, c)
      r == IF Size(q2) = 1 THEN Hit(rq) ELSE None
  IN /\ pc[c] = "start" /\ ~closed
     /\ capacity > 0 /\ ~Full(q)
     /\ q' = IF r = None THEN q2 ELSE RingPop(q2)
     /\ t' = IF r = None THEN t ELSE [t EXCEPT ![r] = Contents(q2)[1]]
     /\ received' = IF r = None THEN received ELSE Append(received, Contents(q2)[1])
     /\ IF Size(q2) = 1 THEN st' = Notified(rq, "served") /\ rq' = Rest(rq)
        ELSE UNCHANGED <<st, rq>>
     /\ issued' = Append(issued, c)
     /\ Goto(c, "true")
     /\ UNCHANGED <<fixed, closed, wq>>

\* Neither: fail, or wait with the value.
PushBlocked(c) ==
  LET seen == IF capacity = 0 THEN Notified(rq, "served") ELSE st
  IN /\ pc[c] = "start" /\ ~closed
     /\ IF capacity = 0 THEN Hit(rq) = None ELSE Full(q)
     /\ rq' = IF capacity = 0 THEN Rest(rq) ELSE rq
     /\ IF c \in Waiting
        THEN /\ wq' = Append(wq, c)
             /\ st' = Enqueue(c, seen)
             /\ issued' = Append(issued, c)
             /\ Goto(c, "wait")
        ELSE st' = seen /\ Goto(c, "false") /\ UNCHANGED <<wq, issued>>
     /\ UNCHANGED <<fixed, q, closed, t, received>>

-----------------------------------------------------------------------------
(* Pop.                                                                    *)

PopClosed(c) ==
  /\ pc[c] = "start" /\ closed
  /\ Goto(c, "false")
  /\ UNCHANGED <<fixed, q, closed, wq, rq, st, t, issued, received>>

\* Take the first value; if the buffer was full a waiting writer fills it up.
PopQueued(c) ==
  LET q2 == RingPop(q)
      w == IF Size(q2) = capacity - 1 THEN Hit(wq) ELSE None
  IN /\ pc[c] = "start" /\ ~closed
     /\ capacity > 0 /\ ~Empty(q)
     /\ q' = IF w = None THEN q2 ELSE RingPush(q2, w)
     /\ IF Size(q2) = capacity - 1 THEN st' = Notified(wq, "served") /\ wq' = Rest(wq)
        ELSE UNCHANGED <<st, wq>>
     /\ t' = [t EXCEPT ![c] = Head(buf)]
     /\ received' = Append(received, Head(buf))
     /\ Goto(c, "true")
     /\ UNCHANGED <<fixed, closed, rq, issued>>

\* No buffer, a writer waits: take its value.
PopHandOver(c) ==
  /\ pc[c] = "start" /\ ~closed
  /\ capacity = 0 /\ Hit(wq) # None
  /\ t' = [t EXCEPT ![c] = Hit(wq)]
  /\ st' = Notified(wq, "served")
  /\ wq' = Rest(wq)
  /\ received' = Append(received, Hit(wq))
  /\ Goto(c, "true")
  /\ UNCHANGED <<fixed, q, closed, rq, issued>>

PopBlocked(c) ==
  LET seen == IF capacity = 0 THEN Notified(wq, "served") ELSE st
  IN /\ pc[c] = "start" /\ ~closed
     /\ IF capacity = 0 THEN Hit(wq) = None ELSE Empty(q)
     /\ wq' = IF capacity = 0 THEN Rest(wq) ELSE wq
     /\ IF c \in Waiting
        THEN rq' = Append(rq, c) /\ st' = Enqueue(c, seen) /\ Goto(c, "wait")
        ELSE st' = seen /\ Goto(c, "false") /\ UNCHANGED rq
     /\ UNCHANGED <<fixed, q, closed, t, issued, received>>

-----------------------------------------------------------------------------
(* The end of a wait, and Close.                                           *)

\* The deadline of a call passes while it waits.
TimerFires(c) ==
  /\ c \in timed /\ st[c] = "waiting"
  /\ st' = [st EXCEPT ![c] = "expired"]
  /\ UNCHANGED <<fixed, q, closed, wq, rq, pc, t, issued, received>>

\* It is the first to decide: a timeout.
WaitTimeout(c) ==
  /\ pc[c] = "wait" /\ st[c] = "expired"
  /\ st' = [st EXCEPT ![c] = "timeout"]
  /\ Goto(c, "clear")
  /\ UNCHANGED <<fixed, q, closed, wq, rq, t, issued, received>>

\* do_wait calls notify_one() to get its entry off the queue, then returns.
WaitClear(c) ==
  /\ pc[c] = "clear"
  /\ IF c \in Pushes THEN st' = Notified(wq, "phantom") /\ wq' = Rest(wq) /\ UNCHANGED rq
     ELSE st' = Notified(rq, "phantom") /\ rq' = Rest(rq) /\ UNCHANGED wq
  /\ Goto(c, "false")
  /\ UNCHANGED <<fixed, q, closed, t, issued, received>>

WaitReturn_NoRecheck(c) ==
  /\ pc[c] = "wait" /\ st[c] \in {"served", "phantom"}
  /\ Goto(c, "true")
  /\ UNCHANGED <<fixed, q, closed, wq, rq, st, t, issued, received>>

\* do_wait returned no_timeout: the answer is what closed_ says now.
WaitReturn(c) ==
  /\ pc[c] = "wait" /\ st[c] \in {"served", "phantom"}
  /\ Goto(c, IF closed THEN "false" ELSE "true")
  /\ UNCHANGED <<fixed, q, closed, wq, rq, st, t, issued, received>>

Close_OnlyReaders ==
  /\ Closable /\ ~closed
  /\ closed' = TRUE
  /\ st' = [c \in Calls |->
              IF st[c] \in {"waiting", "expired"} /\ \E i \in 1..Len(rq) : rq[i] = c
              THEN "phantom" ELSE st[c]]
  /\ rq' = <<>>
  /\ UNCHANGED <<fixed, q, wq, pc, t, issued, received>>

\* Close(): notify_all on both queues.
Close ==
  /\ Closable /\ ~closed
  /\ closed' = TRUE
  /\ st' = [c \in Calls |-> IF st[c] \in {"waiting", "expired"} THEN "phantom" ELSE st[c]]
  /\ wq' = <<>> /\ rq' = <<>>
  /\ UNCHANGED <<fixed, q, pc, t, issued, received>>

-----------------------------------------------------------------------------
WaitEnd(c) == TimerFires(c) \/ WaitTimeout(c) \/ WaitClear(c) \/ WaitReturn(c)

Next ==
  \/ \E c \in Pushes : PushClosed(c) \/ PushHandOver(c) \/ PushQueued(c) \/ PushBlocked(c)
  \/ \E c \in Pops : PopClosed(c) \/ PopQueued(c) \/ PopHandOver(c) \/ PopBlocked(c)
  \/ \E c \in Calls : WaitEnd(c)
  \/ Close

Spec == Init /\ [][Next]_vars

-----------------------------------------------------------------------------
(* Properties.                                                             *)

\* Also when the counters wrap read_ never passes write_ and the ring never holds
\* more than its capacity.  A slot is constructed exactly while its value is in the
\* buffer, so that placement new and ~T() alternate, unless the counters have
\* wrapped in a ring whose number of slots does not divide the word.
SlotsMatch ==
  /\ q.read <= q.write /\ Size(q) <= capacity
  /\ ~q.torn => \A i \in 0..capacity :
       q.buf[i] # None <=> \E k \in q.read..(q.write - 1) : k % (capacity + 1) = i
=============================================================================
