------------------------------- MODULE TSQueue -------------------------------
(***************************************************************************)
(* The task queues of libgo/common/ts_queue.h as sequences.                *)
(*                                                                         *)
(* SList and TSQueue are intrusive doubly linked lists: a Task carries the *)
(* prev/next hooks itself, so it can be on one list at a time.  A list is  *)
(* the sequence of its tasks from head to tail; an operation is what it    *)
(* does to that sequence.  The operators are constant level: whoever calls *)
(* them decides what is one critical section of the queue's lock.          *)
(***************************************************************************)
EXTENDS Naturals, Sequences

\* The tasks linked into a list.
Elems(s) == {s[i] : i \in 1..Len(s)}

\* The position of a task that is on the list.
Pos(s, t) == CHOOSE i \in 1..Len(s) : s[i] = t

\* front(): the first task of the list, or null.
FrontOf(s, null) == IF Len(s) = 0 THEN null ELSE s[1]

NextOf_Null(s, t, null) == null

\* nextWithoutLock(): the task linked behind t, or null.
NextOf(s, t, null) ==
  IF t \in Elems(s) /\ Pos(s, t) < Len(s) THEN s[Pos(s, t) + 1] ELSE null

\* eraseWithoutLock() and SList::erase(): unlink one task.
Erase(s, t) ==
  IF t \in Elems(s)
  THEN [j \in 1..(Len(s) - 1) |-> IF j < Pos(s, t) THEN s[j] ELSE s[j + 1]]
  ELSE s

\* pop_backWithoutLock(n): how many tasks it takes, what it leaves, what it
\* returns.  It never takes fewer than one task from a list that is not empty.
BackCount(s, n) ==
  LET want == IF n = 0 THEN 1 ELSE n
  IN IF want <= Len(s) THEN want ELSE Len(s)

BackLeft(s, n) == SubSeq(s, 1, Len(s) - BackCount(s, n))

BackTaken(s, n) == SubSeq(s, Len(s) - BackCount(s, n) + 1, Len(s))

\* SList::cut(n): the first n tasks, and what stays on the list.
CutTaken(s, n) == SubSeq(s, 1, n)

CutLeft_SkipsOne(s, n) == SubSeq(s, n + 2, Len(s))

CutLeft(s, n) == SubSeq(s, n + 1, Len(s))
=============================================================================
