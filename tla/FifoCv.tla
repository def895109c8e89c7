------------------------------- MODULE FifoCv -------------------------------
(***************************************************************************)
(* What a condition variable promises clients that wait without a timeout: *)
(* a notification serves the one that has waited longest, and a waiter     *)
(* returns when, and only when, it has been served.                        *)
(***************************************************************************)
EXTENDS Naturals, Sequences

CONSTANT Waiters

VARIABLES
  waiting,  \* the waiters nobody has notified, in the order they came
  served    \* the notified ones that have not returned

Init == waiting = <<>> /\ served = {}

Wait(w) ==
  /\ w \notin served /\ \A i \in 1..Len(waiting) : waiting[i] # w
  /\ waiting' = Append(waiting, w)
  /\ UNCHANGED served

Serve ==
  /\ waiting # <<>>
  /\ waiting' = Tail(waiting)
  /\ served' = served \cup {Head(waiting)}

Return(w) ==
  /\ w \in served
  /\ served' = served \ {w}
  /\ UNCHANGED waiting

Next == Serve \/ \E w \in Waiters : Wait(w) \/ Return(w)

Spec == Init /\ [][Next]_<<waiting, served>>
=============================================================================
