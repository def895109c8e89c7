------------------------------ MODULE MCCondVar ------------------------------
(* Scenarios for CondVar. *)
EXTENDS CondVar

CONSTANTS c1, h1

MCSetups ==
  {\* everybody waits without a timeout
   [waiters |-> Waiters, timed |-> {}, spurious |-> FALSE, relock |-> TRUE, checkSize |-> 16],
   \* timers, timeouts and spurious wakeups, and the sweep for dead entries
   [waiters |-> {c1, h1}, timed |-> {c1, h1}, spurious |-> TRUE, relock |-> FALSE, checkSize |-> 2],
   \* the sweep while others wait without a timeout
   [waiters |-> Coroutines, timed |-> {c1}, spurious |-> FALSE, relock |-> TRUE, checkSize |-> 2],
   [waiters |-> {c1, h1}, timed |-> {}, spurious |-> FALSE, relock |-> FALSE, checkSize |-> 2]}
=============================================================================
