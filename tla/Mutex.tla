-------------------------------- MODULE Mutex --------------------------------
(***************************************************************************)
(* What a lock promises its clients, whatever it is built from: a client   *)
(* that asks for the lock waits, at most one holds it, and a client that   *)
(* asked gets it as long as holders give it back.                          *)
(***************************************************************************)
CONSTANT Clients

VARIABLE phase   \* what every client is doing: "out", "asking" or "holding"

Init == phase = [c \in Clients |-> "out"]

Free == \A c \in Clients : phase[c] # "holding"

Ask(c) ==
  /\ phase[c] = "out"
  /\ phase' = [phase EXCEPT ![c] = "asking"]

Acquire(c) ==
  /\ phase[c] = "asking" /\ Free
  /\ phase' = [phase EXCEPT ![c] = "holding"]

\* A lock or try_lock that succeeds at once.
AskAndAcquire(c) ==
  /\ phase[c] = "out" /\ Free
  /\ phase' = [phase EXCEPT ![c] = "holding"]

Release(c) ==
  /\ phase[c] = "holding"
  /\ phase' = [phase EXCEPT ![c] = "out"]

Next == \E c \in Clients : Ask(c) \/ Acquire(c) \/ AskAndAcquire(c) \/ Release(c)

Spec == Init /\ [][Next]_phase

FairSpec ==
  Spec /\ \A c \in Clients : WF_phase(Release(c)) /\ SF_phase(Acquire(c))
=============================================================================
