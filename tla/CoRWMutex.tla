------------------------------ MODULE CoRWMutex ------------------------------
(***************************************************************************)
(* The reader-writer lock of libgo/sync/co_rwmutex.cpp.  Every call runs   *)
(* under lock_ and is one step, up to a wait on rCv_ or wCv_; a wait queues *)
(* the caller before it gives lock_ up, and a woken caller tries again.    *)
(*                                                                         *)
(* A client may be a native thread: then its wait can end spuriously, and  *)
(* what do_wait does in that case (module CondVar) is part of the model:   *)
(* the entry stays in the queue, dead, and the waiter calls notify_one().  *)
(***************************************************************************)
EXTENDS Integers, SequencesExt

CONSTANTS
  Clients,   \* coroutines and native threads that share the lock
  Threads,   \* the native threads among them
  MaxCalls,  \* bound: lock and try-lock calls of a client
  Dead       \* an entry whose waiter has left

ASSUME CoRWMutexAssumption ==
  /\ IsFiniteSet(Clients) /\ Threads \subseteq Clients
  /\ MaxCalls \in Nat /\ Dead \notin Clients

VARIABLES
  lockState,      \* lockState_: number of readers, or -1
  rCv, wCv,       \* the entries that wait on rCv_ and wCv_
  writePriority,  \* writePriority_
  pc,             \* where a client is
  calls           \* how many calls a client has made

vars == <<lockState, rCv, wCv, writePriority, pc, calls>>

Init ==
  /\ lockState = 0
  /\ rCv = <<>> /\ wCv = <<>>
  /\ writePriority \in BOOLEAN
  /\ pc = [c \in Clients |-> "idle"]
  /\ calls = [c \in Clients |-> 0]

Goto(c, l) == pc' = [pc EXCEPT ![c] = l]

\* A new call: RLock, RTryLock, WLock or WTryLock.
Call(c) ==
  /\ pc[c] = "idle" /\ calls[c] < MaxCalls
  /\ calls' = [calls EXCEPT ![c] = @ + 1]

-----------------------------------------------------------------------------
(* Taking the lock.                                                        *)

\* The test of RLock.  wCv_.empty() counts dead entries too.
CanRead == lockState >= 0 /\ (writePriority => wCv = <<>>)

\* RLock from its label retry on.
RLockTry(c) ==
  /\ IF CanRead
     THEN lockState' = lockState + 1 /\ Goto(c, "reading") /\ UNCHANGED rCv
     ELSE rCv' = Append(rCv, c) /\ Goto(c, "rWait") /\ UNCHANGED lockState
  /\ UNCHANGED <<wCv, writePriority>>

RLock(c) == Call(c) /\ RLockTry(c)

RRetry(c) == pc[c] = "rWoken" /\ RLockTry(c) /\ UNCHANGED calls

\* RTryLock does not look at writePriority_.
RTryLock(c) ==
  /\ Call(c)
  /\ IF lockState >= 0 THEN lockState' = lockState + 1 /\ Goto(c, "reading")
     ELSE UNCHANGED <<lockState, pc>>
  /\ UNCHANGED <<rCv, wCv, writePriority>>

WLockTry_Shared(c) ==
  /\ IF lockState >= 0
     THEN lockState' = -1 /\ Goto(c, "writing") /\ UNCHANGED wCv
     ELSE wCv' = Append(wCv, c) /\ Goto(c, "wWait") /\ UNCHANGED lockState
  /\ UNCHANGED <<rCv, writePriority>>

\* WLock from its label retry on.
WLockTry(c) ==
  /\ IF lockState = 0
     THEN lockState' = -1 /\ Goto(c, "writing") /\ UNCHANGED wCv
     ELSE wCv' = Append(wCv, c) /\ Goto(c, "wWait") /\ UNCHANGED lockState
  /\ UNCHANGED <<rCv, writePriority>>

WLock(c) == Call(c) /\ WLockTry(c)

WRetry(c) == pc[c] = "wWoken" /\ WLockTry(c) /\ UNCHANGED calls

WTryLock(c) ==
  /\ Call(c)
  /\ IF lockState = 0 THEN lockState' = -1 /\ Goto(c, "writing")
     ELSE UNCHANGED <<lockState, pc>>
  /\ UNCHANGED <<rCv, wCv, writePriority>>

-----------------------------------------------------------------------------
(* Giving it back.                                                         *)

Live(cv) == {i \in DOMAIN cv : cv[i] # Dead}

\* notify_one(): entries are popped until one can be notified.
NotifyOne(cv) == IF Live(cv) = {} THEN <<>> ELSE SubSeq(cv, Min(Live(cv)) + 1, Len(cv))
Notified(cv) == IF Live(cv) = {} THEN {} ELSE {cv[Min(Live(cv))]}

Woken(p, cs) ==
  [c \in Clients |-> IF c \in cs THEN (IF p[c] = "rWait" THEN "rWoken" ELSE "wWoken")
                     ELSE p[c]]

\* A waiting writer, else all waiting readers.
TryWakeUp(p) ==
  /\ wCv' = NotifyOne(wCv)
  /\ IF Notified(wCv) # {}
     THEN pc' = Woken(p, Notified(wCv)) /\ UNCHANGED rCv
     ELSE rCv' = <<>> /\ pc' = Woken(p, {rCv[i] : i \in Live(rCv)})

RUnlock(c) ==
  /\ pc[c] = "reading"
  /\ lockState' = lockState - 1
  /\ IF lockState' > 0
     THEN Goto(c, "idle") /\ UNCHANGED <<rCv, wCv>>
     ELSE TryWakeUp([pc EXCEPT ![c] = "idle"])
  /\ UNCHANGED <<writePriority, calls>>

WUnlock(c) ==
  /\ pc[c] = "writing"
  /\ lockState' = 0
  /\ TryWakeUp([pc EXCEPT ![c] = "idle"])
  /\ UNCHANGED <<writePriority, calls>>

IsLock == lockState = -1

-----------------------------------------------------------------------------
(* A native thread's wait ends spuriously.                                 *)

Killed(cv, c) == [i \in DOMAIN cv |-> IF cv[i] = c THEN Dead ELSE cv[i]]

\* cv.wait returns and do_wait calls it a timeout.
Spurious(c) ==
  /\ c \in Threads
  /\ pc[c] \in {"rWait", "wWait"}
  /\ Goto(c, IF pc[c] = "rWait" THEN "rClear" ELSE "wClear")
  /\ rCv' = Killed(rCv, c) /\ wCv' = Killed(wCv, c)
  /\ UNCHANGED <<lockState, writePriority, calls>>

ClearRead_SleepsOn(c) ==
  /\ pc[c] = "rClear"
  /\ rCv' = NotifyOne(rCv)
  /\ pc' = Woken([pc EXCEPT ![c] = "rWait"], Notified(rCv))
  /\ UNCHANGED <<lockState, wCv, writePriority, calls>>

\* do_wait calls notify_one(), without lock_, and returns.
ClearRead(c) ==
  /\ pc[c] = "rClear"
  /\ rCv' = NotifyOne(rCv)
  /\ pc' = Woken([pc EXCEPT ![c] = "rWoken"], Notified(rCv))
  /\ UNCHANGED <<lockState, wCv, writePriority, calls>>

ClearWrite(c) ==
  /\ pc[c] = "wClear"
  /\ wCv' = NotifyOne(wCv)
  /\ pc' = Woken([pc EXCEPT ![c] = "wWoken"], Notified(wCv))
  /\ UNCHANGED <<lockState, rCv, writePriority, calls>>

-----------------------------------------------------------------------------
Step(c) == RRetry(c) \/ WRetry(c) \/ ClearRead(c) \/ ClearWrite(c)

Unlock(c) == RUnlock(c) \/ WUnlock(c)

Next == \E c \in Clients :
  RLock(c) \/ RTryLock(c) \/ WLock(c) \/ WTryLock(c) \/ Unlock(c) \/ Step(c) \/ Spurious(c)

Spec == Init /\ [][Next]_vars

\* A woken caller is scheduled, and a holder unlocks.
FairSpec == Spec /\ \A c \in Clients : WF_vars(Step(c)) /\ WF_vars(Unlock(c))

-----------------------------------------------------------------------------
(* Properties.                                                             *)

Readers == {c \in Clients : pc[c] = "reading"}
Writers == {c \in Clients : pc[c] = "writing"}

\* lockState_ is exactly who holds the lock (so the asserts of RUnlock and
\* WUnlock hold), and IsLock() tells whether a writer does.
Exclusion ==
  /\ Writers # {} => Readers = {} /\ Cardinality(Writers) = 1
  /\ lockState = IF Writers # {} THEN -1 ELSE Cardinality(Readers)
  /\ IsLock <=> Writers # {}

\* Every RLock and WLock returns, if holders unlock and no new calls come for
\* ever (with them either side can starve): in both modes, with barging
\* try-locks, and with waits that end spuriously and leave dead entries.
CallsReturn ==
  \A c \in Clients :
    /\ pc[c] = "rWait" ~> pc[c] = "reading"
    /\ pc[c] = "wWait" ~> pc[c] = "writing"
=============================================================================
