------------------------------- MODULE CoMutex -------------------------------
(***************************************************************************)
(* The coroutine lock of libgo/sync/co_mutex.cpp: a counter sem_ on which  *)
(* lock() and unlock() first try their luck without any lock, and a slow   *)
(* path under lock_ with a condition variable and the flag notified_.      *)
(*                                                                         *)
(* sem_ is atomic, so every access to it is a step of its own.  What a     *)
(* call does under lock_ is one step: cv_.wait queues the caller before it *)
(* releases lock_, and notify_one() takes the head of that queue and       *)
(* resumes it.                                                             *)
(*                                                                         *)
(* The clients are coroutines: only a notification resumes a coroutine     *)
(* that waits without a timeout (module CondVar).  A native thread is not  *)
(* a client of this model: its wait is a bare std::condition_variable wait *)
(* (co_condition_variable.h:353-361) that may end unnotified, and lock()   *)
(* does not look at the result (co_mutex.cpp:27), so such a thread enters. *)
(* Nor is the sweep of PushQueue part of it, which may drop a waiter from  *)
(* a long queue (module CondVar): the queue stays shorter than that.       *)
(***************************************************************************)
EXTENDS Integers, Sequences, FiniteSets

CONSTANT Clients   \* the coroutines that share the lock

ASSUME CoMutexAssumption == IsFiniteSet(Clients)

VARIABLES
  sem,       \* sem_
  notified,  \* notified_
  cv,        \* the callers that wait on cv_, in the order of its queue
  pc         \* where a client is: "cs" when its lock() or try_lock() succeeded

vars == <<sem, notified, cv, pc>>

Init ==
  /\ sem = 1
  /\ notified = FALSE
  /\ cv = <<>>
  /\ pc = [c \in Clients |-> "idle"]

Goto(c, l) == pc' = [pc EXCEPT ![c] = l]

\* lock(), the fast path.
Lock(c) ==
  /\ pc[c] = "idle"
  /\ sem' = sem - 1
  /\ Goto(c, IF sem' = 0 THEN "cs" ELSE "slowLock")
  /\ UNCHANGED <<notified, cv>>

LockSlow_KeepsFlag(c) ==
  /\ pc[c] = "slowLock"
  /\ IF notified
     THEN Goto(c, "cs") /\ UNCHANGED cv
     ELSE cv' = Append(cv, c) /\ Goto(c, "wait")
  /\ UNCHANGED <<sem, notified>>

\* lock() under lock_: an unlock() that found nobody waiting has left the flag.
LockSlow(c) ==
  /\ pc[c] = "slowLock"
  /\ IF notified
     THEN notified' = FALSE /\ Goto(c, "cs") /\ UNCHANGED cv
     ELSE cv' = Append(cv, c) /\ Goto(c, "wait") /\ UNCHANGED notified
  /\ UNCHANGED sem

\* cv_.wait returns, in a coroutine that notify_one() has resumed.
Resume(c) ==
  /\ pc[c] = "woken"
  /\ Goto(c, "cs")
  /\ UNCHANGED <<sem, notified, cv>>

\* try_lock(): takes its chance and, when it has none, corrects the counter.
TryLock(c) ==
  /\ pc[c] = "idle"
  /\ sem' = sem - 1
  /\ Goto(c, IF sem' = 0 THEN "cs" ELSE "tryFail")
  /\ UNCHANGED <<notified, cv>>

TryLockFail(c) ==
  /\ pc[c] = "tryFail"
  /\ sem' = sem + 1
  /\ Goto(c, "idle")
  /\ UNCHANGED <<notified, cv>>

\* unlock(), the fast path.
Unlock(c) ==
  /\ pc[c] = "cs"
  /\ sem' = sem + 1
  /\ Goto(c, IF sem' = 1 THEN "idle" ELSE "slowUnlock")
  /\ UNCHANGED <<notified, cv>>

UnlockSlow_NoFlag(c) ==
  /\ pc[c] = "slowUnlock"
  /\ IF cv = <<>>
     THEN Goto(c, "idle") /\ UNCHANGED cv
     ELSE /\ cv' = Tail(cv)
          /\ pc' = [pc EXCEPT ![c] = "idle", ![Head(cv)] = "woken"]
  /\ UNCHANGED <<sem, notified>>

\* unlock() under lock_.
UnlockSlow(c) ==
  /\ pc[c] = "slowUnlock"
  /\ IF cv = <<>>
     THEN notified' = TRUE /\ Goto(c, "idle") /\ UNCHANGED cv
     ELSE /\ cv' = Tail(cv)
          /\ pc' = [pc EXCEPT ![c] = "idle", ![Head(cv)] = "woken"]
          /\ UNCHANGED notified
  /\ UNCHANGED sem

\* is_lock().
IsLock(s) == s < 1

LockCode(c) == LockSlow(c) \/ Resume(c) \/ UnlockSlow(c)

Next == \E c \in Clients : Lock(c) \/ Unlock(c) \/ LockCode(c)

Spec == Init /\ [][Next]_vars

\* The lock when clients call try_lock() too.
TryNext == Next \/ \E c \in Clients : TryLock(c) \/ TryLockFail(c)

TrySpec == Init /\ [][TryNext]_vars

\* A call that was begun is scheduled until it returns, and a holder unlocks.
Fairness == \A c \in Clients : WF_vars(LockCode(c)) /\ WF_vars(Unlock(c))

FairSpec == Spec /\ Fairness

-----------------------------------------------------------------------------
(* Properties.                                                             *)

PcValues == {"idle", "slowLock", "wait", "woken", "cs", "tryFail", "slowUnlock"}

\* Every variable stays in its range; sem_ counts each client at most once.
TypeOK ==
  /\ sem \in (1 - Cardinality(Clients))..1
  /\ notified \in BOOLEAN
  /\ cv \in Seq(Clients)
  /\ pc \in [Clients -> PcValues]

\* Two coroutines are never both between lock() and unlock().
MutualExclusion ==
  \A c, d \in Clients : pc[c] = "cs" /\ pc[d] = "cs" => c = d

\* is_lock() tells the truth: it is TRUE when somebody holds the lock, and when
\* it is FALSE nobody holds it, waits for it or is about to be given it.
IsLockTruthful ==
  (\E c \in Clients : pc[c] \notin {"idle", "slowUnlock", "tryFail"}) <=> IsLock(sem)

-----------------------------------------------------------------------------
\* The lock as its clients see it.  Between the last step of an unlock() and the
\* resumed lock() nobody holds it.
M == INSTANCE Mutex WITH
  phase <- [c \in Clients |->
              CASE pc[c] = "cs" -> "holding"
                [] pc[c] \in {"slowLock", "wait", "woken"} -> "asking"
                [] OTHER -> "out"]

\* CoMutex is a lock: safe, and every lock() returns if holders unlock.
RefinesMutex == M!FairSpec
=============================================================================
