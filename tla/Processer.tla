------------------------------ MODULE Processer ------------------------------
(***************************************************************************)
(* The coroutine processers of libgo/scheduler/processer.cpp: every        *)
(* processer is a thread that runs Process(), which takes coroutines       *)
(* (Tasks) from its runnable queue and switches into them.  A coroutine    *)
(* yields, suspends itself until a Wakeup of its SuspendEntry, creates     *)
(* coroutines, wakes others, or finishes.  Native threads (and the timer   *)
(* thread) create and wake coroutines too.  The dispatcher thread steals   *)
(* tasks from one processer and hands them to another.                     *)
(*                                                                         *)
(* One action is one critical section of a queue lock, or one unlocked     *)
(* access that another thread can observe.  runnableQueue_ and waitQueue_  *)
(* of a processer share one lock (processer.cpp:17), newQueue_ has its     *)
(* own, gcQueue_ belongs to the processer's thread.                        *)
(***************************************************************************)
EXTENDS TSQueue, FiniteSets

CONSTANTS
  Procs,      \* the processers, each with its thread
  Tasks,      \* the coroutines
  Natives,    \* native threads, which create and wake coroutines
  Wakers,     \* the threads that call Wakeup, native or processer
  Spurious,   \* whether std::condition_variable may wake spuriously
  Drops,      \* whether clients drop SuspendEntries before the task is freed
  SelfWake,   \* whether a coroutine may wake itself before it has switched out
  IdMod,      \* number of values of a suspend id (2^64 in the code)
  GcLimit,    \* gcQueue_ is collected when it is longer than this (16)
  StealSizes, \* the n the dispatcher calls Steal(n) with; 0 stands for all
  Victims,    \* processers the dispatcher steals from; {} when it is not started
  Receivers,  \* processers it hands the stolen tasks to
  Stoppable,  \* whether somebody calls Scheduler::Stop
  None        \* the null pointer

Callers == Procs \cup Natives

ASSUME ProcesserAssumption ==
  /\ None \notin Tasks /\ None \notin Procs
  /\ Procs \cap Natives = {}
  /\ Wakers \subseteq Callers
  /\ IdMod \in Nat /\ IdMod > 0 /\ IdMod % 2 = 0
  /\ GcLimit \in Nat
  /\ StealSizes \subseteq Nat
  /\ Victims \subseteq Procs /\ Receivers \subseteq Procs
  /\ Stoppable \in BOOLEAN /\ SelfWake \in BOOLEAN
  /\ Spurious \in BOOLEAN /\ Drops \in BOOLEAN

\* The lists a task can be linked into: the four queues of a processer, the
\* SList a processer holds inside AddNewTasks, and the dispatcher's two.
New(p)  == <<"new", p>>
Run(p)  == <<"run", p>>
Wait(p) == <<"wait", p>>
Gc(p)   == <<"gc", p>>
Held(p) == <<"held", p>>
Slist   == <<"slist", "dispatcher">>
Stolen  == <<"stolen", "dispatcher">>

Places == ({"new", "run", "wait", "gc", "held"} \X Procs) \cup {Slist, Stolen}

Ids == 0..(IdMod - 1)

VARIABLES
  queue,        \* the sequence of tasks on every list
  check,        \* Task::check_, the queue a task was last pushed on or read from
  state,        \* Task::state_; "new" before CreateTask, "freed" after GC
  proc,         \* Task::proc_
  suspendId,    \* Task's suspend id
  entries,      \* ids of the SuspendEntry copies of a task that clients hold
  pc,           \* where a processer's thread is
  ret,          \* where AddNewTasks returns to
  runningTask, nextTask, addNewQuota,   \* members of Processer
  waiting, notified,
  wpc, wtk, wid, wproc,  \* the Wakeup call a thread is in, and its locals
  spc, victim, sn,       \* the Steal call of the dispatcher, and its locals
  stop, toNotify         \* Scheduler::stop_, processers Stop() has still to notify

taskVars == <<check, state, proc, suspendId, entries>>
procVars == <<pc, ret, runningTask, nextTask, addNewQuota, waiting, notified>>
wakeVars == <<wpc, wtk, wid, wproc>>
stealVars == <<spc, victim, sn>>
stopVars == <<stop, toNotify>>
vars == <<queue, taskVars, procVars, wakeVars, stealVars, stopVars>>

Init ==
  /\ queue = [l \in Places |-> <<>>]
  /\ check = [t \in Tasks |-> None]
  /\ state = [t \in Tasks |-> "new"]
  /\ proc = [t \in Tasks |-> None]
  /\ suspendId = [t \in Tasks |-> 0]
  /\ entries = [t \in Tasks |-> {}]
  /\ pc = [p \in Procs |-> "front"]
  /\ ret = [p \in Procs |-> "front"]
  /\ runningTask = [p \in Procs |-> None]
  /\ nextTask = [p \in Procs |-> None]
  /\ addNewQuota = [p \in Procs |-> 0]
  /\ waiting = [p \in Procs |-> FALSE]
  /\ notified = [p \in Procs |-> FALSE]
  /\ wpc = [c \in Callers |-> "idle"]
  /\ wtk = [c \in Callers |-> None]
  /\ wid = [c \in Callers |-> 0]
  /\ wproc = [c \in Callers |-> None]
  /\ spc = "idle"
  /\ victim = None
  /\ sn = 0
  /\ stop = FALSE
  /\ toNotify = {}

-----------------------------------------------------------------------------
(* Pieces the actions share.                                               *)

Notify_NoFlag(p) ==
  /\ pc' = [pc EXCEPT ![p] = IF @ = "cvwait" THEN "woken" ELSE @]
  /\ UNCHANGED notified

\* Under newQueue_'s lock: wake the thread if it sleeps in cv_.wait, else
\* leave the flag that makes its next WaitCondition return at once.
Notify(p) ==
  IF waiting[p]
  THEN /\ pc' = [pc EXCEPT ![p] = IF @ = "cvwait" THEN "woken" ELSE @]
       /\ UNCHANGED notified
  ELSE /\ notified' = [notified EXCEPT ![p] = TRUE]
       /\ UNCHANGED pc

Stamp_Never(t, p) == check

\* runnableQueue_.front/next write the out pointer and stamp the task's check_.
Stamp(t, p) == IF t = None THEN check ELSE [check EXCEPT ![t] = Run(p)]

\* Process() goes on with runningTask_ if there is one, else to the outer loop.
Continue(p, t) == pc' = [pc EXCEPT ![p] = IF t = None THEN "front" ELSE "loop"]

CallAddNewTasks(p, back) ==
  /\ pc' = [pc EXCEPT ![p] = "popNew"]
  /\ ret' = [ret EXCEPT ![p] = back]

ReturnAddNewTasks(p) ==
  /\ pc' = [pc EXCEPT ![p] = ret[p]]
  /\ ret' = [ret EXCEPT ![p] = "front"]

\* Processer::GC(): the thread drops the references of the finished tasks.
Freed(p) == [t \in Tasks |-> IF t \in Elems(queue[Gc(p)]) THEN "freed" ELSE state[t]]

\* The suspend id is an unsigned counter.
Inc(i) == IF i + 1 = IdMod THEN 0 ELSE i + 1

Expire_Never(i) == i

\* WakeupBySelf() makes the entry it served, and every copy of it, expire.
Expire(i) == Inc(i)

QuotaLeft_OffByOne(p) == addNewQuota[p] >= 0

\* Process() may call AddNewTasks again in this round.
QuotaLeft(p) == addNewQuota[p] >= 1

\* A Wakeup call returns, its locals are gone.
WakeupReturn(c) ==
  /\ wpc' = [wpc EXCEPT ![c] = "idle"]
  /\ wtk' = [wtk EXCEPT ![c] = None]
  /\ wid' = [wid EXCEPT ![c] = 0]
  /\ wproc' = [wproc EXCEPT ![c] = None]

\* A thread that executes client code: a native thread, or a processer inside
\* the coroutine it runs.
InClient(c) == wpc[c] = "idle" /\ (c \in Procs => pc[c] = "task")

-----------------------------------------------------------------------------
(* Process(), processer.cpp:71.                                            *)

\* Lines 80-82 and 99: leave on stop, otherwise take the head of the queue.
TakeFront(p) ==
  /\ pc[p] = "front"
  /\ IF stop
     THEN /\ pc' = [pc EXCEPT ![p] = "exit"]
          /\ UNCHANGED <<ret, check, runningTask, addNewQuota>>
     ELSE LET t == FrontOf(queue[Run(p)], None) IN
          /\ runningTask' = [runningTask EXCEPT ![p] = t]
          /\ check' = Stamp(t, p)
          /\ IF t = None
             THEN CallAddNewTasks(p, "refront") /\ UNCHANGED addNewQuota
             ELSE /\ addNewQuota' = [addNewQuota EXCEPT ![p] = 1]
                  /\ pc' = [pc EXCEPT ![p] = "loop"]
                  /\ UNCHANGED ret
  /\ UNCHANGED <<queue, state, proc, suspendId, entries, nextTask, waiting, notified,
                 wakeVars, stealVars, stopVars>>

\* AddNewTasks(), line 242: newQueue_.pop_all() ...
PopNew(p) ==
  /\ pc[p] = "popNew"
  /\ queue' = [queue EXCEPT ![New(p)] = <<>>, ![Held(p)] = queue[New(p)]]
  /\ IF queue[New(p)] = <<>>
     THEN ReturnAddNewTasks(p)
     ELSE pc' = [pc EXCEPT ![p] = "pushNew"] /\ UNCHANGED ret
  /\ UNCHANGED <<taskVars, runningTask, nextTask, addNewQuota, waiting, notified,
                 wakeVars, stealVars, stopVars>>

\* ... and runnableQueue_.push of what was popped, which returns at once when
\* that is nothing.
PushNew(p) ==
  /\ pc[p] = "pushNew"
  /\ queue' = [queue EXCEPT ![Held(p)] = <<>>,
                            ![Run(p)] = queue[Run(p)] \o queue[Held(p)]]
  /\ ReturnAddNewTasks(p)
  /\ UNCHANGED <<taskVars, runningTask, nextTask, addNewQuota, waiting, notified,
                 wakeVars, stealVars, stopVars>>

\* Lines 86-88.
Refront(p) ==
  /\ pc[p] = "refront"
  /\ LET t == FrontOf(queue[Run(p)], None) IN
     /\ runningTask' = [runningTask EXCEPT ![p] = t]
     /\ check' = Stamp(t, p)
     /\ IF t = None
        THEN pc' = [pc EXCEPT ![p] = "wait"] /\ UNCHANGED addNewQuota
        ELSE /\ addNewQuota' = [addNewQuota EXCEPT ![p] = 1]
             /\ pc' = [pc EXCEPT ![p] = "loop"]
  /\ UNCHANGED <<queue, state, proc, suspendId, entries, ret, nextTask, waiting, notified,
                 wakeVars, stealVars, stopVars>>

\* WaitCondition(), line 215: collect, then consume the flag or sleep.
WaitCondition(p) ==
  /\ pc[p] = "wait"
  /\ state' = Freed(p)
  /\ queue' = [queue EXCEPT ![Gc(p)] = <<>>]
  /\ IF notified[p]
     THEN /\ notified' = [notified EXCEPT ![p] = FALSE]
          /\ CallAddNewTasks(p, "front")
          /\ UNCHANGED waiting
     ELSE /\ waiting' = [waiting EXCEPT ![p] = TRUE]
          /\ pc' = [pc EXCEPT ![p] = "cvwait"]
          /\ UNCHANGED <<notified, ret>>
  /\ UNCHANGED <<check, proc, suspendId, entries, runningTask, nextTask, addNewQuota,
                 wakeVars, stealVars, stopVars>>

\* cv_.wait may return without a notification.
SpuriousWake(p) ==
  /\ Spurious /\ pc[p] = "cvwait"
  /\ pc' = [pc EXCEPT ![p] = "woken"]
  /\ UNCHANGED <<queue, taskVars, ret, runningTask, nextTask, addNewQuota, waiting,
                 notified, wakeVars, stealVars, stopVars>>

\* Line 228, back under the lock, then line 90.
AfterWait(p) ==
  /\ pc[p] = "woken"
  /\ waiting' = [waiting EXCEPT ![p] = FALSE]
  /\ CallAddNewTasks(p, "front")
  /\ UNCHANGED <<queue, taskVars, runningTask, nextTask, addNewQuota, notified,
                 wakeVars, stealVars, stopVars>>

\* Lines 100-124: the stop test of the inner loop, then switch into the task.
SwapIn(p) ==
  /\ pc[p] = "loop"
  /\ IF stop
     THEN pc' = [pc EXCEPT ![p] = "front"] /\ UNCHANGED <<state, proc>>
     ELSE /\ state' = [state EXCEPT ![runningTask[p]] = "runnable"]
          /\ proc' = [proc EXCEPT ![runningTask[p]] = p]
          /\ pc' = [pc EXCEPT ![p] = "task"]
  /\ UNCHANGED <<queue, check, suspendId, entries, ret, runningTask, nextTask,
                 addNewQuota, waiting, notified, wakeVars, stealVars, stopVars>>

\* CoYield() and lines 131-156: the coroutine switches back to Process() and stays
\* on the runnable queue.
CoYield(p) ==
  /\ pc[p] = "task" /\ wpc[p] = "idle"
  /\ state[runningTask[p]] = "runnable"
  /\ LET next == NextOf(queue[Run(p)], runningTask[p], None) IN
     \/ /\ next # None
        /\ runningTask' = [runningTask EXCEPT ![p] = next]
        /\ check' = Stamp(next, p)
        /\ pc' = [pc EXCEPT ![p] = "loop"]
        /\ UNCHANGED ret
     \/ /\ next = None
        /\ ~QuotaLeft(p) \/ queue[New(p)] = <<>>
        /\ runningTask' = [runningTask EXCEPT ![p] = None]
        /\ pc' = [pc EXCEPT ![p] = "front"]
        /\ UNCHANGED <<ret, check>>
     \/ /\ next = None
        /\ QuotaLeft(p) /\ queue[New(p)] # <<>>
        /\ CallAddNewTasks(p, "nextYield")
        /\ UNCHANGED <<runningTask, check>>
  /\ UNCHANGED <<queue, state, proc, suspendId, entries, nextTask, addNewQuota, waiting,
                 notified, wakeVars, stealVars, stopVars>>

\* Lines 147-148.
NextAfterYield(p) ==
  /\ pc[p] = "nextYield"
  /\ LET next == NextOf(queue[Run(p)], runningTask[p], None) IN
     /\ runningTask' = [runningTask EXCEPT ![p] = next]
     /\ check' = Stamp(next, p)
     /\ Continue(p, next)
  /\ addNewQuota' = [addNewQuota EXCEPT ![p] = @ - 1]
  /\ UNCHANGED <<queue, state, proc, suspendId, entries, ret, nextTask, waiting, notified,
                 wakeVars, stealVars, stopVars>>

\* runningTask_ = nextTask_, nextTask_ = nullptr.
Advance(p) ==
  /\ runningTask' = [runningTask EXCEPT ![p] = nextTask[p]]
  /\ nextTask' = [nextTask EXCEPT ![p] = None]
  /\ Continue(p, nextTask[p])
  /\ UNCHANGED <<queue, taskVars, ret, addNewQuota, waiting, notified,
                 wakeVars, stealVars, stopVars>>

\* CoYield() of a coroutine that has suspended itself, and lines 158-165.
SwitchOut(p) ==
  /\ pc[p] = "task" /\ wpc[p] = "idle"
  /\ state[runningTask[p]] = "block"
  /\ Advance(p)

\* Lines 189-191: the coroutine is done.
AdvanceDone(p) ==
  /\ pc[p] = "advance"
  /\ Advance(p)

\* The end of Task::Run(), task.cpp:72: the coroutine's function has returned.
RunReturns(p) ==
  /\ pc[p] = "task" /\ wpc[p] = "idle"
  /\ state[runningTask[p]] = "runnable"
  /\ state' = [state EXCEPT ![runningTask[p]] = "done"]

\* ... and lines 167-173: look for its successor.
Finish(p) ==
  /\ RunReturns(p)
  /\ LET next == NextOf(queue[Run(p)], runningTask[p], None) IN
     /\ nextTask' = [nextTask EXCEPT ![p] = next]
     /\ check' = Stamp(next, p)
     /\ IF next = None /\ QuotaLeft(p)
        THEN CallAddNewTasks(p, "nextDone")
        ELSE pc' = [pc EXCEPT ![p] = "erase"] /\ UNCHANGED ret
  /\ UNCHANGED <<queue, proc, suspendId, entries, runningTask, addNewQuota,
                 waiting, notified, wakeVars, stealVars, stopVars>>

\* Lines 174-175.
NextAfterDone(p) ==
  /\ pc[p] = "nextDone"
  /\ LET next == NextOf(queue[Run(p)], runningTask[p], None) IN
     /\ nextTask' = [nextTask EXCEPT ![p] = next]
     /\ check' = Stamp(next, p)
  /\ addNewQuota' = [addNewQuota EXCEPT ![p] = @ - 1]
  /\ pc' = [pc EXCEPT ![p] = "erase"]
  /\ UNCHANGED <<queue, state, proc, suspendId, entries, ret, runningTask, waiting,
                 notified, wakeVars, stealVars, stopVars>>

\* Lines 180-183: unlink the finished task, collect if there is much to
\* collect, queue the task for the next collection.
EraseDone(p) ==
  /\ pc[p] = "erase"
  /\ LET t == runningTask[p]
         full == Len(queue[Gc(p)]) > GcLimit
     IN /\ queue' = [queue EXCEPT
                       ![Run(p)] = Erase(queue[Run(p)], t),
                       ![Gc(p)] = Append(IF full THEN <<>> ELSE queue[Gc(p)], t)]
        /\ state' = IF full THEN Freed(p) ELSE state
        /\ check' = [check EXCEPT ![t] = Gc(p)]
  /\ pc' = [pc EXCEPT ![p] = "advance"]
  /\ UNCHANGED <<proc, suspendId, entries, ret, runningTask, nextTask, addNewQuota,
                 waiting, notified, wakeVars, stealVars, stopVars>>

-----------------------------------------------------------------------------
(* What the running coroutine and the other clients do.                    *)

\* SuspendBySelf(), lines 346-352: before the lock is taken.  The guard on the
\* new id stands for the 64-bit range of the counter: an id is not reused while
\* a client still holds an entry with it.
SuspendBegin(p) ==
  LET t == runningTask[p]
      id == Inc(suspendId[t])
  IN /\ pc[p] = "task" /\ wpc[p] = "idle"
     /\ state[t] = "runnable"
     /\ id \notin entries[t]
     /\ \A c \in Callers : ~(wpc[c] # "idle" /\ wtk[c] = t /\ wid[c] = id)
     /\ state' = [state EXCEPT ![t] = "block"]
     /\ suspendId' = [suspendId EXCEPT ![t] = id]
     /\ pc' = [pc EXCEPT ![p] = "suspend"]
     /\ UNCHANGED <<queue, check, proc, entries, ret, runningTask, nextTask, addNewQuota,
                    waiting, notified, wakeVars, stealVars, stopVars>>

\* Lines 354-360: move the running task to the wait queue, return the entry.
SuspendEnd(p) ==
  LET t == runningTask[p]
      next == NextOf(queue[Run(p)], t, None)
  IN /\ pc[p] = "suspend"
     /\ nextTask' = [nextTask EXCEPT ![p] = next]
     /\ queue' = [queue EXCEPT ![Run(p)] = Erase(queue[Run(p)], t),
                               ![Wait(p)] = Append(queue[Wait(p)], t)]
     /\ check' = [Stamp(next, p) EXCEPT ![t] = Wait(p)]
     /\ entries' = [entries EXCEPT ![t] = @ \cup {suspendId[t]}]
     /\ pc' = [pc EXCEPT ![p] = "task"]
     /\ UNCHANGED <<state, proc, suspendId, ret, runningTask, addNewQuota, waiting,
                    notified, wakeVars, stealVars, stopVars>>

\* A client drops its last copy of a SuspendEntry that has expired.
DropEntry(t, i) ==
  /\ Drops
  /\ i \in entries[t] /\ i # suspendId[t]
  /\ entries' = [entries EXCEPT ![t] = @ \ {i}]
  /\ UNCHANGED <<queue, check, state, proc, suspendId, procVars, wakeVars, stealVars,
                 stopVars>>

\* CreateTask() and AddTask(Task*): the new task goes to some processer.
AddTask(c, t, p) ==
  /\ InClient(c)
  /\ state[t] = "new"
  /\ state' = [state EXCEPT ![t] = "runnable"]
  /\ queue' = [queue EXCEPT ![New(p)] = Append(@, t)]
  /\ check' = [check EXCEPT ![t] = New(p)]
  /\ Notify(p)
  /\ UNCHANGED <<proc, suspendId, entries, ret, runningTask, nextTask, addNewQuota,
                 waiting, wakeVars, stealVars, stopVars>>

\* Wakeup(), lines 371-376: promote the weak pointer and read proc_.
WakeupBegin(c, t, i) ==
  /\ c \in Wakers /\ InClient(c)
  /\ (c \in Procs /\ runningTask[c] = t) => SelfWake
  /\ i \in entries[t]
  /\ state[t] # "freed"
  /\ wpc' = [wpc EXCEPT ![c] = "wakeup"]
  /\ wtk' = [wtk EXCEPT ![c] = t]
  /\ wid' = [wid EXCEPT ![c] = i]
  /\ wproc' = [wproc EXCEPT ![c] = proc[t]]
  /\ UNCHANGED <<queue, taskVars, procVars, stealVars, stopVars>>

\* WakeupBySelf(), lines 384 and 387: the entry has expired.
WakeupExpired(c) ==
  /\ wpc[c] = "wakeup"
  /\ wid[c] # suspendId[wtk[c]]
  /\ WakeupReturn(c)
  /\ UNCHANGED <<queue, taskVars, procVars, stealVars, stopVars>>

\* Lines 386-397, one critical section.
WakeupHit(c) ==
  LET t == wtk[c]
      p == wproc[c]
  IN /\ wpc[c] = "wakeup"
     /\ wid[c] = suspendId[t]
     /\ suspendId' = [suspendId EXCEPT ![t] = Expire(@)]
     /\ queue' = [queue EXCEPT ![Wait(p)] = Erase(queue[Wait(p)], t),
                               ![Run(p)] = Append(queue[Run(p)], t)]
     /\ check' = [check EXCEPT ![t] = Run(p)]
     /\ IF queue[Run(p)] = <<>> /\ c # p
        THEN wpc' = [wpc EXCEPT ![c] = "notify"] /\ UNCHANGED <<wtk, wid, wproc>>
        ELSE WakeupReturn(c)
     /\ UNCHANGED <<state, proc, entries, procVars, stealVars, stopVars>>

\* Lines 398-399.
WakeupNotify(c) ==
  /\ wpc[c] = "notify"
  /\ Notify(wproc[c])
  /\ WakeupReturn(c)
  /\ UNCHANGED <<queue, taskVars, ret, runningTask, nextTask, addNewQuota, waiting,
                 stealVars, stopVars>>

-----------------------------------------------------------------------------
(* The dispatcher thread: Steal(n), n = 0 for all, and what it deals out.  *)

\* Steal(), lines 268-274 and 293-297: take from newQueue_, perhaps enough.
StealNew(p, n) ==
  LET s == queue[New(p)]
      k == IF n = 0 THEN Len(s) ELSE n
      enough == n > 0 /\ Len(s) >= n
  IN /\ p \in Victims /\ ~stop
     /\ spc = "idle"
     /\ queue' = [queue EXCEPT
                    ![New(p)] = BackLeft(s, k),
                    ![Slist] = IF enough THEN <<>> ELSE BackTaken(s, k),
                    ![Stolen] = IF enough THEN @ \o BackTaken(s, k) ELSE @]
     /\ spc' = IF enough THEN "idle" ELSE "run"
     /\ victim' = IF enough THEN None ELSE p
     /\ sn' = IF enough THEN 0 ELSE n
     /\ UNCHANGED <<taskVars, procVars, wakeVars, stopVars>>

Protected_OnlyNext(p, t) == t # None /\ t = nextTask[p] /\ check[t] \in {Run(p), New(p)}

\* The running and the next task are taken off the queue when their check_ says
\* they are on it, and put back at the end: lines 277-286 and 300-309.
Protected(p, t) == t # None /\ check[t] \in {Run(p), New(p)}

PutBack(p) ==
  (IF Protected(p, runningTask[p]) THEN <<runningTask[p]>> ELSE <<>>)
    \o (IF Protected(p, nextTask[p]) THEN <<nextTask[p]>> ELSE <<>>)

EraseProtected(p, s, l) ==
  LET gone(t) == Protected(p, t) /\ check[t] = l
      s1 == IF gone(runningTask[p]) THEN Erase(s, runningTask[p]) ELSE s
  IN IF gone(nextTask[p]) THEN Erase(s1, nextTask[p]) ELSE s1

\* Lines 276-292 and 299-315, the critical section of the runnable queue.
StealRun ==
  LET p == victim
      s == EraseProtected(p, queue[Slist], New(p))
      r == EraseProtected(p, queue[Run(p)], Run(p))
      k == IF sn = 0 THEN Len(r) ELSE sn - Len(s)
  IN /\ spc = "run"
     /\ queue' = [queue EXCEPT
                    ![Slist] = <<>>,
                    ![Run(p)] = BackLeft(r, k) \o PutBack(p),
                    ![Stolen] = @ \o BackTaken(r, k) \o s]
     /\ check' = [t \in Tasks |->
                    IF t \in Elems(PutBack(p)) THEN Run(p) ELSE check[t]]
     /\ spc' = "idle" /\ victim' = None /\ sn' = 0
     /\ UNCHANGED <<state, proc, suspendId, entries, procVars, wakeVars, stopVars>>

\* DispatchBlocks and LoadBalance hand a cut of the stolen list to a processer:
\* AddTask(SList), processer.cpp:46.
AddTaskList(p, k) ==
  /\ spc = "idle"
  /\ k \in 1..Len(queue[Stolen])
  /\ queue' = [queue EXCEPT ![Stolen] = CutLeft(@, k),
                            ![New(p)] = @ \o CutTaken(queue[Stolen], k)]
  /\ Notify(p)
  /\ UNCHANGED <<taskVars, ret, runningTask, nextTask, addNewQuota, waiting,
                 wakeVars, stealVars, stopVars>>

-----------------------------------------------------------------------------
(* Scheduler::Stop(), scheduler.cpp:170.                                   *)
StopBegin ==
  /\ Stoppable /\ ~stop
  /\ stop' = TRUE
  /\ toNotify' = Procs
  /\ UNCHANGED <<queue, taskVars, procVars, wakeVars, stealVars>>

StopNotify(p) ==
  /\ p \in toNotify
  /\ toNotify' = toNotify \ {p}
  /\ Notify(p)
  /\ UNCHANGED <<queue, taskVars, ret, runningTask, nextTask, addNewQuota, waiting,
                 wakeVars, stealVars, stop>>

-----------------------------------------------------------------------------
\* The steps of Process() outside the coroutine.
ProcStep(p) ==
  \/ TakeFront(p) \/ PopNew(p) \/ PushNew(p) \/ Refront(p) \/ WaitCondition(p)
  \/ AfterWait(p) \/ SwapIn(p) \/ NextAfterYield(p) \/ NextAfterDone(p)
  \/ EraseDone(p) \/ AdvanceDone(p)

\* The coroutine gives its processer back.
Leave(p) == CoYield(p) \/ SwitchOut(p) \/ Finish(p) \/ SuspendBegin(p) \/ SuspendEnd(p)

WakeStep(c) == WakeupExpired(c) \/ WakeupHit(c) \/ WakeupNotify(c)

Dispatch ==
  \/ \E p \in Victims, n \in StealSizes : StealNew(p, n)
  \/ StealRun
  \/ \E p \in Receivers, k \in 1..Len(queue[Stolen]) : AddTaskList(p, k)

Next ==
  \/ \E p \in Procs : ProcStep(p) \/ SpuriousWake(p) \/ Leave(p)
  \/ \E c \in Callers : WakeStep(c)
  \/ \E c \in Callers, t \in Tasks, p \in Procs : AddTask(c, t, p)
  \/ \E c \in Wakers, t \in Tasks, i \in Ids : WakeupBegin(c, t, i)
  \/ \E t \in Tasks, i \in Ids : DropEntry(t, i)
  \/ Dispatch
  \/ StopBegin
  \/ \E p \in Procs : StopNotify(p)

Spec == Init /\ [][Next]_vars

\* Threads are scheduled, and a coroutine's code reaches its next switch (or
\* its end) however many wakeups it makes on the way.  Nothing forces a client
\* to create, wake or stop, nor the dispatcher to steal.
Fairness ==
  /\ \A p \in Procs : WF_vars(ProcStep(p)) /\ SF_vars(Leave(p)) /\ WF_vars(StopNotify(p))
  /\ \A c \in Callers : WF_vars(WakeStep(c))

FairSpec == Spec /\ Fairness

-----------------------------------------------------------------------------
(* Properties.                                                             *)

PcValues == {"front", "popNew", "pushNew", "refront", "wait", "cvwait", "woken", "loop",
             "task", "suspend", "nextYield", "nextDone", "erase", "advance", "exit"}

QueueType == queue \in [Places -> Seq(Tasks)]

TaskTypes ==
  /\ check \in [Tasks -> Places \cup {None}]
  /\ state \in [Tasks -> {"new", "runnable", "block", "done", "freed"}]
  /\ proc \in [Tasks -> Procs \cup {None}]
  /\ suspendId \in [Tasks -> Ids]
  /\ entries \in [Tasks -> SUBSET Ids]

ProcTypes ==
  /\ pc \in [Procs -> PcValues]
  /\ ret \in [Procs -> {"front", "refront", "nextYield", "nextDone"}]
  /\ runningTask \in [Procs -> Tasks \cup {None}]
  /\ nextTask \in [Procs -> Tasks \cup {None}]
  /\ addNewQuota \in [Procs -> {0, 1}]

FlagTypes ==
  /\ waiting \in [Procs -> BOOLEAN]
  /\ notified \in [Procs -> BOOLEAN]

WakeTypes ==
  /\ wpc \in [Callers -> {"idle", "wakeup", "notify"}]
  /\ wtk \in [Callers -> Tasks \cup {None}]
  /\ wid \in [Callers -> Ids]
  /\ wproc \in [Callers -> Procs \cup {None}]

StealTypes ==
  /\ spc \in {"idle", "run"}
  /\ victim \in Procs \cup {None}
  /\ sn \in Nat

StopTypes ==
  /\ stop \in BOOLEAN
  /\ toNotify \in SUBSET Procs

\* Every variable stays in its range.
TypeOK ==
  /\ QueueType /\ TaskTypes /\ ProcTypes /\ FlagTypes
  /\ WakeTypes /\ StealTypes /\ StopTypes

\* A created task that GC has not freed is linked into exactly one list, once: no
\* move of AddNewTasks, Steal, SuspendBySelf, WakeupBySelf or GC duplicates a task
\* or loses one.
OnePlace ==
  /\ \A l1 \in Places : \A i \in 1..Len(queue[l1]) :
       \A l2 \in Places : \A j \in 1..Len(queue[l2]) :
         queue[l1][i] = queue[l2][j] => l1 = l2 /\ i = j
  /\ \A t \in Tasks :
       state[t] \notin {"new", "freed"} <=> \E l \in Places : t \in Elems(queue[l])

\* Two processers never have the same coroutine as runningTask_, in particular
\* Steal never hands out a coroutine whose stack is in use, even one that was
\* woken between SuspendBySelf and its switch out.
RunsOnce ==
  \A p, q \in Procs : p # q /\ runningTask[p] # None => runningTask[p] # runningTask[q]

\* The assertions of eraseWithoutLock: when Steal trusts check_ the task really
\* is on that queue, and runningTask_ and nextTask_ never point to a freed task.
StealErasesLinked ==
  \A p \in Procs : \A t \in {runningTask[p], nextTask[p]} \ {None} :
    /\ check[t] = Run(p) <=> t \in Elems(queue[Run(p)])
    /\ check[t] # New(p)
    /\ state[t] # "freed"

\* An entry a client holds matches the suspend id exactly while the task is on
\* the wait queue of the processer that Wakeup will lock (assert(ret), line 393).
EntryValidIffWaiting ==
  \A t \in Tasks :
    /\ suspendId[t] \in entries[t] =>
         proc[t] # None /\ t \in Elems(queue[Wait(proc[t])])
    /\ \A c \in Callers : wpc[c] = "wakeup" /\ wtk[c] = t /\ wid[c] = suspendId[t] =>
         wproc[c] # None /\ t \in Elems(queue[Wait(wproc[c])])

\* No wakeup is lost: a processer that sleeps while it has work is about to be
\* notified by whoever gave it the work.
NoLostWakeup ==
  \A p \in Procs :
    pc[p] = "cvwait" /\ (queue[Run(p)] # <<>> \/ queue[New(p)] # <<>>) =>
      \E c \in Callers : wpc[c] = "notify" /\ wproc[c] = p

Runs(t) == \E p \in Procs : runningTask[p] = t /\ pc[p] \in {"task", "suspend"}

\* After Scheduler::Stop every processer's thread leaves Process(), whether it
\* was running, about to sleep or asleep when stop_ was set.
StopTerminates == stop ~> \A p \in Procs : pc[p] = "exit"

\* A task on the runnable queue gets its turn, as long as the processer keeps
\* finishing its rounds: yielding, woken and new tasks do not overtake for ever.
QueuedTaskRuns ==
  \A p \in Procs : []<>(pc[p] = "front") =>
    \A t \in Tasks :
      (t \in Elems(queue[Run(p)]) /\ state[t] # "done") ~> (Runs(t) \/ stop)
=============================================================================
