----------------------------- MODULE Dispatcher -----------------------------
(***************************************************************************)
(* The dispatcher thread of libgo/scheduler/scheduler.cpp: it looks at the *)
(* processers in turn, finds the ones that a coroutine has blocked, takes  *)
(* their other tasks away, balances the load of the rest, and starts a new *)
(* thread when all are blocked.  Scheduler::AddTask runs beside it.        *)
(*                                                                         *)
(* A processer is taken here as module Processer shows it to be: one       *)
(* sequence stands for newQueue_ and runnableQueue_, Steal and AddTask are *)
(* atomic, and no notification is lost.  What the dispatcher reads of one  *)
(* processer is one step, so all it has read is stale when it acts.        *)
(***************************************************************************)
EXTENDS Integers, SequencesExt

CONSTANTS
  Tasks,
  Stuck,     \* tasks that block their thread for ever
  Sleepers,  \* tasks that suspend themselves once
  Late,      \* tasks created after Start()
  MinThreads,  \* the values Start() may be given for minThreadNumber
  MaxThreadNumber,
  Native,    \* a native thread that creates tasks
  None

ASSUME DispatcherAssumption ==
  /\ Stuck \subseteq Tasks /\ Late \subseteq Tasks /\ Sleepers \subseteq Tasks \ Stuck
  /\ MaxThreadNumber \in Nat /\ MinThreads \subseteq 1..MaxThreadNumber

Procs == 0..(MaxThreadNumber - 1)

VARIABLES
  minThreadNumber,
  count,      \* processers_.size()
  active,     \* active_ of a processer
  waiting,    \* waiting_
  marked,     \* markSwitch_ = switchCount_: no task switch since Mark()
  old,        \* Mark() was more than cycle_timeout_us ago
  queue,      \* tasks that wait to run
  running,    \* runningTask_
  lastActive, \* lastActive_
  asleep,     \* the processer a suspended task is on
  napped,     \* tasks that have been suspended
  fresh, done, \* tasks not created yet, and finished ones
  adding,     \* CreateTask calls: by whom, and the processer chosen
  d           \* the locals of DispatcherThread

procVars == <<waiting, marked, old, running>>
taskVars == <<asleep, napped, fresh, done, adding>>
sizes == <<minThreadNumber, count>>
vars == <<sizes, active, procVars, queue, lastActive, taskVars, d>>

Existing == 0..(count - 1)

\* The dispatcher sleeps, and will go on with its first scan.
DIdle == [pc |-> "scan1", i |-> 0, activeCount |-> 0, quota |-> 0, activeTasks |-> 0,
          actives |-> <<>>, blockings |-> <<>>, steals |-> <<>>, tasks |-> <<>>, hands |-> <<>>]

\* Start() has made minThreadNumber processers; what was created before is on the
\* first.
Init ==
  /\ minThreadNumber \in MinThreads
  /\ count = minThreadNumber
  /\ active = [p \in Procs |-> TRUE]
  /\ waiting = [p \in Procs |-> FALSE]
  /\ marked = [p \in Procs |-> FALSE]
  /\ old = [p \in Procs |-> FALSE]
  /\ \E q \in SetToSeqs(Tasks \ Late) : queue = [p \in Procs |-> IF p = 0 THEN q ELSE <<>>]
  /\ running = [p \in Procs |-> None]
  /\ lastActive = 0
  /\ asleep = [t \in Tasks |-> None]
  /\ napped = {}
  /\ fresh = Late /\ done = {}
  /\ adding = [t \in Tasks |-> None]
  /\ d = DIdle

-----------------------------------------------------------------------------
(* A processer's thread.                                                   *)

\* WaitCondition with nothing to do.
Wait(p) ==
  /\ p \in Existing /\ running[p] = None /\ queue[p] = <<>> /\ ~waiting[p]
  /\ waiting' = [waiting EXCEPT ![p] = TRUE]
  /\ UNCHANGED <<sizes, active, marked, old, running, queue, lastActive, taskVars, d>>

\* cv_.wait returns: there was a task when it was notified.
Wake(p) ==
  /\ waiting[p] /\ queue[p] # <<>>
  /\ waiting' = [waiting EXCEPT ![p] = FALSE]
  /\ UNCHANGED <<sizes, active, marked, old, running, queue, lastActive, taskVars, d>>

\* Process() switches to the next task: ++switchCount_.
RunTask(p) ==
  /\ p \in Existing /\ running[p] = None /\ queue[p] # <<>> /\ ~waiting[p]
  /\ running' = [running EXCEPT ![p] = Head(queue[p])]
  /\ queue' = [queue EXCEPT ![p] = Tail(@)]
  /\ marked' = [marked EXCEPT ![p] = FALSE]
  /\ old' = [old EXCEPT ![p] = FALSE]
  /\ UNCHANGED <<sizes, active, waiting, lastActive, taskVars, d>>

Leave(p) ==
  /\ running[p] \notin Stuck \cup {None}
  /\ \A t \in Tasks : adding[t] # None => adding[t].by # p
  /\ running' = [running EXCEPT ![p] = None]

Finish(p) ==
  /\ Leave(p)
  /\ done' = done \cup {running[p]}
  /\ UNCHANGED <<sizes, active, waiting, marked, old, queue, lastActive, asleep, napped,
                 fresh, adding, d>>

\* The task suspends itself.
Suspend(p) ==
  /\ running[p] \in Sleepers \ napped
  /\ Leave(p)
  /\ asleep' = [asleep EXCEPT ![running[p]] = p]
  /\ napped' = napped \cup {running[p]}
  /\ UNCHANGED <<sizes, active, waiting, marked, old, queue, lastActive, fresh, done, adding, d>>

\* WakeupBySelf: back to the processer the task was on, active or not.
Wakeup(t) ==
  /\ asleep[t] # None
  /\ queue' = [queue EXCEPT ![asleep[t]] = Append(@, t)]
  /\ asleep' = [asleep EXCEPT ![t] = None]
  /\ UNCHANGED <<sizes, active, procVars, lastActive, napped, fresh, done, adding, d>>

\* The clock passes markTick_ + cycle_timeout_us.
CycleTimeout(p) ==
  /\ marked[p] /\ ~old[p]
  /\ old' = [old EXCEPT ![p] = TRUE]
  /\ UNCHANGED <<sizes, active, waiting, marked, running, queue, lastActive, taskVars, d>>

IsBlocking(p) == marked[p] /\ old[p]
RunnableSize(p) == Len(queue[p]) + (IF running[p] = None THEN 0 ELSE 1)

-----------------------------------------------------------------------------
(* CreateTask and AddTask.                                                 *)

\* The first active processer from lastActive_ on; if there is none, the last
\* one that was looked at.
FromLastActive ==
  LET at(i) == (lastActive + i) % count
      ks == {i \in Existing : active[at(i)]}
  IN IF ks = {} THEN at(count - 1) ELSE at(Min(ks))

\* Choose a processer: a coroutine prefers its own.
PickProc(t, by) ==
  /\ t \in fresh
  /\ \A u \in Tasks : adding[u] # None => adding[u].by # by
  /\ \/ by = Native
     \/ by \in Existing /\ running[by] \notin Stuck \cup {None}
  /\ fresh' = fresh \ {t}
  /\ adding' = [adding EXCEPT ![t] =
       [by |-> by, to |-> IF by # Native /\ active[by] THEN by ELSE FromLastActive]]
  /\ UNCHANGED <<sizes, active, procVars, queue, lastActive, asleep, napped, done, d>>

\* Processer::AddTask.
AddTask(t) ==
  /\ adding[t] # None
  /\ queue' = [queue EXCEPT ![adding[t].to] = Append(@, t)]
  /\ adding' = [adding EXCEPT ![t] = None]
  /\ UNCHANGED <<sizes, active, procVars, lastActive, asleep, napped, fresh, done, d>>

-----------------------------------------------------------------------------
(* DispatcherThread, first the two scans.                                  *)

Quota_OffByOne(n) == IF n <= minThreadNumber THEN minThreadNumber - n + 1 ELSE 0

\* activeQuota, n processers being active.
Quota(n) == IF n < minThreadNumber THEN minThreadNumber - n ELSE 0

\* The first: blocked processers are no longer active.
Scan1 ==
  LET p == d.i
      blocking == ~waiting[p] /\ IsBlocking(p)
      act == active[p] /\ ~blocking
      n == d.activeCount + (IF act THEN 1 ELSE 0)
      last == p = count - 1
  IN /\ d.pc = "scan1"
     /\ active' = [active EXCEPT ![p] = act]
     /\ d' = [d EXCEPT !.blockings = IF blocking THEN Append(@, p) ELSE @,
                       !.activeCount = IF last THEN 0 ELSE n,
                       !.quota = IF last THEN Quota(n) ELSE 0,
                       !.i = IF last THEN 0 ELSE p + 1,
                       !.pc = IF last THEN "scan2" ELSE "scan1"]
     /\ UNCHANGED <<sizes, procVars, queue, lastActive, taskVars>>

\* multimap::insert of a load and its processer.
Insert(m, e) ==
  LET k == Cardinality({i \in DOMAIN m : m[i][1] <= e[1]})
  IN SubSeq(m, 1, k) \o <<e>> \o SubSeq(m, k + 1, Len(m))

\* LoadBalance does something only when the smallest load is (nearly) nothing of
\* the average: x are the locals of the dispatcher.
Average(x) == x.activeTasks \div Len(x.actives)

BalanceSteals(x) ==
  IF x.actives[1][1] * 100 > Average(x) THEN <<>>
  ELSE LET over == SelectSeq(x.actives, LAMBDA a : a[1] > Average(x))
       IN Reverse([i \in DOMAIN over |-> <<over[i][2], over[i][1] - Average(x)>>])

\* On to LoadBalance.
GoBalance(x) == IF BalanceSteals(x) = <<>> THEN DIdle
                ELSE [x EXCEPT !.pc = "balance", !.hands = <<>>, !.steals = BalanceSteals(x)]

\* On to DispatchBlocks, which returns at once when nothing is blocked.
GoBlocks(x) == IF x.blockings = <<>> THEN GoBalance(x) ELSE [x EXCEPT !.pc = "blocks"]

Mark_Again(p, act) == act /\ running[p] # None

\* Mark() of an active processer notes the time unless it did since the last switch.
Mark(p, act) == act /\ running[p] # None /\ ~marked[p]

\* The second: activate others up to minThreadNumber, take the loads, Mark().
Scan2 ==
  LET p == d.i
      load == RunnableSize(p)
      activate == ~active[p] /\ d.quota > 0 /\ (~IsBlocking(p) \/ waiting[p])
      act == active[p] \/ activate
      last == p = count - 1
      mark == Mark(p, act)
  IN /\ d.pc = "scan2"
     /\ active' = [active EXCEPT ![p] = act]
     /\ lastActive' = IF activate THEN p ELSE lastActive
     /\ marked' = [marked EXCEPT ![p] = @ \/ mark]
     /\ old' = [old EXCEPT ![p] = @ /\ ~mark]
     /\ d' = LET x == [d EXCEPT !.quota = IF last THEN 0 ELSE IF activate THEN @ - 1 ELSE @,
                                !.actives = IF act THEN Insert(@, <<load, p>>) ELSE @,
                                !.activeTasks = IF act THEN @ + load ELSE @,
                                !.i = IF last THEN 0 ELSE p + 1]
             IN IF ~last THEN x ELSE IF x.actives = <<>> THEN [x EXCEPT !.pc = "spawn"]
                ELSE GoBlocks(x)
     /\ UNCHANGED <<sizes, waiting, running, queue, taskVars>>

\* NewProcessThread() when no processer is active, or give up for this time.
Spawn ==
  /\ d.pc = "spawn"
  /\ IF count < MaxThreadNumber
     THEN /\ count' = count + 1 /\ UNCHANGED minThreadNumber
          /\ d' = GoBlocks([d EXCEPT !.actives = <<<<0, count>>>>])
     ELSE d' = DIdle /\ UNCHANGED sizes
  /\ UNCHANGED <<active, procVars, queue, lastActive, taskVars>>

-----------------------------------------------------------------------------
(* DispatchBlocks and LoadBalance.                                         *)

\* Steal(n) takes from the back, Steal(0) all; the running task is not taken.
Steal(p, n) ==
  LET keep == IF n = 0 \/ n > Len(queue[p]) THEN 0 ELSE Len(queue[p]) - n
  IN /\ queue' = [queue EXCEPT ![p] = SubSeq(@, 1, keep)]
     /\ d' = [d EXCEPT !.tasks = @ \o SubSeq(queue[p], keep + 1, Len(queue[p])),
                       !.blockings = IF n = 0 THEN Tail(@) ELSE @,
                       !.steals = IF n > 0 THEN Tail(@) ELSE @]
     /\ UNCHANGED <<sizes, active, procVars, lastActive, taskVars>>

StealBlocked == d.pc = "blocks" /\ d.blockings # <<>> /\ Steal(Head(d.blockings), 0)

\* SList::cut(n) from the tasks in hand, for processer p; n is unsigned, so that
\* a negative difference is a huge number.
Cut(h, n, p) ==
  LET k == IF n < 0 \/ n >= Len(h.tasks) THEN Len(h.tasks) ELSE n
  IN [h EXCEPT !.tasks = SubSeq(@, k + 1, Len(@)),
               !.hands = IF k = 0 THEN @ ELSE Append(@, <<p, SubSeq(h.tasks, 1, k)>>),
               !.done = @ \/ k = 0]

GiveRest_Lost(h, acts) == h.hands

\* What is left goes to the first processer, the one with the smallest load.
GiveRest(h, acts) ==
  IF h.tasks = <<>> THEN h.hands ELSE Append(h.hands, <<acts[1][2], h.tasks>>)

LoadSum(acts, k) == FoldLeft(LAMBDA s, a : s + a[1], 0, SubSeq(acts, 1, k))

\* DispatchBlocks: level the processers below the average up to it.  The first
\* one above the average is left out of the average but not of the loop.
BlockHands(tasks, acts) ==
  LET avgOf(k) == (Len(tasks) + LoadSum(acts, k)) \div k
      over == {k \in DOMAIN acts : acts[k][1] > avgOf(k)}
      avg == IF over = {} THEN avgOf(Len(acts)) ELSE avgOf(Min(over) - 1)
      upto == IF over = {} THEN Len(acts) ELSE Min(over)
      give(h, a) == IF h.done THEN h ELSE Cut(h, avg - a[1], a[2])
  IN GiveRest(FoldLeft(give, [tasks |-> tasks, hands |-> <<>>, done |-> FALSE],
                       SubSeq(acts, 1, upto)), acts)

BalanceHands(tasks, acts, avg) ==
  LET give(h, a) == IF a[1] >= avg THEN h ELSE Cut(h, avg - a[1], a[2])
  IN GiveRest(FoldLeft(give, [tasks |-> tasks, hands |-> <<>>, done |-> FALSE], acts), acts)

\* DispatchBlocks has taken all it wants.
DispatchBlocks ==
  /\ d.pc = "blocks" /\ d.blockings = <<>>
  /\ d' = IF d.tasks = <<>>
          THEN GoBalance(d)
          ELSE [d EXCEPT !.pc = "handBlocks", !.tasks = <<>>,
                         !.hands = BlockHands(d.tasks, d.actives)]
  /\ UNCHANGED <<sizes, active, procVars, queue, lastActive, taskVars>>

StealBalance ==
  d.pc = "balance" /\ d.steals # <<>> /\ Steal(d.steals[1][1], d.steals[1][2])

LoadBalance ==
  /\ d.pc = "balance" /\ d.steals = <<>>
  /\ d' = IF d.tasks = <<>> THEN DIdle
          ELSE [DIdle EXCEPT !.pc = "handBalance",
                             !.hands = BalanceHands(d.tasks, d.actives, Average(d))]
  /\ UNCHANGED <<sizes, active, procVars, queue, lastActive, taskVars>>

\* AddTask(SList) of the next processer.
HandOver ==
  /\ d.hands # <<>>
  /\ LET p == d.hands[1][1] IN queue' = [queue EXCEPT ![p] = @ \o d.hands[1][2]]
  /\ d' = IF Len(d.hands) > 1 THEN [d EXCEPT !.hands = Tail(@)]
          ELSE IF d.pc = "handBalance" THEN DIdle
          ELSE GoBalance(d)
  /\ UNCHANGED <<sizes, active, procVars, lastActive, taskVars>>

-----------------------------------------------------------------------------
DispatcherThread ==
  \/ Scan1 \/ Scan2 \/ Spawn \/ StealBlocked \/ DispatchBlocks
  \/ StealBalance \/ LoadBalance \/ HandOver

Next ==
  \/ \E p \in Procs : Wait(p) \/ Wake(p) \/ RunTask(p) \/ Finish(p) \/ Suspend(p) \/ CycleTimeout(p)
  \/ \E t \in Tasks : Wakeup(t) \/ AddTask(t) \/ \E by \in Procs \cup {Native} : PickProc(t, by)
  \/ DispatcherThread

Spec == Init /\ [][Next]_vars

\* Threads run and time passes.  The dispatcher sleeps between its rounds, long
\* enough for a processer that has tasks to take one.
Fairness ==
  /\ WF_vars(DispatcherThread)
  /\ WF_vars(\E p \in Procs : CycleTimeout(p))
  /\ WF_vars(\E t \in Tasks : Wakeup(t) \/ AddTask(t))
  /\ \A p \in Procs : SF_vars(Wake(p)) /\ SF_vars(RunTask(p)) /\ WF_vars(Wait(p) \/ Finish(p))

FairSpec == Spec /\ Fairness

-----------------------------------------------------------------------------
(* Properties.                                                             *)

Count(t, s) == Cardinality({i \in DOMAIN s : s[i] = t})

\* Where a task is linked, counted over all the lists there are.
Links(t) ==
  Cardinality({p \in Procs : running[p] = t}) + Count(t, d.tasks)
  + FoldFunction(+, 0, [p \in Procs |-> Count(t, queue[p])])
  + FoldLeft(LAMBDA n, h : n + Count(t, h[2]), 0, d.hands)
  + (IF asleep[t] # None THEN 1 ELSE 0) + (IF adding[t] # None THEN 1 ELSE 0)

\* No task is lost or duplicated, whatever the stale loads say the dispatcher
\* should take and give: a task that is nowhere has not been created or is done.
Conserved ==
  \A t \in Tasks : Links(t) = IF t \in fresh \cup done THEN 0 ELSE 1

\* No more than minThreadNumber processers are active, however blocking, waking,
\* activation and new threads follow one another.
ActiveBound ==
  Cardinality({p \in Existing : active[p]}) <= minThreadNumber

Queued(t) == \E p \in Procs : Count(t, queue[p]) > 0
Runs(t) == \E p \in Procs : running[p] = t

\* t is on a processer that is not active and was not marked since its stuck task
\* began: the dispatcher marks active processers only.
Overlooked(t) ==
  \E p \in Procs : Count(t, queue[p]) > 0 /\ ~active[p] /\ ~marked[p] /\ running[p] \in Stuck

\* Every task that waits behind others runs, although some block their thread for
\* ever, as long as one thread is left: it is stolen in time.  The exception is a
\* task on a processer the dispatcher overlooks.
EveryTaskRuns == \A t \in Tasks : Queued(t) ~> Runs(t) \/ Overlooked(t)

\* What the comment on DispatcherThread says (scheduler.h:99): the other tasks of
\* a processer that is blocked are stolen, so they run.
BlockedTasksStolen == \A t \in Tasks : Queued(t) ~> Runs(t)
=============================================================================
