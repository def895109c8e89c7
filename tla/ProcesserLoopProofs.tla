------------------------ MODULE ProcesserLoopProofs ------------------------
(***************************************************************************)
(* The inductive invariant of Processer's type correctness, and the proof  *)
(* that the steps of Process() and of the switches into and out of a       *)
(* coroutine keep it.                                                      *)
(***************************************************************************)
EXTENDS Processer, TSQueueLemmas

\* Where the thread of p is in Process(), AddNewTasks counted as its return point.
At(p) == IF pc[p] \in {"popNew", "pushNew"} THEN ret[p] ELSE pc[p]

\* Where Process() dereferences runningTask_.
Derefs == {"loop", "task", "suspend", "nextYield", "nextDone", "erase"}

\* The thread of p has a task where it dereferences runningTask_, has quota left
\* where it has called AddNewTasks after a task, and a coroutine that executes has
\* a processer.
LocalInv(p) ==
  /\ At(p) \in Derefs => runningTask[p] \in Tasks
  /\ At(p) \in {"nextYield", "nextDone"} => addNewQuota[p] = 1
  /\ pc[p] \in {"task", "suspend"} => proc[runningTask[p]] \in Procs

LocalInvs == \A p \in Procs : LocalInv(p)

\* A coroutine that somebody holds a SuspendEntry of has a processer.
EntryProc == \A t \in Tasks : entries[t] # {} => proc[t] \in Procs

\* A Wakeup call knows its task and the processer to wake.
WakeupTarget ==
  \A c \in Callers : wpc[c] # "idle" => wtk[c] \in Tasks /\ wproc[c] \in Procs

\* Steal goes on to the runnable queue only if newQueue_ did not have enough.
StealShort ==
  spc = "run" => /\ victim \in Procs
                 /\ sn > 0 => Len(queue[Slist]) < sn

\* The inductive strengthening of TypeOK.
TInv == TypeOK /\ LocalInvs /\ EntryProc /\ WakeupTarget /\ StealShort

-----------------------------------------------------------------------------
\* The lists of a processer are among the places, and the dispatcher's list Slist
\* is none of them.
LEMMA PlacesType ==
  /\ \A p \in Procs :
       {New(p), Run(p), Wait(p), Gc(p), Held(p)} \subseteq Places \ {Slist, Stolen}
  /\ Slist \in Places /\ Stolen \in Places /\ Slist # Stolen
BY DEF Places, New, Run, Wait, Gc, Held, Slist, Stolen

\* No task.
LEMMA EmptyType == <<>> \in Seq(Tasks)
OBVIOUS

\* Suspend ids stay in their range.
LEMMA IdsType == 0 \in Ids /\ \A i \in Ids : Inc(i) \in Ids
BY ProcesserAssumption DEF Ids, Inc

\* What the invariant says of the thread of q is undisturbed.
Untouched(q) ==
  /\ pc'[q] = pc[q] /\ ret'[q] = ret[q]
  /\ runningTask'[q] = runningTask[q] /\ addNewQuota'[q] = addNewQuota[q]
  /\ \A t \in Tasks : proc[t] \in Procs => proc'[t] \in Procs

\* A step of one thread keeps the invariant of the others.
LEMMA OthersKeep ==
  ASSUME TInv, NEW p \in Procs, LocalInv(p)',
         \A q \in Procs \ {p} : Untouched(q)
  PROVE  LocalInvs'
<1>1. ASSUME NEW q \in Procs \ {p} PROVE LocalInv(q)'
  BY DEF TInv, LocalInvs, LocalInv, At, Derefs, Untouched
<1> QED
  BY <1>1 DEF LocalInvs

\* Waking a thread, or leaving it the flag, moves it on only from cv_.wait.
LEMMA NotifyTypes ==
  ASSUME TInv, NEW p \in Procs, Notify(p),
         UNCHANGED <<proc, ret, runningTask, nextTask, addNewQuota, waiting>>
  PROVE  ProcTypes' /\ FlagTypes' /\ LocalInvs'
<1>1. /\ pc' \in [Procs -> PcValues]
      /\ \A q \in Procs : pc'[q] # pc[q] => pc[q] = "cvwait" /\ pc'[q] = "woken"
  BY DEF Notify, TInv, TypeOK, ProcTypes, PcValues
<1>2. ProcTypes'
  BY <1>1 DEF TInv, TypeOK, ProcTypes
<1>3. FlagTypes'
  BY DEF Notify, TInv, TypeOK, FlagTypes
<1>4. ASSUME NEW q \in Procs PROVE LocalInv(q)'
  <2>1. LocalInv(q)
    BY DEF TInv, LocalInvs
  <2>2. CASE pc'[q] = pc[q]
    BY <2>1, <2>2 DEF LocalInv, At
  <2>3. CASE pc'[q] = "woken"
    BY <2>3 DEF LocalInv, At, Derefs
  <2> QED
    BY <1>1, <2>2, <2>3
<1> QED
  BY <1>2, <1>3, <1>4 DEF LocalInvs

\* Line 82: runningTask_ becomes a task or null.
LEMMA TakeFrontTypes ==
  ASSUME TInv, NEW p \in Procs, TakeFront(p)
  PROVE  TInv'
<1>1. Run(p) \in Places
  BY PlacesType
<1>2. FrontOf(queue[Run(p)], None) \in Tasks \cup {None}
  BY PlacesType, FrontType DEF TInv, TypeOK, QueueType
<1>3. UNCHANGED <<queue, state, proc, suspendId, entries, nextTask, waiting, notified,
   wakeVars, stealVars, stopVars>>
  BY DEF TakeFront
<1>4. QueueType' /\ FlagTypes' /\ WakeTypes' /\ StealTypes' /\ StopTypes' /\ EntryProc' /\ WakeupTarget' /\ StealShort'
  BY <1>3 DEF TInv, TypeOK, QueueType, FlagTypes, WakeTypes, StealTypes, StopTypes,
     EntryProc, WakeupTarget, StealShort, wakeVars, stealVars, stopVars
<1>5. TaskTypes'
  BY <1>1, <1>2 DEF TakeFront, TInv, TypeOK, TaskTypes, Stamp
<1>6. ProcTypes'
  BY <1>2 DEF TakeFront, PcValues, TInv, TypeOK, ProcTypes, CallAddNewTasks
<1>7. \A q \in Procs \ {p} : Untouched(q)
  BY DEF Untouched, TakeFront, TInv, TypeOK, ProcTypes, TaskTypes, taskVars,
     CallAddNewTasks
<1>8. LocalInv(p)'
  BY <1>2 DEF TakeFront, TInv, TypeOK, ProcTypes, TaskTypes, LocalInvs, LocalInv, At,
     Derefs, CallAddNewTasks
<1>9. LocalInvs'
  BY <1>7, <1>8, OthersKeep
<1> QED
  BY <1>4, <1>5, <1>6, <1>9 DEF TInv, TypeOK

\* AddNewTasks() returns to where it was called, or goes on.
LEMMA PopNewTypes ==
  ASSUME TInv, NEW p \in Procs, PopNew(p)
  PROVE  TInv'
<1>1. UNCHANGED <<taskVars, runningTask, nextTask, addNewQuota, waiting, notified,
   wakeVars, stealVars, stopVars>>
  BY DEF PopNew
<1>2. TaskTypes' /\ FlagTypes' /\ WakeTypes' /\ StealTypes' /\ StopTypes' /\ EntryProc' /\ WakeupTarget'
  BY <1>1 DEF TInv, TypeOK, TaskTypes, FlagTypes, WakeTypes, StealTypes, StopTypes,
     EntryProc, WakeupTarget, taskVars, wakeVars, stealVars, stopVars
<1>3. QueueType'
  BY PlacesType, EmptyType DEF PopNew, TInv, TypeOK, QueueType
<1>4. ProcTypes'
  BY DEF PopNew, PcValues, TInv, TypeOK, ProcTypes, ReturnAddNewTasks
<1>5. \A q \in Procs \ {p} : Untouched(q)
  BY DEF Untouched, PopNew, TInv, TypeOK, ProcTypes, TaskTypes, taskVars,
     ReturnAddNewTasks
<1>6. LocalInv(p)'
  BY DEF PopNew, TInv, TypeOK, ProcTypes, TaskTypes, LocalInvs, LocalInv, At, Derefs,
     ReturnAddNewTasks
<1>7. LocalInvs'
  BY <1>5, <1>6, OthersKeep
<1>8. queue'[Slist] = queue[Slist]
  BY PlacesType DEF PopNew, TInv, TypeOK, QueueType
<1>9. StealShort'
  BY <1>8, <1>1 DEF TInv, StealShort, stealVars
<1> QED
  BY <1>2, <1>3, <1>4, <1>7, <1>9 DEF TInv, TypeOK

\* The second half of AddNewTasks().
LEMMA PushNewTypes ==
  ASSUME TInv, NEW p \in Procs, PushNew(p)
  PROVE  TInv'
<1>1. /\ Run(p) \in Places /\ Held(p) \in Places
      /\ queue[Run(p)] \o queue[Held(p)] \in Seq(Tasks)
  BY PlacesType, ConcatProperties DEF TInv, TypeOK, QueueType
<1>2. UNCHANGED <<taskVars, runningTask, nextTask, addNewQuota, waiting, notified,
   wakeVars, stealVars, stopVars>>
  BY DEF PushNew
<1>3. TaskTypes' /\ FlagTypes' /\ WakeTypes' /\ StealTypes' /\ StopTypes' /\ EntryProc' /\ WakeupTarget'
  BY <1>2 DEF TInv, TypeOK, TaskTypes, FlagTypes, WakeTypes, StealTypes, StopTypes,
     EntryProc, WakeupTarget, taskVars, wakeVars, stealVars, stopVars
<1>4. QueueType'
  BY <1>1, EmptyType DEF PushNew, TInv, TypeOK, QueueType
<1>5. ProcTypes'
  BY DEF PushNew, PcValues, TInv, TypeOK, ProcTypes, ReturnAddNewTasks
<1>6. \A q \in Procs \ {p} : Untouched(q)
  BY DEF Untouched, PushNew, TInv, TypeOK, ProcTypes, TaskTypes, taskVars,
     ReturnAddNewTasks
<1>7. LocalInv(p)'
  BY DEF PushNew, TInv, TypeOK, ProcTypes, TaskTypes, LocalInvs, LocalInv, At, Derefs,
     ReturnAddNewTasks
<1>8. LocalInvs'
  BY <1>6, <1>7, OthersKeep
<1>9. queue'[Slist] = queue[Slist]
  BY PlacesType DEF PushNew, TInv, TypeOK, QueueType
<1>10. StealShort'
  BY <1>9, <1>2 DEF TInv, StealShort, stealVars
<1> QED
  BY <1>3, <1>4, <1>5, <1>8, <1>10 DEF TInv, TypeOK

\* Line 86.
LEMMA RefrontTypes ==
  ASSUME TInv, NEW p \in Procs, Refront(p)
  PROVE  TInv'
<1>1. Run(p) \in Places
  BY PlacesType
<1>2. FrontOf(queue[Run(p)], None) \in Tasks \cup {None}
  BY PlacesType, FrontType DEF TInv, TypeOK, QueueType
<1>3. UNCHANGED <<queue, state, proc, suspendId, entries, ret, nextTask, waiting,
   notified, wakeVars, stealVars, stopVars>>
  BY DEF Refront
<1>4. QueueType' /\ FlagTypes' /\ WakeTypes' /\ StealTypes' /\ StopTypes' /\ EntryProc' /\ WakeupTarget' /\ StealShort'
  BY <1>3 DEF TInv, TypeOK, QueueType, FlagTypes, WakeTypes, StealTypes, StopTypes,
     EntryProc, WakeupTarget, StealShort, wakeVars, stealVars, stopVars
<1>5. TaskTypes'
  BY <1>1, <1>2 DEF Refront, TInv, TypeOK, TaskTypes, Stamp
<1>6. ProcTypes'
  BY <1>2 DEF Refront, PcValues, TInv, TypeOK, ProcTypes
<1>7. \A q \in Procs \ {p} : Untouched(q)
  BY DEF Untouched, Refront, TInv, TypeOK, ProcTypes, TaskTypes, taskVars
<1>8. LocalInv(p)'
  BY <1>2 DEF Refront, TInv, TypeOK, ProcTypes, TaskTypes, LocalInvs, LocalInv, At,
     Derefs
<1>9. LocalInvs'
  BY <1>7, <1>8, OthersKeep
<1> QED
  BY <1>4, <1>5, <1>6, <1>9 DEF TInv, TypeOK

\* WaitCondition() frees tasks, which keep their processer.
LEMMA WaitConditionTypes ==
  ASSUME TInv, NEW p \in Procs, WaitCondition(p)
  PROVE  TInv'
<1>1. UNCHANGED <<check, proc, suspendId, entries, runningTask, nextTask, addNewQuota,
   wakeVars, stealVars, stopVars>>
  BY DEF WaitCondition
<1>2. WakeTypes' /\ StealTypes' /\ StopTypes' /\ EntryProc' /\ WakeupTarget'
  BY <1>1 DEF TInv, TypeOK, WakeTypes, StealTypes, StopTypes, EntryProc, WakeupTarget,
     wakeVars, stealVars, stopVars
<1>3. QueueType'
  BY PlacesType, EmptyType DEF WaitCondition, TInv, TypeOK, QueueType
<1>4. TaskTypes'
  BY DEF WaitCondition, TInv, TypeOK, TaskTypes, Freed
<1>5. ProcTypes'
  BY DEF WaitCondition, PcValues, TInv, TypeOK, ProcTypes, CallAddNewTasks
<1>6. FlagTypes'
  BY DEF WaitCondition, TInv, TypeOK, FlagTypes
<1>7. \A q \in Procs \ {p} : Untouched(q)
  BY DEF Untouched, WaitCondition, TInv, TypeOK, ProcTypes, TaskTypes, taskVars,
     CallAddNewTasks
<1>8. LocalInv(p)'
  BY DEF WaitCondition, TInv, TypeOK, ProcTypes, TaskTypes, LocalInvs, LocalInv, At,
     Derefs, CallAddNewTasks
<1>9. LocalInvs'
  BY <1>7, <1>8, OthersKeep
<1>10. queue'[Slist] = queue[Slist]
  BY PlacesType DEF WaitCondition, TInv, TypeOK, QueueType
<1>11. StealShort'
  BY <1>10, <1>1 DEF TInv, StealShort, stealVars
<1> QED
  BY <1>2, <1>3, <1>4, <1>5, <1>6, <1>9, <1>11 DEF TInv, TypeOK

\* The thread wakes up.
LEMMA AfterWaitTypes ==
  ASSUME TInv, NEW p \in Procs, AfterWait(p)
  PROVE  TInv'
<1>1. UNCHANGED <<queue, taskVars, runningTask, nextTask, addNewQuota, notified,
   wakeVars, stealVars, stopVars>>
  BY DEF AfterWait
<1>2. QueueType' /\ TaskTypes' /\ WakeTypes' /\ StealTypes' /\ StopTypes' /\ EntryProc' /\ WakeupTarget' /\ StealShort'
  BY <1>1 DEF TInv, TypeOK, QueueType, TaskTypes, WakeTypes, StealTypes, StopTypes,
     EntryProc, WakeupTarget, StealShort, taskVars, wakeVars, stealVars, stopVars
<1>3. ProcTypes'
  BY DEF AfterWait, PcValues, TInv, TypeOK, ProcTypes, CallAddNewTasks
<1>4. FlagTypes'
  BY DEF AfterWait, TInv, TypeOK, FlagTypes
<1>5. \A q \in Procs \ {p} : Untouched(q)
  BY DEF Untouched, AfterWait, TInv, TypeOK, ProcTypes, TaskTypes, taskVars,
     CallAddNewTasks
<1>6. LocalInv(p)'
  BY DEF AfterWait, TInv, TypeOK, ProcTypes, TaskTypes, LocalInvs, LocalInv, At, Derefs,
     CallAddNewTasks
<1>7. LocalInvs'
  BY <1>5, <1>6, OthersKeep
<1> QED
  BY <1>2, <1>3, <1>4, <1>7 DEF TInv, TypeOK

\* The thread wakes up without reason.
LEMMA SpuriousWakeTypes ==
  ASSUME TInv, NEW p \in Procs, SpuriousWake(p)
  PROVE  TInv'
<1>1. UNCHANGED <<queue, taskVars, ret, runningTask, nextTask, addNewQuota, waiting,
   notified, wakeVars, stealVars, stopVars>>
  BY DEF SpuriousWake
<1>2. QueueType' /\ TaskTypes' /\ FlagTypes' /\ WakeTypes' /\ StealTypes' /\ StopTypes' /\ EntryProc' /\ WakeupTarget' /\ StealShort'
  BY <1>1 DEF TInv, TypeOK, QueueType, TaskTypes, FlagTypes, WakeTypes, StealTypes,
     StopTypes, EntryProc, WakeupTarget, StealShort, taskVars, wakeVars, stealVars,
     stopVars
<1>3. ProcTypes'
  BY DEF SpuriousWake, PcValues, TInv, TypeOK, ProcTypes
<1>4. \A q \in Procs \ {p} : Untouched(q)
  BY DEF Untouched, SpuriousWake, TInv, TypeOK, ProcTypes, TaskTypes, taskVars
<1>5. LocalInv(p)'
  BY DEF SpuriousWake, TInv, TypeOK, ProcTypes, TaskTypes, LocalInvs, LocalInv, At,
     Derefs
<1>6. LocalInvs'
  BY <1>4, <1>5, OthersKeep
<1> QED
  BY <1>2, <1>3, <1>6 DEF TInv, TypeOK

\* The switch into a coroutine gives it a processer.
LEMMA SwapInTypes ==
  ASSUME TInv, NEW p \in Procs, SwapIn(p)
  PROVE  TInv'
<1>1. UNCHANGED <<queue, check, suspendId, entries, ret, runningTask, nextTask,
   addNewQuota, waiting, notified, wakeVars, stealVars, stopVars>>
  BY DEF SwapIn
<1>2. QueueType' /\ FlagTypes' /\ WakeTypes' /\ StealTypes' /\ StopTypes' /\ WakeupTarget' /\ StealShort'
  BY <1>1 DEF TInv, TypeOK, QueueType, FlagTypes, WakeTypes, StealTypes, StopTypes,
     WakeupTarget, StealShort, wakeVars, stealVars, stopVars
<1>3. TaskTypes'
  BY DEF SwapIn, TInv, TypeOK, TaskTypes
<1>4. ProcTypes'
  BY DEF SwapIn, PcValues, TInv, TypeOK, ProcTypes
<1>5. \A q \in Procs \ {p} : Untouched(q)
  BY DEF Untouched, SwapIn, TInv, TypeOK, ProcTypes, TaskTypes, taskVars
<1>6. LocalInv(p)'
  BY DEF SwapIn, TInv, TypeOK, ProcTypes, TaskTypes, LocalInvs, LocalInv, At, Derefs
<1>7. LocalInvs'
  BY <1>5, <1>6, OthersKeep
<1>8. EntryProc'
  BY DEF SwapIn, TInv, TypeOK, TaskTypes, EntryProc, taskVars
<1> QED
  BY <1>2, <1>3, <1>4, <1>7, <1>8 DEF TInv, TypeOK

\* A yield calls AddNewTasks only with quota left.
LEMMA CoYieldTypes ==
  ASSUME TInv, NEW p \in Procs, CoYield(p)
  PROVE  TInv'
<1> DEFINE next == NextOf(queue[Run(p)], runningTask[p], None)
<1>1. next \in Tasks \cup {None} /\ Run(p) \in Places
  BY PlacesType, NextType DEF TInv, TypeOK, QueueType
<1>2. \/ /\ next # None
         /\ runningTask' = [runningTask EXCEPT ![p] = next]
         /\ check' = Stamp(next, p)
         /\ pc' = [pc EXCEPT ![p] = "loop"] /\ ret' = ret
      \/ /\ runningTask' = [runningTask EXCEPT ![p] = None]
         /\ pc' = [pc EXCEPT ![p] = "front"] /\ ret' = ret
         /\ check' = check
      \/ /\ addNewQuota[p] >= 1
         /\ CallAddNewTasks(p, "nextYield")
         /\ UNCHANGED <<runningTask, check>>
  BY DEF CoYield, QuotaLeft
<1>3. /\ pc[p] = "task"
      /\ UNCHANGED <<queue, state, proc, suspendId, entries, nextTask, addNewQuota,
                     waiting, notified, wakeVars, stealVars, stopVars>>
  BY DEF CoYield
<1> HIDE DEF next
<1>4. runningTask[p] \in Tasks /\ addNewQuota[p] \in {0,
   1} /\ proc[runningTask[p]] \in Procs
  BY <1>3 DEF TInv, TypeOK, ProcTypes, LocalInvs, LocalInv, At, Derefs
<1>5. QueueType' /\ FlagTypes' /\ WakeTypes' /\ StealTypes' /\ StopTypes'
  BY <1>3 DEF TInv, TypeOK, QueueType, FlagTypes, WakeTypes, StealTypes, StopTypes,
     wakeVars, stealVars, stopVars
<1>6. check' \in [Tasks -> Places \cup {None}]
  BY <1>1, <1>2 DEF Stamp, TInv, TypeOK, TaskTypes
<1>7. TaskTypes'
  BY <1>3, <1>6 DEF TInv, TypeOK, TaskTypes
<1>8. pc' \in [Procs -> PcValues] /\ runningTask' \in [Procs -> Tasks \cup {None}]
  BY <1>1, <1>2 DEF CallAddNewTasks, PcValues, TInv, TypeOK, ProcTypes
<1>9. ProcTypes'
  BY <1>2, <1>3, <1>8 DEF CallAddNewTasks, TInv, TypeOK, ProcTypes
<1>10. \A q \in Procs \ {p} : Untouched(q)
  BY <1>2, <1>3 DEF Untouched, CallAddNewTasks, TInv, TypeOK, ProcTypes
<1>11. LocalInv(p)'
  <2>1. CASE CallAddNewTasks(p, "nextYield")
    BY <1>2, <1>3, <1>4, <2>1, SMTT(30) DEF LocalInv, At, Derefs, CallAddNewTasks, TInv,
       TypeOK, ProcTypes
  <2>2. CASE ~CallAddNewTasks(p, "nextYield")
    BY <1>1, <1>2, <2>2 DEF LocalInv, At, Derefs, TInv, TypeOK, ProcTypes
  <2> QED
    BY <2>1, <2>2
<1>12. EntryProc' /\ WakeupTarget' /\ StealShort'
  BY <1>3 DEF TInv, EntryProc, WakeupTarget, StealShort, wakeVars, stealVars
<1>13. LocalInvs'
  BY <1>10, <1>11, OthersKeep
<1> QED
  BY <1>5, <1>7, <1>9, <1>12, <1>13 DEF TInv, TypeOK

\* The quota is used up.
LEMMA NextAfterYieldTypes ==
  ASSUME TInv, NEW p \in Procs, NextAfterYield(p)
  PROVE  TInv'
<1>1. Run(p) \in Places
  BY PlacesType
<1>2. NextOf(queue[Run(p)], runningTask[p], None) \in Tasks \cup {None}
  BY PlacesType, NextType DEF TInv, TypeOK, QueueType
<1>3. addNewQuota[p] = 1
  BY DEF NextAfterYield, TInv, LocalInvs, LocalInv, At
<1>4. UNCHANGED <<queue, state, proc, suspendId, entries, ret, nextTask, waiting,
   notified, wakeVars, stealVars, stopVars>>
  BY DEF NextAfterYield
<1>5. QueueType' /\ FlagTypes' /\ WakeTypes' /\ StealTypes' /\ StopTypes' /\ EntryProc' /\ WakeupTarget' /\ StealShort'
  BY <1>4 DEF TInv, TypeOK, QueueType, FlagTypes, WakeTypes, StealTypes, StopTypes,
     EntryProc, WakeupTarget, StealShort, wakeVars, stealVars, stopVars
<1>6. TaskTypes'
  BY <1>1, <1>2 DEF NextAfterYield, TInv, TypeOK, TaskTypes, Stamp
<1>7. ProcTypes'
  BY <1>2, <1>3, SMTT(30) DEF NextAfterYield, PcValues, TInv, TypeOK, ProcTypes,
     Continue
<1>8. \A q \in Procs \ {p} : Untouched(q)
  BY DEF Untouched, NextAfterYield, TInv, TypeOK, ProcTypes, TaskTypes, taskVars,
     Continue
<1>9. LocalInv(p)'
  BY <1>2 DEF NextAfterYield, TInv, TypeOK, ProcTypes, TaskTypes, LocalInvs, LocalInv,
     At, Derefs, Continue
<1>10. LocalInvs'
  BY <1>8, <1>9, OthersKeep
<1> QED
  BY <1>5, <1>6, <1>7, <1>10 DEF TInv, TypeOK

\* nextTask_ becomes runningTask_.
LEMMA SwitchOutTypes ==
  ASSUME TInv, NEW p \in Procs, SwitchOut(p)
  PROVE  TInv'
<1>1. UNCHANGED <<queue, taskVars, ret, addNewQuota, waiting, notified, wakeVars,
   stealVars, stopVars>>
  BY DEF SwitchOut, Advance
<1>2. QueueType' /\ TaskTypes' /\ FlagTypes' /\ WakeTypes' /\ StealTypes' /\ StopTypes' /\ EntryProc' /\ WakeupTarget' /\ StealShort'
  BY <1>1 DEF TInv, TypeOK, QueueType, TaskTypes, FlagTypes, WakeTypes, StealTypes,
     StopTypes, EntryProc, WakeupTarget, StealShort, taskVars, wakeVars, stealVars,
     stopVars
<1>3. ProcTypes'
  BY DEF SwitchOut, PcValues, TInv, TypeOK, ProcTypes, Advance, Continue
<1>4. \A q \in Procs \ {p} : Untouched(q)
  BY DEF Untouched, SwitchOut, TInv, TypeOK, ProcTypes, TaskTypes, taskVars, Advance,
     Continue
<1>5. LocalInv(p)'
  BY DEF SwitchOut, TInv, TypeOK, ProcTypes, TaskTypes, LocalInvs, LocalInv, At, Derefs,
     Advance, Continue
<1>6. LocalInvs'
  BY <1>4, <1>5, OthersKeep
<1> QED
  BY <1>2, <1>3, <1>6 DEF TInv, TypeOK

\* nextTask_ becomes runningTask_.
LEMMA AdvanceDoneTypes ==
  ASSUME TInv, NEW p \in Procs, AdvanceDone(p)
  PROVE  TInv'
<1>1. UNCHANGED <<queue, taskVars, ret, addNewQuota, waiting, notified, wakeVars,
   stealVars, stopVars>>
  BY DEF AdvanceDone, Advance
<1>2. QueueType' /\ TaskTypes' /\ FlagTypes' /\ WakeTypes' /\ StealTypes' /\ StopTypes' /\ EntryProc' /\ WakeupTarget' /\ StealShort'
  BY <1>1 DEF TInv, TypeOK, QueueType, TaskTypes, FlagTypes, WakeTypes, StealTypes,
     StopTypes, EntryProc, WakeupTarget, StealShort, taskVars, wakeVars, stealVars,
     stopVars
<1>3. ProcTypes'
  BY DEF AdvanceDone, PcValues, TInv, TypeOK, ProcTypes, Advance, Continue
<1>4. \A q \in Procs \ {p} : Untouched(q)
  BY DEF Untouched, AdvanceDone, TInv, TypeOK, ProcTypes, TaskTypes, taskVars, Advance,
     Continue
<1>5. LocalInv(p)'
  BY DEF AdvanceDone, TInv, TypeOK, ProcTypes, TaskTypes, LocalInvs, LocalInv, At,
     Derefs, Advance, Continue
<1>6. LocalInvs'
  BY <1>4, <1>5, OthersKeep
<1> QED
  BY <1>2, <1>3, <1>6 DEF TInv, TypeOK

\* A finished coroutine stays runningTask_ until it is erased.
LEMMA FinishTypes ==
  ASSUME TInv, NEW p \in Procs, Finish(p)
  PROVE  TInv'
<1>1. Run(p) \in Places
  BY PlacesType
<1>2. NextOf(queue[Run(p)], runningTask[p], None) \in Tasks \cup {None}
  BY PlacesType, NextType DEF TInv, TypeOK, QueueType
<1>3. runningTask[p] \in Tasks /\ addNewQuota[p] \in {0, 1}
  BY DEF Finish, RunReturns, TInv, TypeOK, ProcTypes, LocalInvs, LocalInv, At, Derefs
<1>4. \/ pc' = [pc EXCEPT ![p] = "erase"] /\ ret' = ret
      \/ addNewQuota[p] >= 1 /\ CallAddNewTasks(p, "nextDone")
  BY DEF Finish, RunReturns, QuotaLeft
<1>5. UNCHANGED <<runningTask, addNewQuota, proc>>
  BY DEF Finish
<1>6. UNCHANGED <<queue, proc, suspendId, entries, runningTask, addNewQuota, waiting,
   notified, wakeVars, stealVars, stopVars>>
  BY DEF Finish
<1>7. QueueType' /\ FlagTypes' /\ WakeTypes' /\ StealTypes' /\ StopTypes' /\ EntryProc' /\ WakeupTarget' /\ StealShort'
  BY <1>6 DEF TInv, TypeOK, QueueType, FlagTypes, WakeTypes, StealTypes, StopTypes,
     EntryProc, WakeupTarget, StealShort, wakeVars, stealVars, stopVars
<1>8. TaskTypes'
  BY <1>1, <1>2 DEF Finish, RunReturns, TInv, TypeOK, TaskTypes, Stamp
<1>9. ProcTypes'
  BY <1>2 DEF Finish, RunReturns, PcValues, TInv, TypeOK, ProcTypes, CallAddNewTasks
<1>10. \A q \in Procs \ {p} : Untouched(q)
  BY DEF Untouched, Finish, TInv, TypeOK, ProcTypes, TaskTypes, taskVars,
     CallAddNewTasks, QuotaLeft
<1>11. LocalInv(p)'
  BY <1>3, <1>4, <1>5 DEF TInv, TypeOK, ProcTypes, LocalInv, At, Derefs, CallAddNewTasks
<1>12. LocalInvs'
  BY <1>10, <1>11, OthersKeep
<1> QED
  BY <1>7, <1>8, <1>9, <1>12 DEF TInv, TypeOK

\* The quota is used up.
LEMMA NextAfterDoneTypes ==
  ASSUME TInv, NEW p \in Procs, NextAfterDone(p)
  PROVE  TInv'
<1>1. Run(p) \in Places
  BY PlacesType
<1>2. NextOf(queue[Run(p)], runningTask[p], None) \in Tasks \cup {None}
  BY PlacesType, NextType DEF TInv, TypeOK, QueueType
<1>3. addNewQuota[p] = 1
  BY DEF NextAfterDone, TInv, LocalInvs, LocalInv, At
<1>4. UNCHANGED <<queue, state, proc, suspendId, entries, ret, runningTask, waiting,
   notified, wakeVars, stealVars, stopVars>>
  BY DEF NextAfterDone
<1>5. QueueType' /\ FlagTypes' /\ WakeTypes' /\ StealTypes' /\ StopTypes' /\ EntryProc' /\ WakeupTarget' /\ StealShort'
  BY <1>4 DEF TInv, TypeOK, QueueType, FlagTypes, WakeTypes, StealTypes, StopTypes,
     EntryProc, WakeupTarget, StealShort, wakeVars, stealVars, stopVars
<1>6. TaskTypes'
  BY <1>1, <1>2 DEF NextAfterDone, TInv, TypeOK, TaskTypes, Stamp
<1>7. ProcTypes'
  BY <1>2, <1>3, SMTT(30) DEF NextAfterDone, PcValues, TInv, TypeOK, ProcTypes
<1>8. \A q \in Procs \ {p} : Untouched(q)
  BY DEF Untouched, NextAfterDone, TInv, TypeOK, ProcTypes, TaskTypes, taskVars
<1>9. LocalInv(p)'
  BY DEF NextAfterDone, TInv, TypeOK, ProcTypes, TaskTypes, LocalInvs, LocalInv, At,
     Derefs
<1>10. LocalInvs'
  BY <1>8, <1>9, OthersKeep
<1> QED
  BY <1>5, <1>6, <1>7, <1>10 DEF TInv, TypeOK

\* A task goes from the runnable queue to the garbage.
LEMMA EraseDoneTypes ==
  ASSUME TInv, NEW p \in Procs, EraseDone(p)
  PROVE  TInv'
<1>1. runningTask[p] \in Tasks
  BY DEF EraseDone, TInv, LocalInvs, LocalInv, At, Derefs
<1>2. Erase(queue[Run(p)], runningTask[p]) \in Seq(Tasks)
  BY PlacesType, EraseType DEF TInv, TypeOK, QueueType
<1>3. queue[Gc(p)] \in Seq(Tasks) /\ Gc(p) \in Places
  BY PlacesType DEF TInv, TypeOK, QueueType
<1>4. Append(IF Len(queue[Gc(p)]) > GcLimit THEN <<>> ELSE queue[Gc(p)],
   runningTask[p]) \in Seq(Tasks)
  BY <1>1, <1>3, EmptyType
<1>5. Run(p) \in Places
  BY PlacesType
<1>6. UNCHANGED <<proc, suspendId, entries, ret, runningTask, nextTask, addNewQuota,
   waiting, notified, wakeVars, stealVars, stopVars>>
  BY DEF EraseDone
<1>7. FlagTypes' /\ WakeTypes' /\ StealTypes' /\ StopTypes' /\ EntryProc' /\ WakeupTarget'
  BY <1>6 DEF TInv, TypeOK, FlagTypes, WakeTypes, StealTypes, StopTypes, EntryProc,
     WakeupTarget, wakeVars, stealVars, stopVars
<1>8. QueueType'
  BY <1>2, <1>3, <1>4, <1>5 DEF EraseDone, TInv, TypeOK, QueueType
<1>9. TaskTypes'
  BY <1>3 DEF EraseDone, TInv, TypeOK, TaskTypes, Freed
<1>10. ProcTypes'
  BY DEF EraseDone, PcValues, TInv, TypeOK, ProcTypes
<1>11. \A q \in Procs \ {p} : Untouched(q)
  BY DEF Untouched, EraseDone, TInv, TypeOK, ProcTypes, TaskTypes, taskVars
<1>12. LocalInv(p)'
  BY DEF EraseDone, TInv, TypeOK, ProcTypes, TaskTypes, LocalInvs, LocalInv, At, Derefs
<1>13. LocalInvs'
  BY <1>11, <1>12, OthersKeep
<1>14. queue'[Slist] = queue[Slist]
  BY PlacesType DEF EraseDone, TInv, TypeOK, QueueType
<1>15. StealShort'
  BY <1>14, <1>6 DEF TInv, StealShort, stealVars
<1> QED
  BY <1>7, <1>8, <1>9, <1>10, <1>13, <1>15 DEF TInv, TypeOK
=============================================================================
