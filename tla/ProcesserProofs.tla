--------------------------- MODULE ProcesserProofs ---------------------------
(***************************************************************************)
(* Type correctness of Processer, for any processers, coroutines, native   *)
(* threads and steal sizes: the steps of clients, of Wakeup, of the        *)
(* dispatcher and of Stop, and the theorem.                                *)
(***************************************************************************)
EXTENDS ProcesserLoopProofs

\* The suspend id stays a counter value.
LEMMA SuspendBeginTypes ==
  ASSUME TInv, NEW p \in Procs, SuspendBegin(p)
  PROVE  TInv'
<1>1. UNCHANGED <<queue, check, proc, entries, ret, runningTask, nextTask, addNewQuota,
   waiting, notified, wakeVars, stealVars, stopVars>>
  BY DEF SuspendBegin
<1>2. QueueType' /\ FlagTypes' /\ WakeTypes' /\ StealTypes' /\ StopTypes' /\ EntryProc' /\ WakeupTarget' /\ StealShort'
  BY <1>1 DEF TInv, TypeOK, QueueType, FlagTypes, WakeTypes, StealTypes, StopTypes,
     EntryProc, WakeupTarget, StealShort, wakeVars, stealVars, stopVars
<1>3. TaskTypes'
  BY IdsType DEF SuspendBegin, TInv, TypeOK, TaskTypes
<1>4. ProcTypes'
  BY DEF SuspendBegin, PcValues, TInv, TypeOK, ProcTypes
<1>5. \A q \in Procs \ {p} : Untouched(q)
  BY DEF Untouched, SuspendBegin, TInv, TypeOK, ProcTypes, TaskTypes, taskVars
<1>6. LocalInv(p)'
  BY DEF SuspendBegin, TInv, TypeOK, ProcTypes, TaskTypes, LocalInvs, LocalInv, At,
     Derefs
<1>7. LocalInvs'
  BY <1>5, <1>6, OthersKeep
<1> QED
  BY <1>2, <1>3, <1>4, <1>7 DEF TInv, TypeOK

\* The entry returned belongs to a task with a processer.
LEMMA SuspendEndTypes ==
  ASSUME TInv, NEW p \in Procs, SuspendEnd(p)
  PROVE  TInv'
<1>1. runningTask[p] \in Tasks /\ proc[runningTask[p]] \in Procs
  BY DEF SuspendEnd, TInv, LocalInvs, LocalInv, At, Derefs
<1>2. Run(p) \in Places
  BY PlacesType
<1>3. NextOf(queue[Run(p)], runningTask[p], None) \in Tasks \cup {None}
  BY PlacesType, NextType DEF TInv, TypeOK, QueueType
<1>4. Erase(queue[Run(p)], runningTask[p]) \in Seq(Tasks)
  BY PlacesType, EraseType DEF TInv, TypeOK, QueueType
<1>5. Wait(p) \in Places /\ Append(queue[Wait(p)], runningTask[p]) \in Seq(Tasks)
  BY <1>1, PlacesType, AppendProperties DEF TInv, TypeOK, QueueType
<1>6. /\ entries' = [entries EXCEPT ![runningTask[p]] = @ \cup {suspendId[runningTask[p]]}]
      /\ UNCHANGED <<state, proc, suspendId>>
  BY DEF SuspendEnd
<1>7. entries' \in [Tasks -> SUBSET Ids]
  BY <1>1, <1>6 DEF TInv, TypeOK, TaskTypes
<1>8. check' \in [Tasks -> Places \cup {None}]
  BY <1>2, <1>3, <1>5 DEF SuspendEnd, TInv, TypeOK, TaskTypes, Stamp
<1>9. UNCHANGED <<state, proc, suspendId, ret, runningTask, addNewQuota, waiting,
   notified, wakeVars, stealVars, stopVars>>
  BY DEF SuspendEnd
<1>10. FlagTypes' /\ WakeTypes' /\ StealTypes' /\ StopTypes' /\ WakeupTarget'
  BY <1>9 DEF TInv, TypeOK, FlagTypes, WakeTypes, StealTypes, StopTypes, WakeupTarget,
     wakeVars, stealVars, stopVars
<1>11. QueueType'
  BY <1>4, <1>5 DEF SuspendEnd, TInv, TypeOK, QueueType
<1>12. TaskTypes'
  BY <1>6, <1>7, <1>8 DEF TInv, TypeOK, TaskTypes
<1>13. ProcTypes'
  BY <1>3 DEF SuspendEnd, PcValues, TInv, TypeOK, ProcTypes
<1>14. \A q \in Procs \ {p} : Untouched(q)
  BY DEF Untouched, SuspendEnd, TInv, TypeOK, ProcTypes, TaskTypes, taskVars
<1>15. LocalInv(p)'
  BY <1>1 DEF SuspendEnd, TInv, TypeOK, ProcTypes, TaskTypes, LocalInvs, LocalInv, At,
     Derefs
<1>16. LocalInvs'
  BY <1>14, <1>15, OthersKeep
<1>17. EntryProc'
  BY <1>1 DEF SuspendEnd, TInv, TypeOK, TaskTypes, EntryProc, taskVars
<1>18. queue'[Slist] = queue[Slist]
  BY PlacesType DEF SuspendEnd, TInv, TypeOK, QueueType
<1>19. StealShort'
  BY <1>18, <1>9 DEF TInv, StealShort, stealVars
<1> QED
  BY <1>10, <1>11, <1>12, <1>13, <1>16, <1>17, <1>19 DEF TInv, TypeOK

\* A Wakeup call that is over has no target.
LEMMA WakeupExpiredTypes ==
  ASSUME TInv, NEW c \in Callers, WakeupExpired(c)
  PROVE  TInv'
<1>1. UNCHANGED <<queue, taskVars, procVars, stealVars, stopVars>>
  BY DEF WakeupExpired
<1>2. QueueType' /\ TaskTypes' /\ ProcTypes' /\ FlagTypes' /\ StealTypes' /\ StopTypes' /\ LocalInvs' /\ EntryProc' /\ StealShort'
  BY <1>1 DEF TInv, TypeOK, QueueType, TaskTypes, ProcTypes, FlagTypes, StealTypes,
     StopTypes, LocalInvs, LocalInv, At, EntryProc, StealShort, taskVars, procVars,
     stealVars, stopVars
<1>3. WakeTypes'
  BY IdsType DEF WakeupExpired, TInv, TypeOK, WakeTypes, WakeupReturn
<1>4. WakeupTarget'
  BY DEF WakeupExpired, TInv, WakeupTarget, wakeVars, WakeTypes, TypeOK, WakeupReturn
<1> QED
  BY <1>2, <1>3, <1>4 DEF TInv, TypeOK

\* The woken task goes to the runnable queue of its processer.
LEMMA WakeupHitTypes ==
  ASSUME TInv, NEW c \in Callers, WakeupHit(c)
  PROVE  TInv'
<1>1. wtk[c] \in Tasks /\ wproc[c] \in Procs
  BY DEF WakeupHit, TInv, WakeupTarget
<1>2. Erase(queue[Wait(wproc[c])], wtk[c]) \in Seq(Tasks)
  BY <1>1, PlacesType, EraseType DEF TInv, TypeOK, QueueType
<1>3. Run(wproc[c]) \in Places /\ Append(queue[Run(wproc[c])], wtk[c]) \in Seq(Tasks)
  BY <1>1, PlacesType, AppendProperties DEF TInv, TypeOK, QueueType
<1>4. /\ suspendId' = [suspendId EXCEPT ![wtk[c]] = Inc(@)]
      /\ check' = [check EXCEPT ![wtk[c]] = Run(wproc[c])]
      /\ UNCHANGED <<state, proc, entries>>
  BY DEF WakeupHit, Expire
<1>5. suspendId' \in [Tasks -> Ids]
  BY <1>1, <1>4, IdsType DEF TInv, TypeOK, TaskTypes
<1>6. check' \in [Tasks -> Places \cup {None}]
  BY <1>1, <1>4, <1>3 DEF TInv, TypeOK, TaskTypes
<1>7. \/ wpc' = [wpc EXCEPT ![c] = "notify"] /\ UNCHANGED <<wtk, wid, wproc>>
      \/ WakeupReturn(c)
  BY DEF WakeupHit
<1>8. UNCHANGED <<state, proc, entries, procVars, stealVars, stopVars>>
  BY DEF WakeupHit
<1>9. ProcTypes' /\ FlagTypes' /\ StealTypes' /\ StopTypes' /\ LocalInvs' /\ EntryProc'
  BY <1>8 DEF TInv, TypeOK, ProcTypes, FlagTypes, StealTypes, StopTypes, LocalInvs,
     LocalInv, At, EntryProc, procVars, stealVars, stopVars
<1>10. QueueType'
  BY <1>2, <1>3 DEF WakeupHit, TInv, TypeOK, QueueType
<1>11. TaskTypes'
  BY <1>4, <1>5, <1>6 DEF TInv, TypeOK, TaskTypes
<1>12. WakeTypes'
  BY <1>7, IdsType DEF TInv, TypeOK, WakeTypes, WakeupReturn
<1>13. WakeupTarget'
  BY DEF WakeupHit, TInv, WakeupTarget, wakeVars, WakeTypes, TypeOK, WakeupReturn
<1>14. queue'[Slist] = queue[Slist]
  BY <1>1, PlacesType DEF WakeupHit, TInv, TypeOK, QueueType
<1>15. StealShort'
  BY <1>14, <1>8 DEF TInv, StealShort, stealVars
<1> QED
  BY <1>9, <1>10, <1>11, <1>12, <1>13, <1>15 DEF TInv, TypeOK

\* Waking a thread moves it on only from cv_.wait.
LEMMA WakeupNotifyTypes ==
  ASSUME TInv, NEW c \in Callers, WakeupNotify(c)
  PROVE  TInv'
<1>1. wproc[c] \in Procs
  BY DEF WakeupNotify, TInv, WakeupTarget
<1>2. ProcTypes' /\ FlagTypes' /\ LocalInvs'
  BY <1>1, NotifyTypes DEF WakeupNotify, taskVars
<1>3. UNCHANGED <<queue, taskVars, ret, runningTask, nextTask, addNewQuota, waiting,
   stealVars, stopVars>>
  BY DEF WakeupNotify
<1>4. QueueType' /\ TaskTypes' /\ StealTypes' /\ StopTypes' /\ EntryProc' /\ StealShort'
  BY <1>3 DEF TInv, TypeOK, QueueType, TaskTypes, StealTypes, StopTypes, EntryProc,
     StealShort, taskVars, stealVars, stopVars
<1>5. WakeTypes'
  BY IdsType DEF WakeupNotify, TInv, TypeOK, WakeTypes, WakeupReturn
<1>6. WakeupTarget'
  BY DEF WakeupNotify, TInv, WakeupTarget, wakeVars, WakeTypes, TypeOK, WakeupReturn
<1> QED
  BY <1>2, <1>4, <1>5, <1>6 DEF TInv, TypeOK

\* An entry leads to a task with a processer.
LEMMA WakeupBeginTypes ==
  ASSUME TInv, NEW c \in Callers, NEW t \in Tasks, NEW i \in Ids, WakeupBegin(c, t, i)
  PROVE  TInv'
<1>1. proc[t] \in Procs
  BY DEF WakeupBegin, TInv, EntryProc
<1>2. UNCHANGED <<queue, taskVars, procVars, stealVars, stopVars>>
  BY DEF WakeupBegin
<1>3. QueueType' /\ TaskTypes' /\ ProcTypes' /\ FlagTypes' /\ StealTypes' /\ StopTypes' /\ LocalInvs' /\ EntryProc' /\ StealShort'
  BY <1>2 DEF TInv, TypeOK, QueueType, TaskTypes, ProcTypes, FlagTypes, StealTypes,
     StopTypes, LocalInvs, LocalInv, At, EntryProc, StealShort, taskVars, procVars,
     stealVars, stopVars
<1>4. WakeTypes'
  BY <1>1 DEF WakeupBegin, TInv, TypeOK, WakeTypes
<1>5. WakeupTarget'
  BY <1>1 DEF WakeupBegin, TInv, WakeupTarget, wakeVars, WakeTypes, TypeOK, TaskTypes
<1> QED
  BY <1>3, <1>4, <1>5 DEF TInv, TypeOK

\* Fewer entries.
LEMMA DropEntryTypes ==
  ASSUME TInv, NEW t \in Tasks, NEW i \in Ids, DropEntry(t, i)
  PROVE  TInv'
<1>1. UNCHANGED <<queue, check, state, proc, suspendId, procVars, wakeVars, stealVars,
   stopVars>>
  BY DEF DropEntry
<1>2. QueueType' /\ ProcTypes' /\ FlagTypes' /\ WakeTypes' /\ StealTypes' /\ StopTypes' /\ LocalInvs' /\ WakeupTarget' /\ StealShort'
  BY <1>1 DEF TInv, TypeOK, QueueType, ProcTypes, FlagTypes, WakeTypes, StealTypes,
     StopTypes, LocalInvs, LocalInv, At, WakeupTarget, StealShort, procVars, wakeVars,
     stealVars, stopVars
<1>3. TaskTypes'
  BY DEF DropEntry, TInv, TypeOK, TaskTypes
<1>4. EntryProc'
  BY DEF DropEntry, TInv, TypeOK, TaskTypes, EntryProc, taskVars
<1> QED
  BY <1>2, <1>3, <1>4 DEF TInv, TypeOK

\* A new task goes to newQueue_.
LEMMA AddTaskTypes ==
  ASSUME TInv, NEW c \in Callers, NEW t \in Tasks, NEW p \in Procs, AddTask(c, t, p)
  PROVE  TInv'
<1>1. New(p) \in Places /\ Append(queue[New(p)], t) \in Seq(Tasks)
  BY PlacesType DEF TInv, TypeOK, QueueType
<1>2. ProcTypes' /\ FlagTypes' /\ LocalInvs'
  BY NotifyTypes DEF AddTask, taskVars
<1>3. UNCHANGED <<proc, suspendId, entries, ret, runningTask, nextTask, addNewQuota,
   waiting, wakeVars, stealVars, stopVars>>
  BY DEF AddTask
<1>4. WakeTypes' /\ StealTypes' /\ StopTypes' /\ EntryProc' /\ WakeupTarget'
  BY <1>3 DEF TInv, TypeOK, WakeTypes, StealTypes, StopTypes, EntryProc, WakeupTarget,
     wakeVars, stealVars, stopVars
<1>5. QueueType'
  BY <1>1 DEF AddTask, TInv, TypeOK, QueueType
<1>6. TaskTypes'
  BY <1>1 DEF AddTask, TInv, TypeOK, TaskTypes
<1>7. queue'[Slist] = queue[Slist]
  BY PlacesType DEF AddTask, TInv, TypeOK, QueueType
<1>8. StealShort'
  BY <1>7, <1>3 DEF TInv, StealShort, stealVars
<1> QED
  BY <1>2, <1>4, <1>5, <1>6, <1>8 DEF TInv, TypeOK

\* Stop() begins.
LEMMA StopBeginTypes ==
  ASSUME TInv, StopBegin
  PROVE  TInv'
<1>1. UNCHANGED <<queue, taskVars, procVars, wakeVars, stealVars>>
  BY DEF StopBegin
<1>2. QueueType' /\ TaskTypes' /\ ProcTypes' /\ FlagTypes' /\ WakeTypes' /\ StealTypes' /\ LocalInvs' /\ EntryProc' /\ WakeupTarget' /\ StealShort'
  BY <1>1 DEF TInv, TypeOK, QueueType, TaskTypes, ProcTypes, FlagTypes, WakeTypes,
     StealTypes, LocalInvs, LocalInv, At, EntryProc, WakeupTarget, StealShort, taskVars,
     procVars, wakeVars, stealVars
<1>3. StopTypes'
  BY DEF StopBegin, TInv, TypeOK, StopTypes
<1> QED
  BY <1>2, <1>3 DEF TInv, TypeOK

\* Stop() notifies a processer.
LEMMA StopNotifyTypes ==
  ASSUME TInv, NEW p \in Procs, StopNotify(p)
  PROVE  TInv'
<1>1. ProcTypes' /\ FlagTypes' /\ LocalInvs'
  BY NotifyTypes DEF StopNotify, taskVars
<1>2. UNCHANGED <<queue, taskVars, ret, runningTask, nextTask, addNewQuota, waiting,
   wakeVars, stealVars, stop>>
  BY DEF StopNotify
<1>3. QueueType' /\ TaskTypes' /\ WakeTypes' /\ StealTypes' /\ EntryProc' /\ WakeupTarget' /\ StealShort'
  BY <1>2 DEF TInv, TypeOK, QueueType, TaskTypes, WakeTypes, StealTypes, EntryProc,
     WakeupTarget, StealShort, taskVars, wakeVars, stealVars
<1>4. StopTypes'
  BY DEF StopNotify, TInv, TypeOK, StopTypes
<1> QED
  BY <1>1, <1>3, <1>4 DEF TInv, TypeOK

\* The stolen tasks are dealt out.
LEMMA AddTaskListTypes ==
  ASSUME TInv, NEW p \in Procs, NEW k \in 1..Len(queue[Stolen]), AddTaskList(p, k)
  PROVE  TInv'
<1>1. CutTaken(queue[Stolen], k) \in Seq(Tasks) /\ CutLeft(queue[Stolen],
   k) \in Seq(Tasks)
  BY PlacesType, CutType DEF TInv, TypeOK, QueueType
<1>2. queue[New(p)] \o CutTaken(queue[Stolen], k) \in Seq(Tasks)
  BY <1>1, PlacesType, ConcatProperties DEF TInv, TypeOK, QueueType
<1>3. ProcTypes' /\ FlagTypes' /\ LocalInvs'
  BY NotifyTypes DEF AddTaskList, taskVars
<1>4. UNCHANGED <<taskVars, ret, runningTask, nextTask, addNewQuota, waiting, wakeVars,
   stealVars, stopVars>>
  BY DEF AddTaskList
<1>5. TaskTypes' /\ WakeTypes' /\ StealTypes' /\ StopTypes' /\ EntryProc' /\ WakeupTarget'
  BY <1>4 DEF TInv, TypeOK, TaskTypes, WakeTypes, StealTypes, StopTypes, EntryProc,
     WakeupTarget, taskVars, wakeVars, stealVars, stopVars
<1>6. QueueType'
  BY <1>1, <1>2, PlacesType DEF AddTaskList, TInv, TypeOK, QueueType
<1>7. queue'[Slist] = queue[Slist]
  BY PlacesType DEF AddTaskList, TInv, TypeOK, QueueType
<1>8. StealShort'
  BY <1>7, <1>4 DEF TInv, StealShort, stealVars
<1> QED
  BY <1>3, <1>5, <1>6, <1>8 DEF TInv, TypeOK

\* What Steal unlinks leaves a list of tasks, no longer than before.
LEMMA EraseProtectedType ==
  ASSUME ProcTypes, NEW p \in Procs, NEW s \in Seq(Tasks), NEW l
  PROVE  /\ EraseProtected(p, s, l) \in Seq(Tasks)
         /\ Len(EraseProtected(p, s, l)) <= Len(s)
<1> DEFINE gone(t) == Protected(p, t) /\ check[t] = l
           s1 == IF gone(runningTask[p]) THEN Erase(s, runningTask[p]) ELSE s
<1>1. s1 \in Seq(Tasks) /\ Len(s1) <= Len(s)
  <2>1. CASE gone(runningTask[p])
    <3>1. /\ Erase(s, runningTask[p]) \in Seq(Tasks)
          /\ Len(Erase(s, runningTask[p])) \in {Len(s), Len(s) - 1}
      BY EraseType
    <3>2. Len(s) \in Nat /\ Len(Erase(s, runningTask[p])) \in Nat
      BY <3>1, LenProperties
    <3>3. s1 = Erase(s, runningTask[p])
      BY <2>1
    <3> HIDE DEF s1
    <3> QED
      BY <3>1, <3>2, <3>3
  <2>2. CASE ~gone(runningTask[p])
    BY <2>2, LenProperties, SMTT(30)
  <2> QED
    BY <2>1, <2>2
<1>2. EraseProtected(p, s, l) = IF gone(nextTask[p]) THEN Erase(s1, nextTask[p]) ELSE s1
  BY DEF EraseProtected
<1> HIDE DEF s1
<1>3. CASE gone(nextTask[p])
  <2>1. /\ Erase(s1, nextTask[p]) \in Seq(Tasks)
        /\ Len(Erase(s1, nextTask[p])) \in {Len(s1), Len(s1) - 1}
    BY <1>1, EraseType
  <2>2. Len(s1) \in Nat /\ Len(s) \in Nat
    BY <1>1, LenProperties
  <2>3. EraseProtected(p, s, l) = Erase(s1, nextTask[p])
    BY <1>2, <1>3
  <2> QED
    BY <1>1, <2>1, <2>2, <2>3
<1>4. CASE ~gone(nextTask[p])
  BY <1>1, <1>2, <1>4
<1> QED
  BY <1>3, <1>4

\* What Steal puts back are tasks.
LEMMA PutBackType ==
  ASSUME ProcTypes, NEW p \in Procs
  PROVE  PutBack(p) \in Seq(Tasks)
<1> DEFINE a == IF Protected(p, runningTask[p]) THEN <<runningTask[p]>> ELSE <<>>
           b == IF Protected(p, nextTask[p]) THEN <<nextTask[p]>> ELSE <<>>
<1>1. a \in Seq(Tasks)
  BY EmptyType DEF ProcTypes, Protected
<1>2. b \in Seq(Tasks)
  BY EmptyType DEF ProcTypes, Protected
<1> QED
  BY <1>1, <1>2, ConcatProperties DEF PutBack

\* Steal goes on only with fewer tasks than it wants.
LEMMA StealNewTypes ==
  ASSUME TInv, NEW p \in Procs, NEW n \in Nat, StealNew(p, n)
  PROVE  TInv'
<1>1. queue[New(p)] \in Seq(Tasks) /\ New(p) \in Places /\ New(p) \notin {Slist, Stolen}
  BY PlacesType DEF TInv, TypeOK, QueueType
<1>2. (IF n = 0 THEN Len(queue[New(p)]) ELSE n) \in Nat
  BY <1>1, LenProperties, ProcesserAssumption
<1>3. ASSUME NEW k \in Nat
      PROVE  /\ BackLeft(queue[New(p)], k) \in Seq(Tasks)
             /\ BackTaken(queue[New(p)], k) \in Seq(Tasks)
             /\ Len(BackTaken(queue[New(p)], k)) \in 0..Len(queue[New(p)])
  BY <1>1, BackType
<1>4. \A k \in Nat : queue[Stolen] \o BackTaken(queue[New(p)], k) \in Seq(Tasks)
  BY <1>3, PlacesType, ConcatProperties DEF TInv, TypeOK, QueueType
<1>5. \/ spc' = "idle" /\ victim' = None /\ sn' = 0
      \/ spc' = "run" /\ victim' = p /\ sn' = n
  BY DEF StealNew
<1>6. Len(queue[New(p)]) \in Nat /\ n \in Nat
  BY <1>1, LenProperties, ProcesserAssumption
<1>7. 0 \in Nat
  BY ProcesserAssumption
<1>8. spc' = "run" /\ n > 0 =>
        queue'[Slist] = BackTaken(queue[New(p)], n) /\ Len(queue[New(p)]) < n
  <2> SUFFICES ASSUME spc' = "run", n > 0
               PROVE  /\ queue'[Slist] = BackTaken(queue[New(p)], n)
                      /\ Len(queue[New(p)]) < n
    OBVIOUS
  <2>1. n # 0 /\ ~(n > 0 /\ Len(queue[New(p)]) >= n)
    BY <1>6 DEF StealNew
  <2>2. queue' = [queue EXCEPT ![New(p)] = BackLeft(queue[New(p)], n),
                              ![Slist] = BackTaken(queue[New(p)], n),
                              ![Stolen] = @]
    BY <2>1 DEF StealNew
  <2>3. queue'[Slist] = BackTaken(queue[New(p)], n)
    BY <2>2, <1>1, PlacesType DEF TInv, TypeOK, QueueType
  <2> QED
    BY <2>1, <2>3, <1>6
<1>9. spc' = "run" /\ n > 0 => Len(queue'[Slist]) < n
  <2>1. Len(BackTaken(queue[New(p)], n)) \in 0..Len(queue[New(p)])
    <3>1. n \in Nat
      BY <1>6
    <3> QED
      BY <3>1, <1>3
  <2> QED
    BY <2>1, <1>6, <1>8
<1>10. UNCHANGED <<taskVars, procVars, wakeVars, stopVars>>
  BY DEF StealNew
<1>11. TaskTypes' /\ ProcTypes' /\ FlagTypes' /\ WakeTypes' /\ StopTypes' /\ LocalInvs' /\ EntryProc' /\ WakeupTarget'
  BY <1>10 DEF TInv, TypeOK, TaskTypes, ProcTypes, FlagTypes, WakeTypes, StopTypes,
     LocalInvs, LocalInv, At, EntryProc, WakeupTarget, taskVars, procVars, wakeVars,
     stopVars
<1>12. QueueType'
  BY <1>1, <1>2, <1>3, <1>4, EmptyType, PlacesType DEF StealNew, TInv, TypeOK, QueueType
<1>13. StealTypes'
  BY <1>5, <1>7 DEF StealTypes
<1>14. StealShort'
  BY <1>5, <1>9 DEF StealShort
<1> QED
  BY <1>11, <1>12, <1>13, <1>14 DEF TInv, TypeOK

\* Steal's lists stay lists of tasks.
LEMMA StealRunTypes ==
  ASSUME TInv, StealRun
  PROVE  TInv'
<1>1. victim \in Procs
  BY DEF StealRun, TInv, StealShort
<1>2. Run(victim) \in Places \ {Slist, Stolen} /\ Slist \in Places /\ Stolen \in Places
  BY <1>1, PlacesType
<1> DEFINE s == EraseProtected(victim, queue[Slist], New(victim))
           r == EraseProtected(victim, queue[Run(victim)], Run(victim))
           k == IF sn = 0 THEN Len(r) ELSE sn - Len(s)
<1>4. s \in Seq(Tasks) /\ Len(s) <= Len(queue[Slist])
  BY <1>1, PlacesType, EraseProtectedType DEF TInv, TypeOK, QueueType
<1>5. r \in Seq(Tasks)
  BY <1>1, <1>2, EraseProtectedType DEF TInv, TypeOK, QueueType
<1>6. PutBack(victim) \in Seq(Tasks)
  BY <1>1, PutBackType DEF TInv, TypeOK
<1>7. /\ queue' = [queue EXCEPT ![Slist] = <<>>,
                                 ![Run(victim)] = BackLeft(r, k) \o PutBack(victim),
                                 ![Stolen] = @ \o BackTaken(r, k) \o s]
      /\ check' = [t \in Tasks |->
                    IF t \in Elems(PutBack(victim)) THEN Run(victim) ELSE check[t]]
  BY DEF StealRun
<1> HIDE DEF s, r
<1>9. sn \in Nat /\ Len(s) \in Nat /\ Len(r) \in Nat /\ Len(queue[Slist]) \in Nat
  BY <1>4, <1>5, <1>2, LenProperties, ProcesserAssumption, SMTT(30) DEF TInv, TypeOK,
     QueueType, StealTypes
<1>10. sn > 0 => Len(queue[Slist]) < sn
  BY DEF StealRun, TInv, StealShort
<1>11. k \in Nat
  BY <1>4, <1>9, <1>10, SMTT(30)
<1>12. spc' = "idle" /\ victim' = None /\ sn' = 0 /\ 0 \in Nat
  BY ProcesserAssumption DEF StealRun
<1> HIDE DEF k
<1>14. BackLeft(r, k) \in Seq(Tasks) /\ BackTaken(r, k) \in Seq(Tasks)
  BY <1>5, <1>11, BackType
<1>15. BackLeft(r, k) \o PutBack(victim) \in Seq(Tasks)
  BY <1>14, <1>6, ConcatProperties
<1>16. queue[Stolen] \o BackTaken(r, k) \o s \in Seq(Tasks)
  BY <1>14, <1>4, <1>2, ConcatProperties DEF TInv, TypeOK, QueueType
<1>17. UNCHANGED <<state, proc, suspendId, entries, procVars, wakeVars, stopVars>>
  BY DEF StealRun
<1>18. ProcTypes' /\ FlagTypes' /\ WakeTypes' /\ StopTypes' /\ LocalInvs' /\ EntryProc' /\ WakeupTarget'
  BY <1>17 DEF TInv, TypeOK, ProcTypes, FlagTypes, WakeTypes, StopTypes, LocalInvs,
     LocalInv, At, EntryProc, WakeupTarget, procVars, wakeVars, stopVars
<1>19. QueueType'
  BY <1>7, <1>15, <1>16, <1>2, EmptyType DEF QueueType, StealRun, TInv, TypeOK
<1>20. TaskTypes'
  BY <1>7, <1>2 DEF StealRun, TInv, TypeOK, TaskTypes, taskVars
<1>21. StealTypes'
  BY <1>12 DEF StealTypes
<1>22. StealShort'
  BY PlacesType DEF StealRun, StealShort
<1> QED
  BY <1>18, <1>19, <1>20, <1>21, <1>22 DEF TInv, TypeOK

-----------------------------------------------------------------------------
\* The initial state.
LEMMA TInvInit == Init => TInv
<1> SUFFICES ASSUME Init PROVE TInv
  OBVIOUS
<1>1. QueueType
  BY EmptyType DEF Init, QueueType
<1>2. TaskTypes
  BY IdsType DEF Init, TaskTypes
<1>3. ProcTypes
  BY DEF Init, ProcTypes, PcValues
<1>4. FlagTypes /\ StopTypes
  BY DEF Init, FlagTypes, StopTypes
<1>5. WakeTypes
  BY IdsType DEF Init, WakeTypes
<1>6. StealTypes
  BY ProcesserAssumption DEF Init, StealTypes
<1>7. LocalInvs /\ EntryProc /\ WakeupTarget /\ StealShort
  BY DEF Init, LocalInvs, LocalInv, EntryProc, WakeupTarget, StealShort, At, Derefs
<1> QED
  BY <1>1, <1>2, <1>3, <1>4, <1>5, <1>6, <1>7 DEF TInv, TypeOK

\* Every step.
LEMMA TInvNext == TInv /\ [Next]_vars => TInv'
<1> SUFFICES ASSUME TInv, [Next]_vars PROVE TInv'
  OBVIOUS
<1>1. ASSUME NEW p \in Procs, ProcStep(p) PROVE TInv'
  BY <1>1, TakeFrontTypes, PopNewTypes, PushNewTypes, RefrontTypes, WaitConditionTypes,
     AfterWaitTypes, SwapInTypes, NextAfterYieldTypes, NextAfterDoneTypes,
        EraseDoneTypes,
     AdvanceDoneTypes DEF ProcStep
<1>2. ASSUME NEW p \in Procs, SpuriousWake(p) PROVE TInv'
  BY <1>2, SpuriousWakeTypes
<1>3. ASSUME NEW p \in Procs, Leave(p) PROVE TInv'
  BY <1>3, CoYieldTypes, SwitchOutTypes, FinishTypes, SuspendBeginTypes, SuspendEndTypes
     DEF Leave
<1>4. ASSUME NEW c \in Callers, WakeStep(c) PROVE TInv'
  BY <1>4, WakeupExpiredTypes, WakeupHitTypes, WakeupNotifyTypes DEF WakeStep
<1>5. ASSUME NEW c \in Callers, NEW t \in Tasks, NEW p \in Procs, AddTask(c, t,
   p) PROVE TInv'
  BY <1>5, AddTaskTypes
<1>6. ASSUME NEW c \in Wakers, NEW t \in Tasks, NEW i \in Ids, WakeupBegin(c, t,
   i) PROVE TInv'
  BY <1>6, WakeupBeginTypes, ProcesserAssumption
<1>7. ASSUME NEW t \in Tasks, NEW i \in Ids, DropEntry(t, i) PROVE TInv'
  BY <1>7, DropEntryTypes
<1>8. ASSUME Dispatch PROVE TInv'
  <2>1. ASSUME NEW p \in Victims, NEW n \in StealSizes, StealNew(p, n) PROVE TInv'
    BY <2>1, StealNewTypes, ProcesserAssumption
  <2>2. ASSUME NEW p \in Receivers, NEW k \in 1..Len(queue[Stolen]), AddTaskList(p,
     k) PROVE TInv'
    BY <2>2, AddTaskListTypes, ProcesserAssumption
  <2> QED
    BY <1>8, <2>1, <2>2, StealRunTypes DEF Dispatch
<1>9. ASSUME NEW p \in Procs, StopNotify(p) PROVE TInv'
  BY <1>9, StopNotifyTypes
<1>10. CASE UNCHANGED vars
  BY <1>10 DEF vars, taskVars, procVars, wakeVars, stealVars, stopVars, TInv, TypeOK,
     QueueType, TaskTypes, ProcTypes, FlagTypes, WakeTypes, StealTypes, StopTypes,
     LocalInvs, LocalInv, EntryProc, WakeupTarget, StealShort, At
<1> QED
  BY <1>1, <1>2, <1>3, <1>4, <1>5, <1>6, <1>7, <1>8, <1>9, <1>10, StopBeginTypes
     DEF Next

\* Type correctness of the processers (TypeOK, the first conjunct of TInv), and with
\* it what Process(), Wakeup and Steal rely on: runningTask_ is a task wherever it is
\* dereferenced, AddNewTasks is called after a task only with quota left, the running
\* coroutine and one whose SuspendEntry somebody holds have a processer, a Wakeup call
\* has a task and a processer to lock, and Steal never asks pop_back for a negative
\* number of tasks.
THEOREM TypeCorrect == Spec => []TInv
  BY TInvInit, TInvNext, PTL DEF Spec

=============================================================================
