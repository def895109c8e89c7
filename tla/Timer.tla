-------------------------------- MODULE Timer --------------------------------
(***************************************************************************)
(* The timing wheel of libgo/common/timer.h as the scheduler uses it: one  *)
(* thread runs ThreadRun(), which sweeps the wheel from the last tick to   *)
(* the present one; any thread calls StartTimer().  The wheel has Levels   *)
(* (8) rings of Base (256) slots; ring k turns Base times slower than ring *)
(* k-1.  Time is counted in units, Precision of them to a tick, so that a  *)
(* deadline can lie inside a tick.                                         *)
(*                                                                         *)
(* An Element stands for the StartTimer call that made it too.  A step is  *)
(* one critical section of a slot's lock or one access to point_, active_  *)
(* or an unlocked queue pointer.  StopTimer is left out: the scheduler     *)
(* drops the TimerIds it gets (processer.cpp:327).                         *)
(***************************************************************************)
EXTENDS Integers, SequencesExt

CONSTANTS
  Elems,      \* the Elements: deleted ones are made again by NewElement
  Base,       \* slots of a ring (256); level-up counting needs at least 3
  Levels,     \* rings (8)
  Precision,  \* precision_, in time units
  Durs,       \* the durations of StartTimer
  Pending,    \* Elements that already wait in the wheel
  Waits,      \* and how long they still have to wait
  Starts,     \* values of point_ from which the behaviours are followed
  Steps,      \* by how much the clock advances at once
  StartBy,    \* bound: StartTimer is called up to this time
  MaxGap,     \* bound: the ticks that pass between two sweeps
  MaxTime,    \* bound: the clock stops here
  None

ASSUME TimerAssumption ==
  /\ Base \in Nat /\ Base >= 3
  /\ Levels \in Nat /\ Levels > 0
  /\ Precision \in Nat /\ Precision > 0
  /\ Durs \subseteq 0..(Precision * Base^Levels - 1)
  /\ Pending \subseteq Elems /\ Waits \subseteq 1..(Precision * Base^Levels - 1)
  /\ Starts \subseteq Nat /\ Steps \subseteq Nat \ {0}
  /\ StartBy \in Nat /\ MaxTime \in Nat /\ MaxGap \in Nat

Complete == <<Levels, 0>>   \* completeSlot_
Slots == ((0..(Levels - 1)) \X (0..(Base - 1))) \cup {Complete}

VARIABLES
  now,          \* FastSteadyClock::now()
  point,        \* point_, in ticks
  slots,        \* slots_ and completeSlot_
  tp, refs, active, slot,  \* members of an Element; slot_ is None for null
  spc, slast,   \* where a StartTimer call is, and its local last
  calls,        \* how often cb_ ran since the last init()
  raced,        \* history: the slots were being visited, or point_ was stored, while
                \* the element was linked under the slot's lock
  rpc,          \* where the timer thread is
  sweep,        \* locals of RunOnce: now, and the slots still to visit
  taken, dispatchers,  \* the SList of Trigger, and the local Slot of RunOnce
  calling,      \* the element whose cb_ runs
  stop, qpc     \* stop_, and where the caller of Stop() is

elemVars == <<tp, refs, active, slot>>
startVars == <<spc, slast, raced>>
runVars == <<rpc, sweep, taken, dispatchers, calling>>
stopVars == <<stop, qpc>>
vars == <<now, point, slots, elemVars, startVars, calls, runVars, stopVars>>

-----------------------------------------------------------------------------
(* Where an element goes, and which slots a sweep visits.                  *)

\* Byte k of a Point.
Digit(v, k) == (v \div Base^k) % Base

\* The ring is that of the highest non-zero byte of the distance.
SlotFor(l, t) ==
  LET dur == (t - l * Precision) \div Precision
      ks == {k \in 0..(Levels - 1) : Digit(dur, k) > 0}
      k == CHOOSE k \in ks : \A j \in ks : j <= k
  IN IF ks = {} THEN <<0, Digit(l, 0)>>
     ELSE <<k, (Digit(dur, k) + Digit(l, k)) % Base>>

\* additions[]: 1 << 24 is missing in it.
Addition(k) == IF k < 3 THEN Base^k ELSE Base^(k + 1)

\* One turn of the loop of RunOnce, s being its locals: trigger a slot of ring
\* triggerLevel, and collect the slots of the rings above that turn with it.
Turn(s) ==
  LET pos == s.last + s.i
      lv == s.level
      count == [s.count EXCEPT ![lv] = @ + 1]
      level == IF count[lv] = Base THEN lv + 1 ELSE lv
      ups == {k \in (lv + 1)..(Levels - 1) :
                pos > 0 /\ \A j \in lv..(k - 1) : Digit(pos, j) = 0}
      levelup == (Base - Digit(pos, level - 1)) * Addition(level - 1)
      add == IF level > 0 /\ levelup < Addition(level) THEN levelup ELSE Addition(level)
  IN [s EXCEPT !.i = @ + add,
               !.level = level,
               !.count = [k \in DOMAIN count |-> count[k] + (IF k \in ups THEN 1 ELSE 0)],
               !.visits = <<<<lv, Digit(pos, lv)>>>>
                          \o [n \in 1..Cardinality(ups) |-> <<lv + n, Digit(pos, lv + n)>>],
               !.trigger = TRUE]

\* The loop goes on when a turn's visits are made.
NextTurn(s) == IF s.visits = <<>> /\ s.i < s.dest - s.last THEN Turn(s) ELSE s

-----------------------------------------------------------------------------
\* No RunOnce is under way.
Idle == [now |-> 0, last |-> 0, dest |-> 0, i |-> 0, level |-> 0,
         count |-> [k \in 0..Levels |-> 0], visits |-> <<>>, trigger |-> TRUE]

\* Pending timers were set before, and their TimerIds dropped.
Init ==
  /\ point \in Starts /\ now = point * Precision
  /\ \E d \in [Pending -> Waits] :
       LET due(e) == IF e \in Pending THEN now + d[e] ELSE 0
           home(e) == IF e \in Pending THEN SlotFor(point, due(e)) ELSE None
       IN /\ tp = [e \in Elems |-> due(e)]
          /\ slot = [e \in Elems |-> home(e)]
          /\ slots = [s \in Slots |-> SetToSeq({e \in Elems : home(e) = s})]
  /\ refs = [e \in Elems |-> IF e \in Pending THEN 2 ELSE 0]
  /\ spc = [e \in Elems |-> IF e \in Pending THEN "dropped" ELSE "free"]
  /\ active = [e \in Elems |-> FALSE]
  /\ slast = [e \in Elems |-> 0]
  /\ calls = [e \in Elems |-> 0]
  /\ raced = [e \in Elems |-> FALSE]
  /\ rpc = "run" /\ sweep = Idle
  /\ taken = <<>> /\ dispatchers = <<>> /\ calling = None
  /\ stop = FALSE /\ qpc = "idle"

Goto(e, l) == spc' = [spc EXCEPT ![e] = l]
RGoto(l) == rpc' = l

\* DecrementRef, n times.  At 0 the deleter runs, and NewElement can make the
\* Element anew, by new or from pool_.
Release(e, n) ==
  /\ refs' = [refs EXCEPT ![e] = @ - n]
  /\ spc' = [spc EXCEPT ![e] = IF refs[e] = n /\ @ = "dropped" THEN "free" ELSE @]
  /\ tp' = [tp EXCEPT ![e] = IF spc'[e] = "free" THEN 0 ELSE @]
  /\ raced' = [raced EXCEPT ![e] = spc'[e] # "free" /\ @]

-----------------------------------------------------------------------------
(* StartTimer.                                                             *)

\* NewElement() and init(); the TimerId holds a second reference.
StartTimer(e, d) ==
  /\ spc[e] = "free" /\ now <= StartBy
  /\ tp' = [tp EXCEPT ![e] = now + d]
  /\ refs' = [refs EXCEPT ![e] = 2]
  /\ active' = [active EXCEPT ![e] = FALSE]
  /\ slot' = [slot EXCEPT ![e] = None]
  /\ calls' = [calls EXCEPT ![e] = 0]
  /\ raced' = [raced EXCEPT ![e] = FALSE]
  /\ Goto(e, "read")
  /\ UNCHANGED <<now, point, slots, slast, runVars, stopVars>>

Link_NoRef(e, s) ==
  /\ slots' = [slots EXCEPT ![s] = Append(@, e)]
  /\ UNCHANGED refs

\* push(): a queue holds a reference.
Link(e, s) ==
  /\ slots' = [slots EXCEPT ![s] = Append(@, e)]
  /\ refs' = [refs EXCEPT ![e] = @ + 1]

\* Dispatch(e, false): load point_; what is already due goes to completeSlot_.
DispatchRead(e) ==
  /\ spc[e] = "read"
  /\ IF tp[e] <= point * Precision
     THEN Link(e, Complete) /\ Goto(e, "held") /\ UNCHANGED slast
     ELSE /\ slast' = [slast EXCEPT ![e] = point]
          /\ Goto(e, "lock")
          /\ UNCHANGED <<slots, refs>>
  /\ UNCHANGED <<now, point, tp, active, slot, calls, raced, runVars, stopVars>>

\* The lock of slot s is held by a call that is about to link.
Locked(s) == \E e \in Elems : spc[e] = "link" /\ SlotFor(slast[e], tp[e]) = s

\* Mutant: point_ is not loaded again under the lock.
DispatchLock_NoReload(e) ==
  /\ spc[e] = "lock" /\ ~Locked(SlotFor(slast[e], tp[e]))
  /\ Goto(e, "link")
  /\ UNCHANGED <<now, point, slots, elemVars, slast, calls, raced, runVars, stopVars>>

\* Take the slot's lock and load point_ again.
DispatchLock(e) ==
  /\ spc[e] = "lock" /\ ~Locked(SlotFor(slast[e], tp[e]))
  /\ Goto(e, IF slast[e] = point THEN "link" ELSE "read")
  /\ UNCHANGED <<now, point, slots, elemVars, slast, calls, raced, runVars, stopVars>>

DispatchLink(e) ==
  /\ spc[e] = "link"
  /\ LET s == SlotFor(slast[e], tp[e]) IN
       Link(e, s) /\ slot' = [slot EXCEPT ![e] = s]
  /\ raced' = [raced EXCEPT ![e] = @ \/ sweep.visits # <<>>]
  /\ slast' = [slast EXCEPT ![e] = 0]
  /\ Goto(e, "held")
  /\ UNCHANGED <<now, point, tp, active, calls, runVars, stopVars>>

\* The caller drops its TimerId.
DropTimerId(e) ==
  /\ spc[e] = "held"
  /\ refs' = [refs EXCEPT ![e] = @ - 1]
  /\ IF refs[e] = 1
     THEN /\ Goto(e, "free")
          /\ tp' = [tp EXCEPT ![e] = 0]
          /\ raced' = [raced EXCEPT ![e] = FALSE]
     ELSE Goto(e, "dropped") /\ UNCHANGED <<tp, raced>>
  /\ UNCHANGED <<now, point, slots, active, slot, slast, calls, runVars, stopVars>>

-----------------------------------------------------------------------------
(* The timer thread.                                                       *)

\* pop_all(): an empty queue is not even locked.
PopAll(s) ==
  /\ slots[s] # <<>> => ~Locked(s)
  /\ slots' = [slots EXCEPT ![s] = <<>>]

TriggerDone == taken = <<>> /\ calling = None
SweepDone == rpc = "sweep" /\ sweep.visits = <<>> /\ TriggerDone

RunOnce_SkipComplete ==
  /\ rpc = "run" /\ ~stop
  /\ RGoto("complete")
  /\ UNCHANGED <<now, point, slots, elemVars, startVars, calls, sweep, taken, dispatchers,
                 calling, stopVars>>

\* ThreadRun() calls RunOnce, which begins with Trigger(completeSlot_).
RunOnce ==
  /\ rpc = "run" /\ ~stop
  /\ PopAll(Complete)
  /\ taken' = slots[Complete]
  /\ RGoto("complete")
  /\ UNCHANGED <<now, point, elemVars, startVars, calls, sweep, dispatchers, calling, stopVars>>

\* Read the clock and store the new point_ before any slot is visited.
SetPoint ==
  /\ rpc = "complete" /\ TriggerDone
  /\ LET dest == now \div Precision IN
       IF dest <= point
       THEN RGoto("run") /\ UNCHANGED <<point, sweep>>
       ELSE /\ point' = dest
            /\ sweep' = NextTurn([Idle EXCEPT !.now = now, !.last = point, !.dest = dest])
            /\ RGoto("sweep")
  /\ raced' = [e \in Elems |-> raced[e] \/ (point' # point /\ spc[e] = "link")]
  /\ UNCHANGED <<now, slots, elemVars, spc, slast, calls, taken, dispatchers, calling, stopVars>>

\* The next visit: the first slot of a turn is triggered, the others are kept in
\* dispatchers.
Visit ==
  /\ rpc = "sweep" /\ TriggerDone /\ sweep.visits # <<>>
  /\ LET s == Head(sweep.visits) IN
       /\ PopAll(s)
       /\ IF sweep.trigger
          THEN taken' = slots[s] /\ UNCHANGED dispatchers
          ELSE dispatchers' = dispatchers \o slots[s] /\ UNCHANGED taken
  /\ sweep' = NextTurn([sweep EXCEPT !.visits = Tail(@), !.trigger = FALSE])
  /\ UNCHANGED <<now, point, elemVars, startVars, calls, rpc, calling, stopVars>>

\* call() up to the end of cb_, and the reference of the list that held e.  An
\* element that was cancelled is skipped, and the timer's reference dropped too.
BeginCall(e) ==
  IF active[e]
  THEN Release(e, 2) /\ UNCHANGED <<active, slot, calls, calling>>
  ELSE /\ active' = [active EXCEPT ![e] = TRUE]
       /\ slot' = [slot EXCEPT ![e] = None]
       /\ calls' = [calls EXCEPT ![e] = @ + 1]
       /\ calling' = e
       /\ Release(e, 1)

\* Trigger() goes on to the next element of its list.
Trigger ==
  /\ taken # <<>> /\ calling = None
  /\ BeginCall(Head(taken))
  /\ taken' = Tail(taken)
  /\ UNCHANGED <<now, point, slots, slast, rpc, sweep, dispatchers, stopVars>>

\* cb_ has returned: active_ is unlocked, and the timer drops its reference.
EndCall ==
  /\ calling # None
  /\ active' = [active EXCEPT ![calling] = FALSE]
  /\ Release(calling, 1)
  /\ calling' = None
  /\ UNCHANGED <<now, point, slots, slot, slast, calls, rpc, sweep, taken, dispatchers, stopVars>>

Dispatch_NoTimeCheck ==
  /\ SweepDone /\ dispatchers # <<>>
  /\ BeginCall(Head(dispatchers))
  /\ dispatchers' = Tail(dispatchers)
  /\ UNCHANGED <<now, point, slots, slast, rpc, sweep, taken, stopVars>>

\* Dispatch(dispatchers, now): call what is due, and sort the others in again.
Dispatch ==
  /\ SweepDone /\ dispatchers # <<>>
  /\ LET e == Head(dispatchers)
         s == SlotFor(point, tp[e])
     IN IF tp[e] <= sweep.now
        THEN BeginCall(e) /\ UNCHANGED slots
        ELSE /\ ~Locked(s)
             /\ slots' = [slots EXCEPT ![s] = Append(@, e)]
             /\ slot' = [slot EXCEPT ![e] = s]
             /\ UNCHANGED <<tp, refs, spc, active, calls, raced, calling>>
  /\ dispatchers' = Tail(dispatchers)
  /\ UNCHANGED <<now, point, slast, rpc, sweep, taken, stopVars>>

\* RunOnce returns; ThreadRun sleeps and looks at stop_.
RunOnceDone ==
  /\ SweepDone /\ dispatchers = <<>>
  /\ RGoto("run")
  /\ sweep' = Idle
  /\ UNCHANGED <<now, point, slots, elemVars, startVars, calls, taken, dispatchers,
                 calling, stopVars>>

\* ThreadRun ends: it notifies quit_, which only a caller that waits will hear.
ThreadEnds ==
  /\ rpc = "run" /\ stop
  /\ RGoto("ended")
  /\ qpc' = IF qpc = "wait" THEN "done" ELSE qpc
  /\ UNCHANGED <<now, point, slots, elemVars, startVars, calls, sweep, taken, dispatchers,
                 calling, stop>>

-----------------------------------------------------------------------------
(* Stop().                                                                 *)

StopFlag ==
  /\ qpc = "idle"
  /\ stop' = TRUE /\ qpc' = "flag"
  /\ UNCHANGED <<now, point, slots, elemVars, startVars, calls, runVars>>

StopWait ==
  /\ qpc = "flag"
  /\ qpc' = "wait"
  /\ UNCHANGED <<now, point, slots, elemVars, startVars, calls, runVars, stop>>

-----------------------------------------------------------------------------
\* The clock is read by StartTimer and SetPoint only: a call during a sweep at a
\* later time is a call with a longer duration.
Tick ==
  /\ rpc = "run"
  /\ \E g \in Steps : now + g <= MaxTime /\ now' = now + g
  /\ now' < (point + MaxGap + 1) * Precision
  /\ UNCHANGED <<point, slots, elemVars, startVars, calls, runVars, stopVars>>

Start(e) == DispatchRead(e) \/ DispatchLock(e) \/ DispatchLink(e) \/ DropTimerId(e)

Run == \/ RunOnce \/ SetPoint \/ Visit \/ Trigger \/ EndCall
       \/ Dispatch \/ RunOnceDone \/ ThreadEnds

Next ==
  \/ \E e \in Elems, d \in Durs : StartTimer(e, d)
  \/ \E e \in Elems : Start(e)
  \/ Run
  \/ StopFlag \/ StopWait
  \/ Tick

Spec == Init /\ [][Next]_vars

\* Threads are scheduled and time passes.
Fairness == WF_vars(Run) /\ SF_vars(Tick) /\ \A e \in Elems : WF_vars(Start(e))

FairSpec == Spec /\ Fairness

-----------------------------------------------------------------------------
(* Properties.                                                             *)

Count(e, q) == Cardinality({i \in DOMAIN q : q[i] = e})

\* How many lists hold e.
Holders(e) ==
  Count(e, taken) + Count(e, dispatchers) + Cardinality({s \in Slots : Count(e, slots[s]) > 0})

\* The reference count of an Element is exactly the number of its owners: each
\* list that holds it, its TimerId, and the timer until cb_ has returned.  So it
\* is neither freed under a list nor leaked.  And it is in one list, or has been
\* called once: moving it from ring to ring neither duplicates nor repeats a callback.
RefsExact ==
  \A e \in Elems :
    /\ calls[e] + Holders(e) <= 1
    /\ \A s \in Slots : Count(e, slots[s]) <= 1
    /\ refs[e] = Holders(e)
                 + (IF spc[e] \in {"read", "lock", "link", "held"} THEN 1 ELSE 0)
                 + (IF spc[e] \in {"read", "lock", "link"} \/ calling = e \/ Holders(e) > 0
                    THEN 1 ELSE 0)

\* A callback runs no earlier than its deadline.  The code keeps that except in
\* two cases: the element was linked while slots were visited or point_ stored, or
\* the sweep passes more than a turn of ring 0, when RunOnce triggers slots of
\* ring 1 and above without looking at the deadlines.
NotEarly ==
  [][\A e \in Elems : calls'[e] > calls[e] =>
        \/ now >= tp[e]
        \/ raced[e] \/ sweep.dest - sweep.last > Base]_vars

\* After a sweep no element whose deadline point_ has passed is left in the
\* wheel, unless it was linked while slots were visited or point_ was stored after
\* the second load: pop_all of an empty list does not wait for the lock, and the
\* element then waits for the next turn.
NotLate ==
  rpc = "run" => \A e \in Elems, s \in Slots \ {Complete} :
    Count(e, slots[s]) > 0 => tp[e] >= point * Precision \/ raced[e]

\* The time ring k needs for a turn.
RingTurn(k) == Precision * Base^(k + 1)

\* Every element that is linked, raced or not, in the wheel or in completeSlot_,
\* is called or Stop() was.  (The clock is bounded: it must have time left for a
\* turn of the element's ring.)
AllFire ==
  \A e \in Elems :
    (/\ spc[e] = "held" /\ Holders(e) > 0
     /\ slot[e] # None => now + RingTurn(slot[e][1]) <= MaxTime)
      ~> calls[e] = 1 \/ stop
=============================================================================
