------------------------------- MODULE CondVar -------------------------------
(***************************************************************************)
(* The condition variable of libgo/sync/co_condition_variable.h and its    *)
(* WaitQueue (libgo/sync/wait_queue.h), as CoMutex, CoRWMutex, the locked  *)
(* channel and the connection pool use it: no cond functor, posDistance_   *)
(* 0, every wait and every notify_one(func) made with the client's lock    *)
(* held.                                                                   *)
(*                                                                         *)
(* A waiter is one call of do_wait and stands for its Entry too.  Waiter   *)
(* and notifier meet in Entry::suspendFlags (either may come first) and in *)
(* noTimeoutLock, which decides between notification and timeout.  A       *)
(* coroutine waits in Processer::Suspend (module Processer), a native      *)
(* thread on a std::condition_variable_any.  A waiter that timed out calls *)
(* notify_one() itself, without the client's lock.                         *)
(***************************************************************************)
EXTENDS Integers, Sequences, SequencesExt, FiniteSets

CONSTANTS
  Coroutines,  \* the do_wait calls made by coroutines
  Threads,     \* the do_wait calls made by native threads
  Notifiers,   \* callers of notify_one(func)
  Setups,      \* scenarios: [waiters, timed, spurious, relock, checkSize]
  None

Waiters == Coroutines \cup Threads
Actors == Waiters \cup Notifiers

ASSUME CondVarAssumption ==
  /\ Coroutines \cap Threads = {} /\ Waiters \cap Notifiers = {}
  /\ \A s \in Setups :
       /\ s.waiters \subseteq Waiters     \* the calls that are made
       /\ s.timed \subseteq s.waiters     \* the ones that have a timeout
       /\ s.spurious \in BOOLEAN          \* may std::condition_variable_any wake spuriously?
       /\ s.relock \in BOOLEAN            \* relockAfterWait_
       /\ s.checkSize \in Nat             \* length from which push() looks for dead entries
  /\ None \notin Actors

VARIABLES
  setup,          \* the scenario
  queue,          \* WaitQueue: the entries between head_ and tail_
  count,          \* count_
  checked,        \* check_: entries up to it were looked at; -1 for null
  flags,          \* Entry::suspendFlags
  noTimeoutLock,  \* Entry::noTimeoutLock
  coroEntry,      \* Entry::coroEntry: "unset", "valid" or "expired"
  wpc,            \* where a waiter is in do_wait
  result,         \* the cv_status a waiter returns
  got,            \* how often a functor wrote to the waiter's value
  npc, entry,     \* where an actor is in notify_one, and its local entry
  lock,           \* who holds the client's lock
  swept           \* history: waiters push() unlinked in the cases Misjudged names

moves == <<queue, count, checked, flags, noTimeoutLock, coroEntry, wpc, result, got,
           npc, entry, lock, swept>>
vars == <<setup, moves>>
queueVars == <<queue, count, checked, swept>>
entryVars == <<flags, noTimeoutLock, coroEntry, got>>

Init ==
  /\ setup \in Setups
  /\ queue = <<>> /\ count = 0 /\ checked = 0
  /\ flags = [w \in Waiters |-> {}]
  /\ noTimeoutLock = [w \in Waiters |-> FALSE]
  /\ coroEntry = [w \in Waiters |-> "unset"]
  /\ wpc = [w \in Waiters |-> "start"]
  /\ result = [w \in Waiters |-> "none"]
  /\ got = [w \in Waiters |-> 0]
  /\ npc = [a \in Actors |-> "idle"]
  /\ entry = [a \in Actors |-> None]
  /\ lock = None
  /\ swept = {}

WGoto(w, l) == wpc' = [wpc EXCEPT ![w] = l]
NGoto(a, l) == npc' = [npc EXCEPT ![a] = l]

-----------------------------------------------------------------------------
(* The queue.                                                              *)

IsValid_Inverted(w) ==
  \/ "suspend_begin" \notin flags[w]
  \/ coroEntry[w] = "expired"

\* isValid(): notified of a NativeThreadEntry is never locked.  Until
\* nativeThreadEntry is set a thread's entry is judged by its coroEntry.
IsValid(w) ==
  \/ "suspend_begin" \notin flags[w]
  \/ coroEntry[w] = "valid"

\* One turn of the loop of push(): look at the entry behind check_, unlink it if
\* it is dead, else move check_ to it.  count_ does not change.
Look(s) ==
  IF s.check < 0 \/ s.check >= Len(s.q) THEN s
  ELSE IF IsValid(s.q[s.check + 1]) THEN [s EXCEPT !.check = @ + 1]
  ELSE [s EXCEPT !.q = SubSeq(@, 1, s.check) \o SubSeq(@, s.check + 2, Len(@))]

\* The waiters isValid() takes for dead although nobody has woken them: a native
\* thread (nothing ever locks notified), and a coroutine that has set suspend_begin
\* and not yet stored its coroEntry.
Misjudged(w) == w \in Threads \/ (wpc[w] = "coroSuspend" /\ coroEntry[w] = "unset")

\* push(): append, and beyond the check size (16) look at two entries.
PushQueue(w) ==
  LET q == Append(queue, w)
      start == [q |-> q, check |-> IF checked >= Len(q) THEN -1 ELSE checked]
      end == IF count + 1 < setup.checkSize THEN [q |-> q, check |-> checked]
             ELSE Look(Look(start))
  IN /\ queue' = end.q
     /\ checked' = end.check
     /\ count' = count + 1
     /\ swept' = swept \cup {u \in ToSet(q) \ ToSet(end.q) : Misjudged(u)}

\* pop(): the head, which check_ leaves for its successor.
PopQueue ==
  /\ queue' = Tail(queue)
  /\ count' = count - 1
  /\ checked' = IF checked = 1 THEN (IF Len(queue) = 1 THEN -1 ELSE 1)
                ELSE IF checked > 1 THEN checked - 1
                ELSE checked
  /\ UNCHANGED swept

-----------------------------------------------------------------------------
(* do_wait.                                                                *)

\* The client holds its lock and calls wait, wait_for or wait_util.
WaitPush(w) ==
  /\ w \in setup.waiters
  /\ wpc[w] = "start" /\ lock = None
  /\ lock' = w
  /\ PushQueue(w)
  /\ WGoto(w, "unlock")
  /\ UNCHANGED <<entryVars, result, npc, entry>>

WaitUnlock(w) ==
  /\ wpc[w] = "unlock"
  /\ lock' = None
  /\ WGoto(w, "flags")
  /\ UNCHANGED <<queueVars, entryVars, result, npc, entry>>

\* A notifier that was here first is waited for, otherwise the entry is marked.
\* The yields in between only give it time.
WaitFlags(w) ==
  /\ wpc[w] = "flags"
  /\ IF "wakeup_begin" \in flags[w]
     THEN WGoto(w, "spin") /\ UNCHANGED flags
     ELSE /\ flags' = [flags EXCEPT ![w] = @ \cup {"suspend_begin"}]
          /\ WGoto(w, IF w \in Coroutines THEN "coroSuspend" ELSE "nativeEntry")
  /\ UNCHANGED <<queueVars, noTimeoutLock, coroEntry, got, result, npc, entry, lock>>

Return(w, r) ==
  /\ result' = [result EXCEPT ![w] = r]
  /\ WGoto(w, IF r = "timeout" THEN "clear" ELSE "relock")

WaitSpin_NoWait(w) ==
  /\ wpc[w] = "spin"
  /\ Return(w, "no_timeout")
  /\ UNCHANGED <<queueVars, entryVars, npc, entry, lock>>

WaitSpin(w) ==
  /\ wpc[w] = "spin" /\ "wakeup_end" \in flags[w]
  /\ Return(w, "no_timeout")
  /\ UNCHANGED <<queueVars, entryVars, npc, entry, lock>>

\* coroSuspend: the coroutine goes to the wait queue, its timer is started.
CoroSuspend(w) ==
  /\ wpc[w] = "coroSuspend"
  /\ coroEntry' = [coroEntry EXCEPT ![w] = "valid"]
  /\ WGoto(w, "store")
  /\ UNCHANGED <<queueVars, flags, noTimeoutLock, got, result, npc, entry, lock>>

\* A native thread creates its NativeThreadEntry and locks its mtx.
NativeEntry(w) ==
  /\ wpc[w] = "nativeEntry"
  /\ WGoto(w, "store")
  /\ UNCHANGED <<queueVars, entryVars, result, npc, entry, lock>>

StoreSuspendEnd_Lost(w) ==
  /\ wpc[w] = "store"
  /\ WGoto(w, IF w \in Coroutines THEN "asleep" ELSE "threadSuspend")
  /\ UNCHANGED <<queueVars, entryVars, result, npc, entry, lock>>

StoreSuspendEnd(w) ==
  /\ wpc[w] = "store"
  /\ flags' = [flags EXCEPT ![w] = @ \cup {"suspend_end"}]
  /\ WGoto(w, IF w \in Coroutines THEN "asleep" ELSE "threadSuspend")
  /\ UNCHANGED <<queueVars, noTimeoutLock, coroEntry, got, result, npc, entry, lock>>

\* cv.wait releases mtx and sleeps.
ThreadSuspend(w) ==
  /\ wpc[w] = "threadSuspend"
  /\ WGoto(w, "asleep")
  /\ UNCHANGED <<queueVars, entryVars, result, npc, entry, lock>>

\* The timer's callback: Processer::Wakeup of the coroutine's entry.
TimerWakeup(w) ==
  /\ w \in Coroutines \cap setup.timed
  /\ coroEntry[w] = "valid"
  /\ coroEntry' = [coroEntry EXCEPT ![w] = "expired"]
  /\ UNCHANGED <<queueVars, flags, noTimeoutLock, got, wpc, result, npc, entry, lock>>

\* Who takes noTimeoutLock first decides what the waiter returns.
Decide(w) ==
  /\ noTimeoutLock' = [noTimeoutLock EXCEPT ![w] = TRUE]
  /\ Return(w, IF noTimeoutLock[w] THEN "no_timeout" ELSE "timeout")

\* The coroutine was woken, by a notifier or by its timer.
CoroWoken(w) ==
  /\ w \in Coroutines
  /\ wpc[w] = "asleep" /\ coroEntry[w] = "expired"
  /\ Decide(w)
  /\ UNCHANGED <<queueVars, flags, coroEntry, got, npc, entry, lock>>

\* cv.wait returns: notified, timed out or for no reason.
ThreadWoken(w) ==
  /\ w \in Threads
  /\ wpc[w] = "asleep"
  /\ noTimeoutLock[w] \/ w \in setup.timed \/ setup.spurious
  /\ Decide(w)
  /\ UNCHANGED <<queueVars, flags, coroEntry, got, npc, entry, lock>>

\* A waiter that timed out calls notify_one().
WaitClear(w) ==
  /\ wpc[w] = "clear"
  /\ NGoto(w, "pop")
  /\ WGoto(w, "clearing")
  /\ UNCHANGED <<queueVars, entryVars, result, entry, lock>>

\* ~AutoLock takes the client's lock again; the client then leaves it.
WaitReturn(w) ==
  /\ wpc[w] = "relock"
  /\ setup.relock => lock = None
  /\ WGoto(w, "done")
  /\ UNCHANGED <<queueVars, entryVars, result, npc, entry, lock>>

-----------------------------------------------------------------------------
(* notify_one.                                                             *)

\* The client takes its lock and calls notify_one(func).
NotifyOne(n) ==
  /\ n \in Notifiers
  /\ npc[n] = "idle" /\ lock = None
  /\ lock' = n
  /\ NGoto(n, "pop")
  /\ UNCHANGED <<queueVars, entryVars, wpc, result, entry>>

\* notify_one returns: a client releases its lock, a timed-out waiter goes on.
NotifyReturn(a) ==
  /\ NGoto(a, "idle")
  /\ entry' = [entry EXCEPT ![a] = None]
  /\ IF a \in Waiters
     THEN WGoto(a, "relock") /\ UNCHANGED lock
     ELSE lock' = None /\ UNCHANGED wpc

\* notify() returned false: on with the next entry.
NotifyFailed(a) ==
  /\ NGoto(a, "pop")
  /\ entry' = [entry EXCEPT ![a] = None]
  /\ UNCHANGED <<wpc, lock>>

\* The functor writes to the waiter's value; notify_one() of a waiter has none.
Func(a, w) == got' = IF a \in Notifiers THEN [got EXCEPT ![w] = @ + 1] ELSE got

Pop(a) ==
  /\ npc[a] = "pop"
  /\ IF queue = <<>>
     THEN NotifyReturn(a) /\ UNCHANGED queueVars
     ELSE /\ PopQueue
          /\ entry' = [entry EXCEPT ![a] = Head(queue)]
          /\ NGoto(a, "notify")
          /\ UNCHANGED <<wpc, lock>>
  /\ UNCHANGED <<entryVars, result>>

NotifyFlags_NoSpin(a) ==
  LET w == entry[a] IN
  /\ npc[a] = "notify"
  /\ IF "suspend_begin" \in flags[w]
     THEN /\ UNCHANGED flags
          /\ IF "suspend_end" \in flags[w]
             THEN NGoto(a, "spin") /\ UNCHANGED <<wpc, entry, lock>>
             ELSE NotifyFailed(a)
     ELSE /\ flags' = [flags EXCEPT ![w] = @ \cup {"wakeup_begin"}]
          /\ NGoto(a, "early") /\ UNCHANGED <<wpc, entry, lock>>
  /\ UNCHANGED <<queueVars, noTimeoutLock, coroEntry, got, result>>

\* Entry::notify: has the waiter begun to suspend itself?
NotifyFlags(a) ==
  LET w == entry[a] IN
  /\ npc[a] = "notify"
  /\ IF "suspend_begin" \in flags[w]
     THEN NGoto(a, "spin") /\ UNCHANGED flags
     ELSE /\ flags' = [flags EXCEPT ![w] = @ \cup {"wakeup_begin"}]
          /\ NGoto(a, "early")
  /\ UNCHANGED <<queueVars, noTimeoutLock, coroEntry, got, wpc, result, entry, lock>>

\* It has not: hand over before it does.
NotifyEarly(a) ==
  LET w == entry[a] IN
  /\ npc[a] = "early"
  /\ noTimeoutLock' = [noTimeoutLock EXCEPT ![w] = TRUE]
  /\ IF noTimeoutLock[w] THEN UNCHANGED got ELSE Func(a, w)
  /\ NGoto(a, IF noTimeoutLock[w] THEN "earlyFail" ELSE "earlyEnd")
  /\ UNCHANGED <<queueVars, flags, coroEntry, wpc, result, entry, lock>>

NotifyEarlyEnd(a) ==
  /\ npc[a] \in {"earlyEnd", "earlyFail"}
  /\ flags' = [flags EXCEPT ![entry[a]] = @ \cup {"wakeup_end"}]
  /\ IF npc[a] = "earlyEnd" THEN NotifyReturn(a) ELSE NotifyFailed(a)
  /\ UNCHANGED <<queueVars, noTimeoutLock, coroEntry, got, result>>

\* It has: wait until it is suspended, then claim the decision.
NotifyLock(a) ==
  LET w == entry[a] IN
  /\ npc[a] = "spin" /\ "suspend_end" \in flags[w] /\ w \in Coroutines
  /\ noTimeoutLock' = [noTimeoutLock EXCEPT ![w] = TRUE]
  /\ IF noTimeoutLock[w] THEN NotifyFailed(a)
     ELSE NGoto(a, "wakeup") /\ UNCHANGED <<entry, wpc, lock>>
  /\ UNCHANGED <<queueVars, flags, coroEntry, got, result>>

\* Processer::Wakeup runs the functor before the coroutine can run.
NotifyWakeup(a) ==
  LET w == entry[a] IN
  /\ npc[a] = "wakeup"
  /\ IF coroEntry[w] = "valid"
     THEN /\ coroEntry' = [coroEntry EXCEPT ![w] = "expired"]
          /\ Func(a, w)
          /\ NotifyReturn(a)
     ELSE NotifyFailed(a) /\ UNCHANGED <<coroEntry, got>>
  /\ UNCHANGED <<queueVars, flags, noTimeoutLock, result>>

NotifyThread_Blind(a) ==
  LET w == entry[a] IN
  /\ npc[a] = "spin" /\ "suspend_end" \in flags[w] /\ w \in Threads
  /\ wpc[w] # "threadSuspend"
  /\ noTimeoutLock' = [noTimeoutLock EXCEPT ![w] = TRUE]
  /\ NotifyReturn(a) /\ Func(a, w)
  /\ UNCHANGED <<queueVars, flags, coroEntry, result>>

\* A native thread: everything under the mtx it gave up in cv.wait.
NotifyThread(a) ==
  LET w == entry[a] IN
  /\ npc[a] = "spin" /\ "suspend_end" \in flags[w] /\ w \in Threads
  /\ wpc[w] # "threadSuspend"
  /\ noTimeoutLock' = [noTimeoutLock EXCEPT ![w] = TRUE]
  /\ IF noTimeoutLock[w] THEN NotifyFailed(a) /\ UNCHANGED got
     ELSE NotifyReturn(a) /\ Func(a, w)
  /\ UNCHANGED <<queueVars, flags, coroEntry, result>>

-----------------------------------------------------------------------------
WaitStep(w) ==
  \/ WaitUnlock(w) \/ WaitFlags(w) \/ WaitSpin(w) \/ CoroSuspend(w) \/ NativeEntry(w)
  \/ StoreSuspendEnd(w) \/ ThreadSuspend(w) \/ CoroWoken(w) \/ ThreadWoken(w)
  \/ WaitClear(w)

NotifyStep(a) ==
  \/ Pop(a) \/ NotifyFlags(a) \/ NotifyEarly(a) \/ NotifyEarlyEnd(a) \/ NotifyLock(a)
  \/ NotifyWakeup(a) \/ NotifyThread(a)

Next ==
  /\ \/ \E w \in Waiters : WaitPush(w) \/ WaitStep(w) \/ TimerWakeup(w) \/ WaitReturn(w)
     \/ \E n \in Notifiers : NotifyOne(n)
     \/ \E a \in Actors : NotifyStep(a)
  /\ UNCHANGED setup

Spec == Init /\ [][Next]_vars

\* Threads are scheduled, timers fire, a lock that is free again and again is
\* obtained, and notifications keep coming.
Fairness ==
  /\ \A w \in Waiters :
       WF_moves(WaitStep(w)) /\ WF_moves(TimerWakeup(w)) /\ SF_moves(WaitReturn(w))
  /\ \A a \in Actors : WF_moves(NotifyStep(a))

FairSpec == Spec /\ Fairness

-----------------------------------------------------------------------------
(* Properties.                                                             *)

\* The functor writes through the pointer the waiter left in its entry (the
\* channel's is the address of a variable of the waiting caller), so it may run
\* only until the waiter has decided to return.
ValueAlive ==
  [][\A w \in Waiters :
       got'[w] # got[w] => wpc[w] \notin {"start", "clear", "clearing", "relock", "done"}]_vars

\* A value goes to a waiter at most once, and never to one that reports a
\* timeout: it would be lost.  assert(false) in Entry::notify is not reached.
OneOutcome ==
  /\ \A w \in Waiters : got[w] <= 1 /\ (result[w] = "timeout" => got[w] = 0)
  /\ \A a \in Actors : npc[a] # "earlyFail"

\* Every wait with a timeout ends, every notified wait ends and every notify_one
\* returns: the two spin loops on suspendFlags never wait for each other.
CallsEnd ==
  /\ \A w \in Waiters :
       (wpc[w] = "unlock" /\ w \in setup.timed) \/ noTimeoutLock[w] ~> wpc[w] = "done"
  /\ \A a \in Actors : npc[a] = "pop" ~> npc[a] = "idle"

\* A waiter that sleeps without a timeout can still be notified: its entry is on
\* the queue, or with a notifier, or was notified already.  The sweep of push()
\* takes nobody else off the queue than the waiters isValid() is known to misjudge.
SleeperReachable ==
  \A w \in Waiters \ (setup.timed \cup swept) :
    wpc[w] \in {"flags", "coroSuspend", "nativeEntry", "store", "threadSuspend", "asleep"} =>
      \/ noTimeoutLock[w]
      \/ w \in ToSet(queue)
      \/ \E a \in Actors : entry[a] = w

\* Whoever answers no_timeout was handed a value, except for one waiter per waiter
\* that timed out: the notify_one() by which that one means to clear its own entry
\* wakes the head of the queue without a functor.  Timed coroutines are left out:
\* a timer that fires between noTimeoutLock and Wakeup makes one answer no_timeout
\* although the value goes to the next waiter.
AnsweredAreServed ==
  Cardinality({w \in Waiters \ (Coroutines \cap setup.timed) :
                 result[w] = "no_timeout" /\ got[w] = 0})
    <= Cardinality({w \in Waiters : result[w] = "timeout"})

-----------------------------------------------------------------------------
\* The condition variable as a client that waits without a timeout sees it.  An
\* entry is popped before its waiter is served; the notifier holds the lock.
\* Nothing is said of the scenarios with timeouts, spurious wakeups or sweeps.
Plain ==
  setup.timed = {} /\ ~setup.spurious /\ setup.checkSize > Cardinality(setup.waiters)

Pending == {entry[n] : n \in {m \in Notifiers : entry[m] # None /\ got[entry[m]] = 0}}

Cv == INSTANCE FifoCv WITH
  waiting <- IF Plain
             THEN (IF Pending = {} THEN <<>> ELSE <<CHOOSE w \in Pending : TRUE>>) \o queue
             ELSE <<>>,
  served <- {w \in Waiters : Plain /\ got[w] > 0 /\ wpc[w] # "done"}

\* Without timeouts, spurious wakeups and sweeps waiters are served once each, in the
\* order in which they came, and return only then.
RefinesFifoCv == Cv!Spec
=============================================================================
