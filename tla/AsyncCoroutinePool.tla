------------------------- MODULE AsyncCoroutinePool -------------------------
(***************************************************************************)
(* The coroutine pool of libgo/pool/async_coroutine_pool.cpp: workers take *)
(* tasks posted by other threads, run them, and have the callback run by a *)
(* CallbackPoint's owner, if there is a point, or run it themselves.       *)
(*                                                                         *)
(* tasks_ and the channels of the points have capacity 0: Post returns     *)
(* when a worker has taken the task, and a worker goes on when the point's *)
(* owner has taken the callback.  The compare_exchange of AddCallbackPoint *)
(* overwrites the value it expects, so it does not wait for the slots      *)
(* below to be stored: a call may publish the slot of another one.         *)
(***************************************************************************)
EXTENDS Naturals, Sequences, FiniteSets

CONSTANTS
  Workers,            \* the coroutines of the pool
  Jobs,               \* tasks, each with a callback: 1..n, posted in this order
  Points,             \* CallbackPoints: 1..n; the calls that add them begin in this order
  MaxCallbackPoints,
  RobinWrap,          \* robin_ is counted modulo this
  Nil

ASSUME AsyncCoroutinePoolAssumption ==
  /\ MaxCallbackPoints \in Nat /\ Nil \notin Jobs \cup Points
  /\ Jobs \subseteq Nat /\ Points \subseteq Nat
  /\ RobinWrap \in Nat \ {0} /\ \A n \in 1..MaxCallbackPoints : RobinWrap % n = 0

VARIABLES
  tasks,          \* tasks_: the jobs whose Post waits
  wpc, job, idx,  \* where a worker is, its task, the point it has chosen
  points, pointsCount, writePointsCount, robin,
  apc, at,        \* where the AddCallbackPoint of a point is, and its writeIdx
  overtook,       \* history: an AddCallbackPoint has published another one's slot
  channel,        \* CallbackPoint::channel_: the workers whose Post waits
  ran             \* history: how often a callback was run

asyncVars == <<tasks, wpc, job, idx, points, pointsCount, writePointsCount, robin, apc, at,
               overtook, channel, ran>>

AsyncInit ==
  /\ tasks = <<>>
  /\ wpc = [w \in Workers |-> "take"]
  /\ job = [w \in Workers |-> Nil]
  /\ idx = [w \in Workers |-> 0]
  /\ points = [i \in 0..(MaxCallbackPoints - 1) |-> Nil]
  /\ pointsCount = 0 /\ writePointsCount = 0 /\ robin = 0
  /\ apc = [p \in Points |-> "idle"]
  /\ at = [p \in Points |-> 0]
  /\ overtook = FALSE
  /\ channel = [p \in Points |-> <<>>]
  /\ ran = [j \in Jobs |-> 0]

pointVars == <<points, pointsCount, writePointsCount, apc, at, overtook>>

Posted(j) == \/ \E i \in DOMAIN tasks : tasks[i] = j
             \/ \E w \in Workers : job[w] = j
             \/ ran[j] > 0

Post(j) ==
  /\ ~Posted(j) /\ \A k \in Jobs : k < j => Posted(k)
  /\ tasks' = Append(tasks, j)
  /\ UNCHANGED <<wpc, job, idx, pointVars, robin, channel, ran>>

\* Go(): take a task ...
TakeTask(w) ==
  /\ wpc[w] = "take" /\ tasks # <<>>
  /\ job' = [job EXCEPT ![w] = Head(tasks)]
  /\ tasks' = Tail(tasks)
  /\ wpc' = [wpc EXCEPT ![w] = "func"]
  /\ UNCHANGED <<idx, pointVars, robin, channel, ran>>

\* ... run func_ ...
FuncBegin(w) ==
  /\ wpc[w] = "func"
  /\ wpc' = [wpc EXCEPT ![w] = "in_func"]
  /\ UNCHANGED <<tasks, job, idx, pointVars, robin, channel, ran>>

FuncEnd(w) ==
  /\ wpc[w] = "in_func"
  /\ wpc' = [wpc EXCEPT ![w] = "cb"]
  /\ UNCHANGED <<tasks, job, idx, pointVars, robin, channel, ran>>

Callback_NoPoint(w) ==
  /\ wpc[w] = "cb"
  /\ IF pointsCount = 0
     THEN /\ wpc' = [wpc EXCEPT ![w] = "take"]
          /\ job' = [job EXCEPT ![w] = Nil]
          /\ UNCHANGED <<ran, robin, idx>>
     ELSE /\ robin' = (robin + 1) % RobinWrap
          /\ idx' = [idx EXCEPT ![w] = robin' % pointsCount]
          /\ wpc' = [wpc EXCEPT ![w] = "post"]
          /\ UNCHANGED <<ran, job>>
  /\ UNCHANGED <<tasks, pointVars, channel>>

\* ... and run the callback, or choose a point for it in turn.  (robin_ matters only
\* modulo the number of points: RobinWrap is a multiple of every such number.)
Callback(w) ==
  /\ wpc[w] = "cb"
  /\ IF pointsCount = 0
     THEN /\ ran' = [ran EXCEPT ![job[w]] = @ + 1]
          /\ wpc' = [wpc EXCEPT ![w] = "take"]
          /\ job' = [job EXCEPT ![w] = Nil]
          /\ UNCHANGED <<robin, idx>>
     ELSE /\ robin' = (robin + 1) % RobinWrap
          /\ idx' = [idx EXCEPT ![w] = robin' % pointsCount]
          /\ wpc' = [wpc EXCEPT ![w] = "post"]
          /\ UNCHANGED <<ran, job>>
  /\ UNCHANGED <<tasks, pointVars, channel>>

\* CallbackPoint::Post waits in the point's channel.  What a worker does with the
\* pointer in a slot that is not stored yet is undefined.
PostCallback(w) ==
  /\ wpc[w] = "post"
  /\ IF points[idx[w]] = Nil
     THEN wpc' = [wpc EXCEPT ![w] = "undefined"] /\ UNCHANGED channel
     ELSE /\ channel' = [channel EXCEPT ![points[idx[w]]] = Append(@, w)]
          /\ wpc' = [wpc EXCEPT ![w] = "posting"]
  /\ UNCHANGED <<tasks, job, idx, pointVars, robin, ran>>

Run_Peek(p) ==
  /\ channel[p] # <<>>
  /\ ran' = [ran EXCEPT ![job[Head(channel[p])]] = @ + 1]
  /\ UNCHANGED <<tasks, channel, wpc, job, idx, pointVars, robin>>

\* The owner calls Run: TryPop and the callback; the worker's Post returns, Notify.
Run(p) ==
  LET w == Head(channel[p]) IN
  /\ channel[p] # <<>>
  /\ channel' = [channel EXCEPT ![p] = Tail(@)]
  /\ ran' = [ran EXCEPT ![job[w]] = @ + 1]
  /\ wpc' = [wpc EXCEPT ![w] = "take"]
  /\ job' = [job EXCEPT ![w] = Nil]
  /\ idx' = [idx EXCEPT ![w] = 0]
  /\ UNCHANGED <<tasks, pointVars, robin>>

-----------------------------------------------------------------------------
(* AddCallbackPoint.                                                       *)

PGoto(p, l) == apc' = [apc EXCEPT ![p] = l]

AddReserve(p) ==
  /\ apc[p] = "idle" /\ \A q \in Points : q < p => apc[q] # "idle"
  /\ writePointsCount' = writePointsCount + 1
  /\ at' = [at EXCEPT ![p] = writePointsCount]
  /\ PGoto(p, IF writePointsCount >= MaxCallbackPoints THEN "full" ELSE "store")
  /\ UNCHANGED <<tasks, wpc, job, idx, points, pointsCount, overtook, robin, channel, ran>>

AddFull(p) ==
  /\ apc[p] = "full"
  /\ writePointsCount' = writePointsCount - 1
  /\ PGoto(p, "false")
  /\ UNCHANGED <<tasks, wpc, job, idx, points, pointsCount, at, overtook, robin, channel, ran>>

AddStore(p) ==
  /\ apc[p] = "store"
  /\ points' = [points EXCEPT ![at[p]] = p]
  /\ PGoto(p, "publish")
  /\ UNCHANGED <<tasks, wpc, job, idx, pointsCount, writePointsCount, at, overtook, robin,
                 channel, ran>>

\* compare_exchange of pointsCount_: it succeeds, or writeIdx becomes what it read.
AddPublish(p) ==
  /\ apc[p] = "publish"
  /\ IF pointsCount = at[p]
     THEN /\ pointsCount' = at[p] + 1
          /\ overtook' = (overtook \/ points[at[p]] # p)
          /\ PGoto(p, "true")
          /\ UNCHANGED at
     ELSE at' = [at EXCEPT ![p] = pointsCount] /\ UNCHANGED <<pointsCount, overtook, apc>>
  /\ UNCHANGED <<tasks, wpc, job, idx, points, writePointsCount, robin, channel, ran>>

Adding(p) == AddFull(p) \/ AddStore(p) \/ AddPublish(p)

-----------------------------------------------------------------------------
(* Properties.                                                             *)

\* A worker posts to a point that has been stored, however the calls of
\* AddCallbackPoint and the choice of the point interleave, unless one of the calls
\* has published the slot of another that is about to store its point.  A callback
\* is run once at most, and not while a worker still has its func_ to run.
CallbackOnce ==
  /\ \A w \in Workers :
       /\ wpc[w] = "undefined" => overtook
       /\ wpc[w] = "post" /\ points[idx[w]] = Nil =>
            overtook /\ \E p \in Points : apc[p] = "store" /\ at[p] = idx[w]
  /\ \A j \in Jobs : ran[j] <= 1 /\ (ran[j] = 1 => \A w \in Workers : job[w] # j)
=============================================================================
