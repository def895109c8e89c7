-------------------------------- MODULE Pools --------------------------------
(***************************************************************************)
(* The two pools at work: the tasks of an AsyncCoroutinePool each take a   *)
(* connection from a ConnectionPool and give it back, then their callback  *)
(* is due.  A worker of the one is a client of the other.                  *)
(***************************************************************************)
EXTENDS AsyncCoroutinePool, ConnectionPool

\* A scenario also says who takes part.
ASSUME PoolsAssumption ==
  /\ Workers \subseteq Clients
  /\ \A o \in Options : /\ o.workers \subseteq Workers /\ o.points \subseteq Points
                        /\ o.jobs \subseteq Jobs /\ o.reserve \subseteq Clients \ Workers

vars == <<asyncVars, connVars>>

Init == AsyncInit /\ ConnInit

\* func_ calls Get; it returns when its pointer is dropped or Get has given up.
Begin(w) == FuncBegin(w) /\ GetBegin(w)
End(w) == cpc[w] = "out" /\ FuncEnd(w) /\ UNCHANGED connVars

WorkerStep(w) ==
  \/ (TakeTask(w) \/ Callback(w) \/ PostCallback(w)) /\ UNCHANGED connVars
  \/ Begin(w) \/ End(w)

\* Clients that are no workers call Reserve.
Next ==
  /\ \/ \E w \in opts.workers : WorkerStep(w)
     \/ \E c \in Clients : ConnStep(c) /\ UNCHANGED asyncVars
     \/ \E c \in opts.reserve : Reserve(c) /\ UNCHANGED asyncVars
     \/ \E n \in Conns : Dies(n) /\ UNCHANGED asyncVars
     \/ \E j \in opts.jobs : Post(j) /\ UNCHANGED connVars
     \/ \E p \in opts.points : (AddReserve(p) \/ Adding(p) \/ Run(p)) /\ UNCHANGED connVars
  /\ UNCHANGED opts

Spec == Init /\ [][Next]_<<vars, opts>>

\* Coroutines are scheduled, connections are given back, timers fire, and the owner
\* of a point calls Run again and again.
FairSpec ==
  /\ Spec
  /\ \A w \in Workers : WF_vars(w \in opts.workers /\ WorkerStep(w))
  /\ \A c \in Clients : WF_vars(ConnStep(c) /\ UNCHANGED asyncVars)
  /\ \A p \in Points : /\ WF_vars(Run(p) /\ UNCHANGED connVars)
                       /\ WF_vars(Adding(p) /\ UNCHANGED connVars)

-----------------------------------------------------------------------------

\* The callback of every posted task is run, while tasks wait for connections and
\* callbacks for the owners of the points: the pools do not block each other.  (A
\* worker may have followed a pointer that was not stored yet, see CallbackOnce.)
CallbacksRun ==
  \A j \in Jobs : Posted(j) /\ ~opts.mortal /\ ~opts.fails
    ~> ran[j] = 1 \/ \E w \in Workers : wpc[w] = "undefined"
=============================================================================
