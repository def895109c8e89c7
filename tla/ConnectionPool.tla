--------------------------- MODULE ConnectionPool ---------------------------
(***************************************************************************)
(* The connection pool of libgo/pool/connection_pool.h.  channel_ is a     *)
(* locked channel (module LockedChannel) that the pool only ever pushes to *)
(* without waiting: idle connections, and the clients that wait for one.   *)
(*                                                                         *)
(* A step is one operation of count_ or of channel_, or a call of a user's *)
(* functor; count_ and the channel are read and changed in steps of their  *)
(* own.  A client that has timed out takes the next one off the queue      *)
(* (do_wait's notify_one()), which then returns with a null connection; so *)
(* does one whose timer fires just before it is notified.  The pool asks   *)
(* checkAliveOnGet about the null connection too and, if it says no,       *)
(* deletes null: count_ goes down though no connection does.  count_ is a  *)
(* size_t; here it is an integer, negative where it would have wrapped.    *)
(***************************************************************************)
EXTENDS Integers, Sequences, FiniteSets

CONSTANTS
  Clients,
  Conns,    \* bound: names for the connections that exist at once
  Options,  \* [max, idle, timed, mortal, fails]: maxConnection_, maxIdleConnection_, the
            \* clients whose Get has a timeout, do connections die (both checks are given
            \* then), may the factory return null
  None

ASSUME ConnectionPoolAssumption ==
  /\ IsFiniteSet(Clients) /\ IsFiniteSet(Conns) /\ None \notin Conns
  /\ \A o \in Options : /\ o.max \in Nat \ {0} /\ o.idle \in Nat \ {0} /\ o.timed \subseteq Clients

VARIABLES
  opts,
  count,         \* count_
  idle, queue,   \* channel_: the connections in it, the clients that wait
  woken,         \* the waiting clients that have been notified
  cpc, conn,     \* where a client is, and its connection
  reserved,      \* i of Reserve, or None in Get
  exists, dead,  \* the connections there are, and the ones among them that died
  nulls          \* history: how often null was deleted

connVars == <<count, idle, queue, woken, cpc, conn, reserved, exists, dead, nulls>>

ConnInit ==
  /\ opts \in Options
  /\ count = 0 /\ idle = <<>> /\ queue = <<>> /\ woken = {}
  /\ cpc = [c \in Clients |-> "out"]
  /\ conn = [c \in Clients |-> None]
  /\ reserved = [c \in Clients |-> None]
  /\ exists = {} /\ dead = {} /\ nulls = 0

CGoto(c, l) == cpc' = [cpc EXCEPT ![c] = l]

-----------------------------------------------------------------------------
(* Get.                                                                    *)

GetBegin(c) ==
  /\ cpc[c] = "out"
  /\ CGoto(c, "get")
  /\ UNCHANGED <<count, idle, queue, woken, conn, reserved, exists, dead, nulls>>

Take_Left(c) == conn' = [conn EXCEPT ![c] = Head(idle)] /\ UNCHANGED idle

Take(c) == conn' = [conn EXCEPT ![c] = Head(idle)] /\ idle' = Tail(idle)

TryPop(c) ==
  /\ cpc[c] = "get"
  /\ IF idle = <<>> THEN CGoto(c, "create") /\ UNCHANGED <<conn, idle>>
     ELSE CGoto(c, "check") /\ Take(c)
  /\ UNCHANGED <<count, queue, woken, reserved, exists, dead, nulls>>

\* Comparisons of a size_t: a number below zero is a very large one.
Exceeds(n, limit) == n < 0 \/ n > limit

\* CreateOne: count first, and look whether that was too many.
Create(c) ==
  /\ cpc[c] = "create"
  /\ count' = count + 1
  /\ CGoto(c, IF Exceeds(count + 1, opts.max) THEN "undo" ELSE "factory")
  /\ UNCHANGED <<idle, queue, woken, conn, reserved, exists, dead, nulls>>

Undo_Kept(c) ==
  /\ cpc[c] = "undo"
  /\ CGoto(c, IF reserved[c] = None THEN "pop" ELSE "out")
  /\ reserved' = [reserved EXCEPT ![c] = None]
  /\ UNCHANGED <<count, idle, queue, woken, conn, exists, dead, nulls>>

\* It was, or the factory failed: Get will wait, Reserve give up.
Undo(c) ==
  /\ cpc[c] = "undo"
  /\ count' = count - 1
  /\ CGoto(c, IF reserved[c] = None THEN "pop" ELSE "out")
  /\ reserved' = [reserved EXCEPT ![c] = None]
  /\ UNCHANGED <<idle, queue, woken, conn, exists, dead, nulls>>

Factory(c) ==
  /\ cpc[c] = "factory"
  /\ \/ LET n == CHOOSE x \in Conns : x \notin exists IN
          /\ Conns \ exists # {}
          /\ exists' = exists \cup {n}
          /\ conn' = [conn EXCEPT ![c] = n]
          /\ CGoto(c, IF reserved[c] = None THEN "hold" ELSE "put")
     \/ opts.fails /\ CGoto(c, "undo") /\ UNCHANGED <<exists, conn>>
  /\ UNCHANGED <<count, idle, queue, woken, reserved, dead, nulls>>

\* channel_ >> connection, or TimedPop.
Pop(c) ==
  /\ cpc[c] = "pop"
  /\ IF idle = <<>>
     THEN CGoto(c, "wait") /\ queue' = Append(queue, c) /\ UNCHANGED <<conn, idle>>
     ELSE CGoto(c, "check") /\ Take(c) /\ UNCHANGED queue
  /\ UNCHANGED <<count, woken, reserved, exists, dead, nulls>>

Woken(c) ==
  /\ cpc[c] = "wait" /\ c \in woken
  /\ woken' = woken \ {c}
  /\ CGoto(c, "check")
  /\ UNCHANGED <<count, idle, queue, conn, reserved, exists, dead, nulls>>

\* Get returns null, and the next one in the queue is notified without a value.
Timeout(c) ==
  /\ cpc[c] = "wait" /\ c \in opts.timed \ woken
  /\ CGoto(c, "out")
  /\ \E i \in 1..Len(queue) :
       LET rest == SubSeq(queue, 1, i - 1) \o SubSeq(queue, i + 1, Len(queue)) IN
       /\ queue[i] = c
       /\ IF rest = <<>> THEN queue' = <<>> /\ UNCHANGED woken
          ELSE queue' = Tail(rest) /\ woken' = woken \cup {Head(rest)}
  /\ UNCHANGED <<count, idle, conn, reserved, exists, dead, nulls>>

-----------------------------------------------------------------------------
(* Out, Put and Delete.                                                    *)

\* Delete: --count_, and then the deleter.
Delete(c, back) == count' = count - 1 /\ CGoto(c, back)

\* What checkAliveOnGet, if it is given, may say; of null it may say anything.
Alive(c) ==
  IF ~opts.mortal THEN {TRUE}
  ELSE IF conn[c] = None THEN BOOLEAN
  ELSE {conn[c] \notin dead}

\* A null connection it lets pass is returned as it is.
Check(c) ==
  /\ cpc[c] = "check"
  /\ \E alive \in Alive(c) :
       IF alive THEN CGoto(c, IF conn[c] = None THEN "out" ELSE "hold") /\ UNCHANGED <<count, nulls>>
       ELSE /\ Delete(c, "deleter_get")
            /\ nulls' = IF conn[c] = None THEN nulls + 1 ELSE nulls
  /\ UNCHANGED <<idle, queue, woken, conn, reserved, exists, dead>>

\* The last pointer is dropped: checkAliveOnPut.
Release(c) ==
  /\ cpc[c] = "hold"
  /\ IF opts.mortal /\ conn[c] \in dead THEN Delete(c, "deleter_out")
     ELSE CGoto(c, "put") /\ UNCHANGED count
  /\ UNCHANGED <<idle, queue, woken, conn, reserved, exists, dead, nulls>>

\* Where the pushing client goes on: Reserve with its next connection.
AfterPush(c) ==
  LET more == reserved[c] # None /\ reserved[c] + 1 < opts.idle IN
  /\ CGoto(c, IF more THEN "create" ELSE "out")
  /\ reserved' = [reserved EXCEPT ![c] = IF more THEN @ + 1 ELSE None]

Put_NoNotify(c) ==
  /\ cpc[c] = "put"
  /\ IF Len(idle) < opts.idle
     THEN AfterPush(c) /\ idle' = Append(idle, conn[c]) /\ conn' = [conn EXCEPT ![c] = None] /\ UNCHANGED count
     ELSE Delete(c, "deleter_out") /\ UNCHANGED <<idle, conn, reserved>>
  /\ UNCHANGED <<queue, woken, exists, dead, nulls>>

\* TryPush: no room and it is deleted; into an empty channel, the first waiting
\* client gets it whose timer has not fired.
Put(c) ==
  /\ cpc[c] = "put"
  /\ IF Len(idle) >= opts.idle
     THEN Delete(c, "deleter_out") /\ UNCHANGED <<idle, queue, woken, conn, reserved>>
     ELSE /\ AfterPush(c)
          /\ UNCHANGED count
          /\ IF idle # <<>> \/ queue = <<>>
             THEN /\ idle' = Append(idle, conn[c])
                  /\ conn' = [conn EXCEPT ![c] = None]
                  /\ UNCHANGED <<queue, woken>>
             ELSE \E i \in 1..(Len(queue) + 1) :
                    /\ \A j \in 1..(i - 1) : queue[j] \in opts.timed
                    /\ queue' = SubSeq(queue, i + 1, Len(queue))
                    /\ woken' = woken \cup {queue[j] : j \in 1..(IF i > Len(queue) THEN i - 1 ELSE i)}
                    /\ IF i > Len(queue)
                       THEN idle' = <<conn[c]>> /\ conn' = [conn EXCEPT ![c] = None]
                       ELSE conn' = [conn EXCEPT ![queue[i]] = conn[c], ![c] = None] /\ UNCHANGED idle
  /\ UNCHANGED <<exists, dead, nulls>>

\* deleter_(connection); Get tries again.
Deleter(c) ==
  /\ cpc[c] \in {"deleter_get", "deleter_out"}
  /\ exists' = exists \ {conn[c]} /\ dead' = dead \ {conn[c]}
  /\ conn' = [conn EXCEPT ![c] = None]
  /\ reserved' = [reserved EXCEPT ![c] = None]
  /\ CGoto(c, IF cpc[c] = "deleter_get" THEN "get" ELSE "out")
  /\ UNCHANGED <<count, idle, queue, woken, nulls>>

\* Reserve(n), which does not look at n.
Reserve(c) ==
  /\ cpc[c] = "out" /\ 0 <= count /\ count < opts.idle
  /\ reserved' = [reserved EXCEPT ![c] = count]
  /\ CGoto(c, "create")
  /\ UNCHANGED <<count, idle, queue, woken, conn, exists, dead, nulls>>

\* The other end of connection n goes away.
Dies(n) ==
  /\ opts.mortal /\ n \in exists \ dead
  /\ dead' = dead \cup {n}
  /\ UNCHANGED <<count, idle, queue, woken, cpc, conn, reserved, exists, nulls>>

\* What a client does by itself, once it has called Get, Reserve or dropped its pointer.
ConnStep(c) ==
  \/ TryPop(c) \/ Create(c) \/ Undo(c) \/ Factory(c) \/ Pop(c) \/ Woken(c) \/ Timeout(c)
  \/ Check(c) \/ Put(c) \/ Deleter(c) \/ Release(c)

-----------------------------------------------------------------------------
(* Properties.                                                             *)

\* The connections whose deleter is about to run.
Deleting ==
  {c \in Clients : cpc[c] \in {"deleter_get", "deleter_out"} /\ conn[c] # None}

\* count_ counts the connections that exist and the attempts under way, less what
\* is being deleted and one for every null deleted, in every interleaving of
\* CreateOne, Put and Delete: nothing else loses a slot of the pool or counts one
\* twice.  So the pool stays within maxConnection_, but for connections whose
\* deleter has not run (count_ is decremented before) and the nulls.
CountExact ==
  /\ count + Cardinality(Deleting) + nulls =
       Cardinality(exists) + Cardinality({c \in Clients : cpc[c] \in {"factory", "undo"}})
  /\ Cardinality(exists) <= opts.max + Cardinality(Deleting) + nulls

\* A connection that exists is idle, or one client's, once: it is neither shared by
\* two clients nor forgotten.
OneOwner ==
  \A n \in exists :
    Cardinality({c \in Clients : conn[c] = n}) + Cardinality({i \in DOMAIN idle : idle[i] = n}) = 1

\* If connections do not die and the factory works, a Get without a timeout among
\* such gets one: nobody is left waiting while connections come back.
GetReturns ==
  \A c \in Clients :
    cpc[c] = "get" /\ ~opts.mortal /\ ~opts.fails /\ opts.timed = {} ~> cpc[c] = "hold"
=============================================================================
