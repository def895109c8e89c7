------------------------------- MODULE Reactor -------------------------------
(***************************************************************************)
(* How a coroutine waits for a file descriptor: the hooked system calls of *)
(* libgo/netio/unix/hook.cpp, the descriptor table (hook_helper.cpp), the  *)
(* wait lists of a descriptor (reactor_element.cpp) and the reactor thread *)
(* with its edge-triggered epoll (epoll_reactor.cpp).                      *)
(*                                                                         *)
(* FdContexts are numbered as they are made, one for every descriptor that *)
(* is opened or duplicated.  The kernel keys its epoll registrations by    *)
(* <<fd, f>>, number and file, but reports the number alone; a             *)
(* registration lives until the last descriptor of its file is closed.     *)
(* Descriptors are in blocking mode.  A step is one critical section of a  *)
(* slot or of an FdContext's mtx_, or a system call.                       *)
(***************************************************************************)
EXTENDS Integers, FiniteSets, SequencesExt

CONSTANTS
  Fds, Files,
  Pollers,   \* coroutines
  Plans,     \* scenarios: [calls, peer, contexts]: the calls each coroutine makes in turn,
             \* [kind, timed, fds] with fds of <<fd, events>>; what the other end may cause;
             \* bound: how many FdContexts are made
  Start,     \* the key open at first
  None

Keys == Fds \X Files
PollEvents == {"IN", "OUT", "ERR", "HUP", "NVAL"}
ErrEvents == {"ERR", "HUP", "NVAL"}

ASSUME ReactorAssumption ==
  /\ None \notin Files /\ Start \in Keys
  /\ \A s \in Plans :
       /\ s.peer \subseteq {"IN", "OUT", "HUP"} /\ s.contexts \in Nat \ {0}
       /\ \A p \in Pollers : \A n \in DOMAIN s.calls[p] : LET c == s.calls[p][n] IN
            /\ c.kind \in {"poll", "rw", "connect"} /\ c.timed \in BOOLEAN
            /\ c.fds = <<>> => c.kind = "poll" /\ c.timed
            /\ \A i \in DOMAIN c.fds : c.fds[i][1] \in Fds /\ c.fds[i][2] \subseteq {"IN", "OUT"}

VARIABLES
  plan,            \* the scenario
  file, ready,     \* kernel: file of a descriptor; events a file is ready for
  reg, edge,       \* kernel: epoll interest of a key, and whether it is on the ready list
  slot,            \* FdSlot::ctx_: the FdContext of a descriptor
  event, entries,  \* event_ of an FdContext, and the entries of its four lists
  pc, call, idx, found, live, revents, calls,  \* a coroutine in libgo_poll
  harvest, cur,    \* reactor thread: events returned by epoll_wait, FdContext found
  admin,           \* a close, socket or dup2 under way
  made,            \* the FdContexts there have been: the descriptor and file of each
  crossed          \* history: keys whose registration the FdContext in the slot found
                   \* there, or one that was replaced has changed

kernelVars == <<file, ready, reg, edge>>
ctxVars == <<event, entries>>
pollVars == <<pc, call, idx, found, live, revents, calls>>
adminVars == <<slot, admin, made>>
moves == <<kernelVars, ctxVars, pollVars, harvest, cur, adminVars, crossed>>
vars == <<plan, moves>>

-----------------------------------------------------------------------------
(* The hooked calls, as what they ask of libgo_poll.                       *)

\* poll, __poll.
PollCall(fds, timed) == [kind |-> "poll", timed |-> timed, fds |-> fds]

\* read, readv, recv, recvfrom, recvmsg and accept; SO_RCVTIMEO gives the timeout.
ReadCall(fd, timed) == [kind |-> "rw", timed |-> timed, fds |-> <<<<fd, {"IN"}>>>>]

\* write, writev, send, sendto, sendmsg; SO_SNDTIMEO.
WriteCall(fd, timed) == [kind |-> "rw", timed |-> timed, fds |-> <<<<fd, {"OUT"}>>>>]

\* connect, once the system has answered EINPROGRESS.
ConnectCall(fd, timed) == [kind |-> "connect", timed |-> timed, fds |-> <<<<fd, {"OUT"}>>>>]

\* select: one pollfd for each descriptor of the three sets.
SelectCall(rd, wr, ex, timed) ==
  LET fds == SetToSortSeq(rd \cup wr \cup ex, <)
      events(fd) == (IF fd \in rd THEN {"IN"} ELSE {}) \cup (IF fd \in wr THEN {"OUT"} ELSE {})
  IN PollCall([i \in DOMAIN fds |-> <<fds[i], events(fds[i])>>], timed)

\* sleep, usleep, nanosleep.
SleepCall == PollCall(<<>>, TRUE)

-----------------------------------------------------------------------------
Contexts == 1..plan.contexts

NoCall == [kind |-> "poll", timed |-> FALSE, fds |-> <<>>]
AdminIdle == [pc |-> "idle", fd |-> None, ctx |-> None]

Init ==
  /\ plan \in Plans
  /\ file = [fd \in Fds |-> IF fd = Start[1] THEN Start[2] ELSE None]
  /\ slot = [fd \in Fds |-> IF fd = Start[1] THEN 1 ELSE None]
  /\ made = <<Start>>
  /\ ready = [f \in Files |-> {}]
  /\ reg = [k \in Keys |-> {}]
  /\ edge = [k \in Keys |-> FALSE]
  /\ event = [k \in Contexts |-> {}]
  /\ entries = [k \in Contexts |-> {}]
  /\ pc = [p \in Pollers |-> "idle"]
  /\ call = [p \in Pollers |-> NoCall]
  /\ idx = [p \in Pollers |-> 0]
  /\ found = [p \in Pollers |-> None]
  /\ live = [p \in Pollers |-> FALSE]
  /\ revents = [p \in Pollers |-> <<>>]
  /\ calls = [p \in Pollers |-> 0]
  /\ harvest = {} /\ cur = None
  /\ admin = AdminIdle
  /\ crossed = {}

-----------------------------------------------------------------------------
(* The kernel.                                                             *)

\* What epoll or poll reports of file f to somebody interested in events evs.
Reported(f, evs) == ready[f] \cap (evs \cup ErrEvents)

\* epoll_ctl by FdContext k, on whatever file its number has now: ADD needs a file
\* without registration, MOD and DEL one with.  A new interest (re)arms the edge.
Number(k) == made[k][1]
Target(k) == <<Number(k), file[Number(k)]>>
CtlOk(k, add) == file[Number(k)] # None /\ (add <=> reg[Target(k)] = {})

Ctl(k, interest) ==
  LET t == Target(k) IN
  /\ reg' = [reg EXCEPT ![t] = interest]
  /\ edge' = [edge EXCEPT ![t] = interest # {} /\ Reported(t[2], interest) # {}]
  /\ crossed' = IF t = made[k] /\ slot[t[1]] = k THEN crossed ELSE crossed \cup {t}

\* The peer sends, reads or goes away.
Happens(f, e) ==
  /\ e \notin ready[f] /\ \E fd \in Fds : file[fd] = f
  /\ ready' = [ready EXCEPT ![f] = @ \cup {e}]
  /\ edge' = [k \in Keys |-> edge[k] \/ (k[2] = f /\ reg[k] # {} /\ e \in reg[k] \cup ErrEvents)]
  /\ UNCHANGED <<file, reg, ctxVars, pollVars, harvest, cur, adminVars, crossed>>

-----------------------------------------------------------------------------
(* ReactorElement.                                                         *)

\* The list an entry is in is given by what it waits for.
Mask(ev) == IF ev = {} THEN {"ERR"} ELSE ev

Expired(e) == ~(live[e.p] /\ calls[e.p] = e.n)

\* AddEvent: the whole interest is new, or it grows.
AddEvent(k, promise) == CtlOk(k, event[k] = {}) /\ Ctl(k, promise)

\* Add(): drop the expired entries of the list, append, tell epoll what is new.
\* FALSE is returned, and e not in the list, if epoll refuses.
Add(k, e) ==
  LET kept == {x \in entries[k] : x.ev = e.ev => ~Expired(x)}
      promise == event[k] \cup Mask(e.ev)
  IN IF promise = event[k]
     THEN /\ entries' = [entries EXCEPT ![k] = kept \cup {e}]
          /\ UNCHANGED <<event, reg, edge, crossed>>
     ELSE \/ /\ AddEvent(k, promise)
             /\ entries' = [entries EXCEPT ![k] = kept \cup {e}]
             /\ event' = [event EXCEPT ![k] = promise]
          \/ /\ ~CtlOk(k, event[k] = {})
             /\ entries' = [entries EXCEPT ![k] = kept]
             /\ UNCHANGED <<event, reg, edge, crossed>>

\* Mutant: the suspend entry's id is not looked at.
Fire_AnyCall(hit, evs) ==
  LET now(p) == {e \in hit : e.p = p /\ e.n = calls[p]}
      check(e) == evs \cap (e.ev \cup ErrEvents)
  IN /\ revents' = [p \in Pollers |-> [i \in DOMAIN revents[p] |->
                      IF \E e \in now(p) : e.i = i
                      THEN check(CHOOSE e \in now(p) : e.i = i) ELSE revents[p][i]]]
     /\ live' = [p \in Pollers |-> live[p] /\ \A e \in hit : e.p # p]

\* TriggerListWithoutLock: revents of the entry's call, and Wakeup.
Fire(hit, evs) ==
  LET now(p) == {e \in hit : e.p = p /\ e.n = calls[p]}
      check(e) == evs \cap (e.ev \cup ErrEvents)
  IN /\ revents' = [p \in Pollers |-> [i \in DOMAIN revents[p] |->
                      IF \E e \in now(p) : e.i = i
                      THEN check(CHOOSE e \in now(p) : e.i = i) ELSE revents[p][i]]]
     /\ live' = [p \in Pollers |-> live[p] /\ now(p) = {}]

Hit(k, evs) == {e \in entries[k] : evs \cap (e.ev \cup ErrEvents) # {}}

\* Trigger(): fire the lists the events are for ...
TriggerLists(k, evs) ==
  /\ Fire(Hit(k, evs), evs)
  /\ entries' = [entries EXCEPT ![k] = @ \ Hit(k, evs)]

\* Mutant: the interest of the lists that stay is dropped.
Trigger_DropsAll(k, evs) ==
  /\ TriggerLists(k, evs)
  /\ IF event[k] # {} /\ CtlOk(k, FALSE)
     THEN Ctl(k, {}) /\ event' = [event EXCEPT ![k] = {}]
     ELSE UNCHANGED <<event, reg, edge, crossed>>

\* ... and keep the interest of the others.
Trigger(k, evs) ==
  LET promise == UNION {Mask(e.ev) : e \in entries[k] \ Hit(k, evs)} IN
  /\ TriggerLists(k, evs)
  /\ IF promise # event[k] /\ CtlOk(k, FALSE)
     THEN Ctl(k, promise) /\ event' = [event EXCEPT ![k] = promise]
     ELSE UNCHANGED <<event, reg, edge, crossed>>

-----------------------------------------------------------------------------
(* The reactor thread.                                                     *)

\* epoll_wait: everything on the ready list, by number.
EpollWait ==
  /\ harvest = {} /\ cur = None
  /\ \E k \in Keys : edge[k]
  /\ harvest' = {[fd |-> k[1], evs |-> Reported(k[2], reg[k])] :
                   k \in {x \in Keys : edge[x] /\ Reported(x[2], reg[x]) # {}}}
  /\ edge' = [k \in Keys |-> FALSE]
  /\ UNCHANGED <<file, ready, reg, ctxVars, pollVars, cur, adminVars, crossed>>

\* Mutant: an event is thrown away while a descriptor is being closed or made.
RunLookup_Busy(h) ==
  /\ h \in harvest /\ cur = None
  /\ harvest' = harvest \ {h}
  /\ cur' = IF slot[h.fd] = None \/ admin.pc # "idle" THEN None
            ELSE [k |-> slot[h.fd], evs |-> h.evs]
  /\ UNCHANGED <<kernelVars, ctxVars, pollVars, adminVars, crossed>>

\* Run() looks the FdContext up ...
RunLookup(h) ==
  /\ h \in harvest /\ cur = None
  /\ harvest' = harvest \ {h}
  /\ cur' = IF slot[h.fd] = None THEN None ELSE [k |-> slot[h.fd], evs |-> h.evs]
  /\ UNCHANGED <<kernelVars, ctxVars, pollVars, adminVars, crossed>>

\* ... and triggers it.
RunTrigger ==
  /\ cur # None
  /\ Trigger(cur.k, cur.evs)
  /\ cur' = None
  /\ UNCHANGED <<file, ready, pc, call, idx, found, calls, harvest, adminVars>>

-----------------------------------------------------------------------------
(* libgo_poll, and the calls built on it.                                  *)

Goto(p, l) == pc' = [pc EXCEPT ![p] = l]

\* poll_f(fds, nfds, 0) would return at once.
Immediate(c) ==
  \E i \in DOMAIN c.fds : LET f == file[c.fds[i][1]] IN
    f = None \/ Reported(f, c.fds[i][2]) # {}

\* Without an FdContext read and connect are the system's; connect does not look
\* first whether it is ready, the others do.
NoWait(c) ==
  \/ c.kind # "poll" /\ slot[c.fds[1][1]] = None
  \/ c.kind # "connect" /\ Immediate(c)

\* A call: it need not wait, or the coroutine is suspended.  A poll of no
\* descriptor (and sleep) only waits for its timer.
PollStart(p) ==
  LET c == plan.calls[p][calls[p] + 1]
      next == IF c.kind = "rw" THEN "fn" ELSE "idle" IN
  /\ pc[p] = "idle" /\ calls[p] < Len(plan.calls[p])
  /\ calls' = [calls EXCEPT ![p] = @ + 1]
  /\ IF NoWait(c)
     THEN /\ Goto(p, next)
          /\ call' = [call EXCEPT ![p] = IF next = "fn" THEN c ELSE NoCall]
          /\ UNCHANGED <<idx, live, revents>>
     ELSE /\ Goto(p, IF c.fds = <<>> THEN "asleep" ELSE "lookup")
          /\ call' = [call EXCEPT ![p] = c]
          /\ idx' = [idx EXCEPT ![p] = 1]
          /\ live' = [live EXCEPT ![p] = TRUE]
          /\ revents' = [revents EXCEPT ![p] = [i \in DOMAIN c.fds |-> {}]]
  /\ UNCHANGED <<kernelVars, ctxVars, found, harvest, cur, adminVars, crossed>>

Fd(p) == call[p].fds[idx[p]][1]

\* The loop goes on.  If nothing could be added the coroutine wakes itself.
Advance(p, ok) ==
  LET last == idx[p] = Len(call[p].fds)
      rv == IF ok THEN revents[p] ELSE [revents[p] EXCEPT ![idx[p]] = {"NVAL"}]
  IN /\ Goto(p, IF last THEN "asleep" ELSE "lookup")
     /\ idx' = [idx EXCEPT ![p] = IF last THEN 0 ELSE @ + 1]
     /\ revents' = [revents EXCEPT ![p] = rv]
     /\ live' = [live EXCEPT ![p] = @ /\ ~(last /\ \A i \in DOMAIN rv : rv[i] = {"NVAL"})]
     /\ found' = [found EXCEPT ![p] = None]

\* Reactor::Add: look the FdContext up ...
PollLookup(p) ==
  /\ pc[p] = "lookup"
  /\ IF slot[Fd(p)] = None THEN Advance(p, FALSE)
     ELSE /\ found' = [found EXCEPT ![p] = slot[Fd(p)]]
          /\ Goto(p, "add")
          /\ UNCHANGED <<idx, live, revents>>
  /\ UNCHANGED <<kernelVars, ctxVars, call, calls, harvest, cur, adminVars, crossed>>

\* ... and add the entry.  (late: a close has emptied the lists before.)
PollAdd(p) ==
  LET k == found[p]
      e == [p |-> p, n |-> calls[p], i |-> idx[p], ev |-> call[p].fds[idx[p]][2],
            late |-> slot[Fd(p)] # k]
  IN /\ pc[p] = "add"
     /\ Add(k, e)
     /\ Advance(p, e \in entries'[k])
     /\ UNCHANGED <<file, ready, call, calls, harvest, cur, adminVars>>

\* The timer of a timed call.
Timeout(p) ==
  /\ live[p] /\ call[p].timed
  /\ live' = [live EXCEPT ![p] = FALSE]
  /\ UNCHANGED <<kernelVars, ctxVars, pc, call, idx, found, revents, calls, harvest, cur, adminVars, crossed>>

\* The coroutine runs again and reads its revents; read goes on if there are any.
Resume(p) ==
  /\ pc[p] = "asleep" /\ ~live[p]
  /\ LET on == call[p].kind = "rw" /\ \E i \in DOMAIN revents[p] : revents[p][i] # {}
     IN /\ Goto(p, IF on THEN "fn" ELSE "idle")
        /\ call' = [call EXCEPT ![p] = IF on THEN @ ELSE NoCall]
  /\ revents' = [revents EXCEPT ![p] = <<>>]
  /\ UNCHANGED <<kernelVars, ctxVars, idx, found, live, calls, harvest, cur, adminVars, crossed>>

\* fn of read_write_mode: what there is is consumed.  If another has taken it the
\* thread blocks here.
Fn(p) ==
  LET f == file[call[p].fds[1][1]]
      evs == call[p].fds[1][2]
  IN /\ pc[p] = "fn"
     /\ f # None => Reported(f, evs) # {}
     /\ ready' = IF f = None THEN ready ELSE [ready EXCEPT ![f] = @ \ evs]
     /\ Goto(p, "idle")
     /\ call' = [call EXCEPT ![p] = NoCall]
     /\ UNCHANGED <<file, reg, edge, ctxVars, idx, found, live, revents, calls, harvest, cur,
                    adminVars, crossed>>

-----------------------------------------------------------------------------
(* close, socket (pipe, accept, ...) and dup2, one at a time.              *)

\* HookHelper::OnClose takes the FdContext out of its slot ...
Close(fd) ==
  /\ admin.pc = "idle" /\ file[fd] # None
  /\ admin' = [pc |-> IF slot[fd] = None THEN "close" ELSE "onClose", fd |-> fd, ctx |-> slot[fd]]
  /\ slot' = [slot EXCEPT ![fd] = None]
  /\ UNCHANGED <<kernelVars, ctxVars, pollVars, harvest, cur, made, crossed>>

\* Mutant: Insert does not tell the waiters of the FdContext it replaces.
OnClose_NotReplaced ==
  /\ admin.pc \in {"onClose", "replaced"}
  /\ IF admin.pc = "onClose" THEN TriggerLists(admin.ctx, {"NVAL"})
     ELSE UNCHANGED <<entries, live, revents>>
  /\ admin' = IF admin.pc = "onClose" THEN [admin EXCEPT !.pc = "close", !.ctx = None] ELSE AdminIdle
  /\ UNCHANGED <<kernelVars, event, slot, made, pc, call, idx, found, calls, harvest, cur, crossed>>

\* ... and wakes who waits on it, with no reactor and event_ as it is; so does
\* Insert with the one it replaces.
OnClose ==
  /\ admin.pc \in {"onClose", "replaced"}
  /\ TriggerLists(admin.ctx, {"NVAL"})
  /\ admin' = IF admin.pc = "onClose" THEN [admin EXCEPT !.pc = "close", !.ctx = None] ELSE AdminIdle
  /\ UNCHANGED <<kernelVars, event, slot, made, pc, call, idx, found, calls, harvest, cur, crossed>>

\* The kernel gives descriptor fd the file g (or none), and forgets the
\* registrations of a file without descriptor.
SetFile(fd, g) ==
  LET fs == [file EXCEPT ![fd] = g]
      gone(k) == \A x \in Fds : fs[x] # k[2]
  IN /\ file' = fs
     /\ reg' = [k \in Keys |-> IF gone(k) THEN {} ELSE reg[k]]
     /\ edge' = [k \in Keys |-> ~gone(k) /\ edge[k]]

CloseKernel ==
  /\ admin.pc = "close"
  /\ SetFile(admin.fd, None)
  /\ admin' = AdminIdle
  /\ UNCHANGED <<ready, slot, made, ctxVars, pollVars, harvest, cur, crossed>>

\* Descriptor fd is made for file f by the kernel, and an FdContext for it.
Make(fd, f) ==
  /\ admin.pc = "idle"
  /\ Len(made) < plan.contexts
  /\ made' = Append(made, <<fd, f>>)
  /\ SetFile(fd, f)
  /\ admin' = [pc |-> "insert", fd |-> fd, ctx |-> Len(made')]
  /\ UNCHANGED <<ready, slot, ctxVars, pollVars, harvest, cur, crossed>>

\* A new file under a free number.
Socket(fd, f) == file[fd] = None /\ (\A k \in DOMAIN made : made[k][2] # f) /\ Make(fd, f)

\* dup and dup2: the file of another descriptor, under a number free or not.
Dup2(from, to) == from # to /\ file[from] # None /\ Make(to, file[from])

\* HookHelper::Insert.  The registration of an earlier descriptor of the same number
\* and file may still be there.
Insert ==
  LET key == made[admin.ctx] IN
  /\ admin.pc = "insert"
  /\ slot' = [slot EXCEPT ![admin.fd] = admin.ctx]
  /\ admin' = IF slot[admin.fd] = None THEN AdminIdle
              ELSE [admin EXCEPT !.pc = "replaced", !.ctx = slot[admin.fd]]
  /\ crossed' = IF reg[key] = {} THEN crossed \ {key} ELSE crossed \cup {key}
  /\ UNCHANGED <<kernelVars, ctxVars, pollVars, harvest, cur, made>>

-----------------------------------------------------------------------------
Run == EpollWait \/ RunTrigger \/ \E h \in harvest : RunLookup(h)
PollStep(p) == PollLookup(p) \/ PollAdd(p) \/ Timeout(p) \/ Resume(p)
AdminStep == OnClose \/ CloseKernel \/ Insert

Next ==
  /\ \/ \E f \in Files, e \in plan.peer : Happens(f, e)
     \/ \E p \in Pollers : PollStart(p) \/ PollStep(p) \/ Fn(p)
     \/ \E fd \in Fds : Close(fd) \/ (\E f \in Files : Socket(fd, f)) \/ \E x \in Fds : Dup2(fd, x)
     \/ Run \/ AdminStep
  /\ UNCHANGED plan

Spec == Init /\ [][Next]_vars

\* The reactor thread, the coroutines and a begun close or dup2 are scheduled.
FairSpec == Spec /\ WF_moves(Run) /\ WF_moves(AdminStep) /\ \A p \in Pollers : WF_moves(PollStep(p))

-----------------------------------------------------------------------------
(* Properties.                                                             *)

\* FdContext k is the one of an open descriptor, whose registration nobody else made
\* or changed.
Open(k) ==
  /\ slot[Number(k)] = k /\ file[Number(k)] = made[k][2]
  /\ made[k] \notin crossed

\* What an FdContext thinks it has registered (event_) is what epoll has, and
\* covers what every entry of its lists waits for, whatever Add, Trigger and the
\* failures of epoll_ctl do in between: an entry in a list will see its event.
Covered ==
  \A k \in DOMAIN made : Open(k) =>
    /\ reg[made[k]] = event[k]
    /\ \A e \in entries[k] : Mask(e.ev) \subseteq event[k]

\* close, and dup2 over an open descriptor, leave nobody waiting in the lists of
\* the FdContext they take out, but a call that had looked it up before and adds
\* its entry after.
ClosedEmpty ==
  \A k \in DOMAIN made : slot[Number(k)] # k /\ admin.ctx # k =>
    \A e \in entries[k] : e.late

\* A call without a timeout never returns empty-handed: an entry that an earlier,
\* expired call of the same coroutine left in a list does not wake it.
UntimedHasEvents ==
  [][\A p \in Pollers : Resume(p) /\ ~call[p].timed =>
       \E i \in DOMAIN revents[p] : revents[p][i] # {}]_vars

\* p sleeps on an open descriptor that is ready for it.
ReadyFor(p) ==
  /\ pc[p] = "asleep"
  /\ \E k \in DOMAIN made : Open(k) /\ \E e \in entries[k] :
       e.p = p /\ ~Expired(e) /\ Reported(made[k][2], e.ev) # {}

\* Nobody sleeps on a ready descriptor for ever: no edge of epoll is lost between
\* the look before the wait, Add, Trigger and other waits on the descriptor.
ReadyWakes == \A p \in Pollers : ReadyFor(p) ~> ~ReadyFor(p)

=============================================================================
