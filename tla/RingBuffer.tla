----------------------------- MODULE RingBuffer -----------------------------
(***************************************************************************)
(* The ring buffer of libgo/sync/ringbuffer.h, which the channel uses      *)
(* under its lock.  write_ and read_ only grow; they are size_t, so they   *)
(* wrap at Word, a power of two (2^64), which push() handles by moving     *)
(* both up by capacity_ + 1.  Unless capacity_ + 1 divides Word, that      *)
(* makes them name other slots than the ones the values are in; the ring   *)
(* remembers it in torn, a history.  The None that is then read from a     *)
(* slot stands for whatever its memory holds.                              *)
(***************************************************************************)
EXTENDS Naturals, Sequences

CONSTANTS
  Word,    \* bound: where the counters wrap, a power of two
  Starts,  \* values of the counters from which a buffer is looked at
  None

ASSUME RingBufferAssumption ==
  /\ \E w \in 1..64 : Word = 2^w
  /\ Starts \subseteq 0..(Word - 1)

\* A buffer that is empty, after start values have passed through it.
NewRing(cap, start) ==
  [cap |-> cap, buf |-> [i \in 0..cap |-> None], write |-> start, read |-> start,
   torn |-> FALSE]

Size(r) == (r.write + Word - r.read) % Word

Full(r) == Size(r) = r.cap

Empty(r) == Size(r) = 0

Wrapped_WriteOnly(r) == IF r.write = 0 THEN [r EXCEPT !.write = r.cap + 1] ELSE r

\* After ++write_: at zero both counters move up to stay comparable.
Wrapped(r) ==
  IF r.write = 0
  THEN [r EXCEPT !.write = r.cap + 1, !.read = (@ + r.cap + 1) % Word,
                 !.torn = @ \/ Word % (r.cap + 1) # 0]
  ELSE r

RingPush(r, v) ==
  Wrapped([r EXCEPT !.buf[r.write % (r.cap + 1)] = v, !.write = (@ + 1) % Word])

\* pop() destroys the value in its slot.
RingPop(r) == [r EXCEPT !.buf[r.read % (r.cap + 1)] = None, !.read = (@ + 1) % Word]

\* The values inside, in the order in which pop() will give them.
Contents(r) == [k \in 1..Size(r) |-> r.buf[(r.read + k - 1) % (r.cap + 1)]]
=============================================================================
