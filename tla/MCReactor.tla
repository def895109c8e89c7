------------------------------ MODULE MCReactor ------------------------------
(* Scenarios for Reactor.                                                  *)
EXTENDS Reactor

CONSTANTS f1, f2, p1, p2

MCStart == <<1, f1>>

\* A reader whose first wait may expire, and a connect to the same descriptor.
Two ==
  [calls |-> (p1 :> <<PollCall(<<<<1, {"IN"}>>>>, TRUE), ReadCall(1, FALSE)>>)
          @@ (p2 :> <<ConnectCall(1, TRUE)>>),
   peer |-> {"IN"}, contexts |-> 2]

\* A select of two descriptors, then a read, with a peer that closes.
One ==
  [calls |-> (p1 :> <<SelectCall({}, {1}, {2}, TRUE), ReadCall(1, FALSE)>>)
          @@ (p2 :> <<>>),
   peer |-> {"OUT", "HUP"}, contexts |-> 2]

\* A poll for reading and writing, and a sleep.
Both ==
  [calls |-> (p1 :> <<PollCall(<<<<1, {"IN", "OUT"}>>>>, FALSE)>>)
          @@ (p2 :> <<SleepCall, WriteCall(1, FALSE)>>),
   peer |-> {"OUT"}, contexts |-> 2]

\* A reader of a descriptor that is closed, opened again and duplicated.
Reuse ==
  [calls |-> (p1 :> <<ReadCall(1, FALSE)>>) @@ (p2 :> <<>>),
   peer |-> {"IN"}, contexts |-> 3]

MCPlans == {Two, One, Both, Reuse}
=============================================================================
