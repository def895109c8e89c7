------------------------------- MODULE MCPools -------------------------------
(***************************************************************************)
(* Scenarios for Pools: two workers and a Reserve on two connections, two  *)
(* of which one may be idle; callbacks by points; three workers on one     *)
(* connection, without and with a timeout; connections that die, with a    *)
(* Reserve and with a timeout; a factory that fails.                       *)
(***************************************************************************)
EXTENDS Pools

CONSTANTS w1, w2, w3, r

Option(limit, spare, workers, reserve, ps, js) ==
  [max |-> limit, idle |-> spare, timed |-> {}, mortal |-> FALSE, fails |-> FALSE,
   workers |-> workers, reserve |-> reserve, points |-> ps, jobs |-> js]

MCOptions ==
  {Option(2, 1, {w1, w2}, {r}, {}, 1..2),
   Option(1, 1, {w1, w2}, {}, 1..3, 1..2),
   Option(1, 1, {w1, w2, w3}, {}, {}, 1..3),
   [Option(1, 1, {w1, w2, w3}, {}, {}, 1..3) EXCEPT !.timed = {w1}],
   [Option(1, 1, {w1, w2}, {r}, {}, 1..2) EXCEPT !.mortal = TRUE],
   [Option(1, 1, {w1, w2}, {}, {}, 1..3) EXCEPT !.mortal = TRUE, !.timed = {w1}],
   [Option(2, 2, {w1, w2}, {r}, {}, 1..2) EXCEPT !.fails = TRUE]}
=============================================================================
