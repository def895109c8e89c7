---------------------------- MODULE MCProcesser ----------------------------
(* Small instances of Processer for TLC.                                   *)
EXTENDS Processer, TLC

TaskSymmetry == Permutations(Tasks)

\* The run with stealing stops at this number of suspensions, over all tasks.
MaxSuspensions == 2

\* An entry that is never dropped stands for one suspension: either each task
\* suspends once, or one suspends again while clients still hold, or are using,
\* its first entry.
FewSuspensions ==
  Cardinality({<<t, i>> \in Tasks \X Ids : i \in entries[t]}) <= MaxSuspensions
=============================================================================
