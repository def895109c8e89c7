---------------------------- MODULE MCDispatcher ----------------------------
(* Instances of Dispatcher for TLC: two threads at most, one task that     *)
(* blocks its thread for ever.                                             *)
EXTENDS Dispatcher
=============================================================================
