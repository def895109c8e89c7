------------------------------ MODULE MCCoMutex ------------------------------
(* Instances of CoMutex for TLC: named coroutines, with and without try_lock(). *)
EXTENDS CoMutex
=============================================================================
