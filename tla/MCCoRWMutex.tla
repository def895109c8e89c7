----------------------------- MODULE MCCoRWMutex -----------------------------
(* An instance of CoRWMutex for TLC: coroutines and native threads.        *)
EXTENDS CoRWMutex
=============================================================================
