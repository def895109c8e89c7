------------------------------- MODULE MCTimer -------------------------------
(* Timer with three rings of three slots and two elements, for TLC.        *)
EXTENDS Timer
=============================================================================
