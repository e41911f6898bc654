-------------------------- MODULE MCSwitchedSolver --------------------------
(* SwitchedSolver for TLC: two or three switches, a few steps and events.   *)
EXTENDS SwitchedSolver
=============================================================================
