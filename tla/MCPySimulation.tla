--------------------------- MODULE MCPySimulation ---------------------------
(* PySimulation with the model values TLC uses: two thread slots, so that a *)
(* second simulation thread is possible wherever the code allows one.       *)
EXTENDS PySimulation

CONSTANTS t1, t2, caller, none

MCThreads == {t1, t2}
=============================================================================
