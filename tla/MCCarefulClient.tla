--------------------------- MODULE MCCarefulClient --------------------------
(* PySimulation for TLC with a careful client of two simulations: one       *)
(* without an end, and a real-time simulation of three steps, which is not  *)
(* synchronised at its start.                                               *)
EXTENDS MCPySimulation

VARIABLE finite

Finite == INSTANCE PySimulation
            WITH FinalTime <- 3, RealTime <- TRUE, ChanCap <- 9, ArgStartSync <- FALSE

ClientVars == <<finite, vars>>

ClientInit == (finite = FALSE /\ Init) \/ (finite = TRUE /\ Finite!Init)

EndlessNext == ~finite /\ Next /\ UNCHANGED finite

(* pause() and stop() can wait for ever for a simulation that has just      *)
(* ended: see the run pause_hangs.                                          *)
FiniteNext == finite /\ (Finite!Next \/ UNCHANGED vars) /\ UNCHANGED finite

Either(A, B) == IF finite THEN B ELSE A

ClientSpec ==
  /\ ClientInit /\ [][EndlessNext \/ FiniteNext]_ClientVars
  /\ \A t \in Threads :
       /\ WF_vars(Either(ThreadFunction(t), Finite!ThreadFunction(t)))
       /\ SF_vars(Either(ThreadLock(t), Finite!ThreadLock(t)))
  /\ WF_vars(Either(CallerStep, Finite!CallerStep))
  /\ SF_vars(Either(CallerLock, Finite!CallerLock))
  /\ WF_vars(Either(ReadEvent, Finite!ReadEvent))

(* Every API call returns, of a simulation without an end.                  *)
EndlessCallReturns == ~finite => CallReturns

(* The simulation of three steps ends: its threads terminate unless it is   *)
(* paused.                                                                  *)
FiniteRunsToCompletion == finite => RunsToCompletion
=============================================================================
