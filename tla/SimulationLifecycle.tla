------------------------- MODULE SimulationLifecycle ------------------------
(***************************************************************************)
(* What dpsim.Simulation promises about its state, as seen by a client     *)
(* that waits for the transitions it requests: which state may follow      *)
(* which in a simulation of at least one time step.  newState              *)
(* (Source/Python/Simulation.cpp) announces every transition on the event  *)
(* channel, so this is also the order in which events can arrive.          *)
(***************************************************************************)

VARIABLE state

Follows ==
  [stopped  |-> {"starting"},
   starting |-> {"running"},
   running  |-> {"pausing", "paused", "stopping", "done"},
   pausing  |-> {"paused", "done"},
   paused   |-> {"resuming", "stopping"},
   resuming |-> {"running"},
   stopping |-> {"stopped", "done"},
   done     |-> {}]

LifecycleInit == state = "stopped"

LifecycleNext ==
  /\ state \in DOMAIN Follows
  /\ state' \in Follows[state]

LifecycleSpec == LifecycleInit /\ [][LifecycleNext]_state
=============================================================================
