---------------------------- MODULE MCSurroundings --------------------------
(* What a simulation exchanges with its surroundings, for TLC: the clock of *)
(* the real-time loop, the events for the event loop, and the samples for a *)
(* peer.  The three have no state in common; one of them is chosen and the  *)
(* others stay in their initial states.                                     *)
EXTENDS MCCoSimulation, PyEventChannel, RealTimeTimer

VARIABLE part

(* Start times before, at and after the moment the timer is started.        *)
MCStartTimes == {0, 3, 5}

(* The initial choices of a part that is not looked at.                     *)
OneMode   == mode = CHOOSE m \in Modes : TRUE
OneOther  == other = "absent"
OneTimer  == build = "timerfd" /\ start = 0

SurroundingsInit ==
  /\ part \in {"peer", "events", "clock"}
  /\ Init /\ ChannelInit /\ TimerInit
  /\ part # "peer" => OneMode
  /\ part # "events" => OneOther
  /\ part # "clock" => OneTimer

SurroundingsVars == <<part, vars, channelVars, timerVars>>

(* Simulators may come to a halt: see the run direct_coupling.              *)
PeerPart  == /\ part = "peer" /\ (Next \/ UNCHANGED vars)
             /\ UNCHANGED <<part, channelVars, timerVars>>
EventPart == part = "events" /\ ChannelNext /\ UNCHANGED <<part, vars, timerVars>>
ClockPart == part = "clock" /\ TimerNext /\ UNCHANGED <<part, vars, channelVars>>

SurroundingsNext == PeerPart \/ EventPart \/ ClockPart

(* The fairness of the three specifications.                                *)
SurroundingsSpec ==
  /\ SurroundingsInit /\ [][SurroundingsNext]_SurroundingsVars
  /\ \A s \in Sims : WF_vars(part = "peer" /\ Simulator(s) /\ UNCHANGED mode)
  /\ WF_channelVars(part = "events" /\ TaskRead) /\ WF_channelVars(part = "events" /\ Simulate)
  /\ WF_timerVars(part = "clock" /\ Tick) /\ WF_timerVars(part = "clock" /\ Run)

(* FinishOrUnderrun, of the part that is about two simulators: unless both  *)
(* wait in their steps, both finish or a pool runs out.                     *)
PeersFinishOrUnderrun == part = "peer" => FinishOrUnderrun
=============================================================================
