------------------------- MODULE PySimulationProofs -------------------------
(***************************************************************************)
(* Proofs about PySimulation, for any number of thread slots, any duration *)
(* and any socket buffer; and about the models of the two things the       *)
(* simulation thread uses: the event channel that carries its states to    *)
(* the script (PyEventChannel) and the timer it sleeps on (RealTimeTimer). *)
(***************************************************************************)
EXTENDS PySimulation, PyEventChannel, RealTimeTimer, SequenceTheorems,
        WellFoundedInduction, TLAPS

(* The wait set after notify_one is the old one, less at most one process. *)
LEMMA NotifySubset ==
  ASSUME NEW W, NEW V \in NotifyOne(W)
  PROVE  V \subseteq W
BY DEF NotifyOne

(* Every step, of threadFunction or of an API function, keeps every        *)
(* variable in its type; newState never puts more events into the socket   *)
(* than it buffers.                                                        *)
LEMMA TypeStep == TypeOK /\ [Next]_vars => TypeOK'
<1> SUFFICES ASSUME TypeOK, [Next]_vars PROVE TypeOK' OBVIOUS
<1> USE ProcAssumption, NatAssumption, ArgAssumption DEF TypeOK, Procs, ThreadPC,
        State, CallerPC, AllOps, Unlimited, Goto, simVars, callerVars
<1>1. ASSUME NEW t \in Threads, ThreadFunction(t) PROVE TypeOK'
  <2> USE DEF ThreadFrame, LocalStep
  <2>1. CASE Open(t) BY <2>1 DEF Open
  <2>2. CASE Sync(t) BY <2>2 DEF Sync
  <2>3. CASE Loop(t) BY <2>3 DEF Loop
  <2>4. CASE SimStep(t) BY <2>4 DEF SimStep
  <2>5. CASE Sleep(t) BY <2>5 DEF Sleep
  <2>6. CASE Overrun(t) BY <2>6, NotifySubset DEF Overrun, Announce, NewState
  <2>7. CASE CheckFirst(t) BY <2>7 DEF CheckFirst
  <2>8. CASE Running(t) BY <2>8, NotifySubset DEF Running, Announce, NewState
  <2>9. CASE CheckPause(t) BY <2>9 DEF CheckPause
  <2>10. CASE Pause(t) BY <2>10, NotifySubset DEF Pause, NewState
  <2>11. CASE Park(t) BY <2>11 DEF Park, Block
  <2>12. CASE Resume(t) BY <2>12, NotifySubset DEF Resume, Announce, NewState
  <2>13. CASE CheckStop(t) BY <2>13 DEF CheckStop
  <2>14. CASE Stopped(t) BY <2>14, NotifySubset DEF Stopped, Announce, NewState
  <2>15. CASE Done(t) BY <2>15, NotifySubset DEF Done, Announce, NewState
  <2>16. CASE Close(t)
    <3>1. opened' \in BOOLEAN BY <2>16, Zenon DEF Close
    <3> QED BY <2>16, <3>1 DEF Close
  <2>17. CASE ThreadLock(t) BY <2>17 DEF ThreadLock, Acquire, AfterLock
  <2> QED BY <1>1, <2>1, <2>2, <2>3, <2>4, <2>5, <2>6, <2>7, <2>8, <2>9, <2>10,
             <2>11, <2>12, <2>13, <2>14, <2>15, <2>16, <2>17 DEF ThreadFunction
<1>2. CASE CallerStep
  <2> USE DEF CallerFrame, Refuse, Return, Request, NewState
  <2>1. CASE CallerLock BY <2>1 DEF CallerLock, Acquire
  <2>2. CASE StartBody
    <3>1. singleStepping' \in BOOLEAN /\ raised' \in BOOLEAN
      BY <2>2, Zenon DEF StartBody, Spawn
    <3> QED BY <2>2, <3>1, NotifySubset DEF StartBody, Spawn
  <2>3. CASE StepBody
    <3>1. singleStepping' \in BOOLEAN /\ raised' \in BOOLEAN
      BY <2>3, Zenon DEF StepBody, Spawn
    <3> QED BY <2>3, <3>1, NotifySubset DEF StepBody, Spawn
  <2>4. CASE PauseBody
    <3>1. raised' \in BOOLEAN
      BY <2>4, Zenon DEF PauseBody
    <3> QED BY <2>4, <3>1, NotifySubset DEF PauseBody
  <2>5. CASE StopBody
    <3>1. raised' \in BOOLEAN
      BY <2>5, Zenon DEF StopBody
    <3> QED BY <2>5, <3>1, NotifySubset DEF StopBody
  <2>6. CASE GetBody
    <3>1. raised' \in BOOLEAN
      BY <2>6, Zenon DEF GetBody
    <3> QED BY <2>6, <3>1 DEF GetBody
  <2>7. CASE Recheck
    <3>1. raised' \in BOOLEAN
      BY <2>7, Zenon DEF Recheck, Block
    <3> QED BY <2>7, <3>1 DEF Recheck, Block
  <2>8. CASE Dealloc
    <3>1. freed' \in BOOLEAN
      BY <2>8, Zenon DEF Dealloc
    <3> QED BY <2>8, <3>1 DEF Dealloc
  <2> QED BY <1>2, <2>1, <2>2, <2>3, <2>4, <2>5, <2>6, <2>7, <2>8 DEF CallerStep
<1>3. ASSUME NEW op \in Ops, Call(op) PROVE TypeOK'
  BY <1>3, OpsAssumption DEF Call, CallerFrame
<1>4. CASE AddEventFD BY <1>4 DEF AddEventFD
<1>5. CASE RemoveEventFD BY <1>5 DEF RemoveEventFD
<1>6. CASE ReadEvent BY <1>6 DEF ReadEvent
<1>7. ASSUME NEW p \in Procs, SpuriousWakeup(p) PROVE TypeOK'
  BY <1>7 DEF SpuriousWakeup
<1>8. CASE UNCHANGED vars BY <1>8 DEF vars
<1> QED BY <1>1, <1>2, <1>3, <1>4, <1>5, <1>6, <1>7, <1>8 DEF Next, Terminated

(* Type correctness: in every behaviour of the binding, whatever the       *)
(* client calls and whenever it calls it.                                  *)
THEOREM TypeCorrect == Spec => []TypeOK
<1>1. Init => TypeOK
  <2> SUFFICES ASSUME Init PROVE TypeOK OBVIOUS
  <2>1. /\ singleStepping \in BOOLEAN /\ startSync \in BOOLEAN /\ opened \in BOOLEAN
        /\ raised \in BOOLEAN /\ freed \in BOOLEAN
    BY ArgAssumption, Zenon DEF Init
  <2> QED BY <2>1, ProcAssumption, NatAssumption
          DEF Init, TypeOK, Procs, ThreadPC, State, CallerPC, AllOps, Unlimited
<1> QED BY <1>1, TypeStep, PTL DEF Spec

(* The mutex follows control: one step per action.                         *)
LEMMA LockStep == TypeOK /\ LockDiscipline /\ [Next]_vars => LockDiscipline'
<1> SUFFICES ASSUME TypeOK, LockDiscipline, [Next]_vars PROVE LockDiscipline'
  OBVIOUS
<1> USE ProcAssumption DEF LockDiscipline, InSection, Procs, Goto, simVars, callerVars
<1>0. /\ tpc \in [Threads -> ThreadPC] /\ cpc \in CallerPC
      /\ mut \in Procs \union {None} /\ waiters \subseteq Procs
  BY DEF TypeOK
<1>1. ASSUME NEW t \in Threads, ThreadFunction(t) PROVE LockDiscipline'
  <2> USE <1>0 DEF ThreadFrame, LocalStep
  <2>1. CASE Open(t) BY <2>1 DEF Open
  <2>2. CASE Sync(t) BY <2>2 DEF Sync
  <2>3. CASE Loop(t) BY <2>3 DEF Loop
  <2>4. CASE SimStep(t) BY <2>4 DEF SimStep
  <2>5. CASE Sleep(t) BY <2>5 DEF Sleep
  <2>6. CASE Overrun(t) BY <2>6, NotifySubset DEF Overrun, Announce
  <2>7. CASE CheckFirst(t) BY <2>7 DEF CheckFirst
  <2>8. CASE Running(t) BY <2>8, NotifySubset DEF Running, Announce
  <2>9. CASE CheckPause(t) BY <2>9 DEF CheckPause
  <2>10. CASE Pause(t) BY <2>10, NotifySubset DEF Pause
  <2>11. CASE Park(t) BY <2>11 DEF Park, Block
  <2>12. CASE Resume(t) BY <2>12, NotifySubset DEF Resume, Announce
  <2>13. CASE CheckStop(t) BY <2>13 DEF CheckStop
  <2>14. CASE Stopped(t) BY <2>14, NotifySubset DEF Stopped, Announce
  <2>15. CASE Done(t) BY <2>15, NotifySubset DEF Done, Announce
  <2>16. CASE Close(t) BY <2>16 DEF Close
  <2>17. CASE ThreadLock(t) BY <2>17 DEF ThreadLock, Acquire, AfterLock
  <2> QED BY <1>1, <2>1, <2>2, <2>3, <2>4, <2>5, <2>6, <2>7, <2>8, <2>9, <2>10,
             <2>11, <2>12, <2>13, <2>14, <2>15, <2>16, <2>17 DEF ThreadFunction
<1>2. CASE CallerStep
  <2> USE <1>0 DEF CallerFrame, Refuse, Return, Request
  <2>1. CASE CallerLock BY <2>1 DEF CallerLock, Acquire
  <2>2. CASE StartBody BY <2>2, NotifySubset DEF StartBody, InBody, Spawn, Live
  <2>3. CASE StepBody BY <2>3, NotifySubset DEF StepBody, InBody, Spawn, Live
  <2>4. CASE PauseBody BY <2>4, NotifySubset DEF PauseBody, InBody
  <2>5. CASE StopBody BY <2>5, NotifySubset DEF StopBody, InBody
  <2>6. CASE GetBody BY <2>6 DEF GetBody, InBody
  <2>7. CASE Recheck BY <2>7 DEF Recheck, Block
  <2>8. CASE Dealloc BY <2>8 DEF Dealloc
  <2> QED BY <1>2, <2>1, <2>2, <2>3, <2>4, <2>5, <2>6, <2>7, <2>8 DEF CallerStep
<1>3. ASSUME NEW op \in Ops, Call(op) PROVE LockDiscipline'
  BY <1>0, <1>3 DEF Call, CallerFrame
<1>4. CASE AddEventFD BY <1>4 DEF AddEventFD
<1>5. CASE RemoveEventFD BY <1>5 DEF RemoveEventFD
<1>6. CASE ReadEvent BY <1>6 DEF ReadEvent
<1>7. ASSUME NEW p \in Procs, SpuriousWakeup(p) PROVE LockDiscipline'
  BY <1>7 DEF SpuriousWakeup
<1>8. CASE UNCHANGED vars BY <1>8 DEF vars
<1> QED BY <1>1, <1>2, <1>3, <1>4, <1>5, <1>6, <1>7, <1>8 DEF Next, Terminated

(* Mutual exclusion of the unique_lock scopes, for every client and any    *)
(* number of simulation threads.                                           *)
THEOREM LockCorrect == Spec => []LockDiscipline
<1>1. Init => LockDiscipline
  BY ProcAssumption DEF Init, LockDiscipline, InSection
<1> QED BY <1>1, LockStep, TypeCorrect, PTL DEF Spec

(* A single waiter is the one notify_one wakes.                            *)
LEMMA NotifyLast ==
  ASSUME NEW W, NEW p, W \subseteq {p}, NEW V \in NotifyOne(W)
  PROVE  V = {}
BY DEF NotifyOne

(* The parts of CarefulInv that LockStep does not cover.                   *)
RestInv == ThreadInv /\ CallerInv /\ SpentInv /\ NoLostWakeup

(* Every step of a careful client and of its threads keeps them.          *)
LEMMA CarefulStep ==
  ASSUME Careful, ~(RealTime /\ FailOnOverrun),
         TypeOK, LockDiscipline, RestInv, [Next]_vars
  PROVE  RestInv'
<1> USE ProcAssumption DEF RestInv, ThreadInv, CallerInv, SpentInv, NoLostWakeup,
        MustWait, Settled, Live, Unlimited, Goto, simVars, callerVars
<1>0. /\ tpc \in [Threads -> ThreadPC] /\ cpc \in CallerPC /\ state \in State
      /\ waiters \subseteq Threads \union {Caller}
      /\ thread \in Threads \union {None} /\ budget \in 0 .. 2 /\ call \in AllOps
  BY DEF TypeOK, Procs
<1>00. /\ \A t \in Threads : t \in waiters => tpc[t] = "wait"
       /\ Caller \in waiters => cpc = "wait"
       /\ (mut = Caller) <=> (cpc \in {"body", "recheck"})
       /\ \A t \in Threads : (mut = t) <=> (tpc[t] \in InSection)
  BY DEF LockDiscipline
<1>1. ASSUME NEW t \in Threads, ThreadFunction(t) PROVE RestInv'
  <2> USE <1>0, <1>00 DEF ThreadFrame, LocalStep
  <2>0. ASSUME Live(t), tpc[t] # "wait" PROVE waiters \subseteq {Caller}
    BY <2>0
  <2>1. CASE Open(t)
    BY <2>1 DEF Open
  <2>2. CASE Sync(t)
    BY <2>2 DEF Sync
  <2>3. CASE Loop(t)
    BY <2>3 DEF Loop
  <2>4. CASE SimStep(t)
    <3>1. ThreadInv' BY <2>4 DEF SimStep
    <3>2. CallerInv' BY <2>4 DEF SimStep
    <3>3. SpentInv' BY <2>4 DEF SimStep
    <3>4. NoLostWakeup' BY <2>4 DEF SimStep
    <3> QED BY <3>1, <3>2, <3>3, <3>4
  <2>5. CASE Sleep(t)
    BY <2>5 DEF Sleep
  <2>6. CASE Overrun(t)
    BY <2>6, <2>0, NotifyLast DEF Overrun, Announce, NewState
  <2>7. CASE CheckFirst(t)
    BY <2>7 DEF CheckFirst
  <2>8. CASE Running(t)
    BY <2>8, <2>0, NotifyLast DEF Running, Announce, NewState
  <2>9. CASE CheckPause(t)
    <3>1. ThreadInv' BY <2>9 DEF CheckPause
    <3>2. CallerInv' BY <2>9 DEF CheckPause
    <3>3. SpentInv' BY <2>9 DEF CheckPause
    <3>4. NoLostWakeup' BY <2>9 DEF CheckPause
    <3> QED BY <3>1, <3>2, <3>3, <3>4
  <2>10. CASE Pause(t)
    BY <2>10, <2>0, NotifyLast DEF Pause, NewState
  <2>11. CASE Park(t)
    BY <2>11 DEF Park, Block
  <2>12. CASE Resume(t)
    BY <2>12, <2>0, NotifyLast DEF Resume, Announce, NewState
  <2>13. CASE CheckStop(t)
    BY <2>13 DEF CheckStop
  <2>14. CASE Stopped(t)
    BY <2>14, <2>0, NotifyLast DEF Stopped, Announce, NewState
  <2>15. CASE Done(t)
    BY <2>15, <2>0, NotifyLast DEF Done, Announce, NewState
  <2>16. CASE Close(t)
    BY <2>16 DEF Close
  <2>17. CASE ThreadLock(t)
    BY <2>17 DEF ThreadLock, Acquire, AfterLock
  <2> QED BY <1>1, <2>1, <2>2, <2>3, <2>4, <2>5, <2>6, <2>7, <2>8, <2>9, <2>10,
             <2>11, <2>12, <2>13, <2>14, <2>15, <2>16, <2>17 DEF ThreadFunction
<1>2. CASE CallerStep
  <2> USE <1>0, <1>00 DEF CallerFrame, Refuse, Return, Request, NewState, InBody
  <2>0. ASSUME cpc = "body" PROVE waiters \subseteq {thread}
    BY <2>0
  <2>1. CASE CallerLock BY <2>1 DEF CallerLock, Acquire
  <2>2. CASE StartBody
    <3>1. ThreadInv' BY <2>2 DEF StartBody, Spawn
    <3>2. CallerInv' BY <2>2 DEF StartBody, Spawn
    <3>3. SpentInv' BY <2>2 DEF StartBody, Spawn
    <3>4. NoLostWakeup' BY <2>2, <2>0, NotifyLast DEF StartBody, Spawn
    <3> QED BY <3>1, <3>2, <3>3, <3>4
  <2>3. CASE StepBody
    <3>1. ThreadInv' BY <2>3 DEF StepBody, Spawn
    <3>2. CallerInv' BY <2>3 DEF StepBody, Spawn
    <3>3. SpentInv' BY <2>3 DEF StepBody, Spawn
    <3>4. NoLostWakeup' BY <2>3, <2>0, NotifyLast DEF StepBody, Spawn
    <3> QED BY <3>1, <3>2, <3>3, <3>4
  <2>4. CASE PauseBody BY <2>4, <2>0, NotifyLast DEF PauseBody
  <2>5. CASE StopBody BY <2>5, <2>0, NotifyLast DEF StopBody
  <2>6. CASE GetBody BY <2>6 DEF GetBody
  <2>7. CASE Recheck BY <2>7 DEF Recheck, Block
  <2>8. CASE Dealloc BY <2>8 DEF Dealloc
  <2> QED BY <1>2, <2>1, <2>2, <2>3, <2>4, <2>5, <2>6, <2>7, <2>8 DEF CallerStep
<1>3. ASSUME NEW op \in Ops, Call(op) PROVE RestInv'
  BY <1>0, <1>00, <1>3 DEF Call, CallerFrame, MayCall
<1>4. CASE AddEventFD BY <1>4 DEF AddEventFD
<1>5. CASE RemoveEventFD BY <1>5 DEF RemoveEventFD
<1>6. CASE ReadEvent BY <1>6 DEF ReadEvent
<1>7. ASSUME NEW p \in Procs, SpuriousWakeup(p) PROVE RestInv'
  BY <1>7 DEF SpuriousWakeup
<1>8. CASE UNCHANGED vars BY <1>8 DEF vars
<1> QED BY <1>1, <1>2, <1>3, <1>4, <1>5, <1>6, <1>7, <1>8 DEF Next, Terminated

(* The invariant of a careful client: it waits for the transitions it      *)
(* requests, and overruns do not rewrite the state behind its back         *)
(* (either the simulation is not in real time or fail_on_overrun is off).  *)
THEOREM CarefulCorrect ==
  ASSUME Careful, ~(RealTime /\ FailOnOverrun)
  PROVE  Spec => []CarefulInv
<1>1. Init => RestInv
  BY ProcAssumption
  DEF Init, RestInv, ThreadInv, CallerInv, SpentInv, NoLostWakeup, Live, Unlimited
<1>2. TypeOK /\ LockDiscipline /\ RestInv /\ [Next]_vars => RestInv'
  BY CarefulStep
<1>3. LockDiscipline /\ RestInv => CarefulInv
  BY DEF CarefulInv, RestInv
<1> QED BY <1>1, <1>2, <1>3, TypeCorrect, LockCorrect, PTL DEF Spec

(* start() and step() never create a second thread over the same           *)
(* simulation object.                                                      *)
THEOREM SingleThread ==
  ASSUME Careful, ~(RealTime /\ FailOnOverrun)
  PROVE  Spec => []OneThread
<1>1. CarefulInv => OneThread
  BY DEF CarefulInv, ThreadInv, OneThread
<1> QED BY <1>1, CarefulCorrect, PTL

(* Between the return of pause() and the next call the simulation stands   *)
(* still, and its thread waits to be resumed.                              *)
THEOREM PausedStandsStill ==
  ASSUME Careful, ~(RealTime /\ FailOnOverrun)
  PROVE  Spec => []PausedMeansParked
<1>1. TypeOK /\ CarefulInv => PausedMeansParked
  BY DEF CarefulInv, ThreadInv, PausedMeansParked, Live, TypeOK, ThreadPC
<1> QED BY <1>1, CarefulCorrect, TypeCorrect, PTL

(* No wake-up is lost although every notification is a notify_one.         *)
THEOREM WakeupsReach ==
  ASSUME Careful, ~(RealTime /\ FailOnOverrun)
  PROVE  Spec => []NoLostWakeup
<1>1. CarefulInv => NoLostWakeup
  BY DEF CarefulInv
<1> QED BY <1>1, CarefulCorrect, PTL

(* step() performs at most one time step.                                  *)
THEOREM SingleStep ==
  ASSUME Careful, ~(RealTime /\ FailOnOverrun)
  PROVE  Spec => []StepBudget
<1>1. CarefulInv => StepBudget
  BY DEF CarefulInv, SpentInv, StepBudget
<1> QED BY <1>1, CarefulCorrect, PTL

(* Every time step is computed with open interfaces.                       *)
THEOREM StepsWithInterfaces ==
  ASSUME Careful, ~(RealTime /\ FailOnOverrun)
  PROVE  Spec => []InterfacesOpen
<1>1. CarefulInv => InterfacesOpen
  BY DEF CarefulInv, ThreadInv, InterfacesOpen
<1> QED BY <1>1, CarefulCorrect, PTL

(* dealloc deletes the object only when no thread uses it any more.        *)
THEOREM SafeDealloc ==
  ASSUME Careful, ~(RealTime /\ FailOnOverrun)
  PROVE  Spec => []NoUseAfterFree
<1>1. CarefulInv => NoUseAfterFree
  BY DEF CarefulInv, CallerInv, NoUseAfterFree
<1> QED BY <1>1, CarefulCorrect, PTL

(* No step of any process leaves the state done.                           *)
LEMMA DoneStep ==
  ASSUME TypeOK, CarefulInv, [Next]_vars, state = "done"
  PROVE  state' = "done"
<1>1. \A t \in Threads : tpc[t] \in {"none", "close"}
  BY DEF CarefulInv, ThreadInv
<1>2. ASSUME NEW t \in Threads, ThreadFunction(t) PROVE state' = state
  BY <1>1, <1>2
  DEF ThreadFunction, Open, Sync, Loop, SimStep, Sleep, Overrun, CheckFirst, Running,
      CheckPause, Pause, Park, Resume, CheckStop, Stopped, Done, Close, ThreadLock,
      LocalStep
<1>3. CASE CallerStep
  BY <1>3
  DEF CallerStep, CallerLock, StartBody, StepBody, PauseBody, StopBody, GetBody,
      Recheck, Dealloc, Refuse, Return
<1>4. CASE \E op \in Ops : Call(op) BY <1>4 DEF Call
<1>5. CASE AddEventFD \/ RemoveEventFD \/ ReadEvent
  BY <1>5 DEF AddEventFD, RemoveEventFD, ReadEvent
<1>6. CASE \E p \in Procs : SpuriousWakeup(p) BY <1>6 DEF SpuriousWakeup
<1>7. CASE UNCHANGED vars BY <1>7 DEF vars
<1> QED BY <1>2, <1>3, <1>4, <1>5, <1>6, <1>7 DEF Next, Terminated

(* The end of the simulation is final.                                     *)
THEOREM DoneStays ==
  ASSUME Careful, ~(RealTime /\ FailOnOverrun)
  PROVE  Spec => DoneIsFinal
<1>1. TypeOK /\ CarefulInv /\ [Next]_vars => [state = "done" => state' = "done"]_state
  BY DoneStep
<1> QED BY <1>1, CarefulCorrect, TypeCorrect, PTL DEF Spec, DoneIsFinal
-----------------------------------------------------------------------------
(* The states a thread can find itself in at each of its control points:   *)
(* the state it was created in until its first step is over, and after     *)
(* that one that only itself can leave.                                    *)
ControlInv ==
  \A t \in Threads :
    /\ tpc[t] \in {"open", "sync"} => state = "starting" /\ count = 0
    /\ tpc[t] \in {"loop", "step"} =>
         \/ state = "starting" /\ count = 0
         \/ state \in {"running", "pausing", "stopping"} /\ count > 0
    /\ tpc[t] \in {"sleep", "overrun_lock", "overrun", "first"} =>
         \/ state = "starting" /\ count = 1
         \/ state \in {"running", "pausing", "stopping"} /\ count > 1
    /\ tpc[t] \in {"first_lock", "running"} => state = "starting"
    /\ tpc[t] \in {"check", "stop_check", "done_lock", "done"} =>
         state \in {"running", "pausing", "stopping"}
    /\ tpc[t] \in {"pause_lock", "paused"} =>
         state = "pausing" \/ (state = "running" /\ singleStepping)
    /\ tpc[t] \in {"parked", "wait"} => state \in {"paused", "resuming", "stopping"}
    /\ tpc[t] = "resumed" => state \in {"resuming", "stopping"}
    /\ tpc[t] \in {"stop_lock", "stopped"} => state = "stopping"
    /\ tpc[t] \notin {"none", "open", "sync", "loop", "step"} => count > 0
    /\ state = "stopping" /\ singleStepping =>
         tpc[t] \in {"none", "parked", "wait", "resumed", "stop_check", "stop_lock", "stopped"}
    /\ time[t] <= count

(* Nobody enters a function while a transition is under way, and what a    *)
(* caller has seen before it took the mutex still holds when it has it.    *)
EntryInv ==
  /\ state \notin {"failed", "overrun"}
  /\ cpc \in {"lock", "body"} =>
       /\ state \in Settled
       /\ singleStepping => state # "running"
       /\ call \in {"start", "step"} /\ state = "stopped" => count = 0
  /\ state = "pausing" => cpc \in {"recheck", "wait"} /\ call = "pause"

(* How many announcements can be unread in which state: at most three      *)
(* since the last call was made, two of them before a running simulation   *)
(* pauses or ends, none when a function starts from a state that stays.    *)
UnreadInv ==
  /\ thread = None => state = "stopped" /\ pending = 0
  /\ state \in {"starting", "resuming", "pausing", "stopping"} => pending <= fds
  /\ state \in {"running", "stopped"} => pending <= 2 * fds
  /\ pending <= 3 * fds
  /\ cpc \in {"lock", "body"} => pending <= IF state = "done" THEN fds ELSE 0

(* Every step of a careful client's run keeps control and state together.  *)
LEMMA LifeStep ==
  ASSUME Careful, ~(RealTime /\ FailOnOverrun), FinalTime >= 1, CountCap >= 2,
         TypeOK, CarefulInv, ControlInv, EntryInv, [Next]_vars
  PROVE  ControlInv' /\ EntryInv'
<1> USE DEF ControlInv, EntryInv, Settled, Live, Goto, simVars, callerVars
<1>0. /\ tpc \in [Threads -> ThreadPC] /\ cpc \in CallerPC /\ state \in State
      /\ time \in [Threads -> 0 .. CountCap] /\ count \in 0 .. CountCap
      /\ FinalTime \in Nat /\ CountCap \in Nat /\ call \in AllOps
      /\ singleStepping \in BOOLEAN
  BY NatAssumption DEF TypeOK
<1>00. /\ \A t \in Threads : Live(t) => thread = t
       /\ state = "stopped" => \A t \in Threads : ~Live(t)
       /\ state = "paused" => /\ thread \in Threads
                              /\ tpc[thread] \in {"parked", "wait"}
       /\ state = "done" => \A t \in Threads : tpc[t] \in {"none", "close"}
       /\ state = "stopping" => cpc \in {"recheck", "wait"} /\ call \in {"stop", "dealloc"}
       /\ \A t \in Threads : /\ tpc[t] \in {"sleep", "overrun_lock", "overrun"} => RealTime
                             /\ tpc[t] = "close" => state = "done"
  BY DEF CarefulInv, ThreadInv, CallerInv
<1>1. ASSUME NEW t \in Threads, ThreadFunction(t) PROVE ControlInv' /\ EntryInv'
  <2> USE <1>0, <1>00 DEF ThreadFrame, LocalStep
  <2>0. \A u \in Threads : u # t /\ Live(t) => tpc[u] = "none"
    OBVIOUS
  <2>1. CASE Open(t) BY <2>1 DEF Open
  <2>2. CASE Sync(t) BY <2>2 DEF Sync
  <2>3. CASE Loop(t) BY <2>3 DEF Loop
  <2>4. CASE SimStep(t) BY <2>4 DEF SimStep
  <2>5. CASE Sleep(t) BY <2>5 DEF Sleep
  <2>6. CASE Overrun(t) BY <2>6 DEF Overrun, Announce, NewState
  <2>7. CASE CheckFirst(t) BY <2>7 DEF CheckFirst
  <2>8. CASE Running(t) BY <2>0, <2>8 DEF Running, Announce, NewState
  <2>9. CASE CheckPause(t) BY <2>9 DEF CheckPause
  <2>10. CASE Pause(t) BY <2>0, <2>10 DEF Pause, NewState
  <2>11. CASE Park(t) BY <2>11 DEF Park, Block
  <2>12. CASE Resume(t) BY <2>0, <2>12 DEF Resume, Announce, NewState
  <2>13. CASE CheckStop(t) BY <2>13 DEF CheckStop
  <2>14. CASE Stopped(t) BY <2>0, <2>14 DEF Stopped, Announce, NewState
  <2>15. CASE Done(t) BY <2>0, <2>15 DEF Done, Announce, NewState
  <2>16. CASE Close(t) BY <2>16 DEF Close
  <2>17. CASE ThreadLock(t) BY <2>17 DEF ThreadLock, Acquire, AfterLock
  <2> QED BY <1>1, <2>1, <2>2, <2>3, <2>4, <2>5, <2>6, <2>7, <2>8, <2>9, <2>10,
             <2>11, <2>12, <2>13, <2>14, <2>15, <2>16, <2>17 DEF ThreadFunction
<1>2. CASE CallerStep
  <2> USE <1>0, <1>00 DEF CallerFrame, Refuse, Return, Request, NewState, InBody
  <2>1. CASE CallerLock BY <2>1 DEF CallerLock, Acquire
  <2>2. CASE StartBody BY <2>2 DEF StartBody, Spawn
  <2>3. CASE StepBody BY <2>3 DEF StepBody, Spawn
  <2>4. CASE PauseBody BY <2>4 DEF PauseBody
  <2>5. CASE StopBody BY <2>5 DEF StopBody
  <2>6. CASE GetBody BY <2>6 DEF GetBody
  <2>7. CASE Recheck BY <2>7 DEF Recheck, Block, MustWait
  <2>8. CASE Dealloc BY <2>8 DEF Dealloc
  <2> QED BY <1>2, <2>1, <2>2, <2>3, <2>4, <2>5, <2>6, <2>7, <2>8 DEF CallerStep
<1>3. ASSUME NEW op \in Ops, Call(op) PROVE ControlInv' /\ EntryInv'
  BY <1>0, <1>00, <1>3 DEF Call, CallerFrame, MayCall
<1>4. CASE AddEventFD BY <1>4 DEF AddEventFD
<1>5. CASE RemoveEventFD BY <1>5 DEF RemoveEventFD
<1>6. CASE ReadEvent BY <1>6 DEF ReadEvent
<1>7. ASSUME NEW p \in Procs, SpuriousWakeup(p) PROVE ControlInv' /\ EntryInv'
  BY <1>7 DEF SpuriousWakeup
<1>8. CASE UNCHANGED vars BY <1>8 DEF vars
<1> QED BY <1>1, <1>2, <1>3, <1>4, <1>5, <1>6, <1>7, <1>8 DEF Next, Terminated

(* Control and state together, in every run of a careful client over a     *)
(* simulation of at least one step.                                        *)
LEMMA LifeCorrect ==
  ASSUME Careful, ~(RealTime /\ FailOnOverrun), FinalTime >= 1, CountCap >= 2
  PROVE  Spec => [](ControlInv /\ EntryInv)
<1>1. Init => ControlInv /\ EntryInv
  BY NatAssumption DEF Init, ControlInv, EntryInv
<1>2. TypeOK /\ CarefulInv /\ ControlInv /\ EntryInv /\ [Next]_vars
      => (ControlInv /\ EntryInv)'
  BY LifeStep
<1> QED BY <1>1, <1>2, TypeCorrect, CarefulCorrect, PTL DEF Spec

(* Every step announces a state the published life cycle allows next.      *)
LEMMA TransitionStep ==
  ASSUME ~(RealTime /\ FailOnOverrun), TypeOK, CarefulInv, ControlInv, EntryInv,
         [Next]_vars
  PROVE  [LifecycleNext]_state
<1> USE DEF LifecycleNext, Follows
<1>1. ASSUME NEW t \in Threads, ThreadFunction(t) PROVE [LifecycleNext]_state
  <2>1. CASE Overrun(t) BY <2>1 DEF Overrun, Announce, NewState, CarefulInv, ThreadInv
  <2>2. CASE Running(t) BY <2>2 DEF Running, Announce, NewState, ControlInv
  <2>3. CASE Pause(t) BY <2>3 DEF Pause, NewState, ControlInv
  <2>4. CASE Resume(t) BY <2>4 DEF Resume, Announce, NewState
  <2>5. CASE Stopped(t) BY <2>5 DEF Stopped, Announce, NewState, ControlInv
  <2>6. CASE Done(t) BY <2>6 DEF Done, Announce, NewState, ControlInv
  <2> QED BY <1>1, <2>1, <2>2, <2>3, <2>4, <2>5, <2>6
          DEF ThreadFunction, Open, Sync, Loop, SimStep, Sleep, CheckFirst, CheckPause,
              Park, CheckStop, Close, ThreadLock, LocalStep
<1>2. CASE CallerStep
  <2> USE DEF Refuse, Return, Request, NewState, InBody
  <2>1. CASE StartBody BY <2>1 DEF StartBody, EntryInv, Settled
  <2>2. CASE StepBody BY <2>2 DEF StepBody
  <2>3. CASE PauseBody BY <2>3 DEF PauseBody
  <2>4. CASE StopBody BY <2>4 DEF StopBody
  <2> QED BY <1>2, <2>1, <2>2, <2>3, <2>4
          DEF CallerStep, CallerLock, GetBody, Recheck, Dealloc
<1>3. CASE \E op \in Ops : Call(op) BY <1>3 DEF Call
<1>4. CASE AddEventFD \/ RemoveEventFD \/ ReadEvent
  BY <1>4 DEF AddEventFD, RemoveEventFD, ReadEvent
<1>5. CASE \E p \in Procs : SpuriousWakeup(p) BY <1>5 DEF SpuriousWakeup
<1>6. CASE UNCHANGED vars BY <1>6 DEF vars
<1> QED BY <1>1, <1>2, <1>3, <1>4, <1>5, <1>6 DEF Next, Terminated

(* Refinement: the binding implements the published life cycle, so no      *)
(* announcement of the thread overtakes one of the caller or the reverse.  *)
THEOREM LifecycleImplemented ==
  ASSUME Careful, ~(RealTime /\ FailOnOverrun), FinalTime >= 1, CountCap >= 2
  PROVE  Spec => ImplementsLifecycle
<1>1. Init => LifecycleInit
  BY DEF Init, LifecycleInit
<1>2. TypeOK /\ CarefulInv /\ ControlInv /\ EntryInv /\ [Next]_vars
      => [LifecycleNext]_state
  BY TransitionStep
<1> QED BY <1>1, <1>2, TypeCorrect, CarefulCorrect, LifeCorrect, PTL
        DEF Spec, ImplementsLifecycle, LifecycleSpec

(* Every step keeps the number of unread announcements within bounds.      *)
LEMMA UnreadStep ==
  ASSUME Careful, ~(RealTime /\ FailOnOverrun),
         TypeOK, CarefulInv, ControlInv, EntryInv, UnreadInv, [Next]_vars
  PROVE  UnreadInv'
<1> USE ProcAssumption DEF UnreadInv, Live, Goto, simVars, callerVars
<1>0. /\ tpc \in [Threads -> ThreadPC] /\ state \in State
      /\ fds \in Nat /\ pending \in Nat /\ thread \in Threads \union {None}
  BY NatAssumption DEF TypeOK
<1>1. ASSUME NEW t \in Threads, ThreadFunction(t) PROVE UnreadInv'
  <2>0. tpc[t] # "none" => thread # None
    BY DEF CarefulInv, ThreadInv
  <2> USE <1>0, <2>0 DEF ThreadFrame, LocalStep
  <2>1. CASE Overrun(t)
    BY <2>1 DEF Overrun, Announce, NewState, CarefulInv, ThreadInv
  <2>2. CASE Running(t)
    BY <2>2 DEF Running, Announce, NewState, ControlInv, EntryInv, Settled
  <2>3. CASE Pause(t) BY <2>3 DEF Pause, NewState, ControlInv, EntryInv
  <2>4. CASE Resume(t) BY <2>4 DEF Resume, Announce, NewState, EntryInv, Settled
  <2>5. CASE Stopped(t) BY <2>5 DEF Stopped, Announce, NewState, ControlInv, EntryInv, Settled
  <2>6. CASE Done(t) BY <2>6 DEF Done, Announce, NewState, ControlInv, EntryInv, Settled
  <2> QED BY <1>1, <2>1, <2>2, <2>3, <2>4, <2>5, <2>6
          DEF ThreadFunction, Open, Sync, Loop, SimStep, Sleep, CheckFirst, CheckPause,
              Park, CheckStop, Close, ThreadLock
<1>2. CASE CallerStep
  <2> USE <1>0 DEF CallerFrame, Refuse, Return, Request, NewState, InBody
  <2>1. CASE StartBody BY <2>1 DEF StartBody, Spawn, EntryInv, Settled
  <2>2. CASE StepBody BY <2>2 DEF StepBody, Spawn
  <2>3. CASE PauseBody BY <2>3 DEF PauseBody
  <2>4. CASE StopBody BY <2>4 DEF StopBody
  <2> QED BY <1>2, <2>1, <2>2, <2>3, <2>4
          DEF CallerStep, CallerLock, GetBody, Recheck, Dealloc
<1>3. ASSUME NEW op \in Ops, Call(op) PROVE UnreadInv'
  BY <1>0, <1>3 DEF Call, MayCall, CallerFrame
<1>4. CASE AddEventFD BY <1>0, <1>4 DEF AddEventFD
<1>5. CASE RemoveEventFD BY <1>0, <1>5 DEF RemoveEventFD
<1>6. CASE ReadEvent BY <1>0, <1>6 DEF ReadEvent
<1>7. CASE \E p \in Procs : SpuriousWakeup(p) BY <1>7 DEF SpuriousWakeup
<1>8. CASE UNCHANGED vars BY <1>8 DEF vars
<1> QED BY <1>1, <1>2, <1>3, <1>4, <1>5, <1>6, <1>7, <1>8 DEF Next, Terminated

(* A socket that holds three events per registration never makes newState  *)
(* block with the mutex held.                                              *)
THEOREM SendsFit ==
  ASSUME Careful, ~(RealTime /\ FailOnOverrun), FinalTime >= 1, CountCap >= 2,
         3 * MaxFds <= ChanCap
  PROVE  Spec => []SendNeverBlocks
<1>1. Init => UnreadInv
  BY DEF Init, UnreadInv
<1>2. TypeOK /\ CarefulInv /\ ControlInv /\ EntryInv /\ UnreadInv /\ [Next]_vars
      => UnreadInv'
  BY UnreadStep
<1>3. TypeOK /\ CarefulInv /\ ControlInv /\ EntryInv /\ UnreadInv => SendNeverBlocks
  <2> SUFFICES ASSUME TypeOK, CarefulInv, ControlInv, EntryInv, UnreadInv
               PROVE  SendNeverBlocks
    OBVIOUS
  <2>0. fds \in 0 .. MaxFds /\ pending \in Nat /\ MaxFds \in Nat /\ ChanCap \in Nat
    BY NatAssumption DEF TypeOK
  <2>1. cpc = "body" => pending <= 2 * fds
    BY <2>0 DEF UnreadInv
  <2>2. \A t \in Threads : tpc[t] \in InSection \ {"overrun", "parked"}
                           => pending <= 2 * fds
    BY <2>0 DEF UnreadInv, ControlInv, InSection
  <2>3. pending <= 2 * fds => pending + fds <= ChanCap
    BY <2>0
  <2> QED BY <2>1, <2>2, <2>3 DEF SendNeverBlocks
<1> QED BY <1>1, <1>2, <1>3, TypeCorrect, CarefulCorrect, LifeCorrect, PTL DEF Spec

-----------------------------------------------------------------------------
(* PyEventChannel: the order in which events reach coroutines, for any     *)
(* socket buffer and any number of events                                  *)

(* A set of natural numbers that is not empty has a least element.         *)
LEMMA LeastElement ==
  ASSUME NEW I, I \subseteq Nat, I # {}
  PROVE  \E x \in I : \A y \in I : x <= y
<1> DEFINE R == {ss \in Nat \X Nat : ss[1] < ss[2]}
<1>1. IsWellFoundedOn(R, Nat)
  <2>1. R = OpToRel(<, Nat) BY Zenon DEF OpToRel
  <2> QED BY <2>1, NatLessThanWellFounded, Zenon
<1>2. PICK x \in I : \A y \in I : ~(<<y, x>> \in R)
  <2> HIDE DEF R
  <2> QED BY <1>1, WFMin, Zenon
<1>3. ASSUME NEW y \in I PROVE x <= y
  <2>1. x \in Nat /\ y \in Nat OBVIOUS
  <2>2. <<y, x>> \in Nat \X Nat /\ <<y, x>>[1] = y /\ <<y, x>>[2] = x
    BY <2>1
  <2>3. y < x => <<y, x>> \in R
    BY <2>2
  <2> QED BY <1>2, <2>1, <2>3
<1> QED BY <1>3

(* The head of the second sequence may move to the end of the first.       *)
LEMMA MoveHead ==
  ASSUME NEW S, NEW s \in Seq(S), NEW t \in Seq(S), t # <<>>
  PROVE  /\ Head(t) \in S /\ Tail(t) \in Seq(S)
         /\ Append(s, Head(t)) \o Tail(t) = s \o t
OBVIOUS

(* The two parts of a sequence cut at n.                                   *)
LEMMA Parts == ASSUME NEW S, NEW t \in Seq(S), NEW n \in 0 .. Len(t)
  PROVE  /\ SubSeq(t, 1, n) \in Seq(S) /\ SubSeq(t, n + 1, Len(t)) \in Seq(S)
         /\ Len(SubSeq(t, 1, n)) = n
OBVIOUS

(* Joined, the two parts are the sequence.                                 *)
LEMMA Join == ASSUME NEW S, NEW t \in Seq(S), NEW n \in 0 .. Len(t)
   PROVE SubSeq(t, 1, n) \o SubSeq(t, n + 1, Len(t)) = t
<1>1. /\ 1 \in 1 .. Len(t) + 1 /\ n \in 1 - 1 .. Len(t) /\ Len(t) \in n .. Len(t)
  OBVIOUS
<1>2. SubSeq(t, 1, n) \o SubSeq(t, n + 1, Len(t)) = SubSeq(t, 1, Len(t))
  BY <1>1, ConcatAdjacentSubSeq, Zenon
<1>3. SubSeq(t, 1, Len(t)) = t
  BY SubSeqFull, Zenon
<1> QED BY <1>2, <1>3, Zenon

(* The life cycle stays within the events, and nothing follows done.       *)
LEMMA FollowsEvents ==
  /\ \A x \in DOMAIN Follows : Follows[x] \subseteq Event
  /\ "done" \in DOMAIN Follows /\ Follows["done"] = {}
  /\ {"stopped", "starting", "running", "pausing", "paused", "resuming", "stopping",
      "done", "overrun"} = Event
BY DEF Follows, Event

(* Once done is on its way to the script, the simulation has ended.        *)
DoneInv ==
  /\ \A i \in 1 .. Len(called) : called[i] = "done" => state = "done"
  /\ \A i \in 1 .. Len(sock) : sock[i] = "done" => state = "done"

DeliveryInv == ChannelTypeOK /\ DeliveredInOrder /\ DoneInv

(* What newState and its callers have in common: an event that may follow  *)
(* is appended to the socket and to the history, nothing is read.          *)
LEMMA AnnouncementKeeps ==
  ASSUME DeliveryInv, state' \in Event, state = "done" => state' = "done",
         SendEvent(state'), UNCHANGED <<task, queue, other, called, taken>>,
         simulate' \in {"idle", "running", "done", "returned"},
         simulate' = "returned" => simulate = "returned"
  PROVE  DeliveryInv'
<1> USE DEF DeliveryInv, DeliveredInOrder
<1>1. ChannelTypeOK'
  BY CapAssumption DEF ChannelTypeOK, SendEvent
<1>2. EventsInOrder'
  <2>1. called = taken \o queue
    BY DEF EventsInOrder
  <2>2. ASSUME task = "alive" PROVE sent' = called \o sock'
    <3>1. sent = called \o sock BY <2>2 DEF EventsInOrder
    <3>2. Append(called \o sock, state') = called \o Append(sock, state')
      <4>1. called \in Seq(Event) /\ sock \in Seq(Event) BY DEF ChannelTypeOK
      <4> QED BY <4>1
    <3> QED BY <3>1, <3>2, Zenon DEF SendEvent
  <2> QED BY <2>1, <2>2, Zenon DEF EventsInOrder
<1>3. SimulateOnlyAfterDone'
  BY DEF SimulateOnlyAfterDone
<1>4. DoneInv'
  <2>1. \A i \in 1 .. Len(called) : called[i] = "done" => state' = "done"
    BY DEF DoneInv
  <2>2. sock' = Append(sock, state') /\ sock \in Seq(Event)
    BY DEF SendEvent, ChannelTypeOK
  <2>3. \A i \in 1 .. Len(sock') : sock'[i] = "done" => state' = "done"
    BY <2>2 DEF DoneInv
  <2> QED BY <2>1, <2>3 DEF DoneInv
<1> QED BY <1>1, <1>2, <1>3, <1>4

(* What the readers of the queue have in common: some events move from the *)
(* queue to those taken.                                                   *)
LEMMA TakingKeeps ==
  ASSUME DeliveryInv, NEW n \in 0 .. Len(queue), Take(n),
         UNCHANGED <<state, sock, task, sent, called>>
  PROVE  /\ taken' \in Seq(Event) /\ queue' \in Seq(Event)
         /\ EventsInOrder' /\ DoneInv' /\ Len(taken') = Len(taken) + n
<1>1. taken \in Seq(Event) /\ queue \in Seq(Event)
  BY DEF DeliveryInv, ChannelTypeOK
<1>2. /\ taken' \in Seq(Event) /\ queue' \in Seq(Event)
      /\ taken' \o queue' = taken \o queue /\ Len(taken') = Len(taken) + n
  <2>1. /\ SubSeq(queue, 1, n) \in Seq(Event) /\ Len(SubSeq(queue, 1, n)) = n
        /\ SubSeq(queue, n + 1, Len(queue)) \in Seq(Event)
    BY <1>1, Parts, Zenon
  <2>2. SubSeq(queue, 1, n) \o SubSeq(queue, n + 1, Len(queue)) = queue
    BY <1>1, Join, Zenon
  <2>3. \A a, b \in Seq(Event) :
          /\ (taken \o a) \o b = taken \o (a \o b)
          /\ taken \o a \in Seq(Event) /\ Len(taken \o a) = Len(taken) + Len(a)
    BY <1>1
  <2>4. /\ taken' = taken \o SubSeq(queue, 1, n)
        /\ queue' = SubSeq(queue, n + 1, Len(queue))
    BY DEF Take
  <2> QED BY <2>1, <2>2, <2>3, <2>4
<1> QED BY <1>2 DEF DeliveryInv, DeliveredInOrder, EventsInOrder, DoneInv

(* A coroutine takes at least one event from a queue that has one.         *)
LEMMA ConsumedSome ==
  ASSUME queue \in Seq(Event), queue # <<>>, NEW evt
  PROVE  Consumed(evt) \in 1 .. Len(queue)
<1> DEFINE I == {i \in 1 .. Len(queue) : queue[i] = evt}
<1>1. Consumed(evt) = LET i == IF I # {} THEN Min(I) ELSE 0
                      IN IF i = 0 THEN Len(queue) ELSE i
  BY DEF Consumed, SelectInSeq
<1>2. Len(queue) \in Nat \ {0}
  OBVIOUS
<1>3. ASSUME I # {} PROVE Min(I) \in 1 .. Len(queue)
  <2>1. I \subseteq Nat OBVIOUS
  <2>2. \E x \in I : \A y \in I : x <= y BY <1>3, <2>1, LeastElement, Zenon
  <2> QED BY <2>2 DEF Min
<1> QED BY <1>1, <1>2, <1>3

(* Every step keeps the events in order and done the last of them.         *)
LEMMA DeliveryStep ==
  ASSUME DeliveryInv, [ChannelNext]_channelVars
  PROVE  DeliveryInv'
<1>0. /\ state \in Event /\ called \in Seq(Event) /\ sock \in Seq(Event)
      /\ queue \in Seq(Event) /\ taken \in Seq(Event)
      /\ simulate \in {"idle", "running", "done", "returned"}
  BY DEF DeliveryInv, ChannelTypeOK
<1>00. \A h \in Event : Append(taken \o queue, h) = taken \o Append(queue, h)
  <2>1. taken \in Seq(Event) /\ queue \in Seq(Event) BY <1>0
  <2> QED BY <2>1
<1>1. CASE StateAnnounced
  <2>1. state' \in Event /\ state # "done"
    BY <1>1, FollowsEvents DEF StateAnnounced, LifecycleNext
  <2> QED BY <1>0, <1>1, <2>1, AnnouncementKeeps DEF StateAnnounced
<1>2. CASE OverrunAnnounced
  <2>1. state' \in Event /\ state # "done"
    BY <1>2, FollowsEvents DEF OverrunAnnounced
  <2> QED BY <1>0, <1>2, <2>1, AnnouncementKeeps DEF OverrunAnnounced
<1>3. CASE Start
  <2>1. state' \in Event /\ state # "done"
    BY <1>3, FollowsEvents DEF Start
  <2> QED BY <1>3, <2>1, AnnouncementKeeps DEF Start
<1>4. CASE TaskRead
  <2> USE DEF DeliveryInv, DeliveredInOrder
  <2>1. PICK h \in Event, r \in Seq(Event) :
          /\ h = Head(sock) /\ r = Tail(sock) /\ Len(r) <= Len(sock)
          /\ h = sock[1] /\ 1 \in 1 .. Len(sock)
          /\ \A i \in 1 .. Len(r) : i + 1 \in 1 .. Len(sock) /\ r[i] = sock[i + 1]
          /\ \A t \in Seq(Event) : Append(t, h) \o r = t \o sock
    <3>1. sock # <<>> BY <1>4 DEF TaskRead
    <3>2. Head(sock) \in Event /\ Tail(sock) \in Seq(Event) BY <1>0, <3>1
    <3>3. /\ Len(Tail(sock)) <= Len(sock) /\ Head(sock) = sock[1]
          /\ 1 \in 1 .. Len(sock)
      BY <1>0, <3>1
    <3>4. ASSUME NEW i \in 1 .. Len(Tail(sock))
          PROVE  i + 1 \in 1 .. Len(sock) /\ Tail(sock)[i] = sock[i + 1]
      BY <1>0, <3>1
    <3>5. ASSUME NEW t \in Seq(Event)
          PROVE  Append(t, Head(sock)) \o Tail(sock) = t \o sock
      BY <1>0, <3>1, MoveHead
    <3> QED BY <3>2, <3>3, <3>4, <3>5
  <2>2. sock' = r /\ UNCHANGED <<state, simulate, other, sent, taken>>
    BY <1>4, <2>1 DEF TaskRead
  <2>3. SimulateOnlyAfterDone'
    BY <2>2 DEF SimulateOnlyAfterDone
  <2>4. \A i \in 1 .. Len(sock') : sock'[i] = "done" => state = "done"
    BY <2>1, <2>2 DEF DoneInv
  <2>5. sock' \in Seq(Event) /\ Len(sock') <= SockCap
    <3>1. Len(r) \in Nat /\ Len(sock) \in Nat /\ Len(sock) <= SockCap
      BY <1>0 DEF ChannelTypeOK
    <3> QED BY <2>1, <2>2, <3>1, CapAssumption
  <2>6. CASE Raises(Head(sock))
    <3>1. task' = "dead" /\ UNCHANGED <<called, queue>>
      BY <1>4, <2>6 DEF TaskRead
    <3>2. ChannelTypeOK' BY <2>2, <2>5, <3>1 DEF ChannelTypeOK
    <3>3. EventsInOrder' BY <2>2, <3>1 DEF EventsInOrder
    <3>4. DoneInv' BY <2>2, <2>4, <3>1 DEF DoneInv
    <3> QED BY <2>3, <3>2, <3>3, <3>4
  <2>7. CASE ~Raises(Head(sock))
    <3>1. /\ called' = Append(called, h) /\ queue' = Append(queue, h)
          /\ UNCHANGED task /\ task = "alive"
      BY <1>4, <2>1, <2>7 DEF TaskRead
    <3>2. ChannelTypeOK'
      <4>1. called' \in Seq(Event) /\ queue' \in Seq(Event) BY <1>0, <3>1
      <4> QED BY <2>2, <2>5, <3>1, <4>1 DEF ChannelTypeOK
    <3>3. called' = taken' \o queue'
      <4>1. called = taken \o queue BY DEF EventsInOrder
      <4>2. Append(taken \o queue, h) = taken \o Append(queue, h)
        BY <1>00
      <4> QED BY <2>2, <3>1, <4>1, <4>2, Zenon
    <3>4. sent' = called' \o sock'
      <4>1. sent = called \o sock BY <3>1 DEF EventsInOrder
      <4>2. Append(called, h) \o r = called \o sock
        BY <1>0, <2>1
      <4> QED BY <2>2, <3>1, <4>1, <4>2, Zenon
    <3>5. DoneInv'
      <4>1. ASSUME NEW i \in 1 .. Len(called'), called'[i] = "done" PROVE state = "done"
        <5>1. i \in 1 .. Len(called) \/ called'[i] = h BY <1>0, <3>1
        <5>2. i \in 1 .. Len(called) => called'[i] = called[i] BY <1>0, <3>1
        <5>3. h = "done" => state = "done" BY <2>1 DEF DoneInv
        <5> QED BY <4>1, <5>1, <5>2, <5>3 DEF DoneInv
      <4> QED BY <2>2, <2>4, <4>1 DEF DoneInv
    <3> QED BY <2>3, <3>2, <3>3, <3>4, <3>5 DEF EventsInOrder
  <2> QED BY <2>6, <2>7
<1>5. ASSUME NEW evt \in {"running", "done"}, NEW next \in {"done", "returned"},
             next = "returned" => evt = "done", Awaits(evt, next)
      PROVE  DeliveryInv'
  <2> DEFINE n == Consumed(evt)
  <2>1. n \in 1 .. Len(queue) BY <1>0, <1>5, ConsumedSome DEF Awaits
  <2>2. Take(n) /\ UNCHANGED <<state, sock, task, other, sent, called>>
    BY <1>5 DEF Awaits, Wait
  <2> HIDE DEF n
  <2>3. n \in 0 .. Len(queue) BY <1>0, <2>1
  <2>4. /\ taken' \in Seq(Event) /\ queue' \in Seq(Event)
        /\ EventsInOrder' /\ DoneInv' /\ Len(taken') = Len(taken) + n
    BY <2>2, <2>3, TakingKeeps
  <2>5. ASSUME Last(taken') = "done" PROVE state = "done"
    <3>1. Len(taken') \in 1 .. Len(called) /\ called[Len(taken')] = taken'[Len(taken')]
      <4>1. called = taken' \o queue' BY <2>2, <2>4 DEF EventsInOrder
      <4>2. Len(taken') >= 1 BY <1>0, <2>1, <2>4
      <4> QED BY <2>4, <4>1, <4>2
    <3> QED BY <2>5, <3>1 DEF Last, DeliveryInv, DoneInv
  <2>6. simulate' = IF Last(taken') = evt THEN next ELSE simulate
    BY <1>5 DEF Awaits
  <2>7. SimulateOnlyAfterDone'
    BY <2>2, <2>5, <2>6, <1>5
    DEF SimulateOnlyAfterDone, DeliveryInv, DeliveredInOrder
  <2>8. ChannelTypeOK'
    BY <1>5, <2>2, <2>4, <2>6 DEF DeliveryInv, ChannelTypeOK
  <2> QED BY <2>4, <2>7, <2>8 DEF DeliveryInv, DeliveredInOrder
<1>6. CASE OtherWait
  <2> USE DEF DeliveryInv, DeliveredInOrder
  <2>1. UNCHANGED <<state, sock, task, simulate, sent, called>>
    BY <1>6 DEF OtherWait
  <2>2. CASE UNCHANGED <<queue, taken>> /\ other' = "waiting"
    BY <2>1, <2>2
    DEF ChannelTypeOK, EventsInOrder, SimulateOnlyAfterDone, DoneInv
  <2>3. CASE queue # <<>> /\ Take(1) /\ other' = "idle"
    <3>1. 1 \in 0 .. Len(queue) BY <1>0, <2>3
    <3>2. /\ taken' \in Seq(Event) /\ queue' \in Seq(Event)
          /\ EventsInOrder' /\ DoneInv'
      BY <2>1, <2>3, <3>1, TakingKeeps
    <3> QED BY <2>1, <2>3, <3>2 DEF ChannelTypeOK, SimulateOnlyAfterDone
  <2> QED BY <1>6, <2>2, <2>3 DEF OtherWait
<1>7. CASE UNCHANGED channelVars
  BY <1>7
  DEF channelVars, DeliveryInv, DeliveredInOrder, ChannelTypeOK,
      EventsInOrder, SimulateOnlyAfterDone,
      DoneInv
<1> QED BY <1>1, <1>2, <1>3, <1>4, <1>5, <1>6, <1>7
        DEF ChannelNext, Simulate, Quiet

(* The inductive invariant holds throughout.                               *)
LEMMA DeliveryInvariant ==
  ChannelSpec => []DeliveryInv
<1>1. ChannelInit => DeliveryInv
  BY FollowsEvents, CapAssumption
  DEF ChannelInit, LifecycleInit, DeliveryInv,
      DeliveredInOrder, ChannelTypeOK, EventsInOrder,
      SimulateOnlyAfterDone, DoneInv
<1>2. DeliveryInv /\ [ChannelNext]_channelVars => DeliveryInv'
  BY DeliveryStep
<1> QED BY <1>1, <1>2, PTL DEF ChannelSpec

(* Coroutines get the events in the order in which newState sent them, and *)
(* simulate() returns only after the end of the simulation, whoever else   *)
(* waits on the queue and whenever the reading task dies.                  *)
THEOREM DeliveryCorrect ==
  ChannelSpec => []DeliveredInOrder
<1>1. DeliveryInv => DeliveredInOrder
  BY DEF DeliveryInv
<1> QED BY <1>1, DeliveryInvariant, PTL

(* Every variable of the event loop layer keeps its type, and the socket   *)
(* never holds more than it buffers.                                       *)
THEOREM ChannelTypeCorrect ==
  ChannelSpec => []ChannelTypeOK
<1>1. DeliveryInv => ChannelTypeOK
  BY DEF DeliveryInv
<1> QED BY <1>1, DeliveryInvariant, PTL

-----------------------------------------------------------------------------
(* RealTimeTimer: ticks, overruns and the wall clock, for any interval     *)

(* A quotient is a natural number that, multiplied back, is not too large. *)
LEMMA Quotient ==
  ASSUME NEW a \in Nat, NEW b \in Nat \ {0}
  PROVE  a \div b \in Nat /\ (a \div b) * b <= a /\ a \div b <= a
OBVIOUS

(* The quotient rounded up is at most the dividend.                        *)
LEMMA QuotientUp ==
  ASSUME NEW a \in Nat \ {0}, NEW b \in Nat \ {0}
  PROVE  (a + b - 1) \div b <= a
<1>1. a + b - 1 <= a * b
  OBVIOUS
<1>2. ASSUME NEW x \in Nat, x <= a * b PROVE x \div b <= a
  BY <1>2
<1> QED BY <1>1, <1>2

(* Two intervals fewer.                                                    *)
LEMMA TwoFewer ==
  ASSUME NEW m \in Int, NEW i \in Int
  PROVE  (m - 1) * i = (m + 1) * i - 2 * i
OBVIOUS

(* The numbers an unsigned difference of ticks and its signed reading are. *)
LEMMA SignedTicks ==
  ASSUME NEW ticks \in Nat, ticks - 1 <= MaxNow
  PROVE  LET overruns == (ticks - 1) % Word
         IN (IF overruns >= Word \div 2 THEN overruns - Word ELSE overruns) = ticks - 1
<1> USE TimerAssumption
<1>1. Word \in Nat \ {0} /\ Word \div 2 \in Nat /\ Word \div 2 <= Word
  OBVIOUS
<1>2. CASE ticks = 0
  <2>1. (ticks - 1) % Word = Word - 1 BY <1>1, <1>2
  <2>2. Word - 1 >= Word \div 2 OBVIOUS
  <2> QED BY <1>1, <1>2, <2>1, <2>2
<1>3. CASE ticks > 0
  <2>1. (ticks - 1) % Word = ticks - 1 BY <1>1, <1>3
  <2> QED BY <1>1, <1>3, <2>1
<1> QED BY <1>2, <1>3

(* The types of the counters and of the clock.                             *)
CountersOK ==
  /\ build \in {"timerfd", "fallback"}
  /\ now \in Nat /\ now <= MaxNow /\ start \in Nat
  /\ mNextTick \in Nat /\ read \in Nat /\ mTicks \in Nat /\ mOverruns \in Int
  /\ sleeps \in Nat

(* How the counters hang together: before Timer::start nothing is counted; *)
(* with timerfd every expiration read is a tick, and every sleep reads at  *)
(* least one; the fallback's next tick is one interval after the last      *)
(* tick it counted.                                                        *)
TicksInv ==
  /\ pc = "start" => sleeps = 0 /\ mTicks = 0 /\ read = 0 /\ mOverruns = 0
  /\ build = "timerfd" => mTicks = read /\ sleeps <= mTicks
  /\ build = "fallback" /\ pc # "start" => mNextTick = start + (mTicks + 1) * Interval

ClockInv == CountersOK /\ TicksInv /\ OverrunsAccountForLag

(* What Timer::sleep does to the counters when ticks have passed.          *)
LEMMA SleepCounts ==
  ASSUME CountersOK, TicksInv, OverrunsAccountForLag, LoopAgain,
         NEW ticks \in Nat, ticks - 1 <= MaxNow, Account(ticks)
  PROVE  /\ mTicks' = mTicks + ticks /\ mTicks' \in Nat
         /\ mOverruns' \in Int /\ sleeps' = sleeps + 1
         /\ mTicks' = sleeps' + mOverruns'
<1>1. mOverruns' = mOverruns + (ticks - 1)
  BY SignedTicks DEF Account
<1> QED BY <1>1 DEF Account, LoopAgain, CountersOK, OverrunsAccountForLag

(* Every step keeps the counters and the clock together.                   *)
LEMMA ClockStep ==
  ASSUME ClockInv, [TimerNext]_timerVars
  PROVE  ClockInv'
<1> USE TimerAssumption DEF ClockInv
<1>1. CASE Tick BY <1>1 DEF Tick, CountersOK, TicksInv, OverrunsAccountForLag
<1>2. CASE StartTimer
  <2>1. mNextTick' = start' + (mTicks' + 1) * Interval
    BY <1>2 DEF StartTimer, CountersOK
  <2> QED BY <1>2, <2>1 DEF StartTimer, CountersOK, TicksInv, OverrunsAccountForLag
<1>3. CASE Step BY <1>3 DEF Step, CountersOK, TicksInv, OverrunsAccountForLag
<1>4. CASE SleepTimerfd
  <2> DEFINE q == (now - start) \div Interval
             e == q + 1
  <2>1. now >= start /\ Expirations = e
    BY <1>4 DEF SleepTimerfd, Expirations, CountersOK
  <2>2. e \in Nat /\ (e - 1) * Interval <= now - start /\ e - 1 <= MaxNow
    <3>1. now - start \in Nat BY <2>1 DEF CountersOK
    <3>2. q \in Nat /\ q * Interval <= now - start /\ q <= now - start
      BY <3>1, Quotient
    <3> HIDE DEF q
    <3>3. e - 1 = q /\ e \in Nat BY <3>2
    <3>4. (e - 1) * Interval <= now - start BY <3>2, <3>3
    <3>5. e - 1 <= MaxNow BY <3>2, <3>3 DEF CountersOK
    <3> QED BY <3>3, <3>4, <3>5
  <2> HIDE DEF e, q
  <2>3. e - read \in Nat \ {0} /\ (e - read) - 1 <= MaxNow /\ read \in Nat
    BY <1>4, <2>1, <2>2 DEF SleepTimerfd, CountersOK
  <2>4. Account(e - read) /\ LoopAgain /\ read' = e /\ UNCHANGED mNextTick
    BY <1>4, <2>1 DEF SleepTimerfd
  <2>5. /\ mTicks' = mTicks + (e - read) /\ mTicks' \in Nat
        /\ mOverruns' \in Int /\ sleeps' = sleeps + 1
        /\ mTicks' = sleeps' + mOverruns'
    BY <2>3, <2>4, SleepCounts
  <2>6. build = "timerfd" /\ mTicks = read /\ sleeps <= mTicks
    BY <1>4 DEF SleepTimerfd, TicksInv
  <2>7. mTicks' = e /\ sleeps' <= mTicks'
    <3>1. e \in Nat /\ e > read BY <2>2, <2>3
    <3>2. mTicks \in Nat /\ sleeps \in Nat BY DEF CountersOK
    <3>3. mTicks' = e BY <2>5, <2>6, <3>1, <3>2
    <3>4. sleeps + 1 <= e BY <2>6, <3>1, <3>2
    <3> QED BY <2>5, <3>3, <3>4
  <2>8. pc' # "start" /\ UNCHANGED <<build, now, start>>
    BY <2>4 DEF LoopAgain
  <2>9. CountersOK'
    BY <2>2, <2>4, <2>5, <2>8 DEF CountersOK
  <2>10. TicksInv'
    BY <2>4, <2>6, <2>7, <2>8 DEF TicksInv
  <2>11. OverrunsAccountForLag'
    <3>1. start + (e - 1) * Interval <= now
      <4> DEFINE x == (e - 1) * Interval
      <4>1. x \in Int BY <2>2
      <4>2. x <= now - start BY <2>2
      <4> HIDE DEF x
      <4>3. start + x <= now BY <4>1, <4>2 DEF CountersOK
      <4> QED BY <4>3 DEF x
    <3> QED BY <2>5, <2>7, <2>8, <3>1 DEF OverrunsAccountForLag
  <2> QED BY <2>9, <2>10, <2>11
<1>5. CASE SleepFallback
  <2> DEFINE k == FallbackTicks
  <2>0. mNextTick = start + (mTicks + 1) * Interval
    BY <1>5 DEF SleepFallback, TicksInv
  <2>1. k \in Nat /\ k * Interval <= (now - mNextTick) + Interval - 1 /\ k <= MaxNow
    <3>1. CASE mNextTick < now
      <4> DEFINE d == now - mNextTick
      <4>1. d \in Nat \ {0} /\ d <= MaxNow BY <3>1 DEF CountersOK
      <4>2. k = (d + Interval - 1) \div Interval
        BY <3>1 DEF FallbackTicks
      <4> HIDE DEF d, k
      <4>3. d + Interval - 1 \in Nat BY <4>1
      <4>4. k \in Nat /\ k * Interval <= d + Interval - 1
        BY <4>2, <4>3, Quotient
      <4>5. k <= d BY <4>1, <4>2, QuotientUp
      <4> QED BY <4>1, <4>4, <4>5 DEF d
    <3>2. CASE ~(mNextTick < now)
      <4>1. k = 0 /\ now = mNextTick
        BY <1>5, <3>2 DEF FallbackTicks, SleepFallback, CountersOK
      <4> QED BY <4>1 DEF CountersOK
    <3> QED BY <3>1, <3>2
  <2>2. Account(k) /\ LoopAgain /\ mNextTick' = mNextTick + k * Interval /\ UNCHANGED read
    BY <1>5 DEF SleepFallback
  <2> HIDE DEF k
  <2>3. /\ mTicks' = mTicks + k /\ mTicks' \in Nat
        /\ mOverruns' \in Int /\ sleeps' = sleeps + 1
        /\ mTicks' = sleeps' + mOverruns'
    BY <2>1, <2>2, SleepCounts
  <2>4. pc' # "start" /\ UNCHANGED <<build, now, start>> /\ build = "fallback"
    BY <1>5, <2>2 DEF LoopAgain, SleepFallback
  <2>5. CountersOK'
    BY <2>1, <2>2, <2>3, <2>4 DEF CountersOK
  <2>6. mNextTick' = start' + (mTicks' + 1) * Interval
    BY <2>0, <2>1, <2>2, <2>3, <2>4 DEF CountersOK
  <2>7. TicksInv'
    BY <2>4, <2>6 DEF TicksInv
  <2>8. start' + (mTicks' - 1) * Interval <= now'
    <3>1. mNextTick' <= now + Interval - 1
      <4> DEFINE x == k * Interval
      <4>1. x \in Int /\ x <= (now - mNextTick) + Interval - 1 /\ mNextTick' = mNextTick + x
        BY <2>1, <2>2
      <4> HIDE DEF x
      <4> QED BY <4>1 DEF CountersOK
    <3> DEFINE x == (mTicks' - 1) * Interval
               y == (mTicks' + 1) * Interval
    <3>2. x \in Int /\ y \in Int /\ x = y - 2 * Interval
      BY <2>3, TwoFewer
    <3>3. mNextTick' = start' + y
      BY <2>6
    <3> HIDE DEF x, y
    <3>4. start' + x <= now'
      BY <2>4, <2>5, <3>1, <3>2, <3>3 DEF CountersOK
    <3> QED BY <3>4 DEF x
  <2> QED BY <2>3, <2>5, <2>7, <2>8 DEF OverrunsAccountForLag
<1>6. CASE Stop BY <1>6 DEF Stop, CountersOK, TicksInv, OverrunsAccountForLag
<1>7. CASE UNCHANGED timerVars
  BY <1>7 DEF timerVars, CountersOK, TicksInv, OverrunsAccountForLag
<1> QED BY <1>1, <1>2, <1>3, <1>4, <1>5, <1>6, <1>7 DEF TimerNext, Run, Finished

(* Simulated time and overruns follow the wall clock, and with timerfd the *)
(* simulation is never ahead of it.                                        *)
THEOREM ClockCorrect ==
  TimerSpec => []ClockKept
<1>1. TimerInit => ClockInv
  BY TimerAssumption DEF TimerInit, ClockInv, CountersOK, TicksInv, OverrunsAccountForLag
<1>2. ClockInv => ClockKept
  <2> SUFFICES ASSUME ClockInv, build = "timerfd", sleeps > 0
               PROVE  now >= start + (sleeps - 1) * Interval
    BY DEF ClockInv, ClockKept, NeverAhead
  <2> USE TimerAssumption DEF ClockInv, CountersOK
  <2>1. sleeps <= mTicks /\ start + (mTicks - 1) * Interval <= now
    BY DEF TicksInv, OverrunsAccountForLag
  <2>2. (sleeps - 1) * Interval <= (mTicks - 1) * Interval
    BY <2>1
  <2> DEFINE x == (sleeps - 1) * Interval
             y == (mTicks - 1) * Interval
  <2>3. x \in Int /\ y \in Int OBVIOUS
  <2>4. x <= y /\ start + y <= now BY <2>1, <2>2
  <2> HIDE DEF x, y
  <2>5. now >= start + x BY <2>3, <2>4
  <2> QED BY <2>5 DEF x
<1>3. ClockInv /\ [TimerNext]_timerVars => ClockInv'
  BY ClockStep
<1> QED BY <1>1, <1>2, <1>3, PTL DEF TimerSpec
=============================================================================
