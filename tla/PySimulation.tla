---------------------------- MODULE PySimulation ----------------------------
(***************************************************************************)
(* The life cycle of dpsim.Simulation, the Python binding of the solver    *)
(* (Source/Python/Simulation.cpp): the API functions start, step, pause,   *)
(* stop and the destructor on one side, threadFunction, which runs the     *)
(* time steps on a std::thread, on the other.  They share the atomic       *)
(* `state`, the plain flag `singleStepping`, the mutex `mut`, the          *)
(* condition variable `cond` and the event channel.                        *)
(*                                                                         *)
(* An API function keeps the GIL while it waits on `cond`, so one process, *)
(* Caller, stands for all Python threads, and nobody reads the event       *)
(* socket while a call is in progress.  Nothing prevents a second          *)
(* std::thread: Threads are slots, a slot is reused once its thread ended. *)
(*                                                                         *)
(* Time is counted in time steps.  A critical section that sends an event  *)
(* is two actions, lock and send, because the send may block on a full     *)
(* socket with the mutex held.  The variable `state` is that of            *)
(* SimulationLifecycle, the abstract order of states.                      *)
(***************************************************************************)
EXTENDS SimulationLifecycle, Naturals, FiniteSets

CONSTANTS
  Threads,            \* slots for simulation threads
  Caller,             \* the Python thread that holds the GIL
  None,               \* nobody holds the mutex / no thread created yet
  Ops,                \* the API functions this client uses
  Careful,            \* the client follows the discipline of MayCall
  FinalTime,          \* duration in time steps
  CountCap,           \* bound: the step counter saturates here
  ChanCap,            \* events the socket buffers before send() blocks
  MaxFds,             \* bound: how often the client registers its socket
  RealTime,           \* argument rt
  FailOnOverrun,      \* argument fail_on_overrun
  ArgSingleStepping,  \* argument single_stepping
  ArgStartSync        \* argument start_sync

AllOps == {"start", "step", "pause", "stop", "get", "dealloc"}

ASSUME ProcAssumption ==
  /\ Caller \notin Threads /\ None \notin Threads /\ None # Caller
ASSUME OpsAssumption == Ops \subseteq AllOps
ASSUME NatAssumption ==
  /\ FinalTime \in Nat /\ CountCap \in Nat \ {0}
  /\ ChanCap \in Nat /\ MaxFds \in Nat
ASSUME ArgAssumption ==
  /\ Careful \in BOOLEAN /\ RealTime \in BOOLEAN /\ FailOnOverrun \in BOOLEAN
  /\ ArgSingleStepping \in BOOLEAN /\ ArgStartSync \in BOOLEAN

VARIABLES
  singleStepping,  \* plain bool, read by the thread without the mutex
  startSync,
  mut,             \* the process that holds the mutex, or None
  waiters,         \* processes blocked in cond->wait
  thread,          \* the thread self->thread points to, or None
  tpc,             \* control of each simulation thread
  time,            \* threadFunction's local variable `time`
  count,           \* sim->timeStepCount(): the shared simulation object
  opened,          \* the interfaces of sim are open
  cpc, call,       \* control of the caller, and the function it is in
  raised,          \* the last API function set a Python exception
  fds, pending,    \* registrations in the channel, unread events
  freed,           \* dealloc has run to its end
  budget           \* history: time steps the last step() still entitles to

simVars    == <<startSync, thread, freed>>
callerVars == <<cpc, call, raised>>
vars == <<state, singleStepping, startSync, mut, waiters, thread, tpc, time,
          count, opened, cpc, call, raised, fds, pending, freed, budget>>

(* enum class State *)
State == {"stopped", "starting", "running", "pausing", "paused", "resuming",
          "stopping", "failed", "overrun", "done"}

Procs == Threads \union {Caller}

ThreadPC == {"none", "open", "sync", "loop", "step", "sleep",
             "overrun_lock", "overrun", "first", "first_lock", "running",
             "check", "pause_lock", "paused", "parked", "wait", "resumed",
             "stop_check", "stop_lock", "stopped", "done_lock", "done", "close"}

CallerPC == {"idle", "lock", "body", "recheck", "wait", "join"}

Unlimited == 2

----------------------------------------------------------------------------
(* Mutant of NewState: every event is sent twice, room or not.            *)
NewStateTwice(s) == pending' = pending + 2 * fds /\ state' = s

(* newState: the event goes to every registered descriptor, a send on a   *)
(* full socket blocks, then the state is stored.  The sockets stay open:  *)
(* a send that fails throws, through the thread's or the interpreter's    *)
(* stack, and ends the process.                                           *)
NewState(s) ==
  /\ pending + fds <= ChanCap
  /\ pending' = pending + fds
  /\ state' = s

(* cond->notify_one(): one waiter, if there is one, leaves the wait set.  *)
NotifyOne(W) == IF W = {} THEN {{}} ELSE {W \ {p} : p \in W}

(* Mutant of Block: waits without releasing the mutex.                    *)
BlockHolding(p) == waiters' = waiters \union {p} /\ UNCHANGED mut

(* cond->wait(lk) releases the mutex and joins the wait set.              *)
Block(p) == mut' = None /\ waiters' = waiters \union {p}

Acquire(p) == mut = None /\ mut' = p

Goto(t, pc) == tpc' = [tpc EXCEPT ![t] = pc]

Live(t) == tpc[t] # "none"

----------------------------------------------------------------------------
(* newfunc and init.  The format string stores the argument               *)
(* single_stepping in `ss` and start_sync in `st`, and init then assigns  *)
(* startSync = ss and singleStepping = st.                                *)
Init ==
  /\ state = "stopped"
  /\ startSync = ArgSingleStepping
  /\ singleStepping = ArgStartSync
  /\ mut = None /\ waiters = {} /\ thread = None
  /\ tpc = [t \in Threads |-> "none"]
  /\ time = [t \in Threads |-> 0]
  /\ count = 0 /\ opened = FALSE
  /\ cpc = "idle" /\ call = "get" /\ raised = FALSE
  /\ fds = 0 /\ pending = 0
  /\ freed = FALSE
  /\ budget = Unlimited

(* std::thread(threadFunction, self), in the slot t.                      *)
Spawn(t) ==
  /\ ~Live(t)
  /\ thread' = t
  /\ Goto(t, "open")

----------------------------------------------------------------------------
(* threadFunction                                                         *)

ThreadFrame == UNCHANGED <<singleStepping, simVars, callerVars, fds>>

(* A step of thread t that touches nothing shared but its control.        *)
LocalStep(t, pc) ==
  /\ Goto(t, pc)
  /\ UNCHANGED <<state, mut, waiters, pending>>

Open(t) ==
  /\ tpc[t] = "open"
  /\ opened' = TRUE
  /\ time' = [time EXCEPT ![t] = 0]
  /\ LocalStep(t, IF startSync THEN "sync" ELSE "loop")
  /\ ThreadFrame /\ UNCHANGED <<count, budget>>

(* sim->sync() returns when every peer has sent its first sample.         *)
Sync(t) ==
  /\ tpc[t] = "sync"
  /\ LocalStep(t, "loop")
  /\ ThreadFrame /\ UNCHANGED <<time, count, opened, budget>>

(* while (time < finalTime)                                               *)
Loop(t) ==
  /\ tpc[t] = "loop"
  /\ LocalStep(t, IF time[t] < FinalTime THEN "step" ELSE "done_lock")
  /\ ThreadFrame /\ UNCHANGED <<time, count, opened, budget>>

(* Mutant of SimStep: the result of step() is not assigned to time.       *)
SimStepKeepsTime(t) ==
  /\ tpc[t] = "step"
  /\ count' = IF count < CountCap THEN count + 1 ELSE count
  /\ budget' = IF budget = 1 THEN 0 ELSE budget
  /\ LocalStep(t, IF RealTime THEN "sleep" ELSE "first")
  /\ ThreadFrame /\ UNCHANGED <<opened, time>>

(* time = sim->step(): one time step of the shared simulation object.     *)
SimStep(t) ==
  /\ tpc[t] = "step"
  /\ count' = IF count < CountCap THEN count + 1 ELSE count
  /\ time' = [time EXCEPT ![t] = count']
  /\ budget' = IF budget = 1 THEN 0 ELSE budget
  /\ LocalStep(t, IF RealTime THEN "sleep" ELSE "first")
  /\ ThreadFrame /\ UNCHANGED opened

(* timer.sleep() returns in time or throws OverrunException.              *)
Sleep(t) ==
  /\ tpc[t] = "sleep"
  /\ \E pc \in {"first", "overrun_lock"} : LocalStep(t, pc)
  /\ ThreadFrame /\ UNCHANGED <<time, count, opened, budget>>

(* if (timeStepCount() == 1)                                              *)
CheckFirst(t) ==
  /\ tpc[t] = "first"
  /\ LocalStep(t, IF count = 1 THEN "first_lock" ELSE "check")
  /\ ThreadFrame /\ UNCHANGED <<time, count, opened, budget>>

(* Mutant of CheckPause: singleStepping is not looked at.                 *)
CheckPauseOnly(t) ==
  /\ tpc[t] = "check"
  /\ LocalStep(t, IF state = "pausing" THEN "pause_lock" ELSE "stop_check")
  /\ ThreadFrame /\ UNCHANGED <<time, count, opened, budget>>

(* if (state == pausing || singleStepping), read without the mutex.       *)
CheckPause(t) ==
  /\ tpc[t] = "check"
  /\ LocalStep(t, IF state = "pausing" \/ singleStepping
                  THEN "pause_lock" ELSE "stop_check")
  /\ ThreadFrame /\ UNCHANGED <<time, count, opened, budget>>

(* if (state == stopping), read without the mutex.                        *)
CheckStop(t) ==
  /\ tpc[t] = "stop_check"
  /\ LocalStep(t, IF state = "stopping" THEN "stop_lock" ELSE "loop")
  /\ ThreadFrame /\ UNCHANGED <<time, count, opened, budget>>

(* Mutant of AfterLock: `if` in place of `while` around cond->wait.       *)
AfterLockIf(pc) ==
  CASE pc = "overrun_lock" -> "overrun"
    [] pc = "first_lock"   -> "running"
    [] pc = "pause_lock"   -> "paused"
    [] pc = "stop_lock"    -> "stopped"
    [] pc = "done_lock"    -> "done"
    [] pc = "wait"         -> "resumed"

(* Where a thread goes once it has the mutex: the five unique_locks of    *)
(* threadFunction, and the return from cond->wait.                        *)
AfterLock(pc) ==
  CASE pc = "overrun_lock" -> "overrun"
    [] pc = "first_lock"   -> "running"
    [] pc = "pause_lock"   -> "paused"
    [] pc = "stop_lock"    -> "stopped"
    [] pc = "done_lock"    -> "done"
    [] pc = "wait"         -> "parked"

ThreadLock(t) ==
  /\ tpc[t] \in {"overrun_lock", "first_lock", "pause_lock", "stop_lock",
                 "done_lock", "wait"}
  /\ t \notin waiters
  /\ Acquire(t)
  /\ Goto(t, AfterLock(tpc[t]))
  /\ UNCHANGED <<state, waiters, pending>>
  /\ ThreadFrame /\ UNCHANGED <<time, count, opened, budget>>

(* Mutant of Announce: no notify_one.                                     *)
AnnounceSilent(t, s, pc) ==
  NewState(s) /\ mut' = None /\ Goto(t, pc) /\ UNCHANGED waiters

(* newState(s); notify_one(); and the end of the lock's scope.            *)
Announce(t, s, pc) ==
  /\ NewState(s)
  /\ waiters' \in NotifyOne(waiters)
  /\ mut' = None
  /\ Goto(t, pc)

Overrun(t) ==
  /\ tpc[t] = "overrun"
  /\ IF FailOnOverrun
     THEN Announce(t, "overrun", "first")
     ELSE mut' = None /\ Goto(t, "first") /\ UNCHANGED <<state, waiters, pending>>
  /\ ThreadFrame /\ UNCHANGED <<time, count, opened, budget>>

Running(t) ==
  /\ tpc[t] = "running"
  /\ Announce(t, "running", "check")
  /\ ThreadFrame /\ UNCHANGED <<time, count, opened, budget>>

(* newState(paused); notify_one(); the lock is kept.                      *)
Pause(t) ==
  /\ tpc[t] = "paused"
  /\ NewState("paused")
  /\ waiters' \in NotifyOne(waiters)
  /\ Goto(t, "parked")
  /\ UNCHANGED mut
  /\ ThreadFrame /\ UNCHANGED <<time, count, opened, budget>>

(* while (state == paused) cond->wait(lk)                                 *)
Park(t) ==
  /\ tpc[t] = "parked"
  /\ IF state = "paused"
     THEN Block(t) /\ Goto(t, "wait")
     ELSE Goto(t, "resumed") /\ UNCHANGED <<mut, waiters>>
  /\ UNCHANGED <<state, pending>>
  /\ ThreadFrame /\ UNCHANGED <<time, count, opened, budget>>

(* Mutant of Resume: a thread that leaves the loop always runs on.        *)
ResumeAlways(t) ==
  /\ tpc[t] = "resumed"
  /\ Announce(t, "running", "stop_check")
  /\ ThreadFrame /\ UNCHANGED <<time, count, opened, budget>>

(* if (state == resuming) newState(running), notify; end of the scope.    *)
Resume(t) ==
  /\ tpc[t] = "resumed"
  /\ IF state = "resuming"
     THEN Announce(t, "running", "stop_check")
     ELSE mut' = None /\ Goto(t, "stop_check") /\ UNCHANGED <<state, waiters, pending>>
  /\ ThreadFrame /\ UNCHANGED <<time, count, opened, budget>>

(* newState(stopped), notify, return: no close and no flush on this path. *)
Stopped(t) ==
  /\ tpc[t] = "stopped"
  /\ Announce(t, "stopped", "none")
  /\ ThreadFrame /\ UNCHANGED <<time, count, opened, budget>>

Done(t) ==
  /\ tpc[t] = "done"
  /\ Announce(t, "done", "close")
  /\ ThreadFrame /\ UNCHANGED <<time, count, opened, budget>>

(* Interfaces are closed, loggers flushed, the thread ends.               *)
Close(t) ==
  /\ tpc[t] = "close"
  /\ opened' = FALSE
  /\ LocalStep(t, "none")
  /\ ThreadFrame /\ UNCHANGED <<time, count, budget>>

ThreadFunction(t) ==
  \/ Open(t) \/ Sync(t) \/ Loop(t) \/ SimStep(t) \/ Sleep(t) \/ Overrun(t)
  \/ CheckFirst(t) \/ Running(t) \/ CheckPause(t) \/ Pause(t) \/ Park(t)
  \/ Resume(t) \/ CheckStop(t) \/ Stopped(t) \/ Done(t) \/ Close(t)
  \/ ThreadLock(t)

----------------------------------------------------------------------------
(* The API functions                                                      *)

CallerFrame == UNCHANGED <<startSync, time, count, opened, fds>>

(* The discipline of a careful client, the one the example scripts        *)
(* follow: it waits for a transition it requested (after step(), until    *)
(* the simulation has paused or ended) and reads its events before the    *)
(* next call, and it does not restart a simulation it stopped.            *)
MayCall(op) ==
  Careful =>
    /\ state \in {"stopped", "running", "paused", "done"}
    /\ singleStepping => state # "running"
    /\ state = "stopped" /\ count > 0 => op \notin {"start", "step"}
    /\ pending = 0

Call(op) ==
  /\ cpc = "idle" /\ ~freed
  /\ MayCall(op)
  /\ call' = op
  /\ cpc' = IF op = "dealloc" /\ thread = None THEN "join" ELSE "lock"
  /\ UNCHANGED <<raised, state, singleStepping, mut, waiters, thread, tpc,
                 pending, freed, budget>>
  /\ CallerFrame

(* std::unique_lock at the head of each function, and the return from     *)
(* cond->wait.                                                            *)
CallerLock ==
  /\ cpc \in {"lock", "wait"}
  /\ Caller \notin waiters
  /\ Acquire(Caller)
  /\ cpc' = IF cpc = "lock" THEN "body" ELSE "recheck"
  /\ UNCHANGED <<call, raised, state, singleStepping, waiters, thread, tpc,
                 pending, freed, budget>>
  /\ CallerFrame

(* A function returns to Python; stop() called by dealloc returns to it.  *)
Return(err) ==
  /\ mut' = None
  /\ cpc' = IF call = "dealloc" THEN "join" ELSE "idle"
  /\ raised' = err

(* Mutant of Request: no notify_one.                                      *)
RequestSilent(s) ==
  NewState(s) /\ cpc' = "recheck" /\ UNCHANGED <<mut, raised, waiters>>

(* newState(s), notify_one, and on to the waiting loop.                   *)
Request(s) ==
  /\ NewState(s)
  /\ waiters' \in NotifyOne(waiters)
  /\ cpc' = "recheck"
  /\ UNCHANGED <<mut, raised>>

Refuse == Return(TRUE) /\ UNCHANGED <<state, waiters, pending, thread, tpc>>

InBody(op) == cpc = "body" /\ call = op

(* Mutant of StartBody: start() after the end starts the simulation anew. *)
StartBodyAfterDone ==
  /\ InBody("start")
  /\ singleStepping' = FALSE
  /\ budget' = Unlimited
  /\ \/ state = "running" /\ Refuse
     \/ state = "paused" /\ Request("resuming") /\ UNCHANGED <<thread, tpc>>
     \/ /\ state \notin {"running", "paused"}
        /\ Request("starting")
        /\ \E t \in Threads : Spawn(t)
  /\ UNCHANGED <<call, freed>> /\ CallerFrame

StartBody ==
  /\ InBody("start")
  /\ singleStepping' = FALSE
  /\ budget' = Unlimited
  /\ \/ state \in {"running", "done"} /\ Refuse
     \/ state = "paused" /\ Request("resuming") /\ UNCHANGED <<thread, tpc>>
     \/ /\ state \notin {"running", "done", "paused"}
        /\ Request("starting")
        /\ \E t \in Threads : Spawn(t)
  /\ UNCHANGED <<call, freed>> /\ CallerFrame

StepBody ==
  /\ InBody("step")
  /\ singleStepping' = TRUE
  /\ \/ /\ state = "stopped"
        /\ Request("starting")
        /\ \E t \in Threads : Spawn(t)
        /\ budget' = 1
     \/ /\ state = "paused"
        /\ Request("resuming")
        /\ budget' = 1
        /\ UNCHANGED <<thread, tpc>>
     \/ state \notin {"stopped", "paused"} /\ Refuse /\ UNCHANGED budget
  /\ UNCHANGED <<call, freed>> /\ CallerFrame

PauseBody ==
  /\ InBody("pause")
  /\ \/ state # "running" /\ Refuse
     \/ state = "running" /\ Request("pausing") /\ UNCHANGED <<thread, tpc>>
  /\ UNCHANGED <<call, freed, singleStepping, budget>> /\ CallerFrame

(* stop(), which dealloc calls too; dealloc ignores its exception.        *)
StopBody ==
  /\ InBody("stop") \/ InBody("dealloc")
  /\ \/ state \notin {"running", "paused"} /\ Refuse
     \/ state \in {"running", "paused"} /\ Request("stopping")
        /\ UNCHANGED <<thread, tpc>>
  /\ UNCHANGED <<call, freed, singleStepping, budget>> /\ CallerFrame

(* getState, name, steps, time and finalTime read under the mutex.        *)
GetBody ==
  /\ InBody("get")
  /\ Return(FALSE)
  /\ UNCHANGED <<call, freed, singleStepping, budget, state, waiters, pending,
                 thread, tpc>>
  /\ CallerFrame

(* The condition of the waiting loop that ends each function.             *)
MustWait(op) ==
  CASE op = "start" -> state # "running"
    [] op = "step"  -> state = "running"
    [] op = "pause" -> state # "paused"
    [] op \in {"stop", "dealloc"} -> state # "stopped"
    [] op = "get"   -> FALSE

Recheck ==
  /\ cpc = "recheck"
  /\ \/ MustWait(call) /\ Block(Caller) /\ cpc' = "wait" /\ UNCHANGED raised
     \/ ~MustWait(call) /\ Return(FALSE) /\ UNCHANGED waiters
  /\ UNCHANGED <<call, freed, singleStepping, budget, state, pending, thread, tpc>>
  /\ CallerFrame

(* Mutant of Dealloc: no join.                                            *)
DeallocNoJoin ==
  /\ cpc = "join"
  /\ freed' = TRUE
  /\ cpc' = "idle"
  /\ UNCHANGED <<call, raised, singleStepping, budget, state, mut, waiters,
                 pending, thread, tpc>>
  /\ CallerFrame

(* dealloc: thread->join(), then everything is deleted.                   *)
Dealloc ==
  /\ cpc = "join"
  /\ thread # None => ~Live(thread)
  /\ freed' = TRUE
  /\ cpc' = "idle"
  /\ UNCHANGED <<call, raised, singleStepping, budget, state, mut, waiters,
                 pending, thread, tpc>>
  /\ CallerFrame

(* add_eventfd and remove_eventfd, which take no lock.  A careful client  *)
(* is the Python class: it registers its socket in the constructor,       *)
(* before any thread exists.                                              *)
AddEventFD ==
  /\ cpc = "idle" /\ ~freed /\ (Careful => thread = None)
  /\ fds < MaxFds
  /\ fds' = fds + 1
  /\ UNCHANGED <<state, singleStepping, simVars, mut, waiters, tpc, time, count,
                 opened, callerVars, pending, budget>>

RemoveEventFD ==
  /\ cpc = "idle" /\ ~freed /\ (Careful => thread = None)
  /\ fds > 0
  /\ fds' = 0
  /\ UNCHANGED <<state, singleStepping, simVars, mut, waiters, tpc, time, count,
                 opened, callerVars, pending, budget>>

(* The event loop of the client reads one event: needs the GIL.           *)
ReadEvent ==
  /\ cpc = "idle" /\ pending > 0
  /\ pending' = pending - 1
  /\ UNCHANGED <<state, singleStepping, simVars, mut, waiters, tpc, time, count,
                 opened, callerVars, fds, budget>>

(* A condition variable may wake a waiter that nobody notified.           *)
SpuriousWakeup(p) ==
  /\ p \in waiters
  /\ waiters' = waiters \ {p}
  /\ UNCHANGED <<state, singleStepping, simVars, mut, tpc, time, count, opened,
                 callerVars, fds, pending, budget>>

(* The object is gone and no thread is left.                              *)
Terminated ==
  /\ freed /\ pending = 0
  /\ \A t \in Threads : ~Live(t)
  /\ UNCHANGED vars

CallerStep ==
  \/ CallerLock \/ StartBody \/ StepBody \/ PauseBody \/ StopBody \/ GetBody
  \/ Recheck \/ Dealloc

Next ==
  \/ \E t \in Threads : ThreadFunction(t)
  \/ CallerStep
  \/ \E op \in Ops : Call(op)
  \/ AddEventFD \/ RemoveEventFD \/ ReadEvent
  \/ \E p \in Procs : SpuriousWakeup(p)
  \/ Terminated

Spec == Init /\ [][Next]_vars

(* The operating system runs every thread that can run, sync() and        *)
(* sleep() return, and a client that is idle reads its events.  A process *)
(* that finds the mutex free again and again gets it in the end: strong,  *)
(* because spurious wake-ups of another waiter take it in between.        *)
(* Nothing obliges the client to make a call.                             *)
Fairness ==
  /\ \A t \in Threads : WF_vars(ThreadFunction(t)) /\ SF_vars(ThreadLock(t))
  /\ WF_vars(CallerStep) /\ SF_vars(CallerLock)
  /\ WF_vars(ReadEvent)

FairSpec == Spec /\ Fairness
----------------------------------------------------------------------------
(* Properties                                                             *)

(* Every variable has its type; in particular the socket never holds more *)
(* events than it buffers.                                                *)
TypeOK ==
  /\ state \in State
  /\ singleStepping \in BOOLEAN /\ startSync \in BOOLEAN
  /\ mut \in Procs \union {None}
  /\ waiters \subseteq Procs
  /\ thread \in Threads \union {None}
  /\ tpc \in [Threads -> ThreadPC]
  /\ time \in [Threads -> 0 .. CountCap]
  /\ count \in 0 .. CountCap
  /\ opened \in BOOLEAN
  /\ cpc \in CallerPC /\ call \in AllOps /\ raised \in BOOLEAN
  /\ fds \in 0 .. MaxFds /\ pending \in 0 .. ChanCap
  /\ freed \in BOOLEAN
  /\ budget \in 0 .. Unlimited

(* Control points of threadFunction inside one of its unique_lock scopes. *)
InSection == {"overrun", "running", "paused", "parked", "resumed", "stopped",
              "done"}

(* Mutual exclusion: a process is inside a unique_lock scope exactly when *)
(* it holds the mutex, through every wait, wake-up and early return of    *)
(* threadFunction and the API functions; only a process blocked in        *)
(* cond->wait is in the wait set.                                         *)
LockDiscipline ==
  /\ \A t \in Threads : (mut = t) <=> (tpc[t] \in InSection)
  /\ (mut = Caller) <=> (cpc \in {"body", "recheck"})
  /\ \A t \in Threads : t \in waiters => tpc[t] = "wait"
  /\ Caller \in waiters => cpc = "wait"

(* start() and step() create a thread only when the last one has ended:   *)
(* there is never a second threadFunction stepping the same simulation.   *)
OneThread == \A t, u \in Threads : Live(t) /\ Live(u) => t = u

(* While the state is paused a thread is parked in the waiting loop, and  *)
(* no thread is anywhere else: the simulation stands still until start(), *)
(* step() or stop() is called, and there is someone to react to the call. *)
PausedMeansParked ==
  state = "paused" =>
    /\ \E t \in Threads : Live(t)
    /\ \A t \in Threads : tpc[t] \in {"none", "parked", "wait"}

(* notify_one reaches the process that needs it: whoever is blocked in    *)
(* cond->wait still has to wait for the state it is waiting for.          *)
NoLostWakeup ==
  /\ \A t \in Threads : t \in waiters => state = "paused"
  /\ Caller \in waiters => MustWait(call)

(* An accepted step() makes the thread perform at most one time step      *)
(* before it pauses, whatever is called meanwhile other than start().     *)
StepBudget == \A t \in Threads : tpc[t] = "step" => budget # 0

(* No time step is computed with the interfaces closed.                   *)
InterfacesOpen == \A t \in Threads : tpc[t] = "step" => opened

(* Once dealloc has deleted the mutex, the channel and the simulation, no *)
(* simulation thread that uses them is left.                              *)
NoUseAfterFree == freed => \A t \in Threads : ~Live(t)

(* A client that reads its events between calls never makes newState      *)
(* block in send() with the mutex held.                                   *)
SendNeverBlocks ==
  cpc = "body" \/ (\E t \in Threads : tpc[t] \in InSection \ {"overrun", "parked"})
    => pending + fds <= ChanCap

(* The end of a simulation is final: no call and no other thread moves    *)
(* the state on from done.                                                *)
DoneIsFinal == [][state = "done" => state' = "done"]_state

(* Refinement: the state, and with it the sequence of events, follows the *)
(* published life cycle; no announcement is overtaken by another, although*)
(* thread and caller decide by states they read at different times.       *)
ImplementsLifecycle == LifecycleSpec

InCall(op) == call = op /\ cpc # "idle"

(* Every API call returns.                                                *)
CallReturns == \A op \in AllOps : InCall(op) ~> cpc = "idle"

(* pause() returns: the simulation pauses after the current time step.    *)
PauseReturns == InCall("pause") ~> cpc = "idle"

(* A simulation with a finite duration ends: every thread terminates      *)
(* unless the simulation is paused.                                       *)
RunsToCompletion ==
  \A t \in Threads : Live(t) ~> (~Live(t) \/ state = "paused")
----------------------------------------------------------------------------
(* The inductive invariant behind the safety properties of a careful      *)
(* client, part by part.                                                  *)

Settled == {"stopped", "running", "paused", "done"}

(* Where the last thread stands, and which states that allows.            *)
ThreadInv ==
  /\ \A t \in Threads : Live(t) => thread = t
  /\ state = "stopped" => \A t \in Threads : ~Live(t)
  /\ state = "paused" => /\ thread \in Threads
                         /\ tpc[thread] \in {"parked", "wait"}
  /\ state = "done" => \A t \in Threads : tpc[t] \in {"none", "close"}
  /\ \A t \in Threads :
       /\ tpc[t] = "close" => state = "done"
       /\ tpc[t] \in {"sleep", "overrun_lock", "overrun"} => RealTime
       /\ tpc[t] \notin {"none", "open"} => opened

(* What the caller may count on while it is inside a function.            *)
CallerInv ==
  /\ state = "stopping" => cpc \in {"recheck", "wait"} /\ call \in {"stop", "dealloc"}
  /\ call = "start" /\ cpc \in {"lock", "body"} => state \in Settled
  /\ freed => cpc = "idle" /\ \A t \in Threads : ~Live(t)

(* Where a thread can be that has used up the one step of step().         *)
SpentInv ==
  /\ budget # Unlimited => singleStepping
  /\ budget = 0 => \A t \in Threads :
       \/ tpc[t] \in {"none", "sleep", "overrun_lock", "overrun", "first",
                     "first_lock", "running", "check", "pause_lock", "paused"}
       \/ tpc[t] \in {"parked", "wait"} /\ state \in {"paused", "stopping"}
       \/ tpc[t] \in {"resumed", "stop_check", "stop_lock", "stopped"}
          /\ state = "stopping"

CarefulInv ==
  LockDiscipline /\ ThreadInv /\ CallerInv /\ SpentInv /\ NoLostWakeup
=============================================================================
