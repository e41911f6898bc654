---------------------------- MODULE SwitchedSolver --------------------------
(***************************************************************************)
(* Switching in a simulation with the MNA solver: the event queue          *)
(* (Source/Event.cpp), Simulation::step, which handles the due events and  *)
(* then calls the solver, and the part of MnaSolver that selects the       *)
(* system matrix from the positions of the switches.                       *)
(*                                                                         *)
(* Time is counted in time steps.  A switch position is a Boolean, TRUE    *)
(* for closed; a key of mSwitchedMatrices is the number of its bitset.     *)
(* Matrices are represented by the keys they are stored under.             *)
(***************************************************************************)
EXTENDS Naturals, FiniteSets

CONSTANTS
  NumSwitches,   \* mSwitches.size(), at most SWITCH_NUM
  LastStep,      \* bound: number of time steps
  MaxEvents,     \* bound: number of events the client adds
  Concurrent     \* events are added while the simulation thread runs

ASSUME SizeAssumption ==
  /\ NumSwitches \in 1 .. 32
  /\ LastStep \in Nat /\ MaxEvents \in Nat
ASSUME ConcurrentAssumption == Concurrent \in BOOLEAN

Switches == 0 .. NumSwitches - 1

VARIABLES
  mTime,      \* Simulation::mTime, in time steps
  stepPc,     \* where Simulation::step is
  cur,        \* handleEvents' local variable e
  mEvents,    \* the priority queue
  closed,     \* positions of the switches
  mCurrentSwitchStatus,   \* the positions solve() uses
  matrices,   \* keys of mSwitchedMatrices
  used,       \* history: the status the last solve() looked up
  added,      \* history: every event added so far
  executed    \* history: how often each event was executed

switchVars == <<mTime, stepPc, cur, mEvents, closed, mCurrentSwitchStatus, matrices, used,
                added, executed>>

(* `due` is history: the first step at which the event can be handled.     *)
Event == [id : 1 .. MaxEvents, time : 0 .. LastStep, sw : Switches,
          close : BOOLEAN, due : 0 .. LastStep]

(* std::bitset<SWITCH_NUM>: bit i is the position of switch i.             *)
Key(pos) ==
  CHOOSE n \in 0 .. 2 ^ NumSwitches - 1 :
    \A i \in Switches : ((n \div 2 ^ i) % 2 = 1) <=> pos[i]

Positions == [Switches -> BOOLEAN]

(* createEmptySystemMatrix: one matrix for each i < mSwitches.size() * 2.  *)
CreatedKeys == 0 .. NumSwitches * 2 - 1

(* MnaSolver::initialize: the matrices, then updateSwitchStatus.           *)
SwitchInit ==
  /\ mTime = 0 /\ stepPc = "idle" /\ cur = {}
  /\ mEvents = {} /\ added = {}
  /\ closed = [i \in Switches |-> FALSE]
  /\ mCurrentSwitchStatus = closed
  /\ matrices = CreatedKeys
  /\ used = closed
  /\ executed = [n \in 1 .. MaxEvents |-> 0]

(* Mutant of Top: the comparator the wrong way round.                      *)
TopLatest(Q) == {e \in Q : \A f \in Q : e.time >= f.time}

(* The smallest element under EventComparator, which compares times only.  *)
Top(Q) == {e \in Q : \A f \in Q : e.time <= f.time}

(* EventQueue::addEvent.  The binding calls it without taking the mutex.   *)
AddEvent(time, sw, close) ==
  LET e == [id |-> Cardinality(added) + 1, time |-> time, sw |-> sw,
            close |-> close, due |-> IF time > mTime THEN time ELSE mTime]
  IN
  /\ Concurrent \/ stepPc = "idle"
  /\ Cardinality(added) < MaxEvents
  /\ mEvents' = mEvents \union {e}
  /\ added' = added \union {e}
  /\ UNCHANGED <<mTime, stepPc, cur, closed, mCurrentSwitchStatus, matrices, used, executed>>

Unchanged == UNCHANGED <<matrices, added>>

(* Simulation::run's loop condition, and step() begins.                    *)
BeginStep ==
  /\ stepPc = "idle" /\ mTime < LastStep
  /\ stepPc' = "handle"
  /\ UNCHANGED <<mTime, cur, mEvents, closed, mCurrentSwitchStatus, used, executed>> /\ Unchanged

(* handleEvents: e = top(), or the loop ends.                              *)
HandleTop ==
  /\ stepPc = "handle"
  /\ \/ /\ \A e \in Top(mEvents) : e.time > mTime
        /\ stepPc' = "solve" /\ UNCHANGED cur
     \/ \E e \in Top(mEvents) :
          e.time <= mTime /\ cur' = {e} /\ stepPc' = "execute"
  /\ UNCHANGED <<mTime, mEvents, closed, mCurrentSwitchStatus, used, executed>> /\ Unchanged

(* e->execute(): SwitchEvent opens or closes the switch.                   *)
Execute ==
  /\ stepPc = "execute"
  /\ \E e \in cur :
       /\ closed' = [closed EXCEPT ![e.sw] = e.close]
       /\ executed' = [executed EXCEPT ![e.id] = @ + 1]
  /\ stepPc' = "pop"
  /\ UNCHANGED <<mTime, cur, mEvents, mCurrentSwitchStatus, used>> /\ Unchanged

(* mEvents.pop() removes what is on top now: the event just executed,      *)
(* unless an earlier one has been added in between.                        *)
Pop ==
  /\ stepPc = "pop"
  /\ \E e \in IF cur \subseteq Top(mEvents) THEN cur ELSE Top(mEvents) :
       mEvents' = mEvents \ {e}
  /\ cur' = {} /\ stepPc' = "handle"
  /\ UNCHANGED <<mTime, closed, mCurrentSwitchStatus, used, executed>> /\ Unchanged

(* solve() takes the factorisation stored under mCurrentSwitchStatus.      *)
Solve == used' = mCurrentSwitchStatus

(* Mutant of UpdateSwitchStatus: the positions are not read.               *)
UpdateSwitchStatusNot == UNCHANGED mCurrentSwitchStatus

UpdateSwitchStatus == mCurrentSwitchStatus' = closed

(* MnaSolver::step: the status is updated after solving, for the next      *)
(* step; then mTime advances.                                              *)
SolverStep ==
  /\ stepPc = "solve"
  /\ Solve
  /\ UpdateSwitchStatus
  /\ mTime' = mTime + 1
  /\ stepPc' = "idle"
  /\ UNCHANGED <<cur, mEvents, closed, executed>> /\ Unchanged

Step == BeginStep \/ HandleTop \/ Execute \/ Pop \/ SolverStep

Finished == mTime = LastStep /\ stepPc = "idle" /\ UNCHANGED switchVars

SwitchNext ==
  \/ Step
  \/ \E t \in 0 .. LastStep, i \in Switches, c \in BOOLEAN : AddEvent(t, i, c)
  \/ Finished

SwitchSpec == SwitchInit /\ [][SwitchNext]_switchVars

-----------------------------------------------------------------------------
(* Every variable has its type.                                            *)
TypeOK ==
  /\ mTime \in 0 .. LastStep
  /\ stepPc \in {"idle", "handle", "execute", "pop", "solve"}
  /\ cur \subseteq Event /\ mEvents \subseteq Event /\ added \subseteq Event
  /\ closed \in Positions /\ mCurrentSwitchStatus \in Positions /\ used \in Positions
  /\ matrices \subseteq Nat
  /\ executed \in [1 .. MaxEvents -> Nat]

(* When the solver is called, every event that is due has been executed    *)
(* exactly once and has left the queue, and no other has been executed.    *)
DueEventsDone ==
  stepPc = "solve" =>
    \A e \in added :
      IF e.due <= mTime THEN executed[e.id] = 1 /\ e \notin mEvents
                        ELSE executed[e.id] = 0 /\ e \in mEvents

(* No event gets lost: it waits in the queue or has been executed once.    *)
NoEventLost == \A e \in added : e \in mEvents \/ executed[e.id] = 1

(* The positions the events that can have been handled by step n ask of    *)
(* switch i: what the last of them sets, later due steps first, then later *)
(* event times; the heap leaves events of one time in any order.           *)
Before(e, f) == e.due < f.due \/ (e.due = f.due /\ e.time < f.time)

Demanded(i, n) ==
  LET es == {e \in added : e.sw = i /\ e.due < n}
  IN IF es = {} THEN {FALSE}
     ELSE {e.close : e \in {x \in es : \A y \in es : ~Before(x, y)}}

(* A solution never goes back behind the events: its matrix has all        *)
(* switches as the events due by its own step demand, or all as those due  *)
(* by the step before did.  No event is missed, applied early or in the    *)
(* wrong order, and those of one step take effect together.                *)
MatrixCurrent ==
  stepPc = "idle" /\ mTime > 0 =>
    \E n \in {mTime - 1, mTime} : \A i \in Switches : used[i] \in Demanded(i, n)

(* add_switch_event's "time at which the switch action should occur": the  *)
(* solution of a step has the switches as the events due by it demand.     *)
SwitchesOnTime ==
  stepPc = "idle" /\ mTime > 0 =>
    \A i \in Switches : used[i] \in Demanded(i, mTime)

(* mSwitchedMatrices and mLuFactorizations have what solve() looks up: a   *)
(* matrix for the bitset of the switch states.                             *)
SolvesWithFactorization == stepPc = "solve" => Key(mCurrentSwitchStatus) \in matrices
=============================================================================
