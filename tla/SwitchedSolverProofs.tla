------------------------- MODULE SwitchedSolverProofs -----------------------
(***************************************************************************)
(* Proofs about SwitchedSolver: what the event queue and the solver        *)
(* promise when events are added between the steps, for any number of      *)
(* steps and events.                                                       *)
(***************************************************************************)
EXTENDS SwitchedSolver, FiniteSetTheorems, WellFoundedInduction, TLAPS

(* The events that have been executed.                                     *)
Handled == {e \in added : e \notin mEvents \/ (stepPc = "pop" /\ e \in cur)}

(* Every event ever added has an id of its own.                            *)
IdInv ==
  /\ IsFiniteSet(added) /\ mEvents \subseteq added
  /\ \A e \in added : e.id \in 1 .. Cardinality(added)
  /\ \A e, f \in added : e.id = f.id => e = f

(* Where the event is that handleEvents works on, and how often each one   *)
(* has been executed.                                                      *)
ExecutedInv ==
  /\ stepPc \in {"execute", "pop"} =>
       \E e \in mEvents : cur = {e} /\ e \in Top(mEvents) /\ e.time <= mTime
  /\ \A e \in added : executed[e.id] = IF e \in Handled THEN 1 ELSE 0
  /\ \A n \in 1 .. MaxEvents : n > Cardinality(added) => executed[n] = 0

(* What is still queued is due now or later, what has been executed was    *)
(* due; of the events of this step, the earlier ones have been executed.   *)
DueInv ==
  /\ stepPc # "idle" => mTime < LastStep
  /\ \A e \in added : e.time <= e.due /\ (e.due > mTime => e.due = e.time)
  /\ \A e \in mEvents : e.due >= mTime /\ (stepPc = "solve" => e.time > mTime)
  /\ \A e \in Handled : e.due <= mTime /\ (stepPc = "idle" => e.due < mTime)
  /\ \A e \in Handled, f \in mEvents : e.due = mTime => e.time <= f.time

(* The positions a set of events leaves switch i in.                       *)
LeftBy(i, E) ==
  LET es == {e \in E : e.sw = i}
  IN IF es = {} THEN {FALSE}
     ELSE {e.close : e \in {x \in es : \A y \in es : ~Before(x, y)}}

(* The switches stand where the executed events have left them, the status *)
(* where the events of earlier steps have, and the last solution is one    *)
(* step behind that.                                                       *)
PositionInv ==
  \A i \in Switches :
    /\ closed[i] \in LeftBy(i, Handled)
    /\ mCurrentSwitchStatus[i] \in LeftBy(i, {e \in added : e.due < mTime})
    /\ mTime > 0 => used[i] \in LeftBy(i, {e \in added : e.due < mTime - 1})

SwitchInv == TypeOK /\ IdInv /\ ExecutedInv /\ DueInv /\ PositionInv

(* A set of natural numbers that is not empty has a least element.         *)
LEMMA LeastTime ==
  ASSUME NEW I, I \subseteq Nat, I # {}
  PROVE  \E x \in I : \A y \in I : x <= y
<1> DEFINE R == {p \in Nat \X Nat : p[1] < p[2]}
<1>1. IsWellFoundedOn(R, Nat)
  <2>1. R = OpToRel(<, Nat) BY Zenon DEF OpToRel
  <2> QED BY <2>1, NatLessThanWellFounded, Zenon
<1>2. PICK x \in I : \A y \in I : ~(<<y, x>> \in R)
  <2> HIDE DEF R
  <2> QED BY <1>1, WFMin, Zenon
<1>3. ASSUME NEW y \in I PROVE x <= y
  <2>1. <<y, x>> \in Nat \X Nat /\ <<y, x>>[1] = y /\ <<y, x>>[2] = x
    OBVIOUS
  <2>2. y < x => <<y, x>> \in R
    BY <2>1
  <2> QED BY <1>2, <2>2
<1> QED BY <1>3

(* Unless the queue is empty there is an event on top of it.               *)
LEMMA TopExists ==
  ASSUME NEW Q, Q \subseteq Event, Q # {}
  PROVE  Top(Q) # {}
<1> DEFINE T == {e.time : e \in Q}
<1>1. T \subseteq Nat /\ T # {}
  BY SizeAssumption DEF Event
<1>2. PICK x \in T : \A y \in T : x <= y
  <2> HIDE DEF T
  <2> QED BY <1>1, LeastTime, Zenon
<1>3. PICK e \in Q : e.time = x
  OBVIOUS
<1>4. \A f \in Q : e.time <= f.time
  BY <1>2, <1>3
<1> QED BY <1>3, <1>4 DEF Top

(* Executing an event that no earlier one of the set comes after leaves    *)
(* its switch as it says, and the others alone.                            *)
LEMMA LeftByLast ==
  ASSUME NEW E, NEW e, \A f \in E : ~Before(e, f), ~Before(e, e)
  PROVE  /\ e.close \in LeftBy(e.sw, E \union {e})
         /\ \A i \in Switches : i # e.sw => LeftBy(i, E \union {e}) = LeftBy(i, E)
<1>1. e.close \in LeftBy(e.sw, E \union {e})
  BY DEF LeftBy
<1>2. ASSUME NEW i \in Switches, i # e.sw
      PROVE  {f \in E \union {e} : f.sw = i} = {f \in E : f.sw = i}
  BY <1>2
<1> QED BY <1>1, <1>2 DEF LeftBy

(* AddEvent between two steps: the new event has a new id and is not due   *)
(* before this step.                                                       *)
LEMMA AddKeeps ==
  ASSUME ~Concurrent, SwitchInv,
         NEW t \in 0 .. LastStep, NEW i \in Switches, NEW c \in BOOLEAN,
         AddEvent(t, i, c)
  PROVE  SwitchInv'
<1> DEFINE e == [id |-> Cardinality(added) + 1, time |-> t, sw |-> i,
                 close |-> c, due |-> IF t > mTime THEN t ELSE mTime]
<1> USE DEF SwitchInv
<1>1. /\ stepPc = "idle" /\ Cardinality(added) < MaxEvents
      /\ mEvents' = mEvents \union {e} /\ added' = added \union {e}
      /\ UNCHANGED <<mTime, stepPc, cur, closed, mCurrentSwitchStatus, matrices, used, executed>>
  BY Zenon DEF AddEvent
<1>2. /\ mTime \in 0 .. LastStep /\ LastStep \in Nat /\ MaxEvents \in Nat
      /\ IsFiniteSet(added) /\ Cardinality(added) \in Nat
      /\ added \subseteq Event /\ mEvents \subseteq added
  BY SizeAssumption, FS_CardinalityType DEF TypeOK, IdInv
<1>3. /\ e \in Event /\ e.id = Cardinality(added) + 1
      /\ e.time <= e.due /\ (e.due > mTime => e.due = e.time) /\ e.due >= mTime
      /\ e.id \in 1 .. MaxEvents
  BY <1>1, <1>2 DEF Event
<1> HIDE DEF e
<1>4. e \notin added /\ \A f \in added : f.id # e.id
  BY <1>2, <1>3 DEF IdInv
<1>5. IsFiniteSet(added') /\ Cardinality(added') = Cardinality(added) + 1
  BY <1>1, <1>2, <1>4, FS_AddElement
<1>6. Handled' = Handled
  BY <1>1, <1>2, <1>4 DEF Handled
<1>7. TypeOK'
  BY <1>1, <1>2, <1>3 DEF TypeOK
<1>8. IdInv'
  <2>1. \A f \in added' : f.id \in 1 .. Cardinality(added')
    <3>1. \A f \in added : f.id \in 1 .. Cardinality(added) BY DEF IdInv
    <3> QED BY <1>1, <1>2, <1>3, <1>5, <3>1
  <2>2. \A f, g \in added' : f.id = g.id => f = g
    BY <1>1, <1>4 DEF IdInv
  <2> QED BY <1>1, <1>2, <1>5, <2>1, <2>2 DEF IdInv
<1>9. ExecutedInv'
  <2>1. \A f \in added : executed[f.id] = IF f \in Handled THEN 1 ELSE 0
    BY DEF ExecutedInv
  <2>2. executed[e.id] = 0 /\ e \notin Handled
    BY <1>2, <1>3, <1>4 DEF ExecutedInv, Handled
  <2>3. \A f \in added' : executed'[f.id] = IF f \in Handled' THEN 1 ELSE 0
    BY <1>1, <1>6, <2>1, <2>2
  <2>4. \A n \in 1 .. MaxEvents : n > Cardinality(added') => executed'[n] = 0
    BY <1>1, <1>2, <1>5 DEF ExecutedInv
  <2> QED BY <1>1, <2>3, <2>4 DEF ExecutedInv
<1>10. DueInv'
  <2>1. \A f \in Handled : f.due < mTime /\ mTime \in Nat /\ f.due \in Nat
    BY <1>1, <1>2 DEF DueInv, Handled, Event
  <2> QED BY <1>1, <1>2, <1>3, <1>6, <2>1 DEF DueInv
<1>11. PositionInv'
  <2>1. ASSUME NEW n \in Int, n <= mTime
        PROVE  {f \in added' : f.due < n} = {f \in added : f.due < n}
    BY <1>1, <1>2, <1>3, <2>1 DEF Event
  <2>2. {f \in added' : f.due < mTime} = {f \in added : f.due < mTime}
    BY <1>2, <2>1
  <2>3. {f \in added' : f.due < mTime - 1} = {f \in added : f.due < mTime - 1}
    BY <1>2, <2>1
  <2> QED BY <1>1, <1>6, <2>2, <2>3 DEF PositionInv
<1> QED BY <1>7, <1>8, <1>9, <1>10, <1>11

(* One step of the simulation keeps the invariant.                         *)
LEMMA StepKeeps ==
  ASSUME SwitchInv, Step
  PROVE  SwitchInv'
<1> USE DEF SwitchInv
<1>0. /\ mTime \in 0 .. LastStep /\ LastStep \in Nat /\ MaxEvents \in Nat
      /\ added \subseteq Event /\ mEvents \subseteq added /\ cur \subseteq Event
      /\ \A e \in added : e.due \in Nat /\ e.time \in Nat
      /\ executed \in [1 .. MaxEvents -> Nat]
  BY SizeAssumption DEF TypeOK, IdInv, Event
<1>1. CASE BeginStep
  <2>1. /\ stepPc = "idle" /\ mTime < LastStep /\ stepPc' = "handle"
        /\ UNCHANGED <<mTime, cur, mEvents, closed, mCurrentSwitchStatus, used, executed, matrices, added>>
    BY <1>1 DEF BeginStep, Unchanged
  <2>2. Handled' = Handled BY <2>1 DEF Handled
  <2>3. TypeOK' BY <2>1 DEF TypeOK
  <2>4. IdInv' BY <2>1 DEF IdInv
  <2>5. ExecutedInv' BY <2>1, <2>2 DEF ExecutedInv
  <2>6. DueInv' BY <1>0, <2>1, <2>2 DEF DueInv
  <2>7. PositionInv' BY <2>1, <2>2 DEF PositionInv
  <2> QED BY <2>3, <2>4, <2>5, <2>6, <2>7
<1>2. CASE HandleTop
  <2>1. /\ stepPc = "handle"
        /\ UNCHANGED <<mTime, mEvents, closed, mCurrentSwitchStatus, used, executed, matrices, added>>
    BY <1>2 DEF HandleTop, Unchanged
  <2>2. stepPc' \in {"solve", "execute"} /\ Handled' = Handled
    BY <1>2, <2>1 DEF HandleTop, Handled
  <2>3. IdInv' BY <2>1 DEF IdInv
  <2>4. PositionInv' BY <2>1, <2>2 DEF PositionInv
  <2>5. CASE stepPc' = "solve"
    <3>1. (\A e \in Top(mEvents) : e.time > mTime) /\ UNCHANGED cur
      BY <1>2, <2>5 DEF HandleTop
    <3>2. \A e \in mEvents : e.time > mTime
      <4> SUFFICES ASSUME NEW e \in mEvents PROVE e.time > mTime OBVIOUS
      <4>1. PICK f \in Top(mEvents) : TRUE BY <1>0, TopExists
      <4>2. f \in mEvents /\ f.time <= e.time BY <4>1 DEF Top
      <4> QED BY <1>0, <3>1, <4>1, <4>2
    <3>3. TypeOK' BY <2>1, <2>5, <3>1 DEF TypeOK
    <3>4. ExecutedInv' BY <2>1, <2>2, <2>5 DEF ExecutedInv
    <3>5. DueInv' BY <2>1, <2>2, <2>5, <3>2 DEF DueInv
    <3> QED BY <2>3, <2>4, <3>3, <3>4, <3>5
  <2>6. CASE stepPc' = "execute"
    <3>1. PICK e \in Top(mEvents) : e.time <= mTime /\ cur' = {e}
      BY <1>2, <2>6 DEF HandleTop
    <3>2. e \in mEvents BY <3>1 DEF Top
    <3>3. TypeOK' BY <1>0, <2>1, <2>6, <3>1, <3>2 DEF TypeOK
    <3>4. ExecutedInv' BY <2>1, <2>2, <2>6, <3>1, <3>2 DEF ExecutedInv
    <3>5. DueInv' BY <2>1, <2>2, <2>6 DEF DueInv
    <3> QED BY <2>3, <2>4, <3>3, <3>4, <3>5
  <2> QED BY <2>2, <2>5, <2>6
<1>3. CASE Execute
  <2>1. /\ stepPc = "execute" /\ stepPc' = "pop"
        /\ UNCHANGED <<mTime, cur, mEvents, mCurrentSwitchStatus, used, matrices, added>>
    BY <1>3 DEF Execute, Unchanged
  <2>2. PICK e \in mEvents : cur = {e} /\ e \in Top(mEvents) /\ e.time <= mTime
    BY <2>1 DEF ExecutedInv
  <2>3. /\ closed' = [closed EXCEPT ![e.sw] = e.close]
        /\ executed' = [executed EXCEPT ![e.id] = @ + 1]
    BY <1>3, <2>2 DEF Execute
  <2>4. e \in added /\ e \in Event /\ e.id \in 1 .. MaxEvents /\ e.sw \in Switches
        /\ e.close \in BOOLEAN
    BY <1>0, <2>2 DEF Event
  <2>5. e \notin Handled /\ Handled' = Handled \union {e} /\ Handled \subseteq added
    BY <2>1, <2>2, <2>4 DEF Handled
  <2>6. TypeOK'
    <3>1. closed' \in Positions BY <2>3, <2>4 DEF TypeOK, Positions
    <3>2. executed' \in [1 .. MaxEvents -> Nat] BY <1>0, <2>3, <2>4
    <3> QED BY <2>1, <3>1, <3>2 DEF TypeOK
  <2>7. IdInv' BY <2>1 DEF IdInv
  <2>8. ExecutedInv'
    <3>1. \A f \in added : f # e => f.id # e.id /\ f.id \in 1 .. MaxEvents
      BY <1>0, <2>4 DEF IdInv, Event
    <3>2. ASSUME NEW f \in added PROVE executed'[f.id] = IF f \in Handled' THEN 1 ELSE 0
      BY <1>0, <2>3, <2>4, <2>5, <3>1 DEF ExecutedInv
    <3>3. ASSUME NEW n \in 1 .. MaxEvents, n > Cardinality(added) PROVE executed'[n] = 0
      <4>1. n # e.id
        <5>1. e.id \in 1 .. Cardinality(added) /\ Cardinality(added) \in Nat
          BY <2>4, FS_CardinalityType DEF IdInv
        <5> QED BY <3>3, <5>1
      <4> QED BY <1>0, <2>3, <3>3, <4>1 DEF ExecutedInv
    <3> QED BY <2>1, <2>2, <3>2, <3>3 DEF ExecutedInv
  <2>9. e.due = mTime
    <3>1. e.due >= mTime BY <2>2 DEF DueInv
    <3>2. e.due > mTime => e.due = e.time BY <2>4 DEF DueInv
    <3> QED BY <1>0, <2>2, <2>4, <3>1, <3>2
  <2>10. DueInv'
    BY <1>0, <2>1, <2>2, <2>5, <2>9 DEF DueInv, Top
  <2>11. PositionInv'
    <3>1. \A f \in Handled : ~Before(e, f)
      BY <1>0, <2>2, <2>4, <2>5, <2>9 DEF DueInv, Before
    <3>2. ~Before(e, e) BY <1>0, <2>4 DEF Before
    <3>3. /\ e.close \in LeftBy(e.sw, Handled')
          /\ \A i \in Switches : i # e.sw => LeftBy(i, Handled') = LeftBy(i, Handled)
      BY <2>5, <3>1, <3>2, LeftByLast
    <3>4. \A i \in Switches : closed'[i] = IF i = e.sw THEN e.close ELSE closed[i]
      BY <2>3, <2>4 DEF TypeOK, Positions
    <3> QED BY <2>1, <3>3, <3>4 DEF PositionInv
  <2> QED BY <2>6, <2>7, <2>8, <2>10, <2>11
<1>4. CASE Pop
  <2>1. /\ stepPc = "pop" /\ stepPc' = "handle" /\ cur' = {}
        /\ UNCHANGED <<mTime, closed, mCurrentSwitchStatus, used, executed, matrices, added>>
    BY <1>4 DEF Pop, Unchanged
  <2>2. PICK e \in mEvents : cur = {e} /\ e \in Top(mEvents) /\ e.time <= mTime
    BY <2>1 DEF ExecutedInv
  <2>3. mEvents' = mEvents \ {e}
    BY <1>4, <2>2 DEF Pop
  <2>4. Handled' = Handled
    BY <1>0, <2>1, <2>2, <2>3 DEF Handled
  <2>5. TypeOK' BY <2>1, <2>3 DEF TypeOK
  <2>6. IdInv' BY <2>1, <2>3 DEF IdInv
  <2>7. ExecutedInv' BY <2>1, <2>4 DEF ExecutedInv
  <2>8. DueInv' BY <2>1, <2>3, <2>4 DEF DueInv
  <2>9. PositionInv' BY <2>1, <2>4 DEF PositionInv
  <2> QED BY <2>5, <2>6, <2>7, <2>8, <2>9
<1>5. CASE SolverStep
  <2>1. /\ stepPc = "solve" /\ stepPc' = "idle" /\ mTime' = mTime + 1
        /\ used' = mCurrentSwitchStatus /\ mCurrentSwitchStatus' = closed
        /\ UNCHANGED <<cur, mEvents, closed, executed, matrices, added>>
    BY <1>5 DEF SolverStep, Solve, UpdateSwitchStatus, Unchanged
  <2>2. Handled' = Handled BY <2>1 DEF Handled
  <2>3. mTime < LastStep BY <2>1 DEF DueInv
  <2>4. TypeOK' BY <1>0, <2>1, <2>3 DEF TypeOK
  <2>5. IdInv' BY <2>1 DEF IdInv
  <2>6. ExecutedInv' BY <2>1, <2>2 DEF ExecutedInv
  <2>7. \A e \in mEvents : e.due > mTime
    BY <1>0, <2>1 DEF DueInv
  <2>8. DueInv' BY <1>0, <2>1, <2>2, <2>7 DEF DueInv, Handled
  <2>9. Handled = {e \in added : e.due < mTime + 1}
    BY <1>0, <2>1, <2>7 DEF Handled, DueInv
  <2>10. {e \in added' : e.due < mTime' - 1} = {e \in added : e.due < mTime}
    BY <1>0, <2>1
  <2>11. PositionInv'
    BY <2>1, <2>2, <2>9, <2>10 DEF PositionInv
  <2> QED BY <2>4, <2>5, <2>6, <2>8, <2>11
<1> QED BY <1>1, <1>2, <1>3, <1>4, <1>5 DEF Step

(* The inductive invariant of switching, when events are added between the *)
(* steps.                                                                  *)
LEMMA SwitchInvariant ==
  ASSUME ~Concurrent
  PROVE  SwitchSpec => []SwitchInv
<1>1. SwitchInit => SwitchInv
  <2> SUFFICES ASSUME SwitchInit PROVE SwitchInv OBVIOUS
  <2>0. Cardinality({}) = 0 /\ IsFiniteSet({}) BY FS_EmptySet
  <2>1. TypeOK
    <3>1. matrices \subseteq Nat BY SizeAssumption DEF SwitchInit, CreatedKeys
    <3> QED BY <3>1, SizeAssumption DEF SwitchInit, TypeOK, Positions
  <2>2. IdInv BY <2>0 DEF SwitchInit, IdInv
  <2>3. ExecutedInv BY DEF SwitchInit, ExecutedInv
  <2>4. DueInv BY DEF SwitchInit, DueInv, Handled
  <2>5. PositionInv BY DEF SwitchInit, PositionInv, Handled, LeftBy
  <2> QED BY <2>1, <2>2, <2>3, <2>4, <2>5 DEF SwitchInv
<1>2. SwitchInv /\ [SwitchNext]_switchVars => SwitchInv'
  <2> SUFFICES ASSUME SwitchInv, [SwitchNext]_switchVars PROVE SwitchInv' OBVIOUS
  <2>1. CASE UNCHANGED switchVars
    BY <2>1 DEF switchVars, SwitchInv, TypeOK, IdInv, ExecutedInv, DueInv, PositionInv, Handled
  <2> QED BY <2>1, AddKeeps, StepKeeps DEF SwitchNext, Finished
<1> QED BY <1>1, <1>2, PTL DEF SwitchSpec

(* When the solver is called, the due events and no others have been       *)
(* executed, each exactly once.                                            *)
THEOREM DueEventsHandled ==
  ASSUME ~Concurrent
  PROVE  SwitchSpec => []DueEventsDone
<1>1. SwitchInv => DueEventsDone
  <2> SUFFICES ASSUME SwitchInv, stepPc = "solve", NEW e \in added
               PROVE  IF e.due <= mTime THEN executed[e.id] = 1 /\ e \notin mEvents
                                        ELSE executed[e.id] = 0 /\ e \in mEvents
    BY DEF DueEventsDone
  <2>1. e.due \in Nat /\ e.time \in Nat /\ mTime \in Nat
    BY SizeAssumption DEF SwitchInv, TypeOK, Event
  <2>2. e \in mEvents => e.due > mTime
    BY <2>1 DEF SwitchInv, DueInv
  <2>3. e \notin mEvents => e.due <= mTime
    BY DEF SwitchInv, DueInv, Handled
  <2>4. executed[e.id] = IF e \notin mEvents THEN 1 ELSE 0
    BY DEF SwitchInv, ExecutedInv, Handled
  <2> QED BY <2>1, <2>2, <2>3, <2>4
<1> QED BY <1>1, SwitchInvariant, PTL

(* Every solution has all switches as the events due by its step or by the *)
(* step before demand.                                                     *)
THEOREM MatrixCorrect ==
  ASSUME ~Concurrent
  PROVE  SwitchSpec => []MatrixCurrent
<1>1. ASSUME SwitchInv, mTime > 0, NEW i \in Switches
      PROVE  used[i] \in Demanded(i, mTime - 1)
  <2>1. used[i] \in LeftBy(i, {e \in added : e.due < mTime - 1})
    BY <1>1 DEF SwitchInv, PositionInv
  <2>2. {e \in {f \in added : f.due < mTime - 1} : e.sw = i}
          = {e \in added : e.sw = i /\ e.due < mTime - 1}
    OBVIOUS
  <2> QED BY <2>1, <2>2 DEF Demanded, LeftBy
<1>2. SwitchInv => MatrixCurrent
  BY <1>1 DEF MatrixCurrent
<1> QED BY <1>2, SwitchInvariant, PTL
=============================================================================
