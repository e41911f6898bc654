------------------------- MODULE CoSimulationProofs -------------------------
(***************************************************************************)
(* Proofs about CoSimulation: how the two simulators keep in step, and     *)
(* where the samples of the pools are, for any number of steps, any length *)
(* of the queues and pools and any way to couple the two.                  *)
(*                                                                         *)
(* The invariant CoInv is a conjunction of facts about one simulator s and *)
(* its link to the peer.  A step of s can only disturb the facts about s   *)
(* and about the peer: Effect lemmas say what a step changes at both, and  *)
(* PoolStep, TypeStep, OwnStep and LinkStep prove one group of facts each. *)
(***************************************************************************)
EXTENDS CoSimulation, TLAPS, NaturalsInduction, WellFoundedInduction

(* A sample is in writeValues' hands; the initial values are exchanged.    *)
Hand(s)    == IF control[s] \in {"push", "sync_push"} THEN 1 ELSE 0
Starts(s)  == IF StartSync[s] THEN 1 ELSE 0
Quot(n, d) == n \div d
Ceil(n, d) == (n + d - 1) \div d

(* Without a region; before and after the start synchronisation.            *)
Unopened == {"new", "failed"}
Starting == {"new", "opening", "sync_write", "sync_push", "sync_read"}
Running  == {"loop", "read", "solve", "write", "push", "next", "close", "done"}

(* Of the pool that s writes from, every sample is accounted for.          *)
PoolOf(s) ==
  /\ control[s] \in Unopened => pool[s] = PoolLen /\ transit[s] = <<>>
  /\ control[s] \notin Unopened => pool[s] + Len(transit[s]) + 1 + Hand(s) <= PoolLen
  /\ Fits(s) /\ control[s] \notin Unopened /\ ~Closed(Peer[s]) =>
       pool[s] + Len(transit[s]) + 1 + Hand(s) = PoolLen

(* What the position in run, sync and step says about the time step.       *)
ControlOf(s) ==
  /\ control[s] \in Starting => count[s] = 0 /\ imported[s] = 0
  /\ control[s] \in {"sync_write", "sync_push", "sync_read"} => StartSync[s]
  /\ control[s] \in {"read", "write", "push"} => Due(s)
  /\ control[s] \in {"close", "done"} => count[s] >= LastStep
  /\ control[s] = "read" => count[s] < LastStep

(* The samples s has numbered: one in sync(), one in every due time step.  *)
SentOf(s) ==
  Fits(s) =>
    /\ control[s] \in {"new", "opening", "sync_write"} => sequence[s] = 0
    /\ control[s] \in {"sync_push", "sync_read"} => sequence[s] = 1
    /\ control[s] \in {"loop", "read", "solve", "write", "close", "done"} =>
         sequence[s] = Starts(s) + Ceil(count[s], Downsampling[s])
    /\ control[s] \in {"push", "next"} =>
         sequence[s] = Starts(s) + Quot(count[s], Downsampling[s]) + 1

(* s waits in every read.                                                  *)
Follower(s) == Sync[s] /\ (StartSync[s] => SyncStart[s])

(* The sample s has imported is never newer than the exchange it has come  *)
(* to, and exactly that one's if s waits.                                  *)
ImportOf(s) ==
  Fits(Peer[s]) =>
    /\ control[s] \in {"loop", "read", "close", "done"} =>
         /\ imported[s] <= Starts(s) + Ceil(count[s], Downsampling[s])
         /\ Follower(s) => imported[s] = Starts(s) + Ceil(count[s], Downsampling[s])
    /\ control[s] \in {"solve", "write", "push", "next"} =>
         /\ imported[s] <= Starts(s) + Quot(count[s], Downsampling[s]) + 1
         /\ Follower(s) => imported[s] = Starts(s) + Quot(count[s], Downsampling[s]) + 1
    /\ StartSync[s] /\ SyncStart[s] /\ control[s] \in Running => imported[s] > 0

(* The link from the peer to s: the queue holds, in order, exactly the     *)
(* samples between the one imported last and the one numbered last.        *)
LinkOf(s) ==
  Fits(Peer[s]) /\ control[s] \notin {"done", "exit"} =>
    /\ \A i \in 1..Len(transit[Peer[s]]) :
         transit[Peer[s]][i] = [seq |-> imported[s] + i, len |-> Width(Peer[s])]
    /\ sequence[Peer[s]] = imported[s] + Len(transit[Peer[s]]) + Hand(Peer[s])

(* All of it, for one simulator and for both.                              *)
Locally(s) == PoolOf(s) /\ ControlOf(s) /\ SentOf(s) /\ ImportOf(s) /\ LinkOf(s)
CoInv == TypeOK /\ \A s \in Sims : Locally(s)

(* A set of natural numbers that is not empty has a least element.         *)
LEMMA LeastElement ==
  ASSUME NEW I, I \subseteq Nat, I # {}
  PROVE  \E x \in I : \A y \in I : x <= y
<1> DEFINE R == {ss \in Nat \X Nat : ss[1] < ss[2]}
<1>1. IsWellFoundedOn(R, Nat)
  <2>1. R = OpToRel(<, Nat) BY Zenon DEF OpToRel
  <2> QED BY <2>1, NatLessThanWellFounded, Zenon
<1>2. PICK x \in I : \A y \in I : ~(<<y, x>> \in R)
  <2> HIDE DEF R
  <2> QED BY <1>1, WFMin, Zenon
<1>3. ASSUME NEW y \in I PROVE x <= y
  <2>1. x \in Nat /\ y \in Nat OBVIOUS
  <2>2. <<y, x>> \in Nat \X Nat /\ <<y, x>>[1] = y /\ <<y, x>>[2] = x
    BY <2>1
  <2>3. y < x => <<y, x>> \in R
    BY <2>2
  <2> QED BY <1>2, <2>1, <2>3
<1> QED BY <1>3

(* A bounded set of natural numbers that is not empty has a maximum.       *)
LEMMA MaxExists ==
  ASSUME NEW E, E \subseteq Nat, E # {}, NEW b \in Nat, \A e \in E : e < b
  PROVE  Max(E) \in E /\ \A e \in E : e <= Max(E)
<1> DEFINE U == {n \in Nat : \A e \in E : e <= n}
<1>1. b \in U OBVIOUS
<1>2. PICK m \in U : \A n \in U : m <= n
  <2> HIDE DEF U
  <2> QED BY <1>1, LeastElement, U \subseteq Nat DEF U
<1>3. m \in E
  <2> SUFFICES ASSUME m \notin E PROVE FALSE OBVIOUS
  <2>1. PICK e \in E : TRUE OBVIOUS
  <2>2. m \in Nat /\ m - 1 \in Nat BY <2>1
  <2>3. \A x \in E : x <= m - 1 BY <2>2
  <2>4. m - 1 \in U BY <2>2, <2>3
  <2> QED BY <1>2, <2>2, <2>4
<1>4. \E x \in E : \A y \in E : y <= x BY <1>2, <1>3
<1> QED BY <1>4 DEF Max

(* A sample all exports fit in is long enough for each of them.            *)
LEMMA WidthCovers ==
  ASSUME mode \in Modes, NEW s \in Sims, Fits(s)
  PROVE  Width(s) \in Nat /\ \A i \in Exports[s] : i < Width(s)
<1>1. Exports[s] \subseteq Nat /\ Capacity \in Nat
  BY ModeAssumption, BoundAssumption DEF Exports
<1>2. CASE Exports[s] = {} BY <1>2 DEF Width
<1>3. CASE Exports[s] # {}
  <2> DEFINE E == Exports[s]
  <2>1. \A e \in E : e < Capacity BY DEF Fits
  <2>2. Max(E) \in E /\ \A e \in E : e <= Max(E)
    <3> HIDE DEF E
    <3> QED BY <1>1, <1>3, <2>1, MaxExists DEF E
  <2>3. Width(s) = Max(E) + 1 BY <1>3 DEF Width
  <2> HIDE DEF E
  <2> QED BY <1>1, <2>2, <2>3 DEF E
<1> QED BY <1>2, <1>3

(* Ceil counts the due steps before step n, Quot those before step n if n  *)
(* is due itself.                                                          *)
LEMMA Exchanges ==
  ASSUME NEW d \in Nat \ {0}, NEW c \in Nat
  PROVE  /\ Ceil(0, d) = 0 /\ Quot(c, d) \in Nat /\ Ceil(c, d) \in Nat
         /\ c % d = 0 => Ceil(c, d) = Quot(c, d)
         /\ c % d # 0 => Ceil(c, d) = Quot(c, d) + 1
         /\ Ceil(c + 1, d) = Quot(c, d) + 1
         /\ \A f \in Nat : c < f => Quot(c, d) < Ceil(f, d)
BY DEF Ceil, Quot

(* What the assumptions say of the mode that was chosen.                   *)
LEMMA Modalities ==
  ASSUME mode \in Modes, NEW s \in Sims
  PROVE  /\ Peer[s] \in Sims /\ Peer[s] # s /\ Peer[Peer[s]] = s
         /\ Downsampling[s] \in Nat \ {0} /\ PoolLen \in Nat \ {0}
         /\ Sync[s] \in BOOLEAN /\ SyncStart[s] \in BOOLEAN /\ StartSync[s] \in BOOLEAN
BY SimsAssumption, ModeAssumption DEF Sync, SyncStart, StartSync, Downsampling, PoolLen

(* What appending to a queue and taking its head does.                     *)
LEMMA QueueOps ==
  ASSUME NEW S, NEW q \in Seq(S), NEW e \in S
  PROVE  /\ Append(q, e) \in Seq(S) /\ Len(Append(q, e)) = Len(q) + 1 /\ Len(q) \in Nat
         /\ \A i \in 1..Len(q) : Append(q, e)[i] = q[i]
         /\ Append(q, e)[Len(q) + 1] = e
         /\ q # <<>> => /\ Head(q) \in S /\ Tail(q) \in Seq(S)
                        /\ Len(q) > 0 /\ Len(Tail(q)) = Len(q) - 1
                        /\ Head(q) = q[1]
                        /\ \A i \in 1..(Len(q) - 1) : Tail(q)[i] = q[i + 1]
         /\ Len(<<>>) = 0 /\ <<>> \in Seq(S) /\ (Len(q) = 0 => q = <<>>)
OBVIOUS

(* The samples, and the queues of them.                                    *)
Sample == [seq : Nat, len : Nat]
Samples == Seq(Sample)

(* The same for the queue of a simulator and the sample it sends.          *)
LEMMA SampleOps ==
  ASSUME TypeOK, NEW s \in Sims
  PROVE  /\ Outgoing(s) \in Sample
         /\ transit[s] \in Seq(Sample) /\ Len(transit[s]) \in Nat
         /\ transit[s] # <<>> => /\ Head(transit[s]) \in Sample /\ Head(transit[s]).seq \in Nat
                               /\ Tail(transit[s]) \in Seq(Sample)
                               /\ Len(transit[s]) > 0
                               /\ Len(Tail(transit[s])) = Len(transit[s]) - 1
         /\ Append(transit[s], Outgoing(s)) \in Seq(Sample)
         /\ Len(Append(transit[s], Outgoing(s))) = Len(transit[s]) + 1
         /\ Len(<<>>) = 0
<1>1. transit[s] \in Seq(Sample) /\ sequence[s] \in Nat /\ mode \in Modes BY DEF TypeOK, Sample
<1>2. Outgoing(s) \in Sample BY <1>1, WidthCovers DEF Outgoing, Sample
<1>3. \A r \in Sample : r.seq \in Nat BY DEF Sample
<1> DEFINE q == transit[s]
           e == Outgoing(s)
<1>4. q \in Seq(Sample) /\ e \in Sample BY <1>1, <1>2
<1> HIDE DEF q, e
<1>5. /\ Len(q) \in Nat
      /\ q # <<>> => /\ Head(q) \in Sample /\ Tail(q) \in Seq(Sample) /\ Len(q) > 0
                     /\ Len(Tail(q)) = Len(q) - 1
      /\ Append(q, e) \in Seq(Sample) /\ Len(Append(q, e)) = Len(q) + 1
      /\ Len(<<>>) = 0
  BY <1>4, QueueOps
<1> QED BY <1>2, <1>3, <1>4, <1>5 DEF q, e

(* A step leaves the control of t, or the queue and the pool of t, alone.  *)
Kept(t)   == /\ control'[t] = control[t] /\ count'[t] = count[t]
             /\ sequence'[t] = sequence[t] /\ imported'[t] = imported[t]
Stored(t) == transit'[t] = transit[t] /\ pool'[t] = pool[t]

(* What depends on the mode alone never changes.                           *)
LEMMA Constant ==
  ASSUME mode' = mode, NEW t
  PROVE  /\ Fits(t)' = Fits(t) /\ Width(t)' = Width(t) /\ Starts(t)' = Starts(t)
         /\ Sync' = Sync /\ SyncStart' = SyncStart /\ StartSync' = StartSync
         /\ Downsampling' = Downsampling /\ Follower(t)' = Follower(t)
         /\ PoolLen' = PoolLen
BY DEF PoolLen, Fits, Width, Exports, Starts, Sync, SyncStart, StartSync, Downsampling, Follower

(* A step that changes neither a simulator nor its peer keeps its facts.   *)
LEMMA Bystander ==
  ASSUME mode' = mode, NEW t \in Sims, Kept(t), Stored(t), Kept(Peer[t]), Stored(Peer[t]), Locally(t)
  PROVE  Locally(t)'
<1>1. Hand(t)' = Hand(t) /\ Hand(Peer[t])' = Hand(Peer[t]) BY DEF Hand, Kept
<1>2. Due(t)' = Due(t) BY Constant DEF Due, Kept
<1>3. PoolOf(t)' BY <1>1, Constant DEF Locally, PoolOf, Closed, Kept, Stored
<1>4. ControlOf(t)' BY <1>2, Constant DEF Locally, ControlOf, Kept
<1>5. SentOf(t)' BY Constant DEF Locally, SentOf, Kept
<1>6. ImportOf(t)' BY Constant DEF Locally, ImportOf, Kept
<1>7. LinkOf(t)' BY <1>1, Constant DEF Locally, LinkOf, Kept, Stored
<1> QED BY <1>3, <1>4, <1>5, <1>6, <1>7 DEF Locally

(* So the facts about the one that moves and about its peer are enough.    *)
LEMMA Pairwise ==
  ASSUME CoInv, mode' = mode, NEW s \in Sims, TypeOK', Locally(s)', Locally(Peer[s])',
         \A t \in Sims : t # s /\ t # Peer[s] => Kept(t) /\ Stored(t)
  PROVE  CoInv'
<1> SUFFICES ASSUME NEW t \in Sims, t # s, t # Peer[s] PROVE Locally(t)'
  BY DEF CoInv
<1>1. Peer[t] \in Sims /\ Peer[t] # s /\ Peer[t] # Peer[s]
  BY SimsAssumption
<1> QED BY <1>1, Bystander DEF CoInv

(* The types of one simulator's values.                                    *)
LEMMA Values ==
  ASSUME TypeOK, NEW t \in Sims
  PROVE  /\ control[t] \in PC /\ count[t] \in Nat /\ sequence[t] \in Nat /\ imported[t] \in Nat
         /\ pool[t] \in Nat /\ pool[t] <= PoolLen
         /\ Len(transit[t]) \in Nat /\ Len(transit[t]) <= QueueLen
         /\ Starts(t) \in Nat /\ Hand(t) \in Nat /\ PoolLen \in Nat /\ QueueLen \in Nat
<1>1. PoolLen \in Nat BY Modalities DEF TypeOK
<1> QED BY <1>1, SampleOps, BoundAssumption DEF TypeOK, Starts, Hand

(* What the first half of writeValues changes.                             *)
LEMMA AllocEffect ==
  ASSUME TypeOK, NEW s \in Sims, NEW from, NEW to, Alloc(s, from, to)
  PROVE  /\ control[s] = from /\ count'[s] = count[s] /\ imported'[s] = imported[s]
         /\ transit'[s] = transit[s]
         /\ \A t \in Sims : t # s => Kept(t) /\ Stored(t)
         /\ \/ /\ pool[s] = 0 /\ pool'[s] = pool[s]
               /\ control'[s] = "underrun" /\ sequence'[s] = sequence[s]
            \/ /\ pool[s] > 0 /\ pool'[s] = pool[s] - 1
               /\ control'[s] = to
               /\ Fits(s) => sequence'[s] = sequence[s] + 1
               /\ ~Fits(s) => sequence'[s] = sequence[s]
<1>1. control \in [Sims -> PC] /\ sequence \in [Sims -> Nat] /\ pool \in [Sims -> 0..PoolLen] /\ PoolLen \in Nat
  BY Modalities DEF TypeOK
<1>2. CASE pool[s] = 0 BY <1>1, <1>2 DEF Alloc, Goto, Kept, Stored
<1>3. CASE pool[s] # 0 /\ Fits(s) BY <1>1, <1>3 DEF Alloc, Goto, Kept, Stored
<1>4. CASE pool[s] # 0 /\ ~Fits(s) BY <1>1, <1>4 DEF Alloc, Goto, Kept, Stored
<1> QED BY <1>2, <1>3, <1>4

(* What the second half of writeValues changes.                            *)
LEMMA PushEffect ==
  ASSUME TypeOK, NEW s \in Sims, NEW from, NEW to, Push(s, from, to)
  PROVE  /\ control[s] = from /\ control'[s] = to
         /\ count'[s] = count[s] /\ imported'[s] = imported[s] /\ pool'[s] = pool[s]
         /\ sequence'[s] = sequence[s]
         /\ \A t \in Sims : t # s => Kept(t) /\ Stored(t)
         /\ \/ Closed(Peer[s]) /\ transit'[s] = transit[s]
            \/ /\ ~Closed(Peer[s]) /\ Len(transit[s]) < QueueLen
               /\ transit'[s] = Append(transit[s], Outgoing(s))
<1>1. control \in [Sims -> PC] /\ \E Q : transit \in [Sims -> Q]
  BY DEF TypeOK
<1>2. CASE UNCHANGED transit BY <1>1, <1>2 DEF Push, Goto, Kept, Stored
<1>3. CASE transit' = [transit EXCEPT ![s] = Append(@, Outgoing(s))]
  BY <1>1, <1>3 DEF Push, Goto, Kept, Stored
<1> QED BY <1>2, <1>3 DEF Push

(* What readValues changes, on both sides of the link.                     *)
LEMMA ReadEffect ==
  ASSUME TypeOK, NEW s \in Sims, NEW blocking, NEW from, NEW to, ReadValues(s, blocking, from, to)
  PROVE  /\ control[s] = from /\ count'[s] = count[s] /\ sequence'[s] = sequence[s]
         /\ Stored(s)
         /\ \A t \in Sims : t # s => Kept(t)
         /\ \A t \in Sims : t # Peer[s] => Stored(t)
         /\ \/ /\ transit[Peer[s]] # <<>> /\ transit'[Peer[s]] = Tail(transit[Peer[s]])
               /\ \/ pool'[Peer[s]] = pool[Peer[s]] + 1
                  \/ ~Fits(Peer[s]) /\ pool'[Peer[s]] = pool[Peer[s]]
               /\ \/ /\ Complete(s, Head(transit[Peer[s]])) /\ control'[s] = to
                     /\ imported'[s] = Head(transit[Peer[s]]).seq
                  \/ /\ ~Complete(s, Head(transit[Peer[s]])) /\ control'[s] = "exit"
                     /\ imported'[s] = imported[s]
            \/ /\ transit[Peer[s]] = <<>> /\ Stored(Peer[s]) /\ imported'[s] = imported[s]
               /\ \/ ~blocking /\ control'[s] = to
                  \/ blocking /\ Closed(Peer[s]) /\ control'[s] = "exit"
<1> DEFINE p == Peer[s]
<1>1. /\ control \in [Sims -> PC] /\ (\E Q : transit \in [Sims -> Q]) /\ imported \in [Sims -> Nat]
      /\ pool \in [Sims -> 0..PoolLen] /\ p \in Sims /\ p # s /\ PoolLen \in Nat
  BY Modalities, BoundAssumption DEF TypeOK
<1>2. ASSUME transit[p] # <<>>, transit' = [transit EXCEPT ![p] = Tail(@)], Release(p),
             \/ /\ Complete(s, Head(transit[p])) /\ Goto(s, to)
                /\ imported' = [imported EXCEPT ![s] = Head(transit[p]).seq]
             \/ ~Complete(s, Head(transit[p])) /\ Goto(s, "exit") /\ UNCHANGED imported,
             control[s] = from, UNCHANGED <<count, sequence>>
      PROVE  /\ \A t \in Sims : t # s => Kept(t)
             /\ \A t \in Sims : t # p => Stored(t)
             /\ transit'[p] = Tail(transit[p])
             /\ pool'[p] = pool[p] + 1 \/ (~Fits(p) /\ pool'[p] = pool[p])
             /\ \/ /\ Complete(s, Head(transit[p])) /\ control'[s] = to
                   /\ imported'[s] = Head(transit[p]).seq
                \/ /\ ~Complete(s, Head(transit[p])) /\ control'[s] = "exit"
                   /\ imported'[s] = imported[s]
  <2> HIDE DEF p
  <2>1. \A t \in Sims : t # p => Stored(t) BY <1>1, <1>2 DEF Stored, Release
  <2>2. \A t \in Sims : t # s => Kept(t) BY <1>1, <1>2 DEF Kept, Goto
  <2>3. transit'[p] = Tail(transit[p]) BY <1>1, <1>2
  <2>4. pool'[p] = pool[p] + 1 \/ (~Fits(p) /\ pool'[p] = pool[p])
    <3>1. CASE pool' = [pool EXCEPT ![p] = @ + 1] BY <1>1, <3>1
    <3>2. CASE ~Fits(p) /\ UNCHANGED pool BY <1>1, <3>2
    <3> QED BY <1>2, <3>1, <3>2, Zenon DEF Release
  <2>5. CASE Complete(s, Head(transit[p])) BY <1>1, <1>2, <2>1, <2>2, <2>3, <2>4, <2>5 DEF Goto
  <2>6. CASE ~Complete(s, Head(transit[p])) BY <1>1, <1>2, <2>1, <2>2, <2>3, <2>4, <2>6 DEF Goto
  <2> QED BY <2>5, <2>6
<1>3. ASSUME transit[p] = <<>>, UNCHANGED <<imported, transit, pool>>,
             (~blocking /\ Goto(s, to)) \/ (blocking /\ Closed(p) /\ Goto(s, "exit")),
             control[s] = from, UNCHANGED <<count, sequence>>
      PROVE  /\ \A t \in Sims : t # s => Kept(t)
             /\ \A t \in Sims : Stored(t)
             /\ (~blocking /\ control'[s] = to) \/ (blocking /\ Closed(p) /\ control'[s] = "exit")
  <2> HIDE DEF p
  <2> QED BY <1>1, <1>3 DEF Kept, Stored, Goto
<1>4. CASE transit[p] # <<>> BY <1>1, <1>2, <1>4 DEF ReadValues
<1>5. CASE transit[p] = <<>>
  <2>1. /\ UNCHANGED <<imported, transit, pool>> /\ UNCHANGED <<count, sequence>> /\ control[s] = from
        /\ (~blocking /\ Goto(s, to)) \/ (blocking /\ Closed(p) /\ Goto(s, "exit"))
    BY <1>5 DEF ReadValues
  <2>2. count'[s] = count[s] /\ sequence'[s] = sequence[s] /\ imported'[s] = imported[s]
    BY <2>1
  <2>3. /\ \A t \in Sims : t # s => Kept(t)
        /\ \A t \in Sims : Stored(t)
        /\ (~blocking /\ control'[s] = to) \/ (blocking /\ Closed(p) /\ control'[s] = "exit")
    BY <1>3, <1>5, <2>1, Zenon
  <2> QED BY <1>1, <1>5, <2>1, <2>2, <2>3, Zenon
<1> QED BY <1>4, <1>5

(* What opening the own region changes.                                    *)
LEMMA CreateEffect ==
  ASSUME TypeOK, NEW s \in Sims, Create(s)
  PROVE  /\ control[s] = "new" /\ control'[s] = "opening"
         /\ count'[s] = count[s] /\ imported'[s] = imported[s] /\ sequence'[s] = 0
         /\ transit'[s] = transit[s] /\ pool'[s] = pool[s] - 1
         /\ \A t \in Sims : t # s => Kept(t) /\ Stored(t)
BY Modalities DEF TypeOK, Create, Goto, Kept, Stored

(* The steps that exchange nothing, and what they change.                  *)
Control(s) == OpenFails(s) \/ Open(s) \/ Loop(s) \/ Solve(s) \/ NextStep(s) \/ Close(s)

(* They change the position, and one of them the time step.                *)
LEMMA ControlEffect ==
  ASSUME TypeOK, NEW s \in Sims, Control(s)
  PROVE  /\ Stored(s) /\ sequence'[s] = sequence[s] /\ imported'[s] = imported[s]
         /\ \A t \in Sims : t # s => Kept(t) /\ Stored(t)
         /\ \/ control[s] = "new" /\ count'[s] = count[s] /\ control'[s] = "failed"
            \/ /\ control[s] = "opening" /\ count'[s] = count[s]
               /\ StartSync[s] => control'[s] = "sync_write"
               /\ ~StartSync[s] => control'[s] = "loop"
            \/ /\ control[s] = "loop" /\ count'[s] = count[s]
               /\ \/ count[s] >= LastStep /\ control'[s] = "close"
                  \/ count[s] < LastStep /\ Due(s) /\ control'[s] = "read"
                  \/ ~Due(s) /\ control'[s] = "solve"
            \/ /\ control[s] = "solve" /\ count'[s] = count[s]
               /\ Due(s) => control'[s] = "write"
               /\ ~Due(s) => control'[s] = "next"
            \/ control[s] = "next" /\ count'[s] = count[s] + 1 /\ control'[s] = "loop"
            \/ control[s] = "close" /\ count'[s] = count[s] /\ control'[s] = "done"
<1>1. control \in [Sims -> PC] /\ count \in [Sims -> Nat] /\ LastStep \in Nat
  BY BoundAssumption DEF TypeOK
<1>2. CASE Open(s)
  <2>1. CASE StartSync[s] BY <1>1, <1>2, <2>1 DEF Open, Goto, Kept, Stored
  <2>2. CASE ~StartSync[s] BY <1>1, <1>2, <2>2 DEF Open, Goto, Kept, Stored
  <2> QED BY <2>1, <2>2
<1>3. CASE Loop(s)
  <2>1. CASE count[s] >= LastStep BY <1>1, <1>3, <2>1 DEF Loop, Goto, Kept, Stored
  <2>2. CASE count[s] < LastStep /\ Due(s) BY <1>1, <1>3, <2>2 DEF Loop, Goto, Kept, Stored
  <2>3. CASE count[s] < LastStep /\ ~Due(s) BY <1>1, <1>3, <2>3 DEF Loop, Goto, Kept, Stored
  <2> QED BY <1>1, <2>1, <2>2, <2>3
<1>4. CASE Solve(s)
  <2>1. CASE Due(s) BY <1>1, <1>4, <2>1 DEF Solve, Goto, Kept, Stored
  <2>2. CASE ~Due(s) BY <1>1, <1>4, <2>2 DEF Solve, Goto, Kept, Stored
  <2> QED BY <2>1, <2>2
<1>5. CASE NextStep(s) BY <1>1, <1>5 DEF NextStep, Goto, Kept, Stored
<1>6. CASE Close(s) BY <1>1, <1>6 DEF Close, Goto, Kept, Stored
<1>7. CASE OpenFails(s) BY <1>1, <1>7 DEF OpenFails, Goto, Kept, Stored
<1> QED BY <1>2, <1>3, <1>4, <1>5, <1>6, <1>7 DEF Control

(* A simulator's step is of one of these kinds.                            *)
LEMMA Kinds ==
  ASSUME NEW s, Simulator(s)
  PROVE  \/ Create(s) \/ Control(s)
         \/ Alloc(s, "sync_write", "sync_push") \/ Alloc(s, "write", "push")
         \/ Push(s, "sync_push", "sync_read") \/ Push(s, "push", "next")
         \/ ReadValues(s, SyncStart[s], "sync_read", "loop")
         \/ ReadValues(s, Sync[s], "read", "solve")
BY DEF Simulator, Control, SyncWrite, StepWrite, SyncRead, StepRead

(* A step keeps the accounts of both pools: a sample moves from the pool to *)
(* writeValues' hands, to the queue and back.                              *)
LEMMA PoolStep ==
  ASSUME TypeOK, NEW s \in Sims, Simulator(s), mode' = mode,
         PoolOf(s), PoolOf(Peer[s])
  PROVE  PoolOf(s)' /\ PoolOf(Peer[s])'
<1> DEFINE p == Peer[s]
<1>1. p \in Sims /\ p # s /\ Peer[p] = s BY Modalities DEF TypeOK
<1>2. Fits(s)' = Fits(s) /\ Fits(p)' = Fits(p) /\ PoolLen' = PoolLen BY Constant
<1>3. /\ pool[s] \in Nat /\ Len(transit[s]) \in Nat /\ pool[p] \in Nat /\ Len(transit[p]) \in Nat
      /\ PoolLen \in Nat
  BY <1>1, Values
<1>4. /\ Len(Append(transit[s], Outgoing(s))) = Len(transit[s]) + 1
      /\ transit[p] # <<>> => Len(Tail(transit[p])) = Len(transit[p]) - 1 /\ Len(transit[p]) > 0
  BY SampleOps, <1>1
<1>5. PoolOf(s) /\ PoolOf(p) OBVIOUS
<1> SUFFICES PoolOf(s)' /\ PoolOf(p)' OBVIOUS
<1>a. CASE Create(s)
  <2>1. PoolOf(s)' BY <1>a, <1>1, <1>2, <1>3, <1>4, <1>5, CreateEffect
      DEF PoolOf, Unopened, Hand, Kept, Stored, Closed
  <2>2. PoolOf(p)' BY <1>a, <1>1, <1>2, <1>3, <1>4, <1>5, CreateEffect
      DEF PoolOf, Unopened, Hand, Kept, Stored, Closed
  <2> QED BY <2>1, <2>2
<1>b. CASE Control(s)
  <2>1. PoolOf(s)' BY <1>b, <1>1, <1>2, <1>3, <1>4, <1>5, ControlEffect
      DEF PoolOf, Unopened, Hand, Kept, Stored, Closed
  <2>2. PoolOf(p)' BY <1>b, <1>1, <1>2, <1>3, <1>4, <1>5, ControlEffect
      DEF PoolOf, Unopened, Hand, Kept, Stored, Closed
  <2> QED BY <2>1, <2>2
<1>c. CASE Alloc(s, "sync_write", "sync_push")
  <2>1. /\ control[s] = "sync_write" /\ transit'[s] = transit[s] /\ Kept(p) /\ Stored(p)
        /\ \/ pool'[s] = pool[s] /\ control'[s] = "underrun"
           \/ pool'[s] = pool[s] - 1 /\ control'[s] = "sync_push"
    BY <1>c, <1>1, AllocEffect
  <2>2. Hand(s) = 0 BY <2>1 DEF Hand
  <2>3. ASSUME control'[s] = "underrun" PROVE PoolOf(s)'
    <3>1. Hand(s)' = 0 /\ pool'[s] = pool[s] BY <2>1, <2>3 DEF Hand
    <3> QED BY <1>1, <1>2, <1>3, <1>5, <2>1, <2>2, <2>3, <3>1 DEF PoolOf, Unopened, Kept, Closed
  <2>4. ASSUME control'[s] = "sync_push" PROVE PoolOf(s)'
    <3>1. Hand(s)' = 1 /\ pool'[s] = pool[s] - 1 BY <2>1, <2>4 DEF Hand
    <3>2. pool'[s] + Len(transit'[s]) + 1 + Hand(s)' = pool[s] + Len(transit[s]) + 1 + Hand(s)
      BY <1>3, <2>1, <2>2, <3>1
    <3> QED BY <1>1, <1>2, <1>5, <2>1, <2>4, <3>2 DEF PoolOf, Unopened, Kept, Closed
  <2>5. PoolOf(p)' BY <1>1, <1>2, <1>3, <1>5, <2>1 DEF PoolOf, Unopened, Hand, Kept, Stored, Closed
  <2> QED BY <2>1, <2>3, <2>4, <2>5
<1>d. CASE Alloc(s, "write", "push")
  <2>1. /\ control[s] = "write" /\ transit'[s] = transit[s] /\ Kept(p) /\ Stored(p)
        /\ \/ pool'[s] = pool[s] /\ control'[s] = "underrun"
           \/ pool'[s] = pool[s] - 1 /\ control'[s] = "push"
    BY <1>d, <1>1, AllocEffect
  <2>2. Hand(s) = 0 BY <2>1 DEF Hand
  <2>3. ASSUME control'[s] = "underrun" PROVE PoolOf(s)'
    <3>1. Hand(s)' = 0 /\ pool'[s] = pool[s] BY <2>1, <2>3 DEF Hand
    <3> QED BY <1>1, <1>2, <1>3, <1>5, <2>1, <2>2, <2>3, <3>1 DEF PoolOf, Unopened, Kept, Closed
  <2>4. ASSUME control'[s] = "push" PROVE PoolOf(s)'
    <3>1. Hand(s)' = 1 /\ pool'[s] = pool[s] - 1 BY <2>1, <2>4 DEF Hand
    <3>2. pool'[s] + Len(transit'[s]) + 1 + Hand(s)' = pool[s] + Len(transit[s]) + 1 + Hand(s)
      BY <1>3, <2>1, <2>2, <3>1
    <3> QED BY <1>1, <1>2, <1>5, <2>1, <2>4, <3>2 DEF PoolOf, Unopened, Kept, Closed
  <2>5. PoolOf(p)' BY <1>1, <1>2, <1>3, <1>5, <2>1 DEF PoolOf, Unopened, Hand, Kept, Stored, Closed
  <2> QED BY <2>1, <2>3, <2>4, <2>5
<1>e. CASE Push(s, "sync_push", "sync_read")
  <2>1. /\ control[s] = "sync_push" /\ control'[s] = "sync_read" /\ pool'[s] = pool[s] /\ Kept(p) /\ Stored(p)
        /\ \/ Closed(p) /\ transit'[s] = transit[s]
           \/ ~Closed(p) /\ Len(transit'[s]) = Len(transit[s]) + 1
    BY <1>e, <1>1, <1>4, PushEffect
  <2>2. Hand(s) = 1 /\ Hand(s)' = 0 BY <2>1 DEF Hand
  <2>3. PoolOf(s)' BY <1>1, <1>2, <1>3, <1>5, <2>1, <2>2 DEF PoolOf, Unopened, Kept, Closed
  <2>4. PoolOf(p)' BY <1>1, <1>2, <1>3, <1>5, <2>1 DEF PoolOf, Unopened, Hand, Kept, Stored, Closed
  <2> QED BY <2>3, <2>4
<1>f. CASE Push(s, "push", "next")
  <2>1. /\ control[s] = "push" /\ control'[s] = "next" /\ pool'[s] = pool[s] /\ Kept(p) /\ Stored(p)
        /\ \/ Closed(p) /\ transit'[s] = transit[s]
           \/ ~Closed(p) /\ Len(transit'[s]) = Len(transit[s]) + 1
    BY <1>f, <1>1, <1>4, PushEffect
  <2>2. Hand(s) = 1 /\ Hand(s)' = 0 BY <2>1 DEF Hand
  <2>3. PoolOf(s)' BY <1>1, <1>2, <1>3, <1>5, <2>1, <2>2 DEF PoolOf, Unopened, Kept, Closed
  <2>4. PoolOf(p)' BY <1>1, <1>2, <1>3, <1>5, <2>1 DEF PoolOf, Unopened, Hand, Kept, Stored, Closed
  <2> QED BY <2>3, <2>4
<1>g. CASE ReadValues(s, SyncStart[s], "sync_read", "loop")
  <2>1. /\ control[s] = "sync_read" /\ control'[s] \in {"loop", "exit"} /\ Kept(p) /\ Stored(s)
    BY <1>g, <1>1, ReadEffect
  <2>2. \/ Stored(p)
        \/ /\ transit[p] # <<>> /\ transit'[p] = Tail(transit[p])
           /\ pool'[p] = pool[p] + 1 \/ (~Fits(p) /\ pool'[p] = pool[p])
    <3>1. CASE transit[p] = <<>> BY <1>g, <3>1, ReadEffect
    <3>2. CASE transit[p] # <<>> BY <1>g, <3>2, ReadEffect
    <3> QED BY <3>1, <3>2
  <2>3. Hand(p)' = Hand(p) /\ Hand(p) \in Nat BY <2>1 DEF Hand, Kept
  <2>4. PoolOf(s)' BY <1>1, <1>2, <1>3, <1>5, <2>1 DEF PoolOf, Unopened, Hand, Kept, Stored, Closed
  <2>5. PoolOf(p)'
    <3>1. CASE Stored(p)
      BY <1>1, <1>2, <1>5, <2>1, <2>3, <3>1 DEF PoolOf, Unopened, Kept, Stored, Closed
    <3>2. CASE ~Stored(p)
      <4>1. /\ Len(transit'[p]) = Len(transit[p]) - 1 /\ control'[p] = control[p] /\ control[p] \notin Unopened
            /\ pool'[p] = pool[p] + 1 \/ (~Fits(p) /\ pool'[p] = pool[p])
            /\ control[s] # "done"
        BY <1>4, <1>5, <2>1, <2>2, <3>2 DEF Kept, PoolOf, Unopened
      <4>2. pool[p] + Len(transit[p]) + 1 + Hand(p) <= PoolLen
        BY <1>5, <4>1 DEF PoolOf, Unopened
      <4>3. pool'[p] + Len(transit'[p]) + 1 + Hand(p)' <= PoolLen
        <5>1. pool'[p] = pool[p] + 1 \/ pool'[p] = pool[p] BY <4>1
        <5>2. Len(transit'[p]) = Len(transit[p]) - 1 BY <4>1
        <5>3. CASE pool'[p] = pool[p] + 1 BY ONLY <1>3, <2>3, <5>2, <5>3, <4>2
        <5>4. CASE pool'[p] = pool[p] BY ONLY <1>3, <2>3, <5>2, <5>4, <4>2
        <5> QED BY <5>1, <5>3, <5>4
      <4>4. ASSUME Fits(p)
            PROVE  pool'[p] + Len(transit'[p]) + 1 + Hand(p)' = PoolLen
        <5>1. pool[p] + Len(transit[p]) + 1 + Hand(p) = PoolLen
          BY <1>1, <1>5, <4>1, <4>4 DEF PoolOf, Unopened, Closed
        <5> QED BY <1>3, <2>3, <4>1, <4>4, <5>1
      <4> QED BY <1>1, <1>2, <4>1, <4>3, <4>4 DEF PoolOf, Unopened
    <3> QED BY <3>1, <3>2
  <2> QED BY <2>4, <2>5
<1>h. CASE ReadValues(s, Sync[s], "read", "solve")
  <2>1. /\ control[s] = "read" /\ control'[s] \in {"solve", "exit"} /\ Kept(p) /\ Stored(s)
    BY <1>h, <1>1, ReadEffect
  <2>2. \/ Stored(p)
        \/ /\ transit[p] # <<>> /\ transit'[p] = Tail(transit[p])
           /\ pool'[p] = pool[p] + 1 \/ (~Fits(p) /\ pool'[p] = pool[p])
    <3>1. CASE transit[p] = <<>> BY <1>h, <3>1, ReadEffect
    <3>2. CASE transit[p] # <<>> BY <1>h, <3>2, ReadEffect
    <3> QED BY <3>1, <3>2
  <2>3. Hand(p)' = Hand(p) /\ Hand(p) \in Nat BY <2>1 DEF Hand, Kept
  <2>4. PoolOf(s)' BY <1>1, <1>2, <1>3, <1>5, <2>1 DEF PoolOf, Unopened, Hand, Kept, Stored, Closed
  <2>5. PoolOf(p)'
    <3>1. CASE Stored(p)
      BY <1>1, <1>2, <1>5, <2>1, <2>3, <3>1 DEF PoolOf, Unopened, Kept, Stored, Closed
    <3>2. CASE ~Stored(p)
      <4>1. /\ Len(transit'[p]) = Len(transit[p]) - 1 /\ control'[p] = control[p] /\ control[p] \notin Unopened
            /\ pool'[p] = pool[p] + 1 \/ (~Fits(p) /\ pool'[p] = pool[p])
            /\ control[s] # "done"
        BY <1>4, <1>5, <2>1, <2>2, <3>2 DEF Kept, PoolOf, Unopened
      <4>2. pool[p] + Len(transit[p]) + 1 + Hand(p) <= PoolLen
        BY <1>5, <4>1 DEF PoolOf, Unopened
      <4>3. pool'[p] + Len(transit'[p]) + 1 + Hand(p)' <= PoolLen
        <5>1. pool'[p] = pool[p] + 1 \/ pool'[p] = pool[p] BY <4>1
        <5>2. Len(transit'[p]) = Len(transit[p]) - 1 BY <4>1
        <5>3. CASE pool'[p] = pool[p] + 1 BY ONLY <1>3, <2>3, <5>2, <5>3, <4>2
        <5>4. CASE pool'[p] = pool[p] BY ONLY <1>3, <2>3, <5>2, <5>4, <4>2
        <5> QED BY <5>1, <5>3, <5>4
      <4>4. ASSUME Fits(p)
            PROVE  pool'[p] + Len(transit'[p]) + 1 + Hand(p)' = PoolLen
        <5>1. pool[p] + Len(transit[p]) + 1 + Hand(p) = PoolLen
          BY <1>1, <1>5, <4>1, <4>4 DEF PoolOf, Unopened, Closed
        <5> QED BY <1>3, <2>3, <4>1, <4>4, <5>1
      <4> QED BY <1>1, <1>2, <4>1, <4>3, <4>4 DEF PoolOf, Unopened
    <3> QED BY <3>1, <3>2
  <2> QED BY <2>4, <2>5
<1> QED BY <1>a, <1>b, <1>c, <1>d, <1>e, <1>f, <1>g, <1>h, Kinds

(* A step keeps the types; a pool never grows beyond its size, because the *)
(* sample that is released was counted in the queue.                       *)
LEMMA TypeStep ==
  ASSUME TypeOK, NEW s \in Sims, Simulator(s), mode' = mode, PoolOf(s), PoolOf(Peer[s])
  PROVE  TypeOK'
<1> DEFINE p == Peer[s]
<1>1. p \in Sims /\ p # s /\ mode' \in Modes /\ PoolLen' = PoolLen
  BY Modalities, Constant DEF TypeOK
<1>2. /\ control \in [Sims -> PC] /\ count \in [Sims -> Nat] /\ sequence \in [Sims -> Nat]
      /\ transit \in [Sims -> Samples] /\ pool \in [Sims -> 0..PoolLen]
      /\ imported \in [Sims -> Nat] /\ PoolLen \in Nat
      /\ \A t \in Sims : Len(transit[t]) <= QueueLen
  BY Modalities DEF TypeOK, Sample, Samples
<1>3. Append(transit[s], Outgoing(s)) \in Samples
  BY SampleOps DEF Samples
<1>4. /\ transit[p] # <<>> => Tail(transit[p]) \in Samples /\ Head(transit[p]).seq \in Nat
      /\ transit[p] # <<>> => Len(Tail(transit[p])) = Len(transit[p]) - 1 /\ Len(transit[p]) > 0
      /\ Len(transit[p]) \in Nat /\ Len(transit[s]) \in Nat /\ QueueLen \in Nat
      /\ Len(Append(transit[s], Outgoing(s))) = Len(transit[s]) + 1
  BY SampleOps, BoundAssumption, <1>1 DEF Samples
<1>5. PoolOf(s) /\ PoolOf(p) OBVIOUS
<1> SUFFICES /\ control' \in [Sims -> PC] /\ count' \in [Sims -> Nat] /\ sequence' \in [Sims -> Nat]
             /\ transit' \in [Sims -> Samples] /\ pool' \in [Sims -> 0..PoolLen]
             /\ imported' \in [Sims -> Nat]
             /\ \A t \in Sims : Len(transit'[t]) <= QueueLen
  BY <1>1 DEF TypeOK, Sample, Samples
<1> HIDE DEF p
<1>a. CASE Create(s) 
  <2>1. pool[s] = PoolLen BY <1>a, <1>5 DEF Create, PoolOf, Unopened
  <2> QED BY <1>a, <1>2, <2>1, Modalities DEF TypeOK, Create, Goto, PC
<1>b. CASE Control(s)
  <2>1. CASE Open(s) BY <1>2, <2>1 DEF Open, Goto, PC
  <2>2. CASE Loop(s) BY <1>2, <2>2 DEF Loop, Goto, PC
  <2>3. CASE Solve(s) BY <1>2, <2>3 DEF Solve, Goto, PC
  <2>4. CASE NextStep(s) BY <1>2, <2>4 DEF NextStep, Goto, PC
  <2>5. CASE Close(s) BY <1>2, <2>5 DEF Close, Goto, PC
  <2>6. CASE OpenFails(s) BY <1>2, <2>6 DEF OpenFails, Goto, PC
  <2> QED BY <1>b, <2>1, <2>2, <2>3, <2>4, <2>5, <2>6 DEF Control
<1>c. ASSUME NEW from \in PC, NEW to \in PC, Alloc(s, from, to)
      PROVE  /\ control' \in [Sims -> PC] /\ sequence' \in [Sims -> Nat] /\ pool' \in [Sims -> 0..PoolLen]
             /\ UNCHANGED <<count, transit, imported>>
  <2>1. CASE pool[s] = 0 BY <1>c, <1>2, <2>1 DEF Alloc, Goto, PC
  <2>2. CASE pool[s] # 0
    <3>1. sequence' = [sequence EXCEPT ![s] = @ + 1] \/ sequence' = sequence
      BY <1>c, <2>2 DEF Alloc
    <3>2. sequence' \in [Sims -> Nat]
      <4>1. sequence \in [Sims -> Nat] BY <1>2
      <4>2. CASE sequence' = [sequence EXCEPT ![s] = @ + 1] BY ONLY <4>1, <4>2
      <4> QED BY <3>1, <4>1, <4>2
    <3>3. /\ control' = [control EXCEPT ![s] = to] /\ UNCHANGED <<count, transit, imported>>
          /\ pool' = [pool EXCEPT ![s] = @ - 1]
      BY <1>c, <2>2 DEF Alloc, Goto
    <3>4. pool' \in [Sims -> 0..PoolLen] BY <1>2, <2>2, <3>3
    <3> QED BY <1>c, <1>2, <3>2, <3>3, <3>4
  <2> QED BY <2>1, <2>2
<1>d. ASSUME NEW from \in PC, NEW to \in PC, Push(s, from, to)
      PROVE  /\ control' \in [Sims -> PC] /\ transit' \in [Sims -> Samples]
             /\ \A t \in Sims : Len(transit'[t]) <= QueueLen
             /\ UNCHANGED <<count, sequence, pool, imported>>
  <2>1. CASE transit' = transit BY <1>d, <1>2, <2>1 DEF Push, Goto
  <2>2. CASE Len(transit[s]) < QueueLen /\ transit' = [transit EXCEPT ![s] = Append(@, Outgoing(s))]
    BY <1>d, <1>2, <1>3, <1>4, <2>2 DEF Push, Goto
  <2> QED BY <1>d, <2>1, <2>2 DEF Push
<1>e. ASSUME NEW from \in PC, NEW to \in PC, NEW blocking, ReadValues(s, blocking, from, to)
      PROVE  /\ control' \in [Sims -> PC] /\ transit' \in [Sims -> Samples]
             /\ imported' \in [Sims -> Nat] /\ pool' \in [Sims -> 0..PoolLen]
             /\ \A t \in Sims : Len(transit'[t]) <= QueueLen
             /\ UNCHANGED <<count, sequence>>
  <2>1. CASE transit[p] = <<>>
    <3>1. UNCHANGED <<imported, transit, pool, count, sequence>> /\ (Goto(s, to) \/ Goto(s, "exit"))
      BY <1>e, <2>1 DEF ReadValues, p
    <3> QED BY <1>2, <3>1 DEF Goto, PC
  <2>2. CASE transit[p] # <<>>
    <3>1. /\ transit' = [transit EXCEPT ![p] = Tail(@)] /\ Release(p) /\ UNCHANGED <<count, sequence>>
          /\ \/ Goto(s, to) /\ imported' = [imported EXCEPT ![s] = Head(transit[p]).seq]
             \/ Goto(s, "exit") /\ UNCHANGED imported
      BY <1>e, <2>2 DEF ReadValues, p
    <3>2. pool[p] < PoolLen
      <4>1. control[p] \notin Unopened /\ pool[p] + Len(transit[p]) + 1 + Hand(p) <= PoolLen
        BY <1>5, <2>2 DEF PoolOf
      <4>2. Hand(p) \in Nat BY DEF Hand
      <4> QED BY ONLY <1>1, <1>2, <1>4, <4>1, <4>2
    <3>3. pool' \in [Sims -> 0..PoolLen] BY <1>2, <3>1, <3>2 DEF Release
    <3>4. transit' \in [Sims -> Samples] BY <1>2, <1>4, <2>2, <3>1
    <3>5. \A t \in Sims : Len(transit'[t]) <= QueueLen BY <1>1, <1>2, <1>4, <2>2, <3>1
    <3>6. control' \in [Sims -> PC] /\ imported' \in [Sims -> Nat]
      BY <1>2, <1>4, <2>2, <3>1 DEF Goto, PC
    <3> QED BY <3>1, <3>3, <3>4, <3>5, <3>6
  <2> QED BY <2>1, <2>2
<1>f. {"sync_write", "sync_push", "sync_read", "write", "push", "next", "read", "solve", "loop"} \subseteq PC
  BY DEF PC
<1>g. CASE Alloc(s, "sync_write", "sync_push") \/ Alloc(s, "write", "push")
  BY <1>2, <1>c, <1>f, <1>g
<1>h. CASE Push(s, "sync_push", "sync_read") \/ Push(s, "push", "next")
  BY <1>2, <1>d, <1>f, <1>h
<1>i. CASE \/ ReadValues(s, SyncStart[s], "sync_read", "loop")
           \/ ReadValues(s, Sync[s], "read", "solve")
  BY <1>2, <1>e, <1>f, <1>i
<1> QED BY <1>a, <1>b, <1>g, <1>h, <1>i, Kinds

(* A step keeps the facts about the time step and the samples numbered and *)
(* imported by the one that makes it.                                      *)
LEMMA OwnStep ==
  ASSUME TypeOK, NEW s \in Sims, Simulator(s), mode' = mode, Locally(s)
  PROVE  ControlOf(s)' /\ SentOf(s)' /\ ImportOf(s)'
<1> DEFINE p == Peer[s]
           d == Downsampling[s]
           c == count[s]
<1>1. /\ p \in Sims /\ p # s /\ d \in Nat \ {0} /\ c \in Nat /\ LastStep \in Nat
      /\ sequence[s] \in Nat /\ imported[s] \in Nat /\ Starts(s) \in {0, 1}
      /\ Sync[s] \in BOOLEAN /\ SyncStart[s] \in BOOLEAN /\ StartSync[s] \in BOOLEAN
  BY Modalities, Values, BoundAssumption DEF TypeOK, Starts
<1>2. /\ Fits(s)' = Fits(s) /\ Fits(p)' = Fits(p) /\ Starts(s)' = Starts(s)
      /\ Sync' = Sync /\ SyncStart' = SyncStart /\ StartSync' = StartSync
      /\ Downsampling' = Downsampling /\ Follower(s)' = Follower(s)
  BY Constant
<1>3. /\ c = 0 => Ceil(c, d) = 0
      /\ Quot(c, d) \in Nat /\ Ceil(c, d) \in Nat
      /\ Due(s) => Ceil(c, d) = Quot(c, d)
      /\ ~Due(s) => Ceil(c, d) = Quot(c, d) + 1
      /\ Ceil(c + 1, d) = Quot(c, d) + 1
  BY <1>1, Exchanges DEF Due
<1>4. ControlOf(s) /\ SentOf(s) /\ ImportOf(s) BY DEF Locally
<1>5. /\ StartSync[s] => Starts(s) = 1
      /\ ~StartSync[s] => Starts(s) = 0
      /\ Follower(s) => Sync[s] /\ (StartSync[s] => SyncStart[s])
  BY DEF Starts, Follower
<1>6. count'[s] = count[s] => Due(s)' = Due(s) BY <1>2 DEF Due
<1>7. /\ Fits(p) /\ control[s] \notin {"done", "exit"} /\ transit[p] # <<>>
      => Head(transit[p]).seq = imported[s] + 1
  <2> SUFFICES ASSUME Fits(p), control[s] \notin {"done", "exit"}, transit[p] # <<>>
               PROVE  Head(transit[p]).seq = imported[s] + 1
    OBVIOUS
  <2>1. 1 \in 1..Len(transit[p]) /\ Head(transit[p]) = transit[p][1]
    BY <1>1 DEF TypeOK
  <2>2. transit[p][1] = [seq |-> imported[s] + 1, len |-> Width(p)]
    BY <2>1 DEF Locally, LinkOf
  <2> QED BY <2>1, <2>2
<1> HIDE DEF d, c, p
<1>a. CASE Create(s)
  BY <1>1, <1>2, <1>4, <1>a, CreateEffect DEF ControlOf, SentOf, ImportOf, Starting, Running
<1>b. CASE Control(s)
  <2>1. sequence'[s] = sequence[s] /\ imported'[s] = imported[s] BY <1>b, ControlEffect
  <2>2. CASE control[s] = "opening"
    <3>1. count'[s] = c /\ (StartSync[s] => control'[s] = "sync_write") /\ (~StartSync[s] => control'[s] = "loop")
      BY <1>b, <2>2, ControlEffect DEF c
    <3>7. ControlOf(s)' BY <1>1, <1>2, <1>3, <1>4, <1>5, <1>6, <2>1, <2>2, <3>1
        DEF ControlOf, Starting, c, d, p
    <3>8. SentOf(s)' BY <1>1, <1>2, <1>3, <1>4, <1>5, <2>1, <2>2, <3>1
        DEF SentOf, ControlOf, Starting, c, d, p
    <3>9. ImportOf(s)' BY <1>1, <1>2, <1>3, <1>4, <1>5, <2>1, <2>2, <3>1
        DEF ImportOf, Running, ControlOf, Starting, c, d, p
    <3> QED BY <3>7, <3>8, <3>9
  <2>3. CASE control[s] = "loop"
    <3>1. /\ count'[s] = c
          /\ \/ c >= LastStep /\ control'[s] = "close"
             \/ c < LastStep /\ Due(s) /\ control'[s] = "read"
             \/ ~Due(s) /\ control'[s] = "solve"
      BY <1>b, <2>3, ControlEffect DEF c
    <3>7. ControlOf(s)' BY <1>1, <1>2, <1>3, <1>4, <1>5, <1>6, <2>1, <2>3, <3>1
        DEF ControlOf, Starting, c, d, p
    <3>8. SentOf(s)' BY <1>1, <1>2, <1>3, <1>4, <1>5, <2>1, <2>3, <3>1
        DEF SentOf, ControlOf, Starting, c, d, p
    <3>9. ImportOf(s)' BY <1>1, <1>2, <1>3, <1>4, <1>5, <2>1, <2>3, <3>1
        DEF ImportOf, Running, ControlOf, Starting, c, d, p
    <3> QED BY <3>7, <3>8, <3>9
  <2>4. CASE control[s] = "solve"
    <3>1. count'[s] = c /\ (Due(s) => control'[s] = "write") /\ (~Due(s) => control'[s] = "next")
      BY <1>b, <2>4, ControlEffect DEF c
    <3>7. ControlOf(s)' BY <1>1, <1>2, <1>3, <1>4, <1>5, <1>6, <2>1, <2>4, <3>1
        DEF ControlOf, Starting, c, d, p
    <3>8. SentOf(s)' BY <1>1, <1>2, <1>3, <1>4, <1>5, <2>1, <2>4, <3>1
        DEF SentOf, ControlOf, Starting, c, d, p
    <3>9. ImportOf(s)' BY <1>1, <1>2, <1>3, <1>4, <1>5, <2>1, <2>4, <3>1
        DEF ImportOf, Running, ControlOf, Starting, c, d, p
    <3> QED BY <3>7, <3>8, <3>9
  <2>5. CASE control[s] = "next"
    <3>1. count'[s] = c + 1 /\ control'[s] = "loop" BY <1>b, <2>5, ControlEffect DEF c
    <3>7. ControlOf(s)' BY <1>1, <1>2, <1>3, <1>4, <1>5, <1>6, <2>1, <2>5, <3>1
        DEF ControlOf, Starting, c, d, p
    <3>8. SentOf(s)' BY <1>1, <1>2, <1>3, <1>4, <1>5, <2>1, <2>5, <3>1
        DEF SentOf, ControlOf, Starting, c, d, p
    <3>9. ImportOf(s)' BY <1>1, <1>2, <1>3, <1>4, <1>5, <2>1, <2>5, <3>1
        DEF ImportOf, Running, ControlOf, Starting, c, d, p
    <3> QED BY <3>7, <3>8, <3>9
  <2>6. CASE control[s] = "close"
    <3>1. count'[s] = c /\ control'[s] = "done" BY <1>b, <2>6, ControlEffect DEF c
    <3>7. ControlOf(s)' BY <1>1, <1>2, <1>3, <1>4, <1>5, <1>6, <2>1, <2>6, <3>1
        DEF ControlOf, Starting, c, d, p
    <3>8. SentOf(s)' BY <1>1, <1>2, <1>3, <1>4, <1>5, <2>1, <2>6, <3>1
        DEF SentOf, ControlOf, Starting, c, d, p
    <3>9. ImportOf(s)' BY <1>1, <1>2, <1>3, <1>4, <1>5, <2>1, <2>6, <3>1
        DEF ImportOf, Running, ControlOf, Starting, c, d, p
    <3> QED BY <3>7, <3>8, <3>9
  <2>7. CASE control[s] = "new"
    <3>1. control'[s] = "failed" BY <1>b, <2>7, ControlEffect
    <3> QED BY <3>1 DEF ControlOf, SentOf, ImportOf, Starting, Running
  <2> QED BY <1>b, <2>2, <2>3, <2>4, <2>5, <2>6, <2>7, ControlEffect
<1>c. CASE Alloc(s, "sync_write", "sync_push")
  <2>1. /\ control[s] = "sync_write" /\ count'[s] = c /\ imported'[s] = imported[s]
        /\ control'[s] \in {"underrun", "sync_push"}
        /\ Fits(s) /\ control'[s] = "sync_push" => sequence'[s] = sequence[s] + 1
    BY <1>c, AllocEffect DEF c
  <2>7. ControlOf(s)' BY <1>1, <1>2, <1>3, <1>4, <1>5, <1>6, <2>1
      DEF ControlOf, Starting, c, d, p
  <2>8. SentOf(s)' BY <1>1, <1>2, <1>3, <1>4, <1>5, <2>1
      DEF SentOf, ControlOf, Starting, c, d, p
  <2>9. ImportOf(s)' BY <1>1, <1>2, <1>3, <1>4, <1>5, <2>1
      DEF ImportOf, Running, ControlOf, Starting, c, d, p
  <2> QED BY <2>7, <2>8, <2>9
<1>d. CASE Alloc(s, "write", "push")
  <2>1. /\ control[s] = "write" /\ count'[s] = c /\ imported'[s] = imported[s]
        /\ control'[s] \in {"underrun", "push"}
        /\ Fits(s) /\ control'[s] = "push" => sequence'[s] = sequence[s] + 1
    BY <1>d, AllocEffect DEF c
  <2>7. ControlOf(s)' BY <1>1, <1>2, <1>3, <1>4, <1>5, <1>6, <2>1
      DEF ControlOf, Starting, c, d, p
  <2>8. SentOf(s)' BY <1>1, <1>2, <1>3, <1>4, <1>5, <2>1
      DEF SentOf, ControlOf, Starting, c, d, p
  <2>9. ImportOf(s)' BY <1>1, <1>2, <1>3, <1>4, <1>5, <2>1
      DEF ImportOf, Running, ControlOf, Starting, c, d, p
  <2> QED BY <2>7, <2>8, <2>9
<1>e. CASE Push(s, "sync_push", "sync_read")
  <2>1. /\ control[s] = "sync_push" /\ count'[s] = c /\ imported'[s] = imported[s]
        /\ control'[s] = "sync_read" /\ sequence'[s] = sequence[s]
    BY <1>e, PushEffect DEF c
  <2>7. ControlOf(s)' BY <1>1, <1>2, <1>3, <1>4, <1>5, <1>6, <2>1
      DEF ControlOf, Starting, c, d, p
  <2>8. SentOf(s)' BY <1>1, <1>2, <1>3, <1>4, <1>5, <2>1
      DEF SentOf, ControlOf, Starting, c, d, p
  <2>9. ImportOf(s)' BY <1>1, <1>2, <1>3, <1>4, <1>5, <2>1
      DEF ImportOf, Running, ControlOf, Starting, c, d, p
  <2> QED BY <2>7, <2>8, <2>9
<1>f. CASE Push(s, "push", "next")
  <2>1. /\ control[s] = "push" /\ count'[s] = c /\ imported'[s] = imported[s]
        /\ control'[s] = "next" /\ sequence'[s] = sequence[s]
    BY <1>f, PushEffect DEF c
  <2>7. ControlOf(s)' BY <1>1, <1>2, <1>3, <1>4, <1>5, <1>6, <2>1
      DEF ControlOf, Starting, c, d, p
  <2>8. SentOf(s)' BY <1>1, <1>2, <1>3, <1>4, <1>5, <2>1
      DEF SentOf, ControlOf, Starting, c, d, p
  <2>9. ImportOf(s)' BY <1>1, <1>2, <1>3, <1>4, <1>5, <2>1
      DEF ImportOf, Running, ControlOf, Starting, c, d, p
  <2> QED BY <2>7, <2>8, <2>9
<1>g. CASE ReadValues(s, SyncStart[s], "sync_read", "loop")
  <2>1. control[s] = "sync_read" /\ count'[s] = c /\ sequence'[s] = sequence[s]
    BY <1>g, ReadEffect DEF c
  <2>2. \/ control'[s] = "exit" /\ imported'[s] = imported[s]
        \/ control'[s] = "loop" /\ ~SyncStart[s] /\ imported'[s] = imported[s]
        \/ control'[s] = "loop" /\ (Fits(p) => imported'[s] = imported[s] + 1)
    <3>1. CASE transit[p] = <<>> BY <1>g, <3>1, ReadEffect DEF p
    <3>2. CASE transit[p] # <<>> BY <1>7, <1>g, <2>1, <3>2, ReadEffect DEF p
    <3> QED BY <3>1, <3>2
  <2>3. CASE control'[s] = "exit" BY <2>1, <2>2, <2>3
      DEF ControlOf, SentOf, ImportOf, Starting, Running
  <2>4. CASE control'[s] = "loop"
    <3>7. ControlOf(s)' BY <1>1, <1>2, <1>3, <1>4, <1>5, <1>6, <2>1, <2>2, <2>4
        DEF ControlOf, Starting, c, d, p
    <3>8. SentOf(s)' BY <1>1, <1>2, <1>3, <1>4, <1>5, <2>1, <2>2, <2>4
        DEF SentOf, ControlOf, Starting, c, d, p
    <3>9. ImportOf(s)' BY <1>1, <1>2, <1>3, <1>4, <1>5, <2>1, <2>2, <2>4
        DEF ImportOf, Running, ControlOf, Starting, c, d, p
    <3> QED BY <3>7, <3>8, <3>9
  <2> QED BY <2>2, <2>3, <2>4
<1>h. CASE ReadValues(s, Sync[s], "read", "solve")
  <2>1. control[s] = "read" /\ count'[s] = c /\ sequence'[s] = sequence[s] BY <1>h, ReadEffect DEF c
  <2>2. \/ control'[s] = "exit" /\ imported'[s] = imported[s]
        \/ control'[s] = "solve" /\ ~Sync[s] /\ imported'[s] = imported[s]
        \/ control'[s] = "solve" /\ (Fits(p) => imported'[s] = imported[s] + 1)
    <3>1. CASE transit[p] = <<>> BY <1>h, <3>1, ReadEffect DEF p
    <3>2. CASE transit[p] # <<>> BY <1>7, <1>h, <2>1, <3>2, ReadEffect DEF p
    <3> QED BY <3>1, <3>2
  <2>3. CASE control'[s] = "exit" BY <2>1, <2>2, <2>3
      DEF ControlOf, SentOf, ImportOf, Starting, Running
  <2>4. CASE control'[s] = "solve"
    <3>7. ControlOf(s)' BY <1>1, <1>2, <1>3, <1>4, <1>5, <1>6, <2>1, <2>2, <2>4
        DEF ControlOf, Starting, c, d, p
    <3>8. SentOf(s)' BY <1>1, <1>2, <1>3, <1>4, <1>5, <2>1, <2>2, <2>4
        DEF SentOf, ControlOf, Starting, c, d, p
    <3>9. ImportOf(s)' BY <1>1, <1>2, <1>3, <1>4, <1>5, <2>1, <2>2, <2>4
        DEF ImportOf, Running, ControlOf, Starting, c, d, p
    <3> QED BY <3>7, <3>8, <3>9
  <2> QED BY <2>2, <2>3, <2>4
<1> QED BY <1>a, <1>b, <1>c, <1>d, <1>e, <1>f, <1>g, <1>h, Kinds

(* A step keeps both links in order.                                       *)
LEMMA LinkStep ==
  ASSUME TypeOK, NEW s \in Sims, Simulator(s), mode' = mode, Locally(s), Locally(Peer[s])
  PROVE  LinkOf(s)' /\ LinkOf(Peer[s])'
<1> DEFINE p == Peer[s]
<1>1. p \in Sims /\ p # s /\ Peer[p] = s /\ Peer[s] = p BY Modalities DEF TypeOK
<1>2. /\ Fits(s)' = Fits(s) /\ Fits(p)' = Fits(p)
      /\ Width(s)' = Width(s) /\ Width(p)' = Width(p)
  BY Constant
<1>3. /\ transit[s] \in Seq(Sample) /\ transit[p] \in Seq(Sample) /\ Outgoing(s) \in Sample
      /\ imported[s] \in Nat /\ imported[p] \in Nat /\ sequence[s] \in Nat /\ sequence[p] \in Nat
      /\ Hand(s) \in Nat /\ Hand(p) \in Nat
      /\ Len(transit[s]) \in Nat /\ Len(transit[p]) \in Nat
  BY <1>1, SampleOps, Values
<1>4. LinkOf(s) /\ LinkOf(p) /\ SentOf(s) BY DEF Locally
<1> SUFFICES LinkOf(s)' /\ LinkOf(p)' OBVIOUS
<1> HIDE DEF p
(* Nothing that the link from p to s depends on has changed.               *)
<1>5. ASSUME Kept(p), transit'[p] = transit[p], imported'[s] = imported[s], control[s] \notin {"done", "exit"}
      PROVE  LinkOf(s)'
  <2>1. Hand(p)' = Hand(p) BY <1>5 DEF Kept, Hand
  <2> QED BY <1>1, <1>2, <1>4, <1>5, <2>1 DEF LinkOf, Kept
(* Nothing that the link from s to p depends on has changed.               *)
<1>6. ASSUME Kept(p), transit'[s] = transit[s], Fits(s) => sequence'[s] = sequence[s], Hand(s)' = Hand(s)
      PROVE  LinkOf(p)'
  BY <1>1, <1>2, <1>4, <1>6 DEF LinkOf, Kept
<1>a. CASE Create(s)
  <2>1. /\ Kept(p) /\ Stored(p) /\ transit'[s] = transit[s] /\ imported'[s] = imported[s]
        /\ control[s] = "new" /\ control'[s] = "opening" /\ sequence'[s] = 0
    BY <1>1, <1>a, CreateEffect
  <2>2. Hand(s)' = Hand(s) BY <2>1 DEF Hand
  <2>3. Fits(s) => sequence[s] = 0 BY <1>4, <2>1 DEF SentOf
  <2> QED BY <1>5, <1>6, <2>1, <2>2, <2>3 DEF Stored
<1>b. CASE Control(s)
  <2>1. /\ Kept(p) /\ Stored(p) /\ transit'[s] = transit[s] /\ imported'[s] = imported[s]
        /\ sequence'[s] = sequence[s] /\ control[s] \in {"new", "opening", "loop", "solve", "next", "close"}
        /\ control'[s] \in {"failed", "sync_write", "loop", "close", "read", "solve", "write", "next", "done"}
    BY <1>1, <1>b, ControlEffect DEF Stored
  <2>2. Hand(s)' = Hand(s) BY <2>1 DEF Hand
  <2> QED BY <1>5, <1>6, <2>1, <2>2 DEF Stored
(* A sample is added to the link from s to p.                              *)
<1>7. ASSUME Kept(p), sequence'[s] = sequence[s], Hand(s) = 1, Hand(s)' = 0,
             ~Closed(p) => transit'[s] = Append(transit[s], Outgoing(s))
      PROVE  LinkOf(p)'
  <2> SUFFICES ASSUME Fits(s), control[p] \notin {"done", "exit"}
               PROVE  /\ \A i \in 1..Len(transit'[s]) :
                           transit'[s][i] = [seq |-> imported[p] + i, len |-> Width(s)]
                      /\ sequence[s] = imported[p] + Len(transit'[s]) + 0
    BY <1>1, <1>2, <1>7 DEF LinkOf, Kept
  <2> DEFINE q == transit[s]
             e == Outgoing(s)
  <2>1. transit'[s] = Append(q, e) BY <1>7 DEF Closed
  <2>2. /\ \A i \in 1..Len(q) : q[i] = [seq |-> imported[p] + i, len |-> Width(s)]
        /\ sequence[s] = imported[p] + Len(q) + 1
    BY <1>1, <1>4, <1>7 DEF LinkOf
  <2>3. e = [seq |-> imported[p] + (Len(q) + 1), len |-> Width(s)]
    BY <1>3, <2>2 DEF Outgoing
  <2>4. q \in Seq(Sample) /\ e \in Sample BY <1>3
  <2> HIDE DEF q, e
  <2>5. /\ Len(Append(q, e)) = Len(q) + 1 /\ Len(q) \in Nat
        /\ \A i \in 1..Len(q) : Append(q, e)[i] = q[i]
        /\ Append(q, e)[Len(q) + 1] = e
    BY <2>4, QueueOps
  <2>6. sequence[s] = imported[p] + Len(transit'[s]) + 0 BY <1>3, <2>1, <2>2, <2>5
  <2>7. ASSUME NEW i \in 1..Len(transit'[s])
        PROVE  transit'[s][i] = [seq |-> imported[p] + i, len |-> Width(s)]
    <3>1. i \in 1..Len(q) \/ i = Len(q) + 1 BY <2>1, <2>5
    <3>2. CASE i \in 1..Len(q) BY <2>1, <2>2, <2>5, <3>2
    <3>3. CASE i = Len(q) + 1 BY <2>1, <2>3, <2>5, <3>3
    <3> QED BY <3>1, <3>2, <3>3
  <2> QED BY <2>6, <2>7
(* A sample is taken from the link from p to s.                            *)
<1>8. ASSUME Kept(p), control[s] \notin {"done", "exit"}, transit[p] # <<>>,
             transit'[p] = Tail(transit[p]), control'[s] = "exit" \/ imported'[s] = Head(transit[p]).seq
      PROVE  LinkOf(s)'
  <2> SUFFICES ASSUME Fits(p), control'[s] # "exit"
               PROVE  /\ \A i \in 1..Len(transit'[p]) :
                           transit'[p][i] = [seq |-> imported'[s] + i, len |-> Width(p)]
                      /\ sequence[p] = imported'[s] + Len(transit'[p]) + Hand(p)
    <3>1. Hand(p)' = Hand(p) BY <1>8 DEF Kept, Hand
    <3> QED BY <1>1, <1>2, <1>8, <3>1 DEF LinkOf, Kept
  <2> DEFINE q == transit[p]
  <2>1. /\ \A i \in 1..Len(q) : q[i] = [seq |-> imported[s] + i, len |-> Width(p)]
        /\ sequence[p] = imported[s] + Len(q) + Hand(p)
    BY <1>1, <1>4, <1>8 DEF LinkOf
  <2>2. q \in Seq(Sample) /\ q # <<>> /\ Len(q) \in Nat BY <1>3, <1>8
  <2>3. transit'[p] = Tail(q) /\ imported'[s] = Head(q).seq BY <1>8
  <2> HIDE DEF q
  <2>4. /\ Len(q) > 0 /\ Len(Tail(q)) = Len(q) - 1 /\ Head(q) = q[1]
        /\ \A i \in 1..(Len(q) - 1) : Tail(q)[i] = q[i + 1]
    BY <2>2, QueueOps
  <2>5. imported'[s] = imported[s] + 1
    <3>1. q[1] = [seq |-> imported[s] + 1, len |-> Width(p)] BY <2>1, <2>2, <2>4
    <3> QED BY <2>3, <2>4, <3>1
  <2>6. sequence[p] = imported'[s] + Len(transit'[p]) + Hand(p)
    BY <1>3, <2>1, <2>2, <2>3, <2>4, <2>5
  <2>7. ASSUME NEW i \in 1..Len(transit'[p])
        PROVE  transit'[p][i] = [seq |-> imported'[s] + i, len |-> Width(p)]
    <3>1. i \in 1..(Len(q) - 1) /\ i + 1 \in 1..Len(q) BY <2>2, <2>3, <2>4
    <3>2. imported[s] + (i + 1) = imported'[s] + i
      <4>1. imported[s] \in Nat /\ i \in Nat BY <1>3, <3>1
      <4> QED BY ONLY <2>5, <4>1
    <3>3. q[i + 1] = [seq |-> imported[s] + (i + 1), len |-> Width(p)] BY <2>1, <3>1
    <3> QED BY <2>3, <2>4, <3>1, <3>2, <3>3
  <2> QED BY <2>6, <2>7
<1>c. CASE Alloc(s, "sync_write", "sync_push")
  <2>1. /\ Kept(p) /\ Stored(p) /\ transit'[s] = transit[s] /\ imported'[s] = imported[s]
        /\ control[s] = "sync_write"
        /\ \/ control'[s] = "underrun" /\ sequence'[s] = sequence[s]
           \/ control'[s] = "sync_push" /\ (Fits(s) => sequence'[s] = sequence[s] + 1)
    BY <1>1, <1>c, AllocEffect
  <2>2. Hand(s) = 0 BY <2>1 DEF Hand
  <2>3. ASSUME control'[s] = "underrun" PROVE LinkOf(p)'
    <3>1. Hand(s)' = 0 /\ sequence'[s] = sequence[s] BY <2>1, <2>3 DEF Hand
    <3> QED BY <1>6, <2>1, <2>2, <3>1
  <2>4. ASSUME control'[s] = "sync_push" PROVE LinkOf(p)'
    <3>1. Hand(s)' = 1 /\ (Fits(s) => sequence'[s] = sequence[s] + 1) BY <2>1, <2>4 DEF Hand
    <3>2. ASSUME Fits(s), control[p] \notin {"done", "exit"}
          PROVE  sequence'[s] = imported[p] + Len(transit[s]) + 1
      <4>1. sequence[s] = imported[p] + Len(transit[s]) + 0 BY <1>1, <1>4, <2>2, <3>2 DEF LinkOf
      <4> QED BY ONLY <1>3, <3>1, <3>2, <4>1
    <3> QED BY <1>1, <1>2, <1>4, <2>1, <3>1, <3>2 DEF LinkOf, Kept
  <2> QED BY <1>5, <2>1, <2>3, <2>4 DEF Stored
<1>d. CASE Alloc(s, "write", "push")
  <2>1. /\ Kept(p) /\ Stored(p) /\ transit'[s] = transit[s] /\ imported'[s] = imported[s]
        /\ control[s] = "write"
        /\ \/ control'[s] = "underrun" /\ sequence'[s] = sequence[s]
           \/ control'[s] = "push" /\ (Fits(s) => sequence'[s] = sequence[s] + 1)
    BY <1>1, <1>d, AllocEffect
  <2>2. Hand(s) = 0 BY <2>1 DEF Hand
  <2>3. ASSUME control'[s] = "underrun" PROVE LinkOf(p)'
    <3>1. Hand(s)' = 0 /\ sequence'[s] = sequence[s] BY <2>1, <2>3 DEF Hand
    <3> QED BY <1>6, <2>1, <2>2, <3>1
  <2>4. ASSUME control'[s] = "push" PROVE LinkOf(p)'
    <3>1. Hand(s)' = 1 /\ (Fits(s) => sequence'[s] = sequence[s] + 1) BY <2>1, <2>4 DEF Hand
    <3>2. ASSUME Fits(s), control[p] \notin {"done", "exit"}
          PROVE  sequence'[s] = imported[p] + Len(transit[s]) + 1
      <4>1. sequence[s] = imported[p] + Len(transit[s]) + 0 BY <1>1, <1>4, <2>2, <3>2 DEF LinkOf
      <4> QED BY ONLY <1>3, <3>1, <3>2, <4>1
    <3> QED BY <1>1, <1>2, <1>4, <2>1, <3>1, <3>2 DEF LinkOf, Kept
  <2> QED BY <1>5, <2>1, <2>3, <2>4 DEF Stored
<1>e. CASE Push(s, "sync_push", "sync_read")
  <2>1. /\ Kept(p) /\ Stored(p) /\ imported'[s] = imported[s] /\ sequence'[s] = sequence[s]
        /\ control[s] = "sync_push" /\ control'[s] = "sync_read"
        /\ ~Closed(p) => transit'[s] = Append(transit[s], Outgoing(s))
    BY <1>1, <1>e, PushEffect
  <2>2. Hand(s) = 1 /\ Hand(s)' = 0 BY <2>1 DEF Hand
  <2>3. LinkOf(p)' BY <1>7, <2>1, <2>2
  <2> QED BY <1>5, <2>1, <2>3 DEF Stored
<1>f. CASE Push(s, "push", "next")
  <2>1. /\ Kept(p) /\ Stored(p) /\ imported'[s] = imported[s] /\ sequence'[s] = sequence[s]
        /\ control[s] = "push" /\ control'[s] = "next"
        /\ ~Closed(p) => transit'[s] = Append(transit[s], Outgoing(s))
    BY <1>1, <1>f, PushEffect
  <2>2. Hand(s) = 1 /\ Hand(s)' = 0 BY <2>1 DEF Hand
  <2>3. LinkOf(p)' BY <1>7, <2>1, <2>2
  <2> QED BY <1>5, <2>1, <2>3 DEF Stored
<1>g. CASE ReadValues(s, SyncStart[s], "sync_read", "loop")
  <2>1. Kept(p) /\ Stored(s) /\ sequence'[s] = sequence[s] /\ control[s] = "sync_read" /\ control'[s] \in {"exit", "loop"}
    BY <1>1, <1>g, ReadEffect
  <2>2. Hand(s)' = Hand(s) BY <2>1 DEF Hand
  <2>3. LinkOf(p)' BY <1>6, <2>1, <2>2 DEF Stored
  <2>4. CASE transit[p] = <<>>
    <3>1. Stored(p) /\ imported'[s] = imported[s] BY <1>1, <1>g, <2>4, ReadEffect
    <3> QED BY <1>5, <2>1, <2>3, <3>1 DEF Stored
  <2>5. CASE transit[p] # <<>>
    <3>1. /\ transit'[p] = Tail(transit[p])
          /\ control'[s] = "exit" \/ imported'[s] = Head(transit[p]).seq
      BY <1>1, <1>g, <2>5, ReadEffect
    <3>2. LinkOf(s)' BY <1>8, <2>1, <2>5, <3>1
    <3> QED BY <2>3, <3>2
  <2> QED BY <2>4, <2>5
<1>h. CASE ReadValues(s, Sync[s], "read", "solve")
  <2>1. Kept(p) /\ Stored(s) /\ sequence'[s] = sequence[s] /\ control[s] = "read" /\ control'[s] \in {"exit", "solve"}
    BY <1>1, <1>h, ReadEffect
  <2>2. Hand(s)' = Hand(s) BY <2>1 DEF Hand
  <2>3. LinkOf(p)' BY <1>6, <2>1, <2>2 DEF Stored
  <2>4. CASE transit[p] = <<>>
    <3>1. Stored(p) /\ imported'[s] = imported[s] BY <1>1, <1>h, <2>4, ReadEffect
    <3> QED BY <1>5, <2>1, <2>3, <3>1 DEF Stored
  <2>5. CASE transit[p] # <<>>
    <3>1. /\ transit'[p] = Tail(transit[p])
          /\ control'[s] = "exit" \/ imported'[s] = Head(transit[p]).seq
      BY <1>1, <1>h, <2>5, ReadEffect
    <3>2. LinkOf(s)' BY <1>8, <2>1, <2>5, <3>1
    <3> QED BY <2>3, <3>2
  <2> QED BY <2>4, <2>5
<1> QED BY <1>a, <1>b, <1>c, <1>d, <1>e, <1>f, <1>g, <1>h, Kinds

(* So every step of a simulator keeps the invariant.                       *)
LEMMA Step ==
  ASSUME CoInv, NEW s \in Sims, Simulator(s), mode' = mode
  PROVE  CoInv'
<1>1. Peer[s] \in Sims /\ TypeOK /\ Locally(s) /\ Locally(Peer[s])
  BY Modalities DEF CoInv, TypeOK
<1>2. PoolOf(s) /\ PoolOf(Peer[s]) BY <1>1 DEF Locally
<1>3. TypeOK' BY <1>1, <1>2, TypeStep
<1>4. PoolOf(s)' /\ PoolOf(Peer[s])' BY <1>1, <1>2, PoolStep
<1>5. ControlOf(s)' /\ SentOf(s)' /\ ImportOf(s)' BY <1>1, OwnStep
<1>6. LinkOf(s)' /\ LinkOf(Peer[s])' BY <1>1, LinkStep
<1>7. \A t \in Sims : (t # s => Kept(t)) /\ (t # s /\ t # Peer[s] => Stored(t))
  BY <1>1, Kinds, CreateEffect, ControlEffect, AllocEffect, PushEffect, ReadEffect
<1>8. ControlOf(Peer[s])' /\ SentOf(Peer[s])' /\ ImportOf(Peer[s])'
  <2> DEFINE p == Peer[s]
  <2>1. p # s BY SimsAssumption
  <2>2. Kept(p) /\ Locally(p) BY <1>1, <1>7, <2>1
  <2> HIDE DEF p
  <2>3. Due(p)' = Due(p) BY <2>2, Constant DEF Due, Kept
  <2>4. ControlOf(p)' BY <2>2, <2>3, Constant DEF Locally, ControlOf, Kept
  <2>5. SentOf(p)' BY <2>2, Constant DEF Locally, SentOf, Kept
  <2>6. ImportOf(p)' BY <2>2, Constant DEF Locally, ImportOf, Kept
  <2> QED BY <2>4, <2>5, <2>6 DEF p
<1>9. Locally(s)' /\ Locally(Peer[s])' BY <1>4, <1>5, <1>6, <1>8 DEF Locally
<1> QED BY <1>3, <1>7, <1>9, Pairwise

(* The invariant holds of every state of the specification.                *)
LEMMA CoInvariant == Spec => []CoInv
<1>1. Init => CoInv
  <2> SUFFICES ASSUME Init PROVE CoInv OBVIOUS
  <2>0. PoolLen \in Nat BY ModeAssumption DEF Init, PoolLen
  <2>1. TypeOK BY <2>0, BoundAssumption DEF Init, TypeOK, PC
  <2>2. ASSUME NEW s \in Sims PROVE Locally(s)
    <3>1. /\ Peer[s] \in Sims /\ control[s] = "new" /\ control[Peer[s]] = "new" /\ count[s] = 0 /\ sequence[s] = 0
          /\ sequence[Peer[s]] = 0 /\ transit[s] = <<>> /\ transit[Peer[s]] = <<>> /\ pool[s] = PoolLen
          /\ imported[s] = 0
      BY SimsAssumption DEF Init
    <3>2. Hand(Peer[s]) = 0 /\ Len(<<>>) = 0 BY <3>1 DEF Hand
    <3>3. LinkOf(s) BY <3>1, <3>2 DEF LinkOf
    <3> QED BY <3>1, <3>3 DEF Locally, PoolOf, Unopened, ControlOf, SentOf, ImportOf, Running
  <2> QED BY <2>1, <2>2 DEF CoInv
<1>2. CoInv /\ [Next]_vars => CoInv'
  <2> SUFFICES ASSUME CoInv, [Next]_vars PROVE CoInv' OBVIOUS
  <2>1. ASSUME NEW s \in Sims, Simulator(s), UNCHANGED mode PROVE CoInv' BY <2>1, Step
  <2>2. CASE UNCHANGED vars
    <3>1. TypeOK' BY <2>2 DEF CoInv, TypeOK, vars, PoolLen
    <3>2. ASSUME NEW s \in Sims PROVE Locally(s)'
      BY <2>2, Bystander DEF CoInv, vars, Kept, Stored
    <3> QED BY <3>1, <3>2 DEF CoInv
  <2> QED BY <2>1, <2>2 DEF Next
<1> QED BY <1>1, <1>2, PTL DEF Spec

(* Start synchronisation (Simulation::sync): with syncStart no simulator   *)
(* solves before the peer has sent its initial values and it has read one. *)
THEOREM BarrierCorrect == Spec => []StartBarrier
<1>1. CoInv => StartBarrier
  <2> SUFFICES ASSUME CoInv, NEW s \in Sims, StartSync[s], SyncStart[s], Fits(Peer[s]), control[s] = "solve"
               PROVE  sequence[Peer[s]] > 0 /\ imported[s] > 0
    BY DEF StartBarrier
  <2> DEFINE p == Peer[s]
  <2>1. /\ p \in Sims /\ imported[s] \in Nat /\ sequence[p] \in Nat /\ Hand(p) \in Nat
        /\ Len(transit[p]) \in Nat
    BY Modalities, Values DEF CoInv, TypeOK
  <2>2. imported[s] > 0 BY DEF CoInv, Locally, ImportOf, Running
  <2>3. sequence[p] = imported[s] + Len(transit[p]) + Hand(p) BY DEF CoInv, Locally, LinkOf
  <2> QED BY <2>1, <2>2, <2>3
<1> QED BY <1>1, CoInvariant, PTL

(* A simulator that waits (Simulation::step with sync) solves a time step  *)
(* with the very sample the peer wrote for it, whatever the lengths of the *)
(* queue and the pool and the step sizes of the two.                       *)
THEOREM FollowerCorrect == Spec => []FollowsPeer
<1>1. CoInv => FollowsPeer
  <2> SUFFICES ASSUME CoInv, NEW s \in Sims, Sync[s], SyncStart[s], StartSync[s], Fits(Peer[s]),
                      control[s] = "solve"
               PROVE  imported[s] = (count[s] \div Downsampling[s]) + 2
    BY DEF FollowsPeer
  <2>1. imported[s] = Starts(s) + Quot(count[s], Downsampling[s]) + 1
    BY DEF CoInv, Locally, ImportOf, Follower
  <2>2. Starts(s) = 1 BY DEF Starts
  <2>3. Quot(count[s], Downsampling[s]) \in Nat BY Modalities, Values, Exchanges
      DEF CoInv, TypeOK
  <2>4. imported[s] = Quot(count[s], Downsampling[s]) + 2 BY ONLY <2>1, <2>2, <2>3
  <2> QED BY <2>4 DEF Quot
<1> QED BY <1>1, CoInvariant, PTL

(* Whoever exchanges as often, or more often, in at least as many steps    *)
(* has written more samples than the other one can read.                   *)
LEMMA WaiterServed ==
  ASSUME NEW d \in Nat \ {0}, NEW e \in Nat \ {0}, e <= d, NEW c \in Nat, NEW f \in Nat, c < f
  PROVE  Quot(c, d) < Ceil(f, e)
<1> DEFINE q == c \div d
           r == (f + e - 1) \div e
<1>1. q \in Nat /\ r \in Nat /\ q * d <= c /\ f <= r * e BY DEF Quot
<1>2. ASSUME r <= q PROVE FALSE
  <2>1. r * e <= q * d BY <1>1, <1>2
  <2> QED BY <1>1, <2>1
<1> QED BY <1>1, <1>2 DEF Quot, Ceil

(* The hypothesis about the set-up: the peer of a simulator that waits     *)
(* sends initial values if they are waited for, and exchanges as often.    *)
Served ==
  \A m \in Modes, s \in Sims :
    m.sync[s] \/ m.syncStart[s] =>
      /\ m.startSync[s] => m.startSync[Peer[s]]
      /\ m.downsampling[Peer[s]] <= m.downsampling[s]

(* Then nobody waits for a peer that has closed: when run() has returned,  *)
(* what the other side still waits for is in the queue.                    *)
LEMMA NeverAbandoned ==
  ASSUME Served, CoInv, NEW s \in Sims, Fits(Peer[s]), Closed(Peer[s]), transit[Peer[s]] = <<>>,
         \/ control[s] = "sync_read" /\ SyncStart[s]
         \/ control[s] = "read" /\ Sync[s]
  PROVE  FALSE
<1> DEFINE p == Peer[s]
<1>1. /\ p \in Sims /\ mode \in Modes /\ TypeOK /\ Locally(s) /\ Locally(p)
      /\ Downsampling[s] \in Nat \ {0} /\ Downsampling[p] \in Nat \ {0}
  BY Modalities DEF CoInv, TypeOK
<1>2. /\ StartSync[s] => StartSync[p]
      /\ Downsampling[p] <= Downsampling[s]
  BY <1>1 DEF Served, Sync, SyncStart, StartSync, Downsampling
<1>3. /\ count[s] \in Nat /\ count[p] \in Nat /\ imported[s] \in Nat /\ LastStep \in Nat
      /\ Starts(s) <= Starts(p) /\ Starts(s) \in Nat /\ Starts(p) \in Nat
  BY <1>1, <1>2, Values, BoundAssumption DEF Starts
<1>4. control[p] = "done" /\ Hand(p) = 0 BY DEF Closed, Hand
<1>5. Len(transit[p]) = 0 BY <1>1 DEF TypeOK
<1>6. sequence[p] = imported[s] + 0 + 0
  BY <1>1, <1>4, <1>5 DEF Locally, LinkOf
<1>7. sequence[p] = Starts(p) + Ceil(count[p], Downsampling[p]) /\ count[p] >= LastStep
  BY <1>1, <1>4 DEF Locally, SentOf, ControlOf
<1>8. Ceil(count[p], Downsampling[p]) \in Nat BY <1>1, <1>3, Exchanges
<1>9. CASE control[s] = "sync_read"
  <2>1. imported[s] = 0 /\ StartSync[s] BY <1>1, <1>9 DEF Locally, ControlOf, Starting
  <2>2. Starts(p) = 1 BY <1>2, <2>1 DEF Starts
  <2> QED BY <1>6, <1>7, <1>8, <2>1, <2>2
<1>10. CASE control[s] = "read"
  <2>1. imported[s] <= Starts(s) + Ceil(count[s], Downsampling[s]) /\ Due(s) /\ count[s] < LastStep
    BY <1>1, <1>10 DEF Locally, ControlOf, ImportOf
  <2>2. Ceil(count[s], Downsampling[s]) = Quot(count[s], Downsampling[s])
    BY <1>1, <1>3, <2>1, Exchanges DEF Due
  <2>3. count[s] < count[p] BY <1>3, <1>7, <2>1
  <2>4. Quot(count[s], Downsampling[s]) < Ceil(count[p], Downsampling[p])
    BY <1>1, <1>2, <1>3, <2>3, WaiterServed
  <2>5. Quot(count[s], Downsampling[s]) \in Nat BY <1>1, <1>3, Exchanges
  <2> QED BY <1>3, <1>6, <1>7, <1>8, <2>1, <2>2, <2>4, <2>5
<1> QED BY <1>9, <1>10

(* No sample is lost while the peer is there, and a writer runs out of     *)
(* samples only when the peer has closed or the pool has not room for a    *)
(* full queue, mLastSample and the sample writeValues fills in; for pools  *)
(* and queues of any length.                                               *)
THEOREM PoolCorrect == Spec => []PoolKept
<1>1. Init => UnderrunCause BY DEF Init, UnderrunCause
<1>2. ASSUME CoInv, UnderrunCause, [Next]_vars PROVE UnderrunCause'
  <2>1. CASE UNCHANGED vars BY <1>2, <2>1
      DEF UnderrunCause, vars, Fits, Exports, Closed, PoolLen
  <2>2. ASSUME NEW s \in Sims, Simulator(s), UNCHANGED mode PROVE UnderrunCause'
    <3>1. TypeOK /\ PoolOf(s) BY <1>2 DEF CoInv, Locally
    <3>2. PoolLen' = PoolLen /\ \A u \in Sims : Fits(u)' = Fits(u) BY <2>2, Constant
    <3>3. control[s] # "done" /\ \A u \in Sims : u # s => Kept(u)
      BY <2>2, <3>1, Kinds, CreateEffect, ControlEffect, AllocEffect, PushEffect, ReadEffect
    <3>4. \A u \in Sims : Closed(u) => Closed(u)' BY <3>3 DEF Closed, Kept
    <3> SUFFICES ASSUME NEW t \in Sims, Fits(t), control'[t] = "underrun"
                 PROVE  Closed(Peer[t])' \/ PoolLen < QueueLen + 2
      BY <3>2 DEF UnderrunCause
    <3>5. CASE control[t] = "underrun" BY <1>2, <3>4, <3>5, SimsAssumption DEF UnderrunCause
    <3>6. CASE control[t] # "underrun"
      <4>1. t = s BY <3>3, <3>6 DEF Kept
      <4>2. Alloc(s, "sync_write", "sync_push") \/ Alloc(s, "write", "push")
        <5>1. ~Create(s) BY <3>1, <4>1, CreateEffect
        <5>2. ~Control(s) BY <3>1, <4>1, ControlEffect
        <5>3. ~Push(s, "sync_push", "sync_read") /\ ~Push(s, "push", "next")
          BY <3>1, <4>1, PushEffect
        <5>4. ~ReadValues(s, SyncStart[s], "sync_read", "loop") BY <3>1, <4>1, ReadEffect
        <5>5. ~ReadValues(s, Sync[s], "read", "solve") BY <3>1, <4>1, ReadEffect
        <5> QED BY <2>2, <5>1, <5>2, <5>3, <5>4, <5>5, Kinds
      <4>3. pool[s] = 0 /\ control[s] \in {"sync_write", "write"}
        BY <3>1, <4>1, <4>2, AllocEffect
      <4>4. ASSUME ~Closed(Peer[s]) PROVE PoolLen < QueueLen + 2
        <5>1. pool[s] + Len(transit[s]) + 1 + Hand(s) = PoolLen
          BY <3>1, <4>1, <4>3, <4>4 DEF PoolOf, Unopened
        <5>2. Hand(s) = 0 BY <4>3 DEF Hand
        <5>3. Len(transit[s]) \in Nat /\ Len(transit[s]) <= QueueLen /\ QueueLen \in Nat /\ PoolLen \in Nat
          BY <3>1, Values
        <5> QED BY <4>3, <5>1, <5>2, <5>3
      <4> QED BY <3>4, <4>1, <4>4, SimsAssumption
    <3> QED BY <3>5, <3>6
  <2> QED BY <1>2, <2>1, <2>2 DEF Next
<1>3. CoInv /\ UnderrunCause => PoolKept
  BY DEF PoolKept, SamplesConserved, CoInv, Locally, PoolOf, Hand, Unopened
<1> QED BY <1>1, <1>2, <1>3, CoInvariant, PTL DEF Spec

(* A simulator whose declarations match the peer's never fails in          *)
(* readValues: every sample is long enough for its imports, and a peer     *)
(* that has closed has left behind what is still waited for.               *)
THEOREM ReadsCorrect ==
  ASSUME Served
  PROVE  Spec => []ReadsSucceed
<1>1. Init => ReadsSucceed BY DEF Init, ReadsSucceed
<1>2. ASSUME CoInv, ReadsSucceed, [Next]_vars PROVE ReadsSucceed'
  <2>1. CASE UNCHANGED vars BY <1>2, <2>1 DEF ReadsSucceed, vars, Matched, Exports, Imports
  <2>2. ASSUME NEW s \in Sims, Simulator(s), UNCHANGED mode PROVE ReadsSucceed'
    <3> DEFINE p == Peer[s]
    <3>0. p \in Sims /\ p # s /\ TypeOK /\ Locally(s) /\ Locally(p)
      BY <1>2, Modalities DEF CoInv, TypeOK
    <3>1. Matched' = Matched BY <2>2 DEF Matched, Exports, Imports
    <3> SUFFICES ASSUME Matched, NEW t \in Sims, control'[t] = "exit" PROVE FALSE
      BY <3>1 DEF ReadsSucceed
    <3>2. \A u \in Sims : u # s => Kept(u)
      BY <2>2, <3>0, Kinds, CreateEffect, ControlEffect, AllocEffect, PushEffect, ReadEffect
    <3>3. t = s BY <1>2, <3>2 DEF ReadsSucceed, Kept
    <3>4. Fits(s) /\ Fits(p) BY <3>0 DEF Matched, Fits
    <3>5. \/ ReadValues(s, SyncStart[s], "sync_read", "loop")
          \/ ReadValues(s, Sync[s], "read", "solve")
      <4>1. ~Create(s) BY <3>0, <3>3, CreateEffect
      <4>2. ~Control(s) BY <3>0, <3>3, ControlEffect
      <4>3. ~Push(s, "sync_push", "sync_read") /\ ~Push(s, "push", "next")
        BY <3>0, <3>3, PushEffect
      <4>4. ~Alloc(s, "sync_write", "sync_push") /\ ~Alloc(s, "write", "push")
        BY <3>0, <3>3, AllocEffect
      <4> QED BY <2>2, <4>1, <4>2, <4>3, <4>4, Kinds
    <3>6. ASSUME NEW blocking, NEW from, NEW to \in {"loop", "solve"},
                 ReadValues(s, blocking, from, to), from \notin {"done", "exit"},
                 ~(blocking /\ Closed(p) /\ transit[p] = <<>>)
          PROVE  FALSE
      <4>1. control[s] = from /\ transit[p] # <<>> /\ ~Complete(s, Head(transit[p]))
        BY <3>0, <3>3, <3>6, ReadEffect
      <4>2. 1 \in 1..Len(transit[p]) /\ Head(transit[p]) = transit[p][1]
        BY <3>0, <4>1 DEF TypeOK
      <4>3. Head(transit[p]) = [seq |-> imported[s] + 1, len |-> Width(p)]
        BY <3>0, <3>4, <3>6, <4>1, <4>2 DEF Locally, LinkOf
      <4>4. Width(p) \in Nat /\ \A i \in Exports[p] : i < Width(p)
        BY <3>0, <3>4, WidthCovers DEF TypeOK
      <4>5. Imports[s] \subseteq Nat /\ Exports[p] \subseteq Nat
        BY <3>0, ModeAssumption DEF TypeOK, Imports, Exports
      <4>6. ASSUME NEW i \in Imports[s] PROVE i < Width(p)
        <5>1. PICK j \in Exports[p] : i <= j BY DEF Matched
        <5> QED BY <4>4, <4>5, <5>1
      <4> QED BY <4>1, <4>3, <4>6 DEF Complete
    <3>7. ASSUME ReadValues(s, SyncStart[s], "sync_read", "loop") PROVE FALSE
      <4>1. control[s] = "sync_read" BY <3>7, <3>0, ReadEffect
      <4>2. ~(SyncStart[s] /\ Closed(p) /\ transit[p] = <<>>)
        BY <1>2, <3>4, <4>1, NeverAbandoned
      <4> QED BY <3>6, <3>7, <4>2
    <3>8. ASSUME ReadValues(s, Sync[s], "read", "solve") PROVE FALSE
      <4>1. control[s] = "read" BY <3>8, <3>0, ReadEffect
      <4>2. ~(Sync[s] /\ Closed(p) /\ transit[p] = <<>>) BY <1>2, <3>4, <4>1, NeverAbandoned
      <4> QED BY <3>6, <3>8, <4>2
    <3> QED BY <3>5, <3>7, <3>8
  <2> QED BY <1>2, <2>1, <2>2 DEF Next
<1> QED BY <1>1, <1>2, CoInvariant, PTL DEF Spec
=============================================================================
