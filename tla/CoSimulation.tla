----------------------------- MODULE CoSimulation ---------------------------
(***************************************************************************)
(* Two simulators that exchange samples over shared memory: Simulation's   *)
(* run, sync and step (Source/Simulation.cpp) on both sides, each with one *)
(* Interface (Source/Interface.cpp) to the other.                          *)
(*                                                                         *)
(* The queues and sample pools are VILLASnode's shmem interface, which is  *)
(* not part of the repository; they are modelled from how Interface uses   *)
(* them.  A sample is taken from the writer's pool, travels through a      *)
(* bounded queue and goes back to the pool when the reader releases it.    *)
(* Reading an empty queue waits until the peer closes, then fails; writing *)
(* to a peer that has closed fails.  Interface configures the length of    *)
(* the queue and not the size of the pool, so that is one of the things a  *)
(* coupling leaves open.  A sample is its number and its length; imports   *)
(* and exports are the positions in it that they use.                      *)
(***************************************************************************)
EXTENDS Naturals, Sequences, FiniteSetsExt

CONSTANTS
  Sims,           \* the two simulators
  Peer,           \* Peer[s]: the simulator at the other end
  Modes,          \* the ways to couple them that are considered
  LastStep,       \* number of time steps of both simulations
  QueueLen,       \* samples a queue holds
  Capacity        \* values a sample has room for

ASSUME SimsAssumption ==
  /\ Peer \in [Sims -> Sims]
  /\ \A s \in Sims : Peer[s] # s /\ Peer[Peer[s]] = s
ASSUME ModeAssumption ==
  \A m \in Modes :
    /\ m.sync \in [Sims -> BOOLEAN] /\ m.syncStart \in [Sims -> BOOLEAN]
    /\ m.startSync \in [Sims -> BOOLEAN]
    /\ m.downsampling \in [Sims -> Nat \ {0}]
    /\ m.pool \in Nat \ {0} /\ m.fails \subseteq Sims
    /\ \A s \in Sims : /\ m.exports[s] \subseteq Nat /\ m.imports[s] \subseteq Nat
                       /\ IsFiniteSet(m.exports[s])
ASSUME BoundAssumption ==
  LastStep \in Nat /\ QueueLen \in Nat \ {0} /\ Capacity \in Nat

VARIABLES
  mode,      \* how the two are coupled: chosen at the start, then fixed
  control,   \* where each simulator is
  count,     \* mTimeStepCount; mTime in time steps
  sequence,  \* mSequence
  transit,   \* transit[s]: samples in the queue from s to its peer
  pool,      \* pool[s]: free samples of the pool s writes from
  imported   \* the number of the sample s imported last, plus 1; 0: none

vars == <<mode, control, count, sequence, transit, pool, imported>>

Sync         == mode.sync          \* addInterface's sync: step() waits
SyncStart    == mode.syncStart     \* addInterface's syncStart: sync() waits
StartSync    == mode.startSync     \* sync() is called before the first step
Downsampling == mode.downsampling  \* samples are exchanged every n-th step
Exports      == mode.exports       \* addExport's idx
Imports      == mode.imports       \* addImport's idx
PoolLen      == mode.pool          \* samples a writer's pool holds
Fails        == mode.fails         \* where shmem_int_open fails

(* "failed", "underrun" and "exit": the process has ended in open(), in    *)
(* writeValues or in readValues.                                           *)
PC == {"new", "opening", "sync_write", "sync_push", "sync_read", "loop", "read",
       "solve", "write", "push", "next", "close", "done",
       "failed", "underrun", "exit"}

(* Interface::close has run.  std::exit does not close an interface: the   *)
(* peer of a simulator that has failed waits for ever.                     *)
Closed(s) == control[s] = "done"

Goto(s, p) == control' = [control EXCEPT ![s] = p]

(* mTimeStepCount % downsampling == 0                                      *)
Due(s) == count[s] % Downsampling[s] = 0

Init ==
  /\ mode \in Modes
  /\ control = [s \in Sims |-> "new"]
  /\ count = [s \in Sims |-> 0]
  /\ sequence = [s \in Sims |-> 0]
  /\ transit = [s \in Sims |-> <<>>]
  /\ pool = [s \in Sims |-> PoolLen]
  /\ imported = [s \in Sims |-> 0]

(* Interface::open maps the own region, allocates mLastSample from the     *)
(* pool and returns when the region of the peer exists.                    *)
Create(s) ==
  /\ control[s] = "new" /\ s \notin Fails
  /\ Goto(s, "opening")
  /\ sequence' = [sequence EXCEPT ![s] = 0]
  /\ pool' = [pool EXCEPT ![s] = @ - 1]
  /\ UNCHANGED <<count, transit, imported>>

(* shmem_int_open returns an error: exit(1), and no region for the peer.   *)
OpenFails(s) ==
  /\ control[s] = "new" /\ s \in Fails
  /\ Goto(s, "failed")
  /\ UNCHANGED <<count, sequence, transit, pool, imported>>

Open(s) ==
  /\ control[s] = "opening" /\ control[Peer[s]] \notin {"new", "failed"}
  /\ Goto(s, IF StartSync[s] THEN "sync_write" ELSE "loop")
  /\ UNCHANGED <<count, sequence, transit, pool, imported>>

(* Mutant of Width: the length is the last position, not one more.         *)
WidthShort(s) == IF Exports[s] = {} THEN 0 ELSE Max(Exports[s])

(* The length the export closures give a sample.                           *)
Width(s) == IF Exports[s] = {} THEN 0 ELSE Max(Exports[s]) + 1

(* No export closure throws: every position is within the sample.          *)
Fits(s) == \A i \in Exports[s] : i < Capacity

(* The import closures throw for a position beyond the sample's length.    *)
Complete(s, smp) == \A i \in Imports[s] : i < smp.len

(* writeValues, first half: a sample from the pool, or exit(1) on a pool   *)
(* underrun; the exports are filled in and the sequence number advances,   *)
(* unless an export throws, in which case the new sample is forgotten.     *)
Alloc(s, from, to) ==
  /\ control[s] = from
  /\ IF pool[s] = 0
     THEN Goto(s, "underrun") /\ UNCHANGED <<pool, sequence>>
     ELSE /\ Goto(s, to)
          /\ pool' = [pool EXCEPT ![s] = @ - 1]
          /\ sequence' = IF Fits(s) THEN [sequence EXCEPT ![s] = @ + 1] ELSE sequence
  /\ UNCHANGED <<count, transit, imported>>

(* What writeValues sends: after an exception mLastSample, which is then   *)
(* what open() made of it.                                                 *)
Outgoing(s) ==
  IF Fits(s) THEN [seq |-> sequence[s], len |-> Width(s)] ELSE [seq |-> 0, len |-> 0]

(* Mutant of Push: a write that fails is repeated, too.                    *)
PushRetries(s, from, to) ==
  /\ control[s] = from
  /\ \/ Closed(Peer[s]) /\ UNCHANGED <<control, transit>>
     \/ /\ ~Closed(Peer[s]) /\ Len(transit[s]) < QueueLen
        /\ transit' = [transit EXCEPT ![s] = Append(@, Outgoing(s))]
        /\ Goto(s, to)
  /\ UNCHANGED <<count, sequence, pool, imported>>

(* writeValues, second half: the write is repeated while the queue is      *)
(* full; when it fails the sample is not given back to the pool.           *)
Push(s, from, to) ==
  /\ control[s] = from
  /\ Goto(s, to)
  /\ \/ Closed(Peer[s]) /\ UNCHANGED transit
     \/ /\ ~Closed(Peer[s]) /\ Len(transit[s]) < QueueLen
        /\ transit' = [transit EXCEPT ![s] = Append(@, Outgoing(s))]
  /\ UNCHANGED <<count, sequence, pool, imported>>

(* Mutant of Release: the sample is not released.                          *)
ReleaseNot(p) == UNCHANGED pool

(* sample_decref.  A sample sent by the exception path is still referred   *)
(* to by its writer: whether it gets back to the pool depends on who has   *)
(* it by then.                                                             *)
Release(p) ==
  \/ pool' = [pool EXCEPT ![p] = @ + 1]
  \/ ~Fits(p) /\ UNCHANGED pool

(* readValues(blocking).  An exception of an import closure releases the   *)
(* sample and, as nobody catches it, ends the process.                     *)
ReadValues(s, blocking, from, to) ==
  LET p == Peer[s] IN
  /\ control[s] = from
  /\ \/ /\ transit[p] # <<>>
        /\ transit' = [transit EXCEPT ![p] = Tail(@)]
        /\ Release(p)
        /\ IF Complete(s, Head(transit[p]))
           THEN Goto(s, to) /\ imported' = [imported EXCEPT ![s] = Head(transit[p]).seq]
           ELSE Goto(s, "exit") /\ UNCHANGED imported
     \/ /\ transit[p] = <<>> /\ ~blocking
        /\ Goto(s, to)
        /\ UNCHANGED <<imported, transit, pool>>
     \/ /\ transit[p] = <<>> /\ blocking /\ Closed(p)
        /\ Goto(s, "exit")
        /\ UNCHANGED <<imported, transit, pool>>
  /\ UNCHANGED <<count, sequence>>

(* Simulation::sync: the initial values are sent, then read.               *)
SyncWrite(s) == Alloc(s, "sync_write", "sync_push") \/ Push(s, "sync_push", "sync_read")

(* Mutant of SyncRead: waits according to sync, not to syncStart.          *)
SyncReadSync(s) == ReadValues(s, Sync[s], "sync_read", "loop")

SyncRead(s) == ReadValues(s, SyncStart[s], "sync_read", "loop")

(* while (mTime < mFinalTime)                                              *)
Loop(s) ==
  /\ control[s] = "loop"
  /\ Goto(s, CASE count[s] >= LastStep -> "close"
               [] count[s] < LastStep /\ Due(s) -> "read"
               [] OTHER -> "solve")
  /\ UNCHANGED <<count, sequence, transit, pool, imported>>

(* Mutant of StepRead: never waits.                                        *)
StepReadPolls(s) == ReadValues(s, FALSE, "read", "solve")

(* Simulation::step: read; handle events, solve, log of the solver; write; *)
(* then the loggers, which touch nothing modelled here.                    *)
StepRead(s) == ReadValues(s, Sync[s], "read", "solve")

Solve(s) ==
  /\ control[s] = "solve"
  /\ Goto(s, IF Due(s) THEN "write" ELSE "next")
  /\ UNCHANGED <<count, sequence, transit, pool, imported>>

StepWrite(s) == Alloc(s, "write", "push") \/ Push(s, "push", "next")

(* mTime = nextTime; mTimeStepCount++                                      *)
NextStep(s) ==
  /\ control[s] = "next"
  /\ count' = [count EXCEPT ![s] = @ + 1]
  /\ Goto(s, "loop")
  /\ UNCHANGED <<sequence, transit, pool, imported>>

Close(s) ==
  /\ control[s] = "close"
  /\ Goto(s, "done")
  /\ UNCHANGED <<count, sequence, transit, pool, imported>>

Simulator(s) ==
  \/ Create(s) \/ OpenFails(s) \/ Open(s) \/ SyncWrite(s) \/ SyncRead(s) \/ Loop(s)
  \/ StepRead(s) \/ Solve(s) \/ StepWrite(s) \/ NextStep(s) \/ Close(s)

Next == \E s \in Sims : Simulator(s) /\ UNCHANGED mode

Spec == Init /\ [][Next]_vars

(* Each simulator is a process of its own and runs whenever it can.        *)
FairSpec == Spec /\ \A s \in Sims : WF_vars(Simulator(s) /\ UNCHANGED mode)

-----------------------------------------------------------------------------
(* Every variable has its type; in particular a queue never holds more     *)
(* than QueueLen samples.                                                  *)
TypeOK ==
  /\ mode \in Modes
  /\ control \in [Sims -> PC]
  /\ count \in [Sims -> Nat]
  /\ sequence \in [Sims -> Nat]
  /\ transit \in [Sims -> Seq([seq : Nat, len : Nat])]
  /\ \A s \in Sims : Len(transit[s]) <= QueueLen
  /\ pool \in [Sims -> 0 .. PoolLen]
  /\ imported \in [Sims -> Nat]

(* The two declarations agree: every export fits into a sample, and what a *)
(* simulator imports lies within what the other exports.                   *)
Matched ==
  \A s \in Sims :
    /\ \A i \in Exports[s] : i < Capacity
    /\ \A i \in Imports[s] : \E j \in Exports[Peer[s]] : i <= j

(* Start synchronisation: with syncStart no simulator computes its first   *)
(* step before its peer has sent the initial values, and it computes it    *)
(* with values from the peer.                                              *)
StartBarrier ==
  \A s \in Sims :
    StartSync[s] /\ SyncStart[s] /\ Fits(Peer[s]) /\ control[s] = "solve" =>
      sequence[Peer[s]] > 0 /\ imported[s] > 0

(* No sample is lost and none is released twice: each one of the pool is   *)
(* free, in the queue, in writeValues' hands, or mLastSample, as long as   *)
(* the peer has not closed (a failed write loses its sample).              *)
SamplesConserved ==
  \A s \in Sims :
    Fits(s) /\ control[s] \notin {"new", "failed"} /\ ~Closed(Peer[s]) =>
      pool[s] + Len(transit[s]) + 1 + (IF control[s] \in {"push", "sync_push"} THEN 1 ELSE 0)
        = PoolLen

(* A simulator with sync set computes its step with the sample the peer    *)
(* wrote for exactly that exchange: none is skipped, none is used twice,   *)
(* however far ahead the peer is.                                          *)
FollowsPeer ==
  \A s \in Sims :
    Sync[s] /\ SyncStart[s] /\ StartSync[s] /\ Fits(Peer[s]) /\ control[s] = "solve" /\ Due(s) =>
      imported[s] = (count[s] \div Downsampling[s]) + 2

(* While the peer is there a writer runs out of samples only if the pool   *)
(* has not room for a full queue, mLastSample and the sample in hand; in a *)
(* larger pool writeValues waits for the reader instead.                   *)
UnderrunCause ==
  \A s \in Sims :
    Fits(s) /\ control[s] = "underrun" => Closed(Peer[s]) \/ PoolLen < QueueLen + 2

(* Where the samples are, and when there is none left.                     *)
PoolKept == SamplesConserved /\ UnderrunCause

(* If the declarations agree no read fails: no sample is too short for the *)
(* imports, and no peer closes before it has sent what the reader still    *)
(* waits for.                                                              *)
ReadsSucceed == Matched => \A s \in Sims : control[s] # "exit"

(* If the declarations agree, every interface opens and at least one of    *)
(* the two does not wait in its steps, both simulations reach their final  *)
(* time, unless a pool runs out.                                           *)
FinishOrUnderrun ==
  Matched /\ Fails = {} /\ (\E s \in Sims : ~Sync[s]) =>
    <>((\A s \in Sims : control[s] = "done") \/ (\E s \in Sims : control[s] = "underrun"))

(* A queue of queuelen samples serves a writer that is ahead: it does not  *)
(* fail while its peer is there.  (Python/Interface.cpp:395 documents the  *)
(* parameter as the length of the outgoing queue in samples.)              *)
QueueLenUsable ==
  Matched => \A s \in Sims : control[s] = "underrun" => Closed(Peer[s])

(* Both simulations reach their final time, if the declarations agree; the *)
(* later one may run out of samples instead once the other has finished.   *)
BothFinish ==
  Matched =>
    <>(\A s \in Sims :
         control[s] = "done" \/ (control[s] = "underrun" /\ control[Peer[s]] = "done"))
=============================================================================
