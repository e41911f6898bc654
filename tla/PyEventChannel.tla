---------------------------- MODULE PyEventChannel --------------------------
(***************************************************************************)
(* How events reach Python code: newState sends each one through a socket  *)
(* pair (Source/Python/EventChannel.cpp); a task of the asyncio event loop *)
(* reads them, calls the registered callbacks and puts them in a queue     *)
(* that waiting coroutines consume (Source/Python/dpsim/EventChannel.py    *)
(* and Simulation.py).                                                     *)
(*                                                                         *)
(* The events come in the order of SimulationLifecycle; an API call counts *)
(* as returned once it is made (PySimulation is about its return).  Code   *)
(* of the event loop runs without interruption between two awaits that     *)
(* suspend it, so the body of the reading task is one step, and so is what *)
(* a coroutine does with the events that are in the queue already.         *)
(***************************************************************************)
EXTENDS SimulationLifecycle, Naturals, Sequences, SequencesExt

CONSTANTS
  SockCap,     \* events the socket pair buffers
  MaxEvents    \* bound: events the simulation announces

ASSUME CapAssumption == SockCap \in Nat \ {0} /\ MaxEvents \in Nat

VARIABLES
  sock,      \* events in the socket
  task,      \* EventChannel.__task is "alive" or "dead"
  queue,     \* EventChannel._queue
  simulate,  \* control of Simulation.simulate()
  other,     \* another coroutine: "idle", "waiting" in wait(), or "absent"
  sent,      \* history: events sent
  called,    \* history: events the user's callback was called with
  taken      \* history: events taken from the queue

channelVars == <<state, sock, task, queue, simulate, other, sent, called, taken>>

Event == DOMAIN Follows \union {"overrun"}

ChannelInit ==
  /\ LifecycleInit
  /\ sock = <<>> /\ task = "alive" /\ queue = <<>>
  /\ simulate = "idle" /\ other \in {"idle", "absent"}
  /\ sent = <<>> /\ called = <<>> /\ taken = <<>>

(* EventChannel::sendEvent blocks while the socket is full.                *)
SendEvent(e) ==
  /\ Len(sock) < SockCap
  /\ sock' = Append(sock, e)
  /\ sent' = Append(sent, e)

(* newState, in the simulation thread or in an API function.               *)
StateAnnounced ==
  /\ Len(sent) < MaxEvents
  /\ LifecycleNext
  /\ SendEvent(state')
  /\ UNCHANGED <<task, queue, simulate, other, called, taken>>

(* With fail_on_overrun a time step can overrun: the state is overrun      *)
(* until the thread announces the end of the first step or of the          *)
(* simulation.                                                             *)
OverrunAnnounced ==
  /\ Len(sent) < MaxEvents
  /\ \/ state \in {"starting", "running", "overrun"} /\ state' = "overrun"
     \/ state = "overrun" /\ state' \in {"running", "done"}
  /\ SendEvent(state')
  /\ UNCHANGED <<task, queue, simulate, other, called, taken>>

(* Mutant of TaskRead: an event with a built-in callback is not queued.    *)
TaskReadEither ==
  /\ task = "alive" /\ sock # <<>>
  /\ sock' = Tail(sock)
  /\ called' = Append(called, Head(sock))
  /\ queue' = IF Head(sock) \in {"running", "stopped", "done"} THEN queue
              ELSE Append(queue, Head(sock))
  /\ UNCHANGED <<state, task, simulate, other, sent, taken>>

(* Mutant of TaskRead: the task ends with the event stopped.               *)
TaskReadEnds ==
  /\ task = "alive" /\ sock # <<>>
  /\ sock' = Tail(sock)
  /\ task' = IF Head(sock) = "stopped" THEN "dead" ELSE "alive"
  /\ called' = Append(called, Head(sock))
  /\ queue' = Append(queue, Head(sock))
  /\ UNCHANGED <<state, simulate, other, sent, taken>>

(* Simulation's own callbacks running, stopped and overrun: the first two  *)
(* only show progress, the third raises.                                   *)
Raises(e) == e = "overrun"

(* One round of EventChannel.__task: readexactly, the callbacks in the     *)
(* order of their registration, queue.put.  Simulation's own callbacks are *)
(* called before the user's; an exception ends the task.                   *)
TaskRead ==
  /\ task = "alive" /\ sock # <<>>
  /\ sock' = Tail(sock)
  /\ IF Raises(Head(sock))
     THEN task' = "dead" /\ UNCHANGED <<called, queue>>
     ELSE /\ called' = Append(called, Head(sock))
          /\ queue' = Append(queue, Head(sock))
          /\ UNCHANGED task
  /\ UNCHANGED <<state, simulate, other, sent, taken>>

(* How many events a coroutine takes that waits for evt: all up to the     *)
(* first match, or all there are.                                          *)
Consumed(evt) ==
  LET i == SelectInSeq(queue, LAMBDA e : e = evt)
  IN IF i = 0 THEN Len(queue) ELSE i

Take(n) ==
  /\ taken' = taken \o SubSeq(queue, 1, n)
  /\ queue' = SubSeq(queue, n + 1, Len(queue))

(* EventChannel.wait(evt), on a queue that is not empty.                   *)
Wait(evt) == Take(Consumed(evt))

(* Simulation.simulate: start() starts or resumes, then two waits.         *)
Start ==
  /\ simulate = "idle"
  /\ state \in {"stopped", "paused"}
  /\ Len(sent) < MaxEvents
  /\ state' = IF state = "stopped" THEN "starting" ELSE "resuming"
  /\ SendEvent(state')
  /\ simulate' = "running"
  /\ UNCHANGED <<task, queue, other, called, taken>>

(* Mutant of Awaits: the event is not compared with the one awaited.       *)
AwaitsAny(evt, next) ==
  /\ simulate = evt /\ queue # <<>>
  /\ Take(1)
  /\ simulate' = next
  /\ UNCHANGED <<state, sock, task, other, sent, called>>

(* The coroutine goes on when the last event it took is the one it awaits. *)
Awaits(evt, next) ==
  /\ simulate = evt /\ queue # <<>>
  /\ Wait(evt)
  /\ simulate' = IF Last(taken') = evt THEN next ELSE simulate
  /\ UNCHANGED <<state, sock, task, other, sent, called>>

Simulate ==
  \/ Awaits("running", "done")
  \/ Awaits("done", "returned")

(* wait() without an event: the next one, whatever it is.                  *)
OtherWait ==
  /\ \/ other = "idle" /\ other' = "waiting" /\ UNCHANGED <<queue, taken>>
     \/ other = "waiting" /\ queue # <<>> /\ Take(1) /\ other' = "idle"
  /\ UNCHANGED <<state, sock, task, simulate, sent, called>>

(* Nobody waits for an event, or none will come.                           *)
Quiet ==
  /\ sock = <<>> \/ task = "dead"
  /\ UNCHANGED channelVars

ChannelNext ==
  \/ StateAnnounced \/ OverrunAnnounced \/ TaskRead \/ Start \/ Simulate \/ OtherWait
  \/ Quiet

ChannelSpec == ChannelInit /\ [][ChannelNext]_channelVars

(* The event loop serves a readable socket and a coroutine that can go on. *)
ChannelFairSpec == ChannelSpec /\ WF_channelVars(TaskRead) /\ WF_channelVars(Simulate)

-----------------------------------------------------------------------------
(* Every variable has its type; the socket holds what it buffers at most.  *)
ChannelTypeOK ==
  /\ state \in Event
  /\ sock \in Seq(Event) /\ Len(sock) <= SockCap
  /\ task \in {"alive", "dead"}
  /\ queue \in Seq(Event)
  /\ simulate \in {"idle", "running", "done", "returned"}
  /\ other \in {"idle", "waiting", "absent"}
  /\ sent \in Seq(Event) /\ called \in Seq(Event) /\ taken \in Seq(Event)

(* Coroutines get the events in the order in which they were sent, without *)
(* gap or repetition, and none before the callbacks were called with it:   *)
(* what test_singlestepping.py relies on when it checks one event after    *)
(* the other.                                                              *)
EventsInOrder ==
  /\ called = taken \o queue
  /\ task = "alive" => sent = called \o sock

(* simulate() returns only when the simulation is done, also if it resumed *)
(* a paused simulation whose earlier events nobody had read.               *)
SimulateOnlyAfterDone == simulate = "returned" => state = "done"

(* Both about what a coroutine that awaits events may rely on.              *)
DeliveredInOrder == EventsInOrder /\ SimulateOnlyAfterDone

(* simulate() returns when the simulation is done, unless the task that    *)
(* reads the events has died of an overrun, or another coroutine waits and *)
(* may take the event.                                                     *)
SimulateReturns ==
  (simulate \in {"running", "done"} /\ state = "done" /\ other = "absent")
     ~> (simulate = "returned" \/ task = "dead")

(* The user's callback is called with every event that is sent, until the  *)
(* first overrun: only an overrun ends the task that calls it.             *)
CallbackReached ==
  \A n \in 1 .. MaxEvents :
    (Len(sent) >= n) ~> (Len(called) >= n \/ "overrun" \in ToSet(sent))
=============================================================================
