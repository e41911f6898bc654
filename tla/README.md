# A TLA+ model of DPsim

DPsim is a real-time power system simulator: a C++ solver core (`Source/`, `Include/dpsim/`), a Python
binding that runs it on a thread of its own (`Source/Python/`), and an asyncio layer on top of the binding
(`Source/Python/dpsim/`). The solver's numerics are linear algebra and stay outside this project. What is
modelled is everything around them that has state and order: the life cycle of a simulation shared by a
Python caller and a simulation thread, the way of an event from that thread to a coroutine, two simulators
that exchange samples, the switching of the network, the real-time loop, the way from a command line to a
prepared solver with the numbering of its unknowns, the binding of attributes to samples and log files, the
ownership of Python objects, and the lock-free queue the headers ship.

All paths below are relative to the repository root.

## 1. The system's parts

| Part | State | Operations | Model |
|---|---|---|---|
| Python simulation object, `Source/Python/Simulation.cpp` | atomic `state`, `singleStepping`, `startSync`, mutex, condition variable, `std::thread*`, event channel | `start`, `step`, `pause`, `stop`, getters, `add_eventfd`, `remove_eventfd`, destructor; `threadFunction` | `PySimulation`, `SimulationLifecycle` |
| C++ event channel, `Source/Python/EventChannel.cpp` | list of descriptors | `addFd`, `removeFd`, `sendEvent` | `PySimulation` (blocking), `PyEventChannel` (content) |
| Event loop layer, `Source/Python/dpsim/EventChannel.py`, `Simulation.py` | socket pair, reading task, `asyncio.Queue`, callbacks | the task, `wait`, `simulate`, `run`, callbacks | `PyEventChannel` |
| Simulation loop, `Source/Simulation.cpp` | time, step counter, interfaces, loggers, event queue | constructor, `run`, `sync`, `step` | `SolverSetup`, `CoSimulation`, `SwitchedSolver`, `AttributeBindings` |
| Shared memory interface, `Source/Interface.cpp` | queues, sample pool, sequence number, last sample | `open`, `close`, `readValues`, `writeValues`, `addImport`, `addExport` | `CoSimulation`, `AttributeBindings` |
| Event queue, `Source/Event.cpp` | priority queue of events | `addEvent`, `handleEvents` | `SwitchedSolver` |
| MNA solver, `Source/MNASolver.cpp` | node and component lists, counters, switch status, matrices by status | `initialize` and what it calls, `step`, `solve` | `MnaTopology` (in `SolverSetup`), `SwitchedSolver` |
| Timer, real-time loop, `Source/Timer.cpp`, `Source/RealTimeSimulation.cpp` | tick and overrun counters, next tick | `start`, `sleep`, `stop`, `run` | `RealTimeTimer` |
| Topology, node, component, logger, interface and CIM bindings, `Source/Python/*.cpp` | reference counts, dictionaries, raw pointers | constructors, destructors, `add_component`, `add_node`, `load_cim`, `log_attribute`, `add_interface` | `PyOwnership` |
| Attributes in the bindings, `Source/Python/Interface.cpp`, `Logger.cpp`, `Component.cpp`, and `Source/DataLogger.cpp` | import and export closures, export descriptions, columns, header, terminals | `import_attribute`, `export_attribute`, `log_attribute`, attribute access, `connect`, `log` | `AttributeBindings` |
| Command line, `Source/Utils.cpp`, `Include/dpsim/Compat/getopt.h` | `argv` as permuted, scan position, settings | `CommandLineArgs`, `getopt_long` | `CommandLine` (in `SolverSetup`) |
| DAE solver, `Source/DAESolver.cpp` | number of equations, state vector, offsets, time | constructor, `initialize`, `step` | `SolverSetup` |
| Concurrent queue, `Include/dpsim/ConcurrentQueue.h` | per producer: head, tail, claims, blocks, block index; per queue: producer list, tokens, hash tables | `enqueue`, `try_enqueue`, `try_dequeue` and their bulk and token variants, constructors, moves, swaps and destructors of tokens and producers | `FifoQueue`, `ProducerQueue`, `ProducerRegistry` |
| ODE solver, reader-writer queue | | | not modelled, see section 9 |

How the parts interact:

* The Python caller and the simulation thread share `state` (atomic), `singleStepping` (not atomic), the
  mutex and one condition variable that both wait on and both notify. The caller keeps the GIL during a call;
  the simulation thread never takes it. The thread's announcements go through a socket into the event loop,
  which needs the GIL to read them.
* `Simulation::step` calls, in this order: the interfaces' reads, the event queue, the solver (which logs its
  vectors), the interfaces' writes, the loggers. `add_event` reaches the same event queue from the Python thread, without a lock.
* Two simulators are two processes. They meet in VILLASnode's shared memory queues only.
* `SolverSetup` is the only place where a C++ program's command line and Python's arguments meet: both choose a
  domain and a solver, which then numbers the nodes of whatever topology it gets.
* An attribute registered by a script is used by the simulation thread in every later step: exported after
  solving, imported before, logged last.
* The concurrent queue is a header of its own: no source of the repository includes it, programs built on DPsim
  may. A queue is a list of sub-queues; every sub-queue has one producer and any number of consumers.
* Python objects own each other through reference counts; C++ objects behind them through `shared_ptr`, with
  one exception, the raw pointer from a simulation to its interfaces.

What is hard about it, and hence what the properties are about: decisions taken on a state that was read
before the mutex was taken; one condition variable with `notify_one` for two kinds of waiters; a blocking
`send` with the mutex held; start and end conditions (first step, last step, no node, no tick) in unsigned
arithmetic; blocking reads on both sides of a queue; a heap changed between `top()` and `pop()`; exceptions
that end a task other code relies on; error paths that release what they do not own, or stop in the middle of a
list; registrations in any order between time steps; optimistic claims on a queue, and memory that is recycled
while others still read it. `PROJECT.json` lists
these hazards one by one with the line where each bites.

Which properties make each part correct:

* Simulation object: one simulation thread at a time; paused means that nothing moves; one `step()` is one
  time step; no lost wake-up; every call returns; the announced states follow the life cycle; the end is final
  and is reached; nothing uses the object after its destructor.
* Event layer: events reach callbacks and coroutines in order and without gaps; `simulate()` returns when, and
  only when, the simulation is done.
* Co-simulation: nobody starts before the peer is there; a follower uses exactly the sample meant for its
  step; samples are conserved, and it is known when a pool runs out; no read fails when the declarations agree; both
  finish unless both wait.
* Events and switching: each due event is executed exactly once before the solver runs; a
  solution never goes back behind the events of the step before, and those of one step act together.
* Real-time loop: never ahead of the clock; ticks, sleeps and overruns add up; `sleep()` returns.
* Numbering: rows and node phases correspond one to one; network rows first; each component gets its nodes.
* Command line: the permuting scan reads what a single reading from left to right would.
* DAE layout: the unknowns have the positions from 0 on, each one of its own.
* Attributes: a description names what its slot of the sample carries; a step runs on all imports of a sample or
  not at all; rows match their header.
* Concurrent queue: a sub-queue is a FIFO queue for any number of consumers; no claim without an element, no block
  lost or shared; one owner per sub-queue; probing ends; a dequeue that fails has looked everywhere.
* Ownership: counts add up; nothing dangles, nothing leaks; the dictionaries agree with the C++ topology.

## 2. Modules

```
SimulationLifecycle   the abstract order of states
  ^ refined by        PySimulation        <- PySimulationProofs, MCPySimulation, MCCarefulClient
  ^ extended by       PyEventChannel      <- PySimulationProofs, MCSurroundings
CoSimulation          <- CoSimulationProofs, MCCoSimulation, MCSurroundings   Simulation + Interface, twice
RealTimeTimer         <- PySimulationProofs, MCSurroundings       RealTimeSimulation + Timer
SwitchedSolver        <- SwitchedSolverProofs, MCSwitchedSolver, MCSolver     Simulation + EventQueue + MnaSolver
CommandLine, MnaTopology
  ^ extended by       SolverSetup         <- SolverSetupProofs, MCSolver      start of a program to a prepared solver
AttributeBindings     <- AttributeBindingsProofs, MCAttributeBindings   Python bindings + Interface + DataLogger
PyOwnership           <- PyOwnershipProofs, MCPyOwnership         the bindings' reference counts
FifoQueue             what a sub-queue promises
  ^ refined by        ProducerQueue       <- ProducerQueueProofs, MCProducerQueue     one sub-queue
ProducerRegistry      <- ProducerRegistryProofs, MCProducerRegistry     the sub-queues of a queue, tokens, hash tables
```

`MCSurroundings` and `MCSolver` put models side by side that have no state in common: one of them is chosen in the
initial state and the others stay where they are. `MCCarefulClient` and `MCProducerQueue` do the same with two
instances of one model, for different values of its constants. A part that may really come to a halt has a
stuttering step, so that deadlock of the others is still checked.

A definition whose comment begins with "Mutant of" is a deliberately wrong variant of the definition that
follows it. No specification uses it; it shows that the property named beside it in `PROJECT.json` depends on
that piece of code.

Models that one module extends have disjoint names: the specification of `PyEventChannel` is `ChannelSpec`, that of
`RealTimeTimer` is `TimerSpec`, that of `SwitchedSolver` is `SwitchSpec`.

### PySimulation

`tpc[t]` is the position of thread `t` in `threadFunction` (lines 46-131), `cpc` and `call` that of the
Python caller in an API function. Each unlocked read (`check`, `stop_check`, `first`, `loop`) is a step of its
own; a critical section is a step that takes the mutex and one that does the work, because `newState` may
block in between on a full socket. `cond->wait` puts the process in `waiters` and frees the mutex;
`notify_one` removes any one waiter; `SpuriousWakeup` removes one for no reason.

| Action | Code |
|---|---|
| `Open`, `Sync`, `Loop`, `SimStep`, `Sleep`, `Overrun` | lines 52-93: opening of interfaces, start synchronisation, time loop, one step, `timer.sleep()` and its overrun handler |
| `CheckFirst`, `Running` | announcement of `running` after the first step |
| `CheckPause`, `Pause`, `Park`, `Resume` | pausing and the waiting loop |
| `CheckStop`, `Stopped`, `Done`, `Close` | the two ways out of the function |
| `ThreadLock`, `CallerLock` | `std::unique_lock`, and the return from `cond->wait` |
| `StartBody`, `StepBody`, `PauseBody`, `StopBody`, `GetBody`, `Recheck`, `Dealloc` | the API functions after the lock, their waiting loops, the destructor |
| `AddEventFD`, `RemoveEventFD`, `ReadEvent` | the channel and its reader |

`Init` keeps the exchange of `single_stepping` and `start_sync` that the argument parser makes (line 178).
`count` is the step counter of the shared C++ object; it saturates at `CountCap`, and with
`FinalTime > CountCap` the simulation never ends.

`Careful` selects the client. Without it, the client calls anything at any time. With it, the client behaves
as the example scripts and notebooks do (`MayCall`): it waits for a transition to complete before the next
call, reads its events, registers its socket before the first call, and does not restart what it stopped. The discipline is needed: section 8 lists what
the code does otherwise.

### SimulationLifecycle

Which state may follow which, as a single variable, `state`. `PySimulation` has the same variable and refines it
(`ImplementsLifecycle`); `PyEventChannel` uses it as the source of events.

### PyEventChannel

The socket, the reading task, the queue and two coroutines: `simulate()` and one that waits for any event.
`other = "absent"` stands for a program without the second. `TaskRead` is one round of `EventChannel.__task`,
`Awaits` what a coroutine does with the events already queued. The callback that `Simulation.__init__`
registers for `overrun` raises, which ends the task for good.

### CoSimulation

Two simulators in step-by-step detail. `Alloc` and `Push` are the two halves of `writeValues` (a sample from
the pool; a write that is repeated while the queue is full), `ReadValues` is `readValues`, and
`SyncWrite`, `SyncRead`, `StepRead`, `StepWrite` are their uses in `sync` and `step`. `OpenFails` is a
`shmem_int_open` that fails, which ends the simulator. `control[s]` ends in `done`, `underrun` (the pool is empty:
`writeValues` exits), `exit` (a read failed) or `failed` (not opened). `mode` is the way the two are coupled (`sync`,
`syncStart`, start synchronisation, downsampling, what is exported and imported) together with the size of the pools
and whose memory cannot be opened, and is chosen initially: the interface asks for the length of its queue only, so
nothing in the code ties the size of the pool to it. Queue and pool belong to VILLASnode, whose source is not in the
repository; they are modelled from their use and marked external in the map.

### SwitchedSolver

`AddEvent` is `EventQueue::addEvent` as called by the binding, `HandleTop`, `Execute` and `Pop` are the three
statements of the loop in `handleEvents`, `SolverStep` is `MnaSolver::step`, which solves with the status of
the step before and then reads the switches. The matrices are the keys under which `createEmptySystemMatrix` stores
them. With `Concurrent` events may arrive between any two statements;
without, only between time steps.

### RealTimeTimer

The loop of `RealTimeSimulation::run` and `Timer::sleep` in both builds (`build`). The clock advances at any
time, so steps of any length and late wake-ups are included. `Account` keeps the unsigned subtraction
`ticks - 1` and its addition to a signed counter; `Word` stands for 2^64.

### MnaTopology

`MnaSolver::initialize` loop by loop, with its unsigned counters. The two loops of `identifyTopologyObjects` over
nodes and components (`NodeRound`, `CompRound`) go element by element. Matrices and vectors are represented by their
sizes.

### CommandLine

`CommandLineArgs` and the `getopt_long` it comes with on systems without one. `Start`, `EndOfArgs`, `NonOption`,
`DashDash`, `LongOption` and `ShortOption` are the branches of `getopt_internal`, one call of it after the other;
`PermuteArgs` is `permute_args` with its greatest common divisor of cycles; `Handle` is the `switch` of the
constructor, with the arguments it refuses and the ones `std::stod` throws on. An entry of the command line is
the kind of thing the scanner tells apart, not a string. `Reference` is an independent definition of the result:
a fold over the command line from left to right.

### SolverSetup

Extends the two above. `Launch` hands over the command line's choice, `PyInit` that of Python's
`Simulation.__init__`; `Construct` is the constructor of `Simulation`; the actions of `MnaTopology` or
`DaeConstruct`, `DaeNodes`, `DaeNumber`, `DaeState`, `DaeZero` and `DaeStep` follow. `counter` is the entry of the DAE state vector that is
written next, so that a value above `mNEQ` is a write outside of it. A residual function advances one of the two
offsets by an amount that belongs to the component library; it is taken as one entry. IDA is external: a step succeeds or fails.

### AttributeBindings

A script registers exports, imports and columns, reads, sets and connects, in any order, while the simulation
is stopped or paused; between its calls the simulation takes steps (`Run`, `ReadValues`, `Solve`, `WriteValues`,
`Log`). An attribute has a type and a value known by what wrote it last, so that a property can tell which step,
sample and slot a value comes from. `Throws` and `Applied` are the exceptions of the import closures, `Fits` that
of the export closures. Types, access flags and what `phase()`, `mag()`, `coeff()` refer to belong to the component
library and are modelled from their use.

### FifoQueue, ProducerQueue

`FifoQueue` is a sequence and what each consumer's call in progress has taken from it. `ProducerQueue` is the
`ExplicitProducer` or `ImplicitProducer` at the grain of atomic operations: `Enqueue` to `StoreTail` is the way of
a call that adds one or several elements (blocks reused, requisitioned or refused, a block index that is full and
doubled, the undoing when an allocation fails in the middle), `Dequeue` to `Release` that of a consumer (check,
optimistic claim, overcommit, take, look up the block through the index that was current, move, mark empty, give
the block back). Program order is kept; weaker memory orders are not modelled, and neither are exceptions of the
elements' constructors. The free list of blocks is a set. `undone` records that an explicit `enqueue_bulk` has failed
with blocks acquired, after which the block index is damaged (`bulk_room`, section 7).

The refinement mapping takes the elements from `headIndex` to `tailIndex` as they stand in their slots, found
through the block index: an element that was overwritten, unlinked or published too early makes it fail. `ImplementsFifo` and
`DestroysExactly` are stated up to `undone`; implicit producers never set it.
`DestroysExactly` evaluates the destructor in every quiet state instead of making it an action.

### ProducerRegistry

The list of producers is only appended to; `Scan`, `Recycle`, `Create` and `Add` are
`recycle_or_create_producer`. `EnqueueImplicit` and `HashStep` are `get_or_add_implicit_producer`, with tables
that are doubled by one thread while others probe the old ones. Tokens of both kinds are constructed, moved, swapped and
destroyed, also while the queue is. The dequeues are `try_dequeue` (`MeasureTail`, `Score`, `TryBest`, `Reload`,
`TryEach`), its bulk and non-interleaved variants, those from a producer token, which may overlap an enqueue of its owner, and those with a consumer token
(`Rotate`, `Place`, `TryCurrent`, `Search`, `Turn`). A sub-queue is reduced to how many elements entered and left.

### PyOwnership

Every function of the binding that creates, stores or releases an object, as one step; the releases it causes
follow one by one, because each may run a destructor that releases more. `load_cim` has a path for an empty list and
one for a filename given as `bytes`, whose reference from the converter is the one it releases. `stolen` and `leaked` record the
references that particular calls release without owning them, or never release. All other properties are then
exact: counts add up to the reference once those two are taken into account.

## 3. Runs

| Run | Result | States (approx.) | What it shows |
|---|---|---|---|
| `careful_client` | passes | 22 000 | A careful client of a simulation without an end, and of a real-time simulation of three steps: paused means parked, no wake-up is lost, one step per `step()`, `newState` never blocks on the socket, the mutex follows control, one thread, safe destruction, refinement of the life cycle. Every call on the first returns and there is no deadlock (`EndlessCallReturns`); the second reaches its end (`FiniteRunsToCompletion`). |
| `pause_hangs` | violation | | `pause()` during the last time step never returns. |
| `surroundings` | passes | 60 000 | Peer: start barrier, conservation of samples (`PoolKept`), the follower's samples, reads that succeed, both finish or a pool runs out unless both wait; all couplings, pools and declarations. Event loop: order and completeness of events, `simulate()` returns when and only when the simulation is done. Clock: `ClockKept` in both builds, `sleep()` returns. |
| `direct_coupling` | violation | | Two simulators with the default of `addInterface` wait for each other for ever. |
| `solver` | passes | 519 000 | Set-up: for command lines and Python arguments and all small topologies the scan agrees with the reference, rows and virtual nodes are numbered one-to-one, three phases are the only cause of a size mismatch, the unknowns of the DAE solver have one position each. Switching: every due event once and in time, no solution older than the events of the step before. |
| `switch_lag` | violation | | A switch event acts one step after its time. |
| `three_switches` | violation | | Two of three switches closed: no matrix. |
| `bindings` | passes | 1 100 000 | Every order of up to three binding calls and two time steps. |
| `ownership` | passes | 2 220 000 | All orders of constructing, storing, looking up and forgetting objects. |
| `subqueue` | passes | 609 000 | One sub-queue with a producer and two consumers, and a longer one with bulk calls over three blocks and consumers that take turns, implement `FifoQueue`; claims, blocks, destruction. |
| `bulk_room` | violation | | After a failed `enqueue_bulk` an index entry in use is overwritten. |
| `registry` | passes | 404 000 | Three threads on the producer list, tokens, hash tables and searches. |

`LockDiscipline` holds whatever the client does (proved for any client, section 6). The other properties of
`PySimulation` need the careful client; `pause_hangs` and section 8 show what goes wrong otherwise.

## 4. Bounds

* `PySimulation`: two thread slots, so that a second thread could exist (`OneThread` says it does not).
  `FinalTime = 9` with `CountCap = 3` never ends; three steps are the smallest number with a first, a middle
  and a last one. `ChanCap = 3` is as many events as one call and the thread's reaction to it announce; with one
  less, `SendNeverBlocks` fails, which is what the property is about. `ChanCap = 9` in the finite simulation is
  never reached. One registered socket is what the Python class registers.
* `PyEventChannel`: eight events cover start, pause, resumption and end with unread events in between; a socket
  for two events makes the sender block.
* `CoSimulation`: six steps and a queue of three, so that a fast writer blocks on a full queue and a finished peer
  leaves the other one without samples. Pools of three, the length of the queue, and of five, which leaves room for
  `mLastSample` and the sample in hand. Couplings: both poll, one waits for the other at every second step, both wait.
  A sample holds two values: one declaration exports beyond it, one imports more than is exported. One simulator's
  memory cannot be opened.
* `SwitchedSolver`: two switches, three steps and three events in `solver`: an event in the past, a due one and a
  future one, in any order of arrival. Three switches in `three_switches`: with two, the code creates all matrices.
* `RealTimeTimer`: interval 3 and a clock up to 26 let a step take several intervals; start times before, at and
  after the timer's start; `Word = 64` exceeds twice every clock value, so only the subtraction under test
  wraps.
* `SolverSetup`: all command lines of up to four entries of thirteen kinds (plain, flags, clusters, options with
  attached, separate or missing arguments, ambiguous and refused long options, `--`), and of five and six entries
  of four kinds, so that runs of options and of positional entries of coprime and of common length are exchanged.
  All lists of up to two nodes (ground, single-phase, three-phase, either domain) and two components (no, one or
  two virtual nodes, switch, two signal priorities, with and without DAE interface), the empty lists included.
  `SWITCH_NUM = 1` lets the limit on switches be exceeded; `Word = 16` exceeds every count.
* `AttributeBindings`: three calls and two steps, so that a registration can precede, follow or separate steps and
  be overwritten; two slots and samples of one or two values, so that an index can be the last one or too large.
* `ProducerQueue`: blocks of two elements, three blocks of which one is preallocated, an index of two entries that
  may double once, index arithmetic modulo 64, more than twice what the counters reach. The short queue has five
  elements altogether, at most two per call, and is limited to four; the long one seven (eight in `bulk_room`), at most
  three per call, so that a call can fail with two blocks in hand, and is limited to eight. A block is thus reused, the block index is wrapped and doubled,
  and every allocation can fail.
  `MaxOvercommit` bounds how many claims may be in excess when a dequeue starts.
* `ProducerRegistry`: `MCBudgets` bounds the calls of each kind and how many overlap: three threads that enter the
  tables at once, tables of two slots that double twice at most, six calls on two producer tokens, calls on two consumer
  tokens, four producers, a quota of one element before everybody rotates.
* `PyOwnership`: a node with the name of the ground node gives the clash of names; one object of each other type
  suffices because counts are per object; `MaxRefs = 1` bounds what a logger or simulation collects.

`subqueue` uses the symmetry of blocks and of consumers, `registry` that of threads, tokens and consumer tokens
(all threads have the same hash); both check safety only.

## 5. Fairness

* Threads and processes run when they can (weak fairness on `ThreadFunction`, `CallerStep`, `Simulate`, `Run`):
  they are operating system threads.
* `std::mutex` is not fair by its standard. `FairSpec` of `PySimulation` assumes strong fairness of taking it:
  a process that again and again finds it free gets it in the end. Weak fairness would not do, because spurious
  wake-ups of the other side can take the mutex in between; the sections are short, so starvation would need an
  unlimited number of coincidences.
* The event loop serves a readable socket and a coroutine that can go on (`ReadEvent`, `TaskRead`, `Simulate`).
* `sim->sync()` and `timer.sleep()` return. For the first see `CoSimulation`, for the second `SleepReturns`.
* The clock advances (`Tick`).
* Nothing obliges a client to make a call, or an event to be added.

## 6. Proofs

Eight modules hold theorems that TLAPS checks, for every value of the constants that satisfies the named
assumptions: any number of threads, objects, tokens, steps, calls and events, any size of a queue, pool or table.
TLC evaluates the named assumptions in every run. The column "Assumes" lists what a theorem assumes beyond them.

| Module | Theorem | Statement | Assumes |
|---|---|---|---|
| `PySimulationProofs` | `TypeCorrect`, `LockCorrect` | `[]TypeOK`, `[]LockDiscipline` | |
| | `CarefulCorrect` | `[]CarefulInv` | careful client, overruns not reported |
| | `SingleThread`, `PausedStandsStill`, `WakeupsReach`, `SingleStep`, `StepsWithInterfaces`, `SafeDealloc` | `[]` of `OneThread`, `PausedMeansParked`, `NoLostWakeup`, `StepBudget`, `InterfacesOpen`, `NoUseAfterFree` | as above |
| | `DoneStays` | `DoneIsFinal`, an action property | as above |
| | `LifecycleImplemented` | `ImplementsLifecycle`, the refinement | as above, at least one step, `CountCap >= 2` |
| | `SendsFit` | `[]SendNeverBlocks` | as above, a socket for `3 * MaxFds` events |
| | `DeliveryCorrect`, `ChannelTypeCorrect` | of `ChannelSpec`: `[]DeliveredInOrder`, `[]ChannelTypeOK` | |
| | `ClockCorrect` | of `TimerSpec`: `[]ClockKept` | |
| `CoSimulationProofs` | `BarrierCorrect`, `FollowerCorrect` | `[]StartBarrier`, `[]FollowsPeer` | |
| | `PoolCorrect` | `[]PoolKept` | |
| | `ReadsCorrect` | `[]ReadsSucceed` | `Served` |
| `SwitchedSolverProofs` | `DueEventsHandled` | `[]DueEventsDone` | events are added between steps |
| | `MatrixCorrect` | `[]MatrixCurrent` | as above |
| `SolverSetupProofs` | `SetupAlways` | `[]SetupIndInv` | |
| | `RowsAssignedAlways`, `DifferenceDefinedAlways`, `DaePositionsAlways` | `[]` of `RowsAssigned`, `DifferenceDefined`, `DaePositions` | |
| `AttributeBindingsProofs` | `SamplesAsDescribed`, `ImportsApplied`, `RowsCorrect` | `[]` of `DescribedSlots`, `ImportsTakeEffect`, `RowsMatchHeader` | `NoneIsNew` |
| `PyOwnershipProofs` | `CountsCorrect`, `NothingDanglesAlways`, `DictionariesCorrect` | `[]` of `CountsExact`, `NothingDangles`, `DictMatchesSystem` | |
| `ProducerRegistryProofs` | `OneOwnerAlways`, `TokensLinkedAlways` | `[]OneOwner`, `[]TokensLinked` | |
| | `FreeSlotAlways` | `[]FreeSlot` | |
| | `NothingOverlookedAlways` | `[]NothingOverlooked` | |
| `ProducerQueueProofs` | `ClaimsCoveredAlways` | `[]ClaimsCovered` | |

### Why the hypotheses

* "Overruns not reported" is `~(RealTime /\ FailOnOverrun)`: a reported overrun leaves the state `overrun`, in which
  `start()` creates a second thread (section 8), and the theorems would be false. `CountCap >= 2` lets the
  saturating counter tell the first step from a later one, which is what the announcement of `running` depends on.
  `3 * MaxFds` is the number of events between two reads of a careful client: with less, the property fails.
* `Served` says that the peer of a simulator that waits sends initial values if they are waited for, and exchanges
  at least as often; otherwise the peer may close without having sent what is waited for, and the read fails.
* Events added while `handleEvents` runs may be lost (section 8), so the theorems about switching assume
  `~Concurrent`. They hold for any number of switches.
* `NoneIsNew`: the value that stands for "no header" and "no row" is neither a set of columns nor a function.
* `TimerAssumption`: the clock stays below half of `Word`, that is below 2^63 ns. `SampleAssumption`: indices are
  not negative. `TypeAssumption`: an object has one type.
* `CounterAssumption` of `ProducerQueue`: finitely many consumers, and counters that stay below half the range of
  `index_t`. The code compares indices circularly, by the high bit of their difference; with a 64-bit `index_t` no
  program gets there.
* `InputAssumption` of `MnaTopology`: a topology has fewer matrix rows than a `UInt` counts. `FewRows` bounds them by
  three per node and, for each component, the most virtual nodes one of them has.

### The inductive invariants

None of the properties is inductive. Each proof names an invariant, which TLC checked before it was proved, shows
that each action preserves it (one step per action; for the larger modules one lemma per action), and derives the
theorems by `PTL`.

`PySimulation`. `OneThread`, for instance, needs to know that a state in which `start()` creates a thread is one
without a thread.

    CarefulInv == LockDiscipline /\ ThreadInv /\ CallerInv /\ SpentInv /\ NoLostWakeup

`ThreadInv` ties the state to the position of the only thread (stopped: none; paused: parked; done: closing or
gone) and to the interfaces; `CallerInv` says what the caller may rely on between the moment it makes a call and
the moment it has the mutex (the client waited for a settled state, and only the caller leaves it, except that a
running simulation may pause or end); `SpentInv` says where a thread can be after the one step of `step()` is
used up; `NoLostWakeup` is needed because it makes the only waiter the one `notify_one` wakes. The refinement and
`SendNeverBlocks` need in addition which states a thread can find at each of its control points, and how many
unread events belong to each of them.

`PyEventChannel`. `DeliveryInv` adds to `DeliveredInOrder` that a `done` in the socket, or handed to the callbacks,
was announced by a simulation that is done.

`CoSimulation`. `CoInv` is a conjunction of facts about one simulator and its link to the peer: where the samples of
its pool are, how many it has numbered at each control point (`SentOf`), which one it has imported (`ImportOf`), and
that the queue holds exactly the samples in between (`LinkOf`). `FollowsPeer` follows because a simulator that waits
cannot skip one of them. `Ceil` and `Quot` express how many exchanges are due by a step.

`SwitchedSolver`. `SwitchInv` says which events have been executed at each statement of the loop in `handleEvents`
(`ExecutedInv`), that what is queued is due now or later (`DueInv`), and that switches, status and the last solution
are where the events of this step, of the one before and of the one before that have left them (`PositionInv`).

`RealTimeTimer`. `ClockInv` adds to the accounting of overruns how the counters of each build hang together: with
timerfd every expiration read is a tick and every sleep reads at least one, and the fallback's next tick is one
interval after the last tick it counted. The unsigned difference then wraps only from 0 to -1, and its signed
reading is right.

`AttributeBindings`. `BindingInv` has a part for each list that calls build and the simulation thread reads later. Its
heart is `Agree`: the description at an index is that of the last export bound to that index.

`PyOwnership`. `OwnInv` says of every object, created or not, that its count is the number of references in the
dictionaries, lists, pointers, variables and pending releases. The number is a sum of cardinalities of sets and of
occurrences in sequences; the lemmas before it say how each summand changes when one dictionary, list or pointer
does. They use the library's theorems on finite sets instead of an induction.

`ProducerRegistry`. `OneOwner` counts the owners of a producer; what is inductive is that any two ways to have it
(a token, an entry of any table, a call that is about to hand it over) belong to the same owner (`Exclusive`), that
only producers made for tokens become inactive while tables have the other kind only (`KindInv`), and what each call
holds at each control point (`ThreadInv`). Three frame lemmas carry the proof, for steps that leave producers to
their owners, steps that add a producer or an owner, and steps that exchange producers between tokens.

`FreeSlot` says that a thread that probes a hash table meets an empty slot. An insertion announces itself by
incrementing a counter, and a table is replaced when the counter reaches half of it; but a thread may announce itself,
be overtaken by any number of others and insert into an old table. `HashInv(r)` therefore speaks of a rank `r`, the
count each thread read when it announced itself. At most `m` threads have a rank up to `m`, and all entries of a table
have ranks below its limit, so that a table is never full. The theorem proves that some such rank exists in every
reachable state: the ranks are a ghost of the proof and not a variable of the model.

`NothingOverlooked` says that a dequeue that failed has found every sub-queue that existed when it began to be empty.
`SearchInv` says of each call in progress which part of the list it has looked at (`WalkInv`: for a consumer token,
the producers between where the walk started and where the token stands, around the end of the list), that a token
stands at a producer of the list once it has rotated (`ConsumerInv`), that `producerCount` is ahead of the list by the
threads that are about to link a producer (`CountInv`), and that no more elements leave a sub-queue than entered
it (`SizeInv`).

`ProducerQueue`. A consumer claims elements by adding to `dequeueOptimisticCount`, looks at the tail again, and gives back
what is not there by adding to `dequeueOvercommit`; only then it advances the head, which cannot fail any more.
`ClaimsCovered` says that the counters balance and that a consumer about to advance the head finds its elements. The
claims are decided in any order and against tails and overcommits that were loaded at different times. `ClaimInv` has
what a call holds at each control point (`CallInv`), the balance and the bounds of the counters (`CounterInv`), and that
there is a frontier `f` with `FrontierInv(f)`, where the last claim begins that was covered, wholly or in part: what is
granted, with all undecided claims before the frontier, ends at the tail, and for a claim behind it, ends where that
claim began, less the overcommit it knew of. The frontier is a ghost of the proof. Sums over consumers are numbers of
pairs, `Total(f)` being the cardinality of `Units(f)`, and the lemmas `TotalChange` and `TotalApart` say how a sum changes
with one summand.

`SolverSetup`. `SetupInv` has a part for each phase, and `LaunchInv` says that no solver is made before the arguments are
read. In the MNA phase (`MnaPhaseInv`) only network nodes are in `mNodes` until virtual nodes are made (`NetworkOnly`),
the power components are those of the list in order (`PowerUpTo`), the number of nodes is bounded by those of the
components passed (`VirtualInv`, which `FewRows` needs to exclude a wrapped counter), and the rows assigned so far are
ascending, without a gap, and the network's first (`Assigned`). That the nodes partition the rows follows because an
injection of a finite set into one of the same size is onto (`FS_Injection`). In the DAE phase (`DaePhaseInv`) the
counter is one behind the number of positions, modulo `Word`, as it starts at -1 (`DaeNumbered`).

### What the proofs changed in the models

* `ProducerRegistry`: moving and swapping tokens used to relink every producer a live token has, also that of a third
  token whose destructor was giving its producer back. The code relinks those of
  the tokens involved only, and so does `Relinked` now. The difference shows with three tokens; the run has two.
* `AttributeBindings`: the two descriptions of a call are `Described` and `Import` states directly what the values are after
  the import closures were called in order.
* `ProducerRegistry`: the size of a new hash table is `Doubled` with a number of `Doublings`, which says of the result
  what the loop of the code establishes.
* `ProducerQueue`: the sums in `ClaimsCovered` are `Total` of a function. The indices were taken modulo 16, within which
  the bounds of the run do not guarantee that the counters stay below half the range; they are taken modulo 64 now.
* `MnaTopology`, `SolverSetup`: the loops over nodes and components, and that of `DAESolver` over nodes, are taken
  element by element, as the code does, in place of operators that filter or fold a whole list.
* `PyEventChannel` and `RealTimeTimer` have specifications with names of their own, and `PySimulation` the variable of
  `SimulationLifecycle`, so that one module can extend them all.
* Assumptions that had been left implicit are stated: `CounterAssumption`, `InputAssumption`, `Word` in `TimerAssumption`, `TypeAssumption`, `FileAssumption`, and
  `None \notin Nat` in `RegistryAssumption`.

### Only model-checked

* Liveness (`CallReturns`, `RunsToCompletion`, `SimulateReturns`, `CallbackReached`, `SleepReturns`, `FinishOrUnderrun`)
  and absence of deadlock: fairness and `ENABLED` are outside the prover's reach.
* `ReadsLikeReference`: the reference is a fold over the command line, and what it computes for every input needs an
  induction over data.
* `BlocksAccounted`, `DestroysExactly` and `ImplementsFifo` of `ProducerQueue`: no proof yet. They need where
  each block is (ring, index, free list, in a consumer's hands) and which slots of it are written, beyond the counters
  of `ClaimInv`.

## 7. Findings with a run

* `pause_hangs`: the thread decides on a state it read without the mutex and then stores `done` over
  `pausing` (`Source/Python/Simulation.cpp:120`); `pause()` (line 430) waits for `paused`. The doc says "Pause the
  simulation at the next possible time (usually, after finishing the current timestep)" (line 415).
* `switch_lag`: `MnaSolver::step` solves and reads the positions of the switches afterwards (`Source/MNASolver.cpp:363`),
  so an event acts one step late. The doc of `add_switch_event` says "The time at which the switch action should occur"
  (`Source/Python/Simulation.cpp:263`).
* `three_switches`: `createEmptySystemMatrix` makes 2n matrices in place of 2^n (`Source/MNASolver.cpp:223`), so that with
  three switches the keys 6 and 7 have none. `Include/dpsim/MNASolver.h:87` says "Map of system matrices where the key
  is the bitset describing the switch states", and up to 32 switches are accepted.
* `direct_coupling`: `Simulation::step` reads before it writes (`Source/Simulation.cpp:134`), and `sync()` has already
  consumed the samples it exchanged: two simulators with the default of `addInterface` wait for each other.
  `Examples/Cxx/Shmem/ShmemDistributedDirect.cpp:34` couples two like this and says "Here, the two instances directly
  communicate with each other".
* `bulk_room`: when an allocation fails in `enqueue_bulk` of an explicit producer, the count of index slots goes back but
  the injected blocks stay in the list (`Include/dpsim/ConcurrentQueue.h:2024-2046`), which then has more blocks than the
  index has slots. Reusing them overwrites entries of blocks that hold elements, although the comment at line 1796 says
  there is "guaranteed to be room". `undone` in `ImplementsFifo` and `DestroysExactly` excuses what follows from it:
  elements are lost; when the index grows, entries can be duplicated; and if it was the first call, the destructor reads
  an entry that was never written.

## 8. Other disagreements met while modelling

Each of these was observed in the model (or while reading the code for it) and has no run of its own.
`PySim` is `Source/Python/Simulation.cpp`.

* `handleEvents` pops whatever is on top after `execute()` (`Source/Event.cpp:41`), and `add_event` takes no lock:
  an event added in between disappears. To see it, check `NoEventLost` of `SwitchedSolver` with
  `Concurrent = TRUE`.
* `writeValues` exits when the pool is empty (`Source/Interface.cpp:107`). With a pool of as many samples as the queue,
  a writer that is ahead of its reader exits although the queue has room, because `mLastSample` and the sample in hand
  come out of the same pool (`QueueLenUsable` of `CoSimulation` is violated with `Modes <- SmallPool`). `PoolKept` says when
  it happens; the size of the pool is VILLASnode's.
* A failed `enqueue_bulk` that has reused blocks leaves the entries it wrote over the oldest ones; the destructor then
  begins with one of them, against the assertion at `Include/dpsim/ConcurrentQueue.h:1732` (`HalfDequeuedAsserted` of
  `ProducerQueue` is violated with the constants of `bulk_room`).
* `import_attribute` uses `mode` uninitialised when the argument is left out, and parses the arguments with the
  format `Osi|ds` into `gain` and `mode` while the keyword list names `mode` before `gain`
  (`Source/Python/Interface.cpp:98-102`); `Examples/Python/test_ShmemDistributedDirect.py:17` passes 0 and 1, which
  the last letter of the format refuses. The model takes any mode as possible.
* An attribute of a `Component()` made without a type is read through a null pointer (`Source/Python/Component.cpp:70`).
* A sample with an export beyond its capacity is not sent short: the previous one is sent again
  (`Source/Interface.cpp:135`). The doc of `samplelen` says it "Must be greater or equal to the maximum index passed
  to the export methods" (`Source/Python/Interface.cpp:397`): an index equal to it does not fit, so that every step sends
  the previous sample (`SampleLenSuffices` of `AttributeBindings` is violated).
* A sample shorter than the imports throws out of `readValues` after some of them were applied, and ends the
  simulation (`Source/Interface.cpp:86`).
* `log_attribute` after the first row widens the rows but not the header (`Source/DataLogger.cpp:128`).
* `DAESolver` casts nodes to `Node<Real>` whatever the domain, so DP nodes give null pointers
  (`Source/DAESolver.cpp:59`); it writes `mNEQ - 1` entries behind those it has written (line 124), beyond the state
  vector for more than one node or component (`StateWithinVector` of `SolverSetup` is violated); and its `step` advances the time when IDA fails (line 165).
* The state of the option scanner is static: a second `CommandLineArgs` in one process starts where the first one
  ended (`Include/dpsim/Compat/getopt.h:80`). `--start-at` fills part of an uninitialised `std::tm`.
* `start()` right after `step()`, or after a reported overrun, creates a second thread over the same simulation
  (`PySim:461`), while the doc promises a `SystemError` "if the simulation is already running or finished"
  (`PySim:442`).
* `start()` and `step()` restart a stopped simulation (`PySim:461`, `485`); the doc of `stop()` says "the simulation
  can not be restarted" (`PySim:512`).
* `stop()` raises when nothing runs (`PySim:518`); its doc says "No-op if the simulation is not running" (`PySim:513`).
* A refused `step()` has already set `singleStepping` (`PySim:483`), so that a running simulation pauses.
* `single_stepping` and `start_sync` are exchanged between parsing and storing (`PySim:177-178`; doc at line 636).
* `start()` can miss the state `running` of a short simulation and never returns (`PySim:468`; "returns immediately",
  line 440). `stop()` during a single step waits for a state that `paused` overwrites (`PySim:98`), and with it the
  destructor (`PySim:227`).
* `startTime` is unsigned and initialised with -1, so its test `> 0` always holds (`PySim:165`). A downsampling of 0
  divides by zero (`Source/Simulation.cpp:133`). A time step below a nanosecond gives the timer an interval of 0
  (`Include/dpsim/Timer.h:104`).
* An overrun ends the task that reads the events (`Source/Python/dpsim/Simulation.py:89`), so the callback of
  `Examples/Python/test_async.py:14`, which expects `Event.overrun`, is never called with it; after `stop()`,
  `simulate()` never returns; of two waiting coroutines each discards the other's events.
* `steadyStateInitialization` compares vectors of different sizes when a node has three phases
  (`Source/MNASolver.cpp:274`); `DifferenceDefined` states that nothing else does.
* The fallback timer does not count a sleep that ends exactly at a tick and returns at once from the next one
  (`Source/Timer.cpp:75`; "Suspend thread execution until next tick", `Include/dpsim/Timer.h:78`).
* A failed write loses its sample (`Source/Interface.cpp:124`): a simulator that outlives its peer exits with a pool
  underrun. An export beyond the sample's capacity sends the last sample instead and loses the new one (line 135).
* `add_component` and `add_node` release a reference they do not own (`Source/Python/SystemTopology.cpp:61`, `104`),
  `load_cim` releases the caller's list and leaks the wrappers it creates (`Source/Python/LoadCim.cpp:84`) and
  refuses the single filename its doc allows (line 72 against line 41); a refused `Simulation` releases a topology
  it never took a reference to (`PySim:172`, `254`).

## 9. Not modelled

* Numerics: stamping, factorisation, the solution vectors, component models (CPowerSystems, a submodule that is
  not in the repository), the equations of the DAE solver and what IDA computes.
* The ODE solver: not among the sources the build compiles, and it does not compile (it uses names that are not
  declared).
* VILLASnode's shared memory library: modelled from its use.
* A `send` that fails (`Source/Python/EventChannel.cpp:50`): the exception leaves the thread function and ends the process.
  `add_eventfd` and `remove_eventfd` change the list of descriptors without a lock while the thread may go through it; the
  model has them as atomic steps.
* How far a component's residual function advances the offsets of the DAE solver: the component library's.
* `load_cim` with a single `str`, or with a list that holds something that is no path, raises before it changes a
  reference and has no step.
* Number formatting of `DataLogger`, texts of usage and copyright, `add_logger`, which extends a list only.
* The progress bar and the SVG output of the Python layer; what the CIM reader parses.
* Calendar and floating-point conversion of times; downsampling of 0; 2^31 steps.
* `ConcurrentQueue.h`: the inside of the lock-free `FreeList` (a set of blocks here), moving and swapping whole
  queues, `size_approx` of a queue, exceptions thrown by elements, thread-exit listeners (not compiled in), memory
  orders weaker than program order.
* `ReaderWriterQueue.h`: a third-party header that nothing includes. `getopt_long_only`: no caller.

## 10. Plan

Prove: `BlocksAccounted` of `ProducerQueue`, an invariant of the ring and the index of blocks, and with it and
`ClaimInv` `DestroysExactly` and `ImplementsFifo`.

Model: the free list of `ConcurrentQueue.h` with its reference counts; several interfaces per simulator in
`CoSimulation`.

## 11. Running it

    tlc -config CarefulClient.cfg MCCarefulClient
    for m in *Proofs.tla; do tlapm $m; done

The proofs of `ProducerRegistryProofs` take about ten minutes, those of `PyOwnershipProofs`, `SolverSetupProofs` and
`PySimulationProofs` several, the others less.

`PROJECT.json` names the module and configuration of each run, the source lines each definition models, the
hazards, and for each property a mutation of the code that it detects.
