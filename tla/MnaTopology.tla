----------------------------- MODULE MnaTopology ----------------------------
(***************************************************************************)
(* MnaSolver::initialize up to the first time step: the network nodes and  *)
(* components of the topology are collected, components get their virtual  *)
(* nodes, every phase of every node gets a row of the system matrix, the   *)
(* vectors are sized, and the steady-state initialisation may run.         *)
(*                                                                         *)
(* The loops that number nodes and rows are taken step by step, with the   *)
(* unsigned counters of the code; positions are those of the C++ vectors,  *)
(* starting at 0.  Matrices and vectors are represented by their size.     *)
(* SolverSetup says when a solver is made and for which domain.            *)
(***************************************************************************)
EXTENDS Naturals, Sequences, FiniteSets, SequencesExt

CONSTANTS
  NodeLists,   \* the mNodes a topology may have
  CompLists,   \* the mComponents a topology may have
  SteadyState, \* mSteadyStateInit
  MaxIter,     \* bound: rounds of the steady-state loop before time is up
  SWITCH_NUM,  \* 32 in the code
  Word         \* 2^32, the range of UInt

NodeKind == [ground : BOOLEAN, abc : BOOLEAN, domain : {"DP", "EMT"}]

(* mna, sw, signal, dae: the interfaces a component offers; power: the     *)
(* domain for which it is a PowerComponent<VarType>, if it is one.         *)
CompKind == [mna : BOOLEAN, power : {"DP", "EMT", "none"}, virt : Nat, sw : BOOLEAN,
             signal : BOOLEAN, prio : Nat, dae : BOOLEAN]

(* A topology has fewer rows than a UInt can count: v bounds the virtual   *)
(* nodes of a component.                                                   *)
FewRows(ns, cs, v) ==
  /\ \A c \in 1 .. Len(cs) : cs[c].virt <= v
  /\ 3 * Len(ns) + Len(cs) * v < Word

ASSUME InputAssumption ==
  /\ \A ns \in NodeLists : ns \in Seq(NodeKind)
  /\ \A cs \in CompLists : cs \in Seq(CompKind)
  /\ \A ns \in NodeLists, cs \in CompLists : \E v \in 0 .. Word : FewRows(ns, cs, v)
ASSUME SettingAssumption ==
  /\ SteadyState \in BOOLEAN
  /\ MaxIter \in Nat \ {0} /\ SWITCH_NUM \in Nat /\ Word \in Nat \ {0}

VARIABLES
  nodes, comps,        \* mSystem
  mDomain,             \* "DP", where VarType is Complex, or "EMT"
  pc,                  \* "none": no solver yet
  mNodes,              \* [abc, owner, slot]; owner 0 is the network
  mPowerComponents, mSwitches, mSignalComponents,  \* positions in comps
  mNumNetNodes, mNumNodes, mNumNetSimNodes, mNumSimNodes,
  comp, node,          \* counters of the loops over components and nodes
  virtualNode,         \* counter of createVirtualNodes
  virtual,             \* virtual[c]: what setVirtualNodeAt stored in c
  idx, simNodeIdx,     \* counters of assignSimNodes
  simNodes,            \* simNodes[k]: rows of the k-th node
  rows, prevRows,      \* size of mLeftSideVector and of the copy kept of it
  iter                 \* rounds of the steady-state loop

topo   == <<nodes, comps, mDomain>>
lists  == <<mPowerComponents, mSwitches, mSignalComponents>>
virt   == <<comp, node, virtualNode, virtual>>
assign == <<idx, simNodeIdx, simNodes>>
steady == <<rows, prevRows, iter>>
mnaVars == <<topo, pc, mNodes, lists, mNumNetNodes, mNumNodes, mNumNetSimNodes,
             mNumSimNodes, virt, assign, steady>>

MnaInit ==
  /\ nodes = <<>> /\ comps = <<>> /\ mDomain = "DP"
  /\ pc = "none"
  /\ mNodes = <<>>
  /\ mPowerComponents = <<>> /\ mSwitches = <<>> /\ mSignalComponents = <<>>
  /\ mNumNetNodes = 0 /\ mNumNodes = 0 /\ mNumNetSimNodes = 0 /\ mNumSimNodes = 0
  /\ comp = 0 /\ node = 0 /\ virtualNode = 0
  /\ virtual = <<>>
  /\ idx = 0 /\ simNodeIdx = 0 /\ simNodes = <<>>
  /\ rows = 0 /\ prevRows = 0 /\ iter = 0

(* A solver is made for some topology.                                     *)
Make(from, first) ==
  /\ pc = from /\ pc' = first
  /\ nodes' \in NodeLists /\ comps' \in CompLists
  /\ virtual' = [c \in 1 .. Len(comps') |-> <<>>]
  /\ UNCHANGED <<mDomain, mNodes, lists, mNumNetNodes, mNumNodes, mNumNetSimNodes,
                 mNumSimNodes, comp, node, virtualNode, assign, steady>>

(* The cast to Node<VarType> gives a null pointer for a node of the other  *)
(* domain, and the loop that logs the names dereferences it.               *)
Castable(domain) == \A k \in 1 .. Len(nodes) : nodes[k].ground \/ nodes[k].domain = domain

(* identifyTopologyObjects, after the check for an empty topology.         *)
Identify ==
  /\ pc = "identify"
  /\ pc' = CASE comps = <<>> -> "failed"
             [] comps # <<>> /\ ~Castable(mDomain) -> "crashed"
             [] OTHER -> "nodes"
  /\ UNCHANGED <<topo, mNodes, lists, mNumNetNodes, mNumNodes, mNumNetSimNodes, mNumSimNodes,
                 virt, assign, steady>>

(* The loop over mSystem.mNodes, which leaves out the ground.              *)
NodeRound ==
  /\ node < Len(nodes)
  /\ node' = node + 1
  /\ mNodes' = IF nodes[node'].ground THEN mNodes
               ELSE Append(mNodes, [abc |-> nodes[node'].abc, owner |-> 0, slot |-> 0])

NodeLoop ==
  /\ pc = "nodes"
  /\ \/ NodeRound /\ UNCHANGED pc
     \/ node >= Len(nodes) /\ pc' = "comps" /\ UNCHANGED <<node, mNodes>>
  /\ UNCHANGED <<topo, lists, mNumNetNodes, mNumNodes, mNumNetSimNodes, mNumSimNodes,
                 comp, virtualNode, virtual, assign, steady>>

(* The loop over mSystem.mComponents; comp is the one looked at last.      *)
AddIf(list, kind) == IF comps[comp'][kind] THEN Append(list, comp') ELSE list

CompRound ==
  /\ comp < Len(comps)
  /\ comp' = comp + 1
  /\ mSwitches' = AddIf(mSwitches, "sw")
  /\ mPowerComponents' = AddIf(mPowerComponents, "mna")
  /\ mSignalComponents' = AddIf(mSignalComponents, "signal")

CompLoop ==
  /\ pc = "comps"
  /\ \/ CompRound /\ UNCHANGED pc
     \/ comp >= Len(comps) /\ pc' = "virtual_begin" /\ UNCHANGED <<comp, lists>>
  /\ UNCHANGED <<topo, mNodes, mNumNetNodes, mNumNodes, mNumNetSimNodes, mNumSimNodes,
                 node, virtualNode, virtual, assign, steady>>

(* createVirtualNodes, the head: virtualNode = mNumNetNodes - 1 wraps      *)
(* around when there is no network node.                                   *)
VirtualBegin ==
  /\ pc = "virtual_begin"
  /\ mNumNetNodes' = Len(mNodes)
  /\ virtualNode' = (Len(mNodes) + Word - 1) % Word
  /\ comp' = 1 /\ node' = 0
  /\ pc' = "virtual"
  /\ UNCHANGED <<topo, mNodes, lists, mNumNodes, mNumNetSimNodes, mNumSimNodes,
                 virtual, assign, steady>>

Current == mPowerComponents[comp]

(* createVirtualNodes skips what is no PowerComponent of its VarType.      *)
Wanted(c) == IF comps[c].power = mDomain THEN comps[c].virt ELSE 0

(* One round of the inner loop: virtualNode++, push_back and               *)
(* setVirtualNodeAt(mNodes[virtualNode], node).                            *)
NewVirtualNode ==
  /\ virtualNode' = (virtualNode + 1) % Word
  /\ mNodes' = Append(mNodes, [abc |-> FALSE, owner |-> Current, slot |-> node])
  /\ virtual' = [virtual EXCEPT ![Current] = Append(@, virtualNode')]

VirtualLoop ==
  /\ pc = "virtual"
  /\ comp <= Len(mPowerComponents)
  /\ IF node < Wanted(Current)
     THEN NewVirtualNode /\ node' = node + 1 /\ UNCHANGED comp
     ELSE node' = 0 /\ comp' = comp + 1 /\ UNCHANGED <<virtualNode, mNodes, virtual>>
  /\ UNCHANGED <<topo, pc, lists, mNumNetNodes, mNumNodes, mNumNetSimNodes,
                 mNumSimNodes, assign, steady>>

VirtualEnd ==
  /\ pc = "virtual"
  /\ comp > Len(mPowerComponents)
  /\ mNumNodes' = Len(mNodes)
  /\ pc' = "assign"
  /\ UNCHANGED <<topo, mNodes, lists, mNumNetNodes, mNumNetSimNodes, mNumSimNodes,
                 virt, assign, steady>>

(* Rows of a node: setSimNode(0) and, for three phases, 1 and 2.           *)
Width(n) == IF n.abc THEN 3 ELSE 1

(* Mutant of AssignRound: the end of the network is seen one node late.    *)
AssignRoundLate ==
  LET n == mNodes[idx + 1] IN
  /\ simNodes' = Append(simNodes, [p \in 1 .. Width(n) |-> simNodeIdx + p - 1])
  /\ simNodeIdx' = simNodeIdx + Width(n)
  /\ mNumNetSimNodes' = IF idx = mNumNetNodes THEN simNodeIdx' ELSE mNumNetSimNodes
  /\ idx' = idx + 1

(* One round of assignSimNodes; `idx == mNumNetNodes-1` is unsigned.       *)
AssignRound ==
  LET n == mNodes[idx + 1] IN
  /\ simNodes' = Append(simNodes, [p \in 1 .. Width(n) |-> simNodeIdx + p - 1])
  /\ simNodeIdx' = simNodeIdx + Width(n)
  /\ mNumNetSimNodes' = IF idx = (mNumNetNodes + Word - 1) % Word
                        THEN simNodeIdx' ELSE mNumNetSimNodes
  /\ idx' = idx + 1

AssignLoop ==
  /\ pc = "assign" /\ idx < Len(mNodes)
  /\ AssignRound
  /\ UNCHANGED <<topo, pc, mNodes, lists, mNumNetNodes, mNumNodes, mNumSimNodes,
                 virt, steady>>

AssignEnd ==
  /\ pc = "assign" /\ idx >= Len(mNodes)
  /\ mNumSimNodes' = simNodeIdx
  /\ pc' = "sort"
  /\ UNCHANGED <<topo, mNodes, lists, mNumNetNodes, mNumNodes, mNumNetSimNodes,
                 virt, assign, steady>>

(* sortExecutionPriority: std::sort leaves equal priorities in any order.  *)
SortExecutionPriority ==
  /\ pc = "sort"
  /\ mSignalComponents' \in
       {s \in SetToSeqs(ToSet(mSignalComponents)) :
          \A i, j \in DOMAIN s : i < j => comps[s[i]].prio >= comps[s[j]].prio}
  /\ pc' = "create"
  /\ UNCHANGED <<topo, mNodes, mPowerComponents, mSwitches, mNumNetNodes, mNumNodes,
                 mNumNetSimNodes, mNumSimNodes, virt, assign, steady>>

Parts == IF mDomain = "DP" THEN 2 ELSE 1

(* createEmptyVectors and createEmptySystemMatrix.                         *)
CreateEmpty ==
  /\ pc = "create"
  /\ rows' = Parts * mNumSimNodes
  /\ pc' = CASE Len(mSwitches) > SWITCH_NUM -> "failed"
             [] Len(mSwitches) <= SWITCH_NUM /\ SteadyState /\ mDomain = "DP" -> "steady"
             [] OTHER -> "ready"
  /\ UNCHANGED <<topo, mNodes, lists, mNumNetNodes, mNumNodes, mNumNetSimNodes,
                 mNumSimNodes, virt, assign, prevRows, iter>>

(* Mutant of SteadyBegin: sized by the network nodes.                      *)
SteadyBeginNetwork ==
  /\ pc = "steady"
  /\ prevRows' = 2 * mNumNetNodes
  /\ pc' = "steady_loop"
  /\ UNCHANGED <<topo, mNodes, lists, mNumNetNodes, mNumNodes, mNumNetSimNodes,
                 mNumSimNodes, virt, assign, rows, iter>>

(* steadyStateInitialization: prevLeftSideVector has 2 * mNumNodes rows.   *)
SteadyBegin ==
  /\ pc = "steady"
  /\ prevRows' = 2 * mNumNodes
  /\ pc' = "steady_loop"
  /\ UNCHANGED <<topo, mNodes, lists, mNumNetNodes, mNumNodes, mNumNetSimNodes,
                 mNumSimNodes, virt, assign, rows, iter>>

(* One round: solve, compare with the previous solution, stop when the     *)
(* difference is small or the time is up.  The difference of two vectors   *)
(* of different sizes is not defined.                                      *)
SteadyLoop ==
  /\ pc = "steady_loop"
  /\ iter' = iter + 1
  /\ IF prevRows # rows
     THEN pc' = "undefined" /\ UNCHANGED prevRows
     ELSE /\ prevRows' = rows
          /\ \E small \in BOOLEAN :
               pc' = IF small \/ iter' >= MaxIter THEN "ready" ELSE pc
  /\ UNCHANGED <<topo, mNodes, lists, mNumNetNodes, mNumNodes, mNumNetSimNodes,
                 mNumSimNodes, virt, assign, rows>>

Initialize ==
  \/ Identify \/ NodeLoop \/ CompLoop
  \/ VirtualBegin \/ VirtualLoop \/ VirtualEnd \/ AssignLoop \/ AssignEnd
  \/ SortExecutionPriority \/ CreateEmpty \/ SteadyBegin \/ SteadyLoop

-----------------------------------------------------------------------------
Numbered == pc \in {"sort", "create", "steady", "steady_loop", "ready", "undefined"}

NodePhases == {kp \in (1 .. Len(mNodes)) \X (1 .. 3) : kp[2] <= Width(mNodes[kp[1]])}

(* Each row of the system matrix belongs to one phase of one node, and     *)
(* every phase of every node that is not ground has a row.                 *)
RowsAreAPartition ==
  /\ \A k \in 1 .. Len(mNodes) : Len(simNodes[k]) = IF mNodes[k].abc THEN 3 ELSE 1
  /\ \A r \in 0 .. mNumSimNodes - 1 :
       Cardinality({kp \in NodePhases : simNodes[kp[1]][kp[2]] = r}) = 1
  /\ Cardinality(NodePhases) = mNumSimNodes

(* mNumNetSimNodes separates the rows of the network from the rows of      *)
(* virtual nodes, also in a topology without network nodes, where the      *)
(* unsigned comparison with mNumNetNodes - 1 never holds.                  *)
NetworkRowsFirst ==
  \A kp \in NodePhases :
    simNodes[kp[1]][kp[2]] < mNumNetSimNodes <=> mNodes[kp[1]].owner = 0

(* setVirtualNodeAt hands every component its own new nodes, all that it   *)
(* asked for and in order, whatever the counter started from.              *)
VirtualNodesOwned ==
  \A c \in 1 .. Len(comps) :
    /\ Len(virtual[c]) = IF comps[c].mna THEN Wanted(c) ELSE 0
    /\ \A j \in 1 .. Len(virtual[c]) :
         /\ virtual[c][j] < Len(mNodes)
         /\ mNodes[virtual[c][j] + 1] = [abc |-> FALSE, owner |-> c, slot |-> j - 1]

(* The numbering of createVirtualNodes and assignSimNodes: rows are a      *)
(* partition, those of the network come first, and every virtual node is   *)
(* with the component that asked for it.                                   *)
RowsAssigned == Numbered => RowsAreAPartition /\ NetworkRowsFirst /\ VirtualNodesOwned

(* Only a three-phase node makes the steady-state initialisation subtract  *)
(* vectors of different sizes (mNumNodes counts nodes, not phases).        *)
DifferenceDefined == pc = "undefined" => \E k \in 1 .. Len(mNodes) : mNodes[k].abc
=============================================================================
