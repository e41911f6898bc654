-------------------------- MODULE SolverSetupProofs --------------------------
(***************************************************************************)
(* Proofs about SolverSetup: for every topology, the rows of the system    *)
(* matrix are a partition with those of the network first, every component *)
(* has its virtual nodes, only a three-phase node lets the steady-state    *)
(* loop subtract vectors of different sizes, and a DAESolver numbers its   *)
(* unknowns from 0 on without a gap.                                       *)
(***************************************************************************)
EXTENDS SolverSetup, TLAPS, FiniteSetTheorems, SequenceTheorems

NodeRec == [abc : BOOLEAN, owner : Nat, slot : Nat]

W(k) == Width(mNodes[k])

-----------------------------------------------------------------------------
(* The invariant, by the phases of the set-up                              *)

TopologyInv ==
  /\ nodes \in Seq(NodeKind) /\ comps \in Seq(CompKind)
  /\ \E v \in 0 .. Word : FewRows(nodes, comps, v)

(* The network nodes have been found, and nothing else.                    *)
NetworkOnly ==
  /\ mNodes \in Seq(NodeRec) /\ Len(mNodes) <= Len(nodes)
  /\ \A k \in 1 .. Len(mNodes) : mNodes[k].owner = 0

(* mPowerComponents has the power components among the first n, in order.  *)
PowerUpTo(n) ==
  LET P == mPowerComponents IN
  /\ P \in Seq(1 .. n)
  /\ \A i \in 1 .. Len(P) : comps[P[i]].mna
  /\ \A i, j \in 1 .. Len(P) : i < j => P[i] < P[j]
  /\ \A c \in 1 .. n : comps[c].mna => \E i \in 1 .. Len(P) : P[i] = c

NoVirtual == virtual = [c \in 1 .. Len(comps) |-> <<>>]

NoRows == idx = 0 /\ simNodeIdx = 0 /\ simNodes = <<>> /\ mNumNetSimNodes = 0

(* Behind the network are nodes of components, with a single phase.        *)
NetworkFirst ==
  /\ mNodes \in Seq(NodeRec) /\ mNumNetNodes \in 0 .. Len(mNodes)
  /\ \A k \in 1 .. Len(mNodes) : /\ mNodes[k].owner = 0 <=> k <= mNumNetNodes
                                 /\ k > mNumNetNodes => ~mNodes[k].abc

(* How many virtual nodes component c has been given.                      *)
Given(c) ==
  IF ~comps[c].mna THEN 0
  ELSE IF comp > Len(mPowerComponents) \/ c < mPowerComponents[comp] THEN Wanted(c)
  ELSE IF c = mPowerComponents[comp] THEN node ELSE 0

(* The j-th virtual node of c is the one made for it.                      *)
Placed ==
  \A c \in 1 .. Len(comps) : \A j \in 1 .. Len(virtual[c]) :
    /\ virtual[c][j] \in 0 .. Len(mNodes) - 1
    /\ mNodes[virtual[c][j] + 1] = [abc |-> FALSE, owner |-> c, slot |-> j - 1]

(* The components that are done with, and those between that have no part. *)
Finished ==
  IF comp <= Len(mPowerComponents) THEN mPowerComponents[comp] - 1 ELSE Len(comps)

(* In the loop of createVirtualNodes.                                      *)
VirtualInv ==
  /\ NetworkFirst /\ PowerUpTo(Len(comps))
  /\ comp \in 1 .. Len(mPowerComponents) + 1
  /\ node \in Nat
  /\ IF comp <= Len(mPowerComponents) THEN node <= Wanted(mPowerComponents[comp])
     ELSE node = 0
  /\ virtualNode = (Len(mNodes) + Word - 1) % Word
  /\ \A v \in 0 .. Word :
       FewRows(nodes, comps, v) => Len(mNodes) <= Len(nodes) + Finished * v + node
  /\ virtual \in [1 .. Len(comps) -> Seq(Nat)]
  /\ \A c \in 1 .. Len(comps) : Len(virtual[c]) = Given(c)
  /\ Placed

(* All nodes are there.                                                    *)
Prepared ==
  /\ NetworkFirst /\ VirtualNodesOwned
  /\ mNumNodes = Len(mNodes) /\ Len(mNodes) < Word

(* The first n nodes of ns have their rows s, t of them, in ascending      *)
(* order.                                                                  *)
RowsIn(s, ns, n, t) ==
  /\ s \in Seq(Seq(Nat)) /\ Len(s) = n /\ t \in Nat
  /\ \A k \in 1 .. n : /\ Len(s[k]) = Width(ns[k])
                       /\ \A p \in 1 .. Width(ns[k]) : s[k][p] = s[k][1] + p - 1
                       /\ s[k][1] + Width(ns[k]) <= t
  /\ \A k, l \in 1 .. n : k < l => s[k][1] + Width(ns[k]) <= s[l][1]

RowsUpTo(n, t) == RowsIn(simNodes, mNodes, n, t)

(* The rows of the next node, behind t rows.                               *)
Behind(s, ns, n, t) == Append(s, [p \in 1 .. Width(ns[n + 1]) |-> t + p - 1])

(* No row is left out.                                                     *)
UsedIn(s, ns, n, t) ==
  \A r \in 0 .. t - 1 : \E k \in 1 .. n : \E p \in 1 .. Width(ns[k]) : s[k][p] = r

RowsUsed(n) == UsedIn(simNodes, mNodes, n, simNodeIdx)

(* The network's rows end at mNumNetSimNodes once they are all assigned.   *)
NetworkRows(n) ==
  /\ mNumNetSimNodes \in 0 .. simNodeIdx
  /\ n >= mNumNetNodes =>
       \A k \in 1 .. n :
         IF k <= mNumNetNodes THEN simNodes[k][1] + W(k) <= mNumNetSimNodes
         ELSE simNodes[k][1] >= mNumNetSimNodes

(* assignSimNodes has done n nodes.                                        *)
Assigned(n) ==
  /\ idx = n /\ n \in 0 .. Len(mNodes)
  /\ RowsUpTo(n, simNodeIdx) /\ RowsUsed(n) /\ NetworkRows(n)
  /\ (\A k \in 1 .. Len(mNodes) : ~mNodes[k].abc) => simNodeIdx = n

MnaReady == Prepared /\ Assigned(Len(mNodes)) /\ mNumSimNodes = simNodeIdx

(* A DAESolver has numbered n nodes.                                       *)
DaeNumbered(n) ==
  \E t \in 0 .. 3 * n : /\ RowsUpTo(n, t) /\ UsedIn(simNodes, mNodes, n, t)
                        /\ simNodeIdx = (t + Word - 1) % Word

Early == {"none", "make_mna", "make_dae", "identify", "dae"}

MnaPhaseInv ==
  /\ pc = "nodes" => /\ NetworkOnly /\ node \in 0 .. Len(nodes) /\ Len(mNodes) <= node
                     /\ comp = 0 /\ mPowerComponents = <<>> /\ NoVirtual /\ NoRows
  /\ pc = "comps" => /\ NetworkOnly /\ comp \in 0 .. Len(comps) /\ PowerUpTo(comp)
                     /\ NoVirtual /\ NoRows
  /\ pc = "virtual_begin" => NetworkOnly /\ PowerUpTo(Len(comps)) /\ NoVirtual /\ NoRows
  /\ pc = "virtual" => VirtualInv /\ NoRows
  /\ pc = "assign" => Prepared /\ Assigned(idx)
  /\ Numbered => MnaReady
  /\ pc \in {"steady", "steady_loop"} => rows = 2 * mNumSimNodes
  /\ pc = "steady_loop" => prevRows \in {2 * mNumNodes, rows}
  /\ DifferenceDefined

DaePhases == {"dae_nodes", "dae_number", "dae_state", "dae_zero", "dae_ready"}

DaePhaseInv ==
  /\ pc \in DaePhases => NetworkOnly
  /\ pc = "dae_nodes" => /\ node \in 0 .. Len(nodes) /\ Len(mNodes) <= node
                         /\ idx = 0 /\ simNodes = <<>>
  /\ pc = "dae_number" => idx \in 0 .. Len(mNodes) /\ DaeNumbered(idx)
  /\ pc \in {"dae_state", "dae_zero", "dae_ready"} => DaeNumbered(Len(mNodes))

SetupInv ==
  /\ TopologyInv
  /\ pc \in Early => /\ mNodes = <<>> /\ node = 0 /\ comp = 0 /\ mPowerComponents = <<>>
                     /\ NoVirtual /\ NoRows
  /\ MnaPhaseInv
  /\ DaePhaseInv

-----------------------------------------------------------------------------
(* Steps that touch no part of a solver                                    *)

(* The invariant is about the solvers only.                                *)
LEMMA SetupFrame ==
  ASSUME SetupInv, UNCHANGED <<mnaVars, daeVars>>
  PROVE  SetupInv'
PROOF
  <1>1. /\ nodes' = nodes /\ comps' = comps /\ mDomain' = mDomain /\ pc' = pc /\ mNodes' = mNodes
        /\ mPowerComponents' = mPowerComponents
        /\ mNumNetNodes' = mNumNetNodes /\ mNumNodes' = mNumNodes
        /\ mNumNetSimNodes' = mNumNetSimNodes /\ mNumSimNodes' = mNumSimNodes
        /\ comp' = comp /\ node' = node /\ virtualNode' = virtualNode /\ virtual' = virtual
        /\ idx' = idx /\ simNodeIdx' = simNodeIdx /\ simNodes' = simNodes
        /\ rows' = rows /\ prevRows' = prevRows
    BY DEF mnaVars, daeVars, topo, lists, virt, assign, steady
  <1>2. TopologyInv' /\ NoVirtual' = NoVirtual /\ NoRows' = NoRows
    BY <1>1 DEF SetupInv, TopologyInv, NoVirtual, NoRows
  <1>3. NetworkOnly' = NetworkOnly /\ NetworkFirst' = NetworkFirst
    BY <1>1 DEF NetworkOnly, NetworkFirst
  <1>4. \A n : PowerUpTo(n)' = PowerUpTo(n)
    BY <1>1 DEF PowerUpTo
  <1>5. VirtualInv' = VirtualInv
    BY <1>1, <1>3 DEF VirtualInv, PowerUpTo, Given, Wanted, Placed, Finished
  <1>6. Prepared' = Prepared
    BY <1>1, <1>3 DEF Prepared, VirtualNodesOwned, Wanted
  <1>7. \A n, t : RowsUpTo(n, t)' = RowsUpTo(n, t)
    BY <1>1 DEF RowsUpTo, RowsIn, W
  <1>8. \A n : Assigned(n)' = Assigned(n)
    BY <1>1, <1>7 DEF Assigned, RowsUsed, UsedIn, NetworkRows, W
  <1>9. Assigned(idx)' = Assigned(idx) /\ Assigned(Len(mNodes))' = Assigned(Len(mNodes))
    BY <1>1, <1>7 DEF Assigned, RowsUsed, NetworkRows, RowsUpTo, W
  <1>10. MnaReady' = MnaReady
    BY <1>1, <1>6, <1>9 DEF MnaReady
  <1>11. /\ DaeNumbered(idx)' = DaeNumbered(idx)
         /\ DaeNumbered(Len(mNodes))' = DaeNumbered(Len(mNodes))
    BY <1>1 DEF DaeNumbered, RowsUpTo, W
  <1>12. PowerUpTo(comp)' = PowerUpTo(comp) /\ PowerUpTo(Len(comps))' = PowerUpTo(Len(comps))
    BY <1>1 DEF PowerUpTo
  <1>13. MnaPhaseInv'
    BY <1>1, <1>2, <1>3, <1>5, <1>6, <1>9, <1>10, <1>12
       DEF SetupInv, MnaPhaseInv, Numbered, DifferenceDefined
  <1>14. DaePhaseInv'
    BY <1>1, <1>2, <1>3, <1>11 DEF SetupInv, DaePhaseInv, DaePhases
  <1> QED
    BY <1>1, <1>2, <1>13, <1>14 DEF SetupInv, Early

(* Nothing has been built at first.                                        *)
LEMMA SetupInit ==
  ASSUME Init
  PROVE  SetupInv
PROOF
  <1>1. /\ nodes = <<>> /\ comps = <<>> /\ pc = "none" /\ mNodes = <<>>
        /\ mPowerComponents = <<>> /\ comp = 0 /\ node = 0 /\ virtual = <<>>
        /\ idx = 0 /\ simNodeIdx = 0 /\ simNodes = <<>> /\ mNumNetSimNodes = 0
    BY DEF Init, MnaInit
  <1>2. TopologyInv
    <2>1. Word \in Nat \ {0}
      BY SettingAssumption
    <2>2. FewRows(nodes, comps, 0)
      BY <1>1, <2>1 DEF FewRows
    <2>3. 0 \in 0 .. Word
      BY <2>1
    <2> QED
      BY <1>1, <2>2, <2>3 DEF TopologyInv
  <1>3. NoVirtual /\ NoRows
    BY <1>1 DEF NoVirtual, NoRows
  <1>4. MnaPhaseInv
    BY <1>1 DEF MnaPhaseInv, Numbered, DifferenceDefined
  <1>5. DaePhaseInv
    BY <1>1 DEF DaePhaseInv, DaePhases
  <1> QED
    BY <1>1, <1>2, <1>3, <1>4, <1>5 DEF SetupInv

-----------------------------------------------------------------------------
(* From the arguments to the lists of the topology                         *)

(* Before a solver is constructed only the position changes.               *)
LEMMA EarlyStep ==
  ASSUME SetupInv, pc \in Early, pc' \in Early \union {"failed", "crashed"},
         UNCHANGED <<nodes, comps, mNodes, mPowerComponents, virt, assign, mNumNetSimNodes>>
  PROVE  SetupInv'
PROOF
  <1>1. /\ nodes' = nodes /\ comps' = comps /\ mNodes' = mNodes
        /\ mPowerComponents' = mPowerComponents /\ comp' = comp /\ node' = node
        /\ virtual' = virtual /\ idx' = idx /\ simNodeIdx' = simNodeIdx /\ simNodes' = simNodes
        /\ mNumNetSimNodes' = mNumNetSimNodes
    BY DEF virt, assign
  <1>2. TopologyInv' /\ (NoVirtual /\ NoRows)'
    BY <1>1 DEF SetupInv, TopologyInv, NoVirtual, NoRows
  <1>3. MnaPhaseInv' /\ DaePhaseInv'
    BY DEF MnaPhaseInv, Numbered, DifferenceDefined, DaePhaseInv, DaePhases, Early
  <1> QED
    BY <1>1, <1>2, <1>3 DEF SetupInv

(* A solver is made for one of the topologies.                             *)
LEMMA MakeStep ==
  ASSUME SetupInv, NEW from \in Early, NEW first \in Early, Make(from, first)
  PROVE  SetupInv'
PROOF
  <1>1. /\ pc = from /\ pc' = first /\ nodes' \in NodeLists /\ comps' \in CompLists
        /\ virtual' = [c \in 1 .. Len(comps') |-> <<>>]
        /\ mNodes' = mNodes /\ mPowerComponents' = mPowerComponents
        /\ comp' = comp /\ node' = node
        /\ idx' = idx /\ simNodeIdx' = simNodeIdx /\ simNodes' = simNodes
        /\ mNumNetSimNodes' = mNumNetSimNodes
    BY DEF Make, lists, assign
  <1>2. TopologyInv'
    BY <1>1, InputAssumption DEF TopologyInv
  <1>3. (NoVirtual /\ NoRows)'
    BY <1>1 DEF SetupInv, NoVirtual, NoRows
  <1>4. MnaPhaseInv' /\ DaePhaseInv'
    BY <1>1 DEF MnaPhaseInv, Numbered, DifferenceDefined, DaePhaseInv, DaePhases, Early
  <1> QED
    BY <1>1, <1>2, <1>3, <1>4 DEF SetupInv

(* The head of identifyTopologyObjects.                                    *)
LEMMA IdentifyStep ==
  ASSUME SetupInv, Identify, UNCHANGED daeVars
  PROVE  SetupInv'
PROOF
  <1>1. /\ pc = "identify" /\ pc' \in {"failed", "crashed", "nodes"}
        /\ nodes' = nodes /\ comps' = comps /\ mDomain' = mDomain /\ mNodes' = mNodes
        /\ mPowerComponents' = mPowerComponents /\ comp' = comp /\ node' = node
        /\ virtual' = virtual /\ idx' = idx /\ simNodeIdx' = simNodeIdx /\ simNodes' = simNodes
        /\ mNumNetSimNodes' = mNumNetSimNodes
    BY DEF Identify, topo, lists, virt, assign
  <1>2. /\ mNodes = <<>> /\ node = 0 /\ comp = 0 /\ mPowerComponents = <<>>
        /\ NoVirtual /\ NoRows
    BY <1>1 DEF SetupInv, Early
  <1>3. TopologyInv' /\ (NoVirtual /\ NoRows)'
    BY <1>1, <1>2 DEF SetupInv, TopologyInv, NoVirtual, NoRows
  <1>4. NetworkOnly' /\ node' \in 0 .. Len(nodes') /\ Len(mNodes') <= node'
    BY <1>1, <1>2 DEF SetupInv, TopologyInv, NetworkOnly
  <1>5. MnaPhaseInv'
    BY <1>1, <1>2, <1>3, <1>4 DEF MnaPhaseInv, Numbered, DifferenceDefined
  <1>6. DaePhaseInv' /\ pc' \notin Early
    BY <1>1 DEF DaePhaseInv, DaePhases, Early
  <1> QED
    BY <1>3, <1>5, <1>6 DEF SetupInv

(* A round of the loop over the nodes keeps the list of network nodes.     *)
LEMMA NodeRoundKeeps ==
  ASSUME TopologyInv, NetworkOnly, node \in 0 .. Len(nodes), Len(mNodes) <= node,
         NodeRound, UNCHANGED <<nodes, comps>>
  PROVE  NetworkOnly' /\ node' \in 0 .. Len(nodes') /\ Len(mNodes') <= node'
PROOF
  <1>1. nodes \in Seq(NodeKind) /\ node' = node + 1 /\ node' \in 1 .. Len(nodes)
    BY DEF TopologyInv, NodeRound
  <1> DEFINE new == [abc |-> nodes[node'].abc, owner |-> 0, slot |-> 0]
  <1>2. nodes[node'] \in NodeKind
    BY <1>1
  <1>3. new \in NodeRec /\ new.owner = 0
    BY <1>2 DEF NodeKind, NodeRec
  <1>4. mNodes' = mNodes \/ mNodes' = Append(mNodes, new)
    BY DEF NodeRound
  <1> HIDE DEF new
  <1>5. mNodes \in Seq(NodeRec) /\ \A k \in 1 .. Len(mNodes) : mNodes[k].owner = 0
    BY DEF NetworkOnly
  <1>6. CASE mNodes' = mNodes
    BY <1>1, <1>5, <1>6 DEF NetworkOnly
  <1>7. CASE mNodes' = Append(mNodes, new)
    <2>1. /\ mNodes' \in Seq(NodeRec) /\ Len(mNodes') = Len(mNodes) + 1
          /\ \A k \in 1 .. Len(mNodes) + 1 :
               mNodes'[k] = IF k <= Len(mNodes) THEN mNodes[k] ELSE new
      BY <1>3, <1>5, <1>7
    <2>2. \A k \in 1 .. Len(mNodes') : mNodes'[k].owner = 0
      BY <1>3, <1>5, <2>1
    <2> QED
      BY <1>1, <2>1, <2>2 DEF NetworkOnly
  <1> QED
    BY <1>4, <1>6, <1>7

(* The loop over the nodes, of an MnaSolver.                               *)
LEMMA NodeLoopStep ==
  ASSUME SetupInv, NodeLoop, UNCHANGED daeVars
  PROVE  SetupInv'
PROOF
  <1>1. /\ pc = "nodes"
        /\ nodes' = nodes /\ comps' = comps /\ mDomain' = mDomain /\ mPowerComponents' = mPowerComponents
        /\ comp' = comp /\ virtual' = virtual /\ idx' = idx /\ simNodeIdx' = simNodeIdx
        /\ simNodes' = simNodes /\ mNumNetSimNodes' = mNumNetSimNodes
    BY DEF NodeLoop, topo, lists, assign
  <1>2. /\ TopologyInv /\ NetworkOnly /\ node \in 0 .. Len(nodes) /\ Len(mNodes) <= node
        /\ comp = 0 /\ mPowerComponents = <<>> /\ NoVirtual /\ NoRows
    BY <1>1 DEF SetupInv, MnaPhaseInv
  <1>3. TopologyInv' /\ (NoVirtual /\ NoRows)'
    BY <1>1, <1>2 DEF TopologyInv, NoVirtual, NoRows
  <1>4. CASE NodeRound /\ pc' = pc
    <2>1. NetworkOnly' /\ node' \in 0 .. Len(nodes') /\ Len(mNodes') <= node'
      BY <1>1, <1>2, <1>4, NodeRoundKeeps
    <2>2. MnaPhaseInv'
      BY <1>1, <1>2, <1>3, <1>4, <2>1 DEF MnaPhaseInv, Numbered, DifferenceDefined
    <2>3. DaePhaseInv' /\ pc' \notin Early
      BY <1>1, <1>4 DEF DaePhaseInv, DaePhases, Early
    <2> QED
      BY <1>3, <2>2, <2>3 DEF SetupInv
  <1>5. CASE pc' = "comps" /\ UNCHANGED <<node, mNodes>>
    <2>1. NetworkOnly'
      BY <1>1, <1>2, <1>5 DEF NetworkOnly
    <2>2. comps \in Seq(CompKind)
      BY <1>2 DEF TopologyInv
    <2>3. comp' \in 0 .. Len(comps') /\ PowerUpTo(comp)'
      BY <1>1, <1>2, <2>2 DEF PowerUpTo
    <2>4. MnaPhaseInv'
      BY <1>3, <1>5, <2>1, <2>3 DEF MnaPhaseInv, Numbered, DifferenceDefined
    <2>5. DaePhaseInv' /\ pc' \notin Early
      BY <1>5 DEF DaePhaseInv, DaePhases, Early
    <2> QED
      BY <1>3, <2>4, <2>5 DEF SetupInv
  <1> QED
    BY <1>4, <1>5 DEF NodeLoop

(* The loop over the components.                                           *)
LEMMA CompLoopStep ==
  ASSUME SetupInv, CompLoop, UNCHANGED daeVars
  PROVE  SetupInv'
PROOF
  <1>1. /\ pc = "comps"
        /\ nodes' = nodes /\ comps' = comps /\ mDomain' = mDomain /\ mNodes' = mNodes
        /\ virtual' = virtual /\ idx' = idx /\ simNodeIdx' = simNodeIdx
        /\ simNodes' = simNodes /\ mNumNetSimNodes' = mNumNetSimNodes
    BY DEF CompLoop, topo, assign
  <1>2. /\ TopologyInv /\ NetworkOnly /\ comp \in 0 .. Len(comps) /\ PowerUpTo(comp)
        /\ NoVirtual /\ NoRows
    BY <1>1 DEF SetupInv, MnaPhaseInv
  <1>3. TopologyInv' /\ (NoVirtual /\ NoRows)' /\ NetworkOnly'
    BY <1>1, <1>2 DEF TopologyInv, NoVirtual, NoRows, NetworkOnly
  <1>4. comps \in Seq(CompKind)
    BY <1>2 DEF TopologyInv
  <1>5. CASE CompRound /\ pc' = pc
    <2> DEFINE P == mPowerComponents
               n == comp + 1
    <2>1. /\ comp' = n /\ n \in 1 .. Len(comps)
          /\ mPowerComponents' = IF comps[n].mna THEN Append(P, n) ELSE P
      <3>1. comp < Len(comps) /\ comp' = n /\ mPowerComponents' = AddIf(P, "mna")
        BY <1>5 DEF CompRound
      <3>2. n \in 1 .. Len(comps)
        BY <3>1, <1>2, <1>4
      <3> QED
        BY <3>1, <3>2, <1>1 DEF AddIf
    <2>2. /\ P \in Seq(1 .. comp)
          /\ \A i \in 1 .. Len(P) : comps[P[i]].mna
          /\ \A i, j \in 1 .. Len(P) : i < j => P[i] < P[j]
          /\ \A c \in 1 .. comp : comps[c].mna => \E i \in 1 .. Len(P) : P[i] = c
      BY <1>2 DEF PowerUpTo
    <2>3. P \in Seq(1 .. n)
      BY <2>2, <1>2
    <2> HIDE DEF P
    <2>4. PowerUpTo(comp)'
      <3>1. CASE comps[n].mna
        <4> DEFINE Q == Append(P, n)
        <4>1. /\ Q \in Seq(1 .. n) /\ Len(Q) = Len(P) + 1 /\ Q[Len(P) + 1] = n
              /\ \A i \in 1 .. Len(P) : Q[i] = P[i] /\ P[i] \in 1 .. comp
          <5>1. n \in 1 .. n
            BY <2>1, <1>4
          <5>2. \A i \in 1 .. Len(P) : P[i] \in 1 .. comp
            <6>1. P \in Seq(1 .. comp)
              BY <2>2
            <6> QED
              BY ONLY <6>1, ElementOfSeq
          <5> HIDE DEF n
          <5>3. Q \in Seq(1 .. n) /\ Len(Q) = Len(P) + 1 /\ Q[Len(P) + 1] = n
            BY <5>1, <2>3
          <5>4. \A i \in 1 .. Len(P) : Q[i] = P[i]
            BY <5>1, <2>3
          <5> QED
            BY <5>2, <5>3, <5>4
        <4> HIDE DEF Q
        <4>2. Len(P) \in Nat
          BY <2>2
        <4>3. \A i \in 1 .. Len(Q) : comps[Q[i]].mna
          BY <3>1, <4>1, <4>2, <2>2
        <4>4. \A i, j \in 1 .. Len(Q) : i < j => Q[i] < Q[j]
          <5> SUFFICES ASSUME NEW i \in 1 .. Len(Q), NEW j \in 1 .. Len(Q), i < j
                       PROVE  Q[i] < Q[j]
            OBVIOUS
          <5>1. i \in 1 .. Len(P) /\ Q[i] = P[i] /\ P[i] \in 1 .. comp
            BY <4>1, <4>2
          <5>2. CASE j = Len(P) + 1
            BY <5>1, <5>2, <4>1, <1>2
          <5>3. CASE j # Len(P) + 1
            <6>1. j \in 1 .. Len(P)
              BY ONLY j \in 1 .. Len(Q), <5>3, <4>1, <4>2
            <6>2. Q[j] = P[j]
              BY <6>1, <4>1
            <6> QED
              BY <6>1, <6>2, <5>1, <2>2
          <5> QED
            BY <5>2, <5>3
        <4>5. \A c \in 1 .. n : comps[c].mna => \E i \in 1 .. Len(Q) : Q[i] = c
          <5> SUFFICES ASSUME NEW c \in 1 .. n, comps[c].mna
                       PROVE  \E i \in 1 .. Len(Q) : Q[i] = c
            OBVIOUS
          <5>1. CASE c = n
            BY <5>1, <4>1, <4>2
          <5>2. CASE c # n
            <6>1. PICK i \in 1 .. Len(P) : P[i] = c
              BY <5>2, <2>2, <1>2
            <6> QED
              BY <6>1, <4>1, <4>2
          <5> QED
            BY <5>1, <5>2
        <4>6. mPowerComponents' = Q
          BY <3>1, <2>1 DEF Q
        <4> QED
          BY <4>1, <4>3, <4>4, <4>5, <4>6, <2>1, <1>1 DEF PowerUpTo
      <3>2. CASE ~comps[n].mna
        <4>1. \A c \in 1 .. n : comps[c].mna => \E i \in 1 .. Len(P) : P[i] = c
          BY <3>2, <2>2, <1>2
        <4>2. mPowerComponents' = P
          BY <3>2, <2>1
        <4> QED
          BY <4>1, <4>2, <2>1, <2>2, <2>3, <1>1 DEF PowerUpTo
      <3> QED
        BY <3>1, <3>2
    <2>5. comp' \in 0 .. Len(comps')
      BY <2>1, <1>1
    <2>6. MnaPhaseInv'
      BY <1>1, <1>3, <1>5, <2>4, <2>5 DEF MnaPhaseInv, Numbered, DifferenceDefined
    <2>7. DaePhaseInv' /\ pc' \notin Early
      BY <1>1, <1>5 DEF DaePhaseInv, DaePhases, Early
    <2> QED
      BY <1>3, <2>6, <2>7 DEF SetupInv
  <1>6. CASE comp >= Len(comps) /\ pc' = "virtual_begin" /\ UNCHANGED <<comp, lists>>
    <2>1. comp = Len(comps) /\ mPowerComponents' = mPowerComponents
      BY <1>2, <1>4, <1>6 DEF lists
    <2>2. PowerUpTo(Len(comps))'
      BY <1>1, <1>2, <2>1 DEF PowerUpTo
    <2>3. MnaPhaseInv'
      BY <1>3, <1>6, <2>2 DEF MnaPhaseInv, Numbered, DifferenceDefined
    <2>4. DaePhaseInv' /\ pc' \notin Early
      BY <1>6 DEF DaePhaseInv, DaePhases, Early
    <2> QED
      BY <1>3, <2>3, <2>4 DEF SetupInv
  <1> QED
    BY <1>5, <1>6 DEF CompLoop

-----------------------------------------------------------------------------
(* createVirtualNodes                                                      *)

(* Products grow with their first factor.                                  *)
LEMMA ProductGrows ==
  ASSUME NEW a \in Nat, NEW b \in Nat, NEW v \in Nat, a <= b
  PROVE  a * v \in Nat /\ b * v \in Nat /\ a * v <= b * v /\ (a + 1) * v = a * v + v
PROOF
  <1>1. PICK d \in Nat : b = a + d
    <2>1. b - a \in Nat /\ b = a + (b - a)
      OBVIOUS
    <2> QED
      BY <2>1
  <1>2. (a + d) * v = a * v + d * v
    OBVIOUS
  <1>3. a * v \in Nat /\ d * v \in Nat
    OBVIOUS
  <1>4. (a + 1) * v = a * v + v
    OBVIOUS
  <1> QED
    BY <1>1, <1>2, <1>3, <1>4

(* What a component asks for does not change.                              *)
LEMMA WantedKept ==
  ASSUME comps' = comps, mDomain' = mDomain
  PROVE  \A c : Wanted(c)' = Wanted(c)
PROOF
  BY DEF Wanted

(* What the loop needs to know of the components.                          *)
LEMMA PowerFacts ==
  ASSUME comps \in Seq(CompKind), PowerUpTo(Len(comps))
  PROVE  /\ Len(comps) \in Nat /\ Len(mPowerComponents) \in Nat
         /\ \A i \in 1 .. Len(mPowerComponents) :
              /\ mPowerComponents[i] \in 1 .. Len(comps) /\ comps[mPowerComponents[i]].mna
         /\ \A c \in 1 .. Len(comps) : Wanted(c) \in Nat
         /\ \A i, j \in 1 .. Len(mPowerComponents) :
              i < j => mPowerComponents[i] < mPowerComponents[j]
         /\ \A c \in 1 .. Len(comps) : comps[c].mna =>
              \E i \in 1 .. Len(mPowerComponents) : mPowerComponents[i] = c
PROOF
  <1>1. /\ mPowerComponents \in Seq(1 .. Len(comps))
        /\ \A i \in 1 .. Len(mPowerComponents) : comps[mPowerComponents[i]].mna
        /\ \A i, j \in 1 .. Len(mPowerComponents) :
             i < j => mPowerComponents[i] < mPowerComponents[j]
        /\ \A c \in 1 .. Len(comps) : comps[c].mna =>
             \E i \in 1 .. Len(mPowerComponents) : mPowerComponents[i] = c
    BY DEF PowerUpTo
  <1>2. Len(comps) \in Nat /\ Len(mPowerComponents) \in Nat
    BY <1>1, LenProperties
  <1>3. \A i \in 1 .. Len(mPowerComponents) : mPowerComponents[i] \in 1 .. Len(comps)
    BY ONLY <1>1, ElementOfSeq
  <1>4. \A c \in 1 .. Len(comps) : Wanted(c) \in Nat
    <2> SUFFICES ASSUME NEW c \in 1 .. Len(comps) PROVE Wanted(c) \in Nat
      OBVIOUS
    <2>1. comps[c] \in CompKind
      BY ElementOfSeq
    <2> QED
      BY <2>1 DEF CompKind, Wanted
  <1> QED
    BY <1>1, <1>2, <1>3, <1>4

(* There is room for the nodes in a UInt.                                  *)
LEMMA NodesFit ==
  ASSUME TopologyInv, VirtualInv
  PROVE  /\ Len(mNodes) < Word
         /\ comp <= Len(mPowerComponents) /\ node < Wanted(mPowerComponents[comp])
              => Len(mNodes) + 1 < Word
PROOF
  <1>1. nodes \in Seq(NodeKind) /\ comps \in Seq(CompKind) /\ PowerUpTo(Len(comps))
    BY DEF TopologyInv, VirtualInv
  <1>2. PICK v \in 0 .. Word : FewRows(nodes, comps, v)
    BY DEF TopologyInv
  <1>3. /\ \A c \in 1 .. Len(comps) : Wanted(c) <= v
        /\ 3 * Len(nodes) + Len(comps) * v < Word
    BY <1>2, SettingAssumption DEF FewRows, Wanted
  <1>4. v \in Nat /\ Word \in Nat /\ Len(nodes) \in Nat /\ Len(mNodes) \in Nat
    BY <1>1, SettingAssumption, LenProperties DEF VirtualInv, NetworkFirst
  <1>5. Len(mNodes) <= Len(nodes) + Finished * v + node
    BY <1>2 DEF VirtualInv
  <1> DEFINE P == mPowerComponents
  <1>6. /\ Len(comps) \in Nat /\ Len(P) \in Nat
        /\ \A i \in 1 .. Len(P) : P[i] \in 1 .. Len(comps)
        /\ \A c \in 1 .. Len(comps) : Wanted(c) \in Nat
    BY <1>1, PowerFacts
  <1>7. comp \in 1 .. Len(P) + 1 /\ node \in Nat
    BY DEF VirtualInv
  <1>8. CASE comp <= Len(P)
    <2> DEFINE c == P[comp]
    <2>1. c \in 1 .. Len(comps) /\ node <= Wanted(c) /\ Wanted(c) <= v
          /\ Wanted(c) \in Nat
      BY <1>3, <1>6, <1>7, <1>8 DEF VirtualInv
    <2>2. Finished = c - 1
      BY <1>8 DEF Finished
    <2> HIDE DEF c
    <2>3. c - 1 \in Nat /\ c \in Nat /\ (c - 1) + 1 = c
      BY <2>1, <1>6
    <2>4. (c - 1) * v \in Nat /\ ((c - 1) + 1) * v = (c - 1) * v + v
      BY <2>3, <1>4, ProductGrows
    <2>5. c * v \in Nat /\ Len(comps) * v \in Nat /\ c * v <= Len(comps) * v
      <3>1. c \in Nat /\ Len(comps) \in Nat /\ v \in Nat /\ c <= Len(comps)
        BY <2>1, <2>3, <1>4, <1>6
      <3> QED
        BY ONLY <3>1, ProductGrows
    <2>6. PICK x \in Nat, y \in Nat, z \in Nat : x = (c - 1) * v /\ y = c * v /\ z = Len(comps) * v
      BY <2>4, <2>5
    <2>7. y = x + v /\ y <= z
      BY <2>3, <2>4, <2>5, <2>6
    <2>8. Len(mNodes) <= Len(nodes) + x + node /\ 3 * Len(nodes) + z < Word
      BY <1>3, <1>5, <2>2, <2>6
    <2>9. Len(mNodes) < Word
      BY ONLY <2>1, <2>7, <2>8, <1>4, <1>7, x \in Nat, z \in Nat
    <2>10. node < Wanted(c) => Len(mNodes) + 1 < Word
      BY ONLY <2>1, <2>7, <2>8, <1>4, <1>7, x \in Nat, z \in Nat
    <2> QED
      BY <2>9, <2>10 DEF c
  <1>9. CASE comp > Len(P)
    <2>1. Finished = Len(comps) /\ node = 0
      BY <1>6, <1>7, <1>9 DEF Finished, VirtualInv
    <2>2. PICK z : z = Len(comps) * v
      OBVIOUS
    <2>3. z \in Nat
      BY <2>2, <1>4, <1>6, ProductGrows
    <2>4. Len(mNodes) <= Len(nodes) + z + 0 /\ 3 * Len(nodes) + z < Word
      BY <1>3, <1>5, <2>1, <2>2
    <2> QED
      BY <1>4, <1>6, <1>7, <1>9, <2>3, <2>4
  <1> QED
    BY <1>6, <1>7, <1>8, <1>9

(* The head of createVirtualNodes.                                         *)
LEMMA VirtualBeginStep ==
  ASSUME SetupInv, VirtualBegin, UNCHANGED daeVars
  PROVE  SetupInv'
PROOF
  <1>1. /\ pc = "virtual_begin" /\ pc' = "virtual" /\ mNumNetNodes' = Len(mNodes)
        /\ virtualNode' = (Len(mNodes) + Word - 1) % Word /\ comp' = 1 /\ node' = 0
        /\ nodes' = nodes /\ comps' = comps /\ mDomain' = mDomain /\ mNodes' = mNodes
        /\ mPowerComponents' = mPowerComponents /\ virtual' = virtual
        /\ idx' = idx /\ simNodeIdx' = simNodeIdx
        /\ simNodes' = simNodes /\ mNumNetSimNodes' = mNumNetSimNodes
    BY DEF VirtualBegin, topo, lists, assign
  <1>2. /\ TopologyInv /\ NetworkOnly /\ PowerUpTo(Len(comps)) /\ NoVirtual /\ NoRows
    BY <1>1 DEF SetupInv, MnaPhaseInv
  <1>3. TopologyInv' /\ NoRows'
    BY <1>1, <1>2 DEF TopologyInv, NoRows
  <1>4. nodes \in Seq(NodeKind) /\ comps \in Seq(CompKind)
    BY <1>2 DEF TopologyInv
  <1> DEFINE P == mPowerComponents
  <1>5. /\ Len(comps) \in Nat /\ Len(P) \in Nat
        /\ \A i \in 1 .. Len(P) : P[i] \in 1 .. Len(comps) /\ comps[P[i]].mna
        /\ \A c \in 1 .. Len(comps) : Wanted(c) \in Nat
        /\ \A i, j \in 1 .. Len(P) : i < j => P[i] < P[j]
        /\ \A c \in 1 .. Len(comps) : comps[c].mna => \E i \in 1 .. Len(P) : P[i] = c
    BY <1>2, <1>4, PowerFacts
  <1>6. mNodes \in Seq(NodeRec) /\ Len(mNodes) \in Nat /\ Len(nodes) \in Nat
        /\ Len(mNodes) <= Len(nodes) /\ \A k \in 1 .. Len(mNodes) : mNodes[k].owner = 0
    BY <1>2, <1>4, LenProperties DEF NetworkOnly
  <1>7. NetworkFirst'
    BY <1>1, <1>6 DEF NetworkFirst
  <1>8. PowerUpTo(Len(comps))'
    BY <1>1, <1>2 DEF PowerUpTo
  <1>9. comp' \in 1 .. Len(P) + 1 /\ node' \in Nat
    BY <1>1, <1>5
  <1>10. IF comp' <= Len(P) THEN node' <= Wanted(P[comp']) ELSE node' = 0
    BY <1>1, <1>5
  <1>11. ASSUME NEW v \in 0 .. Word PROVE Len(mNodes') <= Len(nodes') + Finished' * v + node'
    <2>1. v \in Nat
      BY SettingAssumption
    <2>2. Finished' \in Nat
      BY <1>1, <1>5 DEF Finished
    <2>3. Finished' * v \in Nat
      <3>1. PICK x \in Nat : x = Finished'
        BY <2>2
      <3>2. x <= x
        BY <3>1
      <3>3. x * v \in Nat
        BY ONLY <3>1, <3>2, <2>1, ProductGrows
      <3> QED
        BY ONLY <3>1, <3>3
    <2> QED
      BY <2>3, <1>1, <1>6
  <1>12. virtual' \in [1 .. Len(comps') -> Seq(Nat)] /\ \A c \in 1 .. Len(comps) : Len(virtual'[c]) = 0
    <2>1. virtual' = [c \in 1 .. Len(comps) |-> <<>>] /\ <<>> \in Seq(Nat) /\ Len(<<>>) = 0
      BY <1>1, <1>2 DEF NoVirtual
    <2> QED
      BY <2>1, <1>1
  <1>13. \A c \in 1 .. Len(comps) : Given(c)' = 0
    <2> SUFFICES ASSUME NEW c \in 1 .. Len(comps), comps[c].mna PROVE Given(c)' = 0
      BY <1>1 DEF Given
    <2>1. PICK i \in 1 .. Len(P) : P[i] = c
      BY <1>5
    <2>2. Len(P) >= 1 /\ 1 \in 1 .. Len(P) /\ P[1] <= c /\ P[1] \in Nat /\ c \in Nat
      BY <2>1, <1>5
    <2> QED
      BY <2>2, <1>1, <1>5 DEF Given
  <1>14. Placed'
    BY <1>1, <1>5, <1>12 DEF Placed
  <1>15. VirtualInv'
    BY <1>1, <1>7, <1>8, <1>9, <1>10, <1>11, <1>12, <1>13, <1>14, WantedKept
       DEF VirtualInv
  <1>16. MnaPhaseInv'
    BY <1>1, <1>3, <1>15 DEF MnaPhaseInv, Numbered, DifferenceDefined
  <1>17. DaePhaseInv' /\ pc' \notin Early
    BY <1>1 DEF DaePhaseInv, DaePhases, Early
  <1> QED
    BY <1>3, <1>16, <1>17 DEF SetupInv

(* A round of the inner loop gives the component its next node.            *)
LEMMA NewVirtualStep ==
  ASSUME TopologyInv, VirtualInv, comp <= Len(mPowerComponents),
         node < Wanted(Current), NewVirtualNode, node' = node + 1,
         UNCHANGED <<nodes, comps, mDomain, comp, mPowerComponents, mNumNetNodes>>
  PROVE  VirtualInv'
PROOF
  <1> DEFINE P == mPowerComponents
             cur == P[comp]
             new == [abc |-> FALSE, owner |-> cur, slot |-> node]
  <1>1. /\ virtualNode' = (virtualNode + 1) % Word
        /\ mNodes' = Append(mNodes, new)
        /\ virtual' = [virtual EXCEPT ![cur] = Append(@, virtualNode')]
    BY DEF NewVirtualNode, Current
  <1>2. /\ nodes' = nodes /\ comps' = comps /\ mDomain' = mDomain /\ comp' = comp /\ mPowerComponents' = P
        /\ mNumNetNodes' = mNumNetNodes /\ node < Wanted(cur)
    BY DEF Current
  <1>3. nodes \in Seq(NodeKind) /\ comps \in Seq(CompKind) /\ PowerUpTo(Len(comps))
    BY DEF TopologyInv, VirtualInv
  <1>4. /\ Len(comps) \in Nat /\ Len(P) \in Nat
        /\ \A i \in 1 .. Len(P) : P[i] \in 1 .. Len(comps) /\ comps[P[i]].mna
        /\ \A c \in 1 .. Len(comps) : Wanted(c) \in Nat
    BY <1>3, PowerFacts
  <1>5. /\ comp \in 1 .. Len(P) /\ node \in Nat
        /\ virtualNode = (Len(mNodes) + Word - 1) % Word
        /\ virtual \in [1 .. Len(comps) -> Seq(Nat)]
        /\ \A c \in 1 .. Len(comps) : Len(virtual[c]) = Given(c)
    BY <1>4 DEF VirtualInv
  <1>6. cur \in 1 .. Len(comps) /\ comps[cur].mna /\ cur \in Nat /\ cur # 0
    BY <1>4, <1>5
  <1>7. /\ mNodes \in Seq(NodeRec) /\ mNumNetNodes \in 0 .. Len(mNodes) /\ Len(mNodes) \in Nat
        /\ \A k \in 1 .. Len(mNodes) : /\ mNodes[k].owner = 0 <=> k <= mNumNetNodes
                                       /\ k > mNumNetNodes => ~mNodes[k].abc
    BY LenProperties DEF VirtualInv, NetworkFirst
  <1>8. Len(mNodes) + 1 < Word /\ Word \in Nat
    BY <1>2, NodesFit, SettingAssumption
  <1>9. virtualNode' = Len(mNodes) /\ (Len(mNodes) + 1 + Word - 1) % Word = Len(mNodes)
    <2> DEFINE m == Len(mNodes)
    <2>1. m \in Nat /\ m + 1 < Word
      BY <1>7, <1>8
    <2>2. virtualNode' = (((m + Word - 1) % Word) + 1) % Word
      BY <1>1, <1>5
    <2> HIDE DEF m
    <2>3. (m + Word - 1) % Word = IF m = 0 THEN Word - 1 ELSE m - 1
      BY <2>1, <1>8
    <2>4. (((m + Word - 1) % Word) + 1) % Word = m /\ (m + 1 + Word - 1) % Word = m
      BY <2>1, <2>3, <1>8
    <2> QED
      BY <2>2, <2>4 DEF m
  <1>10. /\ new \in NodeRec /\ new.owner = cur /\ new.slot = node /\ ~new.abc
    BY <1>5, <1>6 DEF NodeRec
  <1>11. new = [abc |-> FALSE, owner |-> cur, slot |-> node]
    OBVIOUS
  <1> HIDE DEF new
  <1>12. /\ mNodes' \in Seq(NodeRec) /\ Len(mNodes') = Len(mNodes) + 1
         /\ \A k \in 1 .. Len(mNodes) : mNodes'[k] = mNodes[k]
         /\ mNodes'[Len(mNodes) + 1] = new
    BY <1>1, <1>7, <1>10
  <1>13. NetworkFirst'
    <2>1. \A k \in 1 .. Len(mNodes') : /\ mNodes'[k].owner = 0 <=> k <= mNumNetNodes
                                       /\ k > mNumNetNodes => ~mNodes'[k].abc
      <3> SUFFICES ASSUME NEW k \in 1 .. Len(mNodes')
                   PROVE  /\ mNodes'[k].owner = 0 <=> k <= mNumNetNodes
                          /\ k > mNumNetNodes => ~mNodes'[k].abc
        OBVIOUS
      <3>1. CASE k \in 1 .. Len(mNodes)
        BY <3>1, <1>7, <1>12
      <3>2. CASE k = Len(mNodes) + 1
        BY <3>2, <1>6, <1>7, <1>10, <1>12
      <3> QED
        BY <3>1, <3>2, <1>7, <1>12
    <2> QED
      BY <2>1, <1>2, <1>7, <1>12 DEF NetworkFirst
  <1>14. PowerUpTo(Len(comps))'
    BY <1>2, <1>3 DEF PowerUpTo
  <1>15. node' \in Nat /\ node' <= Wanted(cur)
    BY <1>2, <1>4, <1>5, <1>6
  <1>16. Finished' = Finished
    BY <1>2 DEF Finished
  <1>17. ASSUME NEW v \in 0 .. Word, FewRows(nodes, comps, v)
         PROVE  Len(mNodes') <= Len(nodes') + Finished' * v + node'
    <2>1. Len(mNodes) <= Len(nodes) + Finished * v + node
      BY <1>17 DEF VirtualInv
    <2>2. v \in Nat /\ Len(nodes) \in Nat
      BY <1>3, LenProperties, SettingAssumption
    <2>3. PICK x \in Nat : x = Finished
      BY <1>4, <1>6, <1>5 DEF Finished
    <2>4. x * v \in Nat
      <3>1. x <= x
        BY <2>3
      <3> QED
        BY ONLY <3>1, <2>2, x \in Nat, ProductGrows
    <2>5. PICK y \in Nat : y = x * v
      BY <2>4
    <2>6. Len(mNodes) <= Len(nodes) + y + node
      BY ONLY <2>1, <2>3, <2>5
    <2>7. Len(mNodes) + 1 <= Len(nodes) + y + (node + 1)
      BY ONLY <2>6, <2>2, <1>5, <1>7, y \in Nat
    <2> QED
      BY ONLY <2>3, <2>5, <2>7, <1>2, <1>12, <1>16, node' = node + 1
  <1>18. /\ virtual' \in [1 .. Len(comps) -> Seq(Nat)]
         /\ \A c \in 1 .. Len(comps) : c # cur => virtual'[c] = virtual[c]
         /\ virtual'[cur] = Append(virtual[cur], Len(mNodes))
    BY <1>1, <1>5, <1>6, <1>7, <1>9
  <1>19. virtual[cur] \in Seq(Nat) /\ Len(virtual[cur]) = node
    BY <1>5, <1>6 DEF Given
  <1>20. /\ Len(virtual'[cur]) = node + 1 /\ virtual'[cur][node + 1] = Len(mNodes)
         /\ \A j \in 1 .. node : virtual'[cur][j] = virtual[cur][j]
    BY <1>7, <1>18, <1>19
  <1>21. \A c \in 1 .. Len(comps) : Len(virtual'[c]) = Given(c)'
    <2> SUFFICES ASSUME NEW c \in 1 .. Len(comps) PROVE Len(virtual'[c]) = Given(c)'
      OBVIOUS
    <2>1. CASE c = cur
      <3>1. ~(cur < cur) /\ ~(comp > Len(P))
        BY <1>4, <1>5, <1>6
      <3>2. Given(c)' = node'
        BY <2>1, <3>1, <1>2, <1>6 DEF Given
      <3> QED
        BY <2>1, <3>2, <1>20
    <2>2. CASE c # cur
      <3>1. Given(c)' = Given(c)
        BY <2>2, <1>2, WantedKept DEF Given
      <3> QED
        BY <2>2, <3>1, <1>5, <1>18
    <2> QED
      BY <2>1, <2>2
  <1>22. Placed'
    <2> SUFFICES ASSUME NEW c \in 1 .. Len(comps), NEW j \in 1 .. Len(virtual'[c])
                 PROVE  /\ virtual'[c][j] \in 0 .. Len(mNodes') - 1
                        /\ mNodes'[virtual'[c][j] + 1] =
                             [abc |-> FALSE, owner |-> c, slot |-> j - 1]
      BY <1>2 DEF Placed
    <2>1. ASSUME j \in 1 .. Len(virtual[c]), virtual'[c][j] = virtual[c][j]
          PROVE  /\ virtual'[c][j] \in 0 .. Len(mNodes') - 1
                 /\ mNodes'[virtual'[c][j] + 1] =
                      [abc |-> FALSE, owner |-> c, slot |-> j - 1]
      <3>1. /\ virtual[c][j] \in 0 .. Len(mNodes) - 1
            /\ mNodes[virtual[c][j] + 1] = [abc |-> FALSE, owner |-> c, slot |-> j - 1]
        BY <2>1 DEF VirtualInv, Placed
      <3>2. virtual[c][j] + 1 \in 1 .. Len(mNodes) /\ virtual[c][j] \in 0 .. Len(mNodes') - 1
        <4>1. PICK x : x = virtual[c][j]
          OBVIOUS
        <4>2. x \in 0 .. Len(mNodes) - 1
          BY ONLY <4>1, <3>1
        <4>3. x + 1 \in 1 .. Len(mNodes) /\ x \in 0 .. Len(mNodes') - 1
          BY ONLY <4>2, <1>7, <1>12
        <4> QED
          BY ONLY <4>1, <4>3
      <3> QED
        BY ONLY <3>1, <3>2, <2>1, <1>12
    <2>2. CASE c # cur
      BY <2>1, <2>2, <1>18
    <2>3. CASE c = cur /\ j <= node
      <3>1. j \in 1 .. node
        BY ONLY <2>3, <1>5, <1>20, j \in 1 .. Len(virtual'[c])
      <3> QED
        BY ONLY <2>1, <2>3, <3>1, <1>19, <1>20
    <2>4. CASE c = cur /\ j = node + 1
      <3>1. virtual'[c][j] = Len(mNodes) /\ j - 1 = node
        BY <2>4, <1>5, <1>20
      <3>2. mNodes'[virtual'[c][j] + 1] = [abc |-> FALSE, owner |-> c, slot |-> j - 1]
        BY ONLY <3>1, <2>4, <1>11, <1>12
      <3>3. Len(mNodes) \in 0 .. Len(mNodes') - 1
        BY ONLY <1>7, <1>12
      <3> QED
        BY ONLY <3>1, <3>2, <3>3
    <2> QED
      BY <2>2, <2>3, <2>4, <1>5, <1>20
  <1> QED
    BY <1>2, <1>4, <1>5, <1>8, <1>9, <1>12, <1>13, <1>14, <1>15, <1>17, <1>18, <1>21, <1>22, WantedKept
       DEF VirtualInv

(* When a component has its nodes, the next one has none yet.              *)
LEMMA NextComponentStep ==
  ASSUME TopologyInv, VirtualInv, comp <= Len(mPowerComponents),
         ~(node < Wanted(Current)), node' = 0, comp' = comp + 1,
         UNCHANGED <<nodes, comps, mDomain, mPowerComponents, mNumNetNodes, virtualNode, mNodes,
                     virtual>>
  PROVE  VirtualInv'
PROOF
  <1> DEFINE P == mPowerComponents
             cur == P[comp]
  <1>1. /\ nodes' = nodes /\ comps' = comps /\ mDomain' = mDomain /\ mPowerComponents' = P
        /\ mNumNetNodes' = mNumNetNodes /\ mNodes' = mNodes /\ virtual' = virtual
        /\ virtualNode' = virtualNode
    OBVIOUS
  <1>2. nodes \in Seq(NodeKind) /\ comps \in Seq(CompKind) /\ PowerUpTo(Len(comps))
    BY DEF TopologyInv, VirtualInv
  <1>3. /\ Len(comps) \in Nat /\ Len(P) \in Nat
        /\ \A i \in 1 .. Len(P) : P[i] \in 1 .. Len(comps) /\ comps[P[i]].mna
        /\ \A c \in 1 .. Len(comps) : Wanted(c) \in Nat
        /\ \A i, j \in 1 .. Len(P) : i < j => P[i] < P[j]
        /\ \A c \in 1 .. Len(comps) : comps[c].mna => \E i \in 1 .. Len(P) : P[i] = c
    BY <1>2, PowerFacts
  <1>4. /\ comp \in 1 .. Len(P) /\ node \in Nat /\ node <= Wanted(cur)
        /\ virtualNode = (Len(mNodes) + Word - 1) % Word
        /\ virtual \in [1 .. Len(comps) -> Seq(Nat)]
        /\ \A c \in 1 .. Len(comps) : Len(virtual[c]) = Given(c)
    BY <1>3 DEF VirtualInv
  <1>5. cur \in 1 .. Len(comps) /\ cur \in Nat /\ node = Wanted(cur)
    <2>1. cur \in 1 .. Len(comps) /\ Wanted(cur) \in Nat
      BY <1>3, <1>4
    <2>2. ~(node < Wanted(cur))
      BY DEF Current
    <2> HIDE DEF cur
    <2> QED
      BY <2>1, <2>2, <1>3, <1>4
  <1>6. NetworkFirst' /\ PowerUpTo(Len(comps))'
    BY <1>1, <1>2 DEF VirtualInv, NetworkFirst, PowerUpTo
  <1>7. comp' \in 1 .. Len(P) + 1 /\ node' \in Nat
    BY <1>3, <1>4
  <1>8. IF comp' <= Len(P) THEN node' <= Wanted(P[comp']) ELSE node' = 0
    BY <1>3, <1>7
  <1>9. \A c \in 1 .. Len(comps) : Len(virtual'[c]) = Given(c)'
    <2> SUFFICES ASSUME NEW c \in 1 .. Len(comps) PROVE Given(c)' = Given(c)
      BY <1>1, <1>4
    <2>1. CASE ~comps[c].mna
      BY <2>1, <1>1 DEF Given
    <2>2. CASE comps[c].mna
      <3>1. PICK i \in 1 .. Len(P) : P[i] = c
        BY <2>2, <1>3
      <3>2. CASE i <= comp
        <4>1. Given(c) = Wanted(c)
          <5>1. CASE i = comp
            BY <5>1, <3>1, <2>2, <1>3, <1>4, <1>5 DEF Given
          <5>2. CASE i < comp
            <6>1. c < P[comp]
              BY <5>2, <3>1, <1>3, <1>4
            <6> QED
              BY <6>1, <2>2 DEF Given
          <5> QED
            BY <5>1, <5>2, <3>2, <1>4
        <4>2. comp' > Len(P) \/ c < P[comp']
          <5> SUFFICES ASSUME ~(comp' > Len(P)) PROVE c < P[comp']
            OBVIOUS
          <5>1. comp' \in 1 .. Len(P) /\ i < comp'
            BY <3>2, <1>3, <1>4, <1>7
          <5> QED
            BY <5>1, <3>1, <1>3
        <4>3. Given(c)' = Wanted(c)
          BY <4>2, <2>2, <1>1, WantedKept DEF Given
        <4> QED
          BY <4>1, <4>3
      <3>3. CASE i > comp
        <4>1. comp' \in 1 .. Len(P) /\ i >= comp'
          BY <3>3, <1>3, <1>4
        <4>2. c > P[comp] /\ c >= P[comp'] /\ P[comp] \in Nat /\ P[comp'] \in Nat /\ c \in Nat
          <5>1. P[comp] \in 1 .. Len(comps) /\ P[comp'] \in 1 .. Len(comps)
            BY <4>1, <1>3, <1>4
          <5>2. P[comp] < P[i]
            BY <3>3, <1>3, <1>4
          <5>3. P[comp'] < P[i] \/ comp' = i
            BY <4>1, <1>3, <1>4
          <5> QED
            BY <5>1, <5>2, <5>3, <3>1, <1>3
        <4>3. Given(c) = 0
          <5>1. ~(comp > Len(P)) /\ ~(c < P[comp]) /\ c # P[comp]
            BY <4>2, <1>3, <1>4
          <5> QED
            BY <5>1, <2>2 DEF Given
        <4>4. Given(c)' = 0
          BY <4>1, <4>2, <2>2, <1>1, <1>3 DEF Given
        <4> QED
          BY <4>3, <4>4
      <3> QED
        BY <3>2, <3>3, <1>4
    <2> QED
      BY <2>1, <2>2
  <1>10. Placed'
    BY <1>1 DEF VirtualInv, Placed
  <1>11. ASSUME NEW v \in 0 .. Word, FewRows(nodes, comps, v)
         PROVE  Len(mNodes') <= Len(nodes') + Finished' * v + node'
    <2>1. Len(mNodes) <= Len(nodes) + (cur - 1) * v + node
      BY <1>4, <1>11 DEF VirtualInv, Finished
    <2>2. v \in Nat /\ Len(nodes) \in Nat /\ Len(mNodes) \in Nat
      BY <1>2, LenProperties, SettingAssumption DEF VirtualInv, NetworkFirst
    <2>3. PICK x : x = Finished'
      OBVIOUS
    <2>4. x \in Nat /\ cur <= x
      <3>1. CASE comp' <= Len(P)
        <4>1. comp' \in 1 .. Len(P) /\ comp < comp'
          BY <3>1, <1>3, <1>4, <1>7
        <4>2. P[comp] < P[comp'] /\ P[comp'] \in 1 .. Len(comps)
          BY <4>1, <1>3, <1>4
        <4>3. x = P[comp'] - 1
          BY <3>1, <2>3, <1>1 DEF Finished
        <4> QED
          BY <4>2, <4>3, <1>3, <1>5
      <3>2. CASE ~(comp' <= Len(P))
        <4>1. x = Len(comps)
          BY <3>2, <2>3, <1>1 DEF Finished
        <4> QED
          BY <4>1, <1>3, <1>5
      <3> QED
        BY <3>1, <3>2
    <2>5. node <= v
      BY <2>2, <1>5, <1>11 DEF FewRows, Wanted
    <2>6. PICK c \in Nat : c = cur - 1
      BY <1>5
    <2>7. c <= c /\ c + 1 <= x /\ c + 1 \in Nat
      BY <2>4, <2>6, <1>5
    <2>8. c * v \in Nat /\ (c + 1) * v = c * v + v
      BY ONLY <2>2, <2>7, c \in Nat, ProductGrows
    <2>9. x * v \in Nat /\ (c + 1) * v <= x * v
      BY ONLY <2>2, <2>4, <2>7, ProductGrows
    <2>10. PICK y \in Nat, z \in Nat : y = c * v /\ z = x * v
      BY <2>8, <2>9
    <2>11. y + v <= z /\ Len(mNodes) <= Len(nodes) + y + node
      BY ONLY <2>1, <2>6, <2>8, <2>9, <2>10
    <2>12. Len(mNodes) <= Len(nodes) + z + 0
      BY ONLY <2>2, <2>5, <2>11, <1>4, y \in Nat, z \in Nat
    <2> QED
      BY ONLY <2>3, <2>10, <2>12, <1>1, node' = 0
  <1> QED
    BY <1>1, <1>4, <1>6, <1>7, <1>8, <1>9, <1>10, <1>11, WantedKept DEF VirtualInv

(* The loop of createVirtualNodes.                                         *)
LEMMA VirtualLoopStep ==
  ASSUME SetupInv, VirtualLoop, UNCHANGED daeVars
  PROVE  SetupInv'
PROOF
  <1>1. /\ pc = "virtual" /\ pc' = "virtual" /\ comp <= Len(mPowerComponents)
        /\ nodes' = nodes /\ comps' = comps /\ mDomain' = mDomain /\ mPowerComponents' = mPowerComponents
        /\ mNumNetNodes' = mNumNetNodes /\ idx' = idx /\ simNodeIdx' = simNodeIdx
        /\ simNodes' = simNodes /\ mNumNetSimNodes' = mNumNetSimNodes
    BY DEF VirtualLoop, topo, lists, assign
  <1>2. TopologyInv /\ VirtualInv /\ NoRows
    BY <1>1 DEF SetupInv, MnaPhaseInv
  <1>3. TopologyInv' /\ NoRows'
    BY <1>1, <1>2 DEF TopologyInv, NoRows
  <1>4. VirtualInv'
    <2>1. CASE node < Wanted(Current)
      <3>1. NewVirtualNode /\ node' = node + 1 /\ comp' = comp
        BY <2>1 DEF VirtualLoop
      <3> QED
        BY <1>1, <1>2, <2>1, <3>1, NewVirtualStep
    <2>2. CASE ~(node < Wanted(Current))
      <3>1. /\ node' = 0 /\ comp' = comp + 1
            /\ virtualNode' = virtualNode /\ mNodes' = mNodes /\ virtual' = virtual
        BY <2>2 DEF VirtualLoop
      <3> QED
        BY <1>1, <1>2, <2>2, <3>1, NextComponentStep
    <2> QED
      BY <2>1, <2>2
  <1>5. MnaPhaseInv'
    BY <1>1, <1>3, <1>4 DEF MnaPhaseInv, Numbered, DifferenceDefined
  <1>6. DaePhaseInv' /\ pc' \notin Early
    BY <1>1 DEF DaePhaseInv, DaePhases, Early
  <1> QED
    BY <1>3, <1>5, <1>6 DEF SetupInv

(* When the components are done with, all of them have their nodes.        *)
LEMMA VirtualEndStep ==
  ASSUME SetupInv, VirtualEnd, UNCHANGED daeVars
  PROVE  SetupInv'
PROOF
  <1>1. /\ pc = "virtual" /\ pc' = "assign" /\ comp > Len(mPowerComponents)
        /\ mNumNodes' = Len(mNodes)
        /\ nodes' = nodes /\ comps' = comps /\ mDomain' = mDomain /\ mNodes' = mNodes /\ virtual' = virtual
        /\ mNumNetNodes' = mNumNetNodes /\ idx' = idx /\ simNodeIdx' = simNodeIdx
        /\ simNodes' = simNodes /\ mNumNetSimNodes' = mNumNetSimNodes
    BY DEF VirtualEnd, topo, lists, virt, assign
  <1>2. TopologyInv /\ VirtualInv /\ NoRows
    BY <1>1 DEF SetupInv, MnaPhaseInv
  <1>3. TopologyInv'
    BY <1>1, <1>2 DEF TopologyInv
  <1>4. Len(mNodes) < Word
    BY <1>2, NodesFit
  <1>5. NetworkFirst' /\ Len(mNodes) \in Nat
    BY <1>1, <1>2, LenProperties DEF VirtualInv, NetworkFirst
  <1>6. \A c \in 1 .. Len(comps) : Len(virtual[c]) = IF comps[c].mna THEN Wanted(c) ELSE 0
    BY <1>1, <1>2 DEF VirtualInv, Given
  <1>7. VirtualNodesOwned'
    <2>1. \A c \in 1 .. Len(comps) : \A j \in 1 .. Len(virtual[c]) :
            /\ virtual[c][j] \in 0 .. Len(mNodes) - 1
            /\ mNodes[virtual[c][j] + 1] = [abc |-> FALSE, owner |-> c, slot |-> j - 1]
      BY <1>2 DEF VirtualInv, Placed
    <2>2. \A x \in 0 .. Len(mNodes) - 1 : x < Len(mNodes)
      BY <1>5
    <2> QED
      BY <2>1, <2>2, <1>1, <1>6, WantedKept DEF VirtualNodesOwned
  <1>8. Prepared'
    BY <1>1, <1>4, <1>5, <1>7 DEF Prepared
  <1>9. Assigned(idx)'
    <2>1. idx = 0 /\ simNodeIdx = 0 /\ simNodes = <<>> /\ mNumNetSimNodes = 0
      BY <1>2 DEF NoRows
    <2>2. RowsUpTo(idx, simNodeIdx)'
      BY <2>1, <1>1 DEF RowsUpTo, RowsIn
    <2>3. RowsUsed(idx)' /\ NetworkRows(idx)'
      BY <2>1, <1>1 DEF RowsUsed, UsedIn, NetworkRows
    <2> QED
      BY <2>1, <2>2, <2>3, <1>1, <1>5 DEF Assigned
  <1>10. MnaPhaseInv'
    BY <1>1, <1>8, <1>9 DEF MnaPhaseInv, Numbered, DifferenceDefined
  <1>11. DaePhaseInv' /\ pc' \notin Early
    BY <1>1 DEF DaePhaseInv, DaePhases, Early
  <1> QED
    BY <1>3, <1>10, <1>11 DEF SetupInv

-----------------------------------------------------------------------------
(* The rows of the nodes                                                   *)

(* One more node gets its rows behind those assigned.                      *)
LEMMA RowsAppended ==
  ASSUME NEW n \in Nat, NEW t \in Nat, NEW s, NEW ns, RowsIn(s, ns, n, t)
  PROVE  /\ Width(ns[n + 1]) \in {1, 3} /\ (~ns[n + 1].abc => Width(ns[n + 1]) = 1)
         /\ \A k \in 1 .. n : Behind(s, ns, n, t)[k] = s[k] /\ s[k][1] \in Nat
         /\ \A p \in 1 .. Width(ns[n + 1]) : Behind(s, ns, n, t)[n + 1][p] = t + p - 1
         /\ Behind(s, ns, n, t)[n + 1][1] = t
         /\ RowsIn(Behind(s, ns, n, t), ns, n + 1, t + Width(ns[n + 1]))
PROOF
  <1>0. PICK w : w = Width(ns[n + 1])
    OBVIOUS
  <1> DEFINE r == [p \in 1 .. w |-> t + p - 1]
             V(k) == Width(ns[k])
  <1>1. w \in {1, 3} /\ (~ns[n + 1].abc => w = 1)
    BY <1>0 DEF Width
  <1>2. \A k : V(k) \in {1, 3}
    BY DEF Width
  <1>3. /\ s \in Seq(Seq(Nat)) /\ Len(s) = n
        /\ \A k \in 1 .. n : /\ Len(s[k]) = V(k)
                             /\ \A p \in 1 .. V(k) : s[k][p] = s[k][1] + p - 1
                             /\ s[k][1] + V(k) <= t
        /\ \A k, l \in 1 .. n : k < l => s[k][1] + V(k) <= s[l][1]
    BY DEF RowsIn
  <1>4. w = V(n + 1)
    BY <1>0
  <1>5. /\ r \in Seq(Nat) /\ Len(r) = w /\ r[1] = t
        /\ \A p \in 1 .. w : r[p] = t + p - 1
    <2>1. w \in Nat /\ w >= 1
      BY <1>1
    <2>2. r \in [1 .. w -> Nat]
      BY <2>1
    <2>3. \A p \in 1 .. w : r[p] = t + p - 1
      OBVIOUS
    <2> HIDE DEF r
    <2>4. r \in Seq(Nat)
      BY ONLY <2>1, <2>2, SeqDef
    <2>5. PICK y \in Nat : y = Len(r) /\ DOMAIN r = 1 .. y
      BY ONLY <2>4, LenProperties
    <2>6. 1 .. y = 1 .. w
      BY ONLY <2>2, <2>5
    <2>7. w \in 1 .. y /\ y <= w
      <3>1. w \in 1 .. w
        BY <2>1
      <3>2. w \in 1 .. y
        BY ONLY <3>1, <2>6
      <3>3. y \in 1 .. y
        BY ONLY <3>2, y \in Nat
      <3>4. y \in 1 .. w
        BY ONLY <3>3, <2>6
      <3> QED
        BY <3>2, <3>4
    <2>8. Len(r) = w
      BY ONLY <2>1, <2>5, <2>7
    <2>9. r[1] = t
      BY <2>1, <2>3
    <2> QED
      BY <2>3, <2>4, <2>8, <2>9
  <1> HIDE DEF V
  <1>6. \A k \in 1 .. n : s[k][1] \in Nat
    <2> SUFFICES ASSUME NEW k \in 1 .. n PROVE s[k][1] \in Nat
      OBVIOUS
    <2>1. s[k] \in Seq(Nat)
      BY <1>3, ElementOfSeq
    <2>2. PICK y : y = Len(s[k])
      OBVIOUS
    <2>3. y \in {1, 3}
      BY <2>2, <1>2, <1>3
    <2>4. 1 \in 1 .. y
      BY ONLY <2>3
    <2> QED
      BY ONLY <2>1, <2>2, <2>4, ElementOfSeq
  <1> DEFINE s2 == Append(s, r)
  <1> HIDE DEF r
  <1>7. /\ s2 \in Seq(Seq(Nat)) /\ Len(s2) = n + 1 /\ s2[n + 1] = r
        /\ \A k \in 1 .. n : s2[k] = s[k]
    BY <1>3, <1>5
  <1> HIDE DEF s2
  <1>8. \A p \in 1 .. w : s2[n + 1][p] = t + p - 1
    BY <1>5, <1>7
  <1>9. \A k \in 1 .. n + 1 :
          /\ Len(s2[k]) = V(k)
          /\ \A p \in 1 .. V(k) : s2[k][p] = s2[k][1] + p - 1
          /\ s2[k][1] + V(k) <= t + w
    <2> SUFFICES ASSUME NEW k \in 1 .. n + 1
                 PROVE  /\ Len(s2[k]) = V(k)
                        /\ \A p \in 1 .. V(k) : s2[k][p] = s2[k][1] + p - 1
                        /\ s2[k][1] + V(k) <= t + w
      OBVIOUS
    <2>1. CASE k \in 1 .. n
      <3>1. s2[k] = s[k] /\ s[k][1] + V(k) <= t /\ s[k][1] \in Nat /\ V(k) \in {1, 3}
        BY <2>1, <1>2, <1>3, <1>6, <1>7
      <3>2. s[k][1] + V(k) <= t + w
        BY ONLY <3>1, <1>1, t \in Nat
      <3> QED
        BY <2>1, <3>1, <3>2, <1>3
    <2>2. CASE k = n + 1
      BY <2>2, <1>1, <1>4, <1>5, <1>7
    <2>3. k \in 1 .. n \/ k = n + 1
      BY ONLY n \in Nat, k \in 1 .. n + 1
    <2> QED
      BY <2>1, <2>2, <2>3
  <1>10. \A k, l \in 1 .. n + 1 : k < l => s2[k][1] + V(k) <= s2[l][1]
    <2> SUFFICES ASSUME NEW k \in 1 .. n + 1, NEW l \in 1 .. n + 1, k < l
                 PROVE  s2[k][1] + V(k) <= s2[l][1]
      OBVIOUS
    <2>1. k \in 1 .. n
      OBVIOUS
    <2>2. CASE l \in 1 .. n
      BY <2>1, <2>2, <1>3, <1>7
    <2>3. CASE l = n + 1
      BY <2>1, <2>3, <1>3, <1>5, <1>7
    <2>4. l \in 1 .. n \/ l = n + 1
      BY ONLY n \in Nat, l \in 1 .. n + 1
    <2> QED
      BY <2>2, <2>3, <2>4
  <1>11. t + w \in Nat
    BY <1>1
  <1>12. RowsIn(s2, ns, n + 1, t + w)
    BY <1>7, <1>9, <1>10, <1>11 DEF RowsIn, V
  <1> QED
    <2>1. Behind(s, ns, n, t) = s2
      BY <1>0 DEF Behind, s2, r
    <2> QED
      BY <2>1, <1>0, <1>1, <1>5, <1>6, <1>7, <1>8, <1>12

(* None of the rows is left out when there were none before.               *)
LEMMA UsedAppended ==
  ASSUME NEW n \in Nat, NEW t \in Nat, NEW s, NEW ns, NEW s2, UsedIn(s, ns, n, t),
         \A k \in 1 .. n : s2[k] = s[k],
         \A p \in 1 .. Width(ns[n + 1]) : s2[n + 1][p] = t + p - 1
  PROVE  UsedIn(s2, ns, n + 1, t + Width(ns[n + 1]))
PROOF
  <1>0. PICK w : w = Width(ns[n + 1])
    OBVIOUS
  <1>1. w \in {1, 3} /\ \A p \in 1 .. w : s2[n + 1][p] = t + p - 1
    BY <1>0 DEF Width
  <1>2. ASSUME NEW r \in 0 .. t + w - 1
        PROVE  \E k \in 1 .. n + 1 : \E p \in 1 .. Width(ns[k]) : s2[k][p] = r
    <2>1. CASE r < t
      <3>1. PICK k \in 1 .. n : \E p \in 1 .. Width(ns[k]) : s[k][p] = r
        BY <2>1, <1>1 DEF UsedIn
      <3>2. k \in 1 .. n + 1 /\ s2[k] = s[k]
        OBVIOUS
      <3> QED
        BY <3>1, <3>2
    <2>2. CASE r >= t
      <3>1. r - t + 1 \in 1 .. w /\ t + (r - t + 1) - 1 = r
        BY <2>2, <1>1
      <3>2. s2[n + 1][r - t + 1] = r
        BY <3>1, <1>1
      <3>3. n + 1 \in 1 .. n + 1
        OBVIOUS
      <3> QED
        BY ONLY <3>1, <3>2, <3>3, <1>0
    <2> QED
      BY <2>1, <2>2, <1>1
  <1>3. UsedIn(s2, ns, n + 1, t + w)
    BY ONLY <1>2, <1>1, t \in Nat, n \in Nat DEF UsedIn
  <1> QED
    BY ONLY <1>0, <1>3

(* A round of assignSimNodes.                                              *)
LEMMA AssignLoopStep ==
  ASSUME SetupInv, AssignLoop, UNCHANGED daeVars
  PROVE  SetupInv'
PROOF
  <1>1. /\ pc = "assign" /\ pc' = "assign" /\ idx < Len(mNodes)
        /\ nodes' = nodes /\ comps' = comps /\ mDomain' = mDomain /\ mNodes' = mNodes /\ virtual' = virtual
        /\ mNumNetNodes' = mNumNetNodes /\ mNumNodes' = mNumNodes
    BY DEF AssignLoop, topo, virt
  <1>2. TopologyInv /\ Prepared /\ Assigned(idx)
    BY <1>1 DEF SetupInv, MnaPhaseInv
  <1>3. TopologyInv' /\ Prepared'
    BY <1>1, <1>2 DEF TopologyInv, Prepared, NetworkFirst, VirtualNodesOwned, Wanted
  <1>4. PICK n, t, w, N, m : /\ n = idx /\ t = simNodeIdx /\ w = W(n + 1)
                             /\ N = mNumNetNodes /\ m = mNumNetSimNodes
    OBVIOUS
  <1>5. /\ RowsUpTo(n, t) /\ n \in 0 .. Len(mNodes) /\ n < Len(mNodes)
        /\ (\A k \in 1 .. Len(mNodes) : ~mNodes[k].abc) => t = n
    BY <1>1, <1>2, <1>4 DEF Assigned
  <1>6. /\ \A r \in 0 .. t - 1 : \E k \in 1 .. n : \E p \in 1 .. W(k) : simNodes[k][p] = r
        /\ m \in 0 .. t
        /\ n >= N =>
             \A k \in 1 .. n :
               IF k <= N THEN simNodes[k][1] + W(k) <= m ELSE simNodes[k][1] >= m
    BY <1>2, <1>4 DEF Assigned, RowsUsed, UsedIn, NetworkRows, W
  <1>7. /\ mNodes \in Seq(NodeRec) /\ Len(mNodes) \in Nat /\ N \in 0 .. Len(mNodes)
        /\ Len(mNodes) < Word /\ Word \in Nat
    BY <1>2, <1>4, LenProperties, SettingAssumption DEF Prepared, NetworkFirst
  <1>8. n \in Nat /\ t \in Nat
    BY <1>5, <1>7 DEF RowsUpTo, RowsIn
  <1>9. /\ simNodes' = Behind(simNodes, mNodes, n, t)
        /\ simNodeIdx' = t + w /\ idx' = n + 1
        /\ mNumNetSimNodes' = IF n = (N + Word - 1) % Word THEN t + w ELSE m
    BY <1>1, <1>4 DEF AssignLoop, AssignRound, W, Behind
  <1>10. /\ w \in {1, 3} /\ (~mNodes[n + 1].abc => w = 1)
         /\ \A k \in 1 .. n : simNodes'[k] = simNodes[k] /\ simNodes[k][1] \in Nat
         /\ \A p \in 1 .. w : simNodes'[n + 1][p] = t + p - 1
         /\ simNodes'[n + 1][1] = t
         /\ RowsIn(simNodes', mNodes, n + 1, t + w)
    <2>1. w = Width(mNodes[n + 1]) /\ RowsIn(simNodes, mNodes, n, t)
      BY <1>4, <1>5 DEF W, RowsUpTo
    <2>2. n \in Nat /\ t \in Nat
      BY <1>8
    <2> QED
      BY ONLY <2>1, <2>2, <1>9, RowsAppended
  <1>11. n = (N + Word - 1) % Word <=> n + 1 = N
    <2>1. N \in Nat /\ N < Word /\ n < Word - 1
      BY <1>5, <1>7, <1>8
    <2>2. (N + Word - 1) % Word = IF N = 0 THEN Word - 1 ELSE N - 1
      BY ONLY <2>1, <1>7
    <2> QED
      BY ONLY <2>1, <2>2, <1>7, <1>8
  <1>12. RowsUpTo(idx, simNodeIdx)'
    BY <1>1, <1>9, <1>10 DEF RowsUpTo
  <1>13. RowsUsed(idx)'
    <2>1. w = Width(mNodes[n + 1]) /\ UsedIn(simNodes, mNodes, n, t)
      BY <1>4, <1>6 DEF W, UsedIn
    <2>2. UsedIn(simNodes', mNodes, n + 1, t + w)
      BY ONLY <2>1, <1>8, <1>10, UsedAppended
    <2>3. idx' = n + 1 /\ simNodeIdx' = t + w /\ mNodes' = mNodes
      BY <1>1, <1>9
    <2>4. UsedIn(simNodes', mNodes', idx', simNodeIdx') => RowsUsed(idx)'
      BY DEF RowsUsed
    <2> QED
      BY ONLY <2>2, <2>3, <2>4
  <1>14. NetworkRows(idx)'
    <2>1. mNumNetSimNodes' \in 0 .. t + w
      BY <1>6, <1>8, <1>9, <1>10
    <2>2. ASSUME n + 1 >= N, NEW k \in 1 .. n + 1
          PROVE  IF k <= N THEN simNodes'[k][1] + W(k) <= mNumNetSimNodes'
                 ELSE simNodes'[k][1] >= mNumNetSimNodes'
      <3>1. CASE n + 1 = N
        <4>1. mNumNetSimNodes' = t + w /\ k <= N
          BY <3>1, <1>8, <1>9, <1>11
        <4>2. simNodes'[k][1] + W(k) <= t + w
          BY <1>10 DEF RowsIn, W
        <4> QED
          BY <4>1, <4>2
      <3>2. CASE n + 1 # N
        <4>1. mNumNetSimNodes' = m /\ n >= N
          BY <2>2, <3>2, <1>7, <1>8, <1>9, <1>11
        <4>2. CASE k \in 1 .. n
          BY <4>1, <4>2, <1>6, <1>10
        <4>3. CASE k = n + 1
          <5>1. ~(k <= N) /\ t >= m
            BY <4>1, <4>3, <1>6, <1>7, <1>8
          <5> QED
            BY <4>1, <4>3, <5>1, <1>10
        <4> QED
          BY <4>2, <4>3, <1>8
      <3> QED
        BY <3>1, <3>2
    <2> QED
      BY <2>1, <2>2, <1>1, <1>4, <1>9 DEF NetworkRows, W
  <1>15. (\A k \in 1 .. Len(mNodes) : ~mNodes[k].abc) => t + w = n + 1
    <2> SUFFICES ASSUME \A k \in 1 .. Len(mNodes) : ~mNodes[k].abc PROVE t + w = n + 1
      OBVIOUS
    <2>1. n + 1 \in 1 .. Len(mNodes)
      BY <1>5, <1>7, <1>8
    <2> QED
      BY <2>1, <1>5, <1>8, <1>10
  <1>16. n + 1 \in 0 .. Len(mNodes)
    BY <1>5, <1>7, <1>8
  <1>17. Assigned(idx)'
    BY <1>1, <1>9, <1>12, <1>13, <1>14, <1>15, <1>16 DEF Assigned
  <1>18. MnaPhaseInv'
    BY <1>1, <1>3, <1>17 DEF MnaPhaseInv, Numbered, DifferenceDefined
  <1>19. DaePhaseInv' /\ pc' \notin Early
    BY <1>1 DEF DaePhaseInv, DaePhases, Early
  <1> QED
    BY <1>3, <1>18, <1>19 DEF SetupInv

(* All nodes have their rows.                                              *)
LEMMA AssignEndStep ==
  ASSUME SetupInv, AssignEnd, UNCHANGED daeVars
  PROVE  SetupInv'
PROOF
  <1>1. /\ pc = "assign" /\ pc' = "sort" /\ idx >= Len(mNodes) /\ mNumSimNodes' = simNodeIdx
        /\ nodes' = nodes /\ comps' = comps /\ mDomain' = mDomain /\ mNodes' = mNodes /\ virtual' = virtual
        /\ mNumNetNodes' = mNumNetNodes /\ mNumNodes' = mNumNodes
        /\ idx' = idx /\ simNodeIdx' = simNodeIdx
        /\ simNodes' = simNodes /\ mNumNetSimNodes' = mNumNetSimNodes
    BY DEF AssignEnd, topo, virt, assign
  <1>2. TopologyInv /\ Prepared /\ Assigned(idx)
    BY <1>1 DEF SetupInv, MnaPhaseInv
  <1>3. TopologyInv' /\ Prepared'
    BY <1>1, <1>2 DEF TopologyInv, Prepared, NetworkFirst, VirtualNodesOwned, Wanted
  <1>4. idx = Len(mNodes)
    BY <1>1, <1>2, LenProperties DEF Assigned, Prepared, NetworkFirst
  <1>5. Assigned(Len(mNodes))'
    BY <1>1, <1>2, <1>4 DEF Assigned, RowsUpTo, RowsUsed, NetworkRows, W
  <1>6. MnaPhaseInv'
    BY <1>1, <1>3, <1>5 DEF MnaPhaseInv, MnaReady, Numbered, DifferenceDefined
  <1>7. DaePhaseInv' /\ pc' \notin Early
    BY <1>1 DEF DaePhaseInv, DaePhases, Early
  <1> QED
    BY <1>3, <1>6, <1>7 DEF SetupInv

(* Behind the numbering nothing touches nodes and rows.                    *)
LEMMA ReadyKept ==
  ASSUME TopologyInv, MnaReady, UNCHANGED <<nodes, comps, mDomain, mNodes, virtual, mNumNetNodes,
         mNumNodes, idx, simNodeIdx, simNodes, mNumNetSimNodes, mNumSimNodes>>
  PROVE  TopologyInv' /\ MnaReady'
PROOF
  <1>1. TopologyInv' /\ Prepared'
    BY DEF TopologyInv, MnaReady, Prepared, NetworkFirst, VirtualNodesOwned, Wanted
  <1>2. Assigned(Len(mNodes))'
    BY DEF MnaReady, Assigned, RowsUpTo, RowsUsed, NetworkRows, W
  <1> QED
    BY <1>1, <1>2 DEF MnaReady

(* sortExecutionPriority.                                                  *)
LEMMA SortStep ==
  ASSUME SetupInv, SortExecutionPriority, UNCHANGED daeVars
  PROVE  SetupInv'
PROOF
  <1>1. /\ pc = "sort" /\ pc' = "create"
        /\ nodes' = nodes /\ comps' = comps /\ mDomain' = mDomain /\ mNodes' = mNodes /\ virtual' = virtual
        /\ mNumNetNodes' = mNumNetNodes /\ mNumNodes' = mNumNodes
        /\ idx' = idx /\ simNodeIdx' = simNodeIdx /\ simNodes' = simNodes
        /\ mNumNetSimNodes' = mNumNetSimNodes /\ mNumSimNodes' = mNumSimNodes
    BY DEF SortExecutionPriority, topo, virt, assign
  <1>2. TopologyInv' /\ MnaReady'
    BY <1>1, ReadyKept DEF SetupInv, MnaPhaseInv, Numbered
  <1>3. MnaPhaseInv'
    BY <1>1, <1>2 DEF MnaPhaseInv, Numbered, DifferenceDefined
  <1>4. DaePhaseInv' /\ pc' \notin Early
    BY <1>1 DEF DaePhaseInv, DaePhases, Early
  <1> QED
    BY <1>2, <1>3, <1>4 DEF SetupInv

(* createEmptyVectors; the steady-state loop is entered for DP only.       *)
LEMMA CreateEmptyStep ==
  ASSUME SetupInv, CreateEmpty, UNCHANGED daeVars
  PROVE  SetupInv'
PROOF
  <1>1. /\ pc = "create" /\ pc' \in {"failed", "steady", "ready"}
        /\ rows' = Parts * mNumSimNodes /\ (pc' = "steady" => mDomain = "DP")
        /\ nodes' = nodes /\ comps' = comps /\ mDomain' = mDomain /\ mNodes' = mNodes /\ virtual' = virtual
        /\ mNumNetNodes' = mNumNetNodes /\ mNumNodes' = mNumNodes
        /\ idx' = idx /\ simNodeIdx' = simNodeIdx /\ simNodes' = simNodes
        /\ mNumNetSimNodes' = mNumNetSimNodes /\ mNumSimNodes' = mNumSimNodes
    BY DEF CreateEmpty, topo, virt, assign
  <1>2. TopologyInv' /\ MnaReady'
    BY <1>1, ReadyKept DEF SetupInv, MnaPhaseInv, Numbered
  <1>3. pc' = "steady" => rows' = 2 * mNumSimNodes'
    BY <1>1 DEF Parts
  <1>4. MnaPhaseInv'
    BY <1>1, <1>2, <1>3 DEF MnaPhaseInv, Numbered, DifferenceDefined
  <1>5. DaePhaseInv' /\ pc' \notin Early
    BY <1>1 DEF DaePhaseInv, DaePhases, Early
  <1> QED
    BY <1>2, <1>4, <1>5 DEF SetupInv

(* The head of steadyStateInitialization.                                  *)
LEMMA SteadyBeginStep ==
  ASSUME SetupInv, SteadyBegin, UNCHANGED daeVars
  PROVE  SetupInv'
PROOF
  <1>1. /\ pc = "steady" /\ pc' = "steady_loop" /\ prevRows' = 2 * mNumNodes /\ rows' = rows
        /\ nodes' = nodes /\ comps' = comps /\ mDomain' = mDomain /\ mNodes' = mNodes /\ virtual' = virtual
        /\ mNumNetNodes' = mNumNetNodes /\ mNumNodes' = mNumNodes
        /\ idx' = idx /\ simNodeIdx' = simNodeIdx /\ simNodes' = simNodes
        /\ mNumNetSimNodes' = mNumNetSimNodes /\ mNumSimNodes' = mNumSimNodes
    BY DEF SteadyBegin, topo, virt, assign
  <1>2. TopologyInv' /\ MnaReady'
    BY <1>1, ReadyKept DEF SetupInv, MnaPhaseInv, Numbered
  <1>3. rows' = 2 * mNumSimNodes'
    BY <1>1 DEF SetupInv, MnaPhaseInv
  <1>4. MnaPhaseInv'
    BY <1>1, <1>2, <1>3 DEF MnaPhaseInv, Numbered, DifferenceDefined
  <1>5. DaePhaseInv' /\ pc' \notin Early
    BY <1>1 DEF DaePhaseInv, DaePhases, Early
  <1> QED
    BY <1>2, <1>4, <1>5 DEF SetupInv

(* A round of the loop: without three-phase nodes there are as many rows   *)
(* as nodes, and the sizes agree.                                          *)
LEMMA SteadyLoopStep ==
  ASSUME SetupInv, SteadyLoop, UNCHANGED daeVars
  PROVE  SetupInv'
PROOF
  <1>1. /\ pc = "steady_loop" /\ rows' = rows
        /\ \/ prevRows # rows /\ pc' = "undefined"
           \/ prevRows' = rows /\ pc' \in {"ready", "steady_loop"}
        /\ nodes' = nodes /\ comps' = comps /\ mDomain' = mDomain /\ mNodes' = mNodes /\ virtual' = virtual
        /\ mNumNetNodes' = mNumNetNodes /\ mNumNodes' = mNumNodes
        /\ idx' = idx /\ simNodeIdx' = simNodeIdx /\ simNodes' = simNodes
        /\ mNumNetSimNodes' = mNumNetSimNodes /\ mNumSimNodes' = mNumSimNodes
    BY DEF SteadyLoop, topo, virt, assign
  <1>2. MnaReady /\ rows = 2 * mNumSimNodes /\ prevRows \in {2 * mNumNodes, rows}
    BY <1>1 DEF SetupInv, MnaPhaseInv, Numbered
  <1>3. TopologyInv' /\ MnaReady'
    BY <1>1, <1>2, ReadyKept DEF SetupInv
  <1>4. prevRows # rows => \E k \in 1 .. Len(mNodes) : mNodes[k].abc
    BY <1>2 DEF MnaReady, Assigned, Prepared
  <1>5. DifferenceDefined'
    BY <1>1, <1>4 DEF DifferenceDefined
  <1>6. MnaPhaseInv'
    BY <1>1, <1>2, <1>3, <1>5 DEF MnaPhaseInv, Numbered
  <1>7. DaePhaseInv' /\ pc' \notin Early
    BY <1>1 DEF DaePhaseInv, DaePhases, Early
  <1> QED
    BY <1>3, <1>6, <1>7 DEF SetupInv

(* MnaSolver::initialize.                                                  *)
LEMMA InitializeStep ==
  ASSUME SetupInv, Initialize, UNCHANGED daeVars
  PROVE  SetupInv'
PROOF
  BY IdentifyStep, NodeLoopStep, CompLoopStep, VirtualBeginStep, VirtualLoopStep,
     VirtualEndStep, AssignLoopStep, AssignEndStep, SortStep, CreateEmptyStep,
     SteadyBeginStep, SteadyLoopStep DEF Initialize

-----------------------------------------------------------------------------
(* DAESolver                                                               *)

(* Nothing is claimed of an MnaSolver while a DAESolver is set up.         *)
LEMMA DaePosition ==
  ASSUME pc' \in DaePhases \union {"failed", "crashed"}
  PROVE  MnaPhaseInv' /\ pc' \notin Early
PROOF
  BY DEF MnaPhaseInv, Numbered, DifferenceDefined, DaePhases, Early

(* The checks of DAESolver::DAESolver.                                     *)
LEMMA DaeConstructStep ==
  ASSUME SetupInv, DaeConstruct
  PROVE  SetupInv'
PROOF
  <1>1. /\ pc = "dae" /\ pc' \in {"failed", "crashed", "dae_nodes"}
        /\ nodes' = nodes /\ comps' = comps /\ mDomain' = mDomain /\ mNodes' = mNodes /\ node' = node
        /\ idx' = idx /\ simNodes' = simNodes
    BY DEF DaeConstruct, DaeFrame, topo, assign
  <1>2. TopologyInv /\ mNodes = <<>> /\ node = 0 /\ NoRows
    BY <1>1 DEF SetupInv, Early
  <1>3. TopologyInv'
    BY <1>1, <1>2 DEF TopologyInv
  <1>4. NetworkOnly' /\ node' \in 0 .. Len(nodes') /\ Len(mNodes') <= node'
    BY <1>1, <1>2 DEF TopologyInv, NetworkOnly
  <1>5. idx' = 0 /\ simNodes' = <<>>
    BY <1>1, <1>2 DEF NoRows
  <1>6. DaePhaseInv'
    BY <1>1, <1>3, <1>4, <1>5 DEF DaePhaseInv, DaePhases
  <1>7. MnaPhaseInv' /\ pc' \notin Early
    BY <1>1, DaePosition DEF DaePhases
  <1> QED
    BY <1>3, <1>6, <1>7 DEF SetupInv

(* The loop over the nodes, of a DAESolver.                                *)
LEMMA DaeNodesStep ==
  ASSUME SetupInv, DaeNodes
  PROVE  SetupInv'
PROOF
  <1>1. /\ pc = "dae_nodes" /\ nodes' = nodes /\ comps' = comps /\ mDomain' = mDomain
        /\ idx' = idx /\ simNodes' = simNodes
    BY DEF DaeNodes, DaeFrame, topo, daeVars
  <1>2. /\ TopologyInv /\ NetworkOnly /\ node \in 0 .. Len(nodes)
        /\ Len(mNodes) <= node /\ idx = 0 /\ simNodes = <<>>
    BY <1>1 DEF SetupInv, DaePhaseInv, DaePhases
  <1>3. TopologyInv'
    BY <1>1, <1>2 DEF TopologyInv
  <1>4. CASE NodeRound /\ pc' = pc
    <2>1. NetworkOnly' /\ node' \in 0 .. Len(nodes') /\ Len(mNodes') <= node'
      BY <1>1, <1>2, <1>4, NodeRoundKeeps
    <2>2. DaePhaseInv'
      BY <1>1, <1>2, <1>3, <1>4, <2>1 DEF DaePhaseInv, DaePhases
    <2>3. MnaPhaseInv' /\ pc' \notin Early
      BY <1>1, <1>4, DaePosition DEF DaePhases
    <2> QED
      BY <1>3, <2>2, <2>3 DEF SetupInv
  <1>5. CASE /\ node >= Len(nodes) /\ UNCHANGED <<node, mNodes>>
             /\ pc' = "dae_number" /\ simNodeIdx' = Word - 1
    <2>1. NetworkOnly' /\ idx' \in 0 .. Len(mNodes')
      BY <1>1, <1>2, <1>5, LenProperties DEF NetworkOnly
    <2>2. Word \in Nat /\ Word > 0
      BY SettingAssumption
    <2>3. (0 + Word - 1) % Word = Word - 1 /\ 0 \in 0 .. 3 * 0
      BY <2>2
    <2>4. RowsIn(<<>>, mNodes', 0, 0) /\ UsedIn(<<>>, mNodes', 0, 0)
      BY DEF RowsIn, UsedIn
    <2>5. idx' = 0 /\ simNodes' = <<>>
      BY <1>1, <1>2
    <2>6. DaeNumbered(idx)'
      BY ONLY <2>3, <2>4, <2>5, <1>5 DEF DaeNumbered, RowsUpTo
    <2>7. DaePhaseInv'
      BY <1>1, <1>2, <1>3, <1>5, <2>1, <2>6 DEF DaePhaseInv, DaePhases
    <2>8. MnaPhaseInv' /\ pc' \notin Early
      BY <1>5, DaePosition DEF DaePhases
    <2> QED
      BY <1>3, <2>7, <2>8 DEF SetupInv
  <1> QED
    BY <1>4, <1>5 DEF DaeNodes

(* The numbering: the counter that starts below zero is one behind the     *)
(* number of positions given out.                                          *)
LEMMA DaeNumberStep ==
  ASSUME SetupInv, DaeNumber
  PROVE  SetupInv'
PROOF
  <1>1. /\ pc = "dae_number" /\ nodes' = nodes /\ comps' = comps /\ mDomain' = mDomain
        /\ mNodes' = mNodes
    BY DEF DaeNumber, DaeFrame, topo, daeVars
  <1>2. /\ TopologyInv /\ NetworkOnly /\ idx \in 0 .. Len(mNodes) /\ DaeNumbered(idx)
    BY <1>1 DEF SetupInv, DaePhaseInv, DaePhases
  <1>3. TopologyInv' /\ NetworkOnly'
    BY <1>1, <1>2 DEF TopologyInv, NetworkOnly
  <1>4. CASE /\ idx < Len(mNodes) /\ pc' = pc /\ idx' = idx + 1
             /\ simNodes' = Append(simNodes, [p \in 1 .. Width(mNodes[idx']) |->
                                                (simNodeIdx + p) % Word])
             /\ simNodeIdx' = (simNodeIdx + Width(mNodes[idx'])) % Word
    <2>1. PICK n : n = idx
      OBVIOUS
    <2>2. PICK t \in 0 .. 3 * n : RowsIn(simNodes, mNodes, n, t)
                                  /\ UsedIn(simNodes, mNodes, n, t)
                                  /\ simNodeIdx = (t + Word - 1) % Word
      BY <2>1, <1>2 DEF DaeNumbered, RowsUpTo
    <2>3. PICK w : w = Width(mNodes[n + 1])
      OBVIOUS
    <2>4. /\ mNodes \in Seq(NodeRec) /\ Len(mNodes) \in Nat /\ Len(nodes) \in Nat
          /\ Len(mNodes) <= Len(nodes)
      BY <1>2, LenProperties DEF NetworkOnly, TopologyInv
    <2>5. n \in Nat /\ n < Len(mNodes) /\ n + 1 \in 0 .. Len(mNodes)
      BY <2>1, <2>4, <1>2, <1>4
    <2>6. t \in Nat /\ t <= 3 * n
      BY <2>5
    <2>7. 3 * Len(nodes) < Word /\ Word \in Nat
      <3>1. PICK v \in 0 .. Word : 3 * Len(nodes) + Len(comps) * v < Word
        BY <1>2 DEF TopologyInv, FewRows
      <3>2. v \in Nat /\ Len(comps) \in Nat /\ Word \in Nat /\ Len(comps) <= Len(comps)
        BY <1>2, LenProperties, SettingAssumption DEF TopologyInv
      <3>3. Len(comps) * v \in Nat
        BY ONLY <3>2, ProductGrows
      <3> QED
        BY ONLY <3>1, <3>2, <3>3, <2>4
    <2>8. w \in {1, 3}
      BY <2>3 DEF Width
    <2>9. t + w < Word /\ t + w \in 0 .. 3 * (n + 1)
      BY ONLY <2>4, <2>5, <2>6, <2>7, <2>8
    <2>10. PICK d : d = simNodeIdx
      OBVIOUS
    <2>11. d = IF t = 0 THEN Word - 1 ELSE t - 1
      BY ONLY <2>2, <2>6, <2>7, <2>9, <2>8, <2>10
    <2>12. \A p \in 1 .. w : (d + p) % Word = t + p - 1
      BY ONLY <2>6, <2>7, <2>8, <2>9, <2>11
    <2>13. (d + w) % Word = (t + w + Word - 1) % Word
      <3>1. (d + w) % Word = t + w - 1
        BY ONLY <2>6, <2>7, <2>8, <2>9, <2>11
      <3>2. (t + w + Word - 1) % Word = t + w - 1
        BY ONLY <2>6, <2>7, <2>8, <2>9
      <3> QED
        BY ONLY <3>1, <3>2
    <2>14. idx' = n + 1
      BY <2>1, <1>4
    <2>15. simNodes' = Behind(simNodes, mNodes, n, t)
      <3>1. simNodes' = Append(simNodes, [p \in 1 .. w |-> (d + p) % Word])
        BY <2>3, <2>10, <2>14, <1>4
      <3>2. [p \in 1 .. w |-> (d + p) % Word] = [p \in 1 .. w |-> t + p - 1]
        BY ONLY <2>12
      <3> QED
        BY ONLY <3>1, <3>2, <2>3 DEF Behind
    <2>16. RowsIn(simNodes', mNodes, n + 1, t + w) /\ UsedIn(simNodes', mNodes, n + 1, t + w)
      <3>1. /\ \A k \in 1 .. n : simNodes'[k] = simNodes[k]
            /\ \A p \in 1 .. Width(mNodes[n + 1]) : simNodes'[n + 1][p] = t + p - 1
            /\ RowsIn(simNodes', mNodes, n + 1, t + w)
        BY ONLY <2>2, <2>3, <2>5, <2>6, <2>15, RowsAppended
      <3> QED
        BY ONLY <3>1, <2>2, <2>3, <2>5, <2>6, UsedAppended
    <2>17. simNodeIdx' = (t + w + Word - 1) % Word
      BY <2>3, <2>10, <2>13, <2>14, <1>4
    <2>18. DaeNumbered(idx)'
      <3>1. \E u \in 0 .. 3 * (n + 1) :
              /\ RowsIn(simNodes', mNodes, n + 1, u) /\ UsedIn(simNodes', mNodes, n + 1, u)
              /\ simNodeIdx' = (u + Word - 1) % Word
        BY ONLY <2>9, <2>16, <2>17
      <3> QED
        BY ONLY <3>1, <2>14, <1>1 DEF DaeNumbered, RowsUpTo
    <2>19. idx' \in 0 .. Len(mNodes')
      BY ONLY <2>5, <2>14, <1>1
    <2>20. DaePhaseInv'
      BY <1>1, <1>2, <1>3, <1>4, <2>18, <2>19 DEF DaePhaseInv, DaePhases
    <2>21. MnaPhaseInv' /\ pc' \notin Early
      BY <1>1, <1>4, DaePosition DEF DaePhases
    <2> QED
      BY <1>3, <2>20, <2>21 DEF SetupInv
  <1>5. CASE idx >= Len(mNodes) /\ pc' = "dae_state" /\ UNCHANGED assign
    <2>1. idx = Len(mNodes)
      BY <1>2, <1>5, LenProperties DEF NetworkOnly
    <2>2. simNodes' = simNodes /\ simNodeIdx' = simNodeIdx
      BY <1>5 DEF assign
    <2>3. DaeNumbered(Len(mNodes))'
      BY <2>1, <2>2, <1>1, <1>2 DEF DaeNumbered, RowsUpTo
    <2>4. DaePhaseInv'
      BY <1>1, <1>2, <1>3, <1>5, <2>3 DEF DaePhaseInv, DaePhases
    <2>5. MnaPhaseInv' /\ pc' \notin Early
      BY <1>5, DaePosition DEF DaePhases
    <2> QED
      BY <1>3, <2>4, <2>5 DEF SetupInv
  <1> QED
    BY <1>4, <1>5 DEF DaeNumber

(* Nodes and positions stay as they are from here on.                      *)
LEMMA DaeKept ==
  ASSUME TopologyInv, NetworkOnly, DaeNumbered(Len(mNodes)),
         UNCHANGED <<nodes, comps, mNodes, simNodes, simNodeIdx>>
  PROVE  TopologyInv' /\ NetworkOnly' /\ DaeNumbered(Len(mNodes))'
PROOF
  BY DEF TopologyInv, NetworkOnly, DaeNumbered, RowsUpTo

(* DAESolver::initialize, and the steps.                                   *)
LEMMA DaeRunStep ==
  ASSUME SetupInv, DaeState \/ DaeZero \/ \E ok \in BOOLEAN : DaeStep(ok)
  PROVE  SetupInv'
PROOF
  <1>1. /\ nodes' = nodes /\ comps' = comps /\ mDomain' = mDomain /\ mNodes' = mNodes
        /\ simNodes' = simNodes /\ simNodeIdx' = simNodeIdx
        /\ pc \in {"dae_state", "dae_zero", "dae_ready"}
    BY DEF DaeState, DaeZero, DaeStep, DaeFrame, topo, assign
  <1>2. /\ TopologyInv /\ NetworkOnly /\ DaeNumbered(Len(mNodes))
    BY <1>1 DEF SetupInv, DaePhaseInv, DaePhases
  <1>3. TopologyInv' /\ NetworkOnly' /\ DaeNumbered(Len(mNodes))'
    BY <1>1, <1>2, DaeKept
  <1>4. pc' \in {"failed", "dae_zero", "dae_ready"}
    BY DEF DaeState, DaeZero, DaeStep
  <1>5. DaePhaseInv'
    BY <1>1, <1>2, <1>3, <1>4 DEF DaePhaseInv, DaePhases
  <1>6. MnaPhaseInv' /\ pc' \notin Early
    BY <1>4, DaePosition DEF DaePhases
  <1> QED
    BY <1>3, <1>5, <1>6 DEF SetupInv

-----------------------------------------------------------------------------
(* What the numbering gives                                                *)

(* The phases of the nodes of ns.                                          *)
Phases(ns) == {kp \in (1 .. Len(ns)) \X (1 .. 3) : kp[2] <= Width(ns[kp[1]])}

(* Two phases never have the same row, and no row is beyond the last one.  *)
LEMMA RowsDiffer ==
  ASSUME NEW s, NEW ns, NEW t, Len(ns) \in Nat, RowsIn(s, ns, Len(ns), t),
         NEW kp \in Phases(ns), NEW lq \in Phases(ns)
  PROVE  /\ kp[1] \in 1 .. Len(ns) /\ kp[2] \in 1 .. Width(ns[kp[1]])
         /\ s[kp[1]][1] \in Nat /\ s[kp[1]][kp[2]] = s[kp[1]][1] + kp[2] - 1
         /\ s[kp[1]][kp[2]] \in 0 .. t - 1
         /\ s[kp[1]][kp[2]] = s[lq[1]][lq[2]] => kp = lq
PROOF
  <1>1. PICK k \in 1 .. Len(ns), p \in 1 .. 3 : kp = <<k, p>> /\ p <= Width(ns[k])
    BY DEF Phases
  <1>2. PICK l \in 1 .. Len(ns), q \in 1 .. 3 : lq = <<l, q>> /\ q <= Width(ns[l])
    BY DEF Phases
  <1>3. \A j : Width(ns[j]) \in {1, 3}
    BY DEF Width
  <1>4. /\ s \in Seq(Seq(Nat)) /\ Len(s) = Len(ns) /\ t \in Nat
        /\ \A j \in 1 .. Len(ns) :
             /\ Len(s[j]) = Width(ns[j])
             /\ \A x \in 1 .. Width(ns[j]) : s[j][x] = s[j][1] + x - 1
             /\ s[j][1] + Width(ns[j]) <= t
        /\ \A i, j \in 1 .. Len(ns) : i < j => s[i][1] + Width(ns[i]) <= s[j][1]
    BY DEF RowsIn
  <1>5. ASSUME NEW j \in 1 .. Len(ns) PROVE s[j][1] \in Nat
    <2>1. s[j] \in Seq(Nat)
      BY <1>4, ElementOfSeq
    <2>2. PICK y : y = Len(s[j])
      OBVIOUS
    <2>3. y \in {1, 3}
      BY <2>2, <1>3, <1>4
    <2>4. 1 \in 1 .. y
      BY ONLY <2>3
    <2> QED
      BY ONLY <2>1, <2>2, <2>4, ElementOfSeq
  <1>6. PICK a, b, c, d : a = s[k][1] /\ b = s[l][1] /\ c = Width(ns[k]) /\ d = Width(ns[l])
    OBVIOUS
  <1>7. /\ a \in Nat /\ b \in Nat /\ c \in {1, 3} /\ d \in {1, 3}
        /\ a + c <= t
        /\ k < l => a + c <= b
        /\ l < k => b + d <= a
    BY <1>3, <1>4, <1>5, <1>6
  <1>8. p \in 1 .. c /\ q \in 1 .. d
    BY <1>1, <1>2, <1>6, <1>7
  <1>9. s[k][p] = a + p - 1 /\ s[l][q] = b + q - 1
    BY <1>4, <1>6, <1>8
  <1>10. a + p - 1 \in 0 .. t - 1
    BY ONLY <1>4, <1>7, <1>8
  <1>11. a + p - 1 = b + q - 1 => k = l
    BY ONLY <1>7, <1>8, k \in 1 .. Len(ns), l \in 1 .. Len(ns), Len(ns) \in Nat
  <1>12. a + p - 1 = b + q - 1 => k = l /\ p = q
    <2> SUFFICES ASSUME a + p - 1 = b + q - 1 PROVE k = l /\ p = q
      OBVIOUS
    <2>1. k = l
      BY <1>11
    <2>2. a = b
      BY <2>1, <1>6
    <2> QED
      BY <2>1, <2>2, <1>7, <1>8
  <1>13. kp[1] = k /\ kp[2] = p /\ lq[1] = l /\ lq[2] = q
    BY <1>1, <1>2
  <1>14. s[k][p] = s[l][q] => kp = lq
    BY <1>1, <1>2, <1>9, <1>12
  <1> QED
    BY <1>5, <1>6, <1>7, <1>8, <1>9, <1>10, <1>13, <1>14

(* Rows without gap that are used once are a partition.                    *)
LEMMA RowsPartition ==
  ASSUME NEW s, NEW ns, NEW t, Len(ns) \in Nat, RowsIn(s, ns, Len(ns), t),
         UsedIn(s, ns, Len(ns), t)
  PROVE  /\ \A r \in 0 .. t - 1 :
              Cardinality({kp \in Phases(ns) : s[kp[1]][kp[2]] = r}) = 1
         /\ Cardinality(Phases(ns)) = t
PROOF
  <1>1. t \in Nat
    BY DEF RowsIn
  <1>2. \A r \in 0 .. t - 1 : \E kp \in Phases(ns) : s[kp[1]][kp[2]] = r
    <2> SUFFICES ASSUME NEW r \in 0 .. t - 1 PROVE \E kp \in Phases(ns) : s[kp[1]][kp[2]] = r
      OBVIOUS
    <2>1. PICK k \in 1 .. Len(ns) : \E p \in 1 .. Width(ns[k]) : s[k][p] = r
      BY DEF UsedIn
    <2>2. PICK p \in 1 .. Width(ns[k]) : s[k][p] = r
      BY <2>1
    <2>3. Width(ns[k]) \in {1, 3}
      BY DEF Width
    <2>4. p \in 1 .. 3 /\ p <= Width(ns[k])
      BY ONLY <2>3, p \in 1 .. Width(ns[k])
    <2>5. <<k, p>> \in Phases(ns)
      BY <2>4 DEF Phases
    <2> QED
      BY <2>2, <2>5
  <1> DEFINE f == [kp \in Phases(ns) |-> s[kp[1]][kp[2]]]
  <1>3. \A kp \in Phases(ns) : f[kp] = s[kp[1]][kp[2]] /\ f[kp] \in 0 .. t - 1
    BY RowsDiffer
  <1>4. \A kp, lq \in Phases(ns) : f[kp] = f[lq] => kp = lq
    BY RowsDiffer
  <1>5. f \in [Phases(ns) -> 0 .. t - 1]
    BY <1>3
  <1>6. \A r \in 0 .. t - 1 : \E kp \in Phases(ns) : f[kp] = r
    BY <1>2, <1>3
  <1>7. ASSUME NEW r \in 0 .. t - 1
        PROVE  Cardinality({kp \in Phases(ns) : s[kp[1]][kp[2]] = r}) = 1
    <2>1. PICK lq \in Phases(ns) : f[lq] = r
      BY <1>6
    <2> HIDE DEF f
    <2>2. {kp \in Phases(ns) : s[kp[1]][kp[2]] = r} = {lq}
      BY <2>1, <1>3, <1>4
    <2> QED
      BY <2>2, FS_Singleton
  <1> HIDE DEF f
  <1>8. f \in Injection(Phases(ns), 0 .. t - 1)
    BY <1>4, <1>5 DEF Injection, IsInjective
  <1>9. f \in Surjection(Phases(ns), 0 .. t - 1)
    BY <1>5, <1>6 DEF Surjection
  <1>10. IsFiniteSet(0 .. t - 1) /\ Cardinality(0 .. t - 1) = t
    <2>1. 0 \in Int /\ t - 1 \in Int
      BY <1>1
    <2>2. /\ IsFiniteSet(0 .. t - 1)
          /\ Cardinality(0 .. t - 1) = IF 0 > t - 1 THEN 0 ELSE (t - 1) - 0 + 1
      BY ONLY <2>1, FS_Interval
    <2> QED
      BY <2>2, <1>1
  <1>11. Cardinality(Phases(ns)) = Cardinality(0 .. t - 1)
    BY ONLY <1>8, <1>9, <1>10, FS_Injection
  <1> QED
    BY <1>7, <1>10, <1>11

(* What MnaSolver::initialize leaves behind.                               *)
LEMMA ReadyIsAssigned ==
  ASSUME MnaReady
  PROVE  RowsAreAPartition /\ NetworkRowsFirst /\ VirtualNodesOwned
PROOF
  <1>1. /\ VirtualNodesOwned /\ mNodes \in Seq(NodeRec) /\ Len(mNodes) \in Nat
        /\ mNumNetNodes \in 0 .. Len(mNodes)
        /\ \A k \in 1 .. Len(mNodes) : mNodes[k].owner = 0 <=> k <= mNumNetNodes
    BY LenProperties DEF MnaReady, Prepared, NetworkFirst
  <1>2. PICK s, ns, t, N, m : /\ s = simNodes /\ ns = mNodes /\ t = mNumSimNodes
                              /\ N = mNumNetNodes /\ m = mNumNetSimNodes
    OBVIOUS
  <1>3. RowsIn(s, ns, Len(ns), t) /\ UsedIn(s, ns, Len(ns), t)
    BY <1>2 DEF MnaReady, Assigned, RowsUpTo, RowsUsed
  <1>4. NodePhases = Phases(ns)
    BY <1>2 DEF NodePhases, Phases
  <1>5. Len(ns) \in Nat
    BY <1>1, <1>2
  <1>6. RowsAreAPartition
    <2>1. \A k \in 1 .. Len(ns) : Len(s[k]) = Width(ns[k])
      BY <1>3 DEF RowsIn
    <2>2. /\ \A r \in 0 .. t - 1 :
               Cardinality({kp \in Phases(ns) : s[kp[1]][kp[2]] = r}) = 1
          /\ Cardinality(Phases(ns)) = t
      BY <1>3, <1>5, RowsPartition
    <2> QED
      BY <2>1, <2>2, <1>2, <1>4 DEF RowsAreAPartition, Width
  <1>7. NetworkRowsFirst
    <2> SUFFICES ASSUME NEW kp \in Phases(ns)
                 PROVE  s[kp[1]][kp[2]] < m <=> ns[kp[1]].owner = 0
      BY <1>2, <1>4 DEF NetworkRowsFirst
    <2>1. /\ kp[1] \in 1 .. Len(ns) /\ kp[2] \in 1 .. Width(ns[kp[1]])
          /\ s[kp[1]][1] \in Nat /\ s[kp[1]][kp[2]] = s[kp[1]][1] + kp[2] - 1
      BY <1>3, <1>5, RowsDiffer
    <2>2. PICK k, p, a, w : /\ k = kp[1] /\ p = kp[2] /\ a = s[k][1] /\ w = Width(ns[k])
      OBVIOUS
    <2>3. w \in {1, 3}
      BY <2>2 DEF Width
    <2>4. k \in 1 .. Len(ns) /\ p \in 1 .. w /\ a \in Nat /\ s[k][p] = a + p - 1
      BY <2>1, <2>2
    <2>5. /\ m \in Nat /\ N \in Nat
          /\ IF k <= N THEN a + w <= m ELSE a >= m
      <3>1. /\ m \in 0 .. simNodeIdx /\ Len(ns) >= N /\ simNodeIdx = t
            /\ Len(ns) >= N => \A j \in 1 .. Len(ns) :
                 IF j <= N THEN s[j][1] + W(j) <= m ELSE s[j][1] >= m
        BY <1>1, <1>2 DEF MnaReady, Assigned, NetworkRows
      <3>2. t \in Nat
        BY <1>3 DEF RowsIn
      <3> QED
        BY <3>1, <3>2, <2>2, <2>4, <1>1, <1>2 DEF W
    <2>6. ns[k].owner = 0 <=> k <= N
      BY <2>4, <1>1, <1>2
    <2>7. a + p - 1 < m <=> k <= N
      BY ONLY <2>3, <2>4, <2>5, <1>5
    <2> QED
      BY <2>2, <2>4, <2>6, <2>7
  <1> QED
    BY <1>1, <1>6, <1>7

-----------------------------------------------------------------------------
(* The theorems                                                            *)

(* There is no solver before the arguments have been read.                 *)
LaunchInv == pc # "none" => status = "running"

SetupIndInv == SetupInv /\ LaunchInv

(* Every step keeps the invariant.                                         *)
LEMMA SetupNext ==
  ASSUME SetupIndInv, [Next]_vars
  PROVE  SetupIndInv'
PROOF
  <1>1. SetupInv /\ LaunchInv
    BY DEF SetupIndInv
  <1>2. CASE Parse /\ UNCHANGED <<mnaVars, daeVars>>
    <2>1. SetupInv'
      BY <1>1, <1>2, SetupFrame
    <2>2. status = "parse"
      BY <1>2 DEF Parse, EndOfArgs, NonOption, DashDash, LongOption, ShortOption, Start, Scanning
    <2>3. pc' = pc
      BY <1>2 DEF mnaVars
    <2> QED
      BY <1>1, <2>1, <2>2, <2>3 DEF SetupIndInv, LaunchInv
  <1>3. ASSUME NEW d, NEW ty, Choose(d, ty), status \in {"launch", "python"},
               status' = "running"
        PROVE  SetupIndInv'
    <2>1. pc = "none"
      BY <1>1, <1>3 DEF LaunchInv
    <2>2. pc' \in {"make_mna", "make_dae"}
      BY <1>3 DEF Choose
    <2>3. UNCHANGED <<nodes, comps, mNodes, mPowerComponents, virt, assign, mNumNetSimNodes>>
      BY <1>3 DEF Choose, lists
    <2>4. SetupInv'
      BY <1>1, <2>1, <2>2, <2>3, EarlyStep DEF Early
    <2> QED
      BY <1>3, <2>4 DEF SetupIndInv, LaunchInv
  <1>4. CASE Launch
    BY <1>3, <1>4 DEF Launch, daeVars
  <1>5. ASSUME NEW s \in 0 .. 2, NEW t \in 0 .. 2, PyInit(s, t) PROVE SetupIndInv'
    <2>1. CASE status' = "raised" /\ UNCHANGED mnaVars
      <3>1. UNCHANGED <<mnaVars, daeVars>> /\ pc' = pc /\ status = "python"
        BY <1>5, <2>1 DEF PyInit, mnaVars
      <3>2. SetupInv'
        BY <1>1, <3>1, SetupFrame
      <3> QED
        BY <1>1, <3>1, <3>2 DEF SetupIndInv, LaunchInv
    <2>2. CASE /\ status' = "running"
               /\ Choose(IF s = 0 THEN "DP" ELSE "EMT", IF t = 0 THEN "MNA" ELSE "DAE")
      <3>1. status = "python"
        BY <1>5 DEF PyInit, daeVars
      <3> QED
        BY <1>3, <2>2, <3>1
    <2> QED
      BY <1>5, <2>1, <2>2 DEF PyInit
  <1>6. CASE Construct
    <2>1. status' = status
      BY <1>6 DEF Construct, cmdVars, daeVars
    <2>2. SetupInv' /\ pc # "none"
      <3>1. CASE Make("make_mna", "identify")
        BY <1>1, <2>1, <3>1, MakeStep DEF Early, Make
      <3>2. CASE Make("make_dae", "dae")
        BY <1>1, <2>1, <3>2, MakeStep DEF Early, Make
      <3> QED
        BY <1>6, <3>1, <3>2 DEF Construct
    <2> QED
      BY <1>1, <2>1, <2>2 DEF SetupIndInv, LaunchInv
  <1>7. CASE Initialize /\ UNCHANGED <<cmdVars, daeVars>>
    <2>1. SetupInv'
      BY <1>1, <1>7, InitializeStep
    <2>2. status' = status /\ pc # "none"
      BY <1>7 DEF cmdVars, Initialize, Identify, NodeLoop, CompLoop, VirtualBegin, VirtualLoop,
         VirtualEnd, AssignLoop, AssignEnd, SortExecutionPriority, CreateEmpty, SteadyBegin,
         SteadyLoop
    <2> QED
      BY <1>1, <2>1, <2>2 DEF SetupIndInv, LaunchInv
  <1>8. CASE Dae
    <2>1. SetupInv'
      BY <1>1, <1>8, DaeConstructStep, DaeNodesStep, DaeNumberStep, DaeRunStep DEF Dae
    <2>2. status' = status /\ pc # "none"
      BY <1>8 DEF Dae, DaeConstruct, DaeNodes, DaeNumber, DaeState, DaeZero, DaeStep, DaeFrame,
         cmdVars
    <2> QED
      BY <1>1, <2>1, <2>2 DEF SetupIndInv, LaunchInv
  <1>9. CASE UNCHANGED vars
    <2>1. UNCHANGED <<mnaVars, daeVars>> /\ pc' = pc /\ status' = status
      BY <1>9 DEF vars, mnaVars, cmdVars
    <2>2. SetupInv'
      BY <1>1, <2>1, SetupFrame
    <2> QED
      BY <1>1, <2>1, <2>2 DEF SetupIndInv, LaunchInv
  <1> QED
    BY <1>2, <1>4, <1>5, <1>6, <1>7, <1>8, <1>9 DEF Next

(* The invariant of the set-up holds in every topology.                    *)
THEOREM SetupAlways == Spec => []SetupIndInv
PROOF
  <1>1. Init => SetupIndInv
    BY SetupInit DEF SetupIndInv, LaunchInv, Init, MnaInit
  <1>2. SetupIndInv /\ [Next]_vars => SetupIndInv'
    BY SetupNext
  <1> QED
    BY <1>1, <1>2, PTL DEF Spec

(* createVirtualNodes and assignSimNodes: in every topology with fewer     *)
(* rows than a UInt can count, each row is one phase of one node, the rows *)
(* of the network come first, and every component has the virtual nodes it *)
(* asked for, although both counters start from an unsigned -1 when there  *)
(* is no network node.                                                     *)
THEOREM RowsAssignedAlways == Spec => []RowsAssigned
PROOF
  <1>1. SetupIndInv => RowsAssigned
    BY ReadyIsAssigned DEF SetupIndInv, SetupInv, MnaPhaseInv, RowsAssigned
  <1> QED
    BY <1>1, SetupAlways, PTL

(* steadyStateInitialization subtracts vectors of different sizes only in  *)
(* a topology with a three-phase node.                                     *)
THEOREM DifferenceDefinedAlways == Spec => []DifferenceDefined
PROOF
  <1>1. SetupIndInv => DifferenceDefined
    BY DEF SetupIndInv, SetupInv, MnaPhaseInv
  <1> QED
    BY <1>1, SetupAlways, PTL

(* DAESolver numbers the phases of all nodes from 0 on, in every topology, *)
(* without a gap and without using a position twice.                       *)
THEOREM DaePositionsAlways == Spec => []DaePositions
PROOF
  <1>1. ASSUME SetupIndInv PROVE DaePositions
    <2> SUFFICES ASSUME pc = "dae_ready" PROVE DaePositions
      BY DEF DaePositions
    <2>1. NetworkOnly /\ DaeNumbered(Len(mNodes))
      BY <1>1 DEF SetupIndInv, SetupInv, DaePhaseInv, DaePhases
    <2>2. PICK t : /\ RowsIn(simNodes, mNodes, Len(mNodes), t)
                   /\ UsedIn(simNodes, mNodes, Len(mNodes), t)
      BY <2>1 DEF DaeNumbered, RowsUpTo
    <2>3. NodePhases = Phases(mNodes) /\ Len(mNodes) \in Nat
      BY <2>1, LenProperties DEF NodePhases, Phases, NetworkOnly
    <2>4. /\ \A r \in 0 .. t - 1 :
               Cardinality({kp \in Phases(mNodes) : simNodes[kp[1]][kp[2]] = r}) = 1
          /\ Cardinality(Phases(mNodes)) = t
      BY ONLY <2>2, <2>3, RowsPartition
    <2> QED
      BY ONLY <2>3, <2>4 DEF DaePositions
  <1> QED
    BY <1>1, SetupAlways, PTL

=============================================================================
