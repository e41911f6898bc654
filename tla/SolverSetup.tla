----------------------------- MODULE SolverSetup -----------------------------
(***************************************************************************)
(* From the start of a program to a solver that is ready: the command line *)
(* of a C++ program (CommandLine) or the arguments of Python's Simulation  *)
(* (Source/Python/Simulation.cpp) choose domain and solver, the            *)
(* constructor of Simulation (Source/Simulation.cpp) makes it, and         *)
(* MnaSolver (MnaTopology) or DAESolver (Source/DAESolver.cpp) prepares    *)
(* its unknowns; a DAESolver then steps.                                   *)
(*                                                                         *)
(* The vectors of DAESolver are memory of mNEQ entries; counter is the     *)
(* entry written next, so entries from mNEQ on are outside.  What a write  *)
(* outside does is not defined; the model goes on as if nothing else were  *)
(* harmed.  IDA is a library: its solve call succeeds or fails.            *)
(***************************************************************************)
EXTENDS CommandLine, MnaTopology

CONSTANT MaxSteps   \* bound: steps of a DAESolver

ASSUME StepAssumption == MaxSteps \in Nat

VARIABLES
  mNEQ,      \* number of equations: size of state and dstate_dt
  counter,   \* entries of state written so far
  residuals, \* number of mResidualFunctions
  mOffsets,  \* equations written by nodes and by components
  time,      \* time of the simulation, in steps
  tret       \* time IDA has reached

daeVars == <<mNEQ, counter, residuals, mOffsets, time, tret>>
vars == <<cmdVars, mnaVars, daeVars>>

Init ==
  /\ MnaInit
  /\ CmdInit \/ (/\ status = "python" /\ posixly = FALSE /\ args = <<>> /\ argv = <<>>
                 /\ optind = 1 /\ place = 0 /\ nonopt_start = 0 /\ nonopt_end = 0
                 /\ settings = [c \in Settings |-> NoArg]
                 /\ options = <<>> /\ positional = <<>>)
  /\ mNEQ = 0 /\ counter = 0 /\ residuals = 0 /\ mOffsets = <<0, 0>> /\ time = 0 /\ tret = 0

-----------------------------------------------------------------------------
(* Domain and solver are known; the topology is built after that.          *)
Choose(domain, type) ==
  /\ mDomain' = domain
  /\ pc' = IF type = "MNA" THEN "make_mna" ELSE "make_dae"
  /\ UNCHANGED <<nodes, comps, mNodes, lists, mNumNetNodes, mNumNodes, mNumNetSimNodes,
                 mNumSimNodes, virt, assign, steady>>

(* A C++ program hands solver.domain and solver.type of its command line   *)
(* to Simulation; the command line is not looked at again.                 *)
Launch ==
  /\ status = "launch" /\ status' = "running"
  /\ Choose(IF settings["D"] = NoArg THEN "DP" ELSE settings["D"],
            IF settings["T"] = NoArg THEN "MNA" ELSE settings["T"])
  /\ args' = <<>> /\ argv' = <<>> /\ positional' = <<>> /\ options' = <<>>
  /\ optind' = 1 /\ posixly' = FALSE /\ settings' = [c \in DOMAIN settings |-> NoArg]
  /\ UNCHANGED <<place, nonopt_start, nonopt_end, daeVars>>

(* Python's Simulation.__init__: sim_type and solver_type are 0 or 1.      *)
PyInit(s, t) ==
  /\ status = "python"
  /\ \/ /\ s \notin {0, 1} \/ t \notin {0, 1}
        /\ status' = "raised" /\ UNCHANGED mnaVars
     \/ /\ s \in {0, 1} /\ t \in {0, 1}
        /\ status' = "running"
        /\ Choose(IF s = 0 THEN "DP" ELSE "EMT", IF t = 0 THEN "MNA" ELSE "DAE")
  /\ UNCHANGED <<args, posixly, scan, result, daeVars>>

(* Simulation::Simulation makes the solver that was asked for.             *)
Construct ==
  /\ Make("make_mna", "identify") \/ Make("make_dae", "dae")
  /\ UNCHANGED <<cmdVars, daeVars>>

-----------------------------------------------------------------------------
DaeFrame == UNCHANGED <<cmdVars, topo, lists, mNumNetNodes, mNumNodes, mNumNetSimNodes,
                        mNumSimNodes, comp, virtualNode, virtual, steady>>

(* DAESolver::DAESolver, whatever the domain: every component must offer   *)
(* the DAE interface; the nodes are cast to Node<Real>, and a null node is *)
(* dereferenced when it is numbered.                                       *)
DaeConstruct ==
  /\ pc = "dae"
  /\ mNEQ' = Len(comps) + 2 * Len(nodes)
  /\ pc' = CASE \E c \in 1 .. Len(comps) : ~comps[c].dae -> "failed"
             [] (\A c \in 1 .. Len(comps) : comps[c].dae) /\ ~Castable("EMT") -> "crashed"
             [] OTHER -> "dae_nodes"
  /\ DaeFrame /\ UNCHANGED <<mNodes, node, assign, counter, residuals, mOffsets, time, tret>>

(* The loop over mSystem.mNodes; then simNodeIdx is -1 as an unsigned      *)
(* number.                                                                 *)
DaeNodes ==
  /\ pc = "dae_nodes"
  /\ \/ NodeRound /\ UNCHANGED <<pc, simNodeIdx>>
     \/ /\ node >= Len(nodes) /\ UNCHANGED <<node, mNodes>>
        /\ pc' = "dae_number" /\ simNodeIdx' = Word - 1
  /\ DaeFrame /\ UNCHANGED <<idx, simNodes, daeVars>>

(* Mutant of DaeNumber: simNodeIdx is advanced afterwards.                 *)
DaeNumberPost ==
  /\ pc = "dae_number"
  /\ \/ /\ idx < Len(mNodes)
        /\ idx' = idx + 1
        /\ LET w == Width(mNodes[idx']) IN
           /\ simNodes' = Append(simNodes, [p \in 1 .. w |-> (simNodeIdx + p - 1) % Word])
           /\ simNodeIdx' = (simNodeIdx + w) % Word
        /\ UNCHANGED pc
     \/ idx >= Len(mNodes) /\ pc' = "dae_state" /\ UNCHANGED assign
  /\ DaeFrame /\ UNCHANGED <<mNodes, node, daeVars>>

(* The numbering: simNodeIdx is advanced first.                            *)
DaeNumber ==
  /\ pc = "dae_number"
  /\ \/ /\ idx < Len(mNodes)
        /\ idx' = idx + 1
        /\ LET w == Width(mNodes[idx']) IN
           /\ simNodes' = Append(simNodes, [p \in 1 .. w |-> (simNodeIdx + p) % Word])
           /\ simNodeIdx' = (simNodeIdx + w) % Word
        /\ UNCHANGED pc
     \/ idx >= Len(mNodes) /\ pc' = "dae_state" /\ UNCHANGED assign
  /\ DaeFrame /\ UNCHANGED <<mNodes, node, daeVars>>

(* initialize: one entry of the state per node, then one per component,    *)
(* which must be a PowerComponent<Real>; each registers its residual.      *)
DaeState ==
  /\ pc = "dae_state"
  /\ IF \A c \in 1 .. Len(comps) : comps[c].power = "EMT"
     THEN /\ counter' = Len(mNodes) + Len(comps)
          /\ residuals' = Len(comps)
          /\ pc' = "dae_zero"
     ELSE pc' = "failed" /\ UNCHANGED <<counter, residuals>>
  /\ DaeFrame /\ UNCHANGED <<mNodes, node, assign, mNEQ, mOffsets, time, tret>>

(* The loop for the nodal currents goes from 1 to mNEQ - 1 but writes at   *)
(* counter++, behind the entries already written.                          *)
DaeZero ==
  /\ pc = "dae_zero"
  /\ counter' = counter + (IF mNEQ > 0 THEN mNEQ - 1 ELSE 0)
  /\ pc' = "dae_ready"
  /\ DaeFrame /\ UNCHANGED <<mNodes, node, assign, mNEQ, residuals, mOffsets, time, tret>>

(* step: IDASolve evaluates residualFunction, which resets the offsets and *)
(* writes one equation per node, then calls daeResidual of each component. *)
(* That advances mOffsets[1] in the component library, by the one equation *)
(* per component that the constructor's comment speaks of.  An error of    *)
(* IDA is reported and the time advances all the same.                     *)
DaeStep(ok) ==
  /\ pc = "dae_ready" /\ time < MaxSteps
  /\ mOffsets' = <<Len(mNodes), residuals>>
  /\ tret' = IF ok THEN time ELSE tret
  /\ time' = time + 1
  /\ DaeFrame /\ UNCHANGED <<pc, mNodes, node, assign, mNEQ, counter, residuals>>

Dae ==
  \/ DaeConstruct \/ DaeNodes \/ DaeNumber
  \/ DaeState \/ DaeZero \/ \E ok \in BOOLEAN : DaeStep(ok)

Next ==
  \/ Parse /\ UNCHANGED <<mnaVars, daeVars>>
  \/ Launch
  \/ \E s, t \in 0 .. 2 : PyInit(s, t)
  \/ Construct
  \/ Initialize /\ UNCHANGED <<cmdVars, daeVars>>
  \/ Dae

Spec == Init /\ [][Next]_vars

-----------------------------------------------------------------------------
(* DAESolver's numbering of its unknowns, from a counter that starts below *)
(* zero: the phases of all nodes have the positions from 0 on, each one of *)
(* its own, and no position is skipped.                                    *)
DaePositions ==
  pc = "dae_ready" =>
    \A r \in 0 .. Cardinality(NodePhases) - 1 :
      Cardinality({kp \in NodePhases : simNodes[kp[1]][kp[2]] = r}) = 1

(* DAESolver::initialize fills `state`, the vector of the problem's mNEQ   *)
(* variables, and writes nothing behind it.                                *)
StateWithinVector == pc = "dae_ready" => counter <= mNEQ
=============================================================================
