------------------------------ MODULE MCSolver ------------------------------
(* The solver for TLC: it is set up (SolverSetup), or it runs a network     *)
(* with switches (SwitchedSolver).  The two have no state in common; one of *)
(* them is chosen and the other stays in an initial state.                  *)
(*                                                                          *)
(* All command lines of up to four entries of thirteen kinds, of three      *)
(* entries of four more and of five and six entries of four kinds; all      *)
(* topologies of up to two nodes of five kinds and two components of seven  *)
(* kinds.                                                                   *)
EXTENDS SolverSetup, SwitchedSolver

Upto(n, S) == UNION {[1 .. k -> S] : k \in 0 .. n}

Plain(x) == [kind |-> "plain", text |-> x]
Short(cs) == [kind |-> "short", chars |-> cs, text |-> "-"]
Long(ms, x) == [kind |-> "long", matches |-> ms, eq |-> x, text |-> "--"]
End == [kind |-> "end", text |-> "--"]

Entries == {Plain("1"), Plain("EMT"), Plain("k=1"), End,
            Short(<<"S">>), Short(<<"b", "t">>), Short(<<"d", "1">>), Short(<<"o">>),
            Long({"D"}, NoArg), Long({"D"}, "EMT"), Long({"S", "a", "i"}, NoArg),
            Long({"b"}, "1"), Short(<<"S", "h">>)}
FewEntries == {Plain("1"), Plain("2"), Short(<<"S">>), Short(<<"t">>)}
StartEntries == {Plain("1"), Short(<<"a", "date">>), Short(<<"i", "1">>), Long({"a"}, "date")}
MCArgLists == Upto(4, Entries) \union [1 .. 3 -> StartEntries] \union UNION {[1 .. k -> FewEntries] : k \in 5 .. 6}
MCPair == [x \in {"k=1", "k=EMT"} |-> IF x = "k=1" THEN <<"k", "1">> ELSE <<"k", "EMT">>]

Nodes == {[ground |-> TRUE, abc |-> FALSE, domain |-> "DP"],
          [ground |-> FALSE, abc |-> FALSE, domain |-> "DP"],
          [ground |-> FALSE, abc |-> TRUE, domain |-> "DP"],
          [ground |-> FALSE, abc |-> FALSE, domain |-> "EMT"],
          [ground |-> FALSE, abc |-> TRUE, domain |-> "EMT"]}

Comp(mna, power, v, sw, signal, p, dae) ==
  [mna |-> mna, power |-> power, virt |-> v, sw |-> sw, signal |-> signal, prio |-> p, dae |-> dae]

MCNodeLists == Upto(2, Nodes)
MCCompLists ==
  Upto(2, {Comp(TRUE, "EMT", 0, FALSE, FALSE, 0, TRUE),
           Comp(TRUE, "EMT", 1, FALSE, FALSE, 0, TRUE),
           Comp(TRUE, "DP", 1, FALSE, FALSE, 0, FALSE),
           Comp(TRUE, "DP", 2, FALSE, FALSE, 0, FALSE),
           Comp(FALSE, "none", 0, FALSE, TRUE, 1, TRUE),
           Comp(FALSE, "none", 0, FALSE, TRUE, 2, FALSE),
           Comp(FALSE, "none", 0, TRUE, FALSE, 0, FALSE)})

VARIABLE part

SolverVars == <<part, vars, switchVars>>

SolverInit ==
  /\ part \in {"setup", "switching"}
  /\ Init /\ SwitchInit
  /\ part = "switching" => status = "python"

SetupPart     == part = "setup" /\ Next /\ UNCHANGED <<part, switchVars>>
SwitchingPart == part = "switching" /\ SwitchNext /\ UNCHANGED <<part, vars>>

(* A program may end, or its solver be ready.                               *)
SetUp == part = "setup" /\ UNCHANGED SolverVars

SolverNext == SetupPart \/ SwitchingPart \/ SetUp

SolverSpec == SolverInit /\ [][SolverNext]_SolverVars
=============================================================================
