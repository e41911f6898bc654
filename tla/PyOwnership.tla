----------------------------- MODULE PyOwnership ----------------------------
(***************************************************************************)
(* Reference counts in the Python binding: who owns the objects that the   *)
(* functions of Source/Python create, store and release.                   *)
(*                                                                         *)
(* Every call runs under the GIL and is one step; the releases it causes   *)
(* follow one by one before the next call (todo).  An object is freed when *)
(* its count reaches 0, and its destructor releases what it owned.  What   *)
(* C++ holds through shared_ptr does not count; a raw pointer does not     *)
(* keep anything alive.  stolen and leaked record the references that the  *)
(* code releases without owning them, and those it never releases.         *)
(***************************************************************************)
EXTENDS Integers, Sequences, FiniteSets, SequencesExt

CONSTANTS
  Comps, Nodes, Topos, Loggers, Ifaces, Sims,  \* objects by their Python type
  Lists,    \* lists of filenames
  Gnd,      \* the node CPS::Node::GND
  Nobody,   \* no object
  NameOf,   \* NameOf[o]: name() of a component or node
  MaxRefs   \* bound: references a Logger or Simulation collects

Objects == Comps \union Nodes \union Topos \union Loggers \union Ifaces
             \union Sims \union Lists
Named == Comps \union Nodes

ASSUME ObjectAssumption ==
  /\ Gnd \in Nodes /\ Nobody \notin Objects
  /\ Named \subseteq DOMAIN NameOf /\ MaxRefs \in Nat
  /\ IsFiniteSet(Objects)
ASSUME TypeAssumption ==
  LET types == <<Comps, Nodes, Topos, Loggers, Ifaces, Sims, Lists>>
  IN  \A i, j \in 1 .. 7 : i # j => types[i] \intersect types[j] = {}

VARIABLES
  life,    \* "none" (not created), "live" or "freed"
  rc,      \* ob_refcnt
  user,    \* objects the client has in a variable
  dict,    \* dict[t]: values of pyComponentDict and pyNodeDict
  sys,     \* sys[t]: mNodes and mComponents of the C++ topology
  refs,    \* refs of a Simulation or a Logger
  pySys,   \* Simulation::pySys, or Nobody
  raw,     \* raw[s]: interfaces the C++ simulation has a pointer to
  gnd,     \* Py_GND is set
  todo,    \* releases that are still to be made
  undef,   \* freed memory has been used
  stolen,  \* history: references released without being owned
  leaked   \* history: references that nobody will release

mem     == <<life, rc>>
holders == <<dict, sys, refs, pySys, raw, gnd>>
ghosts  == <<stolen, leaked>>
vars == <<mem, user, holders, todo, undef, ghosts>>

Init ==
  /\ life = [o \in Objects |-> IF o \in Lists THEN "live" ELSE "none"]
  /\ rc = [o \in Objects |-> IF o \in Lists THEN 1 ELSE 0]
  /\ user = Lists
  /\ dict = [t \in Topos |-> {}] /\ sys = [t \in Topos |-> <<>>]
  /\ refs = [h \in Sims \union Loggers |-> <<>>]
  /\ pySys = [s \in Sims |-> Nobody] /\ raw = [s \in Sims |-> {}]
  /\ gnd = FALSE /\ todo = <<>> /\ undef = FALSE
  /\ stolen = [o \in Objects |-> 0] /\ leaked = [o \in Objects |-> 0]

(* The client can make a call; it passes objects it has in variables.      *)
Idle == todo = <<>> /\ ~undef
Has(o) == o \in user /\ life[o] = "live"

Plus(f, o, n) == [f EXCEPT ![o] = @ + n]

(* A new object that is handed to the client.                              *)
Create(o) ==
  /\ life[o] = "none"
  /\ life' = [life EXCEPT ![o] = "live"]
  /\ rc' = Plus(rc, o, 1)
  /\ user' = user \union {o}

(* Pseudo-constructors (createInstance).  When an attribute cannot be set  *)
(* the new wrapper is forgotten.                                           *)
NewComponent(c) ==
  /\ Idle
  /\ \/ Create(c) /\ UNCHANGED leaked
     \/ /\ life[c] = "none"
        /\ life' = [life EXCEPT ![c] = "live"]
        /\ rc' = Plus(rc, c, 1) /\ leaked' = Plus(leaked, c, 1)
        /\ UNCHANGED user
  /\ UNCHANGED <<holders, todo, undef, stolen>>

(* Node, Logger and Interface objects own nothing at first.                *)
NewNode(o) ==
  /\ Idle /\ o # Gnd
  /\ Create(o)
  /\ UNCHANGED <<holders, todo, undef, ghosts>>

NewLogger(o) ==
  /\ Idle
  /\ Create(o)
  /\ UNCHANGED <<holders, todo, undef, ghosts>>

NewInterface(o) ==
  /\ Idle
  /\ Create(o)
  /\ UNCHANGED <<holders, todo, undef, ghosts>>

(* Mutant of GetGND: the caller gets the static's own reference.           *)
GetGNDBorrowed ==
  /\ Idle /\ Gnd \notin user
  /\ gnd => life[Gnd] = "live"
  /\ life' = [life EXCEPT ![Gnd] = "live"]
  /\ rc' = Plus(rc, Gnd, IF gnd THEN 0 ELSE 1)
  /\ gnd' = TRUE /\ user' = user \union {Gnd}
  /\ UNCHANGED <<dict, sys, refs, pySys, raw, todo, undef, ghosts>>

(* Node.GND(): the static Py_GND keeps the reference it was created with.  *)
GetGND ==
  /\ Idle /\ Gnd \notin user
  /\ gnd => life[Gnd] = "live"
  /\ life' = [life EXCEPT ![Gnd] = "live"]
  /\ rc' = Plus(rc, Gnd, IF gnd THEN 1 ELSE 2)
  /\ gnd' = TRUE /\ user' = user \union {Gnd}
  /\ UNCHANGED <<dict, sys, refs, pySys, raw, todo, undef, ghosts>>

(* Components and nodes are kept in two dictionaries, by name.             *)
Key(o) == <<o \in Comps, NameOf[o]>>
Taken(t, o) == \E x \in dict[t] : Key(x) = Key(o)

(* PyDict_SetItem for one after the other, up to the first name that is    *)
(* already there.                                                          *)
Entries(s) ==
  LET distinct(n) == \A i, j \in 1 .. n : i # j => Key(s[i]) # Key(s[j])
      n == CHOOSE k \in 0 .. Len(s) : distinct(k) /\ (k < Len(s) => ~distinct(k + 1))
  IN SubSeq(s, 1, n)

Counted(f, S, n) == [o \in Objects |-> f[o] + IF o \in S THEN n ELSE 0]

(* nodesFromPython and compsFromPython: what is entered when the list bad  *)
(* has an element of a wrong type.                                         *)
Given(ns, cs, bad) ==
  CASE bad = "nodes" -> <<>> [] bad = "comps" -> ns [] OTHER -> ns \o cs

(* SystemTopology.__init__: nodes are checked and entered, then components.*)
(* On an error the interpreter releases the new object.                    *)
NewTopology(t, ns, cs, bad) ==
  LET given   == Given(ns, cs, bad)
      entered == Entries(given)
      ok      == bad = "none" /\ entered = given
  IN
  /\ Idle /\ life[t] = "none"
  /\ \A o \in ToSet(ns \o cs) : Has(o)
  /\ life' = [life EXCEPT ![t] = "live"]
  /\ rc' = Plus(Counted(rc, ToSet(entered), 1), t, 1)
  /\ dict' = [dict EXCEPT ![t] = ToSet(entered)]
  /\ IF ok
     THEN /\ sys' = [sys EXCEPT ![t] = given]
          /\ user' = user \union {t} /\ UNCHANGED todo
     ELSE todo' = <<t>> /\ UNCHANGED <<sys, user>>
  /\ UNCHANGED <<refs, pySys, raw, gnd, undef, ghosts>>

(* Mutant of Add: the name is not looked up.                               *)
AddAnyway(t, o) ==
  /\ Idle /\ Has(t) /\ Has(o)
  /\ sys' = [sys EXCEPT ![t] = Append(@, o)]
  /\ dict' = [dict EXCEPT ![t] = {x \in @ : Key(x) # Key(o)} \union {o}]
  /\ stolen' = Plus(stolen, o, 1)
  /\ UNCHANGED <<mem, user, refs, pySys, raw, gnd, todo, undef, leaked>>

(* add_component and add_node: a name that is there already is refused;    *)
(* PyDict_SetItem adds a reference, Py_DECREF(pyObj) takes one away that   *)
(* belongs to the caller.                                                  *)
Add(t, o) ==
  /\ Idle /\ Has(t) /\ Has(o)
  /\ ~Taken(t, o)
  /\ sys' = [sys EXCEPT ![t] = Append(@, o)]
  /\ dict' = [dict EXCEPT ![t] = @ \union {o}]
  /\ stolen' = Plus(stolen, o, 1)
  /\ UNCHANGED <<mem, user, refs, pySys, raw, gnd, todo, undef, leaked>>

(* load_cim releases its argument.  A list of filenames is the caller's;   *)
(* of a filename (Nobody), a bytes object, the converter has taken the     *)
(* reference that is released.                                             *)
ReleaseFilenames(f) ==
  IF f = Nobody THEN UNCHANGED <<todo, stolen>>
  ELSE Has(f) /\ todo' = <<f>> /\ stolen' = Plus(stolen, f, 1)

(* An empty list is refused after it has been released.                    *)
LoadCimEmpty(f) ==
  /\ Idle /\ ReleaseFilenames(f)
  /\ UNCHANGED <<mem, user, holders, undef, leaked>>

(* load_cim: new wrappers for what the reader found, components first,     *)
(* which, like the topology, keep the reference they were created with.    *)
LoadCim(t, f, s, valid) ==
  /\ Idle /\ ReleaseFilenames(f) /\ life[t] = "none"
  /\ \A o \in ToSet(s) : life[o] = "none"
  /\ LET S == IF valid THEN ToSet(Entries(s)) ELSE {} IN
     /\ life' = [o \in Objects |-> IF o \in S \union {t} THEN "live" ELSE life[o]]
     /\ rc' = Plus(Counted(rc, S, 2), t, IF valid /\ Entries(s) = s THEN 2 ELSE 1)
     /\ dict' = [dict EXCEPT ![t] = S]
     /\ leaked' = Plus(Counted(leaked, S, 1), t, 1)
  /\ sys' = IF valid THEN [sys EXCEPT ![t] = s] ELSE sys
  /\ user' = IF valid /\ Entries(s) = s THEN user \union {t} ELSE user
  /\ UNCHANGED <<refs, pySys, raw, gnd, undef>>

(* Logger.log_attribute                                                    *)
LogAttribute(l, o) ==
  /\ Idle /\ Has(l) /\ Has(o) /\ Len(refs[l]) < MaxRefs
  /\ refs' = [refs EXCEPT ![l] = Append(@, o)]
  /\ rc' = Plus(rc, o, 1)
  /\ UNCHANGED <<life, user, dict, sys, pySys, raw, gnd, todo, undef, ghosts>>

(* Simulation.__init__ stores its argument in pySys at once, and takes a   *)
(* reference only after all arguments have been checked; the destructor    *)
(* releases pySys in any case.                                             *)
NewSimulation(s, x, valid) ==
  /\ Idle /\ life[s] = "none" /\ Has(x)
  /\ valid => x \in Topos
  /\ life' = [life EXCEPT ![s] = "live"]
  /\ pySys' = [pySys EXCEPT ![s] = x]
  /\ IF valid
     THEN /\ rc' = Plus(Plus(rc, s, 1), x, 1)
          /\ user' = user \union {s} /\ UNCHANGED <<todo, stolen>>
     ELSE /\ rc' = Plus(rc, s, 1)
          /\ stolen' = Plus(stolen, x, 1)
          /\ todo' = <<s>> /\ UNCHANGED user
  /\ UNCHANGED <<dict, sys, refs, raw, gnd, undef, leaked>>

(* Mutant of AddInterface: the pointer alone.                              *)
AddInterfaceRaw(s, i) ==
  /\ Idle /\ Has(s) /\ Has(i) /\ Len(refs[s]) < MaxRefs
  /\ raw' = [raw EXCEPT ![s] = @ \union {i}]
  /\ UNCHANGED <<mem, user, dict, sys, refs, pySys, gnd, todo, undef, ghosts>>

(* Simulation.add_interface: the C++ simulation gets intf.get().           *)
AddInterface(s, i) ==
  /\ Idle /\ Has(s) /\ Has(i) /\ Len(refs[s]) < MaxRefs
  /\ raw' = [raw EXCEPT ![s] = @ \union {i}]
  /\ refs' = [refs EXCEPT ![s] = Append(@, i)]
  /\ rc' = Plus(rc, i, 1)
  /\ UNCHANGED <<life, user, dict, sys, pySys, gnd, todo, undef, ghosts>>

(* The client looks an object up in topology.components or .nodes.         *)
Lookup(t, o) ==
  /\ Idle /\ Has(t) /\ o \in dict[t] \ user
  /\ life[o] = "live"
  /\ rc' = Plus(rc, o, 1)
  /\ user' = user \union {o}
  /\ UNCHANGED <<life, holders, todo, undef, ghosts>>

(* The client forgets a variable.                                          *)
Forget(o) ==
  /\ Idle /\ o \in user
  /\ user' = user \ {o}
  /\ todo' = <<o>>
  /\ UNCHANGED <<mem, holders, undef, ghosts>>

(* What the dealloc functions release: Logger,                             *)
LoggerOwns(l) == refs[l]

(* Simulation,                                                             *)
SimulationOwns(s) == refs[s] \o (IF pySys[s] = Nobody THEN <<>> ELSE <<pySys[s]>>)

(* SystemTopology,                                                         *)
TopologyOwns(t) == SetToSeq(dict[t])

(* and the other types, whose refs are empty.                              *)
Owned(o) ==
  CASE o \in Topos -> TopologyOwns(o)
    [] o \in Loggers -> LoggerOwns(o)
    [] o \in Sims -> SimulationOwns(o)
    [] OTHER -> <<>>

(* Py_DECREF of an object that somebody else refers to, too.               *)
Decref ==
  /\ ~undef /\ todo # <<>>
  /\ life[Head(todo)] = "live" /\ rc[Head(todo)] > 1
  /\ rc' = Plus(rc, Head(todo), -1)
  /\ todo' = Tail(todo)
  /\ UNCHANGED <<life, user, holders, undef, ghosts>>

(* The dealloc functions of all types.                                     *)
Dealloc ==
  /\ ~undef /\ todo # <<>>
  /\ life[Head(todo)] = "live" /\ rc[Head(todo)] = 1
  /\ LET o == Head(todo) IN
     /\ life' = [life EXCEPT ![o] = "freed"]
     /\ rc' = [rc EXCEPT ![o] = 0]
     /\ todo' = Owned(o) \o Tail(todo)
     /\ dict' = IF o \in Topos THEN [dict EXCEPT ![o] = {}] ELSE dict
     /\ sys' = IF o \in Topos THEN [sys EXCEPT ![o] = <<>>] ELSE sys
     /\ refs' = IF o \in DOMAIN refs THEN [refs EXCEPT ![o] = <<>>] ELSE refs
     /\ pySys' = IF o \in Sims THEN [pySys EXCEPT ![o] = Nobody] ELSE pySys
     /\ raw' = IF o \in Sims THEN [raw EXCEPT ![o] = {}] ELSE raw
  /\ UNCHANGED <<user, gnd, undef, ghosts>>

(* A release, a look-up or a call that reaches an object already freed:    *)
(* whatever follows is undefined.                                          *)
UseFreed ==
  /\ ~undef
  /\ \/ todo # <<>> /\ life[Head(todo)] = "freed"
     \/ todo = <<>> /\ \E o \in user : life[o] = "freed"
     \/ todo = <<>> /\ gnd /\ life[Gnd] = "freed"
     \/ todo = <<>> /\ \E t \in Topos : Has(t) /\ \E o \in dict[t] : life[o] = "freed"
  /\ undef' = TRUE
  /\ UNCHANGED <<mem, user, holders, todo, ghosts>>

UpTo(n, S) == UNION {[1 .. k -> S] : k \in 0 .. n}

Call ==
  \/ \E c \in Comps : NewComponent(c)
  \/ \E o \in Nodes : NewNode(o)
  \/ \E l \in Loggers : NewLogger(l)
  \/ \E i \in Ifaces : NewInterface(i)
  \/ GetGND
  \/ \E t \in Topos, ns \in UpTo(2, Nodes), cs \in UpTo(2, Comps),
        bad \in {"none", "nodes", "comps"} : NewTopology(t, ns, cs, bad)
  \/ \E t \in Topos, o \in Named : Add(t, o) \/ Lookup(t, o)
  \/ \E f \in Lists : LoadCimEmpty(f)
  \/ \E t \in Topos, f \in Lists \union {Nobody}, cs \in UpTo(2, Comps),
        ns \in UpTo(1, Nodes \ {Gnd}), valid \in BOOLEAN : LoadCim(t, f, cs \o ns, valid)
  \/ \E l \in Loggers, o \in Named : LogAttribute(l, o)
  \/ \E s \in Sims, x \in Objects, valid \in BOOLEAN : NewSimulation(s, x, valid)
  \/ \E s \in Sims, i \in Ifaces : AddInterface(s, i)
  \/ \E o \in user : Forget(o)

Release == Decref \/ Dealloc

Next == Call \/ Release \/ UseFreed \/ (undef /\ UNCHANGED vars)

Spec == Init /\ [][Next]_vars

-----------------------------------------------------------------------------
Occurrences(s, o) == Cardinality({i \in DOMAIN s : s[i] = o})

(* The references to o that somebody relies on.                            *)
Owners(o) ==
  Cardinality({t \in Topos : o \in dict[t]})
    + Cardinality({r \in (Sims \union Loggers) \X (1 .. MaxRefs) :
                     r[2] \in DOMAIN refs[r[1]] /\ refs[r[1]][r[2]] = o})
    + Cardinality({s \in Sims : pySys[s] = o})
    + Occurrences(todo, o)
    + (IF o \in user THEN 1 ELSE 0) + (IF gnd /\ o = Gnd THEN 1 ELSE 0)

(* Reference counts add up through constructors, failing constructors,     *)
(* look-ups and nested destructors: each count is the number of references *)
(* somebody relies on, but for the ones that add_component, add_node,      *)
(* load_cim and a refused Simulation release without owning them, and the  *)
(* ones that load_cim and a failing pseudo-constructor never release.      *)
RefsAccounted ==
  ~undef => \A o \in Objects :
    life[o] = "live" => rc[o] + stolen[o] = Owners(o) + leaked[o]

(* Freed memory is used only after one of those calls: nothing else makes  *)
(* a dictionary, a variable or Py_GND refer to a freed object.             *)
OnlyStolenDangle ==
  \A o \in Objects : life[o] = "freed" /\ Owners(o) > 0 => stolen[o] > 0

(* The interfaces the C++ simulation has raw pointers to are alive as long *)
(* as the simulation is, also when the client forgets them.                *)
RawPointersValid ==
  \A s \in Sims : \A i \in raw[s] : life[i] = "live" \/ stolen[i] > 0

(* The dictionaries that Python shows are those of the C++ topology: every *)
(* component and node once, no two of them with one name.                  *)
DictMatchesSystem ==
  \A t \in Topos : t \in user =>
    /\ ToSet(sys[t]) = dict[t]
    /\ \A x, y \in dict[t] : Key(x) = Key(y) => x = y
    /\ IsInjective(sys[t])

(* What nobody refers to any more has been freed when a call returns, and  *)
(* with it what it owned, unless a reference leaked.                       *)
Reclaimed ==
  Idle => \A o \in Objects : life[o] = "live" /\ Owners(o) = 0 => leaked[o] > 0

(* The counts of all Python objects are exact: neither too low nor too high. *)
CountsExact == RefsAccounted /\ Reclaimed

(* No reference and no raw pointer to a freed object, but for those calls.   *)
NothingDangles == OnlyStolenDangle /\ RawPointersValid
=============================================================================
