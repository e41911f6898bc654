-------------------------- MODULE AttributeBindings --------------------------
(***************************************************************************)
(* What a Python script binds attributes of components and nodes to, and   *)
(* what a time step then does with the bindings:                           *)
(*   - Interface.export_attribute and import_attribute                     *)
(*     (Source/Python/Interface.cpp) register closures that fill and read  *)
(*     the samples of a shared memory interface (Source/Interface.cpp);    *)
(*   - Logger.log_attribute (Source/Python/Logger.cpp) adds columns to a   *)
(*     CSV file (Source/DataLogger.cpp), the solver writes its own;        *)
(*   - a Component's attributes are read and set from the script, and the  *)
(*     component is connected to nodes (Source/Python/Component.cpp).      *)
(*                                                                         *)
(* The script calls while the simulation is stopped or paused, as the      *)
(* class documentation of Component demands; PySimulation models how it    *)
(* gets there.  The queues that carry the samples are CoSimulation's.      *)
(* The attribute classes belong to the component library, which is not in  *)
(* the repository: an attribute has a type, and a value that is known by   *)
(* what wrote it last.                                                     *)
(***************************************************************************)
EXTENDS Naturals, SequencesExt

CONSTANTS
  Objects,     \* the Python objects a script passes around
  Kind,        \* Kind[o]: "component", "node", "blank" (Component()), "other"
  Domain,      \* Domain[o]: "EMT" or "DP"
  Name,        \* Name[o]: nothing makes names unique
  AttrNames,   \* names of attributes
  Type,        \* Type[o][a]: [elem, matrix, rows, cols, writable]; elem "none"
  Solved,      \* the attributes <<o, a>> a solver step writes
  Indices,     \* idx arguments a script passes
  Modes,       \* mode arguments a script passes
  Terminals,   \* the node lists a script passes to connect
  Capacity,    \* values a sample has room for
  Lengths,     \* lengths of the samples the peer sends
  Files,       \* log set-ups: [open, phasor, rows]
  MaxCalls,    \* bound: calls of the script
  MaxSteps,    \* bound: time steps
  None         \* no description, header or row

ASSUME ObjectAssumption ==
  /\ Kind \in [Objects -> {"component", "node", "blank", "other"}]
  /\ Domain \in [Objects -> {"EMT", "DP"}]
ASSUME SampleAssumption ==
  /\ Capacity \in Nat /\ Lengths \subseteq 0..Capacity
  /\ Indices \subseteq Nat
ASSUME FileAssumption ==
  Files \subseteq [open : BOOLEAN, phasor : BOOLEAN, rows : Nat]
ASSUME BoundAssumption == MaxCalls \in Nat /\ MaxSteps \in Nat

VARIABLES
  pc,          \* "client", or where the simulation thread is
  calls,       \* calls made by the script
  steps,       \* mTimeStepCount
  started,     \* run() has synchronised with the peer
  exports,     \* mExports: closures as [src, part, idx], in order
  pyExports,   \* the descriptions shown to the script, from index 0
  imports,     \* mImports
  received,    \* number of the sample applied in this step; 0: none
  value,       \* what wrote each attribute last
  sent,        \* the sample written last: its data from index 0
  mLastSample, \* copy of the last sample that was completed
  terminals,   \* nodes each component is connected to
  file,        \* the set-up of the log files
  mAttributes, \* DataLogger: column name -> source
  header,      \* its header line, a set of names; None: not written
  row,         \* its last row: name -> <<source, value>>
  late,        \* names first registered after the first row
  nodeHeader,  \* header of the solver's log, in order
  nodeRow      \* its last row: the entries of the vector, in order

binding == <<exports, pyExports, imports, terminals, mAttributes, late>>
logs    == <<header, row, nodeHeader, nodeRow>>
vars == <<pc, calls, steps, started, received, value, sent, mLastSample,
          file, binding, logs>>

Attributes == Objects \X AttrNames
Known(o)   == Kind[o] \in {"component", "node"}

Init ==
  /\ pc = "client" /\ calls = 0 /\ steps = 0 /\ started = FALSE
  /\ exports = <<>> /\ pyExports = <<>> /\ imports = <<>> /\ received = 0
  /\ value = [x \in Attributes |-> <<"initial", 0, 0>>]
  /\ sent = <<>> /\ mLastSample = <<>>
  /\ terminals = [o \in Objects |-> <<>>]
  /\ file \in Files
  /\ mAttributes = <<>> /\ header = None /\ row = None /\ late = {}
  /\ nodeHeader = <<>> /\ nodeRow = <<>>

-----------------------------------------------------------------------------
(* Calls of the script.  Outcome of a call: done, an exception, or a null   *)
(* pointer dereferenced because Component() holds no component.            *)
Call   == pc = "client" /\ calls < MaxCalls /\ calls' = calls + 1
Frame  == UNCHANGED <<steps, started, received, sent, mLastSample, file, logs>>
Done   == UNCHANGED pc
Raise  == UNCHANGED <<pc, value, binding>>
Crash  == pc' = "crashed" /\ UNCHANGED <<value, binding>>

HasType(o, a, elem, matrix) == Type[o][a].elem = elem /\ Type[o][a].matrix = matrix

(* attribute<T>, attributeComplex and attributeMatrix<T> throw             *)
(* InvalidAttributeException unless the attribute has that type.           *)
ExportType(o, a, mode) ==
  \/ mode = 0       /\ HasType(o, a, "real", FALSE)
  \/ mode \in 1..6  /\ HasType(o, a, "complex", FALSE)
  \/ mode = 7       /\ HasType(o, a, "real", TRUE)
  \/ mode \in 8..9  /\ HasType(o, a, "complex", TRUE)

(* The derived attributes a mode binds, at idx and, for two, at idx + 1.   *)
Parts(mode) ==
  CASE mode \in {2, 9} -> <<"mag", "phase">>
    [] mode = 3 -> <<"real">>
    [] mode = 4 -> <<"imag">>
    [] mode = 5 -> <<"phase">>
    [] mode = 6 -> <<"mag">>
    [] OTHER    -> <<"whole">>

Bindings(o, a, idx, mode) ==
  [i \in DOMAIN Parts(mode) |-> [src |-> <<o, a>>, part |-> Parts(mode)[i],
                                 idx |-> idx + i - 1]]

Description(b) == [src |-> b.src, part |-> b.part]

(* Mutant of AddExportDesc: the description is appended.                   *)
AddExportDescAppended(list, b) == Append(list, Description(b))

(* addExportDesc: the list is padded with empty dictionaries up to idx.    *)
AddExportDesc(list, b) ==
  [i \in 1..(IF Len(list) > b.idx THEN Len(list) ELSE b.idx + 1) |->
     IF i = b.idx + 1 THEN Description(b)
     ELSE IF i <= Len(list) THEN list[i] ELSE None]

(* A call describes one export, or two in turn.                            *)
Described(list, bs) ==
  IF Len(bs) = 1 THEN AddExportDesc(list, bs[1])
  ELSE AddExportDesc(AddExportDesc(list, bs[1]), bs[2])

ExportAttribute(o, a, idx, mode) ==
  /\ Call /\ Frame
  /\ \/ Kind[o] = "blank" /\ Crash
     \/ Kind[o] = "other" /\ Raise
     \/ Known(o) /\ ~ExportType(o, a, mode) /\ Raise
     \/ /\ Known(o) /\ ExportType(o, a, mode) /\ Done
        /\ LET bs == Bindings(o, a, idx, mode)
           IN  /\ exports' = exports \o bs
               /\ pyExports' = Described(pyExports, bs)
        /\ UNCHANGED <<value, imports, terminals, mAttributes, late>>

ImportType(o, a, mode) ==
  \/ mode = 0      /\ HasType(o, a, "real", FALSE)
  \/ mode \in 2..6 /\ HasType(o, a, "complex", FALSE)

(* addImport parses mode with a format that does not match its type, and   *)
(* without keywords it stays uninitialised: the call may fail while the    *)
(* arguments are parsed, and otherwise any mode may be in effect.          *)
ImportAttribute(o, a, idx) ==
  /\ Call /\ Frame
  /\ \/ Raise
     \/ Kind[o] = "blank" /\ Crash
     \/ /\ Known(o) /\ Done
        /\ \E mode \in Modes :
             /\ ImportType(o, a, mode)
             /\ imports' = imports \o Bindings(o, a, idx, mode)
        /\ UNCHANGED <<value, exports, pyExports, terminals, mAttributes, late>>

(* The coefficients of a value and the suffix each gets in a column name.  *)
Coefficients(t) ==
  IF ~t.matrix \/ (t.rows = 1 /\ t.cols = 1) THEN {<<>>}
  ELSE IF t.cols = 1 THEN {<<k>> : k \in 0..(t.rows - 1)}
  ELSE (0..(t.rows - 1)) \X (0..(t.cols - 1))

(* DataLogger::addAttribute: a number is a column, a complex number two.   *)
Columns(o, a) ==
  {<<Name[o], a, c, p>> : c \in Coefficients(Type[o][a]),
     p \in IF Type[o][a].elem = "complex" THEN {"real", "imag"} ELSE {"whole"}}

Loggable(o, a) ==
  \/ HasType(o, a, "int", FALSE)
  \/ \E m \in BOOLEAN : HasType(o, a, "real", m) \/ HasType(o, a, "complex", m)

(* logAttribute; a name that is already a column is bound anew.            *)
LogAttribute(o, a) ==
  /\ Call /\ Frame
  /\ \/ Kind[o] = "blank" /\ Crash
     \/ Kind[o] = "other" /\ Raise
     \/ Known(o) /\ ~Loggable(o, a) /\ Raise
     \/ /\ Known(o) /\ Loggable(o, a) /\ Done
        /\ mAttributes' = [n \in DOMAIN mAttributes \union Columns(o, a) |->
                             IF n \in Columns(o, a) THEN <<o, a>> ELSE mAttributes[n]]
        /\ late' = IF row = None THEN late
                   ELSE late \union (Columns(o, a) \ DOMAIN mAttributes)
        /\ UNCHANGED <<value, exports, pyExports, imports, terminals>>

(* setattro; fits: the Python value converts to the attribute's type.      *)
SetAttr(o, a, fits) ==
  /\ Call /\ Frame
  /\ Kind[o] \in {"component", "blank"}
  /\ \/ /\ \/ Kind[o] = "blank"
           \/ Type[o][a].elem = "none"
           \/ ~fits
           \/ ~Type[o][a].writable
        /\ Raise
     \/ /\ Kind[o] = "component" /\ Type[o][a].elem # "none"
        /\ fits /\ Type[o][a].writable
        /\ Done
        /\ value' = [value EXCEPT ![<<o, a>>] = <<"set", calls, 0>>]
        /\ UNCHANGED binding

(* getattro reads an attribute or raises; __dir__ does not look whether    *)
(* there is a component.                                                   *)
GetAttr(o, a) ==
  /\ Call /\ Frame
  /\ \/ Kind[o] = "component" /\ Type[o][a].elem # "none" /\ Done /\ UNCHANGED <<value, binding>>
     \/ Kind[o] = "blank" /\ Raise
     \/ Kind[o] = "component" /\ Type[o][a].elem = "none" /\ Raise

Dir(o) ==
  /\ Call /\ Frame
  /\ \/ Kind[o] = "component" /\ Done /\ UNCHANGED <<value, binding>>
     \/ Kind[o] = "blank" /\ Crash

(* Node::fromPython takes nodes of the component's own domain only.        *)
FromPython(o, nodes) == \A n \in Range(nodes) : Kind[n] = "node" /\ Domain[n] = Domain[o]

Connect(o, nodes) ==
  /\ Call /\ Frame
  /\ \/ /\ Kind[o] = "blank" \/ (Kind[o] = "component" /\ ~FromPython(o, nodes))
        /\ Raise
     \/ /\ Kind[o] = "component" /\ FromPython(o, nodes)
        /\ Done
        /\ terminals' = [terminals EXCEPT ![o] = nodes]
        /\ UNCHANGED <<value, exports, pyExports, imports, mAttributes, late>>

-----------------------------------------------------------------------------
(* The simulation thread.                                                  *)
Thread(from) == pc = from /\ UNCHANGED <<calls, file, binding>>

(* run() exchanges the initial state before the first step.                *)
Run ==
  /\ Thread("client") /\ steps < MaxSteps
  /\ pc' = IF started THEN "read" ELSE "sync_write"
  /\ started' = TRUE
  /\ UNCHANGED <<steps, received, value, sent, mLastSample, logs>>

(* The import closures throw when the sample ends before their index or    *)
(* the attribute cannot be set.                                            *)
Throws(b, len) == b.idx >= len \/ ~Type[b.src[1]][b.src[2]].writable

(* The closures before the first one that throws have been applied.        *)
Applied(len) ==
  LET bad == {i \in DOMAIN imports : Throws(imports[i], len)}
  IN  IF bad = {} THEN Len(imports) ELSE Min(bad) - 1

(* Of several imports of an attribute the last one applied wins.           *)
Import(len) ==
  [x \in Attributes |->
     LET is == {i \in 1..Applied(len) : imports[i].src = x}
     IN  IF is = {} THEN value[x] ELSE <<"import", steps + 1, imports[Max(is)].idx>>]

(* Mutant of ReadValues: the exception ends the read, not the simulation.  *)
ReadValuesLenient(from, to) ==
  /\ Thread(from)
  /\ \/ pc' = to /\ received' = 0 /\ UNCHANGED value
     \/ \E len \in Lengths :
          /\ value' = Import(len) /\ received' = steps + 1 /\ pc' = to
  /\ UNCHANGED <<steps, started, sent, mLastSample, logs>>

(* readValues: nothing is there, or a sample is applied; an exception ends *)
(* the simulation, with the first closures applied.                        *)
ReadValues(from, to) ==
  /\ Thread(from)
  /\ \/ pc' = to /\ received' = 0 /\ UNCHANGED value
     \/ \E len \in Lengths :
          /\ value' = Import(len)
          /\ received' = steps + 1
          /\ pc' = IF Applied(len) = Len(imports) THEN to ELSE "terminated"
  /\ UNCHANGED <<steps, started, sent, mLastSample, logs>>

NodeNames(n) ==
  IF file.phasor
  THEN [i \in 1..n |-> IF i - 1 < n \div 2 THEN <<i - 1, "re">>
                       ELSE <<i - 1 - (n \div 2), "im">>]
  ELSE [i \in 1..n |-> <<i - 1, "value">>]

(* The solver's own log of its left vector.  A log that is not open has no *)
(* position 0: neither header nor row is written.                          *)
LogNodes ==
  IF file.open
  THEN /\ nodeHeader' = IF nodeHeader = <<>> THEN NodeNames(file.rows) ELSE nodeHeader
       /\ nodeRow' = [i \in 1..file.rows |-> i - 1]
  ELSE UNCHANGED <<nodeHeader, nodeRow>>

Solve ==
  /\ Thread("solve") /\ pc' = "write"
  /\ value' = [x \in Attributes |-> IF x \in Solved THEN <<"solve", steps + 1, 0>>
                                    ELSE value[x]]
  /\ LogNodes
  /\ UNCHANGED <<steps, started, received, sent, mLastSample, header, row>>

Fits == \A b \in Range(exports) : b.idx < Capacity

Datum(b) == [src |-> b.src, part |-> b.part, val |-> value[b.src]]

(* What the closures leave in a fresh sample: the last one for an index    *)
(* wins, an index between others keeps what the pool's memory held.        *)
Sample ==
  LET len == IF exports = <<>> THEN 0 ELSE Max({b.idx : b \in Range(exports)}) + 1
  IN  [i \in 1..len |->
         LET js == {j \in DOMAIN exports : exports[j].idx = i - 1}
         IN  IF js = {} THEN None ELSE Datum(exports[Max(js)])]

(* writeValues: a closure that throws makes it send mLastSample again.     *)
WriteValues(from, to) ==
  /\ Thread(from) /\ pc' = to
  /\ sent' = IF Fits THEN Sample ELSE mLastSample
  /\ mLastSample' = IF Fits THEN Sample ELSE mLastSample
  /\ UNCHANGED <<steps, started, received, value, logs>>

(* Mutant of Log: the header is left to the next row.                      *)
LogHeaderLate ==
  /\ Thread("log") /\ pc' = "client" /\ steps' = steps + 1
  /\ IF file.open
     THEN /\ header' = IF header = None /\ row # None THEN DOMAIN mAttributes ELSE header
          /\ row' = [n \in DOMAIN mAttributes |-> <<mAttributes[n], value[mAttributes[n]]>>]
     ELSE UNCHANGED <<header, row>>
  /\ UNCHANGED <<started, received, value, sent, mLastSample, nodeHeader, nodeRow>>

(* DataLogger::log, and the end of the step.                               *)
Log ==
  /\ Thread("log") /\ pc' = "client" /\ steps' = steps + 1
  /\ IF file.open
     THEN /\ header' = IF header = None THEN DOMAIN mAttributes ELSE header
          /\ row' = [n \in DOMAIN mAttributes |-> <<mAttributes[n], value[mAttributes[n]]>>]
     ELSE UNCHANGED <<header, row>>
  /\ UNCHANGED <<started, received, value, sent, mLastSample, nodeHeader, nodeRow>>

Script ==
  \/ \E o \in Objects, a \in AttrNames :
       \/ \E i \in Indices, m \in Modes : ExportAttribute(o, a, i, m)
       \/ \E i \in Indices : ImportAttribute(o, a, i)
       \/ LogAttribute(o, a)
       \/ GetAttr(o, a)
       \/ \E fits \in BOOLEAN : SetAttr(o, a, fits)
  \/ \E o \in Objects : Dir(o)
  \/ \E o \in Objects, ns \in Terminals : Connect(o, ns)

Step ==
  \/ Run
  \/ WriteValues("sync_write", "sync_read") \/ ReadValues("sync_read", "read")
  \/ ReadValues("read", "solve") \/ Solve \/ WriteValues("write", "log") \/ Log

Next == Script \/ Step

Spec == Init /\ [][Next]_vars

-----------------------------------------------------------------------------
(* After writeValues every index the script sees described in `exports`    *)
(* carries the described attribute with its value of this step, whatever   *)
(* the order of the export_attribute calls and however they overlap, or    *)
(* the whole sample is the one sent before (an index beyond samplelen).    *)
DescribedSlots ==
  pc = "log" =>
    \/ ~Fits
    \/ \A i \in DOMAIN pyExports :
         pyExports[i] # None =>
           sent[i] = [src |-> pyExports[i].src, part |-> pyExports[i].part,
                      val |-> value[pyExports[i].src]]

(* When readValues lets the step go on after a sample, every import has    *)
(* taken effect, the later of two imports of an attribute last: a sample   *)
(* that is too short never leaves a step running on half of its values.    *)
ImportsTakeEffect ==
  pc = "solve" /\ received > 0 =>
    \A i \in DOMAIN imports :
      \E j \in DOMAIN imports :
        /\ j >= i /\ imports[j].src = imports[i].src
        /\ value[imports[i].src] = <<"import", received, imports[j].idx>>

(* The rows of a log file keep the columns of its header: a row lacks none *)
(* of them, and one it has in addition was first registered by a           *)
(* log_attribute call made after the first row.                            *)
RowsMatchHeader ==
  /\ row # None => /\ header # None /\ header \subseteq DOMAIN row
                   /\ DOMAIN row \ header \subseteq late
  /\ Len(nodeRow) = Len(nodeHeader)

(* samplelen need only be greater than or equal to the largest index       *)
(* exported (the documentation of Interface in Python/Interface.cpp:396):  *)
(* then every step sends the values it has computed.                       *)
SampleLenSuffices ==
  pc = "log" /\ (\A b \in Range(exports) : b.idx <= Capacity) => sent = Sample
=============================================================================
