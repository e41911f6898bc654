----------------------- MODULE AttributeBindingsProofs -----------------------
(***************************************************************************)
(* Proofs about AttributeBindings: what a sample and a log row carry, for  *)
(* any objects, attributes, indices, sample lengths and number of calls.   *)
(*                                                                         *)
(* BindingInv has a part for each list that calls of the script build and  *)
(* the simulation thread reads later: the exports with their descriptions, *)
(* the imports, and the columns of the logger.                             *)
(***************************************************************************)
EXTENDS AttributeBindings, TLAPS, SequenceTheorems, NaturalsInduction, WellFoundedInduction

(* The closures: a derived attribute and an index of the sample.           *)
PartNames  == {"whole", "mag", "phase", "real", "imag"}
Binding    == [src : Attributes, part : PartNames, idx : Nat]
BindingSeq == Seq(Binding)

(* What the script sees described at an index is the last of the exports   *)
(* bound to that index.                                                    *)
Agree(e, list) ==
  /\ Len(list) \in Nat /\ DOMAIN list = 1..Len(list)
  /\ \A i \in DOMAIN list :
       list[i] # None =>
         \E j \in DOMAIN e :
           /\ e[j].idx = i - 1 /\ list[i] = Description(e[j])
           /\ \A k \in DOMAIN e : k > j => e[k].idx # i - 1

ExportInv == exports \in BindingSeq /\ Agree(exports, pyExports)
ImportInv == imports \in BindingSeq /\ steps \in Nat

(* The columns only grow; after the first row, new ones are all late.      *)
AllColumns == UNION {Columns(o, a) : o \in Objects, a \in AttrNames}
ColumnInv ==
  /\ DOMAIN mAttributes \subseteq AllColumns
  /\ (header = None) <=> (row = None)
  /\ header # None =>
       /\ header \subseteq DOMAIN row /\ DOMAIN row \subseteq DOMAIN mAttributes
       /\ DOMAIN mAttributes \ header \subseteq late

(* The solver's log has no line, or lines as long as the vector.           *)
NodeInv ==
  /\ file \in Files
  /\ \/ nodeHeader = <<>> /\ nodeRow = <<>>
     \/ Len(nodeHeader) = file.rows /\ Len(nodeRow) = file.rows

BindingInv == ExportInv /\ ImportInv /\ ColumnInv /\ NodeInv

(* None is told apart from the header lines and the rows: it is neither a  *)
(* set of columns nor a function.                                          *)
NoneIsNew ==
  /\ None \notin SUBSET AllColumns
  /\ None # [n \in DOMAIN None |-> None[n]]

(* What the actions of the script and of the thread leave alone, in terms  *)
(* of the invariant's parts.                                               *)
ExportVars == <<exports, pyExports>>
ColumnVars == <<mAttributes, late, header, row>>
NodeVars   == <<file, nodeHeader, nodeRow>>

-----------------------------------------------------------------------------
(* A bounded set of natural numbers that is not empty has a maximum.       *)
LEMMA Maximum ==
  ASSUME NEW E, E \subseteq Nat, E # {}, NEW b \in Nat, \A e \in E : e <= b
  PROVE  Max(E) \in E /\ \A e \in E : e <= Max(E)
<1> DEFINE R == {ss \in Nat \X Nat : ss[1] < ss[2]}
           U == {n \in Nat : \A e \in E : e <= n}
<1>1. IsWellFoundedOn(R, Nat)
  <2>1. R = OpToRel(<, Nat) BY Zenon DEF OpToRel
  <2> QED BY <2>1, NatLessThanWellFounded, Zenon
<1>2. PICK m \in U : \A n \in U : ~(<<n, m>> \in R)
  <2>1. U \subseteq Nat /\ b \in U OBVIOUS
  <2> HIDE DEF R, U
  <2> QED BY <1>1, <2>1, WFMin, Zenon
<1>3. m \in E
  <2> SUFFICES ASSUME m \notin E PROVE FALSE OBVIOUS
  <2>1. PICK e \in E : TRUE OBVIOUS
  <2>2. m - 1 \in U BY <2>1
  <2>3. <<m - 1, m>> \in R BY <2>2
  <2> QED BY <1>2, <2>2, <2>3
<1> QED BY <1>3 DEF Max

(* What a call binds: one closure, or two at consecutive indices.          *)
LEMMA BindingsKnown ==
  ASSUME NEW o \in Objects, NEW a \in AttrNames, NEW idx \in Nat, NEW mode
  PROVE  /\ Bindings(o, a, idx, mode) \in BindingSeq
         /\ Len(Bindings(o, a, idx, mode)) \in {1, 2}
<1> DEFINE P == Parts(mode)
<1>1. P \in Seq(PartNames) /\ Len(P) \in {1, 2}
  <2>1. P \in {<<"mag", "phase">>, <<"real">>, <<"imag">>, <<"phase">>, <<"mag">>, <<"whole">>}
    BY Zenon DEF Parts
  <2>2. <<"mag", "phase">> \in Seq(PartNames) /\ Len(<<"mag", "phase">>) = 2 BY DEF PartNames
  <2>3. \A x \in PartNames : <<x>> \in Seq(PartNames) /\ Len(<<x>>) = 1 OBVIOUS
  <2>4. {"real", "imag", "phase", "mag", "whole"} \subseteq PartNames BY DEF PartNames
  <2> HIDE DEF P
  <2> QED BY <2>1, <2>2, <2>3, <2>4
<1>2. DOMAIN P = 1..Len(P) /\ \A i \in 1..Len(P) : P[i] \in PartNames
  BY <1>1
<1>3. Bindings(o, a, idx, mode) = [i \in 1..Len(P) |-> [src |-> <<o, a>>, part |-> P[i], idx |-> idx + i - 1]]
  BY <1>2 DEF Bindings
<1> HIDE DEF P
<1>4. \A i \in 1..Len(P) : [src |-> <<o, a>>, part |-> P[i], idx |-> idx + i - 1] \in Binding
  BY <1>1, <1>2 DEF Binding, Attributes
<1> HIDE DEF Binding
<1> QED BY <1>1, <1>3, <1>4 DEF BindingSeq

(* One more export with its description.                                   *)
LEMMA DescribedOne ==
  ASSUME NEW e \in BindingSeq, NEW list, Agree(e, list), NEW b \in Binding
  PROVE  /\ Append(e, b) \in BindingSeq
         /\ Agree(Append(e, b), AddExportDesc(list, b))
<1> DEFINE f == Append(e, b)
           n == IF Len(list) > b.idx THEN Len(list) ELSE b.idx + 1
           new == AddExportDesc(list, b)
<1>1. /\ f \in BindingSeq /\ Len(f) = Len(e) + 1 /\ f[Len(e) + 1] = b
      /\ \A j \in 1..Len(e) : f[j] = e[j]
      /\ DOMAIN f = 1..(Len(e) + 1) /\ DOMAIN e = 1..Len(e) /\ Len(e) \in Nat
  BY DEF BindingSeq
<1>2. b.idx \in Nat BY DEF Binding
<1>3. n \in Nat /\ DOMAIN new = 1..n /\ Len(new) = n
  <2>1. n \in Nat BY <1>2 DEF Agree
  <2>2. DOMAIN new = 1..n BY DEF AddExportDesc
  <2> QED BY <2>1, <2>2 DEF AddExportDesc
<1>4. ASSUME NEW i \in DOMAIN new, new[i] # None
      PROVE  \E j \in DOMAIN f :
               /\ f[j].idx = i - 1 /\ new[i] = Description(f[j])
               /\ \A k \in DOMAIN f : k > j => f[k].idx # i - 1
  <2>1. i \in 1..n /\ i \in Nat BY <1>3
  <2>2. CASE i = b.idx + 1
    <3>1. new[i] = Description(b) BY <2>1, <2>2 DEF AddExportDesc
    <3> QED BY <1>1, <1>2, <2>2, <3>1
  <2>3. CASE i # b.idx + 1
    <3>1. i <= Len(list) /\ new[i] = list[i] BY <2>1, <2>3, <1>4 DEF AddExportDesc
    <3>2. i \in DOMAIN list /\ list[i] # None BY <2>1, <3>1, <1>4 DEF Agree
    <3>3. PICK j \in DOMAIN e : /\ e[j].idx = i - 1 /\ list[i] = Description(e[j])
                                /\ \A k \in DOMAIN e : k > j => e[k].idx # i - 1
      BY <3>2 DEF Agree
    <3>4. b.idx # i - 1 BY <2>1, <2>3, <1>2
    <3>5. j \in DOMAIN f /\ f[j] = e[j] BY <1>1, <3>3
    <3>6. \A k \in DOMAIN f : k > j => f[k].idx # i - 1
      BY <1>1, <3>3, <3>4
    <3> QED BY <3>1, <3>3, <3>5, <3>6
  <2> QED BY <2>2, <2>3
<1> QED BY <1>1, <1>3, <1>4 DEF Agree

(* A call of export_attribute keeps the list and its descriptions together. *)
LEMMA DescribedAll ==
  ASSUME ExportInv, NEW bs \in BindingSeq, Len(bs) \in {1, 2}
  PROVE  exports \o bs \in BindingSeq /\ Agree(exports \o bs, Described(pyExports, bs))
<1>1. bs[1] \in Binding /\ exports \in BindingSeq BY DEF BindingSeq, ExportInv
<1>2. CASE Len(bs) = 1
  <2>1. bs = <<bs[1]>> BY <1>2, SeqEqual DEF BindingSeq
  <2>2. exports \o bs = Append(exports, bs[1])
    BY <1>1, <2>1, AppendIsConcat, Zenon DEF BindingSeq
  <2> QED BY <1>1, <1>2, <2>2, DescribedOne DEF Described, ExportInv
<1>3. CASE Len(bs) = 2
  <2> DEFINE once == Append(exports, bs[1])
  <2>1. bs[2] \in Binding BY <1>3 DEF BindingSeq
  <2>2. exports \o bs = Append(once, bs[2])
    <3>1. bs = <<bs[1]>> \o <<bs[2]>>
      <4>1. /\ <<bs[1]>> \o <<bs[2]>> \in Seq(Binding) /\ Len(<<bs[1]>> \o <<bs[2]>>) = 2
            /\ \A i \in 1..2 : (<<bs[1]>> \o <<bs[2]>>)[i] = bs[i]
        BY <1>1, <2>1
      <4> QED BY <1>3, <4>1, SeqEqual DEF BindingSeq
    <3>2. exports \o bs = (exports \o <<bs[1]>>) \o <<bs[2]>>
      <4> DEFINE s == <<bs[1]>>  t == <<bs[2]>>
      <4>1. s \in Seq(Binding) /\ t \in Seq(Binding) /\ exports \in Seq(Binding)
        BY <1>1, <2>1 DEF BindingSeq
      <4>2. bs = s \o t BY <3>1
      <4> HIDE DEF s, t
      <4>3. (exports \o s) \o t = exports \o (s \o t)
        BY ONLY <4>1, ConcatAssociative
      <4> QED BY <4>2, <4>3 DEF s, t
    <3>3. once = exports \o <<bs[1]>> /\ once \in Seq(Binding)
      BY <1>1, AppendIsConcat DEF BindingSeq
    <3> HIDE DEF once
    <3> QED BY <2>1, <3>2, <3>3, AppendIsConcat
  <2>3. once \in BindingSeq /\ Agree(once, AddExportDesc(pyExports, bs[1]))
    BY <1>1, DescribedOne DEF ExportInv
  <2> HIDE DEF once
  <2> QED BY <1>3, <2>1, <2>2, <2>3, DescribedOne DEF Described
<1> QED BY <1>2, <1>3

-----------------------------------------------------------------------------
(* The initial state.                                                      *)
LEMMA BindingInit == Init => BindingInv
<1> SUFFICES ASSUME Init PROVE BindingInv OBVIOUS
<1>1. ExportInv
  BY DEF Init, ExportInv, Agree, BindingSeq
<1>2. ImportInv BY DEF Init, ImportInv, BindingSeq
<1>3. ColumnInv BY DEF Init, ColumnInv
<1>4. NodeInv BY DEF Init, NodeInv
<1> QED BY <1>1, <1>2, <1>3, <1>4 DEF BindingInv

(* What a call of the script does to the lists: nothing, one more set of   *)
(* exports, of imports or of columns, or an attribute set.                 *)
LEMMA ScriptEffect ==
  ASSUME Script
  PROVE  /\ pc = "client" /\ pc' \in {"client", "crashed"}
         /\ UNCHANGED <<steps, sent, received, NodeVars, header, row>>
         /\ \/ UNCHANGED ExportVars
            \/ \E o \in Objects, a \in AttrNames, i \in Indices, m \in Modes :
                 LET bs == Bindings(o, a, i, m)
                 IN  exports' = exports \o bs /\ pyExports' = Described(pyExports, bs)
         /\ \/ UNCHANGED imports
            \/ \E o \in Objects, a \in AttrNames, i \in Indices, m \in Modes :
                 imports' = imports \o Bindings(o, a, i, m)
         /\ \/ UNCHANGED <<mAttributes, late>>
            \/ \E o \in Objects, a \in AttrNames :
                 /\ DOMAIN mAttributes' = DOMAIN mAttributes \union Columns(o, a)
                 /\ late' = IF row = None THEN late
                            ELSE late \union (Columns(o, a) \ DOMAIN mAttributes)
<1> USE DEF Call, Frame, Done, Raise, Crash, NodeVars, ExportVars, logs, binding
<1>1. CASE \E o \in Objects, a \in AttrNames, i \in Indices, m \in Modes :
             ExportAttribute(o, a, i, m)
  <2>1. PICK o \in Objects, a \in AttrNames, i \in Indices, m \in Modes :
          ExportAttribute(o, a, i, m)
    BY <1>1
  <2> DEFINE bs == Bindings(o, a, i, m)
  <2>2. CASE UNCHANGED binding BY <2>1, <2>2, Zenon DEF ExportAttribute
  <2>3. CASE Done /\ exports' = exports \o bs /\ pyExports' = Described(pyExports, bs)
             /\ UNCHANGED <<imports, mAttributes, late>>
    BY <2>1, <2>3, Zenon DEF ExportAttribute
  <2> QED BY <2>1, <2>2, <2>3 DEF ExportAttribute
<1>2. CASE \E o \in Objects, a \in AttrNames, i \in Indices : ImportAttribute(o, a, i)
  BY <1>2, Zenon DEF ImportAttribute
<1>3. CASE \E o \in Objects, a \in AttrNames : LogAttribute(o, a)
  <2>1. PICK o \in Objects, a \in AttrNames : LogAttribute(o, a) BY <1>3
  <2>2. CASE UNCHANGED binding
    BY <2>1, <2>2, Zenon DEF LogAttribute
  <2> QED BY <2>1, <2>2 DEF LogAttribute
<1>4. CASE \E o \in Objects, a \in AttrNames : GetAttr(o, a)
  BY <1>4, Zenon DEF GetAttr
<1>5. CASE \E o \in Objects, a \in AttrNames, fits \in BOOLEAN : SetAttr(o, a, fits)
  BY <1>5, Zenon DEF SetAttr
<1>6. CASE \E o \in Objects : Dir(o)
  BY <1>6, Zenon DEF Dir
<1>7. CASE \E o \in Objects, ns \in Terminals : Connect(o, ns)
  BY <1>7, Zenon DEF Connect
<1> QED BY <1>1, <1>2, <1>3, <1>4, <1>5, <1>6, <1>7, Zenon DEF Script

(* The thread changes no binding; Solve and Log write the two logs.        *)
LEMMA ThreadEffect ==
  ASSUME Step
  PROVE  /\ UNCHANGED <<calls, file, binding>>
         /\ steps' \in {steps, steps + 1}
         /\ pc' = "log" => WriteValues("write", "log")
         /\ pc' = "solve" => ReadValues("read", "solve")
         /\ UNCHANGED <<nodeHeader, nodeRow>> \/ LogNodes
         /\ UNCHANGED <<header, row>> \/ Log
<1> USE DEF Thread, logs
<1>1. CASE Run BY <1>1, Zenon DEF Run
<1>2. CASE WriteValues("sync_write", "sync_read") BY <1>2, Zenon DEF WriteValues
<1>3. CASE ReadValues("sync_read", "read") BY <1>3, Zenon DEF ReadValues
<1>4. CASE ReadValues("read", "solve") BY <1>4, Zenon DEF ReadValues
<1>5. CASE Solve BY <1>5, Zenon DEF Solve
<1>6. CASE WriteValues("write", "log") BY <1>6, Zenon DEF WriteValues
<1>7. CASE Log BY <1>7, Zenon DEF Log
<1> QED BY <1>1, <1>2, <1>3, <1>4, <1>5, <1>6, <1>7 DEF Step

(* The calls of the script keep the invariant.                             *)
LEMMA ScriptKeeps ==
  ASSUME BindingInv, Script
  PROVE  BindingInv'
<1> USE DEF BindingInv
<1>1. Indices \subseteq Nat BY SampleAssumption
<1>2. ExportInv'
  <2>1. CASE UNCHANGED ExportVars BY <2>1 DEF ExportInv, ExportVars, Agree
  <2>2. ASSUME NEW o \in Objects, NEW a \in AttrNames, NEW i \in Indices, NEW m \in Modes,
               exports' = exports \o Bindings(o, a, i, m),
               pyExports' = Described(pyExports, Bindings(o, a, i, m))
        PROVE  ExportInv'
    <3>1. Bindings(o, a, i, m) \in BindingSeq /\ Len(Bindings(o, a, i, m)) \in {1, 2}
      BY <1>1, BindingsKnown
    <3> QED BY <2>2, <3>1, DescribedAll DEF ExportInv
  <2> QED BY <2>1, <2>2, ScriptEffect, Zenon
<1>3. ImportInv'
  <2>1. CASE UNCHANGED imports BY <2>1, ScriptEffect DEF ImportInv
  <2>2. ASSUME NEW o \in Objects, NEW a \in AttrNames, NEW i \in Indices, NEW m \in Modes,
               imports' = imports \o Bindings(o, a, i, m)
        PROVE  ImportInv'
    <3>1. Bindings(o, a, i, m) \in BindingSeq BY <1>1, BindingsKnown
    <3> QED BY <2>2, <3>1, ScriptEffect, ConcatProperties DEF ImportInv, BindingSeq
  <2> QED BY <2>1, <2>2, ScriptEffect, Zenon
<1>4. ColumnInv'
  <2>1. UNCHANGED <<header, row>> BY ScriptEffect
  <2>2. CASE UNCHANGED <<mAttributes, late>> BY <2>1, <2>2 DEF ColumnInv
  <2>3. ASSUME NEW o \in Objects, NEW a \in AttrNames,
               DOMAIN mAttributes' = DOMAIN mAttributes \union Columns(o, a),
               late' = IF row = None THEN late
                       ELSE late \union (Columns(o, a) \ DOMAIN mAttributes)
        PROVE  ColumnInv'
    <3>1. Columns(o, a) \subseteq AllColumns
      <4>1. Columns(o, a) \in {Columns(p, b) : p \in Objects, b \in AttrNames} OBVIOUS
      <4> QED BY <4>1 DEF AllColumns
    <3> QED BY <2>1, <2>3, <3>1 DEF ColumnInv
  <2> QED BY <2>2, <2>3, ScriptEffect, Zenon
<1>5. NodeInv' BY ScriptEffect DEF NodeInv, NodeVars
<1> QED BY <1>2, <1>3, <1>4, <1>5

(* The steps of the simulation thread keep it.                             *)
LEMMA ThreadKeeps ==
  ASSUME NoneIsNew, BindingInv, Step
  PROVE  BindingInv'
<1> USE DEF BindingInv
<1>1. UNCHANGED binding /\ UNCHANGED file BY ThreadEffect
<1>2. ExportInv' BY <1>1 DEF ExportInv, Agree, binding
<1>3. ImportInv' BY <1>1, ThreadEffect DEF ImportInv, binding
<1>4. ColumnInv'
  <2>1. mAttributes' = mAttributes /\ late' = late BY <1>1 DEF binding
  <2>2. CASE UNCHANGED <<header, row>> BY <2>1, <2>2 DEF ColumnInv
  <2>3. CASE Log /\ ~UNCHANGED <<header, row>>
    <3>1. /\ header' = IF header = None THEN DOMAIN mAttributes ELSE header
          /\ row' = [n \in DOMAIN mAttributes |-> <<mAttributes[n], value[mAttributes[n]]>>]
      BY <2>3 DEF Log
    <3>2. row' # None BY <3>1 DEF NoneIsNew
    <3>3. DOMAIN row' = DOMAIN mAttributes BY <3>1
    <3>4. header' # None BY <3>1 DEF ColumnInv, NoneIsNew
    <3>5. CASE header = None BY <2>1, <3>1, <3>2, <3>3, <3>4, <3>5 DEF ColumnInv
    <3>6. CASE header # None BY <2>1, <3>1, <3>2, <3>3, <3>4, <3>6 DEF ColumnInv
    <3> QED BY <3>5, <3>6
  <2> QED BY <2>2, <2>3, ThreadEffect
<1>5. NodeInv'
  <2>1. CASE UNCHANGED <<nodeHeader, nodeRow>> BY <1>1, <2>1 DEF NodeInv
  <2>2. CASE LogNodes /\ ~UNCHANGED <<nodeHeader, nodeRow>>
    <3>1. file.rows \in Nat BY FileAssumption DEF NodeInv
    <3>2. Len(NodeNames(file.rows)) = file.rows BY <3>1 DEF NodeNames
    <3>3. Len(nodeRow') = file.rows BY <2>2, <3>1 DEF LogNodes
    <3>4. Len(nodeHeader') = file.rows
      <4>1. CASE nodeHeader = <<>> BY <2>2, <3>2, <4>1 DEF LogNodes
      <4>2. CASE nodeHeader # <<>> BY <2>2, <4>2 DEF LogNodes, NodeInv
      <4> QED BY <4>1, <4>2
    <3> QED BY <1>1, <3>3, <3>4 DEF NodeInv
  <2> QED BY <2>1, <2>2, ThreadEffect
<1> QED BY <1>2, <1>3, <1>4, <1>5

(* BindingInv is inductive.                                                *)
LEMMA BindingInvariant == ASSUME NoneIsNew PROVE Spec => []BindingInv
<1>1. BindingInv /\ [Next]_vars => BindingInv'
  <2> SUFFICES ASSUME BindingInv, [Next]_vars PROVE BindingInv' OBVIOUS
  <2>1. CASE Script BY <2>1, ScriptKeeps
  <2>2. CASE Step BY <2>2, ThreadKeeps
  <2>3. CASE UNCHANGED vars
    BY <2>3 DEF vars, binding, logs, BindingInv, ExportInv, Agree, ImportInv, ColumnInv, NodeInv
  <2> QED BY <2>1, <2>2, <2>3 DEF Next
<1> QED BY <1>1, BindingInit, PTL DEF Spec

-----------------------------------------------------------------------------
(* For any export_attribute calls: what the script sees described at an    *)
(* index of the sample is what the sample carries there, with the value of *)
(* this step, or the whole sample is the one sent before.                  *)
THEOREM SamplesAsDescribed == ASSUME NoneIsNew PROVE Spec => []DescribedSlots
<1>1. Init => DescribedSlots BY DEF Init, DescribedSlots
<1>2. BindingInv /\ DescribedSlots /\ [Next]_vars => DescribedSlots'
  <2> SUFFICES ASSUME BindingInv, DescribedSlots, [Next]_vars PROVE DescribedSlots' OBVIOUS
  <2>1. CASE Script
    <3>1. pc' # "log" BY <2>1, ScriptEffect
    <3> QED BY <3>1 DEF DescribedSlots
  <2>2. CASE Step
    <3> SUFFICES ASSUME pc' = "log", Fits',
                        NEW i \in DOMAIN pyExports', pyExports'[i] # None
                 PROVE  sent'[i] = [src |-> pyExports'[i].src, part |-> pyExports'[i].part,
                                    val |-> value'[pyExports'[i].src]]
      BY DEF DescribedSlots
    <3>1. /\ WriteValues("write", "log") /\ exports' = exports /\ pyExports' = pyExports
      BY <2>2, ThreadEffect DEF binding
    <3>2. Fits /\ sent' = Sample /\ value' = value
      BY <3>1 DEF Fits, WriteValues
    <3>3. /\ exports \in Seq(Binding) /\ DOMAIN exports = 1..Len(exports) /\ Len(exports) \in Nat
          /\ \A j \in DOMAIN exports : exports[j] \in Binding
      BY DEF BindingInv, ExportInv, BindingSeq
    <3>4. PICK j \in DOMAIN exports :
            /\ exports[j].idx = i - 1 /\ pyExports[i] = Description(exports[j])
            /\ \A k \in DOMAIN exports : k > j => exports[k].idx # i - 1
      BY <3>1, Zenon DEF BindingInv, ExportInv, Agree
    <3>5. i \in Nat /\ i > 0 BY <3>1 DEF BindingInv, ExportInv, Agree
    <3> DEFINE js == {k \in DOMAIN exports : exports[k].idx = i - 1}
               idxs == {b.idx : b \in Range(exports)}
               len == IF exports = <<>> THEN 0 ELSE Max(idxs) + 1
    <3>6. Max(js) = j
      <4>1. j \in js /\ js \subseteq Nat /\ \A k \in js : k <= j BY <3>3, <3>4
      <4> HIDE DEF js
      <4>2. Max(js) \in js /\ \A k \in js : k <= Max(js) BY <3>3, <4>1, Maximum
      <4> QED BY <4>1, <4>2
    <3>7. i \in 1..len
      <4>1. Range(exports) = {exports[k] : k \in DOMAIN exports} BY DEF Range
      <4>2. idxs \subseteq Nat /\ i - 1 \in idxs /\ idxs # {} /\ exports # <<>>
        BY <3>3, <3>4, <4>1 DEF Binding
      <4>3. Capacity \in Nat /\ \A e \in idxs : e <= Capacity
        <5>1. Capacity \in Nat BY SampleAssumption
        <5>2. \A e \in idxs : e < Capacity BY <3>2 DEF Fits
        <5> HIDE DEF idxs
        <5> QED BY <4>2, <5>1, <5>2
      <4> HIDE DEF idxs
      <4>4. Max(idxs) \in Nat /\ i - 1 <= Max(idxs) BY <4>2, <4>3, Maximum
      <4> QED BY <3>5, <4>2, <4>4
    <3>8. Sample = [n \in 1..len |->
                      LET ks == {k \in DOMAIN exports : exports[k].idx = n - 1}
                      IN  IF ks = {} THEN None ELSE Datum(exports[Max(ks)])]
      BY DEF Sample
    <3>9. j \in js BY <3>4
    <3> HIDE DEF len
    <3>10. Sample[i] = Datum(exports[j]) BY <3>6, <3>7, <3>8, <3>9
    <3> QED BY <3>1, <3>2, <3>4, <3>10 DEF Datum, Description
  <2>3. CASE UNCHANGED vars
    BY <2>3 DEF vars, binding, logs, DescribedSlots, Fits
  <2> QED BY <2>1, <2>2, <2>3 DEF Next
<1> QED BY <1>1, <1>2, BindingInvariant, PTL DEF Spec

(* For any import_attribute calls and samples of any length: a step that   *)
(* goes on after a sample has applied every import, the last one of an     *)
(* attribute last.                                                         *)
THEOREM ImportsApplied == ASSUME NoneIsNew PROVE Spec => []ImportsTakeEffect
<1>1. Init => ImportsTakeEffect BY DEF Init, ImportsTakeEffect
<1>2. BindingInv /\ ImportsTakeEffect /\ [Next]_vars => ImportsTakeEffect'
  <2> SUFFICES ASSUME BindingInv, ImportsTakeEffect, [Next]_vars
               PROVE  ImportsTakeEffect'
    OBVIOUS
  <2>1. CASE Script
    <3>1. pc' # "solve" BY <2>1, ScriptEffect
    <3> QED BY <3>1 DEF ImportsTakeEffect
  <2>2. CASE Step
    <3> SUFFICES ASSUME pc' = "solve", received' > 0, NEW i \in DOMAIN imports'
                 PROVE  \E j \in DOMAIN imports' :
                          /\ j >= i /\ imports'[j].src = imports'[i].src
                          /\ value'[imports'[i].src] = <<"import", received', imports'[j].idx>>
      BY DEF ImportsTakeEffect
    <3>1. ReadValues("read", "solve") /\ imports' = imports
      BY <2>2, ThreadEffect DEF binding
    <3>2. PICK len \in Lengths :
            /\ value' = Import(len) /\ received' = steps + 1
            /\ pc' = IF Applied(len) = Len(imports) THEN "solve" ELSE "terminated"
      BY <3>1 DEF ReadValues
    <3>3. Applied(len) = Len(imports) BY <3>2
    <3>4. DOMAIN imports = 1..Len(imports) /\ Len(imports) \in Nat
          /\ \A k \in DOMAIN imports : imports[k] \in Binding
      BY DEF BindingInv, ImportInv, BindingSeq
    <3> DEFINE x  == imports[i].src
               is == {k \in 1..Applied(len) : imports[k].src = x}
    <3>5. Max(is) \in is /\ Max(is) >= i
      <4>1. i \in is /\ is \subseteq Nat /\ \A k \in is : k <= Len(imports)
        BY <3>1, <3>3, <3>4
      <4> HIDE DEF is
      <4>2. Max(is) \in is /\ \A k \in is : k <= Max(is) BY <3>4, <4>1, Maximum
      <4> QED BY <4>1, <4>2
    <3>6. x \in Attributes BY <3>1, <3>4 DEF Binding
    <3>7. is # {} BY <3>5
    <3>8. Import(len)[x] = <<"import", steps + 1, imports[Max(is)].idx>>
      BY <3>6, <3>7 DEF Import
    <3>9. Max(is) \in DOMAIN imports /\ imports[Max(is)].src = x BY <3>3, <3>4, <3>5
    <3> QED BY <3>1, <3>2, <3>5, <3>8, <3>9
  <2>3. CASE UNCHANGED vars BY <2>3 DEF vars, binding, ImportsTakeEffect
  <2> QED BY <2>1, <2>2, <2>3 DEF Next
<1> QED BY <1>1, <1>2, BindingInvariant, PTL DEF Spec

(* For any log_attribute calls: a row of a log has every column of the     *)
(* header, and others only if they were registered after the first row;    *)
(* the solver's rows are as long as its header.                            *)
THEOREM RowsCorrect == ASSUME NoneIsNew PROVE Spec => []RowsMatchHeader
<1>1. BindingInv => RowsMatchHeader
  <2> SUFFICES ASSUME BindingInv PROVE RowsMatchHeader OBVIOUS
  <2>1. Len(nodeRow) = Len(nodeHeader) BY DEF BindingInv, NodeInv
  <2>2. ColumnInv BY DEF BindingInv
  <2> QED BY <2>1, <2>2 DEF ColumnInv, RowsMatchHeader
<1> QED BY <1>1, BindingInvariant, PTL
=============================================================================
