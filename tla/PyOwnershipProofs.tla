-------------------------- MODULE PyOwnershipProofs --------------------------
(***************************************************************************)
(* Proofs about PyOwnership: the reference counts of any number of Python  *)
(* objects add up through all calls, and what a call cannot break unless   *)
(* it releases a reference it does not own.                                *)
(*                                                                         *)
(* An object x is referred to from dictionaries, from the lists refs, from *)
(* pySys, from todo, from a variable and from Py_GND; Owners(x) counts     *)
(* them.  A lemma says for each of them how the count changes when one     *)
(* dictionary, list or pointer is replaced; an action is a sum of those.   *)
(***************************************************************************)
EXTENDS PyOwnership, TLAPS, FiniteSetTheorems, FunctionTheorems, SequenceTheorems,
        WellFoundedInduction

Holders == Sims \union Loggers
One(b)  == IF b THEN 1 ELSE 0

(* The parts of Owners(x).                                                 *)
DictRefs(x) == {t \in Topos : x \in dict[t]}
HeldRefs(x) == {r \in (Sims \union Loggers) \X (1 .. MaxRefs) :
                  r[2] \in DOMAIN refs[r[1]] /\ refs[r[1]][r[2]] = x}
SysRefs(x)  == {s \in Sims : pySys[s] = x}
InDicts(x) == Cardinality(DictRefs(x))
InRefs(x)  == Cardinality(HeldRefs(x))
InPySys(x) == Cardinality(SysRefs(x))
InTodo(x)  == Occurrences(todo, x)

Sum(x) == InDicts(x) + InRefs(x) + InPySys(x) + InTodo(x)
            + One(x \in user) + One(gnd /\ x = Gnd)

(* Owners(x) is the sum of its parts.                                      *)
LEMMA OwnersSum ==
  ASSUME NEW x
  PROVE  Owners(x) = Sum(x) /\ Owners(x)' = Sum(x)'
BY DEF Sum, Owners, InDicts, InRefs, InPySys, InTodo, One, DictRefs, HeldRefs, SysRefs

(* One more reference, and one more that is stolen.                        *)
LEMMA OneStolen ==
  ASSUME NEW x, rc[x] \in Nat, stolen[x] \in Nat, leaked[x] \in Nat, Owners(x) \in Nat,
         rc[x] + stolen[x] = Owners(x) + leaked[x]
  PROVE  rc[x] + (stolen[x] + 1) = (Owners(x) + 1) + leaked[x]
OBVIOUS

(* The objects have one type each.                                         *)
LEMMA Types ==
  /\ Comps \intersect Nodes = {} /\ Comps \intersect Topos = {} /\ Comps \intersect Loggers = {}
  /\ Comps \intersect Ifaces = {} /\ Comps \intersect Sims = {} /\ Comps \intersect Lists = {}
  /\ Nodes \intersect Topos = {} /\ Nodes \intersect Loggers = {} /\ Nodes \intersect Ifaces = {}
  /\ Nodes \intersect Sims = {} /\ Nodes \intersect Lists = {}
  /\ Topos \intersect Loggers = {} /\ Topos \intersect Ifaces = {} /\ Topos \intersect Sims = {}
  /\ Topos \intersect Lists = {}
  /\ Loggers \intersect Ifaces = {} /\ Loggers \intersect Sims = {} /\ Loggers \intersect Lists = {}
  /\ Ifaces \intersect Sims = {} /\ Ifaces \intersect Lists = {} /\ Sims \intersect Lists = {}
<1> DEFINE types == <<Comps, Nodes, Topos, Loggers, Ifaces, Sims, Lists>>
<1>1. \A i, j \in 1 .. 7 : i # j => types[i] \intersect types[j] = {}
  BY TypeAssumption
<1>2. /\ types[1] = Comps /\ types[2] = Nodes /\ types[3] = Topos /\ types[4] = Loggers
      /\ types[5] = Ifaces /\ types[6] = Sims /\ types[7] = Lists
  OBVIOUS
<1> HIDE DEF types
<1> QED BY <1>1, <1>2

(* There are finitely many objects.                                        *)
LEMMA FiniteTypes ==
  /\ IsFiniteSet(Topos) /\ IsFiniteSet(Sims) /\ IsFiniteSet(Loggers)
  /\ \A S \in SUBSET Objects : IsFiniteSet(S)
<1>1. \A S \in SUBSET Objects : IsFiniteSet(S)
  BY ObjectAssumption, FS_Subset
<1> QED BY <1>1 DEF Objects

(* There are finitely many places in lists of references.                  *)
LEMMA FinitePairs == IsFiniteSet(Holders \X (1 .. MaxRefs))
<1>1. IsFiniteSet(1 .. MaxRefs) BY ObjectAssumption, FS_Interval
<1>2. IsFiniteSet(Holders) BY FiniteTypes, FS_Union DEF Holders
<1> QED BY <1>1, <1>2, FS_Product

-----------------------------------------------------------------------------
(* How often an element occurs in a sequence.                              *)
LEMMA OccursNat ==
  ASSUME NEW S, NEW s \in Seq(S), NEW x
  PROVE  /\ Occurrences(s, x) \in Nat
         /\ Occurrences(s, x) = 0 <=> \A i \in DOMAIN s : s[i] # x
<1> DEFINE A == {i \in DOMAIN s : s[i] = x}
<1>1. IsFiniteSet(1 .. Len(s)) /\ DOMAIN s = 1 .. Len(s) BY FS_Interval
<1>2. IsFiniteSet(A) BY <1>1, FS_Subset, A \in SUBSET (1 .. Len(s))
<1>3. Cardinality(A) \in Nat /\ (Cardinality(A) = 0 <=> A = {})
  BY <1>2, FS_CardinalityType, FS_EmptySet
<1> QED BY <1>3 DEF Occurrences

(* In a concatenation,                                                     *)
LEMMA OccursConcat ==
  ASSUME NEW S, NEW s \in Seq(S), NEW t \in Seq(S), NEW x
  PROVE  Occurrences(s \o t, x) = Occurrences(s, x) + Occurrences(t, x)
<1> DEFINE A == {i \in 1 .. Len(s) : s[i] = x}
           B == {i \in 1 .. Len(t) : t[i] = x}
           C == {i \in Len(s) + 1 .. Len(s) + Len(t) : t[i - Len(s)] = x}
           U == {i \in 1 .. Len(s) + Len(t) : (s \o t)[i] = x}
           f == [i \in B |-> i + Len(s)]
<1>1. Len(s) \in Nat /\ Len(t) \in Nat /\ DOMAIN s = 1 .. Len(s) /\ DOMAIN t = 1 .. Len(t)
      /\ DOMAIN (s \o t) = 1 .. Len(s) + Len(t)
  OBVIOUS
<1>2. IsFiniteSet(A) /\ IsFiniteSet(B)
  <2>1. IsFiniteSet(1 .. Len(s)) /\ IsFiniteSet(1 .. Len(t)) BY <1>1, FS_Interval
  <2> QED BY <2>1, FS_Subset, A \in SUBSET (1 .. Len(s)), B \in SUBSET (1 .. Len(t))
<1>3. IsFiniteSet(C) /\ Cardinality(C) = Cardinality(B)
  <2>1. f \in Bijection(B, C)
    <3>1. f \in [B -> C] BY <1>1
    <3>2. \A i, j \in B : f[i] = f[j] => i = j BY <1>1
    <3>3. \A k \in C : \E i \in B : f[i] = k
      <4> SUFFICES ASSUME NEW k \in C PROVE k - Len(s) \in B /\ f[k - Len(s)] = k OBVIOUS
      <4> QED BY <1>1
    <3> HIDE DEF f, B, C
    <3> QED BY <3>1, <3>2, <3>3, Fun_IsBij
  <2>2. ExistsBijection(B, C) BY <2>1 DEF ExistsBijection
  <2> HIDE DEF B, C
  <2> QED BY <1>2, <2>2, FS_Bijection
<1>4. U = A \union C /\ A \intersect C = {}
  <2>1. \A i \in 1 .. Len(s) + Len(t) :
          (s \o t)[i] = IF i <= Len(s) THEN s[i] ELSE t[i - Len(s)]
    BY ConcatProperties
  <2> QED BY <1>1, <2>1
<1>5. Cardinality(U) = Cardinality(A) + Cardinality(B)
  <2> HIDE DEF A, B, C, U
  <2>1. Cardinality(A) \in Nat /\ Cardinality(C) \in Nat BY <1>2, <1>3, FS_CardinalityType
  <2>2. Cardinality(A \union C) = Cardinality(A) + Cardinality(C) - Cardinality(A \intersect C)
    BY <1>2, <1>3, FS_Union
  <2>3. Cardinality(A \intersect C) = 0 BY <1>4, FS_EmptySet
  <2> QED BY <2>1, <2>2, <2>3, <1>3, <1>4
<1>6. Occurrences(s \o t, x) = Cardinality(U) BY <1>1 DEF Occurrences
<1>7. Occurrences(s, x) = Cardinality(A) /\ Occurrences(t, x) = Cardinality(B)
  BY <1>1 DEF Occurrences
<1> QED BY <1>5, <1>6, <1>7

(* in the empty list and in a list of one,                                 *)
LEMMA OccursShort ==
  ASSUME NEW x
  PROVE  /\ Occurrences(<<>>, x) = 0
         /\ \A y : Occurrences(<<y>>, x) = One(x = y)
<1>1. Occurrences(<<>>, x) = 0
  <2>1. {i \in DOMAIN <<>> : <<>>[i] = x} = {} OBVIOUS
  <2> QED BY <2>1, FS_EmptySet DEF Occurrences
<1>2. ASSUME NEW y PROVE Occurrences(<<y>>, x) = One(x = y)
  <2>1. DOMAIN <<y>> = {1} /\ <<y>>[1] = y OBVIOUS
  <2>2. {i \in DOMAIN <<y>> : <<y>>[i] = x} = IF x = y THEN {1} ELSE {} BY <2>1
  <2> QED BY <2>2, FS_EmptySet, FS_Singleton DEF Occurrences, One
<1> QED BY <1>1, <1>2

(* in a list with one more element,                                        *)
LEMMA OccursAppend ==
  ASSUME NEW S, NEW s \in Seq(S), NEW y \in S, NEW x
  PROVE  Occurrences(Append(s, y), x) = Occurrences(s, x) + One(x = y)
<1>1. Append(s, y) = s \o <<y>> /\ <<y>> \in Seq(S) BY AppendIsConcat
<1>2. Occurrences(s \o <<y>>, x) = Occurrences(s, x) + Occurrences(<<y>>, x)
  BY <1>1, OccursConcat
<1>3. Occurrences(<<y>>, x) = One(x = y) BY OccursShort
<1> QED BY <1>1, <1>2, <1>3

(* and in a list without its head.                                         *)
LEMMA OccursTail ==
  ASSUME NEW S, NEW s \in Seq(S), s # <<>>, NEW x
  PROVE  Occurrences(s, x) = Occurrences(Tail(s), x) + One(x = Head(s))
<1>1. Head(s) \in S /\ Tail(s) \in Seq(S) BY HeadTailProperties
<1>2. <<Head(s)>> \in Seq(S) BY <1>1
<1>3. s = <<Head(s)>> \o Tail(s)
  <2>1. <<Head(s)>> \o Tail(s) \in Seq(S) BY <1>1, <1>2
  <2>2. /\ Len(<<Head(s)>> \o Tail(s)) = Len(s)
        /\ \A i \in 1 .. Len(s) : (<<Head(s)>> \o Tail(s))[i] = s[i]
    BY <1>1, <1>2, HeadTailProperties, ConcatProperties
  <2> QED BY <2>1, <2>2, SeqEqual
<1>4. Occurrences(<<Head(s)>> \o Tail(s), x)
        = Occurrences(<<Head(s)>>, x) + Occurrences(Tail(s), x)
  BY <1>1, <1>2, OccursConcat
<1>5. Occurrences(Tail(s), x) \in Nat BY <1>1, OccursNat
<1>6. Occurrences(<<Head(s)>>, x) = One(x = Head(s)) BY OccursShort
<1> DEFINE whole == <<Head(s)>> \o Tail(s)
           head == One(x = Head(s))
           rest == Occurrences(Tail(s), x)
<1>7. head \in Nat BY DEF One
<1>8. Occurrences(s, x) = Occurrences(whole, x) BY <1>3
<1>9. Occurrences(whole, x) = head + rest BY <1>4, <1>6
<1> HIDE DEF whole, head, rest
<1>10. Occurrences(s, x) = rest + head BY <1>5, <1>7, <1>8, <1>9 DEF rest
<1> QED BY <1>10 DEF rest, head

-----------------------------------------------------------------------------
(* How the counts change when one holder gets another value.               *)
RefLists == {s \in Seq(Objects) : Len(s) <= MaxRefs}

(* Two finite sets that differ in one element at most.                     *)
LEMMA Replace ==
  ASSUME NEW D, NEW E, NEW t, IsFiniteSet(D), D \ {t} = E \ {t}
  PROVE  /\ Cardinality(D) \in Nat /\ Cardinality(E) \in Nat
         /\ Cardinality(E) + One(t \in D) = Cardinality(D) + One(t \in E)
<1> DEFINE R == D \ {t}
<1>1. IsFiniteSet(R) /\ Cardinality(R) \in Nat BY FS_RemoveElement, FS_CardinalityType
<1>2. Cardinality(D) = Cardinality(R) + One(t \in D) /\ IsFiniteSet(D)
  <2>1. CASE t \in D
    <3>1. D = R \union {t} /\ t \notin R BY <2>1
    <3> HIDE DEF R
    <3> QED BY <1>1, <2>1, <3>1, FS_AddElement DEF One
  <2>2. CASE t \notin D
    <3>1. D = R BY <2>2
    <3> QED BY <1>1, <2>2, <3>1 DEF One
  <2> QED BY <2>1, <2>2
<1>3. Cardinality(E) = Cardinality(R) + One(t \in E) /\ IsFiniteSet(E)
  <2>1. CASE t \in E
    <3>1. E = R \union {t} /\ t \notin R BY <2>1
    <3> HIDE DEF R
    <3> QED BY <1>1, <2>1, <3>1, FS_AddElement DEF One
  <2>2. CASE t \notin E
    <3>1. E = R BY <2>2
    <3> QED BY <1>1, <2>2, <3>1 DEF One
  <2> QED BY <2>1, <2>2
<1> HIDE DEF R
<1>4. One(t \in D) \in Nat /\ One(t \in E) \in Nat BY DEF One
<1> QED BY <1>1, <1>2, <1>3, <1>4

(* dict[t] becomes S.                                                      *)
LEMMA DictChange ==
  ASSUME NEW x, NEW t \in Topos, NEW S,
         dict \in [Topos -> SUBSET Named], dict' = [dict EXCEPT ![t] = S]
  PROVE  InDicts(x)' = InDicts(x) - One(x \in dict[t]) + One(x \in S)
<1>1. IsFiniteSet(DictRefs(x))
  BY FiniteTypes, FS_Subset, DictRefs(x) \in SUBSET Topos DEF DictRefs
<1>2. DictRefs(x) \ {t} = DictRefs(x)' \ {t} BY DEF DictRefs
<1>3. (t \in DictRefs(x) <=> x \in dict[t]) /\ (t \in DictRefs(x)' <=> x \in S)
  BY DEF DictRefs
<1>4. /\ Cardinality(DictRefs(x)) \in Nat /\ Cardinality(DictRefs(x)') \in Nat
      /\ Cardinality(DictRefs(x)') + One(t \in DictRefs(x))
           = Cardinality(DictRefs(x)) + One(t \in DictRefs(x)')
  BY <1>1, <1>2, Replace
<1>5. One(t \in DictRefs(x)) = One(x \in dict[t]) /\ One(t \in DictRefs(x)') = One(x \in S)
  BY <1>3 DEF One
<1> QED BY <1>4, <1>5 DEF InDicts, One

(* pySys[s] becomes y.                                                     *)
LEMMA SysChange ==
  ASSUME NEW x, NEW s \in Sims, NEW y,
         pySys \in [Sims -> Objects \union {Nobody}], pySys' = [pySys EXCEPT ![s] = y]
  PROVE  InPySys(x)' = InPySys(x) - One(x = pySys[s]) + One(x = y)
<1>1. IsFiniteSet(SysRefs(x))
  BY FiniteTypes, FS_Subset, SysRefs(x) \in SUBSET Sims DEF SysRefs
<1>2. SysRefs(x) \ {s} = SysRefs(x)' \ {s} BY DEF SysRefs
<1>3. (s \in SysRefs(x) <=> x = pySys[s]) /\ (s \in SysRefs(x)' <=> x = y)
  BY DEF SysRefs
<1>4. /\ Cardinality(SysRefs(x)) \in Nat /\ Cardinality(SysRefs(x)') \in Nat
      /\ Cardinality(SysRefs(x)') + One(s \in SysRefs(x))
           = Cardinality(SysRefs(x)) + One(s \in SysRefs(x)')
  BY <1>1, <1>2, Replace
<1>5. One(s \in SysRefs(x)) = One(x = pySys[s]) /\ One(s \in SysRefs(x)') = One(x = y)
  BY <1>3 DEF One
<1> QED BY <1>4, <1>5 DEF InPySys, One

(* The pairs of one holder are as many as its list has occurrences.        *)
LEMMA PairsOf ==
  ASSUME NEW h, NEW s \in RefLists, NEW x
  PROVE  LET P == {r \in {h} \X (1 .. MaxRefs) : r[2] \in DOMAIN s /\ s[r[2]] = x}
         IN  IsFiniteSet(P) /\ Cardinality(P) = Occurrences(s, x)
<1> DEFINE P == {r \in {h} \X (1 .. MaxRefs) : r[2] \in DOMAIN s /\ s[r[2]] = x}
           A == {i \in DOMAIN s : s[i] = x}
           f == [i \in A |-> <<h, i>>]
<1>1. DOMAIN s = 1 .. Len(s) /\ Len(s) \in Nat /\ Len(s) <= MaxRefs /\ MaxRefs \in Nat
  BY ObjectAssumption DEF RefLists
<1>2. IsFiniteSet(A)
  <2>1. IsFiniteSet(1 .. Len(s)) BY <1>1, FS_Interval
  <2> QED BY <1>1, <2>1, FS_Subset, A \in SUBSET (1 .. Len(s))
<1>3. f \in Bijection(A, P)
  <2>1. f \in [A -> P] BY <1>1
  <2>2. \A i, j \in A : f[i] = f[j] => i = j OBVIOUS
  <2>3. \A r \in P : \E i \in A : f[i] = r
    <3> SUFFICES ASSUME NEW r \in P PROVE r[2] \in A /\ f[r[2]] = r OBVIOUS
    <3> QED OBVIOUS
  <2> HIDE DEF f, A, P
  <2> QED BY <2>1, <2>2, <2>3, Fun_IsBij
<1>4. ExistsBijection(A, P) BY <1>3 DEF ExistsBijection
<1>5. Occurrences(s, x) = Cardinality(A) BY DEF Occurrences
<1> HIDE DEF A, P
<1>6. IsFiniteSet(P) /\ Cardinality(P) = Cardinality(A) BY <1>2, <1>4, FS_Bijection
<1> QED BY <1>5, <1>6 DEF P

(* refs[h] becomes s.                                                      *)
LEMMA RefsChange ==
  ASSUME NEW x, NEW h \in Holders, NEW s \in RefLists,
         refs \in [Holders -> RefLists], refs' = [refs EXCEPT ![h] = s]
  PROVE  /\ InRefs(x)' = InRefs(x) - Occurrences(refs[h], x) + Occurrences(s, x)
         /\ Occurrences(refs[h], x) \in Nat /\ Occurrences(s, x) \in Nat
<1> DEFINE Of(q) == {r \in {h} \X (1 .. MaxRefs) : r[2] \in DOMAIN q /\ q[r[2]] = x}
           Rest == {r \in (Holders \ {h}) \X (1 .. MaxRefs) :
                      r[2] \in DOMAIN refs[r[1]] /\ refs[r[1]][r[2]] = x}
<1>1. IsFiniteSet(Rest)
  BY FinitePairs, FS_Subset, Rest \in SUBSET (Holders \X (1 .. MaxRefs))
<1>2. HeldRefs(x) = Rest \union Of(refs[h]) /\ HeldRefs(x)' = Rest \union Of(s)
  BY DEF HeldRefs, Holders
<1>3. \A q \in RefLists : IsFiniteSet(Of(q)) /\ Cardinality(Of(q)) = Occurrences(q, x)
  BY PairsOf
<1>4. refs[h] \in RefLists OBVIOUS
<1>5. \A q : Rest \intersect Of(q) = {} OBVIOUS
<1>6. ASSUME NEW q \in RefLists
      PROVE  Cardinality(Rest \union Of(q)) = Cardinality(Rest) + Occurrences(q, x)
  <2>1. IsFiniteSet(Of(q)) /\ Cardinality(Of(q)) = Occurrences(q, x) BY <1>3
  <2>2. Cardinality(Rest \intersect Of(q)) = 0 BY <1>5, FS_EmptySet
  <2> HIDE DEF Rest, Of
  <2>3. Cardinality(Rest) \in Nat /\ Cardinality(Of(q)) \in Nat
    BY <1>1, <2>1, FS_CardinalityType
  <2>4. Cardinality(Rest \union Of(q))
          = Cardinality(Rest) + Cardinality(Of(q)) - Cardinality(Rest \intersect Of(q))
    BY <1>1, <2>1, FS_Union
  <2> QED BY <2>1, <2>2, <2>3, <2>4
<1>7. Occurrences(s, x) \in Nat /\ Occurrences(refs[h], x) \in Nat
  BY <1>4, OccursNat DEF RefLists
<1>8. Cardinality(Rest) \in Nat BY <1>1, FS_CardinalityType
<1>9. InRefs(x) = Cardinality(Rest) + Occurrences(refs[h], x)
  BY <1>2, <1>4, <1>6 DEF InRefs
<1>10. InRefs(x)' = Cardinality(Rest) + Occurrences(s, x)
  BY <1>2, <1>6 DEF InRefs
<1> HIDE DEF Rest
<1> QED BY <1>7, <1>8, <1>9, <1>10

(* All counts are natural numbers.                                         *)
LEMMA CountsNat ==
  ASSUME NEW x, todo \in Seq(Objects)
  PROVE  /\ InDicts(x) \in Nat /\ InRefs(x) \in Nat /\ InPySys(x) \in Nat
         /\ InTodo(x) \in Nat /\ Owners(x) \in Nat
         /\ InDicts(x) > 0 <=> \E t \in Topos : x \in dict[t]
         /\ InPySys(x) > 0 <=> \E s \in Sims : pySys[s] = x
         /\ InTodo(x) > 0 <=> \E i \in DOMAIN todo : todo[i] = x
<1>1. \A S : IsFiniteSet(S) => Cardinality(S) \in Nat /\ (Cardinality(S) = 0 <=> S = {})
  BY FS_CardinalityType, FS_EmptySet
<1>2. IsFiniteSet(DictRefs(x)) /\ IsFiniteSet(SysRefs(x))
  BY FiniteTypes, FS_Subset, DictRefs(x) \in SUBSET Topos, SysRefs(x) \in SUBSET Sims
  DEF DictRefs, SysRefs
<1>3. IsFiniteSet(HeldRefs(x))
  BY FinitePairs, FS_Subset, HeldRefs(x) \in SUBSET (Holders \X (1 .. MaxRefs))
  DEF HeldRefs, Holders
<1>4. InTodo(x) \in Nat /\ (InTodo(x) = 0 <=> \A i \in DOMAIN todo : todo[i] # x)
  BY OccursNat DEF InTodo
<1>5. InDicts(x) \in Nat /\ (InDicts(x) = 0 <=> DictRefs(x) = {})
  BY <1>1, <1>2 DEF InDicts
<1>6. InPySys(x) \in Nat /\ (InPySys(x) = 0 <=> SysRefs(x) = {})
  BY <1>1, <1>2 DEF InPySys
<1>7. InRefs(x) \in Nat BY <1>1, <1>3 DEF InRefs
<1>8. One(x \in user) \in Nat /\ One(gnd /\ x = Gnd) \in Nat BY DEF One
<1>9. Owners(x) \in Nat BY <1>4, <1>5, <1>6, <1>7, <1>8, OwnersSum DEF Sum
<1> QED BY <1>4, <1>5, <1>6, <1>7, <1>9 DEF DictRefs, SysRefs

(* A reference from a list counts.                                         *)
LEMMA HeldCounts ==
  ASSUME NEW x, NEW h \in Holders, refs \in [Holders -> RefLists],
         NEW i \in DOMAIN refs[h], refs[h][i] = x
  PROVE  InRefs(x) > 0
<1>1. IsFiniteSet(HeldRefs(x))
  BY FinitePairs, FS_Subset, HeldRefs(x) \in SUBSET (Holders \X (1 .. MaxRefs))
  DEF HeldRefs, Holders
<1>2. i \in 1 .. MaxRefs
  <2>1. refs[h] \in RefLists OBVIOUS
  <2> QED BY <2>1, ObjectAssumption DEF RefLists
<1>3. <<h, i>> \in HeldRefs(x) BY <1>2 DEF HeldRefs, Holders
<1> QED BY <1>1, <1>3, FS_CardinalityType, FS_EmptySet DEF InRefs

(* What an action leaves alone keeps its count.                            *)
LEMMA Unchanged ==
  ASSUME NEW x
  PROVE  /\ dict' = dict => InDicts(x)' = InDicts(x)
         /\ refs' = refs => InRefs(x)' = InRefs(x)
         /\ pySys' = pySys => InPySys(x)' = InPySys(x)
         /\ todo' = todo => InTodo(x)' = InTodo(x)
BY DEF InDicts, DictRefs, InRefs, HeldRefs, InPySys, SysRefs, InTodo

-----------------------------------------------------------------------------
(* The sequences that calls and destructors build.                         *)

(* A numbering of a finite set takes every element once;                   *)
LEMMA Numbering ==
  ASSUME NEW n \in Nat, NEW D, NEW g \in Bijection(1 .. n, D)
  PROVE  /\ g \in [1 .. n -> D]
         /\ \A a, b \in 1 .. n : g[a] = g[b] => a = b
         /\ \A d \in D : \E i \in 1 .. n : g[i] = d
BY Fun_BijectionProperties

(* so does an injective one of the right length.                           *)
LEMMA Covering ==
  ASSUME NEW n \in Nat, NEW D, NEW f \in [1 .. n -> D],
         IsFiniteSet(D), Cardinality(D) = n,
         \A a, b \in 1 .. n : f[a] = f[b] => a = b
  PROVE  \A d \in D : \E i \in 1 .. n : f[i] = d
<1>1. f \in Injection(1 .. n, D) BY Fun_IsInj
<1>2. IsFiniteSet(1 .. n) /\ Cardinality(1 .. n) = Cardinality(D) BY FS_Interval
<1>3. f \in Surjection(1 .. n, D) BY <1>1, <1>2, FS_Injection
<1> QED BY <1>3, Fun_SurjectionProperties

(* The values of a dictionary, one after the other.                        *)
LEMMA Enumerated ==
  ASSUME NEW D \in SUBSET Objects, NEW x
  PROVE  SetToSeq(D) \in Seq(Objects) /\ Occurrences(SetToSeq(D), x) = One(x \in D)
<1>1. IsFiniteSet(D) BY FiniteTypes
<1>2. PICK n \in Nat : n = Cardinality(D) BY <1>1, FS_CardinalityType
<1>3. PICK g : g \in Bijection(1 .. n, D)
  BY <1>1, <1>2, FS_CardinalityType DEF ExistsBijection
<1>4. g \in [1 .. n -> D] /\ IsInjective(g)
  <2>1. g \in [1 .. n -> D] /\ \A a, b \in 1 .. n : g[a] = g[b] => a = b
    BY <1>3, Numbering
  <2> QED BY <2>1 DEF IsInjective
<1>5. SetToSeq(D) = CHOOSE f \in [1 .. n -> D] : IsInjective(f) BY <1>2 DEF SetToSeq
<1>6. PICK f : f = SetToSeq(D) OBVIOUS
<1>7. f \in [1 .. n -> D] /\ IsInjective(f) BY <1>4, <1>5, <1>6, Zenon
<1>8. DOMAIN f = 1 .. n /\ \A a, b \in 1 .. n : f[a] = f[b] => a = b
  BY <1>7 DEF IsInjective
<1>9. \A d \in D : \E i \in 1 .. n : f[i] = d BY <1>1, <1>2, <1>7, <1>8, Covering
<1>10. f \in Seq(Objects) BY <1>7
<1>11. Occurrences(f, x) = One(x \in D)
  <2> DEFINE A == {i \in DOMAIN f : f[i] = x}
  <2>1. CASE x \in D
    <3>1. PICK i \in 1 .. n : f[i] = x BY <1>9, <2>1
    <3>2. A = {i} BY <1>8, <3>1
    <3> QED BY <2>1, <3>2, FS_Singleton DEF Occurrences, One
  <2>2. CASE x \notin D
    <3>1. A = {} BY <1>7, <1>8, <2>2
    <3> QED BY <2>2, <3>1, FS_EmptySet DEF Occurrences, One
  <2> QED BY <2>1, <2>2
<1> QED BY <1>6, <1>10, <1>11

(* The first n names of the list differ.                                   *)
Distinct(s, n) == \A i, j \in 1 .. n : i # j => Key(s[i]) # Key(s[j])

(* The search in Entries finds a prefix.                                   *)
LEMMA PrefixFound ==
  ASSUME NEW s, NEW len \in Nat
  PROVE  \E k \in 0 .. len : Distinct(s, k) /\ (k < len => ~Distinct(s, k + 1))
<1> DEFINE R == {ss \in Nat \X Nat : ss[1] < ss[2]}
           U == {k \in 0 .. len : k = len \/ ~Distinct(s, k + 1)}
<1>1. IsWellFoundedOn(R, Nat)
  <2>1. R = OpToRel(<, Nat) BY Zenon DEF OpToRel
  <2> QED BY <2>1, NatLessThanWellFounded, Zenon
<1>2. PICK k \in U : \A n \in U : ~(<<n, k>> \in R)
  <2>1. U \subseteq Nat /\ len \in U OBVIOUS
  <2> HIDE DEF R, U
  <2> QED BY <1>1, <2>1, WFMin, Zenon
<1>3. k \in 0 .. len /\ (k < len => ~Distinct(s, k + 1)) BY <1>2
<1>4. Distinct(s, k)
  <2>1. CASE k = 0 BY <2>1 DEF Distinct
  <2>2. CASE k > 0 /\ ~Distinct(s, k)
    <3>1. k - 1 \in 0 .. len /\ (k - 1) + 1 = k /\ <<k - 1, k>> \in R BY <1>3, <2>2
    <3>2. k - 1 \in U BY <2>2, <3>1
    <3> QED BY <1>2, <3>1, <3>2
  <2> QED BY <1>3, <2>1, <2>2
<1> QED BY <1>3, <1>4

(* What is entered comes from the list, every name once.                   *)
LEMMA EntriesKnown ==
  ASSUME NEW s \in Seq(Named)
  PROVE  /\ Entries(s) \in Seq(Named)
         /\ ToSet(Entries(s)) \subseteq ToSet(s)
         /\ IsInjective(Entries(s))
         /\ \A x, y \in ToSet(Entries(s)) : Key(x) = Key(y) => x = y
<1> DEFINE good(k) == Distinct(s, k) /\ (k < Len(s) => ~Distinct(s, k + 1))
           m == CHOOSE k \in 0 .. Len(s) : good(k)
<1>1. Len(s) \in Nat /\ DOMAIN s = 1 .. Len(s) /\ \A i \in 1 .. Len(s) : s[i] \in Named
  OBVIOUS
<1>2. m \in 0 .. Len(s) /\ good(m) BY <1>1, PrefixFound, Zenon
<1>3. Entries(s) = SubSeq(s, 1, m) BY DEF Entries, Distinct
<1>4. m \in 0 .. Len(s) /\ Distinct(s, m) BY <1>2, Zenon
<1> HIDE DEF m
<1>5. m \in Nat /\ m <= Len(s) /\ 1 .. m \subseteq 1 .. Len(s) BY <1>1, <1>4
<1>6. \A i \in 1 .. m : s[i] \in Named BY <1>1, <1>5
<1>7. /\ Entries(s) \in Seq(Named) /\ Len(Entries(s)) = m
      /\ \A i \in 1 .. m : Entries(s)[i] = s[i]
  BY ONLY <1>3, <1>5, <1>6, SubSeqProperties
<1>8. DOMAIN Entries(s) = 1 .. m BY <1>7
<1> DEFINE e == Entries(s)
<1> HIDE DEF e
<1>9. /\ DOMAIN e = 1 .. m /\ \A i \in 1 .. m : e[i] = s[i]
      /\ ToSet(e) = {e[i] : i \in DOMAIN e} /\ ToSet(s) = {s[i] : i \in 1 .. Len(s)}
  BY <1>1, <1>7, <1>8 DEF e, ToSet
<1>10. \A i, j \in 1 .. m : Key(e[i]) = Key(e[j]) => i = j
  BY <1>4, <1>9 DEF Distinct
<1>11. ToSet(e) \subseteq ToSet(s)
  <2> SUFFICES ASSUME NEW i \in 1 .. m PROVE e[i] \in ToSet(s) BY <1>9
  <2>1. i \in 1 .. Len(s) /\ e[i] = s[i] BY <1>5, <1>9
  <2> QED BY <1>9, <2>1
<1>12. IsInjective(e) BY <1>9, <1>10 DEF IsInjective
<1>13. \A x, y \in ToSet(e) : Key(x) = Key(y) => x = y BY <1>9, <1>10
<1> QED BY <1>7, <1>11, <1>12, <1>13 DEF e

(* The lists that a client passes.                                         *)
LEMMA UpToSeq ==
  ASSUME NEW S, NEW n \in Nat, NEW s \in UpTo(n, S)
  PROVE  s \in Seq(S)
BY DEF UpTo

-----------------------------------------------------------------------------
(* The inductive invariant.  Types:                                        *)
Typed ==
  /\ life \in [Objects -> {"none", "live", "freed"}] /\ rc \in [Objects -> Nat]
  /\ user \subseteq Objects /\ todo \in Seq(Objects)
  /\ dict \in [Topos -> SUBSET Named] /\ sys \in [Topos -> Seq(Named)]
  /\ refs \in [Holders -> RefLists] /\ pySys \in [Sims -> Objects \union {Nobody}]
  /\ raw \in [Sims -> SUBSET Ifaces] /\ gnd \in BOOLEAN
  /\ stolen \in [Objects -> Nat] /\ leaked \in [Objects -> Nat]

(* An object that does not exist has no count and no reference; one that   *)
(* lives has a positive count that is the number of references but for the *)
(* stolen and the leaked ones; one that was freed has a reference only if  *)
(* one was stolen.                                                         *)
Sound(x) ==
  /\ life[x] = "none" => rc[x] = 0 /\ stolen[x] = 0 /\ leaked[x] = 0 /\ Owners(x) = 0
  /\ life[x] = "live" => rc[x] > 0 /\ rc[x] + stolen[x] = Owners(x) + leaked[x]
  /\ life[x] = "freed" => Owners(x) = 0 \/ stolen[x] > 0

(* What does not exist holds nothing; a raw pointer comes with a reference. *)
HoldersSound ==
  /\ \A t \in Topos : life[t] = "none" => dict[t] = {}
  /\ \A s \in Sims : life[s] = "none" => pySys[s] = Nobody
  /\ \A s \in Sims : \A i \in raw[s] : \E k \in DOMAIN refs[s] : refs[s][k] = i
  /\ gnd <=> life[Gnd] # "none"

OwnInv ==
  /\ Typed
  /\ \A x \in Objects : Sound(x)
  /\ HoldersSound
  /\ DictMatchesSystem

-----------------------------------------------------------------------------
(* What a destructor releases, counted.                                    *)
LEMMA OwnedCount ==
  ASSUME Typed, NEW o \in Objects, NEW x \in Objects
  PROVE  /\ Owned(o) \in Seq(Objects)
         /\ Occurrences(Owned(o), x) =
              (IF o \in Topos THEN One(x \in dict[o]) ELSE 0)
                + (IF o \in Holders THEN Occurrences(refs[o], x) ELSE 0)
                + (IF o \in Sims THEN One(x = pySys[o]) ELSE 0)
<1>1. CASE o \in Topos
  <2>1. o \notin Holders /\ o \notin Sims /\ o \notin Loggers BY <1>1, Types DEF Holders
  <2>2. Owned(o) = SetToSeq(dict[o]) BY <1>1, <2>1 DEF Owned, TopologyOwns
  <2>3. dict[o] \in SUBSET Objects BY <1>1 DEF Typed, Named, Objects
  <2>4. One(x \in dict[o]) \in Nat BY DEF One
  <2> QED BY <1>1, <2>1, <2>2, <2>3, <2>4, Enumerated
<1>2. CASE o \in Loggers
  <2>1. o \notin Topos /\ o \notin Sims /\ o \in Holders BY <1>2, Types DEF Holders
  <2>2. Owned(o) = refs[o] BY <1>2, <2>1 DEF Owned, LoggerOwns
  <2>3. refs[o] \in Seq(Objects) BY <2>1 DEF Typed, RefLists
  <2>4. Occurrences(refs[o], x) \in Nat BY <2>3, OccursNat
  <2> QED BY <2>1, <2>2, <2>3, <2>4
<1>3. CASE o \in Sims
  <2> DEFINE last == IF pySys[o] = Nobody THEN <<>> ELSE <<pySys[o]>>
  <2>1. o \notin Topos /\ o \notin Loggers /\ o \in Holders BY <1>3, Types DEF Holders
  <2>2. Owned(o) = refs[o] \o last BY <1>3, <2>1 DEF Owned, SimulationOwns
  <2>3. refs[o] \in Seq(Objects) BY <2>1 DEF Typed, RefLists
  <2>4. pySys[o] \in Objects \union {Nobody} BY <1>3 DEF Typed
  <2>5. last \in Seq(Objects) /\ Occurrences(last, x) = One(x = pySys[o])
    <3>1. CASE pySys[o] = Nobody
      <4>1. x # pySys[o] BY <3>1, ObjectAssumption
      <4>2. last = <<>> BY <3>1
      <4> QED BY <4>1, <4>2, OccursShort DEF One
    <3>2. CASE pySys[o] # Nobody
      <4>1. last = <<pySys[o]>> /\ pySys[o] \in Objects BY <2>4, <3>2
      <4>2. <<pySys[o]>> \in Seq(Objects) BY <4>1
      <4>3. Occurrences(<<pySys[o]>>, x) = One(x = pySys[o]) BY OccursShort
      <4> QED BY <4>1, <4>2, <4>3
    <3> QED BY <3>1, <3>2
  <2> HIDE DEF last
  <2>6. Occurrences(refs[o] \o last, x) = Occurrences(refs[o], x) + Occurrences(last, x)
    BY <2>3, <2>5, OccursConcat
  <2>7. refs[o] \o last \in Seq(Objects) BY <2>3, <2>5
  <2>8. Occurrences(refs[o], x) \in Nat /\ One(x = pySys[o]) \in Nat
    BY <2>3, OccursNat DEF One
  <2> QED BY <1>3, <2>1, <2>2, <2>5, <2>6, <2>7, <2>8
<1>4. CASE o \notin Topos /\ o \notin Loggers /\ o \notin Sims
  <2>1. Owned(o) = <<>> /\ o \notin Holders BY <1>4 DEF Owned, Holders
  <2> QED BY <1>4, <2>1, OccursShort
<1> QED BY <1>1, <1>2, <1>3, <1>4

-----------------------------------------------------------------------------
(* The parts of Owners(x) before and after a step.                         *)
OwnersParts(x) ==
  /\ InDicts(x) \in Nat /\ InRefs(x) \in Nat /\ InPySys(x) \in Nat
  /\ Occurrences(todo, x) \in Nat /\ Occurrences(todo', x) \in Nat /\ Owners(x) \in Nat
  /\ One(x \in user) \in Nat /\ One(gnd /\ x = Gnd) \in Nat
  /\ One(x \in user') \in Nat /\ One(gnd' /\ x = Gnd) \in Nat
  /\ Owners(x) = InDicts(x) + InRefs(x) + InPySys(x) + Occurrences(todo, x)
                    + One(x \in user) + One(gnd /\ x = Gnd)
  /\ Owners(x)' = InDicts(x)' + InRefs(x)' + InPySys(x)' + Occurrences(todo', x)
                    + One(x \in user') + One(gnd' /\ x = Gnd)

(* All of them are natural numbers before the step.                        *)
LEMMA OwnersByPart ==
  ASSUME Typed, NEW x, todo' \in Seq(Objects)
  PROVE  OwnersParts(x)
<1>1. InTodo(x)' = Occurrences(todo', x) /\ InTodo(x) = Occurrences(todo, x) BY DEF InTodo
<1>2. Occurrences(todo', x) \in Nat BY OccursNat
<1>3. /\ InDicts(x) \in Nat /\ InRefs(x) \in Nat /\ InPySys(x) \in Nat /\ InTodo(x) \in Nat
      /\ Owners(x) \in Nat
  BY CountsNat DEF Typed
<1>4. /\ Owners(x) = InDicts(x) + InRefs(x) + InPySys(x) + InTodo(x)
                        + One(x \in user) + One(gnd /\ x = Gnd)
      /\ Owners(x)' = InDicts(x)' + InRefs(x)' + InPySys(x)' + InTodo(x)'
                        + One(x \in user') + One(gnd' /\ x = Gnd)
  BY OwnersSum DEF Sum
<1>5. /\ One(x \in user) \in Nat /\ One(gnd /\ x = Gnd) \in Nat
      /\ One(x \in user') \in Nat /\ One(gnd' /\ x = Gnd) \in Nat
  BY DEF One
<1> QED BY ONLY <1>1, <1>2, <1>3, <1>4, <1>5 DEF OwnersParts

(* Calls that change no holder but variables and Py_GND.                   *)
LEMMA OwnersVariables ==
  ASSUME Typed, NEW x, UNCHANGED <<dict, refs, pySys>>, todo' \in Seq(Objects)
  PROVE  /\ Owners(x) \in Nat
         /\ Owners(x)' = Owners(x) - One(x \in user) + One(x \in user')
                           - One(gnd /\ x = Gnd) + One(gnd' /\ x = Gnd)
                           - Occurrences(todo, x) + Occurrences(todo', x)
<1>1. InDicts(x)' = InDicts(x) /\ InRefs(x)' = InRefs(x) /\ InPySys(x)' = InPySys(x)
  BY Unchanged
<1>2. OwnersParts(x) BY OwnersByPart
<1> QED BY ONLY <1>1, <1>2 DEF OwnersParts

(* Calls that replace one dictionary,                                      *)
LEMMA OwnersDict ==
  ASSUME Typed, NEW x, NEW t \in Topos, NEW S, dict' = [dict EXCEPT ![t] = S],
         UNCHANGED <<refs, pySys, gnd>>, todo' \in Seq(Objects)
  PROVE  /\ Owners(x) \in Nat
         /\ Owners(x)' = Owners(x) - One(x \in user) + One(x \in user')
                           - Occurrences(todo, x) + Occurrences(todo', x)
                           - One(x \in dict[t]) + One(x \in S)
<1>1. /\ InDicts(x)' = InDicts(x) - One(x \in dict[t]) + One(x \in S)
      /\ InRefs(x)' = InRefs(x) /\ InPySys(x)' = InPySys(x)
  BY Unchanged, DictChange DEF Typed
<1>2. OwnersParts(x) BY OwnersByPart
<1>3. One(x \in dict[t]) \in Nat /\ One(x \in S) \in Nat BY DEF One
<1>4. One(gnd' /\ x = Gnd) = One(gnd /\ x = Gnd) BY DEF One
<1> QED BY ONLY <1>1, <1>2, <1>3, <1>4 DEF OwnersParts

(* one list of references,                                                 *)
LEMMA OwnersRefs ==
  ASSUME Typed, NEW x, NEW h \in Holders, NEW s \in RefLists, refs' = [refs EXCEPT ![h] = s],
         UNCHANGED <<dict, pySys, gnd, user, todo>>
  PROVE  /\ Owners(x) \in Nat
         /\ Owners(x)' = Owners(x) - Occurrences(refs[h], x) + Occurrences(s, x)
<1>1. /\ InRefs(x)' = InRefs(x) - Occurrences(refs[h], x) + Occurrences(s, x)
      /\ Occurrences(refs[h], x) \in Nat /\ Occurrences(s, x) \in Nat
      /\ InDicts(x)' = InDicts(x) /\ InPySys(x)' = InPySys(x)
  BY Unchanged, RefsChange DEF Typed
<1>2. OwnersParts(x) BY OwnersByPart DEF Typed
<1>3. /\ One(gnd' /\ x = Gnd) = One(gnd /\ x = Gnd) /\ One(x \in user') = One(x \in user)
      /\ Occurrences(todo', x) = Occurrences(todo, x)
  BY DEF One
<1> QED BY ONLY <1>1, <1>2, <1>3 DEF OwnersParts

(* or one pySys.                                                           *)
LEMMA OwnersPySys ==
  ASSUME Typed, NEW x, NEW s \in Sims, NEW y, pySys' = [pySys EXCEPT ![s] = y],
         UNCHANGED <<dict, refs, gnd>>, todo' \in Seq(Objects)
  PROVE  /\ Owners(x) \in Nat
         /\ Owners(x)' = Owners(x) - One(x \in user) + One(x \in user')
                           - Occurrences(todo, x) + Occurrences(todo', x)
                           - One(x = pySys[s]) + One(x = y)
<1>1. /\ InPySys(x)' = InPySys(x) - One(x = pySys[s]) + One(x = y)
      /\ InRefs(x)' = InRefs(x) /\ InDicts(x)' = InDicts(x)
  <2>1. pySys \in [Sims -> Objects \union {Nobody}] BY DEF Typed
  <2>2. InPySys(x)' = InPySys(x) - One(x = pySys[s]) + One(x = y) BY <2>1, SysChange DEF One
  <2> QED BY <2>2, Unchanged
<1>2. OwnersParts(x) BY OwnersByPart
<1>3. One(x = pySys[s]) \in Nat /\ One(x = y) \in Nat BY DEF One
<1>4. One(gnd' /\ x = Gnd) = One(gnd /\ x = Gnd) BY DEF One
<1> QED BY ONLY <1>1, <1>2, <1>3, <1>4 DEF OwnersParts

(* The dictionaries and the topologies stay, and no topology is handed out. *)
LEMMA SameDicts ==
  ASSUME Typed, DictMatchesSystem, UNCHANGED <<dict, sys>>,
         \A t \in Topos : t \in user' => t \in user
  PROVE  DictMatchesSystem'
BY DEF DictMatchesSystem, Key

(* A step that leaves an object alone.                                     *)
LEMMA SoundSame ==
  ASSUME NEW x, Sound(x), life'[x] = life[x], rc'[x] = rc[x], stolen'[x] = stolen[x],
         leaked'[x] = leaked[x], Owners(x)' = Owners(x)
  PROVE  Sound(x)'
BY DEF Sound

(* The account of a live object is balanced after the step.                *)
LEMMA SoundLive ==
  ASSUME NEW x, life'[x] = "live", rc'[x] > 0, rc'[x] + stolen'[x] = Owners(x)' + leaked'[x]
  PROVE  Sound(x)'
BY DEF Sound

(* Nothing refers to an object that does not exist.                        *)
LEMMA NoReference ==
  ASSUME Typed, \A x \in Objects : Sound(x), NEW o \in Objects, life[o] = "none"
  PROVE  /\ o \notin user /\ Owners(o) = 0 /\ InDicts(o) = 0 /\ InRefs(o) = 0
         /\ InPySys(o) = 0 /\ InTodo(o) = 0 /\ \A t \in Topos : o \notin dict[t]
<1>1. Owners(o) = 0 BY DEF Sound
<1>2. /\ InDicts(o) \in Nat /\ InRefs(o) \in Nat /\ InPySys(o) \in Nat
      /\ InTodo(o) \in Nat /\ Owners(o) = Sum(o)
      /\ InDicts(o) > 0 <=> \E t \in Topos : o \in dict[t]
  BY CountsNat, OwnersSum DEF Typed
<1> QED BY <1>1, <1>2 DEF Sum, One

(* NewComponent, NewNode, NewLogger, NewInterface                          *)
LEMMA CreateKept ==
  ASSUME OwnInv, NEW o \in Comps \union Nodes \union Loggers \union Ifaces, o # Gnd,
         Create(o), UNCHANGED <<holders, todo, ghosts>>
  PROVE  OwnInv'
<1>1. o \in Objects /\ o \notin Topos /\ o \notin Sims BY Types DEF Objects
<1>2. Typed' BY <1>1 DEF OwnInv, Typed, Create, Plus, holders, ghosts
<1>3. ASSUME NEW x \in Objects PROVE Sound(x)'
  <2>1. Owners(x) \in Nat
        /\ Owners(x)' = Owners(x) - One(x \in user) + One(x \in user')
                          - One(gnd /\ x = Gnd) + One(gnd' /\ x = Gnd)
                          - Occurrences(todo, x) + Occurrences(todo', x)
    BY <1>2, OwnersVariables DEF OwnInv, holders, Typed
  <2>2. gnd' = gnd /\ Occurrences(todo', x) = Occurrences(todo, x)
        /\ Occurrences(todo, x) \in Nat
    BY OccursNat DEF OwnInv, Typed, holders
  <2>3. Owners(x)' = Owners(x) - One(x \in user) + One(x \in user')
    BY <2>1, <2>2 DEF One
  <2>4. o \notin user BY <1>1, NoReference DEF OwnInv, Create
  <2>5. Sound(x) BY DEF OwnInv
  <2> QED BY <1>1, <2>1, <2>3, <2>4, <2>5 DEF OwnInv, Typed, Sound, Create, Plus, One, ghosts
<1>4. HoldersSound' BY <1>1, ObjectAssumption DEF OwnInv, Typed, HoldersSound, Create, holders
<1>5. DictMatchesSystem' BY <1>1, SameDicts DEF OwnInv, Create, holders
<1> QED BY <1>2, <1>3, <1>4, <1>5 DEF OwnInv

(* A wrapper that is forgotten.                                            *)
LEMMA ForgottenKept ==
  ASSUME OwnInv, NEW c \in Comps, life[c] = "none",
         life' = [life EXCEPT ![c] = "live"], rc' = Plus(rc, c, 1),
         leaked' = Plus(leaked, c, 1), UNCHANGED <<user, holders, todo, stolen>>
  PROVE  OwnInv'
<1>1. c \in Objects /\ c \notin Topos /\ c \notin Sims /\ c # Gnd
  BY Types, ObjectAssumption DEF Objects
<1>2. Typed' BY <1>1 DEF OwnInv, Typed, Plus, holders
<1>3. ASSUME NEW x \in Objects PROVE Sound(x)'
  <2>1. Owners(x) \in Nat
        /\ Owners(x)' = Owners(x) - One(x \in user) + One(x \in user')
                          - One(gnd /\ x = Gnd) + One(gnd' /\ x = Gnd)
                          - Occurrences(todo, x) + Occurrences(todo', x)
    BY <1>2, OwnersVariables DEF OwnInv, holders, Typed
  <2>2. Occurrences(todo, x) \in Nat BY OccursNat DEF OwnInv, Typed
  <2>3. Owners(x)' = Owners(x) BY <2>1, <2>2 DEF One, holders
  <2>4. Sound(x) BY DEF OwnInv
  <2> QED BY <1>1, <2>1, <2>3, <2>4 DEF OwnInv, Typed, Sound, Plus
<1>4. HoldersSound' BY <1>1, ObjectAssumption DEF OwnInv, Typed, HoldersSound, holders
<1>5. DictMatchesSystem' BY <1>1, SameDicts DEF OwnInv, holders
<1> QED BY <1>2, <1>3, <1>4, <1>5 DEF OwnInv

(* Node.GND()                                                              *)
LEMMA GetGNDKept ==
  ASSUME OwnInv, GetGND
  PROVE  OwnInv'
<1>1. Gnd \in Objects /\ Gnd \notin Topos /\ Gnd \notin Sims
  BY Types, ObjectAssumption DEF Objects
<1>2. Typed'
  <2>1. Typed /\ gnd \in BOOLEAN BY DEF OwnInv, Typed
  <2>2. rc' \in [Objects -> Nat]
    <3>1. rc' = Plus(rc, Gnd, 1) \/ rc' = Plus(rc, Gnd, 2) BY <2>1 DEF GetGND
    <3> QED BY <1>1, <2>1, <3>1 DEF Typed, Plus
  <2> QED BY <1>1, <2>1, <2>2 DEF Typed, GetGND, ghosts
<1>3. ASSUME NEW x \in Objects PROVE Sound(x)'
  <2>1. Owners(x) \in Nat
        /\ Owners(x)' = Owners(x) - One(x \in user) + One(x \in user')
                          - One(gnd /\ x = Gnd) + One(gnd' /\ x = Gnd)
                          - Occurrences(todo, x) + Occurrences(todo', x)
    BY <1>2, OwnersVariables DEF OwnInv, GetGND, Typed
  <2>2. Occurrences(todo, x) \in Nat /\ todo' = todo
    BY OccursNat DEF OwnInv, Typed, GetGND
  <2>3. Owners(x)' = Owners(x) + (IF x = Gnd THEN IF gnd THEN 1 ELSE 2 ELSE 0)
    BY <2>1, <2>2 DEF One, GetGND
  <2>4. Sound(x) /\ (gnd <=> life[Gnd] # "none") BY DEF OwnInv, HoldersSound
  <2>5. CASE x = Gnd
    <3>1. /\ life'[x] = "live" /\ rc'[x] = rc[x] + (IF gnd THEN 1 ELSE 2)
          /\ stolen' = stolen /\ leaked' = leaked /\ (gnd => life[x] = "live")
      BY <1>1, <2>5 DEF GetGND, OwnInv, Typed, Plus, ghosts
    <3>2. rc[x] \in Nat /\ stolen[x] \in Nat /\ leaked[x] \in Nat BY DEF OwnInv, Typed
    <3>3. CASE gnd
      <4>1. life[x] = "live" /\ rc'[x] = rc[x] + 1 /\ Owners(x)' = Owners(x) + 1
        BY <2>3, <2>5, <3>1, <3>3
      <4> QED BY <2>1, <2>4, <3>1, <3>2, <4>1, SoundLive DEF Sound
    <3>4. CASE ~gnd
      <4>1. life[x] = "none" /\ rc'[x] = rc[x] + 2 /\ Owners(x)' = Owners(x) + 2
        BY <2>3, <2>4, <2>5, <3>1, <3>4
      <4> QED BY <2>1, <2>4, <3>1, <3>2, <4>1, SoundLive DEF Sound
    <3> QED BY <3>3, <3>4
  <2>6. CASE x # Gnd
    <3>1. life'[x] = life[x] /\ rc'[x] = rc[x] /\ stolen' = stolen /\ leaked' = leaked
      BY <2>6 DEF GetGND, OwnInv, Typed, Plus, ghosts
    <3> QED BY <2>1, <2>3, <2>4, <2>6, <3>1 DEF Sound
  <2> QED BY <2>5, <2>6
<1>4. HoldersSound' BY <1>1 DEF OwnInv, Typed, HoldersSound, GetGND
<1>5. DictMatchesSystem' BY <1>1, SameDicts DEF OwnInv, GetGND
<1> QED BY <1>2, <1>3, <1>4, <1>5 DEF OwnInv

(* A look-up in topology.components or .nodes                              *)
LEMMA LookupKept ==
  ASSUME OwnInv, NEW t \in Topos, NEW o \in Named, Lookup(t, o)
  PROVE  OwnInv'
<1>1. o \in Objects /\ o \notin Topos BY Types DEF Objects, Named
<1>2. Typed'
  <2>1. Typed BY DEF OwnInv
  <2>2. rc' \in [Objects -> Nat] BY <1>1, <2>1 DEF Typed, Lookup, Plus
  <2> QED BY <1>1, <2>1, <2>2 DEF Typed, Lookup, holders, ghosts
<1>3. ASSUME NEW x \in Objects PROVE Sound(x)'
  <2>1. Owners(x) \in Nat
        /\ Owners(x)' = Owners(x) - One(x \in user) + One(x \in user')
                          - One(gnd /\ x = Gnd) + One(gnd' /\ x = Gnd)
                          - Occurrences(todo, x) + Occurrences(todo', x)
    BY <1>2, OwnersVariables DEF OwnInv, Lookup, holders, Typed
  <2>2. Occurrences(todo, x) \in Nat /\ todo' = todo /\ gnd' = gnd
    BY OccursNat DEF OwnInv, Typed, Lookup, holders
  <2>3. Owners(x)' = Owners(x) + (IF x = o THEN 1 ELSE 0)
    BY <2>1, <2>2 DEF One, Lookup
  <2>4. Sound(x) BY DEF OwnInv
  <2>5. /\ life' = life /\ stolen' = stolen /\ leaked' = leaked /\ life[o] = "live"
        /\ rc'[x] = rc[x] + (IF x = o THEN 1 ELSE 0)
    BY <1>1 DEF OwnInv, Typed, Lookup, Plus, ghosts
  <2>6. rc[x] \in Nat /\ stolen[x] \in Nat /\ leaked[x] \in Nat BY DEF OwnInv, Typed
  <2>7. CASE x = o BY <2>1, <2>3, <2>4, <2>5, <2>6, <2>7, SoundLive DEF Sound
  <2>8. CASE x # o BY <2>1, <2>3, <2>4, <2>5, <2>6, <2>8, SoundSame
  <2> QED BY <2>7, <2>8
<1>4. HoldersSound' BY DEF OwnInv, HoldersSound, Lookup, holders
<1>5. DictMatchesSystem' BY <1>1, SameDicts DEF OwnInv, Lookup, holders
<1> QED BY <1>2, <1>3, <1>4, <1>5 DEF OwnInv

(* A variable is forgotten: its reference moves to todo.                   *)
LEMMA ForgetKept ==
  ASSUME OwnInv, NEW o \in user, Forget(o)
  PROVE  OwnInv'
<1>1. o \in Objects /\ todo = <<>> /\ todo' = <<o>> BY DEF OwnInv, Typed, Forget, Idle
<1>2. Typed' BY <1>1 DEF OwnInv, Typed, Forget, holders, mem, ghosts
<1>3. ASSUME NEW x \in Objects PROVE Sound(x)'
  <2>1. Owners(x) \in Nat
        /\ Owners(x)' = Owners(x) - One(x \in user) + One(x \in user')
                          - One(gnd /\ x = Gnd) + One(gnd' /\ x = Gnd)
                          - Occurrences(todo, x) + Occurrences(todo', x)
    BY <1>2, OwnersVariables DEF OwnInv, Forget, holders, Typed
  <2>2. Occurrences(todo, x) = 0 /\ Occurrences(todo', x) = One(x = o)
    BY <1>1, OccursShort
  <2>3. Owners(x)' = Owners(x) BY <2>1, <2>2 DEF One, Forget, holders
  <2>4. Sound(x) BY DEF OwnInv
  <2> QED BY <2>1, <2>3, <2>4 DEF Sound, Forget, mem, ghosts
<1>4. HoldersSound' BY DEF OwnInv, HoldersSound, Forget, holders, mem
<1>5. DictMatchesSystem' BY SameDicts DEF OwnInv, Forget, holders
<1> QED BY <1>2, <1>3, <1>4, <1>5 DEF OwnInv

(* Py_DECREF that frees nothing                                            *)
LEMMA DecrefKept ==
  ASSUME OwnInv, Decref
  PROVE  OwnInv'
<1>1. PICK o : o = Head(todo) OBVIOUS
<1>2. todo \in Seq(Objects) /\ todo # <<>> BY DEF OwnInv, Typed, Decref
<1>3. o \in Objects /\ todo' = Tail(todo) /\ todo' \in Seq(Objects)
  BY <1>1, <1>2, HeadTailProperties DEF Decref
<1>4. life[o] = "live" /\ rc[o] > 1 /\ rc' = Plus(rc, o, -1) BY <1>1 DEF Decref
<1>5. rc' \in [Objects -> Nat]
  <2>1. rc \in [Objects -> Nat] BY DEF OwnInv, Typed
  <2> QED BY <1>3, <1>4, <2>1 DEF Plus
<1>6. Typed' BY <1>3, <1>5 DEF OwnInv, Typed, Decref, holders, ghosts
<1>7. ASSUME NEW x \in Objects PROVE Sound(x)'
  <2>1. Owners(x) \in Nat
        /\ Owners(x)' = Owners(x) - One(x \in user) + One(x \in user')
                          - One(gnd /\ x = Gnd) + One(gnd' /\ x = Gnd)
                          - Occurrences(todo, x) + Occurrences(todo', x)
    BY <1>3, OwnersVariables DEF OwnInv, Decref, holders
  <2>2. Occurrences(todo, x) = Occurrences(todo', x) + One(x = o)
        /\ Occurrences(todo', x) \in Nat
    BY <1>1, <1>2, <1>3, OccursTail, OccursNat
  <2>3. Owners(x)' = Owners(x) - One(x = o)
    BY <2>1, <2>2 DEF One, Decref, holders
  <2>4. Sound(x) BY DEF OwnInv
  <2>5. rc[x] \in Nat /\ stolen[x] \in Nat /\ leaked[x] \in Nat BY DEF OwnInv, Typed
  <2>6. /\ life' = life /\ stolen' = stolen /\ leaked' = leaked
        /\ rc'[x] = rc[x] - (IF x = o THEN 1 ELSE 0)
    <3>1. rc \in [Objects -> Nat] BY DEF OwnInv, Typed
    <3>2. rc'[x] = rc[x] + (IF x = o THEN -1 ELSE 0) BY <1>3, <1>4, <3>1 DEF Plus
    <3> QED BY <2>5, <3>2 DEF Decref, ghosts
  <2>7. CASE x = o BY <1>4, <2>1, <2>3, <2>4, <2>5, <2>6, <2>7, SoundLive DEF Sound, One
  <2>8. CASE x # o BY <2>1, <2>3, <2>4, <2>5, <2>6, <2>8, SoundSame DEF One
  <2> QED BY <2>7, <2>8
<1>8. HoldersSound' BY DEF OwnInv, HoldersSound, Decref, holders
<1>9. DictMatchesSystem' BY SameDicts DEF OwnInv, Decref, holders
<1> QED BY <1>6, <1>7, <1>8, <1>9 DEF OwnInv

(* LogAttribute and AddInterface append to a list.                         *)
LEMMA AppendKept ==
  ASSUME OwnInv, NEW h \in Holders, NEW o \in Objects, life[o] = "live",
         Len(refs[h]) < MaxRefs, refs' = [refs EXCEPT ![h] = Append(@, o)],
         rc' = Plus(rc, o, 1), UNCHANGED <<life, user, dict, pySys, gnd, todo, ghosts>>
  PROVE  /\ refs' \in [Holders -> RefLists] /\ rc' \in [Objects -> Nat]
         /\ \A x \in Objects : Sound(x)'
<1> DEFINE s == Append(refs[h], o)
<1>1. refs \in [Holders -> RefLists] /\ rc \in [Objects -> Nat] BY DEF OwnInv, Typed
<1>2. refs[h] \in Seq(Objects) BY <1>1 DEF RefLists
<1>3. s \in RefLists BY <1>2, ObjectAssumption DEF RefLists
<1>4. refs' = [refs EXCEPT ![h] = s] BY <1>1
<1>5. \A x : Occurrences(s, x) = Occurrences(refs[h], x) + One(x = o) BY <1>2, OccursAppend
<1> HIDE DEF s
<1>6. refs' \in [Holders -> RefLists] /\ rc' \in [Objects -> Nat]
  <2>1. refs' \in [Holders -> RefLists] BY <1>1, <1>3, <1>4
  <2>2. rc' \in [Objects -> Nat] BY <1>1 DEF Plus
  <2> QED BY <2>1, <2>2
<1>7. ASSUME NEW x \in Objects PROVE Sound(x)'
  <2>1. Owners(x) \in Nat
        /\ Owners(x)' = Owners(x) - Occurrences(refs[h], x) + Occurrences(s, x)
    BY <1>3, <1>4, OwnersRefs DEF OwnInv
  <2>2. Occurrences(refs[h], x) \in Nat BY <1>2, OccursNat
  <2>3. Owners(x)' = Owners(x) + (IF x = o THEN 1 ELSE 0) BY <1>5, <2>1, <2>2 DEF One
  <2>4. Sound(x) BY DEF OwnInv
  <2>5. /\ life' = life /\ stolen' = stolen /\ leaked' = leaked
        /\ rc'[x] = rc[x] + (IF x = o THEN 1 ELSE 0)
    BY <1>1 DEF Plus, ghosts
  <2>6. rc[x] \in Nat /\ stolen[x] \in Nat /\ leaked[x] \in Nat BY DEF OwnInv, Typed
  <2>7. CASE x = o
    <3>1. /\ life[x] = "live" /\ rc'[x] = rc[x] + 1 /\ Owners(x)' = Owners(x) + 1
          /\ rc[x] + stolen[x] = Owners(x) + leaked[x]
      BY <2>3, <2>4, <2>5, <2>7 DEF Sound
    <3>2. /\ life'[x] = "live" /\ rc'[x] > 0
          /\ rc'[x] + stolen'[x] = Owners(x)' + leaked'[x]
      BY ONLY <2>1, <2>5, <2>6, <3>1
    <3> QED BY <3>2, SoundLive
  <2>8. CASE x # o BY <2>1, <2>3, <2>4, <2>5, <2>6, <2>8, SoundSame
  <2> QED BY <2>7, <2>8
<1> QED BY <1>6, <1>7

(* Logger.log_attribute                                                    *)
LEMMA LogAttributeKept ==
  ASSUME OwnInv, NEW l \in Loggers, NEW o \in Named, LogAttribute(l, o)
  PROVE  OwnInv'
<1>1. o \in Objects /\ l \in Holders /\ l \notin Sims BY Types DEF Objects, Named, Holders
<1>2. /\ refs' \in [Holders -> RefLists] /\ rc' \in [Objects -> Nat]
      /\ \A x \in Objects : Sound(x)'
  BY <1>1, AppendKept DEF LogAttribute, Has
<1>3. Typed' BY <1>2 DEF OwnInv, Typed, LogAttribute, ghosts
<1>4. HoldersSound'
  <2>1. \A s \in Sims : refs'[s] = refs[s] BY <1>1 DEF OwnInv, Typed, LogAttribute
  <2> QED BY <2>1 DEF OwnInv, HoldersSound, LogAttribute
<1>5. DictMatchesSystem' BY SameDicts DEF OwnInv, LogAttribute
<1> QED BY <1>2, <1>3, <1>4, <1>5 DEF OwnInv

(* Simulation.add_interface: the pointer comes with the reference.         *)
LEMMA AddInterfaceKept ==
  ASSUME OwnInv, NEW s \in Sims, NEW i \in Ifaces, AddInterface(s, i)
  PROVE  OwnInv'
<1>1. i \in Objects /\ s \in Holders BY DEF Objects, Holders
<1>2. /\ refs' \in [Holders -> RefLists] /\ rc' \in [Objects -> Nat]
      /\ \A x \in Objects : Sound(x)'
  BY <1>1, AppendKept DEF AddInterface, Has
<1>3. Typed' BY <1>2 DEF OwnInv, Typed, AddInterface, ghosts
<1>4. HoldersSound'
  <2>1. ASSUME NEW z \in Sims, NEW j \in raw'[z]
        PROVE  \E k \in DOMAIN refs'[z] : refs'[z][k] = j
    <3>1. refs[z] \in Seq(Objects) BY DEF OwnInv, Typed, RefLists, Holders
    <3>2. j \in raw[z] => \E k \in DOMAIN refs[z] : refs[z][k] = j BY DEF OwnInv, HoldersSound
    <3>3. CASE z # s
      <4>1. raw'[z] = raw[z] /\ refs'[z] = refs[z]
        BY <3>3 DEF OwnInv, Typed, AddInterface, Holders
      <4> QED BY <3>2, <4>1
    <3>4. CASE z = s
      <4>1. refs'[z] = Append(refs[z], i) /\ raw'[z] = raw[z] \union {i}
        BY <3>4 DEF OwnInv, Typed, AddInterface, Holders
      <4>2. /\ DOMAIN Append(refs[z], i) = 1 .. Len(refs[z]) + 1
            /\ DOMAIN refs[z] = 1 .. Len(refs[z]) /\ Len(refs[z]) \in Nat
            /\ Append(refs[z], i)[Len(refs[z]) + 1] = i
            /\ \A k \in 1 .. Len(refs[z]) : Append(refs[z], i)[k] = refs[z][k]
        BY <1>1, <3>1
      <4>3. CASE j = i BY <4>1, <4>2, <4>3
      <4>4. CASE j \in raw[z] BY <3>2, <4>1, <4>2, <4>4
      <4> QED BY <4>1, <4>3, <4>4
    <3> QED BY <3>3, <3>4
  <2> QED BY <2>1 DEF OwnInv, HoldersSound, AddInterface
<1>5. DictMatchesSystem' BY SameDicts DEF OwnInv, AddInterface
<1> QED BY <1>2, <1>3, <1>4, <1>5 DEF OwnInv

(* Simulation.__init__, accepted and refused                               *)
LEMMA NewSimulationKept ==
  ASSUME OwnInv, NEW s \in Sims, NEW y \in Objects, NEW valid \in BOOLEAN,
         NewSimulation(s, y, valid)
  PROVE  OwnInv'
<1>1. /\ s \in Objects /\ s \notin Topos /\ s # Gnd /\ s # y /\ todo = <<>>
      /\ life[s] = "none" /\ life[y] = "live" /\ pySys[s] = Nobody /\ Nobody \notin Objects
  BY Types, ObjectAssumption DEF NewSimulation, Has, Idle, Objects, OwnInv, HoldersSound
<1>2. /\ rc \in [Objects -> Nat] /\ stolen \in [Objects -> Nat] /\ leaked' = leaked
      /\ life' = [life EXCEPT ![s] = "live"] /\ pySys' = [pySys EXCEPT ![s] = y]
      /\ UNCHANGED <<dict, sys, refs, raw, gnd>>
  BY DEF OwnInv, Typed, NewSimulation
<1>3. s \notin user BY <1>1, NoReference DEF OwnInv
<1>4. /\ rc' \in [Objects -> Nat] /\ stolen' \in [Objects -> Nat]
      /\ user' \subseteq user \union {s} /\ todo' \in Seq(Objects)
      /\ \A x \in Objects :
           /\ rc'[x] + stolen'[x] = rc[x] + stolen[x] + One(x = s) + One(x = y)
           /\ rc'[x] >= rc[x] + One(x = s)
           /\ x # s /\ x # y => rc'[x] = rc[x] /\ stolen'[x] = stolen[x]
           /\ One(x \in user') - One(x \in user) + Occurrences(todo', x) - Occurrences(todo, x)
                = One(x = s)
  <2>1. Occurrences(todo, s) = 0 BY <1>1, OccursShort
  <2>2. CASE valid
    <3>1. /\ rc' = Plus(Plus(rc, s, 1), y, 1) /\ user' = user \union {s}
          /\ todo' = todo /\ stolen' = stolen
      BY <2>2 DEF NewSimulation
    <3>2. rc' \in [Objects -> Nat] BY <1>1, <1>2, <3>1 DEF Plus
    <3>3. ASSUME NEW x \in Objects
          PROVE  /\ rc'[x] = rc[x] + One(x = s) + One(x = y) /\ rc[x] \in Nat
                 /\ stolen[x] \in Nat /\ Occurrences(todo, x) = 0
                 /\ One(x \in user') - One(x \in user) = One(x = s)
      BY <1>1, <1>2, <1>3, <3>1, OccursShort DEF Plus, One
    <3>4. todo' \in Seq(Objects) BY <1>1, <3>1
    <3>5. \A x \in Objects :
           /\ rc'[x] + stolen'[x] = rc[x] + stolen[x] + One(x = s) + One(x = y)
           /\ rc'[x] >= rc[x] + One(x = s)
           /\ x # s /\ x # y => rc'[x] = rc[x] /\ stolen'[x] = stolen[x]
           /\ One(x \in user') - One(x \in user) + Occurrences(todo', x) - Occurrences(todo, x)
                = One(x = s)
      <4> SUFFICES ASSUME NEW x \in Objects
                   PROVE  /\ rc'[x] + stolen'[x] = rc[x] + stolen[x] + One(x = s) + One(x = y)
                          /\ rc'[x] >= rc[x] + One(x = s)
                          /\ x # s /\ x # y => rc'[x] = rc[x] /\ stolen'[x] = stolen[x]
                          /\ One(x \in user') - One(x \in user)
                               + Occurrences(todo', x) - Occurrences(todo, x) = One(x = s)
        OBVIOUS
      <4>1. stolen'[x] = stolen[x] /\ Occurrences(todo', x) = 0 BY <3>1, <3>3
      <4>2. /\ One(x = s) \in Nat /\ One(x = y) \in Nat
            /\ x # s => One(x = s) = 0
            /\ x # y => One(x = y) = 0
        BY DEF One
      <4> QED BY <3>3, <4>1, <4>2 DEF One
    <3> QED BY <1>2, <3>1, <3>2, <3>4, <3>5
  <2>3. CASE ~valid
    <3>1. /\ rc' = Plus(rc, s, 1) /\ user' = user
          /\ todo' = <<s>> /\ stolen' = Plus(stolen, y, 1)
      BY <2>3 DEF NewSimulation
    <3>2. rc' \in [Objects -> Nat] /\ stolen' \in [Objects -> Nat] BY <1>1, <1>2, <3>1 DEF Plus
    <3>3. ASSUME NEW x \in Objects
          PROVE  /\ rc'[x] = rc[x] + One(x = s) /\ rc[x] \in Nat
                 /\ stolen'[x] = stolen[x] + One(x = y) /\ stolen[x] \in Nat
                 /\ One(x \in user') = One(x \in user) /\ One(x \in user) \in Nat
      BY <1>1, <1>2, <3>1 DEF Plus, One
    <3>4. \A x \in Objects : Occurrences(todo, x) = 0 /\ Occurrences(todo', x) = One(x = s)
      BY <1>1, <3>1, OccursShort
    <3>5. todo' \in Seq(Objects) BY <1>1, <3>1
    <3>6. \A x \in Objects :
           /\ rc'[x] + stolen'[x] = rc[x] + stolen[x] + One(x = s) + One(x = y)
           /\ rc'[x] >= rc[x] + One(x = s)
           /\ x # s /\ x # y => rc'[x] = rc[x] /\ stolen'[x] = stolen[x]
      BY <3>3 DEF One
    <3>7. \A x \in Objects :
            One(x \in user') - One(x \in user) + Occurrences(todo', x) - Occurrences(todo, x)
                = One(x = s)
      BY <3>3, <3>4 DEF One
    <3> QED BY <3>1, <3>2, <3>5, <3>6, <3>7
  <2> QED BY <2>2, <2>3
<1>5. Typed' BY <1>1, <1>2, <1>4 DEF OwnInv, Typed
<1>6. ASSUME NEW x \in Objects PROVE Sound(x)'
  <2>1. Owners(x) \in Nat
        /\ Owners(x)' = Owners(x) - One(x \in user) + One(x \in user')
                          - Occurrences(todo, x) + Occurrences(todo', x)
                          - One(x = pySys[s]) + One(x = y)
    BY <1>2, <1>4, OwnersPySys DEF OwnInv, One
  <2>2. Occurrences(todo, x) \in Nat /\ Occurrences(todo', x) \in Nat
    BY <1>4, OccursNat DEF OwnInv, Typed
  <2>3. One(x = pySys[s]) = 0 BY <1>1 DEF One
  <2>4. Owners(x)' = Owners(x) + One(x = s) + One(x = y)
    <3>1. One(x \in user) \in Nat /\ One(x \in user') \in Nat /\ One(x = y) \in Nat
          /\ One(x = s) \in Nat
      BY DEF One
    <3>2. One(x \in user') - One(x \in user) + Occurrences(todo', x) - Occurrences(todo, x)
            = One(x = s)
      BY <1>4
    <3> QED BY ONLY <2>1, <2>2, <2>3, <3>1, <3>2
  <2>5. Sound(x) BY DEF OwnInv
  <2>6. rc[x] \in Nat /\ stolen[x] \in Nat /\ leaked[x] \in Nat /\ rc'[x] \in Nat
        /\ stolen'[x] \in Nat
    BY <1>4 DEF OwnInv, Typed
  <2>7. CASE x # s /\ x # y
    <3>1. life'[x] = life[x] /\ Owners(x)' = Owners(x) BY <1>2, <2>1, <2>4, <2>7 DEF One
    <3> QED BY <1>2, <1>4, <2>5, <2>7, <3>1, SoundSame
  <2>8. CASE x = s \/ x = y
    <3>1. life'[x] = "live" BY <1>1, <1>2, <2>8 DEF OwnInv, Typed
    <3>2. rc'[x] + stolen'[x] = rc[x] + stolen[x] + One(x = s) + One(x = y)
          /\ rc'[x] >= rc[x] + One(x = s)
      BY <1>4
    <3>3. rc[x] + stolen[x] = Owners(x) + leaked[x] /\ (x = y => rc[x] > 0)
      BY <1>1, <2>5, <2>8 DEF Sound
    <3>4. One(x = s) \in Nat /\ One(x = y) \in Nat /\ (x = s => One(x = s) = 1) BY DEF One
    <3>5. rc'[x] > 0 /\ rc'[x] + stolen'[x] = Owners(x)' + leaked[x]
      BY ONLY <2>1, <2>4, <2>6, <2>8, <3>2, <3>3, <3>4
    <3> QED BY <1>2, <3>1, <3>5, SoundLive
  <2> QED BY <2>7, <2>8
<1>7. HoldersSound'
  <2>1. life \in [Objects -> {"none", "live", "freed"}]
        /\ pySys \in [Sims -> Objects \union {Nobody}] /\ Gnd \in Objects
    BY ObjectAssumption DEF OwnInv, Typed, Objects
  <2>2. /\ \A o \in Objects : life'[o] = "none" => life[o] = "none" /\ o # s
        /\ life'[Gnd] = life[Gnd]
    BY <1>1, <1>2, <2>1
  <2>3. \A z \in Sims : z # s => pySys'[z] = pySys[z] BY <1>2, <2>1
  <2>4. \A z \in Sims \union Topos : z \in Objects BY DEF Objects
  <2> QED BY <1>2, <2>2, <2>3, <2>4 DEF OwnInv, HoldersSound
<1>8. DictMatchesSystem' BY <1>1, <1>2, <1>4, SameDicts DEF OwnInv
<1> QED BY <1>5, <1>6, <1>7, <1>8 DEF OwnInv

(* A list with one more element.                                           *)
LEMMA AppendSet ==
  ASSUME NEW S, NEW q \in Seq(S), NEW o \in S
  PROVE  /\ ToSet(Append(q, o)) = ToSet(q) \union {o}
         /\ IsInjective(q) /\ o \notin ToSet(q) => IsInjective(Append(q, o))
<1> DEFINE e == Append(q, o)
<1>1. /\ Len(q) \in Nat /\ DOMAIN q = 1 .. Len(q) /\ DOMAIN e = 1 .. Len(q) + 1
      /\ e[Len(q) + 1] = o /\ \A i \in 1 .. Len(q) : e[i] = q[i]
  OBVIOUS
<1> HIDE DEF e
<1>2. ToSet(e) = {e[i] : i \in DOMAIN e} /\ ToSet(q) = {q[i] : i \in DOMAIN q} BY DEF ToSet
<1>3. ToSet(e) = ToSet(q) \union {o}
  <2>1. o \in ToSet(e) BY <1>1, <1>2
  <2>2. \A z \in ToSet(q) : z \in ToSet(e) BY <1>1, <1>2
  <2>3. \A z \in ToSet(e) : z \in ToSet(q) \union {o} BY <1>1, <1>2
  <2> QED BY <2>1, <2>2, <2>3
<1>4. ASSUME IsInjective(q), o \notin ToSet(q) PROVE IsInjective(e)
  <2>1. \A i, j \in DOMAIN q : q[i] = q[j] => i = j BY <1>4 DEF IsInjective
  <2>2. \A i \in DOMAIN q : q[i] # o BY <1>2, <1>4
  <2>3. \A i, j \in DOMAIN e : e[i] = e[j] => i = j BY <1>1, <2>1, <2>2
  <2> QED BY <2>3 DEF IsInjective
<1> QED BY <1>3, <1>4 DEF e

(* add_component and add_node                                              *)
LEMMA AddKept ==
  ASSUME OwnInv, NEW t \in Topos, NEW o \in Named, Add(t, o)
  PROVE  OwnInv'
<1>1. o \in Objects /\ t \in Objects /\ life[t] = "live" /\ life[o] = "live"
  BY DEF Objects, Named, Add, Has
<1>2. /\ dict \in [Topos -> SUBSET Named] /\ sys \in [Topos -> Seq(Named)]
      /\ stolen \in [Objects -> Nat]
  BY DEF OwnInv, Typed
<1>3. /\ dict' = [dict EXCEPT ![t] = dict[t] \union {o}]
      /\ sys' = [sys EXCEPT ![t] = Append(sys[t], o)]
      /\ stolen' = Plus(stolen, o, 1)
      /\ UNCHANGED <<life, rc, user, refs, pySys, raw, gnd, todo, leaked>>
  BY DEF Add, mem
<1>4. \A x \in dict[t] : Key(x) # Key(o) BY DEF Add, Taken
<1>5. Typed'
  <2>1. stolen' \in [Objects -> Nat] BY <1>1, <1>2, <1>3 DEF Plus
  <2>2. dict' \in [Topos -> SUBSET Named] BY <1>2, <1>3
  <2>3. sys' \in [Topos -> Seq(Named)]
    <3>1. Append(sys[t], o) \in Seq(Named) BY <1>2
    <3> QED BY <1>2, <1>3, <3>1
  <2> QED BY <1>3, <2>1, <2>2, <2>3 DEF OwnInv, Typed
<1>6. ASSUME NEW x \in Objects PROVE Sound(x)'
  <2>1. Owners(x) \in Nat
        /\ Owners(x)' = Owners(x) - One(x \in user) + One(x \in user')
                          - Occurrences(todo, x) + Occurrences(todo', x)
                          - One(x \in dict[t]) + One(x \in dict[t] \union {o})
    BY <1>3, <1>5, OwnersDict DEF OwnInv, Typed
  <2>2. Occurrences(todo, x) \in Nat /\ Occurrences(todo', x) = Occurrences(todo, x)
    BY <1>3, OccursNat DEF OwnInv, Typed
  <2>3. o \notin dict[t] BY <1>4
  <2>4. Owners(x)' = Owners(x) + (IF x = o THEN 1 ELSE 0)
    BY <1>3, <2>1, <2>2, <2>3 DEF One
  <2>5. Sound(x) BY DEF OwnInv
  <2>6. rc[x] \in Nat /\ stolen[x] \in Nat /\ leaked[x] \in Nat BY DEF OwnInv, Typed
  <2>7. stolen'[x] = stolen[x] + (IF x = o THEN 1 ELSE 0) BY <1>2, <1>3, <2>6 DEF Plus
  <2>8. CASE x = o
    <3>1. /\ life'[x] = "live" /\ rc'[x] > 0
          /\ rc'[x] + stolen'[x] = Owners(x)' + leaked'[x]
      BY <1>1, <1>3, <2>1, <2>4, <2>5, <2>6, <2>7, <2>8 DEF Sound
    <3> QED BY <3>1, SoundLive
  <2>9. CASE x # o BY <1>3, <2>1, <2>4, <2>5, <2>6, <2>7, <2>9, SoundSame
  <2> QED BY <2>8, <2>9
<1>7. HoldersSound' BY <1>1, <1>2, <1>3 DEF OwnInv, HoldersSound
<1>8. DictMatchesSystem'
  <2> SUFFICES ASSUME NEW u \in Topos, u \in user'
               PROVE  /\ ToSet(sys'[u]) = dict'[u]
                      /\ \A x, y \in dict'[u] : Key(x) = Key(y) => x = y
                      /\ IsInjective(sys'[u])
    BY DEF DictMatchesSystem, Key
  <2>1. /\ ToSet(sys[u]) = dict[u]
        /\ \A x, y \in dict[u] : Key(x) = Key(y) => x = y
        /\ IsInjective(sys[u])
    BY <1>3 DEF OwnInv, DictMatchesSystem
  <2>2. CASE u # t
    <3>1. sys'[u] = sys[u] /\ dict'[u] = dict[u] BY <1>2, <1>3, <2>2
    <3> QED BY <2>1, <3>1
  <2>3. CASE u = t
    <3>1. sys'[u] = Append(sys[u], o) /\ dict'[u] = dict[u] \union {o} BY <1>2, <1>3, <2>3
    <3>2. sys[u] \in Seq(Named) /\ o \notin ToSet(sys[u]) BY <1>2, <1>4, <2>1, <2>3
    <3>3. ToSet(sys'[u]) = dict'[u] /\ IsInjective(sys'[u])
      BY <2>1, <3>1, <3>2, AppendSet
    <3>4. \A x, y \in dict'[u] : Key(x) = Key(y) => x = y BY <1>4, <2>1, <2>3, <3>1
    <3> QED BY <3>3, <3>4
  <2> QED BY <2>2, <2>3
<1> QED BY <1>5, <1>6, <1>7, <1>8 DEF OwnInv

(* The elements of a list.                                                 *)
LEMMA SetOfSeq ==
  ASSUME NEW S, NEW q \in Seq(S)
  PROVE  ToSet(q) \subseteq S
<1>1. ToSet(q) = {q[i] : i \in DOMAIN q} BY DEF ToSet
<1>2. \A i \in DOMAIN q : q[i] \in S OBVIOUS
<1> QED BY <1>1, <1>2

(* The elements of a list that starts with another.                        *)
LEMMA ConcatSet ==
  ASSUME NEW S, NEW q \in Seq(S), NEW r \in Seq(S)
  PROVE  q \o r \in Seq(S) /\ ToSet(q) \subseteq ToSet(q \o r)
<1> DEFINE e == q \o r
<1>1. /\ Len(q) \in Nat /\ Len(r) \in Nat /\ DOMAIN q = 1 .. Len(q)
      /\ DOMAIN e = 1 .. Len(q) + Len(r) /\ e \in Seq(S)
  OBVIOUS
<1>2. \A i \in 1 .. Len(q) : e[i] = q[i] BY ConcatProperties
<1> HIDE DEF e
<1>3. ToSet(e) = {e[i] : i \in DOMAIN e} /\ ToSet(q) = {q[i] : i \in DOMAIN q} BY DEF ToSet
<1>4. \A i \in DOMAIN q : i \in DOMAIN e BY <1>1
<1>5. ToSet(q) \subseteq ToSet(e) BY <1>1, <1>2, <1>3, <1>4
<1> QED BY <1>1, <1>5 DEF e

(* SystemTopology.__init__, accepted and refused                           *)
LEMMA NewTopologyKept ==
  ASSUME OwnInv, NEW t \in Topos, NEW ns \in UpTo(2, Nodes), NEW cs \in UpTo(2, Comps),
         NEW bad \in {"none", "nodes", "comps"}, NewTopology(t, ns, cs, bad)
  PROVE  OwnInv'
<1>1. PICK g : g = Given(ns, cs, bad) OBVIOUS
<1>2. PICK S : S = ToSet(Entries(g)) OBVIOUS
<1>3. PICK ok \in BOOLEAN : ok <=> bad = "none" /\ Entries(g) = g OBVIOUS
<1>4. ns \o cs \in Seq(Named) /\ g \in Seq(Named) /\ ToSet(g) \subseteq ToSet(ns \o cs)
  <2>1. ns \in Seq(Nodes) /\ cs \in Seq(Comps) BY UpToSeq
  <2>2. ns \in Seq(Named) /\ cs \in Seq(Named) BY <2>1 DEF Named
  <2>3. ns \o cs \in Seq(Named) /\ ToSet(ns) \subseteq ToSet(ns \o cs) BY <2>2, ConcatSet
  <2>4. g = <<>> \/ g = ns \/ g = ns \o cs BY <1>1 DEF Given
  <2>5. ToSet(<<>>) = {} BY DEF ToSet
  <2>6. CASE g = <<>> BY <2>3, <2>5, <2>6
  <2>7. CASE g = ns BY <2>2, <2>3, <2>7
  <2>8. CASE g = ns \o cs BY <2>3, <2>8
  <2> QED BY <2>4, <2>6, <2>7, <2>8
<1>5. /\ S \subseteq ToSet(g) /\ IsInjective(Entries(g))
      /\ \A x, y \in S : Key(x) = Key(y) => x = y
  BY <1>2, <1>4, EntriesKnown
<1>6. \A o \in S : o \in Named /\ life[o] = "live"
  <2>1. \A o \in ToSet(ns \o cs) : Has(o) BY DEF NewTopology
  <2>2. S \subseteq Named BY <1>2, <1>4, EntriesKnown, SetOfSeq
  <2> QED BY <1>4, <1>5, <2>1, <2>2 DEF Has
<1>7. /\ t \in Objects /\ t \notin Named /\ t \notin S /\ t # Gnd /\ t \notin Sims
      /\ life[t] = "none" /\ todo = <<>>
  BY <1>6, Types, ObjectAssumption DEF Objects, Named, NewTopology, Idle
<1>8. t \notin user /\ dict[t] = {} BY <1>7, NoReference DEF OwnInv, HoldersSound
<1>9. /\ life' = [life EXCEPT ![t] = "live"] /\ rc' = Plus(Counted(rc, S, 1), t, 1)
      /\ dict' = [dict EXCEPT ![t] = S]
      /\ UNCHANGED <<refs, pySys, raw, gnd, stolen, leaked>>
  BY <1>1, <1>2 DEF NewTopology, ghosts
<1>10. /\ ok => sys' = [sys EXCEPT ![t] = g] /\ user' = user \union {t} /\ todo' = todo
       /\ ~ok => todo' = <<t>> /\ sys' = sys /\ user' = user
  BY <1>1, <1>3 DEF NewTopology
<1>11. todo' \in Seq(Objects)
  <2>1. <<t>> \in Seq(Objects) /\ todo \in Seq(Objects) BY <1>7 DEF OwnInv, Typed
  <2> QED BY <1>10, <2>1
<1>12. Typed'
  <2>1. /\ rc \in [Objects -> Nat] /\ dict \in [Topos -> SUBSET Named]
        /\ sys \in [Topos -> Seq(Named)] /\ life \in [Objects -> {"none", "live", "freed"}]
        /\ user \subseteq Objects
    BY DEF OwnInv, Typed
  <2>2. rc' \in [Objects -> Nat]
    <3>1. Counted(rc, S, 1) \in [Objects -> Nat] BY <2>1 DEF Counted
    <3> QED BY <1>7, <1>9, <3>1 DEF Plus
  <2>3. dict' \in [Topos -> SUBSET Named] BY <1>6, <1>9, <2>1
  <2>4. sys' \in [Topos -> Seq(Named)]
    <3>1. CASE ok BY <1>4, <1>10, <2>1, <3>1
    <3>2. CASE ~ok BY <1>10, <2>1, <3>2
    <3> QED BY <3>1, <3>2
  <2>5. life' \in [Objects -> {"none", "live", "freed"}] /\ user' \subseteq Objects
    BY <1>7, <1>9, <1>10, <2>1
  <2> QED BY <1>9, <1>11, <2>2, <2>3, <2>4, <2>5 DEF OwnInv, Typed
<1>13. ASSUME NEW x \in Objects PROVE Sound(x)'
  <2>1. Owners(x) \in Nat
        /\ Owners(x)' = Owners(x) - One(x \in user) + One(x \in user')
                          - Occurrences(todo, x) + Occurrences(todo', x)
                          - One(x \in dict[t]) + One(x \in S)
    BY <1>9, <1>11, OwnersDict DEF OwnInv
  <2>2. Occurrences(todo, x) = 0 /\ Occurrences(<<t>>, x) = One(x = t)
    BY <1>7, OccursShort
  <2>3. One(x \in user') - One(x \in user) + Occurrences(todo', x) = One(x = t)
    <3>1. CASE ok BY <1>8, <1>10, <2>2, <3>1 DEF One
    <3>2. CASE ~ok BY <1>8, <1>10, <2>2, <3>2 DEF One
    <3> QED BY <3>1, <3>2
  <2>4. Owners(x)' = Owners(x) + One(x = t) + One(x \in S)
    <3>1. /\ One(x \in user) \in Nat /\ One(x \in user') \in Nat /\ One(x \in dict[t]) = 0
          /\ One(x \in S) \in Nat /\ One(x = t) \in Nat
      BY <1>8 DEF One
    <3>2. Occurrences(todo', x) \in Nat BY <1>11, OccursNat
    <3> QED BY ONLY <2>1, <2>2, <2>3, <3>1, <3>2
  <2>5. rc[x] \in Nat /\ stolen[x] \in Nat /\ leaked[x] \in Nat BY DEF OwnInv, Typed
  <2>6. rc'[x] = rc[x] + One(x = t) + One(x \in S)
    <3>1. Counted(rc, S, 1) = [o \in Objects |-> rc[o] + IF o \in S THEN 1 ELSE 0] BY DEF Counted
    <3> QED BY <1>7, <1>9, <2>5, <3>1 DEF Plus, One
  <2>7. Sound(x) BY DEF OwnInv
  <2>8. CASE x # t /\ x \notin S
    <3>1. life'[x] = life[x] /\ rc'[x] = rc[x] /\ Owners(x)' = Owners(x)
      BY <1>9, <2>1, <2>4, <2>5, <2>6, <2>8 DEF One
    <3> QED BY <1>9, <2>7, <3>1, SoundSame
  <2>9. CASE x = t \/ x \in S
    <3>1. life'[x] = "live" BY <1>6, <1>7, <1>9, <2>9 DEF OwnInv, Typed
    <3>2. rc[x] + stolen[x] = Owners(x) + leaked[x]
      BY <1>6, <1>7, <2>5, <2>7, <2>9 DEF Sound
    <3>3. One(x \in S) \in Nat /\ One(x = t) \in Nat /\ One(x \in S) + One(x = t) > 0
      BY <2>9 DEF One
    <3>4. rc'[x] > 0 /\ rc'[x] + stolen[x] = Owners(x)' + leaked[x]
      BY ONLY <2>1, <2>4, <2>5, <2>6, <3>2, <3>3
    <3> QED BY <1>9, <3>1, <3>4, SoundLive
  <2> QED BY <2>8, <2>9
<1>14. HoldersSound'
  <2>1. /\ life \in [Objects -> {"none", "live", "freed"}] /\ dict \in [Topos -> SUBSET Named]
        /\ Gnd \in Objects
    BY ObjectAssumption DEF OwnInv, Typed, Objects
  <2>2. /\ \A o \in Objects : life'[o] = "none" => life[o] = "none" /\ o # t
        /\ life'[Gnd] = life[Gnd]
    BY <1>7, <1>9, <2>1
  <2>3. \A z \in Topos : z # t => dict'[z] = dict[z] BY <1>9, <2>1
  <2>4. \A z \in Sims \union Topos : z \in Objects BY DEF Objects
  <2> QED BY <1>9, <2>2, <2>3, <2>4 DEF OwnInv, HoldersSound
<1>15. DictMatchesSystem'
  <2> SUFFICES ASSUME NEW u \in Topos, u \in user'
               PROVE  /\ ToSet(sys'[u]) = dict'[u]
                      /\ \A x, y \in dict'[u] : Key(x) = Key(y) => x = y
                      /\ IsInjective(sys'[u])
    BY DEF DictMatchesSystem, Key
  <2>1. sys \in [Topos -> Seq(Named)] /\ dict \in [Topos -> SUBSET Named] BY DEF OwnInv, Typed
  <2>2. CASE u # t
    <3>1. sys'[u] = sys[u] /\ dict'[u] = dict[u] /\ u \in user BY <1>9, <1>10, <2>1, <2>2
    <3> QED BY <3>1 DEF OwnInv, DictMatchesSystem
  <2>3. CASE u = t
    <3>1. ok BY <1>8, <1>10, <2>3
    <3>2. sys'[u] = g /\ dict'[u] = S /\ Entries(g) = g
      BY <1>3, <1>9, <1>10, <2>1, <2>3, <3>1
    <3> QED BY <1>2, <1>5, <3>2
  <2> QED BY <2>2, <2>3
<1> QED BY <1>12, <1>13, <1>14, <1>15 DEF OwnInv

(* An empty list of filenames.                                             *)
LEMMA LoadCimEmptyKept ==
  ASSUME OwnInv, NEW f \in Lists, LoadCimEmpty(f)
  PROVE  OwnInv'
<1>1. /\ f \in Objects /\ f # Nobody /\ todo = <<>> /\ todo' = <<f>>
      /\ life[f] = "live" /\ stolen' = Plus(stolen, f, 1)
      /\ UNCHANGED <<mem, user, holders, leaked>>
  BY ObjectAssumption DEF LoadCimEmpty, ReleaseFilenames, Idle, Has, Objects
<1>2. UNCHANGED <<life, rc, user, dict, sys, refs, pySys, raw, gnd, leaked>>
  BY <1>1 DEF mem, holders
<1>3. Typed' BY <1>1, <1>2 DEF OwnInv, Typed, Plus
<1>4. ASSUME NEW x \in Objects PROVE Sound(x)'
  <2>1. Owners(x) \in Nat
        /\ Owners(x)' = Owners(x) - One(x \in user) + One(x \in user')
                          - One(gnd /\ x = Gnd) + One(gnd' /\ x = Gnd)
                          - Occurrences(todo, x) + Occurrences(todo', x)
    BY <1>1, <1>2, <1>3, OwnersVariables DEF OwnInv, Typed
  <2>2. Occurrences(todo, x) = 0 /\ Occurrences(todo', x) = One(x = f)
    BY <1>1, OccursShort
  <2>3. /\ One(x \in user') = One(x \in user) /\ One(gnd' /\ x = Gnd) = One(gnd /\ x = Gnd)
        /\ One(x \in user) \in Nat /\ One(gnd /\ x = Gnd) \in Nat /\ One(x = f) \in Nat
    BY <1>2 DEF One
  <2>4. Owners(x)' = Owners(x) + One(x = f) BY ONLY <2>1, <2>2, <2>3
  <2>5. rc[x] \in Nat /\ stolen[x] \in Nat /\ leaked[x] \in Nat BY DEF OwnInv, Typed
  <2>6. stolen'[x] = stolen[x] + One(x = f) BY <1>1, <2>5 DEF OwnInv, Typed, Plus, One
  <2>7. Sound(x) BY DEF OwnInv
  <2>8. CASE x # f
    <3>1. Owners(x)' = Owners(x) /\ stolen'[x] = stolen[x]
      BY <2>1, <2>4, <2>5, <2>6, <2>8 DEF One
    <3> QED BY <1>2, <2>7, <3>1 DEF Sound
  <2>9. CASE x = f
    <3>1. rc[x] > 0 /\ rc[x] + stolen[x] = Owners(x) + leaked[x]
      BY <1>1, <2>7, <2>9 DEF Sound
    <3>2. Owners(x)' = Owners(x) + 1 /\ stolen'[x] = stolen[x] + 1
      BY <2>4, <2>6, <2>9 DEF One
    <3>3. rc'[x] > 0 /\ rc'[x] + stolen'[x] = Owners(x)' + leaked'[x]
      BY <1>2, <2>1, <2>5, <3>1, <3>2
    <3>4. life'[x] = "live" BY <1>1, <1>2, <2>9
    <3> QED BY <3>3, <3>4, SoundLive
  <2> QED BY <2>8, <2>9
<1>5. HoldersSound' BY <1>2 DEF OwnInv, HoldersSound
<1>6. DictMatchesSystem' BY <1>2, SameDicts DEF OwnInv
<1> QED BY <1>3, <1>4, <1>5, <1>6 DEF OwnInv

(* load_cim                                                                *)
LEMMA LoadCimKept ==
  ASSUME OwnInv, NEW t \in Topos, NEW f \in Lists \union {Nobody}, NEW s \in Seq(Named), NEW valid \in BOOLEAN,
         Gnd \notin ToSet(s), LoadCim(t, f, s, valid)
  PROVE  OwnInv'
<1>1. PICK S : S = IF valid THEN ToSet(Entries(s)) ELSE {} OBVIOUS
<1>2. PICK full \in BOOLEAN : full <=> valid /\ Entries(s) = s OBVIOUS
<1>3. /\ S \subseteq ToSet(s) /\ S \subseteq Named /\ IsInjective(Entries(s))
      /\ \A x, y \in S : Key(x) = Key(y) => x = y
  <2>1. Entries(s) \in Seq(Named) /\ ToSet(Entries(s)) \subseteq ToSet(s)
        /\ IsInjective(Entries(s))
        /\ \A x, y \in ToSet(Entries(s)) : Key(x) = Key(y) => x = y
    BY EntriesKnown
  <2>2. ToSet(Entries(s)) \subseteq Named BY <2>1, SetOfSeq
  <2>3. CASE valid BY <1>1, <2>1, <2>2, <2>3
  <2>4. CASE ~valid BY <1>1, <2>1, <2>4
  <2> QED BY <2>3, <2>4
<1>4. /\ t \in Objects /\ t \notin Named /\ t \notin S /\ t # Gnd /\ t \notin Sims
      /\ f # t /\ f \notin S /\ (f # Nobody => f \in Objects /\ life[f] = "live")
      /\ life[t] = "none" /\ todo = <<>> /\ Nobody \notin Objects
      /\ \A o \in S : life[o] = "none" /\ o \in Objects /\ o \notin Sims /\ o \notin Topos
  <2>1. \A o \in S : life[o] = "none" /\ o \in Objects BY <1>3 DEF LoadCim, Objects, Named
  <2>2. \A o \in Named : o \notin Sims /\ o \notin Topos /\ o \notin Lists BY Types DEF Named
  <2>3. /\ t \in Objects /\ t # Gnd /\ t \notin Sims /\ Nobody \notin Objects
        /\ f # Nobody => f \in Objects /\ f \notin Topos /\ f \in Lists
    BY Types, ObjectAssumption DEF Objects
  <2> QED BY <1>3, <2>1, <2>2, <2>3 DEF LoadCim, ReleaseFilenames, Idle, Has
<1>5. t \notin user /\ dict[t] = {} BY <1>4, NoReference DEF OwnInv, HoldersSound
<1>6. /\ life' = [o \in Objects |-> IF o \in S \union {t} THEN "live" ELSE life[o]]
      /\ rc' = Plus(Counted(rc, S, 2), t, IF full THEN 2 ELSE 1)
      /\ dict' = [dict EXCEPT ![t] = S]
      /\ leaked' = Plus(Counted(leaked, S, 1), t, 1)
      /\ stolen' = IF f = Nobody THEN stolen ELSE Plus(stolen, f, 1)
      /\ todo' = IF f = Nobody THEN <<>> ELSE <<f>>
      /\ UNCHANGED <<refs, pySys, raw, gnd>>
  BY <1>1, <1>2, <1>4 DEF LoadCim, ReleaseFilenames
<1>7. /\ sys' = sys \/ sys' = [sys EXCEPT ![t] = s]
      /\ full => sys' = [sys EXCEPT ![t] = s]
      /\ user' = IF full THEN user \union {t} ELSE user
  BY <1>2 DEF LoadCim
<1>8. todo' \in Seq(Objects) BY <1>4, <1>6
<1>9. /\ rc \in [Objects -> Nat] /\ dict \in [Topos -> SUBSET Named]
      /\ sys \in [Topos -> Seq(Named)] /\ life \in [Objects -> {"none", "live", "freed"}]
      /\ user \subseteq Objects /\ leaked \in [Objects -> Nat] /\ stolen \in [Objects -> Nat]
  BY DEF OwnInv, Typed
<1>10. Typed'
  <2>1. rc' \in [Objects -> Nat]
    <3>1. Counted(rc, S, 2) \in [Objects -> Nat] BY <1>9 DEF Counted
    <3>2. (IF full THEN 2 ELSE 1) \in Nat OBVIOUS
    <3> QED BY <1>4, <1>6, <3>1, <3>2 DEF Plus
  <2>2. leaked' \in [Objects -> Nat]
    <3>1. Counted(leaked, S, 1) \in [Objects -> Nat] BY <1>9 DEF Counted
    <3> QED BY <1>4, <1>6, <3>1 DEF Plus
  <2>3. stolen' \in [Objects -> Nat] BY <1>4, <1>6, <1>9 DEF Plus
  <2>4. dict' \in [Topos -> SUBSET Named] BY <1>3, <1>6, <1>9
  <2>5. sys' \in [Topos -> Seq(Named)] BY <1>7, <1>9
  <2>6. life' \in [Objects -> {"none", "live", "freed"}] BY <1>6, <1>9
  <2>7. user' \subseteq Objects BY <1>4, <1>7, <1>9
  <2> QED BY <1>6, <1>8, <2>1, <2>2, <2>3, <2>4, <2>5, <2>6, <2>7 DEF OwnInv, Typed
<1>11. ASSUME NEW x \in Objects PROVE Sound(x)'
  <2>1. Owners(x) \in Nat
        /\ Owners(x)' = Owners(x) - One(x \in user) + One(x \in user')
                          - Occurrences(todo, x) + Occurrences(todo', x)
                          - One(x \in dict[t]) + One(x \in S)
    BY <1>6, <1>8, OwnersDict DEF OwnInv
  <2>2. Occurrences(todo, x) = 0 /\ Occurrences(todo', x) = One(x = f)
    <3>1. CASE f = Nobody BY <1>4, <1>6, <3>1, OccursShort DEF One
    <3>2. CASE f # Nobody BY <1>4, <1>6, <3>2, OccursShort
    <3> QED BY <3>1, <3>2
  <2>3. One(x \in user') = One(x \in user) + One(full /\ x = t) BY <1>5, <1>7 DEF One
  <2>4. Owners(x)' = Owners(x) + One(full /\ x = t) + One(x = f) + One(x \in S)
    <3>1. /\ One(x \in user) \in Nat /\ One(full /\ x = t) \in Nat /\ One(x \in dict[t]) = 0
          /\ One(x \in S) \in Nat /\ One(x = f) \in Nat
      BY <1>5 DEF One
    <3> QED BY ONLY <2>1, <2>2, <2>3, <3>1
  <2>5. rc[x] \in Nat /\ stolen[x] \in Nat /\ leaked[x] \in Nat BY <1>9
  <2>6. rc'[x] = rc[x] + (IF x \in S THEN 2 ELSE 0)
                   + (IF x = t THEN IF full THEN 2 ELSE 1 ELSE 0)
    <3>1. Counted(rc, S, 2) = [o \in Objects |-> rc[o] + IF o \in S THEN 2 ELSE 0] BY DEF Counted
    <3> QED BY <1>4, <1>6, <2>5, <3>1 DEF Plus
  <2>7. leaked'[x] = leaked[x] + (IF x \in S THEN 1 ELSE 0) + (IF x = t THEN 1 ELSE 0)
    <3>1. Counted(leaked, S, 1) = [o \in Objects |-> leaked[o] + IF o \in S THEN 1 ELSE 0]
      BY DEF Counted
    <3> QED BY <1>4, <1>6, <2>5, <3>1 DEF Plus
  <2>8. stolen'[x] = stolen[x] + (IF x = f THEN 1 ELSE 0) BY <1>4, <1>6, <1>9, <2>5 DEF Plus
  <2>9. Sound(x) BY DEF OwnInv
  <2>10. CASE x = t
    <3>1. rc[x] = 0 /\ stolen[x] = 0 /\ leaked[x] = 0 /\ Owners(x) = 0 /\ x \notin S /\ x # f
      BY <1>4, <2>9, <2>10 DEF Sound
    <3>2. life'[x] = "live" BY <1>6, <2>10
    <3>3. One(full /\ x = t) = (IF full THEN 1 ELSE 0) /\ One(x = f) = 0 /\ One(x \in S) = 0
      BY <2>10, <3>1 DEF One
    <3>4. rc'[x] > 0 /\ rc'[x] + stolen'[x] = Owners(x)' + leaked'[x]
      BY ONLY <2>4, <2>6, <2>7, <2>8, <2>10, <3>1, <3>3
    <3> QED BY <3>2, <3>4, SoundLive
  <2>11. CASE x \in S
    <3>1. /\ rc[x] = 0 /\ stolen[x] = 0 /\ leaked[x] = 0 /\ Owners(x) = 0
          /\ x # t /\ x # f
      BY <1>4, <2>9, <2>11 DEF Sound
    <3>2. life'[x] = "live" BY <1>6, <2>11
    <3>3. One(full /\ x = t) = 0 /\ One(x = f) = 0 /\ One(x \in S) = 1
      BY <2>11, <3>1 DEF One
    <3>4. rc'[x] > 0 /\ rc'[x] + stolen'[x] = Owners(x)' + leaked'[x]
      BY ONLY <2>4, <2>6, <2>7, <2>8, <2>11, <3>1, <3>3
    <3> QED BY <3>2, <3>4, SoundLive
  <2>12. CASE x = f
    <3>1. rc[x] > 0 /\ rc[x] + stolen[x] = Owners(x) + leaked[x] /\ x # t /\ x \notin S
      BY <1>4, <2>9, <2>12 DEF Sound
    <3>2. life'[x] = "live" BY <1>4, <1>6, <2>12, <3>1
    <3>3. One(full /\ x = t) = 0 /\ One(x = f) = 1 /\ One(x \in S) = 0
      BY <2>12, <3>1 DEF One
    <3>4. /\ rc'[x] = rc[x] /\ leaked'[x] = leaked[x] /\ stolen'[x] = stolen[x] + 1
          /\ Owners(x)' = Owners(x) + 1
      BY ONLY <2>1, <2>4, <2>5, <2>6, <2>7, <2>8, <2>12, <3>1, <3>3
    <3>5. rc'[x] > 0 /\ rc'[x] + stolen'[x] = Owners(x)' + leaked'[x]
      <4>1. Owners(x) \in Nat BY <2>1
      <4>2. rc'[x] > 0 BY <3>1, <3>4
      <4>3. rc[x] + (stolen[x] + 1) = (Owners(x) + 1) + leaked[x]
        BY <2>5, <3>1, <4>1, OneStolen
      <4>4. rc'[x] + stolen'[x] = Owners(x)' + leaked'[x] BY <3>4, <4>3
      <4> QED BY <4>2, <4>4
    <3> QED BY <3>2, <3>5, SoundLive
  <2>13. CASE x # t /\ x \notin S /\ x # f
    <3>1. One(full /\ x = t) = 0 /\ One(x = f) = 0 /\ One(x \in S) = 0 BY <2>13 DEF One
    <3>2. /\ life'[x] = life[x] /\ rc'[x] = rc[x] /\ stolen'[x] = stolen[x]
          /\ leaked'[x] = leaked[x] /\ Owners(x)' = Owners(x)
      BY <1>6, <2>1, <2>4, <2>5, <2>6, <2>7, <2>8, <2>13, <3>1
    <3> QED BY <2>9, <3>2, SoundSame
  <2> QED BY <2>10, <2>11, <2>12, <2>13
<1>12. HoldersSound'
  <2>1. Gnd \in Objects /\ Gnd \notin S /\ Gnd # t
    BY <1>3, <1>4, ObjectAssumption DEF Objects
  <2>2. /\ \A o \in Objects : life'[o] = "none" => life[o] = "none" /\ o # t
        /\ life'[Gnd] = life[Gnd]
    BY <1>6, <2>1
  <2>3. \A z \in Topos : z # t => dict'[z] = dict[z] BY <1>6, <1>9
  <2>4. \A z \in Sims \union Topos : z \in Objects BY DEF Objects
  <2> QED BY <1>6, <2>2, <2>3, <2>4 DEF OwnInv, HoldersSound
<1>13. DictMatchesSystem'
  <2> SUFFICES ASSUME NEW u \in Topos, u \in user'
               PROVE  /\ ToSet(sys'[u]) = dict'[u]
                      /\ \A x, y \in dict'[u] : Key(x) = Key(y) => x = y
                      /\ IsInjective(sys'[u])
    BY DEF DictMatchesSystem, Key
  <2>1. CASE u # t
    <3>1. sys'[u] = sys[u] /\ dict'[u] = dict[u] /\ u \in user BY <1>6, <1>7, <1>9, <2>1
    <3> QED BY <3>1 DEF OwnInv, DictMatchesSystem
  <2>2. CASE u = t
    <3>1. full BY <1>5, <1>7, <2>2
    <3>2. sys'[u] = s /\ dict'[u] = S /\ Entries(s) = s /\ valid
      BY <1>2, <1>6, <1>7, <1>9, <2>2, <3>1
    <3> QED BY <1>1, <1>3, <3>2
  <2> QED BY <2>1, <2>2
<1> QED BY <1>10, <1>11, <1>12, <1>13 DEF OwnInv

(* A destructor hands over to todo what the object held.                   *)
LEMMA DeallocKept ==
  ASSUME OwnInv, Dealloc
  PROVE  OwnInv'
<1>1. PICK o : o = Head(todo) OBVIOUS
<1>2. todo \in Seq(Objects) /\ todo # <<>> BY DEF OwnInv, Typed, Dealloc
<1>3. o \in Objects /\ Tail(todo) \in Seq(Objects) BY <1>1, <1>2, HeadTailProperties
<1>4. /\ life \in [Objects -> {"none", "live", "freed"}] /\ rc \in [Objects -> Nat]
      /\ dict \in [Topos -> SUBSET Named] /\ sys \in [Topos -> Seq(Named)]
      /\ refs \in [Holders -> RefLists] /\ pySys \in [Sims -> Objects \union {Nobody}]
      /\ raw \in [Sims -> SUBSET Ifaces] /\ Nobody \notin Objects
  BY ObjectAssumption DEF OwnInv, Typed
<1>5. /\ life[o] = "live" /\ rc[o] = 1
      /\ life' = [life EXCEPT ![o] = "freed"] /\ rc' = [rc EXCEPT ![o] = 0]
      /\ todo' = Owned(o) \o Tail(todo)
      /\ dict' = IF o \in Topos THEN [dict EXCEPT ![o] = {}] ELSE dict
      /\ sys' = IF o \in Topos THEN [sys EXCEPT ![o] = <<>>] ELSE sys
      /\ refs' = IF o \in Holders THEN [refs EXCEPT ![o] = <<>>] ELSE refs
      /\ pySys' = IF o \in Sims THEN [pySys EXCEPT ![o] = Nobody] ELSE pySys
      /\ raw' = IF o \in Sims THEN [raw EXCEPT ![o] = {}] ELSE raw
      /\ UNCHANGED <<user, gnd, stolen, leaked>>
  <2>1. DOMAIN refs = Holders BY <1>4
  <2> QED BY <1>1, <2>1 DEF Dealloc, ghosts
<1>6. Owned(o) \in Seq(Objects) BY <1>3, OwnedCount DEF OwnInv
<1>7. todo' \in Seq(Objects) BY <1>3, <1>5, <1>6
<1>8. <<>> \in RefLists /\ <<>> \in Seq(Named) BY ObjectAssumption DEF RefLists
<1>9. Typed'
  <2>1. life' \in [Objects -> {"none", "live", "freed"}] /\ rc' \in [Objects -> Nat]
    BY <1>3, <1>4, <1>5
  <2>2. dict' \in [Topos -> SUBSET Named] BY <1>4, <1>5
  <2>3. sys' \in [Topos -> Seq(Named)] BY <1>4, <1>5, <1>8
  <2>4. refs' \in [Holders -> RefLists] BY <1>4, <1>5, <1>8
  <2>5. pySys' \in [Sims -> Objects \union {Nobody}] BY <1>4, <1>5
  <2>6. raw' \in [Sims -> SUBSET Ifaces] BY <1>4, <1>5
  <2> QED BY <1>5, <1>7, <2>1, <2>2, <2>3, <2>4, <2>5, <2>6 DEF OwnInv, Typed
<1>10. ASSUME NEW x \in Objects PROVE Sound(x)'
  <2>1. PICK d : d = IF o \in Topos THEN One(x \in dict[o]) ELSE 0 OBVIOUS
  <2>2. PICK r : r = IF o \in Holders THEN Occurrences(refs[o], x) ELSE 0 OBVIOUS
  <2>3. PICK p : p = IF o \in Sims THEN One(x = pySys[o]) ELSE 0 OBVIOUS
  <2>4. d \in Nat /\ r \in Nat /\ p \in Nat
    <3>1. d \in Nat /\ p \in Nat BY <2>1, <2>3 DEF One
    <3>2. o \in Holders => refs[o] \in Seq(Objects) BY <1>4 DEF RefLists
    <3>3. o \in Holders => Occurrences(refs[o], x) \in Nat BY <3>2, OccursNat
    <3> QED BY <2>2, <3>1, <3>3
  <2>5. InDicts(x)' = InDicts(x) - d
    <3>0. InDicts(x) \in Nat BY <1>2, CountsNat
    <3>1. CASE o \in Topos
      <4> PICK S : S = {} OBVIOUS
      <4>1. dict' = [dict EXCEPT ![o] = S] BY <1>5, <3>1
      <4>2. InDicts(x)' = InDicts(x) - One(x \in dict[o]) + One(x \in S)
        BY <1>4, <3>1, <4>1, DictChange
      <4>3. One(x \in S) = 0 /\ One(x \in dict[o]) = d BY <2>1, <3>1 DEF One
      <4> QED BY <2>4, <3>0, <4>2, <4>3
    <3>2. CASE o \notin Topos
      <4>1. dict' = dict /\ d = 0 BY <1>5, <2>1, <3>2
      <4> QED BY <3>0, <4>1, Unchanged
    <3> QED BY <3>1, <3>2
  <2>6. InRefs(x)' = InRefs(x) - r
    <3>0. InRefs(x) \in Nat BY <1>2, CountsNat
    <3>1. CASE o \in Holders
      <4>1. refs' = [refs EXCEPT ![o] = <<>>] BY <1>5, <3>1
      <4>2. InRefs(x)' = InRefs(x) - Occurrences(refs[o], x) + Occurrences(<<>>, x)
        BY <1>4, <1>8, <3>1, <4>1, RefsChange
      <4>3. Occurrences(<<>>, x) = 0 /\ Occurrences(refs[o], x) = r BY <2>2, <3>1, OccursShort
      <4> QED BY <2>4, <3>0, <4>2, <4>3
    <3>2. CASE o \notin Holders
      <4>1. refs' = refs /\ r = 0 BY <1>5, <2>2, <3>2
      <4> QED BY <3>0, <4>1, Unchanged
    <3> QED BY <3>1, <3>2
  <2>7. InPySys(x)' = InPySys(x) - p
    <3>0. InPySys(x) \in Nat BY <1>2, CountsNat
    <3>1. CASE o \in Sims
      <4>1. pySys' = [pySys EXCEPT ![o] = Nobody] BY <1>5, <3>1
      <4>2. InPySys(x)' = InPySys(x) - One(x = pySys[o]) + One(x = Nobody)
        BY <1>4, <3>1, <4>1, SysChange DEF One
      <4>3. One(x = Nobody) = 0 /\ One(x = pySys[o]) = p BY <1>4, <2>3, <3>1 DEF One
      <4> QED BY <2>4, <3>0, <4>2, <4>3
    <3>2. CASE o \notin Sims
      <4>1. pySys' = pySys /\ p = 0 BY <1>5, <2>3, <3>2
      <4> QED BY <3>0, <4>1, Unchanged
    <3> QED BY <3>1, <3>2
  <2>8. Occurrences(todo', x) = d + r + p + Occurrences(Tail(todo), x)
    <3>1. Occurrences(Owned(o), x) = d + r + p
      BY <1>3, <2>1, <2>2, <2>3, OwnedCount DEF OwnInv, One
    <3>2. Occurrences(Owned(o) \o Tail(todo), x)
            = Occurrences(Owned(o), x) + Occurrences(Tail(todo), x)
      BY <1>3, <1>6, OccursConcat
    <3> QED BY <1>5, <3>1, <3>2
  <2>9. /\ Occurrences(todo, x) = Occurrences(Tail(todo), x) + One(x = o)
        /\ Occurrences(Tail(todo), x) \in Nat /\ One(x = o) \in Nat
    <3>1. Occurrences(todo, x) = Occurrences(Tail(todo), x) + One(x = Head(todo))
      BY <1>2, OccursTail
    <3>2. Occurrences(Tail(todo), x) \in Nat BY <1>3, OccursNat
    <3> QED BY <1>1, <3>1, <3>2 DEF One
  <2>10. OwnersParts(x) BY <1>7, OwnersByPart DEF OwnInv
  <2>11. One(x \in user') = One(x \in user) /\ One(gnd' /\ x = Gnd) = One(gnd /\ x = Gnd)
    BY <1>5 DEF One
  <2>12. Owners(x)' = Owners(x) - One(x = o) /\ Owners(x) \in Nat /\ Owners(x) >= One(x = o)
    BY ONLY <2>4, <2>5, <2>6, <2>7, <2>8, <2>9, <2>10, <2>11 DEF OwnersParts
  <2>13. Sound(x) BY DEF OwnInv
  <2>14. CASE x # o
    <3>1. life'[x] = life[x] /\ rc'[x] = rc[x] /\ Owners(x)' = Owners(x)
      BY <1>4, <1>5, <2>12, <2>14 DEF One
    <3> QED BY <1>5, <2>13, <3>1, SoundSame
  <2>15. CASE x = o
    <3>1. rc[x] = 1 /\ rc[x] + stolen[x] = Owners(x) + leaked[x] BY <1>5, <2>13, <2>15 DEF Sound
    <3>2. life'[x] = "freed" /\ stolen'[x] = stolen[x] BY <1>3, <1>4, <1>5, <2>15
    <3>3. Owners(x)' = Owners(x) - 1 /\ Owners(x) >= 1 BY <2>12, <2>15 DEF One
    <3>4. stolen[x] \in Nat /\ leaked[x] \in Nat BY DEF OwnInv, Typed
    <3>5. Owners(x)' = 0 \/ stolen[x] > 0
      <4>1. Owners(x) \in Nat BY <2>12
      <4> QED BY ONLY <3>1, <3>3, <3>4, <4>1
    <3> QED BY <3>2, <3>5 DEF Sound
  <2> QED BY <2>14, <2>15
<1>11. HoldersSound'
  <2>1. Gnd \in Objects /\ \A z \in Sims \union Topos : z \in Objects
    BY ObjectAssumption DEF Objects
  <2>2. /\ \A z \in Objects : life'[z] = "none" => life[z] = "none"
        /\ life'[Gnd] = "none" <=> life[Gnd] = "none"
    BY <1>3, <1>4, <1>5, <2>1
  <2>3. \A z \in Topos : dict'[z] = dict[z] \/ dict'[z] = {} BY <1>4, <1>5
  <2>4. \A z \in Sims : pySys'[z] = pySys[z] \/ pySys'[z] = Nobody BY <1>4, <1>5
  <2>5. \A z \in Sims : raw'[z] = {} \/ (raw'[z] = raw[z] /\ refs'[z] = refs[z])
    BY <1>4, <1>5 DEF Holders
  <2> QED BY <1>5, <2>1, <2>2, <2>3, <2>4, <2>5 DEF OwnInv, HoldersSound
<1>12. DictMatchesSystem'
  <2> SUFFICES ASSUME NEW u \in Topos, u \in user'
               PROVE  /\ ToSet(sys'[u]) = dict'[u]
                      /\ \A x, y \in dict'[u] : Key(x) = Key(y) => x = y
                      /\ IsInjective(sys'[u])
    BY DEF DictMatchesSystem, Key
  <2>1. CASE u # o
    <3>1. sys'[u] = sys[u] /\ dict'[u] = dict[u] /\ u \in user BY <1>4, <1>5, <2>1
    <3> QED BY <3>1 DEF OwnInv, DictMatchesSystem
  <2>2. CASE u = o
    <3>1. sys'[u] = <<>> /\ dict'[u] = {} BY <1>4, <1>5, <2>2
    <3>2. ToSet(<<>>) = {} /\ IsInjective(<<>>) BY DEF ToSet, IsInjective
    <3> QED BY <3>1, <3>2
  <2> QED BY <2>1, <2>2
<1> QED BY <1>9, <1>10, <1>11, <1>12 DEF OwnInv

-----------------------------------------------------------------------------
(* The invariant holds at first.                                           *)
LEMMA InitOwn == Init => OwnInv
<1> SUFFICES ASSUME Init PROVE OwnInv OBVIOUS
<1>1. Gnd \in Objects /\ Gnd \notin Lists /\ Nobody \notin Objects /\ MaxRefs \in Nat
  BY Types, ObjectAssumption DEF Objects
<1>2. <<>> \in RefLists /\ <<>> \in Seq(Named) /\ <<>> \in Seq(Objects)
  BY <1>1 DEF RefLists
<1>3. Typed
  <2>1. life \in [Objects -> {"none", "live", "freed"}] /\ rc \in [Objects -> Nat]
    BY DEF Init
  <2>2. /\ dict \in [Topos -> SUBSET Named] /\ sys \in [Topos -> Seq(Named)]
        /\ refs \in [Holders -> RefLists]
    BY <1>2 DEF Init, Holders
  <2>3. pySys \in [Sims -> Objects \union {Nobody}] /\ raw \in [Sims -> SUBSET Ifaces]
    BY DEF Init
  <2>4. stolen \in [Objects -> Nat] /\ leaked \in [Objects -> Nat] BY DEF Init
  <2>5. user \subseteq Objects BY DEF Init, Objects
  <2> QED BY <1>2, <2>1, <2>2, <2>3, <2>4, <2>5 DEF Typed, Init
<1>4. ASSUME NEW x \in Objects PROVE Sound(x)
  <2>1. DictRefs(x) = {} /\ HeldRefs(x) = {} /\ SysRefs(x) = {} /\ todo = <<>>
    <3>1. DictRefs(x) = {} /\ SysRefs(x) = {} /\ todo = <<>>
      BY <1>1 DEF Init, DictRefs, SysRefs
    <3>2. \A h \in Sims \union Loggers : DOMAIN refs[h] = {} BY DEF Init
    <3> QED BY <3>1, <3>2 DEF HeldRefs
  <2>2. InDicts(x) = 0 /\ InRefs(x) = 0 /\ InPySys(x) = 0 /\ InTodo(x) = 0
    BY <2>1, FS_EmptySet, OccursShort DEF InDicts, InRefs, InPySys, InTodo
  <2>3. One(x \in user) = (IF x \in Lists THEN 1 ELSE 0) /\ One(gnd /\ x = Gnd) = 0
    BY DEF Init, One
  <2>4. Owners(x) = (IF x \in Lists THEN 1 ELSE 0) BY <2>2, <2>3, OwnersSum DEF Sum
  <2>5. /\ life[x] = (IF x \in Lists THEN "live" ELSE "none")
        /\ rc[x] = (IF x \in Lists THEN 1 ELSE 0) /\ stolen[x] = 0 /\ leaked[x] = 0
    BY DEF Init
  <2> QED BY <2>4, <2>5 DEF Sound
<1>5. HoldersSound BY <1>1 DEF Init, HoldersSound
<1>6. DictMatchesSystem BY Types DEF Init, DictMatchesSystem
<1> QED BY <1>3, <1>4, <1>5, <1>6 DEF OwnInv

(* Steps that touch neither objects nor holders.                           *)
LEMMA StutterKept ==
  ASSUME OwnInv, UNCHANGED <<mem, user, holders, todo, ghosts>>
  PROVE  OwnInv'
<1>1. Typed' BY DEF OwnInv, Typed, mem, holders, ghosts
<1>2. ASSUME NEW x \in Objects PROVE Sound(x)'
  <2>1. Owners(x)' = Owners(x)
    <3>1. /\ InDicts(x)' = InDicts(x) /\ InRefs(x)' = InRefs(x) /\ InPySys(x)' = InPySys(x)
          /\ InTodo(x)' = InTodo(x)
      BY Unchanged DEF holders
    <3>2. Sum(x)' = Sum(x) BY <3>1 DEF Sum, One, holders
    <3> QED BY <3>2, OwnersSum
  <2>2. /\ life' = life /\ rc' = rc /\ stolen' = stolen /\ leaked' = leaked /\ Sound(x)
    BY DEF OwnInv, mem, ghosts
  <2> QED BY <2>1, <2>2, SoundSame
<1>3. HoldersSound' BY DEF OwnInv, HoldersSound, mem, holders
<1>4. DictMatchesSystem' BY SameDicts DEF OwnInv, holders
<1> QED BY <1>1, <1>2, <1>3, <1>4 DEF OwnInv

(* Every step keeps the invariant.                                         *)
LEMMA StepOwn == OwnInv /\ [Next]_vars => OwnInv'
<1> SUFFICES ASSUME OwnInv, [Next]_vars PROVE OwnInv' OBVIOUS
<1>1. CASE Call
  <2>1. ASSUME NEW c \in Comps, NewComponent(c) PROVE OwnInv'
    <3>1. c \in Comps \union Nodes \union Loggers \union Ifaces /\ c # Gnd
      BY Types, ObjectAssumption
    <3>2. CASE Create(c) /\ UNCHANGED leaked
      <4>1. UNCHANGED <<holders, todo, ghosts>> BY <2>1, <3>2 DEF NewComponent, ghosts
      <4> QED BY <3>1, <3>2, <4>1, CreateKept
    <3>3. CASE ~(Create(c) /\ UNCHANGED leaked)
      <4>1. /\ life[c] = "none" /\ life' = [life EXCEPT ![c] = "live"]
            /\ rc' = Plus(rc, c, 1) /\ leaked' = Plus(leaked, c, 1)
            /\ UNCHANGED <<user, holders, todo, stolen>>
        BY <2>1, <3>3 DEF NewComponent
      <4> QED BY <4>1, ForgottenKept
    <3> QED BY <3>2, <3>3
  <2>2. ASSUME NEW o \in Nodes, NewNode(o) PROVE OwnInv'
    <3>1. o # Gnd /\ Create(o) /\ UNCHANGED <<holders, todo, ghosts>> BY <2>2 DEF NewNode
    <3> QED BY <3>1, CreateKept
  <2>3. ASSUME NEW o \in Loggers, NewLogger(o) PROVE OwnInv'
    <3>1. o # Gnd /\ Create(o) /\ UNCHANGED <<holders, todo, ghosts>>
      BY <2>3, Types, ObjectAssumption DEF NewLogger
    <3> QED BY <3>1, CreateKept
  <2>4. ASSUME NEW o \in Ifaces, NewInterface(o) PROVE OwnInv'
    <3>1. o # Gnd /\ Create(o) /\ UNCHANGED <<holders, todo, ghosts>>
      BY <2>4, Types, ObjectAssumption DEF NewInterface
    <3> QED BY <3>1, CreateKept
  <2>5. ASSUME NEW t \in Topos, NEW f \in Lists \union {Nobody}, NEW cs \in UpTo(2, Comps),
               NEW ns \in UpTo(1, Nodes \ {Gnd}), NEW valid \in BOOLEAN,
               LoadCim(t, f, cs \o ns, valid)
        PROVE  OwnInv'
    <3> DEFINE N == Comps \union (Nodes \ {Gnd})
    <3>1. cs \in Seq(Comps) /\ ns \in Seq(Nodes \ {Gnd}) BY UpToSeq
    <3>2. cs \in Seq(N) /\ ns \in Seq(N) BY <3>1
    <3>3. cs \o ns \in Seq(N) /\ ToSet(cs \o ns) \subseteq N BY <3>2, ConcatSet, SetOfSeq
    <3>4. N \subseteq Named /\ Gnd \notin N BY Types, ObjectAssumption DEF Named
    <3> HIDE DEF N
    <3>5. cs \o ns \in Seq(Named) /\ Gnd \notin ToSet(cs \o ns) BY <3>3, <3>4
    <3> QED BY <2>5, <3>5, LoadCimKept
  <2>6. ASSUME NEW t \in Topos, NEW o \in Named, Add(t, o) \/ Lookup(t, o) PROVE OwnInv'
    BY <2>6, AddKept, LookupKept
  <2>7. ASSUME NEW o \in user, Forget(o) PROVE OwnInv'
    BY <2>7, ForgetKept
  <2> QED BY <1>1, <2>1, <2>2, <2>3, <2>4, <2>5, <2>6, <2>7, LoadCimEmptyKept, GetGNDKept, NewTopologyKept,
             LogAttributeKept, NewSimulationKept, AddInterfaceKept DEF Call
<1>2. CASE Release BY <1>2, DecrefKept, DeallocKept DEF Release
<1>3. CASE UseFreed
  <2>1. UNCHANGED <<mem, user, holders, todo, ghosts>> BY <1>3 DEF UseFreed
  <2> QED BY <2>1, StutterKept
<1>4. CASE UNCHANGED vars
  <2>1. UNCHANGED <<mem, user, holders, todo, ghosts>> BY <1>4 DEF vars
  <2> QED BY <2>1, StutterKept
<1> QED BY <1>1, <1>2, <1>3, <1>4 DEF Next

(* The invariant holds in every reachable state.                           *)
LEMMA AlwaysOwn == Spec => []OwnInv
BY InitOwn, StepOwn, PTL DEF Spec

-----------------------------------------------------------------------------
(* Constructors, failing constructors, look-ups and nested destructors     *)
(* keep the count of every Python object equal to the number of references *)
(* somebody relies on, but for the ones that add_component, add_node,      *)
(* load_cim, a refused Simulation and a failing pseudo-constructor miss;   *)
(* and what nobody refers to has been freed when a call returns.           *)
THEOREM CountsCorrect == Spec => []CountsExact
<1>1. OwnInv => CountsExact
  <2> SUFFICES ASSUME OwnInv PROVE CountsExact OBVIOUS
  <2>1. RefsAccounted BY DEF OwnInv, Sound, RefsAccounted
  <2>2. ASSUME NEW o \in Objects, life[o] = "live", Owners(o) = 0 PROVE leaked[o] > 0
    <3>1. rc[o] > 0 /\ rc[o] + stolen[o] = Owners(o) + leaked[o] BY <2>2 DEF OwnInv, Sound
    <3>2. rc[o] \in Nat /\ stolen[o] \in Nat /\ leaked[o] \in Nat BY DEF OwnInv, Typed
    <3> QED BY <2>2, <3>1, <3>2
  <2> QED BY <2>1, <2>2 DEF CountsExact, Reclaimed
<1> QED BY <1>1, AlwaysOwn, PTL

(* No variable, dictionary, list, pySys or Py_GND refers to a freed object, *)
(* and the C++ simulation has no pointer to one, unless a reference to it   *)
(* was released that nobody owned.                                          *)
THEOREM NothingDanglesAlways == Spec => []NothingDangles
<1>1. OwnInv => NothingDangles
  <2> SUFFICES ASSUME OwnInv PROVE NothingDangles OBVIOUS
  <2>1. \A o \in Objects : Owners(o) \in Nat /\ stolen[o] \in Nat
    BY CountsNat DEF OwnInv, Typed
  <2>2. OnlyStolenDangle BY <2>1 DEF OwnInv, Sound, OnlyStolenDangle
  <2>3. ASSUME NEW s \in Sims, NEW i \in raw[s] PROVE life[i] = "live" \/ stolen[i] > 0
    <3>1. i \in Objects BY DEF OwnInv, Typed, Objects
    <3>2. PICK k \in DOMAIN refs[s] : refs[s][k] = i BY DEF OwnInv, HoldersSound
    <3>3. InRefs(i) > 0
      <4>1. s \in Holders /\ refs \in [Holders -> RefLists] BY DEF Holders, OwnInv, Typed
      <4> QED BY <3>2, <4>1, HeldCounts
    <3>4. life[i] # "none" BY <3>1, <3>3, NoReference DEF OwnInv
    <3>5. Owners(i) > 0
      <4>1. /\ InDicts(i) \in Nat /\ InRefs(i) \in Nat /\ InPySys(i) \in Nat
            /\ InTodo(i) \in Nat /\ Owners(i) = Sum(i)
        BY CountsNat, OwnersSum DEF OwnInv, Typed
      <4> QED BY <3>3, <4>1 DEF Sum, One
    <3>6. life[i] \in {"none", "live", "freed"} BY <3>1 DEF OwnInv, Typed
    <3> QED BY <2>2, <3>1, <3>4, <3>5, <3>6 DEF OnlyStolenDangle
  <2> QED BY <2>2, <2>3 DEF NothingDangles, RawPointersValid
<1> QED BY <1>1, AlwaysOwn, PTL

(* The dictionaries Python shows hold the components and nodes of the C++  *)
(* topology, each once and no two with one name, also after load_cim and   *)
(* additions that were refused.                                            *)
THEOREM DictionariesCorrect == Spec => []DictMatchesSystem
BY AlwaysOwn, PTL DEF OwnInv
=============================================================================
