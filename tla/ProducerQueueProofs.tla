------------------------- MODULE ProducerQueueProofs -------------------------
(***************************************************************************)
(* Proofs about the counters of ProducerQueue: for any number of consumers *)
(* and any bounds below half the range of index_t, a dequeue that advances *)
(* headIndex finds the elements it advances over.                          *)
(***************************************************************************)
EXTENDS ProducerQueue, TLAPS, FiniteSetTheorems

(* What Total adds up, and the largest sum.                                *)
Counts   == [Consumers -> 0 .. MaxBulk]
AllUnits == Cardinality(Consumers) * MaxBulk

-----------------------------------------------------------------------------
(* Sums over the consumers                                                 *)

(* Total counts the units of f, of which there are finitely many.          *)
LEMMA TotalIsUnits ==
  ASSUME NEW f
  PROVE  /\ Total(f) = Cardinality(Units(f)) /\ IsFiniteSet(Units(f))
         /\ Total(f) \in Nat /\ Total(f) <= AllUnits
PROOF
  <1>2. MaxBulk \in Nat
    BY SizeAssumption
  <1>3. IsFiniteSet(1 .. MaxBulk) /\ Cardinality(1 .. MaxBulk) = MaxBulk
    BY <1>2, FS_Interval
  <1>4. /\ IsFiniteSet(Consumers \X (1 .. MaxBulk))
        /\ Cardinality(Consumers \X (1 .. MaxBulk)) = AllUnits
    BY <1>3, CounterAssumption, FS_Product DEF AllUnits
  <1>5. Units(f) \subseteq Consumers \X (1 .. MaxBulk)
    BY DEF Units
  <1>6. /\ IsFiniteSet(Units(f))
        /\ Cardinality(Units(f)) <= Cardinality(Consumers \X (1 .. MaxBulk))
    BY <1>4, <1>5, FS_Subset
  <1>7. Cardinality(Units(f)) \in Nat
    BY <1>6, FS_CardinalityType
  <1>8. Total(f) = Cardinality(Units(f))
    BY DEF Total
  <1> QED
    BY <1>4, <1>6, <1>7, <1>8

(* The units of one consumer.                                              *)
LEMMA UnitsOfOne ==
  ASSUME NEW c \in Consumers, NEW n \in 0 .. MaxBulk
  PROVE  IsFiniteSet({c} \X (1 .. n)) /\ Cardinality({c} \X (1 .. n)) = n
PROOF
  <1>1. IsFiniteSet({c}) /\ Cardinality({c}) = 1
    BY FS_Singleton
  <1>2. n \in Nat
    BY SizeAssumption
  <1>3. IsFiniteSet(1 .. n) /\ Cardinality(1 .. n) = n
    BY <1>2, FS_Interval
  <1>4. IsFiniteSet({c} \X (1 .. n)) /\ Cardinality({c} \X (1 .. n)) = 1 * n
    BY <1>1, <1>3, FS_Product
  <1> QED
    BY <1>2, <1>4

(* Taking c out of f.                                                      *)
LEMMA TotalWithout ==
  ASSUME NEW f \in Counts, NEW c \in Consumers,
         NEW rest, rest = {u \in Units(f) : u[1] # c}
  PROVE  IsFiniteSet(rest) /\ Cardinality(rest) = Total(f) - f[c]
PROOF
  <1>1. f[c] \in 0 .. MaxBulk
    BY DEF Counts
  <1> DEFINE own == {c} \X (1 .. f[c])
  <1>2. MaxBulk \in Nat
    BY SizeAssumption
  <1>3. Units(f) = rest \union own
    <2>1. ASSUME NEW u \in Units(f) PROVE u \in rest \union own
      <3>1. CASE u[1] # c
        BY <3>1, <2>1
      <3>2. CASE u[1] = c
        <4>1. u = <<u[1], u[2]>> /\ u[2] \in 1 .. MaxBulk /\ u[2] <= f[u[1]]
          BY <2>1 DEF Units
        <4> QED
          BY <4>1, <3>2, <1>1, <1>2
      <3> QED
        BY <3>1, <3>2
    <2>2. ASSUME NEW u \in own PROVE u \in Units(f)
      <3>1. u = <<c, u[2]>> /\ u[1] = c /\ u[2] \in 1 .. f[c]
        OBVIOUS
      <3>2. u[2] \in 1 .. MaxBulk /\ u[2] <= f[c]
        BY <3>1, <1>1, <1>2
      <3>3. u \in Consumers \X (1 .. MaxBulk)
        BY <3>1, <3>2
      <3> QED
        BY <3>1, <3>2, <3>3 DEF Units
    <2> QED
      BY <2>1, <2>2
  <1>4. rest \cap own = {}
    OBVIOUS
  <1>5. IsFiniteSet(Units(f)) /\ Total(f) = Cardinality(Units(f)) /\ Total(f) \in Nat
    BY TotalIsUnits
  <1>6. IsFiniteSet(rest)
    BY <1>5, FS_Subset
  <1>7. IsFiniteSet(own) /\ Cardinality(own) = f[c]
    BY <1>1, UnitsOfOne
  <1>8. Cardinality(rest \union own) =
          Cardinality(rest) + Cardinality(own) - Cardinality(rest \cap own)
    BY <1>6, <1>7, FS_Union
  <1>9. Cardinality(rest \cap own) = 0
    BY <1>4, FS_EmptySet
  <1>10. Cardinality(rest) \in Nat
    BY <1>6, FS_CardinalityType
  <1>11. Total(f) = Cardinality(rest \union own)
    BY <1>3, <1>5, Zenon
  <1>12. f[c] \in Nat
    BY <1>1, <1>2
  <1>13. Total(f) = Cardinality(rest) + f[c] - 0
    BY ONLY <1>7, <1>8, <1>9, <1>11, Zenon
  <1> QED
    BY ONLY <1>6, <1>10, <1>12, <1>13

(* A sum changes by as much as its summand.                                *)
LEMMA TotalChange ==
  ASSUME NEW f \in Counts, NEW g \in Counts, NEW c \in Consumers,
         \A d \in Consumers : d # c => g[d] = f[d]
  PROVE  Total(g) = Total(f) + g[c] - f[c]
PROOF
  <1> DEFINE rest == {u \in Units(f) : u[1] # c}
  <1>1. rest = {u \in Units(g) : u[1] # c}
    BY DEF Units
  <1>2. Cardinality(rest) = Total(f) - f[c]
    BY TotalWithout
  <1>3. Cardinality(rest) = Total(g) - g[c]
    BY <1>1, TotalWithout
  <1>4. Total(f) \in Nat /\ Total(g) \in Nat
    BY TotalIsUnits
  <1>5. f[c] \in Int /\ g[c] \in Int
    BY SizeAssumption DEF Counts
  <1> HIDE DEF rest
  <1> QED
    BY <1>2, <1>3, <1>4, <1>5

(* Sums with no consumer in common, below a third.                         *)
LEMMA TotalApart ==
  ASSUME NEW f \in Counts, NEW g \in Counts, NEW h \in Counts,
         \A c \in Consumers : /\ f[c] = 0 \/ g[c] = 0
                              /\ f[c] <= h[c] /\ g[c] <= h[c]
  PROVE  Total(f) + Total(g) <= Total(h)
PROOF
  <1>1. MaxBulk \in Nat
    BY SizeAssumption
  <1>2. \A c \in Consumers : f[c] \in 0 .. MaxBulk /\ g[c] \in 0 .. MaxBulk /\ h[c] \in 0 .. MaxBulk
    BY DEF Counts
  <1>3. Units(f) \cap Units(g) = {}
    <2> SUFFICES ASSUME NEW u \in Units(f), u \in Units(g) PROVE FALSE
      OBVIOUS
    <2>1. u[1] \in Consumers /\ u[2] \in 1 .. MaxBulk /\ u[2] <= f[u[1]] /\ u[2] <= g[u[1]]
      BY DEF Units
    <2> QED
      BY <2>1, <1>1
  <1>4. Units(f) \union Units(g) \subseteq Units(h)
    <2> SUFFICES ASSUME NEW u \in Units(f) \union Units(g) PROVE u \in Units(h)
      OBVIOUS
    <2>1. u \in Consumers \X (1 .. MaxBulk) /\ (u[2] <= f[u[1]] \/ u[2] <= g[u[1]])
      BY DEF Units
    <2>2. u[1] \in Consumers /\ u[2] \in 1 .. MaxBulk
      BY <2>1
    <2>3. u[2] <= h[u[1]]
      BY <2>1, <2>2, <1>1, <1>2
    <2> QED
      BY <2>1, <2>3 DEF Units
  <1>5. /\ IsFiniteSet(Units(f)) /\ IsFiniteSet(Units(g)) /\ IsFiniteSet(Units(h))
        /\ Total(f) = Cardinality(Units(f)) /\ Total(g) = Cardinality(Units(g))
        /\ Total(h) = Cardinality(Units(h))
        /\ Total(f) \in Nat /\ Total(g) \in Nat /\ Total(h) \in Nat
    BY TotalIsUnits
  <1>6. Cardinality(Units(f) \union Units(g)) = Total(f) + Total(g)
                                                 - Cardinality(Units(f) \cap Units(g))
    BY <1>5, FS_Union
  <1>7. Cardinality(Units(f) \cap Units(g)) = 0
    BY <1>3, FS_EmptySet
  <1>8. Cardinality(Units(f) \union Units(g)) <= Cardinality(Units(h))
    BY <1>4, <1>5, FS_Subset
  <1> QED
    BY <1>5, <1>6, <1>7, <1>8

-----------------------------------------------------------------------------
(* Arithmetic of the counters                                              *)

(* The counters stay below this.                                           *)
CounterBound(k) == MaxTail + MaxOvercommit[k] + 2 * AllUnits

(* Consequences of the bounds.                                             *)
LEMMA BoundFacts ==
  ASSUME NEW k \in Contexts
  PROVE  /\ AllUnits \in Nat /\ MaxTail \in Nat /\ MaxOvercommit[k] \in Nat
         /\ IndexMod \in Nat /\ MaxBulk \in 1 .. 3
         /\ CounterBound(k) \in Nat /\ 2 * CounterBound(k) <= IndexMod
PROOF
  <1>1. Cardinality(Consumers) \in Nat
    BY CounterAssumption, FS_CardinalityType
  <1>2. MaxBulk \in 1 .. 3
    BY SizeAssumption
  <1>3. AllUnits \in Nat
    <2>1. CASE MaxBulk = 1 BY <2>1, <1>1 DEF AllUnits
    <2>2. CASE MaxBulk = 2 BY <2>2, <1>1 DEF AllUnits
    <2>3. CASE MaxBulk = 3 BY <2>3, <1>1 DEF AllUnits
    <2> QED
      BY <1>2, <2>1, <2>2, <2>3
  <1>4. /\ MaxTail \in Nat /\ MaxOvercommit[k] \in Nat
        /\ 2 * (MaxTail + MaxOvercommit[k] + 2 * AllUnits) <= IndexMod
    BY CounterAssumption DEF AllUnits
  <1>5. IndexMod \in Nat
    BY SizeAssumption
  <1> QED
    BY <1>2, <1>3, <1>4, <1>5 DEF CounterBound

(* Reload: how much of a claim is covered.                                 *)
CoveredPart(tail, my, over, want) ==
  LET have == Minus(tail, Minus(my, over))
  IN IF ~CircularLessThan(0, have) THEN 0 ELSE IF have < want THEN have ELSE want

(* The part that is covered ends at the tail.                              *)
LEMMA CoveredEndsAtTail ==
  ASSUME NEW k \in Contexts, NEW tail \in Nat, NEW my \in Nat, NEW over \in Nat,
         NEW want \in Nat, over <= my, tail <= CounterBound(k), my < CounterBound(k)
  PROVE  /\ CoveredPart(tail, my, over, want) \in 0 .. want
         /\ CoveredPart(tail, my, over, want) > 0 =>
              my - over + CoveredPart(tail, my, over, want) <= tail
PROOF
  <1> DEFINE B == CounterBound(k)
             have == Minus(tail, Minus(my, over))
             n == CoveredPart(tail, my, over, want)
  <1>1. B \in Nat /\ IndexMod \in Nat /\ 2 * B <= IndexMod
    BY BoundFacts
  <1> HIDE DEF B
  <1>2. tail <= B /\ my < B
    BY DEF B
  <1>3. (my - over) % IndexMod = my - over
    BY <1>1, <1>2
  <1>4. have = (tail - (my - over)) % IndexMod
    BY <1>3, Zenon DEF Minus
  <1>5. CircularLessThan(0, have) <=> (0 - have) % IndexMod > IndexMod \div 2
    BY DEF CircularLessThan, Minus
  <1>6. n = IF ~CircularLessThan(0, have) THEN 0 ELSE IF have < want THEN have ELSE want
    BY DEF CoveredPart
  <1> HIDE DEF have, n
  <1>7. CASE tail > my - over
    <2>1. have = tail - (my - over) /\ have \in 1 .. IndexMod - 1
      BY <1>1, <1>2, <1>4, <1>7
    <2>2. n \in 0 .. want /\ (n > 0 => my - over + n <= tail)
      BY <2>1, <1>1, <1>2, <1>6, <1>7
    <2> QED
      BY <2>2 DEF n
  <1>8. CASE tail = my - over
    <2>1. have = 0
      BY <1>1, <1>2, <1>4, <1>8
    <2>2. ~CircularLessThan(0, have)
      BY <2>1, <1>1, <1>2, <1>5
    <2>3. n = 0
      BY <2>2, <1>6
    <2> QED
      BY <2>3 DEF n
  <1>9. CASE tail < my - over
    <2>1. have = IndexMod + (tail - (my - over)) /\ have \in 1 .. IndexMod - 1
      BY <1>1, <1>2, <1>4, <1>9
    <2>2. (0 - have) % IndexMod = (my - over) - tail
      BY <2>1, <1>1, <1>2, <1>9
    <2>3. ~CircularLessThan(0, have)
      BY <2>2, <1>1, <1>2, <1>5, <1>9
    <2>4. n = 0
      BY <2>3, <1>6
    <2> QED
      BY <2>4 DEF n
  <1> QED
    BY <1>7, <1>8, <1>9

(* Check: a positive difference is at least one.                           *)
LEMMA WantedIsPositive ==
  ASSUME NEW w \in Int, CircularLessThan(0, w % IndexMod)
  PROVE  w % IndexMod \in Nat \ {0}
PROOF
  <1>1. IndexMod \in Nat \ {0}
    BY SizeAssumption
  <1>2. w % IndexMod \in 0 .. IndexMod - 1
    BY <1>1
  <1> DEFINE v == w % IndexMod
  <1>3. v # 0
    <2> SUFFICES ASSUME v = 0 PROVE FALSE
      OBVIOUS
    <2>1. (0 - v) % IndexMod > IndexMod \div 2
      BY DEF CircularLessThan, Minus
    <2> QED
      BY <2>1, <1>1
  <1> QED
    BY <1>2, <1>3

-----------------------------------------------------------------------------
(* The invariant                                                           *)

CallFields == {"max", "over", "tail", "want", "my", "n", "i", "h", "front", "pos",
               "block", "out"}

(* The shape of the calls.                                                 *)
CallShape ==
  /\ DOMAIN cp = Consumers /\ DOMAIN loc = Consumers
  /\ \A c \in Consumers : DOMAIN loc[c] = CallFields

(* What a consumer holds at each point of dequeue: the overcommit it has   *)
(* loaded is not more than there is, its claim lies below the optimistic   *)
(* count, and what is covered is not more than what it claimed.            *)
CallInv(c) ==
  LET l == loc[c] IN
  /\ cp[c] = "check" => l.max \in 1 .. MaxBulk /\ l.tail \in Nat
  /\ cp[c] \in {"check", "claim", "reload"} => l.over \in 0 .. dequeueOvercommit
  /\ cp[c] \in {"claim", "reload", "overcommit", "take"} => l.want \in 1 .. MaxBulk
  /\ cp[c] = "reload" => /\ l.my \in Nat /\ l.over <= l.my
                         /\ l.my + l.want <= dequeueOptimisticCount
  /\ cp[c] = "overcommit" => l.n \in 0 .. l.want
  /\ cp[c] = "take" => l.n = l.want

(* Claims that are not decided and were made before x of them had been.    *)
Undecided(x) ==
  [c \in Consumers |-> IF cp[c] = "reload" /\ loc[c].my < x THEN loc[c].want ELSE 0]

(* Calls that may still add to dequeueOvercommit.                          *)
Open ==
  [c \in Consumers |-> IF cp[c] \in {"check", "claim", "reload", "overcommit"}
                       THEN MaxBulk ELSE 0]

CounterInv ==
  /\ context \in Contexts
  /\ tailIndex \in 0 .. MaxTail
  /\ headIndex \in Nat /\ dequeueOptimisticCount \in Nat /\ dequeueOvercommit \in Nat
  /\ dequeueOptimisticCount = headIndex + dequeueOvercommit + Total(Claimed)
  /\ dequeueOvercommit + Total(Open) <= MaxOvercommit[context] + AllUnits

EnqueueInv ==
  /\ "pc" \in DOMAIN op
  /\ op.pc # "idle" => "n" \in DOMAIN op /\ op.n \in Nat /\ tailIndex + op.n <= MaxTail

(* f is where the last of the claims begins that were covered, wholly or   *)
(* in part.  The elements granted so far, with all claims before f that    *)
(* are not decided, end at the tail; the elements granted so far, with all *)
(* claims before one behind f, end where that one began (at x), less what  *)
(* was known to be given back.                                             *)
Granted == headIndex + Total(Promised)

FrontierInv(f) ==
  /\ f \in Int /\ f < dequeueOptimisticCount
  /\ \A c \in Consumers : cp[c] = "reload" => loc[c].my # f
  /\ \A c, d \in Consumers :
       cp[c] = "reload" /\ cp[d] = "reload" /\ loc[c].my = loc[d].my => c = d
  /\ Granted + Total(Undecided(f)) <= tailIndex
  /\ \A c \in Consumers, x \in Nat : cp[c] = "reload" /\ loc[c].my = x /\ x > f =>
       Granted + Total(Undecided(x)) <= x - loc[c].over

BaseInv == CallShape /\ CounterInv /\ EnqueueInv /\ \A c \in Consumers : CallInv(c)

ClaimInv == BaseInv /\ \E f \in Int : FrontierInv(f)

(* The sums are sums of numbers up to MaxBulk.                             *)
LEMMA SumsTyped ==
  ASSUME BaseInv
  PROVE  /\ Claimed \in Counts /\ Promised \in Counts /\ Open \in Counts
         /\ \A x : Undecided(x) \in Counts
PROOF
  <1>1. MaxBulk \in Nat
    BY SizeAssumption
  <1>2. \A c \in Consumers :
          /\ cp[c] \in {"reload", "overcommit", "take"} => loc[c].want \in 0 .. MaxBulk
          /\ cp[c] \in {"overcommit", "take"} => loc[c].n \in 0 .. MaxBulk
    BY <1>1 DEF BaseInv, CallInv
  <1>3. Claimed \in Counts
    BY <1>1, <1>2 DEF Claimed, Counts
  <1>4. Promised \in Counts
    BY <1>1, <1>2 DEF Promised, Counts
  <1>5. Open \in Counts
    BY <1>1 DEF Open, Counts
  <1>6. ASSUME NEW x PROVE Undecided(x) \in Counts
    BY <1>1, <1>2 DEF Undecided, Counts
  <1> QED
    BY <1>3, <1>4, <1>5, <1>6

(* The invariant implies the property.                                     *)
LEMMA ClaimsFollow ==
  ASSUME ClaimInv
  PROVE  ClaimsCovered
PROOF
  <1>1. PICK f \in Int : FrontierInv(f)
    BY DEF ClaimInv
  <1>2. BaseInv
    BY DEF ClaimInv
  <1>3. /\ Total(Claimed) \in Nat /\ Total(Promised) \in Nat /\ Total(Undecided(f)) \in Nat
    BY TotalIsUnits
  <1>4. /\ context \in Contexts /\ tailIndex \in 0 .. MaxTail /\ headIndex \in Nat
        /\ dequeueOptimisticCount \in Nat /\ dequeueOvercommit \in Nat
        /\ dequeueOptimisticCount = headIndex + dequeueOvercommit + Total(Claimed)
    BY <1>2 DEF BaseInv, CounterInv
  <1>5. /\ MaxTail \in Nat /\ IndexMod \in Nat /\ 2 * CounterBound(context) <= IndexMod
        /\ AllUnits \in Nat /\ MaxOvercommit[context] \in Nat
    BY <1>4, BoundFacts
  <1>6. headIndex + Total(Promised) + Total(Undecided(f)) <= tailIndex
    BY <1>1 DEF FrontierInv, Granted
  <1>7. Minus(dequeueOptimisticCount, dequeueOvercommit) = Plus(headIndex, Total(Claimed))
    <2>1. dequeueOptimisticCount - dequeueOvercommit = headIndex + Total(Claimed)
      BY <1>3, <1>4
    <2> QED
      BY <2>1, Zenon DEF Minus, Plus
  <1>8. Minus(tailIndex, headIndex) = tailIndex - headIndex
    <2>1. tailIndex - headIndex \in 0 .. MaxTail
      BY <1>3, <1>4, <1>5, <1>6
    <2>2. MaxTail < IndexMod
      BY <1>5, SizeAssumption DEF CounterBound
    <2> QED
      BY <2>1, <2>2, <1>5 DEF Minus
  <1> QED
    BY <1>3, <1>4, <1>6, <1>7, <1>8 DEF ClaimsCovered

-----------------------------------------------------------------------------
(* Steps                                                                   *)

(* The sums after a step are typed as well.                                *)
LEMMA SumsTypedNext ==
  ASSUME \A c \in Consumers : CallInv(c)'
  PROVE  /\ Claimed' \in Counts /\ Promised' \in Counts /\ Open' \in Counts
         /\ \A x : Undecided(x)' \in Counts
PROOF
  <1>1. MaxBulk \in Nat
    BY SizeAssumption
  <1>2. \A c \in Consumers :
          /\ cp'[c] \in {"reload", "overcommit", "take"} => loc'[c].want \in 0 .. MaxBulk
          /\ cp'[c] \in {"overcommit", "take"} => loc'[c].n \in 0 .. MaxBulk
    BY <1>1 DEF CallInv
  <1>3. Claimed' \in Counts
    BY <1>1, <1>2 DEF Claimed, Counts
  <1>4. Promised' \in Counts
    BY <1>1, <1>2 DEF Promised, Counts
  <1>5. Open' \in Counts
    BY <1>1 DEF Open, Counts
  <1>6. ASSUME NEW x PROVE Undecided(x)' \in Counts
    BY <1>1, <1>2 DEF Undecided, Counts
  <1> QED
    BY <1>3, <1>4, <1>5, <1>6

(* A step of one consumer leaves the others alone.                         *)
LEMMA StepFrame ==
  ASSUME BaseInv, NEW c \in Consumers, NEW pc, NEW l, DOMAIN l = CallFields, Step(c, pc, l)
  PROVE  /\ CallShape'
         /\ cp'[c] = pc /\ loc'[c] = l
         /\ \A d \in Consumers : d # c => cp'[d] = cp[d] /\ loc'[d] = loc[d]
PROOF
  <1>1. DOMAIN cp = Consumers /\ DOMAIN loc = Consumers
    BY DEF BaseInv, CallShape
  <1>2. cp' = [cp EXCEPT ![c] = pc] /\ loc' = [loc EXCEPT ![c] = l]
    BY DEF Step
  <1>3. /\ cp'[c] = pc /\ loc'[c] = l
        /\ \A d \in Consumers : d # c => cp'[d] = cp[d] /\ loc'[d] = loc[d]
        /\ DOMAIN cp' = Consumers /\ DOMAIN loc' = Consumers
    BY <1>1, <1>2
  <1>4. \A d \in Consumers : DOMAIN loc'[d] = CallFields
    BY <1>3 DEF BaseInv, CallShape
  <1> QED
    BY <1>3, <1>4 DEF CallShape

(* The others' part of the invariant survives as the counters grow.        *)
LEMMA OthersKept ==
  ASSUME BaseInv, NEW c \in Consumers, CallInv(c)',
         \A d \in Consumers : d # c => cp'[d] = cp[d] /\ loc'[d] = loc[d],
         dequeueOvercommit' \in Nat, dequeueOvercommit <= dequeueOvercommit',
         dequeueOptimisticCount' \in Nat, dequeueOptimisticCount <= dequeueOptimisticCount'
  PROVE  \A d \in Consumers : CallInv(d)'
PROOF
  <1> SUFFICES ASSUME NEW d \in Consumers, d # c PROVE CallInv(d)'
    OBVIOUS
  <1>1. CallInv(d) /\ dequeueOvercommit \in Nat /\ dequeueOptimisticCount \in Nat
    BY DEF BaseInv, CounterInv
  <1>2. cp'[d] = cp[d] /\ loc'[d] = loc[d]
    OBVIOUS
  <1>3. MaxBulk \in 1 .. 3
    BY SizeAssumption
  <1> QED
    BY <1>1, <1>2, <1>3 DEF CallInv

(* How the sums change with a step of one consumer.                        *)
LEMMA SumsChange ==
  ASSUME BaseInv, NEW c \in Consumers,
         \A d \in Consumers : CallInv(d)',
         \A d \in Consumers : d # c => cp'[d] = cp[d] /\ loc'[d] = loc[d]
  PROVE  /\ Total(Claimed') = Total(Claimed) + Claimed'[c] - Claimed[c]
         /\ Total(Promised') = Total(Promised) + Promised'[c] - Promised[c]
         /\ Total(Open') = Total(Open) + Open'[c] - Open[c]
         /\ \A x : Total(Undecided(x)') = Total(Undecided(x)) + Undecided(x)'[c] - Undecided(x)[c]
PROOF
  <1>1. /\ Claimed \in Counts /\ Promised \in Counts /\ Open \in Counts
        /\ \A x : Undecided(x) \in Counts
    BY SumsTyped
  <1>2. /\ Claimed' \in Counts /\ Promised' \in Counts /\ Open' \in Counts
        /\ \A x : Undecided(x)' \in Counts
    BY SumsTypedNext
  <1>3. \A d \in Consumers : d # c => Claimed'[d] = Claimed[d]
    BY DEF Claimed
  <1>4. \A d \in Consumers : d # c => Promised'[d] = Promised[d]
    BY DEF Promised
  <1>5. \A d \in Consumers : d # c => Open'[d] = Open[d]
    BY DEF Open
  <1>6. ASSUME NEW x
        PROVE  Total(Undecided(x)') = Total(Undecided(x)) + Undecided(x)'[c] - Undecided(x)[c]
    <2>1. \A d \in Consumers : d # c => Undecided(x)'[d] = Undecided(x)[d]
      BY DEF Undecided
    <2>2. Undecided(x) \in Counts /\ Undecided(x)' \in Counts
      BY <1>1, <1>2
    <2> QED
      BY ONLY <2>1, <2>2, TotalChange, c \in Consumers
  <1>7. Total(Claimed') = Total(Claimed) + Claimed'[c] - Claimed[c]
    BY ONLY <1>1, <1>2, <1>3, TotalChange, c \in Consumers
  <1>8. Total(Promised') = Total(Promised) + Promised'[c] - Promised[c]
    BY ONLY <1>1, <1>2, <1>4, TotalChange, c \in Consumers
  <1>9. Total(Open') = Total(Open) + Open'[c] - Open[c]
    BY ONLY <1>1, <1>2, <1>5, TotalChange, c \in Consumers
  <1> QED
    BY <1>6, <1>7, <1>8, <1>9

(* Where the claims of dequeue are under way.                              *)
Claiming == {"reload", "overcommit", "take"}
Opening  == {"check", "claim", "reload", "overcommit"}

(* A step of a consumer that has no claim before or after it, and touches  *)
(* no counter.                                                             *)
LEMMA QuietStep ==
  ASSUME ClaimInv, NEW c \in Consumers, NEW pc, NEW l, DOMAIN l = CallFields, Step(c, pc, l),
         UNCHANGED <<context, shared, op>>, CallInv(c)',
         cp[c] \notin Claiming, pc \notin Claiming,
         pc \in Opening => cp[c] \in Opening \/ dequeueOvercommit <= MaxOvercommit[context]
  PROVE  ClaimInv'
PROOF
  <1>1. BaseInv
    BY DEF ClaimInv
  <1>2. PICK f \in Int : FrontierInv(f)
    BY DEF ClaimInv
  <1>3. /\ CallShape' /\ cp'[c] = pc /\ loc'[c] = l
        /\ \A d \in Consumers : d # c => cp'[d] = cp[d] /\ loc'[d] = loc[d]
    BY <1>1, StepFrame
  <1>4. /\ context' = context /\ tailIndex' = tailIndex /\ headIndex' = headIndex
        /\ dequeueOptimisticCount' = dequeueOptimisticCount
        /\ dequeueOvercommit' = dequeueOvercommit /\ op' = op
    BY DEF shared
  <1>5. /\ dequeueOptimisticCount \in Nat /\ dequeueOvercommit \in Nat /\ context \in Contexts
        /\ dequeueOvercommit + Total(Open) <= MaxOvercommit[context] + AllUnits
    BY <1>1 DEF BaseInv, CounterInv
  <1>6. \A d \in Consumers : CallInv(d)'
    BY <1>1, <1>3, <1>4, <1>5, OthersKept
  <1>7. \A d \in Consumers : cp'[d] \in Claiming <=> cp[d] \in Claiming
    BY <1>3
  <1>8. Claimed' = Claimed /\ Promised' = Promised
    BY <1>3, <1>7 DEF Claimed, Promised, Claiming
  <1>9. \A x : Undecided(x)' = Undecided(x)
    BY <1>3, <1>7 DEF Undecided, Claiming
  <1>10. dequeueOvercommit' + Total(Open') <= MaxOvercommit[context'] + AllUnits
    <2>1. /\ Total(Open') = Total(Open) + Open'[c] - Open[c]
          /\ Total(Open') \in Nat /\ Total(Open') <= AllUnits /\ Total(Open) \in Nat
      BY <1>1, <1>3, <1>6, SumsChange, TotalIsUnits
    <2>2. MaxOvercommit[context] \in Nat /\ AllUnits \in Nat /\ MaxBulk \in 1 .. 3
      BY <1>5, BoundFacts
    <2>3. CASE dequeueOvercommit <= MaxOvercommit[context]
      BY <2>1, <2>2, <2>3, <1>4, <1>5
    <2>4. CASE pc \notin Opening \/ cp[c] \in Opening
      <3>1. Open'[c] = (IF pc \in Opening THEN MaxBulk ELSE 0)
        BY <1>3 DEF Open, Opening
      <3>2. Open[c] = (IF cp[c] \in Opening THEN MaxBulk ELSE 0)
        BY DEF Open, Opening
      <3> QED
        BY <3>1, <3>2, <2>1, <2>2, <2>4, <1>4, <1>5
    <2> QED
      BY <2>3, <2>4
  <1>11. CounterInv' /\ EnqueueInv'
    BY <1>1, <1>4, <1>8, <1>10 DEF BaseInv, CounterInv, EnqueueInv
  <1>12. FrontierInv(f)'
    <2>1. Granted' = Granted
      BY <1>4, <1>8 DEF Granted
    <2>2. \A d \in Consumers : cp'[d] = "reload" => cp[d] = "reload" /\ loc'[d] = loc[d]
      BY <1>3 DEF Claiming
    <2> QED
      BY <1>2, <1>4, <1>9, <2>1, <2>2 DEF FrontierInv
  <1> QED
    BY <1>3, <1>6, <1>11, <1>12 DEF ClaimInv, BaseInv

(* What a consumer's step that counts for the claims begins with.          *)
LEMMA CallTypes ==
  ASSUME BaseInv, NEW c \in Consumers
  PROVE  /\ context \in Contexts /\ tailIndex \in 0 .. MaxTail /\ MaxTail \in Nat
         /\ headIndex \in Nat /\ dequeueOptimisticCount \in Nat /\ dequeueOvercommit \in Nat
         /\ dequeueOptimisticCount = headIndex + dequeueOvercommit + Total(Claimed)
         /\ dequeueOvercommit + Total(Open) <= MaxOvercommit[context] + AllUnits
         /\ Total(Claimed) \in Nat /\ Total(Open) \in Nat /\ Total(Promised) \in Nat
         /\ Total(Claimed) <= AllUnits
         /\ \A x : Total(Undecided(x)) \in Nat
         /\ CallInv(c) /\ DOMAIN loc[c] = CallFields
         /\ MaxBulk \in 1 .. 3 /\ AllUnits \in Nat /\ MaxOvercommit[context] \in Nat
         /\ IndexMod \in Nat \ {0} /\ CounterBound(context) \in Nat
         /\ 2 * CounterBound(context) <= IndexMod
         /\ CounterBound(context) = MaxTail + MaxOvercommit[context] + 2 * AllUnits
PROOF
  <1>1. context \in Contexts
    BY DEF BaseInv, CounterInv
  <1>2. /\ MaxBulk \in 1 .. 3 /\ AllUnits \in Nat /\ MaxOvercommit[context] \in Nat
        /\ CounterBound(context) \in Nat /\ 2 * CounterBound(context) <= IndexMod /\ MaxTail \in Nat
    BY <1>1, BoundFacts
  <1>3. IndexMod \in Nat \ {0}
    BY SizeAssumption
  <1>4. CounterBound(context) = MaxTail + MaxOvercommit[context] + 2 * AllUnits
    BY DEF CounterBound
  <1>5. /\ Total(Claimed) \in Nat /\ Total(Open) \in Nat /\ Total(Promised) \in Nat
        /\ Total(Claimed) <= AllUnits /\ \A x : Total(Undecided(x)) \in Nat
    BY TotalIsUnits
  <1> QED
    BY <1>1, <1>2, <1>3, <1>4, <1>5 DEF BaseInv, CounterInv, CallShape

(* The head never passes the tail.                                         *)
LEMMA HeadBound ==
  ASSUME BaseInv, NEW f \in Int, FrontierInv(f)
  PROVE  headIndex + Total(Promised) <= tailIndex
PROOF
  <1>1. /\ headIndex \in Nat /\ tailIndex \in Int /\ MaxTail \in Nat
    BY CounterAssumption DEF BaseInv, CounterInv
  <1>2. Total(Promised) \in Nat /\ Total(Undecided(f)) \in Nat
    BY TotalIsUnits
  <1> QED
    BY <1>1, <1>2 DEF FrontierInv, Granted

(* fetch_add of the optimistic count: the claim begins behind all others,  *)
(* and behind what is granted, as the overcommit loaded before is not more *)
(* than there is now.                                                      *)
LEMMA ClaimStep ==
  ASSUME ClaimInv, NEW c \in Consumers, Claim(c)
  PROVE  ClaimInv'
PROOF
  <1>1. BaseInv
    BY DEF ClaimInv
  <1>2. PICK f \in Int : FrontierInv(f)
    BY DEF ClaimInv
  <1> DEFINE l == loc[c]
             O == dequeueOptimisticCount
             m == [loc[c] EXCEPT !.my = dequeueOptimisticCount]
  <1>3. /\ cp[c] = "claim" /\ dequeueOptimisticCount' = Plus(O, l.want)
        /\ Step(c, "reload", m)
        /\ context' = context /\ tailIndex' = tailIndex /\ headIndex' = headIndex
        /\ dequeueOvercommit' = dequeueOvercommit /\ op' = op
    BY DEF Claim, At
  <1>4. /\ DOMAIN m = CallFields /\ m.my = O /\ m.want = l.want /\ m.over = l.over
    BY <1>1, CallTypes DEF CallFields
  <1>5. l.want \in 1 .. MaxBulk /\ l.over \in 0 .. dequeueOvercommit
    BY <1>1, <1>3, CallTypes DEF CallInv
  <1>6. headIndex + Total(Promised) <= tailIndex
    BY <1>1, <1>2, HeadBound
  <1>7. O + l.want < IndexMod /\ dequeueOptimisticCount' = O + l.want
    <2>1. O \in Nat /\ l.want \in Nat /\ IndexMod \in Nat
      BY <1>1, <1>5, CallTypes
    <2>2. Total(Open) >= MaxBulk
      <3>1. Open \in Counts /\ [Open EXCEPT ![c] = 0] \in Counts
        BY <1>1, SumsTyped, CallTypes DEF Counts
      <3>2. Total([Open EXCEPT ![c] = 0]) = Total(Open) + 0 - Open[c]
        BY <3>1, TotalChange DEF Counts
      <3>3. Open[c] = MaxBulk
        BY <1>3 DEF Open
      <3>4. Total([Open EXCEPT ![c] = 0]) \in Nat
        BY TotalIsUnits
      <3> QED
        BY <3>2, <3>3, <3>4, <1>1, CallTypes
    <2>3. O + l.want <= MaxTail + MaxOvercommit[context] + 2 * AllUnits
      BY <2>2, <1>1, <1>5, <1>6, CallTypes
    <2>4. O + l.want < IndexMod
      BY <2>1, <2>3, <1>1, CallTypes
    <2> QED
      BY <2>1, <2>4, <1>3 DEF Plus
  <1> HIDE DEF m
  <1>8. /\ CallShape' /\ cp'[c] = "reload" /\ loc'[c] = m
        /\ \A d \in Consumers : d # c => cp'[d] = cp[d] /\ loc'[d] = loc[d]
    BY <1>1, <1>3, <1>4, StepFrame
  <1>9. O \in Nat /\ dequeueOvercommit \in Nat /\ MaxBulk \in 1 .. 3 /\ dequeueOvercommit <= O
    BY <1>1, CallTypes
  <1>10. CallInv(c)'
    BY <1>3, <1>4, <1>5, <1>7, <1>8, <1>9 DEF CallInv
  <1>11. \A d \in Consumers : CallInv(d)'
    BY <1>1, <1>3, <1>5, <1>7, <1>8, <1>9, <1>10, OthersKept
  <1>12. /\ Total(Claimed') = Total(Claimed) + Claimed'[c] - Claimed[c]
         /\ Total(Promised') = Total(Promised) + Promised'[c] - Promised[c]
         /\ Total(Open') = Total(Open) + Open'[c] - Open[c]
         /\ \A x : Total(Undecided(x)') = Total(Undecided(x)) + Undecided(x)'[c] - Undecided(x)[c]
    BY <1>1, <1>8, <1>11, SumsChange
  <1>13. /\ Claimed'[c] = l.want /\ Claimed[c] = 0 /\ Promised'[c] = 0 /\ Promised[c] = 0
         /\ Open'[c] = MaxBulk /\ Open[c] = MaxBulk
    BY <1>3, <1>4, <1>8 DEF Claimed, Promised, Open
  <1>14. \A x \in Int : x <= O => Undecided(x)'[c] = 0 /\ Undecided(x)[c] = 0
    BY <1>3, <1>4, <1>8, <1>9 DEF Undecided
  <1>15. CounterInv' /\ EnqueueInv'
    <2>1. /\ Total(Claimed') = Total(Claimed) + l.want /\ Total(Open') = Total(Open)
      BY <1>1, <1>5, <1>9, <1>12, <1>13, CallTypes
    <2> QED
      BY <2>1, <1>1, <1>3, <1>5, <1>7, CallTypes DEF BaseInv, CounterInv, EnqueueInv
  <1>16. FrontierInv(f)'
    <2>1. Granted' = Granted
      BY <1>1, <1>3, <1>12, <1>13, CallTypes DEF Granted
    <2>2. ASSUME NEW x \in Int, x <= O
          PROVE  Total(Undecided(x)') = Total(Undecided(x))
      BY <2>2, <1>1, <1>12, <1>14, CallTypes
    <2>3. f < O
      BY <1>2 DEF FrontierInv
    <2>4. \A d \in Consumers : d # c /\ cp'[d] = "reload" =>
            cp[d] = "reload" /\ loc'[d] = loc[d] /\ loc[d].my \in Nat /\ loc[d].my < O
      <3> SUFFICES ASSUME NEW d \in Consumers, d # c, cp'[d] = "reload"
                   PROVE  cp[d] = "reload" /\ loc'[d] = loc[d] /\ loc[d].my \in Nat /\ loc[d].my < O
        OBVIOUS
      <3>1. cp[d] = "reload" /\ loc'[d] = loc[d] /\ CallInv(d)
        BY <1>1, <1>8 DEF BaseInv
      <3> QED
        BY <3>1, <1>9 DEF CallInv
    <2>5. Granted + Total(Undecided(O)) <= O - l.over
      <3>1. Claimed \in Counts /\ Promised \in Counts /\ Undecided(O) \in Counts
        BY <1>1, SumsTyped
      <3>2. \A d \in Consumers : /\ Promised[d] = 0 \/ Undecided(O)[d] = 0
                                 /\ Promised[d] <= Claimed[d] /\ Undecided(O)[d] <= Claimed[d]
        <4> SUFFICES ASSUME NEW d \in Consumers
                     PROVE  /\ Promised[d] = 0 \/ Undecided(O)[d] = 0
                            /\ Promised[d] <= Claimed[d] /\ Undecided(O)[d] <= Claimed[d]
          OBVIOUS
        <4>1. CallInv(d)
          BY <1>1 DEF BaseInv
        <4> QED
          BY <4>1, <1>9 DEF CallInv, Promised, Undecided, Claimed
      <3>3. Total(Promised) + Total(Undecided(O)) <= Total(Claimed)
        BY ONLY <3>1, <3>2, TotalApart
      <3> QED
        BY <3>3, <1>1, <1>5, CallTypes DEF Granted
    <2>6. dequeueOptimisticCount' \in Nat /\ O < dequeueOptimisticCount' /\ O \in Nat
      BY <1>5, <1>7, <1>9
    <2>7. loc'[c].my = O /\ loc'[c].over = l.over
      BY <1>4, <1>8
    <2> HIDE DEF O, l
    <2>8. f \in Int /\ f < dequeueOptimisticCount'
      BY <2>3, <2>6
    <2>9. \A d \in Consumers : cp'[d] = "reload" => loc'[d].my # f
      BY <1>2, <2>3, <2>4, <2>6, <2>7 DEF FrontierInv
    <2>10. \A d, e \in Consumers :
             cp'[d] = "reload" /\ cp'[e] = "reload" /\ loc'[d].my = loc'[e].my => d = e
      BY <1>2, <2>4, <2>6, <2>7 DEF FrontierInv
    <2>11. Granted' + Total(Undecided(f)') <= tailIndex'
      BY <1>2, <1>3, <2>1, <2>2, <2>3, <2>6 DEF FrontierInv
    <2>12. ASSUME NEW d \in Consumers, NEW x \in Nat,
                  cp'[d] = "reload", loc'[d].my = x, x > f
           PROVE  Granted' + Total(Undecided(x)') <= x - loc'[d].over
      <3>1. CASE d = c
        BY <3>1, <2>1, <2>2, <2>5, <2>6, <2>7, <2>12
      <3>2. CASE d # c
        BY <3>2, <1>2, <2>1, <2>2, <2>4, <2>6, <2>12 DEF FrontierInv
      <3> QED
        BY <3>1, <3>2
    <2> QED
      BY <2>8, <2>9, <2>10, <2>11, <2>12 DEF FrontierInv
  <1> QED
    BY <1>8, <1>11, <1>15, <1>16 DEF ClaimInv, BaseInv

(* The second load of the tail decides a claim.  If it is the last claim   *)
(* to be covered, what was granted ends where it began; if a later claim   *)
(* was covered before, there is room for all of it.                        *)
LEMMA ReloadStep ==
  ASSUME ClaimInv, NEW c \in Consumers, Reload(c)
  PROVE  ClaimInv'
PROOF
  <1>1. BaseInv
    BY DEF ClaimInv
  <1>2. PICK f \in Int : FrontierInv(f)
    BY DEF ClaimInv
  <1> DEFINE l == loc[c]
             O == dequeueOptimisticCount
             n == CoveredPart(tailIndex, l.my, l.over, l.want)
             pc == IF n < l.want THEN "overcommit" ELSE "take"
             m == [l EXCEPT !.n = n, !.my = 0, !.over = 0, !.max = 0]
  <1>3. /\ cp[c] = "reload" /\ Step(c, pc, m)
        /\ context' = context /\ tailIndex' = tailIndex /\ headIndex' = headIndex
        /\ dequeueOptimisticCount' = O /\ dequeueOvercommit' = dequeueOvercommit /\ op' = op
    BY DEF Reload, CoveredPart, At, shared
  <1>4. DOMAIN m = CallFields /\ m.n = n /\ m.want = l.want
    BY <1>1, CallTypes DEF CallFields
  <1>5. /\ l.want \in 1 .. MaxBulk /\ l.over \in 0 .. dequeueOvercommit
        /\ l.my \in Nat /\ l.over <= l.my /\ l.my + l.want <= O
    BY <1>1, <1>3, CallTypes DEF CallInv
  <1>6. headIndex + Total(Promised) <= tailIndex
    BY <1>1, <1>2, HeadBound
  <1>7. n \in 0 .. l.want /\ (n > 0 => l.my - l.over + n <= tailIndex)
    <2>1. O <= CounterBound(context) /\ tailIndex <= CounterBound(context)
      BY <1>1, <1>6, CallTypes
    <2>2. /\ l.my < CounterBound(context) /\ tailIndex \in Nat /\ l.over \in Nat /\ l.want \in Nat
          /\ context \in Contexts
      BY <2>1, <1>1, <1>5, CallTypes
    <2> HIDE DEF l, O
    <2>3. /\ context \in Contexts /\ tailIndex \in Nat /\ l.my \in Nat /\ l.over \in Nat
          /\ l.want \in Nat /\ l.over <= l.my
          /\ tailIndex <= CounterBound(context) /\ l.my < CounterBound(context)
      BY <2>1, <2>2, <1>5
    <2> QED
      BY ONLY <2>3, CoveredEndsAtTail
  <1> HIDE DEF n, m
  <1>8. /\ CallShape' /\ cp'[c] = pc /\ loc'[c] = m
        /\ \A d \in Consumers : d # c => cp'[d] = cp[d] /\ loc'[d] = loc[d]
    BY <1>1, <1>3, <1>4, StepFrame
  <1>9. O \in Nat /\ dequeueOvercommit \in Nat /\ MaxBulk \in 1 .. 3
    BY <1>1, CallTypes
  <1>10. CallInv(c)'
    BY <1>3, <1>4, <1>5, <1>7, <1>8, <1>9 DEF CallInv
  <1>11. \A d \in Consumers : CallInv(d)'
    BY <1>1, <1>3, <1>8, <1>9, <1>10, OthersKept
  <1>12. /\ Total(Claimed') = Total(Claimed) + Claimed'[c] - Claimed[c]
         /\ Total(Promised') = Total(Promised) + Promised'[c] - Promised[c]
         /\ Total(Open') = Total(Open) + Open'[c] - Open[c]
         /\ \A x : Total(Undecided(x)') = Total(Undecided(x)) + Undecided(x)'[c] - Undecided(x)[c]
    BY <1>1, <1>8, <1>11, SumsChange
  <1>13. /\ Claimed'[c] = l.want /\ Claimed[c] = l.want /\ Promised'[c] = n /\ Promised[c] = 0
         /\ Open'[c] \in {0, MaxBulk} /\ Open[c] = MaxBulk
    BY <1>3, <1>4, <1>8 DEF Claimed, Promised, Open
  <1>14. \A x : /\ Undecided(x)'[c] = 0
                /\ Undecided(x)[c] = IF l.my < x THEN l.want ELSE 0
    BY <1>3, <1>8 DEF Undecided
  <1>15. CounterInv' /\ EnqueueInv'
    <2>1. /\ Total(Claimed') = Total(Claimed) /\ Total(Open') <= Total(Open)
          /\ Total(Open') \in Int
      BY <1>1, <1>5, <1>9, <1>12, <1>13, CallTypes
    <2> QED
      BY <2>1, <1>1, <1>3, CallTypes DEF BaseInv, CounterInv, EnqueueInv
  <1>16. Granted' = Granted + n /\ Granted \in Nat
    BY <1>1, <1>3, <1>7, <1>9, <1>12, <1>13, CallTypes DEF Granted
  <1>17. ASSUME NEW x \in Int
         PROVE  /\ Total(Undecided(x)) \in Nat
                /\ Total(Undecided(x)') = Total(Undecided(x)) - (IF l.my < x THEN l.want ELSE 0)
    BY <1>1, <1>5, <1>12, <1>14, CallTypes
  <1>18. \A d \in Consumers : cp'[d] = "reload" =>
           d # c /\ cp[d] = "reload" /\ loc'[d] = loc[d]
    BY <1>8
  <1>19. \A d \in Consumers : d # c /\ cp[d] = "reload" =>
           loc[d].my \in Nat /\ loc[d].my # l.my /\ loc[d].over \in Nat
    <2> SUFFICES ASSUME NEW d \in Consumers, d # c, cp[d] = "reload"
                 PROVE  loc[d].my \in Nat /\ loc[d].my # l.my /\ loc[d].over \in Nat
      OBVIOUS
    <2>1. CallInv(d)
      BY <1>1 DEF BaseInv
    <2> QED
      BY <2>1, <1>2, <1>3, <1>9 DEF CallInv, FrontierInv
  <1>20. tailIndex \in Int
    BY <1>1, CallTypes
  <1>21. PICK y : y = l.my
    OBVIOUS
  <1>22. PICK g : g = IF n > 0 /\ y > f THEN y ELSE f
    OBVIOUS
  <1>23. FrontierInv(g)'
    <2>1. f \in Int /\ f < O /\ g \in Int /\ g < O /\ f <= g
      BY <1>2, <1>5, <1>9, <1>21, <1>22 DEF FrontierInv
    <2>2. l.my # f /\ l.want \in Nat \ {0} /\ n \in Nat /\ n <= l.want
      BY <1>2, <1>3, <1>5, <1>7, <1>9 DEF FrontierInv
    <2>3. Granted + Total(Undecided(f)) <= tailIndex
      BY <1>2 DEF FrontierInv
    <2>4. y > f => Granted + Total(Undecided(y)) <= y - l.over
      BY <1>2, <1>3, <1>5, <1>21 DEF FrontierInv
    <2> HIDE DEF l, O
    <2>5. \A d \in Consumers : cp'[d] = "reload" => loc'[d].my # g
      BY <1>2, <1>18, <1>19, <1>21, <1>22 DEF FrontierInv
    <2>6. \A d, e \in Consumers :
            cp'[d] = "reload" /\ cp'[e] = "reload" /\ loc'[d].my = loc'[e].my => d = e
      BY <1>2, <1>18 DEF FrontierInv
    <2>7. Granted' + Total(Undecided(g)') <= tailIndex'
      <3>1. CASE n > 0 /\ y > f
        <4>1. Total(Undecided(y)') = Total(Undecided(y)) /\ Total(Undecided(y)) \in Nat
          BY <1>5, <1>17, <1>21, <2>2
        <4>2. g = y
          BY <3>1, <1>22
        <4>3. y - l.over + n <= tailIndex /\ y \in Nat /\ l.over \in Int
          BY <3>1, <1>5, <1>7, <1>9, <1>21
        <4> QED
          BY <3>1, <4>1, <4>2, <4>3, <1>3, <1>16, <1>20, <2>2, <2>4
      <3>2. CASE ~(n > 0 /\ y > f)
        <4>1. g = f
          BY <3>2, <1>22
        <4>2. /\ Total(Undecided(f)) \in Nat
              /\ Total(Undecided(f)') = Total(Undecided(f)) - (IF l.my < f THEN l.want ELSE 0)
          BY <1>17
        <4>3. n <= IF l.my < f THEN l.want ELSE 0
          BY <3>2, <2>2, <1>5, <1>21
        <4> QED
          BY <4>1, <4>2, <4>3, <1>3, <1>16, <1>20, <2>2, <2>3
      <3> QED
        BY <3>1, <3>2
    <2>8. ASSUME NEW d \in Consumers, NEW x \in Nat, cp'[d] = "reload", loc'[d].my = x, x > g
          PROVE  Granted' + Total(Undecided(x)') <= x - loc'[d].over
      <3>1. d # c /\ cp[d] = "reload" /\ loc'[d] = loc[d] /\ loc[d].my = x /\ loc[d].over \in Nat
        BY <1>18, <1>19, <2>8
      <3>2. x > f /\ x # l.my
        BY <1>19, <2>1, <2>8, <3>1
      <3>3. Granted + Total(Undecided(x)) <= x - loc[d].over
        BY <1>2, <3>1, <3>2 DEF FrontierInv
      <3>4. n <= IF l.my < x THEN l.want ELSE 0
        BY <3>2, <2>1, <2>2, <2>8, <1>5, <1>21, <1>22
      <3>5. /\ Total(Undecided(x)) \in Nat
            /\ Total(Undecided(x)') = Total(Undecided(x)) - (IF l.my < x THEN l.want ELSE 0)
        BY <1>17
      <3> QED
        BY <3>1, <3>3, <3>4, <3>5, <1>16, <2>2
    <2>9. dequeueOptimisticCount' = O
      BY <1>3 DEF O
    <2> QED
      BY <2>1, <2>5, <2>6, <2>7, <2>8, <2>9 DEF FrontierInv
  <1>24. g \in Int
    BY <1>5, <1>21, <1>22
  <1> QED
    BY <1>8, <1>11, <1>15, <1>23, <1>24 DEF ClaimInv, BaseInv

(* What is not covered is given back: the claim shrinks by as much as the  *)
(* overcommit grows, and nothing more or less is granted.                  *)
LEMMA OvercommitStep ==
  ASSUME ClaimInv, NEW c \in Consumers, Overcommit(c)
  PROVE  ClaimInv'
PROOF
  <1>1. BaseInv
    BY DEF ClaimInv
  <1>2. PICK f \in Int : FrontierInv(f)
    BY DEF ClaimInv
  <1> DEFINE l == loc[c]
             V == dequeueOvercommit
             pc == IF l.n = 0 THEN "idle" ELSE "take"
             m == IF l.n = 0 THEN NoCall ELSE [l EXCEPT !.want = l.n]
  <1>3. /\ cp[c] = "overcommit" /\ Step(c, pc, m) /\ V' = Plus(V, l.want - l.n)
        /\ context' = context /\ tailIndex' = tailIndex /\ headIndex' = headIndex
        /\ dequeueOptimisticCount' = dequeueOptimisticCount /\ op' = op
    BY DEF Overcommit, At, Return
  <1>4. DOMAIN m = CallFields /\ (l.n # 0 => m.n = l.n /\ m.want = l.n)
    BY <1>1, CallTypes DEF CallFields, NoCall
  <1>5. l.want \in 1 .. MaxBulk /\ l.n \in 0 .. l.want
    BY <1>1, <1>3, CallTypes DEF CallInv
  <1>6. MaxBulk \in 1 .. 3 /\ V \in Nat /\ dequeueOptimisticCount \in Nat
    BY <1>1, CallTypes
  <1>7. V' = V + (l.want - l.n) /\ V' \in Nat /\ V <= V' /\ V' + Total(Open) <= MaxBulk + V + Total(Open)
    <2>1. V <= MaxOvercommit[context] + AllUnits
      BY <1>1, CallTypes
    <2>2. AllUnits >= MaxBulk
      <3>1. Total(Open) <= AllUnits
        BY TotalIsUnits
      <3>2. Open \in Counts /\ [Open EXCEPT ![c] = 0] \in Counts
        BY <1>1, SumsTyped, CallTypes DEF Counts
      <3>3. Total([Open EXCEPT ![c] = 0]) = Total(Open) + 0 - Open[c]
        BY <3>2, TotalChange DEF Counts
      <3>4. Open[c] = MaxBulk
        BY <1>3 DEF Open
      <3>5. Total([Open EXCEPT ![c] = 0]) \in Nat
        BY TotalIsUnits
      <3> QED
        BY <3>1, <3>3, <3>4, <3>5, <1>1, CallTypes
    <2>3. V + (l.want - l.n) < IndexMod /\ V + (l.want - l.n) \in Nat
      BY <2>1, <2>2, <1>1, <1>5, <1>6, CallTypes
    <2>4. IndexMod \in Nat
      BY <1>1, CallTypes
    <2>5. V' = V + (l.want - l.n)
      BY <2>3, <2>4, <1>3 DEF Plus
    <2> QED
      BY <2>5, <1>1, <1>5, <1>6, CallTypes
  <1> HIDE DEF m
  <1>8. /\ CallShape' /\ cp'[c] = pc /\ loc'[c] = m
        /\ \A d \in Consumers : d # c => cp'[d] = cp[d] /\ loc'[d] = loc[d]
    BY <1>1, <1>3, <1>4, StepFrame
  <1>9. CallInv(c)'
    BY <1>3, <1>4, <1>5, <1>6, <1>8 DEF CallInv
  <1>10. \A d \in Consumers : CallInv(d)'
    BY <1>1, <1>3, <1>6, <1>7, <1>8, <1>9, OthersKept
  <1>11. /\ Total(Claimed') = Total(Claimed) + Claimed'[c] - Claimed[c]
         /\ Total(Promised') = Total(Promised) + Promised'[c] - Promised[c]
         /\ Total(Open') = Total(Open) + Open'[c] - Open[c]
         /\ \A x : Total(Undecided(x)') = Total(Undecided(x)) + Undecided(x)'[c] - Undecided(x)[c]
    BY <1>1, <1>8, <1>10, SumsChange
  <1>12. /\ Claimed'[c] = l.n /\ Claimed[c] = l.want /\ Promised'[c] = l.n /\ Promised[c] = l.n
         /\ Open'[c] = 0 /\ Open[c] = MaxBulk
    BY <1>3, <1>4, <1>5, <1>8 DEF Claimed, Promised, Open
  <1>13. \A x : Undecided(x)'[c] = 0 /\ Undecided(x)[c] = 0
    BY <1>3, <1>8 DEF Undecided
  <1>14. CounterInv' /\ EnqueueInv'
    <2>1. /\ Total(Claimed') = Total(Claimed) + l.n - l.want
          /\ Total(Open') = Total(Open) - MaxBulk
      BY <1>1, <1>5, <1>6, <1>11, <1>12, CallTypes
    <2>2. l.n \in Int /\ l.want \in Int /\ l.want - l.n <= MaxBulk
      BY <1>5, <1>6
    <2>3. dequeueOptimisticCount' = headIndex' + V' + Total(Claimed')
      BY <2>1, <2>2, <1>1, <1>3, <1>7, CallTypes
    <2>4. V' + Total(Open') <= MaxOvercommit[context'] + AllUnits
      BY <2>1, <2>2, <1>1, <1>3, <1>7, CallTypes
    <2> QED
      BY <2>3, <2>4, <1>1, <1>3, <1>7, CallTypes DEF BaseInv, CounterInv, EnqueueInv
  <1>15. FrontierInv(f)'
    <2>1. Granted' = Granted
      BY <1>1, <1>3, <1>5, <1>6, <1>11, <1>12, CallTypes DEF Granted
    <2>2. \A x : Total(Undecided(x)') = Total(Undecided(x))
      BY <1>1, <1>11, <1>13, CallTypes
    <2>3. \A d \in Consumers : cp'[d] = "reload" => cp[d] = "reload" /\ loc'[d] = loc[d]
      BY <1>8
    <2> QED
      BY <1>2, <1>3, <2>1, <2>2, <2>3 DEF FrontierInv
  <1> QED
    BY <1>8, <1>10, <1>14, <1>15 DEF ClaimInv, BaseInv

(* fetch_add of the head: what was promised is taken.                      *)
LEMMA TakeStep ==
  ASSUME ClaimInv, NEW c \in Consumers, Take(c)
  PROVE  ClaimInv'
PROOF
  <1>1. BaseInv
    BY DEF ClaimInv
  <1>2. PICK f \in Int : FrontierInv(f)
    BY DEF ClaimInv
  <1> DEFINE l == loc[c]
             m == [loc[c] EXCEPT !.i = headIndex, !.want = 0]
  <1>3. /\ cp[c] = "take" /\ Step(c, "locate", m) /\ headIndex' = Plus(headIndex, l.n)
        /\ context' = context /\ tailIndex' = tailIndex
        /\ dequeueOptimisticCount' = dequeueOptimisticCount
        /\ dequeueOvercommit' = dequeueOvercommit /\ op' = op
    BY DEF Take, At
  <1>4. DOMAIN m = CallFields
    BY <1>1, CallTypes
  <1>5. l.want \in 1 .. MaxBulk /\ l.n = l.want /\ MaxBulk \in 1 .. 3
    BY <1>1, <1>3, CallTypes DEF CallInv
  <1> HIDE DEF m
  <1>6. /\ CallShape' /\ cp'[c] = "locate"
        /\ \A d \in Consumers : d # c => cp'[d] = cp[d] /\ loc'[d] = loc[d]
    BY <1>1, <1>3, <1>4, StepFrame
  <1>7. CallInv(c)'
    BY <1>6 DEF CallInv
  <1>8. \A d \in Consumers : CallInv(d)'
    BY <1>1, <1>3, <1>6, <1>7, CallTypes, OthersKept
  <1>9. /\ Total(Claimed') = Total(Claimed) + Claimed'[c] - Claimed[c]
        /\ Total(Promised') = Total(Promised) + Promised'[c] - Promised[c]
        /\ Total(Open') = Total(Open) + Open'[c] - Open[c]
        /\ \A x : Total(Undecided(x)') = Total(Undecided(x)) + Undecided(x)'[c] - Undecided(x)[c]
    BY <1>1, <1>6, <1>8, SumsChange
  <1>10. /\ Claimed'[c] = 0 /\ Claimed[c] = l.n /\ Promised'[c] = 0 /\ Promised[c] = l.n
         /\ Open'[c] = 0 /\ Open[c] = 0
    BY <1>3, <1>5, <1>6 DEF Claimed, Promised, Open
  <1>11. \A x : Undecided(x)'[c] = 0 /\ Undecided(x)[c] = 0
    BY <1>3, <1>6 DEF Undecided
  <1>12. headIndex' = headIndex + l.n
    <2>1. headIndex + Total(Promised) <= tailIndex
      BY <1>1, <1>2, HeadBound
    <2>2. Total(Promised') \in Nat
      BY TotalIsUnits
    <2>3. headIndex + l.n \in Nat /\ headIndex + l.n < IndexMod /\ IndexMod \in Nat
      BY <2>1, <2>2, <1>1, <1>5, <1>9, <1>10, CallTypes
    <2> QED
      BY <2>3, <1>3 DEF Plus
  <1>13. CounterInv' /\ EnqueueInv'
    <2>1. Total(Claimed') = Total(Claimed) - l.n /\ Total(Open') = Total(Open)
      BY <1>1, <1>5, <1>9, <1>10, CallTypes
    <2>2. l.n \in Nat
      BY <1>5
    <2> QED
      BY <2>1, <2>2, <1>1, <1>3, <1>12, CallTypes DEF BaseInv, CounterInv, EnqueueInv
  <1>14. FrontierInv(f)'
    <2>1. Granted' = Granted
      BY <1>1, <1>5, <1>9, <1>10, <1>12, CallTypes DEF Granted
    <2>2. \A x : Total(Undecided(x)') = Total(Undecided(x))
      BY <1>1, <1>9, <1>11, CallTypes
    <2>3. \A d \in Consumers : cp'[d] = "reload" => cp[d] = "reload" /\ loc'[d] = loc[d]
      BY <1>6
    <2> QED
      BY <1>2, <1>3, <2>1, <2>2, <2>3 DEF FrontierInv
  <1> QED
    BY <1>6, <1>8, <1>13, <1>14 DEF ClaimInv, BaseInv

(* The other steps of a consumer.                                          *)
LEMMA OtherConsumerStep ==
  ASSUME ClaimInv, NEW c \in Consumers,
         \/ \E max \in 1 .. MaxBulk : Dequeue(c, max)
         \/ Check(c) \/ Extract(c) \/ Release(c)
  PROVE  ClaimInv'
PROOF
  <1>1. BaseInv
    BY DEF ClaimInv
  <1>2. /\ DOMAIN loc[c] = CallFields /\ DOMAIN NoCall = CallFields /\ CallInv(c)
        /\ \A d \in Consumers : DOMAIN loc[d] = CallFields
    BY <1>1 DEF BaseInv, CallShape, NoCall, CallFields
  <1> DEFINE Later == {"locate", "find", "move", "mark", "unindex", "free", "idle"}
  <1>3. ASSUME NEW pc \in Later, NEW l, DOMAIN l = CallFields, Step(c, pc, l),
               cp[c] \in Later, UNCHANGED <<context, shared, op>>
        PROVE  ClaimInv'
    <2>1. cp'[c] = pc
      BY <1>1, <1>3, StepFrame
    <2>2. CallInv(c)'
      BY <2>1, <1>3 DEF CallInv
    <2>3. cp[c] \notin Claiming /\ pc \notin Claiming /\ pc \notin Opening
      BY <1>3 DEF Claiming, Opening
    <2> QED
      BY <2>2, <2>3, <1>3, QuietStep
  <1>4. ASSUME Continue(c), cp[c] \in Later, UNCHANGED <<context, shared, op>> PROVE ClaimInv'
    <2>1. CASE InBlock(c) = loc[c].n
      <3>1. Step(c, "idle", NoCall)
        BY <2>1, <1>4 DEF Continue, Return
      <3> QED
        BY <3>1, <1>2, <1>3, <1>4
    <2>2. CASE InBlock(c) # loc[c].n
      <3> DEFINE k == InBlock(c)
                 l == [loc[c] EXCEPT !.i = Plus(@, k), !.n = @ - k, !.block = None,
                                     !.pos = (@ + 1) % index[loc[c].h].size]
      <3>1. Step(c, "move", l)
        BY <2>2, <1>4, Zenon DEF Continue
      <3>2. DOMAIN l = CallFields
        BY <1>2
      <3> HIDE DEF l
      <3> QED
        BY <3>1, <3>2, <1>3, <1>4
    <2> QED
      BY <2>1, <2>2
  <1>5. ASSUME NEW max \in 1 .. MaxBulk, Dequeue(c, max) PROVE ClaimInv'
    <2> DEFINE l == [NoCall EXCEPT !.max = max, !.tail = tailIndex, !.over = dequeueOvercommit]
    <2>1. /\ Step(c, "check", l) /\ cp[c] = "idle" /\ UNCHANGED <<context, shared, op>>
          /\ dequeueOvercommit < MaxOvercommit[context] /\ dequeueOvercommit' = dequeueOvercommit
      BY <1>5 DEF Dequeue, At, shared
    <2>2. DOMAIN l = CallFields /\ l.max = max /\ l.tail = tailIndex /\ l.over = dequeueOvercommit
      BY <1>2 DEF CallFields
    <2> HIDE DEF l
    <2>3. cp'[c] = "check" /\ loc'[c] = l
      BY <1>1, <2>1, <2>2, StepFrame
    <2>4. tailIndex \in Nat /\ dequeueOvercommit \in Nat /\ MaxOvercommit[context] \in Nat
      BY <1>1, CallTypes
    <2>5. CallInv(c)'
      BY <2>1, <2>2, <2>3, <2>4 DEF CallInv
    <2>6. cp[c] \notin Claiming /\ "check" \notin Claiming /\ dequeueOvercommit <= MaxOvercommit[context]
      BY <2>1, <2>4 DEF Claiming
    <2> QED
      BY <2>1, <2>2, <2>5, <2>6, QuietStep
  <1>6. ASSUME Check(c) PROVE ClaimInv'
    <2> DEFINE l == loc[c]
               d == Minus(dequeueOptimisticCount, l.over)
               want == Minus(l.tail, d)
               m == [l EXCEPT !.want = IF want < l.max THEN want ELSE l.max, !.tail = 0]
    <2>1. /\ cp[c] = "check" /\ UNCHANGED <<context, shared, op>>
          /\ IF CircularLessThan(0, want) THEN Step(c, "claim", m) ELSE Step(c, "idle", NoCall)
      BY <1>6 DEF Check, At, Return
    <2>2. dequeueOvercommit' = dequeueOvercommit
      BY <2>1 DEF shared
    <2>3. l.max \in 1 .. MaxBulk /\ l.tail \in Nat /\ l.over \in 0 .. dequeueOvercommit
      BY <1>2, <2>1 DEF CallInv
    <2>4. /\ dequeueOptimisticCount \in Nat /\ dequeueOvercommit \in Nat
          /\ IndexMod \in Nat \ {0} /\ MaxBulk \in 1 .. 3
      BY <1>1, CallTypes
    <2>5. cp[c] \notin Claiming /\ cp[c] \in Opening
      BY <2>1 DEF Claiming, Opening
    <2>6. CASE CircularLessThan(0, want)
      <3>1. d \in Int
        BY <2>3, <2>4 DEF Minus
      <3>2. want = (l.tail - d) % IndexMod /\ l.tail - d \in Int
        BY <2>3, <3>1 DEF Minus
      <3>3. want \in Nat \ {0}
        BY <3>2, <2>6, WantedIsPositive
      <3>4. /\ DOMAIN m = CallFields /\ m.over = l.over
            /\ m.want = IF want < l.max THEN want ELSE l.max
        BY <1>2 DEF CallFields
      <3>5. m.want \in 1 .. MaxBulk
        BY <3>3, <3>4, <2>3, <2>4
      <3>6. Step(c, "claim", m)
        BY <2>1, <2>6
      <3> HIDE DEF m, want
      <3>7. cp'[c] = "claim" /\ loc'[c] = m
        BY <1>1, <3>4, <3>6, StepFrame
      <3>8. CallInv(c)'
        BY <3>4, <3>5, <3>7, <2>2, <2>3 DEF CallInv
      <3>9. "claim" \notin Claiming
        BY DEF Claiming
      <3> QED
        BY <3>4, <3>6, <3>8, <3>9, <2>1, <2>5, QuietStep
    <2>7. CASE ~CircularLessThan(0, want)
      <3>1. Step(c, "idle", NoCall)
        BY <2>1, <2>7
      <3>2. cp'[c] = "idle"
        BY <1>1, <1>2, <3>1, StepFrame
      <3>3. CallInv(c)'
        BY <3>2 DEF CallInv
      <3>4. "idle" \notin Claiming /\ "idle" \notin Opening
        BY DEF Claiming, Opening
      <3> QED
        BY <1>2, <3>1, <3>3, <3>4, <2>1, <2>5, QuietStep
    <2> QED
      BY <2>6, <2>7
  <1>7. ASSUME LoadIndex(c) PROVE ClaimInv'
    <2>1. PICK l : /\ Step(c, "find", l) /\ DOMAIN l = DOMAIN loc[c] /\ cp[c] = "locate"
                   /\ UNCHANGED <<context, shared, op>>
      BY <1>7 DEF LoadIndex, At
    <2> QED
      BY <2>1, <1>2, <1>3
  <1>8. ASSUME Move(c) PROVE ClaimInv'
    <2>1. PICK l : /\ Step(c, "mark", l) /\ DOMAIN l = DOMAIN loc[c] /\ cp[c] \in {"find", "move"}
                   /\ UNCHANGED <<context, shared, op>>
      BY <1>8 DEF Move, At
    <2> QED
      BY <2>1, <1>2, <1>3
  <1>9. ASSUME Mark(c) PROVE ClaimInv'
    <2>1. /\ cp[c] = "mark" /\ UNCHANGED <<context, shared, op>>
          /\ Step(c, "unindex", loc[c]) \/ Continue(c)
      BY <1>9 DEF Mark, At
    <2> QED
      BY <2>1, <1>2, <1>3, <1>4
  <1>10. ASSUME Unindex(c) PROVE ClaimInv'
    <2>1. cp[c] = "unindex" /\ UNCHANGED <<context, shared, op>> /\ Step(c, "free", loc[c])
      BY <1>10 DEF Unindex, At
    <2> QED
      BY <2>1, <1>2, <1>3
  <1>11. ASSUME AddBlockToFreeList(c) PROVE ClaimInv'
    <2>1. cp[c] = "free" /\ UNCHANGED <<context, shared, op>> /\ Continue(c)
      BY <1>11 DEF AddBlockToFreeList, At
    <2> QED
      BY <2>1, <1>4
  <1> QED
    BY <1>5, <1>6, <1>7, <1>8, <1>9, <1>10, <1>11 DEF Extract, Release

(* A producer's step that does not store the tail touches nothing the      *)
(* claims depend on.                                                       *)
LEMMA ProducerFrame ==
  ASSUME ClaimInv, UNCHANGED <<context, shared, cp, loc>>, EnqueueInv'
  PROVE  ClaimInv'
PROOF
  <1>1. PICK f \in Int : FrontierInv(f)
    BY DEF ClaimInv
  <1>2. /\ context' = context /\ tailIndex' = tailIndex /\ headIndex' = headIndex
        /\ dequeueOptimisticCount' = dequeueOptimisticCount
        /\ dequeueOvercommit' = dequeueOvercommit /\ cp' = cp /\ loc' = loc
    BY DEF shared
  <1>3. Claimed' = Claimed /\ Promised' = Promised /\ Open' = Open
    BY <1>2 DEF Claimed, Promised, Open
  <1>4. \A x : Undecided(x)' = Undecided(x)
    BY <1>2 DEF Undecided
  <1>5. CallShape' /\ CounterInv'
    BY <1>2, <1>3 DEF ClaimInv, BaseInv, CallShape, CounterInv
  <1>6. \A c \in Consumers : CallInv(c)'
    BY <1>2 DEF ClaimInv, BaseInv, CallInv
  <1>7. Granted' = Granted
    BY <1>2, <1>3 DEF Granted
  <1>8. FrontierInv(f)'
    BY <1>1, <1>2, <1>4, <1>7 DEF FrontierInv
  <1> QED
    BY <1>5, <1>6, <1>8 DEF ClaimInv, BaseInv

(* The tail grows by what the call was admitted with.                      *)
LEMMA StoreTailStep ==
  ASSUME ClaimInv, StoreTail
  PROVE  ClaimInv'
PROOF
  <1>1. BaseInv
    BY DEF ClaimInv
  <1>2. PICK f \in Int : FrontierInv(f)
    BY DEF ClaimInv
  <1>3. /\ op.pc = "tail" /\ tailIndex' = Plus(tailIndex, op.n) /\ op' = Idle
        /\ context' = context /\ headIndex' = headIndex
        /\ dequeueOptimisticCount' = dequeueOptimisticCount
        /\ dequeueOvercommit' = dequeueOvercommit /\ cp' = cp /\ loc' = loc
    BY DEF StoreTail, Begun
  <1>4. op.n \in Nat /\ tailIndex + op.n <= MaxTail
    BY <1>1, <1>3 DEF BaseInv, EnqueueInv
  <1>5. /\ context \in Contexts /\ tailIndex \in 0 .. MaxTail /\ headIndex \in Nat
        /\ Total(Promised) \in Nat /\ \A x : Total(Undecided(x)) \in Nat
    BY <1>1, TotalIsUnits DEF BaseInv, CounterInv
  <1>6. MaxTail \in Nat /\ MaxTail < IndexMod /\ IndexMod \in Nat
    BY <1>5, BoundFacts, SizeAssumption DEF CounterBound
  <1>7. tailIndex' = tailIndex + op.n /\ tailIndex' \in 0 .. MaxTail /\ tailIndex <= tailIndex'
    BY <1>3, <1>4, <1>5, <1>6 DEF Plus
  <1>8. Claimed' = Claimed /\ Promised' = Promised /\ Open' = Open
    BY <1>3 DEF Claimed, Promised, Open
  <1>9. \A x : Undecided(x)' = Undecided(x)
    BY <1>3 DEF Undecided
  <1>10. CallShape' /\ CounterInv'
    BY <1>1, <1>3, <1>7, <1>8 DEF BaseInv, CallShape, CounterInv
  <1>11. EnqueueInv'
    BY <1>3 DEF EnqueueInv, Idle
  <1>12. \A c \in Consumers : CallInv(c)'
    BY <1>1, <1>3 DEF BaseInv, CallInv
  <1>13. Granted' = Granted /\ Granted \in Nat
    BY <1>3, <1>5, <1>8 DEF Granted
  <1>14. Granted + Total(Undecided(f)) <= tailIndex'
    <2>1. Granted + Total(Undecided(f)) <= tailIndex
      BY <1>2 DEF FrontierInv
    <2> QED
      BY <2>1, <1>5, <1>6, <1>7, <1>13
  <1>15. FrontierInv(f)'
    BY <1>2, <1>3, <1>9, <1>13, <1>14 DEF FrontierInv
  <1> QED
    BY <1>10, <1>11, <1>12, <1>15 DEF ClaimInv, BaseInv

(* The other steps of the producer.                                        *)
LEMMA OtherProducerStep ==
  ASSUME ClaimInv,
         \/ Enqueue(1, FALSE) \/ \E n \in 2 .. MaxBulk : Enqueue(n, TRUE)
         \/ ExplicitBlock \/ ImplicitBlock \/ GrowIndex \/ FailEnqueue
         \/ Publish \/ Fill
  PROVE  ClaimInv'
PROOF
  <1>1. EnqueueInv /\ MaxTail \in Nat /\ tailIndex \in 0 .. MaxTail
    BY CounterAssumption DEF ClaimInv, BaseInv, CounterInv
  <1>2. ASSUME UNCHANGED <<context, shared, cp, loc>>, op.pc # "idle",
               op' = op \/ op' = Idle
                 \/ ("pc" \in DOMAIN op' /\ "n" \in DOMAIN op' /\ op'.n = op.n)
        PROVE  ClaimInv'
    <2>1. tailIndex' = tailIndex
      BY <1>2 DEF shared
    <2>2. EnqueueInv'
      BY <1>1, <1>2, <2>1 DEF EnqueueInv, Idle
    <2> QED
      BY <2>2, <1>2, ProducerFrame
  <1>3. ASSUME NEW n \in 1 .. MaxBulk, NEW bulk, Enqueue(n, bulk) PROVE ClaimInv'
    <2>1. /\ UNCHANGED <<context, shared, cp, loc>> /\ tailIndex' = tailIndex
          /\ tailIndex + n <= MaxTail
          /\ "pc" \in DOMAIN op' /\ "n" \in DOMAIN op' /\ op'.n = n
      BY <1>3 DEF Enqueue, shared
    <2>2. n \in Nat
      BY SizeAssumption
    <2>3. EnqueueInv'
      BY <2>1, <2>2 DEF EnqueueInv
    <2> QED
      BY <2>1, <2>3, ProducerFrame
  <1>4. op.pc # "idle" => "pc" \in DOMAIN op /\ "n" \in DOMAIN op
    BY <1>1 DEF EnqueueInv
  <1>5. ASSUME NEW b, NEW pooled, Advance(b, pooled), op.pc # "idle",
               UNCHANGED <<context, shared, cp, loc>>
        PROVE  ClaimInv'
    <2>1. DOMAIN op' = DOMAIN op /\ op'.n = op.n
      BY <1>4, <1>5 DEF Advance
    <2> QED
      BY <2>1, <1>2, <1>4, <1>5
  <1>6. ASSUME NEW pc, Goto(pc), op.pc # "idle", UNCHANGED <<context, shared, cp, loc>>
        PROVE  ClaimInv'
    <2>1. DOMAIN op' = DOMAIN op /\ op'.n = op.n
      BY <1>4, <1>6 DEF Goto
    <2> QED
      BY <2>1, <1>2, <1>4, <1>6
  <1>7. ASSUME ReuseBlock PROVE ClaimInv'
    <2>1. /\ op.pc # "idle" /\ UNCHANGED <<context, shared, cp, loc>>
          /\ Advance(next[tailBlock], FALSE)
      BY <1>7 DEF ReuseBlock, Begun
    <2> QED
      BY <2>1, <1>5
  <1>8. ASSUME NEW b \in Blocks, NewBlock(b) PROVE ClaimInv'
    <2>1. op.pc # "idle" /\ UNCHANGED <<context, shared, cp, loc>> /\ Advance(b, TRUE)
      BY <1>8 DEF NewBlock, Begun
    <2> QED
      BY <2>1, <1>5
  <1>9. ASSUME NEW b \in Blocks, TakeBlock(b) PROVE ClaimInv'
    <2>1. op.pc # "idle" /\ UNCHANGED <<context, shared, cp, loc>> /\ Advance(b, TRUE)
      BY <1>9 DEF TakeBlock, Begun
    <2> QED
      BY <2>1, <1>5
  <1>10. ASSUME InsertEntry PROVE ClaimInv'
    <2>1. op.pc # "idle" /\ UNCHANGED <<context, shared, cp, loc>> /\ Goto("take")
      BY <1>10 DEF InsertEntry, Begun
    <2> QED
      BY <2>1, <1>6
  <1>11. ASSUME ResetEmpty PROVE ClaimInv'
    <2>1. op.pc # "idle" /\ UNCHANGED <<context, shared, cp, loc>> /\ Goto("publish")
      BY <1>11 DEF ResetEmpty, Begun
    <2> QED
      BY <2>1, <1>6
  <1>12. ASSUME Publish PROVE ClaimInv'
    <2>1. op.pc # "idle" /\ UNCHANGED <<context, shared, cp, loc>> /\ Goto("fill")
      BY <1>12 DEF Publish, Begun
    <2> QED
      BY <2>1, <1>6
  <1>13. ASSUME Fill PROVE ClaimInv'
    <2>1. op.pc # "idle" /\ UNCHANGED <<context, shared, cp, loc>> /\ Goto("tail")
      BY <1>13 DEF Fill, Begun
    <2> QED
      BY <2>1, <1>6
  <1>14. ASSUME FailEnqueue PROVE ClaimInv'
    <2>1. op.pc # "idle" /\ UNCHANGED <<context, shared, cp, loc>> /\ op' = Idle
      BY <1>14 DEF FailEnqueue, Begun
    <2> QED
      BY <2>1, <1>2
  <1>15. ASSUME GrowIndex PROVE ClaimInv'
    <2>1. /\ op.pc # "idle" /\ UNCHANGED <<context, shared, cp, loc>>
          /\ op' = [op EXCEPT !.front = op.used, !.pooled = TRUE] \/ op' = op
      BY <1>15 DEF GrowIndex, Begun
    <2>2. op' = op \/ (DOMAIN op' = DOMAIN op /\ op'.n = op.n)
      BY <2>1, <1>4
    <2> QED
      BY <2>1, <2>2, <1>2, <1>4
  <1>16. 1 \in 1 .. MaxBulk /\ 2 .. MaxBulk \subseteq 1 .. MaxBulk
    BY SizeAssumption
  <1> QED
    BY <1>3, <1>7, <1>8, <1>9, <1>10, <1>11, <1>12, <1>13, <1>14, <1>15, <1>16
       DEF ExplicitBlock, ImplicitBlock

(* The invariant holds at first.                                           *)
LEMMA ClaimInvInit ==
  ASSUME Init
  PROVE  ClaimInv
PROOF
  <1>1. /\ context \in Contexts /\ tailIndex = 0 /\ headIndex = 0
        /\ dequeueOptimisticCount = 0 /\ dequeueOvercommit = 0 /\ op = Idle
        /\ cp = [c \in Consumers |-> "idle"] /\ loc = [c \in Consumers |-> NoCall]
    BY DEF Init
  <1>2. \A c \in Consumers : CallInv(c)
    BY <1>1 DEF CallInv
  <1>3. CallShape /\ EnqueueInv
    BY <1>1 DEF CallShape, EnqueueInv, Idle, NoCall, CallFields
  <1>4. MaxBulk \in 1 .. 3 /\ AllUnits \in Nat /\ MaxOvercommit[context] \in Nat /\ MaxTail \in Nat
    BY <1>1, BoundFacts
  <1> DEFINE zero == [c \in Consumers |-> 0]
  <1>5. Total(zero) = 0
    <2>1. Units(zero) = {}
      <3> SUFFICES ASSUME NEW u \in Units(zero) PROVE FALSE
        OBVIOUS
      <3>1. u[1] \in Consumers /\ u[2] \in 1 .. MaxBulk /\ u[2] <= zero[u[1]]
        BY DEF Units
      <3> QED
        BY <3>1, <1>4
    <2> QED
      BY <2>1, FS_EmptySet DEF Total
  <1>6. Claimed = zero /\ Promised = zero /\ Open = zero
    BY <1>1 DEF Claimed, Promised, Open
  <1>7. Undecided(-1) = zero
    BY <1>1 DEF Undecided
  <1>8. CounterInv
    BY <1>1, <1>4, <1>5, <1>6 DEF CounterInv
  <1>9. FrontierInv(-1)
    BY <1>1, <1>5, <1>6, <1>7 DEF FrontierInv, Granted
  <1>10. -1 \in Int
    OBVIOUS
  <1> QED
    BY <1>2, <1>3, <1>8, <1>9, <1>10 DEF ClaimInv, BaseInv

(* Every step keeps the invariant.                                         *)
LEMMA ClaimInvNext ==
  ASSUME ClaimInv, [Next]_vars
  PROVE  ClaimInv'
PROOF
  <1>1. CASE Producer
    <2>1. CASE StoreTail
      BY <2>1, StoreTailStep
    <2>2. CASE ~StoreTail
      BY <1>1, <2>2, OtherProducerStep DEF Producer
    <2> QED
      BY <2>1, <2>2
  <1>2. ASSUME NEW c \in Consumers, Consumer(c) PROVE ClaimInv'
    <2>1. CASE Claim(c)
      BY <2>1, ClaimStep
    <2>2. CASE Reload(c)
      BY <2>2, ReloadStep
    <2>3. CASE Overcommit(c)
      BY <2>3, OvercommitStep
    <2>4. CASE Take(c)
      BY <2>4, TakeStep
    <2>5. CASE ~Claim(c) /\ ~Reload(c) /\ ~Overcommit(c) /\ ~Take(c)
      BY <1>2, <2>5, OtherConsumerStep DEF Consumer, Reserve
    <2> QED
      BY <2>1, <2>2, <2>3, <2>4, <2>5
  <1>3. CASE UNCHANGED vars
    <2>1. UNCHANGED <<context, shared, cp, loc, op>>
      BY <1>3 DEF vars
    <2>2. EnqueueInv'
      BY <2>1 DEF ClaimInv, BaseInv, EnqueueInv, shared
    <2> QED
      BY <2>1, <2>2, ProducerFrame
  <1> QED
    BY <1>1, <1>2, <1>3 DEF Next

(* The counters of dequeue and dequeue_bulk agree in every reachable       *)
(* state, for any number of consumers: the optimistic count less the       *)
(* overcommit is the head and the claims under way, and whoever is about   *)
(* to advance the head finds as many elements before the tail as it was    *)
(* promised, although the loads of overcommit and tail are stale by then.  *)
THEOREM ClaimsCoveredAlways == Spec => []ClaimsCovered
PROOF
  <1>1. Init => ClaimInv
    BY ClaimInvInit
  <1>2. ClaimInv /\ [Next]_vars => ClaimInv'
    BY ClaimInvNext
  <1>3. ClaimInv => ClaimsCovered
    BY ClaimsFollow
  <1> QED
    BY <1>1, <1>2, <1>3, PTL DEF Spec

=============================================================================
