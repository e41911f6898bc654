--------------------------- MODULE MCCoSimulation ---------------------------
(* CoSimulation for two simulators a and b, coupled in the ways that the    *)
(* examples of the repository use.                                          *)
EXTENDS CoSimulation, TLC

CONSTANTS a, b

MCSims == {a, b}
MCPeer == a :> b @@ b :> a

Both   == [s \in MCSims |-> TRUE]
Nobody == [s \in MCSims |-> FALSE]
OnlyA  == a :> TRUE @@ b :> FALSE

(* Values at these positions are exported and imported.                     *)
Values(ea, ia, eb, ib) == [exports |-> a :> ea @@ b :> eb, imports |-> a :> ia @@ b :> ib]

Coupled(sync, n, values, size, fails) ==
  [sync |-> sync, syncStart |-> Both, startSync |-> Both,
   downsampling |-> [s \in MCSims |-> n], pool |-> size, fails |-> fails] @@ values

Agreed  == Values({0}, {1}, {0, 1}, {0})
TooFew  == Values({0}, {1}, {0}, {0})
TooMany == Values({2}, {}, {0}, {})

(* A pool as large as the queue, and one with room for mLastSample and the  *)
(* sample in hand besides.                                                  *)
Small == QueueLen
Large == QueueLen + 2

(* Both wait in every step: the default of addInterface.                    *)
Direct == {Coupled(Both, 1, Agreed, Large, {})}

(* Real-time simulators that poll, with a pool just as large as the queue.  *)
SmallPool == {Coupled(Nobody, 1, Agreed, Small, {})}

(* Those two; polling, and one that follows the other, with large pools;    *)
(* then with fewer values exported than imported, with more than a sample   *)
(* holds, and with memory that b cannot map.                                *)
AllModes ==
  Direct \cup SmallPool \cup
  {Coupled(Nobody, 1, Agreed, Large, {}), Coupled(OnlyA, 2, Agreed, Large, {}),
   Coupled(Nobody, 1, TooFew, Large, {}), Coupled(Nobody, 1, TooMany, Large, {}),
   Coupled(Nobody, 1, Agreed, Small, {b})}
=============================================================================
