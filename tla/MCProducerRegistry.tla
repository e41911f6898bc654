------------------------ MODULE MCProducerRegistry ------------------------
(* ProducerRegistry with the model values TLC uses.                         *)
EXTENDS ProducerRegistry, TLC

CONSTANTS t1, t2, t3, k1, k2, c1, c2, none

MCThreads == {t1, t2, t3}
MCTokens == {k1, k2}
MCConsumerTokens == {c1, c2}

(* Every thread starts probing at the last slot of the first table.         *)
MCHash == [t \in MCThreads |-> InitialCapacity - 1]

Budget(i, p, c, d, o, b) ==
  [implicit |-> i, token |-> p, consumer |-> c, dequeue |-> d, overlap |-> o, bulk |-> b]

(* Three threads enter the hash tables together, two of them come back;     *)
(* tokens change hands; consumers without and with a token meet producers   *)
(* that are being added; long sequences without overlap, on four producers  *)
(* and with elements taken two at a time.                                   *)
MCBudgets ==
  {Budget(3, 0, 0, 0, 3, 1), Budget(4, 0, 0, 0, 2, 1), Budget(0, 6, 0, 0, 3, 1),
   Budget(0, 4, 0, 2, 2, 2), Budget(0, 4, 1, 2, 2, 1), Budget(2, 4, 0, 1, 1, 1),
   Budget(0, 3, 3, 2, 1, 2)}

Symmetry == Permutations(MCThreads) \union Permutations(MCTokens)
            \union Permutations(MCConsumerTokens)
===========================================================================
