-------------------------- MODULE MCProducerQueue --------------------------
(* ProducerQueue with the model values TLC uses: a short queue with two     *)
(* consumers at once, and a longer one with bulk calls over several blocks, *)
(* whose consumers take turns.                                              *)
EXTENDS ProducerQueue

CONSTANTS b1, b2, b3, c1, c2, none

VARIABLE short

MCBlocks == {b1, b2, b3}
MCConsumers == {c1, c2}

(* The claims of a dequeue are the same code for both kinds.               *)
MCMaxOvercommit == [explicit |-> 2, implicit |-> 1]

(* Blocks and consumers are interchangeable.                               *)
Symmetry == Permutations(MCBlocks) \union Permutations(MCConsumers)

Short == INSTANCE ProducerQueue WITH MaxBulk <- 2, MaxTail <- 5, MaxSubqueueSize <- 4

QueueVars == <<short, vars>>

QueueInit == short \in BOOLEAN /\ Init

ShortNext == short /\ Short!Next /\ UNCHANGED short

TakeTurns(c) == \A d \in Consumers \ {c} : At(d, "idle")

LongNext ==
  /\ ~short
  /\ Producer \/ \E c \in Consumers : TakeTurns(c) /\ Consumer(c)
  /\ UNCHANGED short

QueueSpec == QueueInit /\ [][ShortNext \/ LongNext]_QueueVars
=============================================================================
