----------------------------- MODULE FifoQueue -----------------------------
(***************************************************************************)
(* What one sub-queue of the concurrent queue promises: the elements of    *)
(* its producer, in the order they were enqueued, are handed out from the  *)
(* front, every element to exactly one dequeue of one consumer.            *)
(***************************************************************************)
EXTENDS Naturals, Sequences

CONSTANTS Consumers, Values

VARIABLES
  items,   \* the elements that can be dequeued, oldest first
  held     \* what the dequeue a consumer is executing has taken

vars == <<items, held>>

Init == items = <<>> /\ held = [c \in Consumers |-> <<>>]

(* Elements are appended; they are values, not empty slots.               *)
Enqueue ==
  /\ Len(items') > Len(items)
  /\ items' \in Seq(Values)
  /\ SubSeq(items', 1, Len(items)) = items
  /\ UNCHANGED held

Dequeue(c) ==
  /\ held[c] = <<>> /\ Len(items') < Len(items)
  /\ \E n \in 1 .. Len(items) :
       /\ items' = SubSeq(items, n + 1, Len(items))
       /\ held' = [held EXCEPT ![c] = SubSeq(items, 1, n)]

Return(c) ==
  /\ held[c] # <<>> /\ held'[c] = <<>>
  /\ held' = [held EXCEPT ![c] = <<>>]
  /\ UNCHANGED items

Next == Enqueue \/ \E c \in Consumers : Dequeue(c) \/ Return(c)

Spec == Init /\ [][Next]_vars
=============================================================================
