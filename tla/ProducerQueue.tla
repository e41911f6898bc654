--------------------------- MODULE ProducerQueue ---------------------------
(***************************************************************************)
(* One sub-queue of moodycamel::ConcurrentQueue                            *)
(* (Include/dpsim/ConcurrentQueue.h): the ExplicitProducer of a token or   *)
(* the ImplicitProducer of a thread.  One producer enqueues, any number of *)
(* consumers dequeue, one element or several per call.                     *)
(*                                                                         *)
(* Elements live in blocks of BlockSize slots, found through a circular    *)
(* block index that is replaced by one of twice the size when it is full.  *)
(* A consumer first reserves a dequeue in dequeueOptimisticCount, and only *)
(* when that is covered by tailIndex does it take an index from headIndex. *)
(* An action is one atomic operation of the code together with the         *)
(* accesses to data of its own thread around it; loads and stores take     *)
(* effect in program order.                                                *)
(*                                                                         *)
(* An element is identified with the index it is enqueued at.  The lock    *)
(* free list of blocks is a set here.                                      *)
(***************************************************************************)
EXTENDS Integers, Sequences, FiniteSets, SequencesExt

CONSTANTS
  Contexts,          \* the kinds of producer: "explicit", "implicit"
  Consumers,
  Blocks,            \* the blocks memory has room for
  PoolSize,          \* how many of them are in the initial block pool
  None,              \* nullptr
  BlockSize,         \* BLOCK_SIZE
  IndexMod,          \* 2^w, the values of index_t
  MaxSubqueueSize,   \* MAX_SUBQUEUE_SIZE
  InitialIndexSize,  \* EXPLICIT_ and IMPLICIT_INITIAL_INDEX_SIZE
  MaxIndexSize,      \* bound: the largest block index memory has room for
  MaxBulk,           \* bound: elements in one call
  MaxTail,           \* bound: elements enqueued altogether
  MaxOvercommit      \* bound, per kind: no dequeue starts at this overcommit

ASSUME SizeAssumption ==
  /\ BlockSize \in Nat \ {0, 1} /\ IndexMod \in Nat \ {0} /\ IndexMod % BlockSize = 0
  /\ InitialIndexSize \in Nat \ {0, 1} /\ MaxIndexSize \in Nat
  /\ MaxSubqueueSize % BlockSize = 0 /\ MaxBulk \in 1 .. 3
ASSUME BlockAssumption ==
  None \notin Blocks /\ IsFiniteSet(Blocks) /\ PoolSize \in 0 .. Cardinality(Blocks)

(* The bounds keep the counters below half the range of index_t.          *)
ASSUME CounterAssumption ==
  /\ IsFiniteSet(Consumers) /\ MaxTail \in Nat
  /\ \A k \in Contexts :
       /\ MaxOvercommit[k] \in Nat
       /\ 2 * (MaxTail + MaxOvercommit[k] + 2 * (Cardinality(Consumers) * MaxBulk)) <= IndexMod

VARIABLES
  context,                                 \* isExplicit
  tailIndex, headIndex,                    \* where to enqueue, dequeue next
  dequeueOptimisticCount, dequeueOvercommit,
  tailBlock,
  next,       \* Block::next
  slot,       \* the object in each slot of a block, None without one
  emptied,    \* emptyFlags, elementsCompletelyDequeued: slots dequeued
  pool, heap, \* blocks of the free list and pool, blocks malloc has left
  index,      \* the headers of the block indices, the last is current
  entry,      \* the block index entries: base (key) and block (value)
  prFront, prUsed,   \* pr_blockIndexFront, pr_blockIndexSlotsUsed
  op,         \* the producer's call in progress
  undone,     \* an explicit enqueue_bulk has failed with blocks acquired
  cp, loc     \* control and local variables of each consumer

shared == <<tailIndex, headIndex, dequeueOptimisticCount, dequeueOvercommit>>
memory == <<tailBlock, next, slot, emptied, pool, heap>>
idx    == <<index, entry, prFront, prUsed>>
vars   == <<context, undone, shared, memory, idx, op, cp, loc>>

Explicit == context = "explicit"
Offsets  == 0 .. BlockSize - 1

Plus(a, b)  == (a + b) % IndexMod
Minus(a, b) == (a - b) % IndexMod
Base(i)     == i - (i % BlockSize)
Offset(i)   == i % BlockSize

(* details::circular_less_than                                            *)
CircularLessThan(a, b) == Minus(a, b) > IndexMod \div 2

(* Number of blocks from base b to base a, by signed division.            *)
BlocksBetween(a, b) ==
  LET d == Minus(a, b)
  IN (IF d >= IndexMod \div 2 THEN d - IndexMod ELSE d) \div BlockSize

(* The indices i, i+1, ..., n of them.                                    *)
From(i, n) == [k \in 1 .. n |-> Plus(i, k - 1)]

----------------------------------------------------------------------------
(* Block index                                                            *)

Header == index[Len(index)]

EmptyEntry == [base |-> None, block |-> None]

(* The entry ids of the n-th header, which allocates `size` of them.      *)
Fresh(n, size) == [j \in 0 .. size - 1 |-> <<n, j>>]

Blank(ids) == [id \in {ids[j] : j \in DOMAIN ids} |-> EmptyEntry]

CanGrow == 2 * Header.size <= MaxIndexSize

(* ExplicitProducer::new_block_index: the entries in use are copied.      *)
GrownExplicit(exposed) ==
  LET size == 2 * Header.size
      n    == Len(index) + 1
      ids  == Fresh(n, size)
      old(j) == entry[Header.entries[(prFront - prUsed + j) % Header.size]]
  IN [header |-> [size |-> size, front |-> (exposed - 1) % size, entries |-> ids],
      entry  |-> [id \in {ids[j] : j \in 0 .. size - 1} |->
                    IF id[2] < prUsed THEN old(id[2]) ELSE EmptyEntry] @@ entry]

(* ImplicitProducer::new_block_index: pointers to the old entries, oldest *)
(* first, then new ones.                                                  *)
GrownImplicit ==
  LET old  == Header.size
      n    == Len(index) + 1
      ids  == Fresh(n, old)
  IN [header |-> [size |-> 2 * old, front |-> old - 1,
                  entries |-> [j \in 0 .. 2 * old - 1 |->
                     IF j < old THEN Header.entries[(Header.front + 1 + j) % old]
                                ELSE ids[j - old]]],
      entry  |-> Blank(ids) @@ entry]

(* The block of index i as a consumer finds it: relative to the entry at  *)
(* the front of the index.                                                *)
Position(h, front, i) ==
  (front + BlocksBetween(Base(i), entry[h.entries[front]].base)) % h.size

----------------------------------------------------------------------------
Idle == [pc |-> "idle"]

NoCall == [max |-> 0, over |-> 0, tail |-> 0, want |-> 0, my |-> 0, n |-> 0,
           i |-> 0, h |-> 0, front |-> 0, pos |-> 0, block |-> None, out |-> <<>>]

Init ==
  /\ context \in Contexts
  /\ tailIndex = 0 /\ headIndex = 0
  /\ dequeueOptimisticCount = 0 /\ dequeueOvercommit = 0
  /\ tailBlock = None
  /\ next = [b \in Blocks |-> None]
  /\ slot = [b \in Blocks |-> [o \in Offsets |-> None]]
  /\ emptied = [b \in Blocks |-> {}]
  /\ pool \in {P \in SUBSET Blocks : Cardinality(P) = PoolSize}
  /\ heap = Blocks \ pool
  /\ index = << [size |-> InitialIndexSize, front |-> InitialIndexSize - 1,
                 entries |-> Fresh(1, InitialIndexSize)] >>
  /\ entry = Blank(Fresh(1, InitialIndexSize))
  /\ prFront = 0 /\ prUsed = 0
  /\ op = Idle /\ undone = FALSE
  /\ cp = [c \in Consumers |-> "idle"]
  /\ loc = [c \in Consumers |-> NoCall]

----------------------------------------------------------------------------
(* The producer                                                           *)

Begun(pc) == op.pc = pc
Goto(pc)  == op' = [op EXCEPT !.pc = pc]

(* The k-th block after b in the list.                                    *)
Walk(b, k) == LET w[j \in 0 .. k] == IF j = 0 THEN b ELSE next[w[j - 1]] IN w[k]

(* The blocks this call has acquired, in order.                           *)
Acquired == [k \in 1 .. op.total - op.need |-> Walk(op.first, k - 1)]

(* enqueue, try_enqueue, enqueue_bulk, try_enqueue_bulk.                  *)
Enqueue(n, bulk) ==
  LET before == Base(Minus(tailIndex, 1))
      need   == Minus(Base(Plus(tailIndex, n - 1)), before) \div BlockSize
  IN /\ Begun("idle") /\ tailIndex + n <= MaxTail
     /\ op' = [pc |-> IF need > 0 THEN "block" ELSE "fill", n |-> n,
               bulk |-> bulk, start |-> tailBlock,
               front |-> prFront, used |-> prUsed, first |-> None,
               need |-> need, total |-> need,
               base |-> Plus(before, BlockSize), pooled |-> FALSE]
     /\ UNCHANGED <<context, undone, shared, memory, idx, cp, loc>>

(* Not enough leeway between head and tail, or the sub-queue is full.     *)
Full ==
  \/ ~CircularLessThan(headIndex, Plus(op.base, BlockSize))
  \/ MaxSubqueueSize - BlockSize < Minus(op.base, headIndex)

(* requisition_block: the pool and the free list, then malloc.            *)
Requisition(b) ==
  /\ b \in IF pool # {} THEN pool ELSE heap
  /\ pool' = pool \ {b} /\ heap' = heap \ {b}

(* It has no block: the call may not allocate (try_enqueue), or malloc    *)
(* fails.                                                                 *)
NoBlock == pool = {}

(* Where the call goes when it has all its blocks.                        *)
Equipped == IF op.bulk /\ Explicit THEN "reset" ELSE "publish"

(* One more block, b, is acquired.                                        *)
Advance(b, pooled) ==
  op' = [op EXCEPT !.first = IF @ = None THEN b ELSE @, !.need = @ - 1,
                   !.base = Plus(@, BlockSize), !.pooled = pooled,
                   !.pc = IF op.need = 1 THEN Equipped ELSE "block"]

(* Explicit: a bulk call enters its blocks in the index as it gets them.  *)
Enter(b) ==
  /\ entry' = [entry EXCEPT ![Header.entries[prFront]] = [base |-> op.base, block |-> b]]
  /\ prFront' = (prFront + 1) % Header.size

(* Mutant: the block after the tail is taken without a look at its flags. *)
ReusableUnchecked == ~op.pooled /\ tailBlock # None /\ next[tailBlock] # op.first

(* The block after the tail has been dequeued completely.                 *)
Reusable ==
  /\ ~op.pooled /\ tailBlock # None
  /\ next[tailBlock] # op.first /\ emptied[next[tailBlock]] = Offsets

ReuseBlock ==
  /\ Explicit /\ Begun("block") /\ Reusable
  /\ LET b == next[tailBlock] IN
     /\ tailBlock' = b
     /\ IF op.bulk THEN Enter(b) /\ UNCHANGED emptied
        ELSE emptied' = [emptied EXCEPT ![b] = {}] /\ UNCHANGED <<entry, prFront>>
     /\ Advance(b, FALSE)
  /\ UNCHANGED <<context, undone, shared, next, slot, pool, heap, index, prUsed, cp, loc>>

(* The circular list gets a new block behind the tail.                    *)
NewBlock(b) ==
  /\ Explicit /\ Begun("block") /\ ~Reusable /\ ~Full
  /\ prUsed < Header.size
  /\ Requisition(b)
  /\ next' = IF tailBlock = None THEN [next EXCEPT ![b] = b]
             ELSE [next EXCEPT ![b] = next[tailBlock], ![tailBlock] = b]
  /\ tailBlock' = b
  /\ emptied' = [emptied EXCEPT ![b] = IF op.bulk THEN Offsets ELSE {}]
  /\ prUsed' = prUsed + 1
  /\ IF op.bulk THEN Enter(b) ELSE UNCHANGED <<entry, prFront>>
  /\ Advance(b, TRUE)
  /\ UNCHANGED <<context, undone, shared, slot, index, cp, loc>>

(* Implicit: the entry after the index's tail is free.                    *)
Target == Header.entries[(Header.front + 1) % Header.size]
Room == entry[Target].base = None \/ entry[Target].block = None

(* insert_block_index_entry: the key, then the index's tail.              *)
InsertEntry ==
  /\ ~Explicit /\ Begun("block") /\ ~Full /\ Room
  /\ entry' = [entry EXCEPT ![Target].base = op.base]
  /\ index' = [index EXCEPT ![Len(index)].front = (@ + 1) % Header.size]
  /\ Goto("take")
  /\ UNCHANGED <<context, undone, shared, memory, prFront, prUsed, cp, loc>>

(* A block for the entry just inserted; a bulk call stores it there and   *)
(* chains its blocks.                                                     *)
TakeBlock(b) ==
  /\ Begun("take")
  /\ Requisition(b)
  /\ emptied' = [emptied EXCEPT ![b] = {}]
  /\ IF op.bulk
     THEN /\ entry' = [entry EXCEPT ![Header.entries[Header.front]].block = b]
          /\ next' = [x \in Blocks |->
                        IF x = b THEN None
                        ELSE IF x = tailBlock /\ (tailIndex % BlockSize # 0 \/ op.first # None)
                        THEN b ELSE next[x]]
          /\ tailBlock' = b
     ELSE UNCHANGED <<entry, next, tailBlock>>
  /\ Advance(b, TRUE)
  /\ UNCHANGED <<context, undone, shared, slot, index, prFront, prUsed, cp, loc>>

(* new_block_index, when the current index has no room.                   *)
GrowIndex ==
  /\ Begun("block") /\ ~Full /\ CanGrow
  /\ \/ /\ Explicit /\ ~Reusable /\ prUsed = Header.size
        /\ LET g == GrownExplicit(IF op.bulk THEN op.used ELSE prUsed) IN
           index' = Append(index, g.header) /\ entry' = g.entry
        /\ prFront' = prUsed
        /\ op' = [op EXCEPT !.front = op.used, !.pooled = TRUE]
     \/ /\ ~Explicit /\ ~Room
        /\ index' = Append(index, GrownImplicit.header)
        /\ entry' = GrownImplicit.entry
        /\ UNCHANGED <<prFront, op>>
  /\ UNCHANGED <<context, undone, shared, memory, prUsed, cp, loc>>

(* An explicit producer keeps the blocks it linked, and forgets the       *)
(* entries it made.                                                       *)
UndoExplicit ==
  /\ prFront' = op.front /\ prUsed' = op.used
  /\ tailBlock' = IF op.start = None THEN op.first ELSE op.start
  /\ UNCHANGED <<next, slot, emptied, pool, heap, index, entry>>

(* An implicit producer gives its blocks back and rewinds the index, by   *)
(* the entry inserted last too when that has no block yet.                *)
UndoImplicit(inserted) ==
  LET n == Len(Acquired) + inserted
      ids == {Header.entries[(Header.front - k) % Header.size] : k \in 0 .. n - 1}
  IN /\ entry' = [id \in DOMAIN entry |->
                    IF id \in ids THEN [entry[id] EXCEPT !.block = None] ELSE entry[id]]
     /\ index' = [index EXCEPT ![Len(index)].front = (@ - n) % Header.size]
     /\ pool' = pool \union Range(Acquired)
     /\ tailBlock' = op.start
     /\ UNCHANGED <<next, slot, emptied, heap, prFront, prUsed>>

(* The call returns false: no leeway, no room in the index and no new one *)
(* (the call may not allocate, or malloc fails), or no block.             *)
FailEnqueue ==
  /\ \/ /\ Explicit /\ Begun("block") /\ ~Reusable
        /\ Full \/ prUsed = Header.size \/ NoBlock
        /\ IF op.bulk THEN UndoExplicit ELSE UNCHANGED <<memory, idx>>
     \/ /\ ~Explicit /\ Begun("block")
        /\ Full \/ ~Room
        /\ UndoImplicit(0)
     \/ /\ Begun("take") /\ NoBlock
        /\ UndoImplicit(1)
  /\ op' = Idle
  /\ undone' = (undone \/ (Explicit /\ op.bulk /\ op.first # None))
  /\ UNCHANGED <<context, shared, cp, loc>>

(* reset_empty on every block a bulk call acquired.                       *)
ResetEmpty ==
  /\ Begun("reset")
  /\ emptied' = [b \in Blocks |-> IF b \in Range(Acquired) THEN {} ELSE emptied[b]]
  /\ Goto("publish")
  /\ UNCHANGED <<context, undone, shared, tailBlock, next, slot, pool, heap, idx, cp, loc>>

(* The new blocks become reachable: the front of the explicit index is    *)
(* stored, a single implicit enqueue stores the block in its entry.       *)
Publish ==
  /\ Begun("publish")
  /\ \/ /\ Explicit
        /\ LET at == IF op.bulk THEN (prFront - 1) % Header.size ELSE prFront IN
           /\ index' = [index EXCEPT ![Len(index)].front = at]
           /\ prFront' = (at + 1) % Header.size
           /\ entry' = IF op.bulk THEN entry
                       ELSE [entry EXCEPT ![Header.entries[at]] =
                               [base |-> tailIndex, block |-> tailBlock]]
        /\ UNCHANGED tailBlock
     \/ /\ ~Explicit
        /\ IF op.bulk THEN UNCHANGED <<entry, tailBlock>>
           ELSE /\ entry' = [entry EXCEPT ![Header.entries[Header.front]].block = op.first]
                /\ tailBlock' = op.first
        /\ UNCHANGED <<index, prFront>>
  /\ Goto("fill")
  /\ UNCHANGED <<context, undone, shared, next, slot, emptied, pool, heap, prUsed, cp, loc>>

(* The block the k-th element of the call goes to.                        *)
BlockFor(k) ==
  IF tailIndex % BlockSize = 0 THEN Walk(op.first, (k - 1) \div BlockSize)
  ELSE Walk(op.start, (Offset(tailIndex) + k - 1) \div BlockSize)

(* The elements are constructed.                                          *)
Fill ==
  /\ Begun("fill")
  /\ LET at == [k \in 1 .. op.n |-> <<BlockFor(k), Plus(tailIndex, k - 1) % BlockSize>>] IN
     slot' = [b \in Blocks |-> [o \in Offsets |->
               IF <<b, o>> \in Range(at)
               THEN Plus(tailIndex, (CHOOSE k \in 1 .. op.n : at[k] = <<b, o>>) - 1)
               ELSE slot[b][o]]]
  /\ Goto("tail")
  /\ UNCHANGED <<context, undone, shared, tailBlock, next, emptied, pool, heap, idx, cp, loc>>

StoreTail ==
  /\ Begun("tail")
  /\ tailIndex' = Plus(tailIndex, op.n)
  /\ op' = Idle
  /\ UNCHANGED <<context, undone, headIndex, dequeueOptimisticCount, dequeueOvercommit,
                 memory, idx, cp, loc>>

(* ExplicitProducer::enqueue, ImplicitProducer::enqueue and the bulk      *)
(* versions of both: how they come by a block, then what they share.      *)
ExplicitBlock == ReuseBlock \/ (\E b \in Blocks : NewBlock(b)) \/ ResetEmpty
ImplicitBlock == InsertEntry \/ \E b \in Blocks : TakeBlock(b)

Producer ==
  \/ Enqueue(1, FALSE) \/ \E n \in 2 .. MaxBulk : Enqueue(n, TRUE)
  \/ ExplicitBlock \/ ImplicitBlock \/ GrowIndex \/ FailEnqueue
  \/ Publish \/ Fill \/ StoreTail

----------------------------------------------------------------------------
(* A consumer                                                             *)

At(c, pc) == cp[c] = pc
Step(c, pc, l) == cp' = [cp EXCEPT ![c] = pc] /\ loc' = [loc EXCEPT ![c] = l]
Return(c) == Step(c, "idle", NoCall)

(* dequeue (max = 1) and dequeue_bulk: the loads of tail and overcommit.  *)
Dequeue(c, max) ==
  /\ At(c, "idle") /\ dequeueOvercommit < MaxOvercommit[context]
  /\ Step(c, "check", [NoCall EXCEPT !.max = max, !.tail = tailIndex, !.over = dequeueOvercommit])
  /\ UNCHANGED <<context, undone, shared, memory, idx, op>>

(* Is there anything to dequeue?                                          *)
Check(c) ==
  LET l == loc[c]
      want == Minus(l.tail, Minus(dequeueOptimisticCount, l.over))
  IN /\ At(c, "check")
     /\ IF CircularLessThan(0, want)
        THEN Step(c, "claim", [l EXCEPT !.want = IF want < l.max THEN want ELSE l.max,
                                        !.tail = 0])
        ELSE Return(c)
     /\ UNCHANGED <<context, undone, shared, memory, idx, op>>

(* dequeueOptimisticCount.fetch_add                                       *)
Claim(c) ==
  /\ At(c, "claim")
  /\ dequeueOptimisticCount' = Plus(dequeueOptimisticCount, loc[c].want)
  /\ Step(c, "reload", [loc[c] EXCEPT !.my = dequeueOptimisticCount])
  /\ UNCHANGED <<context, undone, tailIndex, headIndex, dequeueOvercommit, memory, idx, op>>

(* The second load of tailIndex: how much of the claim is covered.        *)
Reload(c) ==
  LET l == loc[c]
      have == Minus(tailIndex, Minus(l.my, l.over))
      n    == IF ~CircularLessThan(0, have) THEN 0
              ELSE IF have < l.want THEN have ELSE l.want
  IN /\ At(c, "reload")
     /\ Step(c, IF n < l.want THEN "overcommit" ELSE "take",
             [l EXCEPT !.n = n, !.my = 0, !.over = 0, !.max = 0])
     /\ UNCHANGED <<context, undone, shared, memory, idx, op>>

(* Mutant: a claim that was not covered at all is forgotten.              *)
OvercommitForgotten(c) ==
  LET l == loc[c] IN
  /\ At(c, "overcommit")
  /\ dequeueOvercommit' = Plus(dequeueOvercommit, IF l.n = 0 THEN 0 ELSE l.want - l.n)
  /\ IF l.n = 0 THEN Return(c) ELSE Step(c, "take", [l EXCEPT !.want = l.n])
  /\ UNCHANGED <<context, undone, tailIndex, headIndex, dequeueOptimisticCount, memory, idx, op>>

(* The part that is not covered is given back.                            *)
Overcommit(c) ==
  LET l == loc[c] IN
  /\ At(c, "overcommit")
  /\ dequeueOvercommit' = Plus(dequeueOvercommit, l.want - l.n)
  /\ IF l.n = 0 THEN Return(c) ELSE Step(c, "take", [l EXCEPT !.want = l.n])
  /\ UNCHANGED <<context, undone, tailIndex, headIndex, dequeueOptimisticCount, memory, idx, op>>

(* headIndex.fetch_add                                                    *)
Take(c) ==
  /\ At(c, "take")
  /\ headIndex' = Plus(headIndex, loc[c].n)
  /\ Step(c, "locate", [loc[c] EXCEPT !.i = headIndex, !.want = 0])
  /\ UNCHANGED <<context, undone, tailIndex, dequeueOptimisticCount, dequeueOvercommit,
                 memory, idx, op>>

(* The loads of blockIndex and of its front.  The header may as well be   *)
(* loaded when the front is: a later header replaces it only once.        *)
LoadIndex(c) ==
  /\ At(c, "locate")
  /\ Step(c, "find", [loc[c] EXCEPT !.h = Len(index), !.front = Header.front])
  /\ UNCHANGED <<context, undone, shared, memory, idx, op>>

(* The entry of the next index: counted from the front at first, then the *)
(* one after the last.                                                    *)
EntryOf(c) ==
  LET l == loc[c] IN
  IF At(c, "find") THEN Position(index[l.h], l.front, l.i) ELSE l.pos

(* How many elements the call takes from the block of its next index.     *)
InBlock(c) ==
  LET room == BlockSize - Offset(loc[c].i)
  IN IF loc[c].n < room THEN loc[c].n ELSE room

MovedSlots(c) == {(loc[c].i + k) % BlockSize : k \in 0 .. InBlock(c) - 1}

(* The elements are moved out and destroyed, whether or not an assignment *)
(* throws.                                                                *)
Move(c) ==
  LET l == loc[c]
      b == entry[index[l.h].entries[EntryOf(c)]].block
      got == [k \in 1 .. InBlock(c) |->
                IF b = None THEN None ELSE slot[b][(l.i + k - 1) % BlockSize]]
  IN /\ At(c, "find") \/ At(c, "move")
     /\ slot' = [x \in Blocks |-> [o \in Offsets |->
                   IF x = b /\ o \in MovedSlots(c) THEN None ELSE slot[x][o]]]
     /\ Step(c, "mark", [l EXCEPT !.block = b, !.pos = EntryOf(c), !.front = 0,
                                  !.out = @ \o got])
     /\ UNCHANGED <<context, undone, shared, tailBlock, next, emptied, pool, heap, idx, op>>

(* On to the next block of the call, or back to the caller.               *)
Continue(c) ==
  LET l == loc[c]
      k == InBlock(c)
  IN IF k = l.n THEN Return(c)
     ELSE Step(c, "move", [l EXCEPT !.i = Plus(@, k), !.n = @ - k, !.block = None,
                                    !.pos = (@ + 1) % index[l.h].size])

(* set_empty, set_many_empty; an implicit producer's block that is now    *)
(* empty leaves the index and goes to the free list.                      *)
Mark(c) ==
  LET b == loc[c].block IN
  /\ At(c, "mark") /\ b # None
  /\ emptied' = [emptied EXCEPT ![b] = @ \union MovedSlots(c)]
  /\ IF ~Explicit /\ emptied'[b] = Offsets
     THEN Step(c, "unindex", loc[c]) ELSE Continue(c)
  /\ UNCHANGED <<context, undone, shared, tailBlock, next, slot, pool, heap, idx, op>>

Unindex(c) ==
  /\ At(c, "unindex")
  /\ entry' = [entry EXCEPT ![index[loc[c].h].entries[loc[c].pos]].block = None]
  /\ Step(c, "free", loc[c])
  /\ UNCHANGED <<context, undone, shared, memory, index, prFront, prUsed, op>>

(* Mutant: a bulk dequeue that goes on to another block drops this one.   *)
AddLastBlockToFreeList(c) ==
  /\ At(c, "free")
  /\ pool' = IF InBlock(c) = loc[c].n THEN pool \union {loc[c].block} ELSE pool
  /\ Continue(c)
  /\ UNCHANGED <<context, undone, shared, tailBlock, next, slot, emptied, heap, idx, op>>

AddBlockToFreeList(c) ==
  /\ At(c, "free")
  /\ pool' = pool \union {loc[c].block}
  /\ Continue(c)
  /\ UNCHANGED <<context, undone, shared, tailBlock, next, slot, emptied, heap, idx, op>>

(* dequeue and dequeue_bulk: reserve elements, find and move them, and    *)
(* give up a block that is empty now.                                     *)
Reserve(c) ==
  \/ \E max \in 1 .. MaxBulk : Dequeue(c, max)
  \/ Check(c) \/ Claim(c) \/ Reload(c) \/ Overcommit(c) \/ Take(c)

Extract(c) == LoadIndex(c) \/ Move(c) \/ Mark(c)

Release(c) == Unindex(c) \/ AddBlockToFreeList(c)

Consumer(c) == Reserve(c) \/ Extract(c) \/ Release(c)

Next == Producer \/ \E c \in Consumers : Consumer(c)

Spec == Init /\ [][Next]_vars

----------------------------------------------------------------------------
(* The element at index i, where a consumer looks for it now.             *)
ElementAt(i) ==
  LET b == entry[Header.entries[Position(Header, Header.front, i)]].block
  IN IF b = None THEN None ELSE slot[b][i % BlockSize]

(* The indices a consumer has taken and not yet emptied.                  *)
InFlight(c) ==
  CASE cp[c] \in {"locate", "find", "move"} -> From(loc[c].i, loc[c].n)
    [] cp[c] \in {"mark", "unindex", "free"} ->
         From(Plus(loc[c].i, InBlock(c)), loc[c].n - InBlock(c))
    [] OTHER -> <<>>

Elements(s) == [k \in 1 .. Len(s) |-> ElementAt(s[k])]

Items == Elements(From(headIndex, Minus(tailIndex, headIndex)))
Held  == [c \in Consumers |-> loc[c].out \o Elements(InFlight(c))]

Fifo == INSTANCE FifoQueue WITH
          items <- Items, held <- Held, Values <- 0 .. IndexMod - 1

(* The blocks of an explicit producer's circular list.                    *)
Ring == IF tailBlock = None THEN {} ELSE {Walk(tailBlock, k) : k \in 1 .. Cardinality(Blocks)}

(* The sub-queue is a FIFO queue: whatever the interleaving of producer   *)
(* and consumers, the growth of the index and the recycling of blocks, an *)
(* element is found where it was put and given to one consumer, in order; *)
(* until an enqueue_bulk fails after it has changed the block index.      *)
ImplementsFifo == Fifo!Init /\ [][undone \/ Fifo!Next]_<<Items, Held>>

(* The block index has room for every block that is reused ("guaranteed   *)
(* to be room since we're conceptually removing the last block from it    *)
(* first", line 1796): each element from head to tail is found through    *)
(* it.                                                                    *)
RoomInIndex == \A k \in DOMAIN Items : Items[k] = Plus(headIndex, k - 1)

(* Elements promised to consumers: a claim of the optimistic count that   *)
(* has not been turned into an advance of the head, or given back.        *)
Claimed  == [c \in Consumers |->
               IF cp[c] \in {"reload", "overcommit", "take"} THEN loc[c].want ELSE 0]
Promised == [c \in Consumers |-> IF cp[c] \in {"overcommit", "take"} THEN loc[c].n ELSE 0]

(* The sum of f, whose values are at most MaxBulk: pairs of a consumer    *)
(* and a number up to its value.                                          *)
Units(f) == {u \in Consumers \X (1 .. MaxBulk) : u[2] <= f[u[1]]}
Total(f) == Cardinality(Units(f))

(* The counters of dequeue and dequeue_bulk: what was claimed less what   *)
(* was given back is the head and the claims under way, and a consumer    *)
(* about to advance the head, which cannot fail, will find its elements   *)
(* although others advance it first.                                      *)
ClaimsCovered ==
  /\ Minus(dequeueOptimisticCount, dequeueOvercommit) = Plus(headIndex, Total(Claimed))
  /\ Total(Promised) <= Minus(tailIndex, headIndex)

Indexed == {entry[id].block : id \in DOMAIN entry} \ {None}

(* Where a block can be: free, or with one user.                          *)
Places ==
  << pool, heap, IF Explicit THEN Ring ELSE Indexed,
     IF ~Explicit /\ Begun("publish") /\ ~op.bulk THEN {op.first} ELSE {} >>

(* A block has one user at a time and none is lost: it is free, or in the *)
(* circular list (in the index) of the producer, or on its way between,   *)
(* with the one consumer whose set_empty emptied it.                      *)
BlocksAccounted ==
  \A b \in Blocks :
    Cardinality({p \in DOMAIN Places : b \in Places[p]})
      + Cardinality({c \in Consumers : cp[c] = "free" /\ loc[c].block = b}) = 1

----------------------------------------------------------------------------
(* The destructors                                                        *)

(* ~ExplicitProducer: the entry of the block the head is in the middle    *)
(* of.  An entry that was never written has no base to be passed.         *)
HalfDequeued ==
  LET at(k) == entry[Header.entries[(prFront - prUsed + k) % Header.size]]
      passed(k) == /\ at(k).base # None
                   /\ CircularLessThan(Plus(at(k).base, BlockSize), headIndex)
  IN  at(CHOOSE k \in 0 .. prUsed : ~passed(k) /\ \A j \in 0 .. k - 1 : passed(j))

HalfDequeuedBlock == IF Offset(headIndex) = 0 THEN None ELSE HalfDequeued.block

(* Mutant: the case of a tail on a block boundary is missing.             *)
LastValidOffset == Offset(tailIndex)

LastValid == IF Offset(tailIndex) = 0 THEN BlockSize ELSE Offset(tailIndex)

DestroyedExplicit ==
  {at \in {b \in Ring : emptied[b] # Offsets} \X Offsets :
     /\ at[1] = HalfDequeuedBlock => at[2] >= Offset(headIndex)
     /\ at[1] = tailBlock => at[2] < LastValid}

(* ~ImplicitProducer: the indices from head to tail, and the block of the *)
(* tail if it is not already used up.                                     *)
BlockOf(i) == entry[Header.entries[Position(Header, Header.front, i)]].block
Undequeued == Range(From(headIndex, Minus(tailIndex, headIndex)))

FreedImplicit ==
  {BlockOf(i) : i \in {j \in Undequeued : Base(j) # Base(Minus(tailIndex, 1))}}
    \union (IF tailBlock # None /\ (Undequeued # {} \/ Offset(tailIndex) # 0)
            THEN {tailBlock} ELSE {})

Destroyed == IF Explicit THEN DestroyedExplicit
             ELSE {<<BlockOf(i), Offset(i)>> : i \in Undequeued}
Freed == IF Explicit THEN Ring ELSE FreedImplicit

(* No call is under way.                                                  *)
Quiet == Begun("idle") /\ \A c \in Consumers : cp[c] = "idle"

(* Whenever no call is under way the destructor, which rediscovers from   *)
(* the emptiness flags and the index what is left, would destroy exactly  *)
(* the objects that exist and release exactly the blocks in use; unless   *)
(* an enqueue_bulk has failed after it had changed the block index.       *)
DestroysExactly ==
  Quiet /\ ~undone =>
    /\ Destroyed = {at \in Blocks \X Offsets : slot[at[1]][at[2]] # None}
    /\ Freed = Blocks \ (pool \union heap)

(* The destructor's assertion (line 1732): the entry it has found begins  *)
(* before the head.                                                       *)
HalfDequeuedAsserted ==
  Explicit /\ Quiet /\ Offset(headIndex) # 0 /\ HalfDequeued.base # None =>
    CircularLessThan(HalfDequeued.base, headIndex)
=============================================================================
