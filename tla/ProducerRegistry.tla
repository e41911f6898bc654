-------------------------- MODULE ProducerRegistry --------------------------
(***************************************************************************)
(* How moodycamel::ConcurrentQueue (Include/dpsim/ConcurrentQueue.h) finds *)
(* the sub-queue a call works on: the lock-free list of producers, which   *)
(* are recycled and never unlinked, the tokens that own the explicit ones, *)
(* the hash tables from a thread to its implicit one, and the calls that   *)
(* search the list for an element, with and without a consumer token.      *)
(*                                                                         *)
(* A sub-queue is what module FifoQueue promises, reduced to the number of *)
(* elements that entered and left it.  An action is one atomic operation   *)
(* of the code, with the accesses to the thread's own data around it.      *)
(*                                                                         *)
(* Two loops are one action each: the push of add_producer, which retries  *)
(* until nobody came in between, and the search of a thread for its own    *)
(* key, since nobody else writes that key and used slots stay used.        *)
(* Threads do not leave the tables: MOODYCAMEL_CPP11_THREAD_LOCAL_SUPPORTED*)
(* is not defined.                                                         *)
(***************************************************************************)
EXTENDS Integers, Sequences, FiniteSets

CONSTANTS
  Threads, Tokens, ConsumerTokens,
  None,            \* nullptr, invalid_thread_id
  Hash,            \* hash_thread_id
  InitialCapacity, \* INITIAL_IMPLICIT_PRODUCER_HASH_SIZE
  Quota,           \* EXPLICIT_CONSUMER_CONSUMPTION_QUOTA_BEFORE_ROTATE
  OffsetMod,       \* 2^w, the values of the 32 bit consumer offsets
  MaxCapacity,     \* bound: the largest hash table memory has room for
  MaxProducers,    \* bound: the producers memory has room for
  MaxItems,        \* bound: elements enqueued in one sub-queue
  Budgets          \* bounds of a run: calls of each kind, how many calls overlap,
                   \* elements in one call

ASSUME RegistryAssumption ==
  /\ InitialCapacity \in Nat \ {0} /\ MaxCapacity \in Nat
  /\ Hash \in [Threads -> Nat] /\ None \notin Threads \union Tokens /\ None \notin Nat
  /\ MaxProducers \in Nat /\ MaxItems \in Nat
  /\ Budgets \subseteq [implicit : Nat, token : Nat, consumer : Nat, dequeue : Nat,
                        overlap : Nat, bulk : Nat]
  /\ Quota \in Nat \ {0} /\ OffsetMod \in Nat \ {0}

VARIABLES
  list,           \* the producers, oldest first: producerListTail is the last
  producerCount,
  prod,           \* the producers created so far
  tok, ctok,      \* the producer and the consumer tokens
  nextExplicitConsumerId, globalExplicitConsumerOffset,
  tables,         \* the hash tables; implicitProducerHash is the last
  implicitProducerHashCount, implicitProducerHashResizeInProgress,
  th,             \* control and local variables of each thread
  left,           \* the calls of each kind that are still to come, and the other bounds
  destroyed

producers == <<list, producerCount, prod>>
tokens    == <<tok, ctok, nextExplicitConsumerId>>
hashes    == <<tables, implicitProducerHashCount, implicitProducerHashResizeInProgress>>
vars == <<producers, tokens, globalExplicitConsumerOffset, hashes, th, left, destroyed>>

(* A thread outside any call; missed says what its last dequeue overlooked. *)
Idle(missed) ==
  [pc |-> "idle", missed |-> missed, tok |-> None, main |-> 0, newCount |-> 0, p |-> None,
   explicit |-> FALSE, recycled |-> FALSE, at |-> 0, ptr |-> 0, tail |-> 0,
   best |-> 0, bestSize |-> 0, nonEmpty |-> 0, max |-> 0, count |-> 0,
   start |-> 0, seen |-> {}, single |-> FALSE]

EmptyTable(capacity) == [i \in 0 .. capacity - 1 |-> [key |-> None, value |-> None]]

NoConsumer == [live |-> FALSE, initial |-> 0, last |-> 0, items |-> 0, current |-> 0, desired |-> 0]

Init ==
  /\ list = <<>> /\ producerCount = 0 /\ prod = <<>>
  /\ tok = [k \in Tokens |-> [live |-> FALSE, producer |-> None]]
  /\ ctok = [c \in ConsumerTokens |-> NoConsumer]
  /\ nextExplicitConsumerId = 0 /\ globalExplicitConsumerOffset = 0
  /\ tables = <<EmptyTable(InitialCapacity)>>
  /\ implicitProducerHashCount = 0 /\ implicitProducerHashResizeInProgress = FALSE
  /\ th = [t \in Threads |-> Idle({})]
  /\ left \in Budgets /\ destroyed = FALSE

At(t, pc) == th[t].pc = pc
Goto(t, l, pc) == th' = [th EXCEPT ![t] = [l EXCEPT !.pc = pc]]
Return(t) == th' = [th EXCEPT ![t] = Idle({})]

(* A thread between two calls makes another one.                           *)
Call(t, kind) ==
  /\ At(t, "idle") /\ ~destroyed
  /\ Cardinality({u \in Threads : ~At(u, "idle")}) < left.overlap
  /\ left[kind] > 0 /\ left' = [left EXCEPT ![kind] = @ - 1]
  /\ UNCHANGED destroyed
Continues == UNCHANGED <<left, destroyed>>

(* A producer token serves one enqueue at a time and a consumer token one  *)
(* dequeue: their users take turns.                                        *)
Free(k) == \A t \in Threads : th[t].tok # k

-----------------------------------------------------------------------------
(* get_or_add_implicit_producer                                            *)

Capacity(h) == Cardinality(DOMAIN tables[h])
HalfFull(l) == l.newCount >= Capacity(l.main) \div 2
Crowded(l)  == l.newCount >= Capacity(l.main) \div 2 + Capacity(l.main) \div 4

Slot(t, h) == {i \in DOMAIN tables[h] : tables[h][i].key = t}

(* The tables that know the thread, newest first in the code.              *)
KnownIn(t) == {h \in DOMAIN tables : Slot(t, h) # {}}

(* inner_enqueue of n elements without a token: look the thread up, the    *)
(* found producer is lazily added to the main table.                       *)
EnqueueImplicit(t, n) ==
  LET main == Len(tables)
      h    == CHOOSE h \in KnownIn(t) : \A g \in KnownIn(t) : g <= h
      l    == [Idle({}) EXCEPT !.main = main, !.max = n, !.at = Hash[t]]
  IN
  /\ Call(t, "implicit")
  /\ IF KnownIn(t) = {} THEN Goto(t, l, "count")
     ELSE LET found == [l EXCEPT !.p = tables[h][CHOOSE i \in Slot(t, h) : TRUE].value] IN
          Goto(t, found, IF h = main THEN "enqueue" ELSE "probe")
  /\ UNCHANGED <<producers, tokens, globalExplicitConsumerOffset, hashes>>

CountUp(t) ==
  /\ At(t, "count")
  /\ implicitProducerHashCount' = implicitProducerHashCount + 1
  /\ Goto(t, [th[t] EXCEPT !.newCount = implicitProducerHashCount + 1], "resize")
  /\ UNCHANGED <<tables, implicitProducerHashResizeInProgress>>

(* test_and_set of the resize flag by whoever finds the table half full.   *)
TryResize(t) ==
  /\ At(t, "resize")
  /\ IF HalfFull(th[t]) /\ ~implicitProducerHashResizeInProgress
     THEN implicitProducerHashResizeInProgress' = TRUE /\ Goto(t, th[t], "resizing")
     ELSE UNCHANGED implicitProducerHashResizeInProgress /\ Goto(t, th[t], "choose")
  /\ UNCHANGED <<tables, implicitProducerHashCount>>

(* The smallest doubling of c that n entries fill less than half.          *)
Doublings(c, n) == {c * m : m \in {x \in 2 .. 4 * n : \E e \in 1 .. n + 1 : x = 2^e}}
Doubled(c, n) ==
  {d \in Doublings(c, n) : n < d \div 2 /\ \A e \in Doublings(c, n) : n < e \div 2 => d <= e}

(* With the flag: a larger table, unless one is there by now.              *)
Resize(t) ==
  LET l == [th[t] EXCEPT !.main = Len(tables)] IN
  /\ At(t, "resizing")
  /\ \/ /\ HalfFull(l)
        /\ \E c \in Doubled(Capacity(l.main), l.newCount) :
             c <= MaxCapacity /\ tables' = Append(tables, EmptyTable(c))
        /\ Goto(t, [l EXCEPT !.main = Len(tables) + 1], "unlock")
        /\ UNCHANGED implicitProducerHashCount
     \/ /\ HalfFull(l)
        /\ implicitProducerHashCount' = implicitProducerHashCount - 1
        /\ Goto(t, l, "fail")
        /\ UNCHANGED tables
     \/ /\ ~HalfFull(l) /\ Goto(t, l, "unlock")
        /\ UNCHANGED <<tables, implicitProducerHashCount>>
  /\ UNCHANGED implicitProducerHashResizeInProgress

Unlock(t) ==
  /\ \/ At(t, "unlock") /\ Goto(t, th[t], "choose")
     \/ At(t, "fail") /\ Return(t)
  /\ implicitProducerHashResizeInProgress' = FALSE
  /\ UNCHANGED <<tables, implicitProducerHashCount>>

(* Mutant of ChooseTable: the table is used however full it is.            *)
ChooseHalf(t) ==
  /\ At(t, "choose")
  /\ Goto(t, [th[t] EXCEPT !.ptr = Len(list)], "scan")
  /\ UNCHANGED hashes

(* Only a table that stays less than three quarters full is used.          *)
ChooseTable(t) ==
  /\ At(t, "choose")
  /\ IF Crowded(th[t]) THEN Goto(t, [th[t] EXCEPT !.main = Len(tables)], "resize")
     ELSE Goto(t, [th[t] EXCEPT !.ptr = Len(list)], "scan")
  /\ UNCHANGED hashes

(* Linear probing: the slot is taken if the CAS finds it empty.            *)
Probe(t) ==
  LET l == th[t]
      i == l.at % Capacity(l.main)
  IN
  /\ At(t, "probe")
  /\ IF tables[l.main][i].key = None
     THEN /\ tables' = [tables EXCEPT ![l.main][i] = [key |-> t, value |-> l.p]]
          /\ Goto(t, l, "enqueue")
     ELSE UNCHANGED tables /\ Goto(t, [l EXCEPT !.at = i + 1], "probe")
  /\ UNCHANGED <<implicitProducerHashCount, implicitProducerHashResizeInProgress>>

HashStep(t) ==
  /\ CountUp(t) \/ TryResize(t) \/ Resize(t) \/ Unlock(t) \/ ChooseTable(t) \/ Probe(t)
  /\ UNCHANGED <<producers, tokens, globalExplicitConsumerOffset>> /\ Continues

-----------------------------------------------------------------------------
(* recycle_or_create_producer, add_producer                                *)

NextPtr(l) == [l EXCEPT !.ptr = l.ptr - 1]

(* Look at the next producer of the list for one that nobody owns.         *)
Scan(t) ==
  LET l == th[t] IN
  /\ At(t, "scan")
  /\ IF l.ptr = 0 THEN Goto(t, l, "create")
     ELSE LET q == prod[list[l.ptr]] IN
          IF q.inactive /\ q.explicit = l.explicit THEN Goto(t, l, "catch")
          ELSE Goto(t, NextPtr(l), "scan")
  /\ UNCHANGED producers

(* Mutant of Recycle: stores without comparing.                            *)
RecycleAnyway(t) ==
  LET l == th[t] IN
  /\ At(t, "catch")
  /\ prod' = [prod EXCEPT ![list[l.ptr]].inactive = FALSE]
  /\ Goto(t, [l EXCEPT !.p = list[l.ptr], !.recycled = TRUE], "assign")
  /\ UNCHANGED <<list, producerCount>>

Recycle(t) ==
  LET l == th[t] IN
  /\ At(t, "catch")
  /\ IF prod[list[l.ptr]].inactive
     THEN /\ prod' = [prod EXCEPT ![list[l.ptr]].inactive = FALSE]
          /\ Goto(t, [l EXCEPT !.p = list[l.ptr], !.recycled = TRUE], "assign")
     ELSE UNCHANGED prod /\ Goto(t, NextPtr(l), "scan")
  /\ UNCHANGED <<list, producerCount>>

(* create<ExplicitProducer>, create<ImplicitProducer>; malloc may fail.    *)
Create(t) ==
  LET l == th[t] IN
  /\ At(t, "create")
  /\ \/ UNCHANGED prod /\ Goto(t, l, "assign")
     \/ /\ Len(prod) < MaxProducers
        /\ prod' = Append(prod, [explicit |-> l.explicit, inactive |-> FALSE, token |-> None,
                                 in |-> 0, out |-> 0])
        /\ Goto(t, [l EXCEPT !.p = Len(prod) + 1], "add")
  /\ UNCHANGED <<list, producerCount>>

(* add_producer counts first, then links.                                  *)
Add(t) ==
  \/ /\ At(t, "add") /\ producerCount' = producerCount + 1
     /\ Goto(t, th[t], "push") /\ UNCHANGED <<prod, list>>
  \/ /\ At(t, "push") /\ list' = Append(list, th[t].p)
     /\ Goto(t, th[t], "assign") /\ UNCHANGED <<prod, producerCount>>

ListStep(t) ==
  /\ Scan(t) \/ Recycle(t) \/ Create(t) \/ Add(t)
  /\ UNCHANGED <<tokens, globalExplicitConsumerOffset, hashes>> /\ Continues

(* The caller gets the producer: a token under construction, or the table. *)
Assign(t) ==
  LET l == th[t]
      uncounted == ~l.explicit /\ (l.p = None \/ l.recycled)
  IN
  /\ At(t, "assign")
  /\ implicitProducerHashCount' = implicitProducerHashCount - (IF uncounted THEN 1 ELSE 0)
  /\ tok' = IF l.explicit THEN [tok EXCEPT ![l.tok] = [live |-> TRUE, producer |-> l.p]] ELSE tok
  /\ prod' = IF l.explicit /\ l.p # None THEN [prod EXCEPT ![l.p].token = l.tok] ELSE prod
  /\ IF l.explicit \/ l.p = None THEN Return(t) ELSE Goto(t, l, "probe")
  /\ UNCHANGED <<list, producerCount, ctok, nextExplicitConsumerId, tables,
                 implicitProducerHashResizeInProgress, globalExplicitConsumerOffset>>
  /\ Continues

(* The sub-queue takes all elements or, out of memory, none.               *)
Enqueue(t) ==
  LET l == th[t] IN
  /\ At(t, "enqueue")
  /\ \/ /\ prod[l.p].in + l.max <= MaxItems
        /\ prod' = [prod EXCEPT ![l.p].in = @ + l.max]
     \/ UNCHANGED prod
  /\ Return(t)
  /\ UNCHANGED <<list, producerCount, tokens, globalExplicitConsumerOffset, hashes>>
  /\ Continues

-----------------------------------------------------------------------------
(* Tokens                                                                  *)

NewToken(t, k) ==
  /\ Call(t, "token") /\ Free(k) /\ ~tok[k].live
  /\ Goto(t, [Idle({}) EXCEPT !.tok = k, !.explicit = TRUE, !.ptr = Len(list)], "scan")
  /\ UNCHANGED <<producers, tokens>>

EnqueueToken(t, k, n) ==
  /\ Call(t, "token") /\ Free(k) /\ tok[k].producer # None
  /\ Goto(t, [Idle({}) EXCEPT !.tok = k, !.p = tok[k].producer, !.max = n], "enqueue")
  /\ UNCHANGED <<producers, tokens>>

(* ~ProducerToken: the producer forgets its token, then can be recycled.   *)
DropToken(t, k) ==
  /\ Call(t, "token") /\ Free(k) /\ tok[k].live
  /\ IF tok[k].producer = None
     THEN /\ tok' = [tok EXCEPT ![k].live = FALSE]
          /\ UNCHANGED <<prod, th>>
     ELSE /\ prod' = [prod EXCEPT ![tok[k].producer].token = None]
          /\ Goto(t, [Idle({}) EXCEPT !.tok = k], "deactivate")
          /\ UNCHANGED tok
  /\ UNCHANGED <<list, producerCount, ctok, nextExplicitConsumerId>>

Deactivate(t) ==
  LET k == th[t].tok IN
  /\ At(t, "deactivate")
  /\ prod' = [prod EXCEPT ![tok[k].producer].inactive = TRUE]
  /\ tok' = [tok EXCEPT ![k] = [live |-> FALSE, producer |-> None]]
  /\ Return(t)
  /\ UNCHANGED <<list, producerCount, ctok, nextExplicitConsumerId, hashes,
                 globalExplicitConsumerOffset>>
  /\ Continues

(* Mutant of Relinked: the producers keep the token they had.              *)
RelinkedNone(ks, changed) == prod

(* The producers of the tokens ks point to the token that has them now.    *)
Relinked(ks, changed) ==
  [p \in DOMAIN prod |->
     [prod[p] EXCEPT !.token =
        IF \E k \in ks : changed[k].producer = p
        THEN CHOOSE k \in ks : changed[k].producer = p ELSE @]]

(* The move constructor leaves the source without a producer.              *)
MoveToken(t, k, from) ==
  LET changed == [tok EXCEPT ![k] = [live |-> TRUE, producer |-> tok[from].producer],
                             ![from].producer = None] IN
  /\ Call(t, "token") /\ Free(k) /\ Free(from)
  /\ ~tok[k].live /\ tok[from].live
  /\ tok' = changed /\ prod' = Relinked({k}, changed)
  /\ UNCHANGED <<list, producerCount, ctok, nextExplicitConsumerId, th>>

SwapTokens(t, k, other) ==
  LET changed == [tok EXCEPT ![k] = tok[other], ![other] = tok[k]] IN
  /\ Call(t, "token") /\ Free(k) /\ Free(other) /\ k # other
  /\ tok[k].live /\ tok[other].live
  /\ tok' = changed /\ prod' = Relinked({k, other}, changed)
  /\ UNCHANGED <<list, producerCount, ctok, nextExplicitConsumerId, th>>

NewConsumer(t, c) ==
  /\ Call(t, "consumer") /\ Free(c) /\ ~ctok[c].live
  /\ nextExplicitConsumerId' = (nextExplicitConsumerId + 1) % OffsetMod
  /\ ctok' = [ctok EXCEPT ![c] = [NoConsumer EXCEPT
       !.live = TRUE, !.initial = nextExplicitConsumerId, !.last = OffsetMod - 1]]
  /\ UNCHANGED <<producers, tok, th>>

(* The move constructor of a consumer token copies every field.            *)
MoveConsumer(t, c, from) ==
  /\ Call(t, "consumer") /\ Free(c) /\ Free(from) /\ ~ctok[c].live /\ ctok[from].live
  /\ ctok' = [ctok EXCEPT ![c] = ctok[from]]
  /\ UNCHANGED <<producers, tok, nextExplicitConsumerId, th>>

(* swap, which is the move assignment too: every field is exchanged.       *)
SwapConsumers(t, c, other) ==
  /\ Call(t, "consumer") /\ Free(c) /\ Free(other) /\ c # other
  /\ ctok[c].live /\ ctok[other].live
  /\ ctok' = [ctok EXCEPT ![c] = ctok[other], ![other] = ctok[c]]
  /\ UNCHANGED <<producers, tok, nextExplicitConsumerId, th>>

TokenCall(t) ==
  /\ \/ \E k \in Tokens : \/ NewToken(t, k)
                          \/ DropToken(t, k)
                          \/ \E n \in 1 .. left.bulk : EnqueueToken(t, k, n)
                          \/ \E l \in Tokens : MoveToken(t, k, l) \/ SwapTokens(t, k, l)
     \/ \E c \in ConsumerTokens : \/ NewConsumer(t, c)
                                  \/ \E d \in ConsumerTokens : \/ MoveConsumer(t, c, d)
                                                                 \/ SwapConsumers(t, c, d)
  /\ UNCHANGED <<hashes, globalExplicitConsumerOffset>>

-----------------------------------------------------------------------------
(* Dequeues                                                                *)

Size(p) == prod[p].in - prod[p].out

(* A sub-queue hands out up to max elements.  It may appear empty although *)
(* it is not, while another thread is dequeueing.                          *)
Racing(t) == \E u \in Threads \ {t} : th[u].start # 0
Outcomes(t, p) ==
  LET n == IF Size(p) < th[t].max - th[t].count THEN Size(p) ELSE th[t].max - th[t].count
  IN {n} \union (IF Racing(t) THEN 0 .. n ELSE {})
Handed(p, n) == prod' = [prod EXCEPT ![p].out = @ + n]

(* A call that finds nothing has missed what it has not seen to be empty.  *)
ReturnEmpty(t, l) == th' = [th EXCEPT ![t] = Idle((1 .. l.start) \ l.seen)]
Finish(t, l) == IF l.count > 0 THEN Return(t) ELSE ReturnEmpty(t, l)

Seen(l, i, n) == [l EXCEPT !.seen = IF n = 0 THEN @ \union {i} ELSE @, !.count = @ + n]

Begin(max) == [Idle({}) EXCEPT !.start = Len(list), !.ptr = Len(list), !.max = max]

(* try_dequeue: measure sub-queues until three have elements.              *)
TryDequeue(t) ==
  /\ Call(t, "dequeue")
  /\ IF list = <<>> THEN ReturnEmpty(t, Begin(1)) ELSE Goto(t, Begin(1), "measure")
  /\ UNCHANGED <<producers, ctok>>

(* size_approx loads the tail index, then the head index.                  *)
MeasureTail(t) ==
  /\ At(t, "measure")
  /\ Goto(t, [th[t] EXCEPT !.at = prod[list[th[t].ptr]].in], "score")
  /\ UNCHANGED <<producers, ctok>>

Score(t) ==
  LET l    == th[t]
      out  == prod[list[l.ptr]].out
      size == IF out < l.at THEN l.at - out ELSE 0
      m    == [Seen(l, l.ptr, size) EXCEPT !.count = 0]
      s    == IF size = 0 THEN m
              ELSE [m EXCEPT !.nonEmpty = @ + 1,
                             !.best = IF size > l.bestSize THEN l.ptr ELSE @,
                             !.bestSize = IF size > l.bestSize THEN size ELSE @]
  IN
  /\ At(t, "score")
  /\ IF s.nonEmpty < 3 /\ s.ptr > 1 THEN Goto(t, NextPtr(s), "measure")
     ELSE IF s.nonEmpty > 0 THEN Goto(t, s, "best")
     ELSE ReturnEmpty(t, s)
  /\ UNCHANGED <<producers, ctok>>

TryBest(t) ==
  LET l == th[t] IN
  /\ At(t, "best")
  /\ \E n \in Outcomes(t, list[l.best]) :
       /\ Handed(list[l.best], n)
       /\ IF n > 0 THEN Return(t) ELSE Goto(t, Seen(l, l.best, 0), "reload")
  /\ UNCHANGED <<list, producerCount, ctok>>

(* Mutant of Reload: goes on behind the producer tried first.              *)
ReloadAfterBest(t) ==
  /\ At(t, "reload")
  /\ IF th[t].best = 1 THEN ReturnEmpty(t, th[t])
     ELSE Goto(t, [th[t] EXCEPT !.ptr = th[t].best - 1], "each")
  /\ UNCHANGED <<producers, ctok>>

Reload(t) ==
  /\ At(t, "reload")
  /\ Goto(t, [th[t] EXCEPT !.ptr = Len(list)], "each")
  /\ UNCHANGED <<producers, ctok>>

(* try_dequeue_non_interleaved, try_dequeue_bulk: every producer in turn.  *)
TryDequeueBulk(t, max) ==
  /\ Call(t, "dequeue")
  /\ IF list = <<>> THEN ReturnEmpty(t, Begin(max)) ELSE Goto(t, Begin(max), "each")
  /\ UNCHANGED <<producers, ctok>>

TryEach(t) ==
  LET l == th[t] IN
  /\ At(t, "each")
  /\ \E n \in IF l.ptr = l.best THEN {0} ELSE Outcomes(t, list[l.ptr]) :
       /\ Handed(list[l.ptr], n)
       /\ LET s == Seen(l, l.ptr, n) IN
          IF s.count = l.max \/ l.ptr = 1 THEN Finish(t, s) ELSE Goto(t, NextPtr(s), "each")
  /\ UNCHANGED <<list, producerCount, ctok>>

(* try_dequeue_from_producer, try_dequeue_bulk_from_producer: the producer *)
(* is read from the token (into at), whose owner may go on enqueueing.     *)
DequeueFrom(t, k, max) ==
  /\ Call(t, "dequeue") /\ tok[k].producer # None
  /\ Goto(t, [Begin(max) EXCEPT !.at = tok[k].producer], "from")
  /\ UNCHANGED <<producers, ctok>>

TryFrom(t) ==
  LET p == th[t].at IN
  /\ At(t, "from")
  /\ \E n \in Outcomes(t, p) : Handed(p, n)
  /\ Return(t)
  /\ UNCHANGED <<list, producerCount, ctok>>

(* next_prod, or the tail behind the last one                              *)
Onward(i, k, tail) == ((i - 1 - k) % tail) + 1

(* With a consumer token: rotate first if this is its first dequeue or the *)
(* global offset has moved.  single tells try_dequeue from the bulk call.  *)
TryDequeueToken(t, c, max, single) ==
  LET l == [Begin(max) EXCEPT !.tok = c, !.single = single] IN
  /\ Call(t, "dequeue") /\ Free(c) /\ ctok[c].live /\ (single => max = 1)
  /\ Goto(t, l, IF ctok[c].desired = 0 \/ ctok[c].last # globalExplicitConsumerOffset
                THEN "rotate" ELSE "current")
  /\ UNCHANGED <<producers, ctok>>

(* update_current_producer_after_rotation: the loads of producerListTail,  *)
(* producerCount and globalExplicitConsumerOffset, in this order           *)
Rotate(t) ==
  LET l == th[t] IN
  /\ \/ /\ At(t, "rotate")
        /\ IF ctok[l.tok].desired = 0 /\ list = <<>> THEN ReturnEmpty(t, l)
           ELSE Goto(t, [l EXCEPT !.tail = Len(list)], "counting")
     \/ At(t, "counting") /\ Goto(t, [l EXCEPT !.at = producerCount], "placing")
  /\ UNCHANGED <<producers, ctok>>

Place(t) ==
  LET l     == th[t]
      c     == ctok[l.tok]
      first == IF c.desired # 0 THEN c.desired
               ELSE Onward(l.tail, l.at - 1 - (c.initial % l.at), l.tail)
      delta == ((globalExplicitConsumerOffset - c.last) % OffsetMod) % l.at
      there == Onward(first, delta, l.tail)
  IN
  /\ At(t, "placing")
  /\ ctok' = [ctok EXCEPT ![l.tok] = [c EXCEPT !.last = globalExplicitConsumerOffset,
                !.desired = there, !.current = there, !.items = 0]]
  /\ Goto(t, [l EXCEPT !.at = 0], "current")
  /\ UNCHANGED producers

(* The producer the token is at; its quota makes everybody rotate.         *)
TryCurrent(t) ==
  LET l == th[t]
      c == ctok[l.tok]
  IN
  /\ At(t, "current")
  /\ \E n \in Outcomes(t, list[c.current]) :
       LET items == c.items + n
           full  == IF l.single THEN items = Quota ELSE items >= Quota
           s     == Seen(l, c.current, n)
       IN
       /\ Handed(list[c.current], n)
       /\ ctok' = [ctok EXCEPT ![l.tok].items = items]
       /\ IF n < l.max THEN Goto(t, s, "onward")
          ELSE IF full THEN Goto(t, s, "turn") ELSE Return(t)
  /\ UNCHANGED <<list, producerCount>>

Turn(t) ==
  /\ At(t, "turn")
  /\ globalExplicitConsumerOffset' = (globalExplicitConsumerOffset + 1) % OffsetMod
  /\ Return(t)
  /\ UNCHANGED <<producers, tokens, hashes>> /\ Continues

LoadTail(t) ==
  LET l == th[t]
      i == ctok[l.tok].current
  IN
  /\ At(t, "onward")
  /\ Goto(t, [l EXCEPT !.tail = Len(list), !.ptr = Onward(i, 1, Len(list))], "search")
  /\ UNCHANGED <<producers, ctok>>

(* Around the list, until the producer the token is at comes again.        *)
Search(t) ==
  LET l == th[t]
      c == ctok[l.tok]
  IN
  /\ At(t, "search")
  /\ IF l.ptr = c.current THEN Finish(t, l) /\ UNCHANGED <<prod, ctok>>
     ELSE \E n \in Outcomes(t, list[l.ptr]) :
            LET s == [Seen(l, l.ptr, n) EXCEPT !.ptr = Onward(l.ptr, 1, l.tail)] IN
            /\ Handed(list[l.ptr], n)
            /\ ctok' = IF n = 0 THEN ctok
                       ELSE [ctok EXCEPT ![l.tok].current = l.ptr, ![l.tok].items = n]
            /\ IF s.count = l.max THEN Return(t) ELSE Goto(t, s, "search")
  /\ UNCHANGED <<list, producerCount>>

DequeueCall(t) ==
  \/ TryDequeue(t)
  \/ \E max \in 1 .. left.bulk :
       \/ TryDequeueBulk(t, max)
       \/ \E k \in Tokens : DequeueFrom(t, k, max)
       \/ \E c \in ConsumerTokens, single \in BOOLEAN : TryDequeueToken(t, c, max, single)

DequeueStep(t) ==
  \/ MeasureTail(t) \/ Score(t) \/ TryBest(t) \/ Reload(t) \/ TryEach(t) \/ TryFrom(t)
  \/ Rotate(t) \/ Place(t) \/ TryCurrent(t) \/ LoadTail(t) \/ Search(t)

Dequeue(t) ==
  /\ DequeueCall(t) \/ (DequeueStep(t) /\ Continues)
  /\ UNCHANGED <<tok, nextExplicitConsumerId, globalExplicitConsumerOffset, hashes>>

-----------------------------------------------------------------------------
(* ~ConcurrentQueue, when no thread uses the queue: the tokens that are    *)
(* left lose their producer.                                               *)
Destroy ==
  LET owners == {prod[list[i]].token : i \in DOMAIN list} \ {None} IN
  /\ ~destroyed /\ destroyed' = TRUE
  /\ \A t \in Threads : At(t, "idle")
  /\ tok' = [k \in Tokens |-> IF k \in owners THEN [tok[k] EXCEPT !.producer = None] ELSE tok[k]]
  /\ list' = <<>>
  /\ UNCHANGED <<producerCount, prod, ctok, nextExplicitConsumerId, hashes,
                 globalExplicitConsumerOffset, th, left>>

Next ==
  \/ \E t \in Threads : \/ \E n \in 1 .. left.bulk : EnqueueImplicit(t, n)
                        \/ HashStep(t) \/ ListStep(t) \/ Assign(t) \/ Enqueue(t)
                        \/ TokenCall(t) \/ Deactivate(t)
                        \/ Dequeue(t) \/ Turn(t)
  \/ Destroy

Spec == Init /\ [][Next]_vars

-----------------------------------------------------------------------------
(* Who may enqueue in p: its token, the thread a table gives it to, or the *)
(* call that has just obtained it.                                         *)
Obtaining(t) == th[t].pc \in {"add", "push", "assign", "probe"}
Owners(p) ==
  {k \in Tokens : tok[k].live /\ tok[k].producer = p}
  \union {t \in Threads : \E h \in DOMAIN tables : \E i \in Slot(t, h) : tables[h][i].value = p}
  \union {IF th[t].explicit THEN th[t].tok ELSE t : t \in {u \in Threads : Obtaining(u) /\ th[u].p = p}}

(* A producer has one owner at a time, none while it waits to be recycled. *)
(* An ExplicitProducer or ImplicitProducer is only safe with one thread    *)
(* enqueueing: two constructions that find the same inactive producer, or  *)
(* a thread that is looked up in an old table, must not share it.          *)
OneOwner ==
  \A p \in DOMAIN prod : /\ Cardinality(Owners(p)) <= 1
                         /\ prod[p].inactive => Owners(p) = {}

(* ConcurrentQueueProducerTypelessBase::token names the live token that    *)
(* has the producer, through moves, swaps and recycling by another thread; *)
(* ~ConcurrentQueue writes through it, and leaves no token with a freed    *)
(* producer.                                                               *)
TokensLinked ==
  IF destroyed THEN \A k \in Tokens : tok[k].producer = None
  ELSE \A p \in DOMAIN prod, k \in Tokens :
         prod[p].token = k <=> /\ tok[k].live /\ tok[k].producer = p
                               /\ ~\E t \in Threads : At(t, "deactivate") /\ th[t].tok = k

(* "Not an infinite loop because at least one slot is free in the hash     *)
(* table": the promise the probing loops of get_or_add_implicit_producer   *)
(* rest on, although lazy insertions are not counted and a thread may add  *)
(* itself to a table that is being replaced.                               *)
FreeSlot == \A h \in DOMAIN tables : Slot(None, h) # {}

(* A dequeue that returns false has found every sub-queue that existed     *)
(* when it began to appear empty, wherever the token stood in the list and *)
(* whatever was added meanwhile; the position it walks to is defined, as   *)
(* producerCount is never behind the list it loaded.                       *)
NothingOverlooked ==
  \A t \in Threads : /\ th[t].missed = {}
                     /\ At(t, "placing") => th[t].at >= th[t].tail
=============================================================================
