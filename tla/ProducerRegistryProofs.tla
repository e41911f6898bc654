------------------------ MODULE ProducerRegistryProofs ------------------------
(***************************************************************************)
(* Proofs about ProducerRegistry: for any number of threads, tokens and    *)
(* producers, and tables of any size, a producer has one owner, and the    *)
(* links between producers and tokens agree.                               *)
(***************************************************************************)
EXTENDS ProducerRegistry, TLAPS, FiniteSetTheorems, WellFoundedInduction

(* Positions in recycle_or_create_producer and before it, in               *)
(* get_or_add_implicit_producer.                                           *)
InHash   == {"count", "resize", "resizing", "unlock", "fail", "choose"}
InList   == {"scan", "catch", "create", "add", "push", "assign"}
Obtained == {"add", "push", "assign", "probe"}

Fields == {"pc", "missed", "tok", "main", "newCount", "p", "explicit", "recycled", "at", "ptr",
           "tail", "best", "bestSize", "nonEmpty", "max", "count", "start", "seen", "single"}
ProducerFields == {"explicit", "inactive", "token", "in", "out"}

(* The shape of the state.                                                 *)
IsSeq(s) == s \in Seq({s[i] : i \in DOMAIN s})
Shape ==
  /\ DOMAIN th = Threads /\ \A t \in Threads : DOMAIN th[t] = Fields
  /\ tok \in [Tokens -> [live : BOOLEAN, producer : Nat \union {None}]]
  /\ IsSeq(prod) /\ IsSeq(tables)
  /\ \A p \in DOMAIN prod : /\ DOMAIN prod[p] = ProducerFields
                            /\ prod[p].explicit \in BOOLEAN /\ prod[p].inactive \in BOOLEAN
  /\ IsSeq(list) /\ \A i \in DOMAIN list : list[i] \in DOMAIN prod

InTheList(p) == \E i \in DOMAIN list : list[i] = p

(* Where the call of a thread is, and what it holds.                       *)
ThreadInv(t) ==
  LET l == th[t] IN
  /\ l.explicit \in BOOLEAN
  /\ l.pc = "idle" => l.tok = None
  /\ l.pc \in InHash \union {"scan", "catch", "create"} => l.p = None
  /\ l.pc \in InHash \union {"probe"} => ~l.explicit
  /\ l.pc = "scan" => l.ptr \in 0 .. Len(list)
  /\ l.pc = "catch" => l.ptr \in 1 .. Len(list) /\ prod[list[l.ptr]].explicit = l.explicit
  /\ l.pc \in InList /\ l.explicit => l.tok \in Tokens /\ ~tok[l.tok].live
  /\ l.pc \in Obtained /\ ~(l.pc = "assign" /\ l.p = None) =>
       /\ l.p \in DOMAIN prod /\ prod[l.p].explicit = l.explicit /\ ~prod[l.p].inactive
  /\ l.pc = "assign" /\ l.p # None => InTheList(l.p)
  /\ l.pc = "deactivate" => l.tok \in Tokens /\ tok[l.tok].live /\ tok[l.tok].producer # None

(* A token has an active explicit producer of the list, or none.           *)
TokenInv(k) ==
  tok[k].producer # None =>
    /\ tok[k].live /\ tok[k].producer \in DOMAIN prod /\ InTheList(tok[k].producer)
    /\ prod[tok[k].producer].explicit /\ ~prod[tok[k].producer].inactive

(* The calls and the table entries through which a thread has a producer.  *)
Obtains(t, p) == th[t].pc \in Obtained /\ th[t].p = p
Mapped(t, p)  == \E h \in DOMAIN tables : \E i \in Slot(t, h) : tables[h][i].value = p
Has(t, p) == Obtains(t, p) \/ Mapped(t, p)

(* Only a producer made for tokens is ever inactive; a table has the other *)
(* kind.                                                                   *)
KindInv ==
  /\ \A p \in DOMAIN prod : prod[p].inactive => prod[p].explicit
  /\ \A t \in Threads : \A p : Mapped(t, p) => p \in DOMAIN prod /\ ~prod[p].explicit

(* A token is used by one call, a producer by one thread or one token.     *)
Exclusive ==
  /\ \A t, u \in Threads : th[t].tok # None /\ th[t].tok = th[u].tok => t = u
  /\ \A t, u \in Threads : \A p \in DOMAIN prod : Has(t, p) /\ Has(u, p) => t = u
  /\ \A k, j \in Tokens : tok[k].producer # None /\ tok[k].producer = tok[j].producer => k = j
  /\ \A k \in Tokens, t \in Threads : tok[k].producer # None => ~Has(t, tok[k].producer)

RegInv ==
  /\ Shape
  /\ \A t \in Threads : ThreadInv(t)
  /\ \A k \in Tokens : TokenInv(k)
  /\ KindInv /\ Exclusive /\ TokensLinked
  /\ destroyed => \A t \in Threads : th[t].pc = "idle"

(***************************************************************************)
(* Sequences                                                               *)
(***************************************************************************)

(* A function with the domain of a sequence is a sequence of its length.   *)
LEMMA SeqDomain ==
  ASSUME NEW s, IsSeq(s), NEW q, q = [i \in DOMAIN q |-> q[i]], DOMAIN q = DOMAIN s
  PROVE  IsSeq(q) /\ Len(q) = Len(s)
<1> DEFINE S == {s[i] : i \in DOMAIN s}
           Q == {q[i] : i \in DOMAIN q}
<1>1. Len(s) \in Nat /\ DOMAIN s = 1 .. Len(s)
  <2> s \in Seq(S)
    BY DEF IsSeq
  <2> HIDE DEF S
  <2> QED
    OBVIOUS
<1>2. \A i \in 1 .. Len(s) : q[i] \in Q
  BY <1>1
<1>3. q \in [1 .. Len(s) -> Q]
  <2> HIDE DEF Q
  <2> QED
    BY <1>1, <1>2
<1>4. q \in Seq(Q) /\ Len(q) = Len(s)
  <2> HIDE DEF Q
  <2> QED
    BY <1>1, <1>3
<1> QED
  BY <1>4 DEF IsSeq

(* The domain of a sequence.                                               *)
LEMMA SeqLen ==
  ASSUME NEW s, IsSeq(s)
  PROVE  Len(s) \in Nat /\ DOMAIN s = 1 .. Len(s) /\ s = [i \in DOMAIN s |-> s[i]]
<1> DEFINE S == {s[i] : i \in DOMAIN s}
<1> s \in Seq(S)
  BY DEF IsSeq
<1> HIDE DEF S
<1> QED
  OBVIOUS

(* What Append does.                                                       *)
LEMMA SeqAppend ==
  ASSUME NEW s, IsSeq(s), NEW e
  PROVE  LET q == Append(s, e) IN
         /\ IsSeq(q) /\ Len(q) = Len(s) + 1 /\ DOMAIN q = 1 .. Len(s) + 1
         /\ q[Len(s) + 1] = e /\ \A i \in DOMAIN s : i \in DOMAIN q /\ q[i] = s[i]
<1>0. PICK q : q = Append(s, e)
  OBVIOUS
<1> DEFINE S == {s[i] : i \in DOMAIN s} \union {e}
           Q == {q[i] : i \in DOMAIN q}
<1>1. Len(s) \in Nat /\ DOMAIN s = 1 .. Len(s) /\ s = [i \in DOMAIN s |-> s[i]]
  BY SeqLen
<1>2. s \in Seq(S) /\ e \in S
  <2>1. \A i \in 1 .. Len(s) : s[i] \in S
    BY <1>1
  <2>2. e \in S
    OBVIOUS
  <2> HIDE DEF S
  <2>3. s \in [1 .. Len(s) -> S]
    BY <1>1, <2>1
  <2> QED
    BY <1>1, <2>2, <2>3
<1>3. /\ q \in Seq(S) /\ Len(q) = Len(s) + 1 /\ DOMAIN q = 1 .. Len(s) + 1
      /\ q[Len(s) + 1] = e /\ \A i \in DOMAIN s : i \in DOMAIN q /\ q[i] = s[i]
  <2> HIDE DEF S
  <2> QED
    BY <1>0, <1>1, <1>2
<1>4. q \in Seq(Q)
  <2>1. \A i \in DOMAIN q : q[i] \in Q
    OBVIOUS
  <2>2. q \in Seq(S)
    BY <1>3
  <2>3. q = [i \in DOMAIN q |-> q[i]] /\ DOMAIN q = 1 .. Len(q) /\ Len(q) \in Nat
    <3> HIDE DEF S
    <3> QED
      BY ONLY <2>2
  <2> HIDE DEF Q
  <2>4. q \in [1 .. Len(q) -> Q]
    BY ONLY <2>1, <2>3
  <2> QED
    BY ONLY <2>3, <2>4
<1>5. IsSeq(q)
  BY <1>4 DEF IsSeq
<1> QED
  BY <1>0, <1>3, <1>5

(***************************************************************************)
(* Steps that leave the producers to their owners                          *)
(***************************************************************************)

(* One thread moves; the others stay where they are.                       *)
Moves(t) ==
  /\ DOMAIN th' = Threads /\ DOMAIN th'[t] = Fields
  /\ \A u \in Threads : u # t => th'[u] = th[u]

(* The producers keep kind, activity and token.                            *)
SameProducers ==
  /\ IsSeq(prod') /\ DOMAIN prod' = DOMAIN prod
  /\ \A p \in DOMAIN prod :
       /\ DOMAIN prod'[p] = ProducerFields /\ prod'[p].explicit = prod[p].explicit
       /\ prod'[p].inactive = prod[p].inactive /\ prod'[p].token = prod[p].token

(* The thread gets a producer only from the tables, and enters in a table  *)
(* only what it has obtained.                                              *)
Passes(t) ==
  /\ \A p \in DOMAIN prod : Obtains(t, p)' => Obtains(t, p) \/ Mapped(t, p)
  /\ \A u \in Threads : \A p : Mapped(u, p)' =>
       Mapped(u, p) \/ (u = t /\ p \in DOMAIN prod /\ ~prod[p].explicit /\ Obtains(t, p))

Quiet(t) ==
  /\ SameProducers /\ Moves(t) /\ Passes(t) /\ ThreadInv(t)' /\ IsSeq(tables')
  /\ list' = list /\ tok' = tok /\ destroyed' = destroyed /\ ~destroyed
  /\ th[t].pc # "deactivate" /\ th'[t].pc # "deactivate"
  /\ th'[t].tok \in {None, th[t].tok} \/ Free(th'[t].tok)

(* Such a step keeps the invariant.                                        *)
LEMMA QuietReg ==
  ASSUME RegInv, NEW t \in Threads, Quiet(t)
  PROVE  RegInv'
<1> USE DEF Quiet
<1>1. Shape'
  BY DEF RegInv, Shape, SameProducers, Moves
<1>2. ASSUME NEW u \in Threads PROVE ThreadInv(u)'
  <2>1. CASE u = t
    BY <2>1
  <2>2. CASE u # t
    <3>1. th'[u] = th[u] /\ ThreadInv(u)
      BY <2>2 DEF RegInv, Moves
    <3>2. \A p : InTheList(p)' <=> InTheList(p)
      BY DEF InTheList
    <3>3. \A i \in DOMAIN list : list[i] \in DOMAIN prod
      BY DEF RegInv, Shape
    <3>4. DOMAIN list = 1 .. Len(list)
      BY SeqLen DEF RegInv, Shape
    <3> QED
      BY <3>1, <3>2, <3>3, <3>4 DEF ThreadInv, SameProducers
  <2> QED
    BY <2>1, <2>2
<1>3. ASSUME NEW k \in Tokens PROVE TokenInv(k)'
  BY DEF RegInv, TokenInv, InTheList, SameProducers
<1>4. KindInv'
  BY DEF RegInv, KindInv, SameProducers, Passes
<1>5. \A u \in Threads : \A p \in DOMAIN prod : Has(u, p)' => Has(u, p)
  BY DEF Has, Obtains, Moves, Passes
<1>6. Exclusive'
  <2>1. ASSUME NEW v \in Threads, NEW u \in Threads, th'[v].tok # None, th'[v].tok = th'[u].tok
        PROVE  v = u
    BY <2>1 DEF RegInv, Exclusive, Moves, Free
  <2>2. \A v, u \in Threads : \A p \in DOMAIN prod' : Has(v, p)' /\ Has(u, p)' => v = u
    BY <1>5 DEF RegInv, Exclusive, SameProducers
  <2>3. ASSUME NEW k \in Tokens, NEW u \in Threads, tok[k].producer # None
        PROVE  ~Has(u, tok[k].producer)'
    BY <1>5, <2>3 DEF RegInv, Exclusive, TokenInv
  <2> QED
    BY <2>1, <2>2, <2>3 DEF RegInv, Exclusive
<1>7. TokensLinked'
  BY DEF RegInv, TokensLinked, At, SameProducers, Moves
<1> QED
  BY <1>1, <1>2, <1>3, <1>4, <1>6, <1>7 DEF RegInv

(* Positions at which a call has neither obtained a producer nor started   *)
(* to look for one in the list.                                            *)
InDequeue == {"measure", "score", "best", "reload", "each", "from", "rotate", "counting",
              "placing", "current", "onward", "search", "turn"}
Elsewhere == InHash \union InDequeue \union {"idle", "enqueue"}

(* A call moves to such a position, with the token it has or a free one.   *)
LEMMA ElsewhereReg ==
  ASSUME RegInv, NEW t \in Threads, NEW l, th' = [th EXCEPT ![t] = l],
         DOMAIN l = Fields, l.explicit \in BOOLEAN, l.pc \in Elsewhere,
         l.pc = "idle" => l.tok = None,
         l.pc \in InHash => l.p = None /\ ~l.explicit,
         l.tok \in {None, th[t].tok} \/ Free(l.tok),
         SameProducers, list' = list, tok' = tok, destroyed' = destroyed,
         \A u \in Threads : \A p : Mapped(u, p)' => Mapped(u, p),
         IsSeq(tables'), ~destroyed, th[t].pc # "deactivate"
  PROVE  RegInv'
<1>1. DOMAIN th = Threads
  BY DEF RegInv, Shape
<1>2. Moves(t) /\ th'[t] = l
  BY <1>1 DEF Moves
<1>3. Passes(t)
  BY <1>2 DEF Passes, Obtains, Elsewhere, InHash, InDequeue, Obtained
<1>4. ThreadInv(t)'
  BY <1>2 DEF ThreadInv, Elsewhere, InHash, InDequeue, Obtained, InList
<1>5. l.pc # "deactivate"
  BY DEF Elsewhere, InHash, InDequeue
<1> QED
  BY QuietReg, <1>2, <1>3, <1>4, <1>5 DEF Quiet

(* The fields of a thread outside any call.                                *)
LEMMA IdleFields ==
  ASSUME NEW m
  PROVE  /\ DOMAIN Idle(m) = Fields /\ Idle(m).pc = "idle" /\ Idle(m).tok = None
         /\ Idle(m).p = None /\ Idle(m).explicit = FALSE
BY DEF Idle, Fields

(* Calls and table steps that leave the producers alone, and those that    *)
(* count elements only, keep what is known of the producers.               *)
LEMMA SameProducersUnchanged ==
  ASSUME RegInv, prod' = prod
  PROVE  SameProducers
BY DEF RegInv, Shape, SameProducers

(* Elements leave a sub-queue.                                             *)
LEMMA SameProducersHanded ==
  ASSUME RegInv, NEW q, NEW n, Handed(q, n)
  PROVE  SameProducers
<1>1. DOMAIN prod' = DOMAIN prod /\ prod' = [i \in DOMAIN prod' |-> prod'[i]]
  BY DEF Handed
<1>2. IsSeq(prod')
  BY <1>1, SeqDomain DEF RegInv, Shape
<1>3. \A p \in DOMAIN prod : DOMAIN prod[p] = ProducerFields
  BY DEF RegInv, Shape
<1> QED
  BY <1>1, <1>2, <1>3 DEF SameProducers, Handed, ProducerFields

(* Elements enter one.                                                     *)
LEMMA SameProducersFilled ==
  ASSUME RegInv, NEW q, NEW n, prod' = [prod EXCEPT ![q].in = @ + n]
  PROVE  SameProducers
<1>1. DOMAIN prod' = DOMAIN prod /\ prod' = [i \in DOMAIN prod' |-> prod'[i]]
  OBVIOUS
<1>2. IsSeq(prod')
  BY <1>1, SeqDomain DEF RegInv, Shape
<1>3. \A p \in DOMAIN prod : DOMAIN prod[p] = ProducerFields
  BY DEF RegInv, Shape
<1> QED
  BY <1>1, <1>2, <1>3 DEF SameProducers, ProducerFields

(* Unchanged tables give the threads what they had.                        *)
LEMMA SameTables ==
  ASSUME RegInv, tables' = tables
  PROVE  IsSeq(tables') /\ \A u \in Threads : \A p : Mapped(u, p)' <=> Mapped(u, p)
BY DEF RegInv, Shape, Mapped, Slot

(* Only a thread in a call takes the steps of one.                         *)
LEMMA BusyAlive ==
  ASSUME RegInv, NEW t \in Threads, th[t].pc # "idle"
  PROVE  ~destroyed
BY DEF RegInv

(* What is known of a thread.                                              *)
LEMMA ThreadFields ==
  ASSUME RegInv, NEW t \in Threads
  PROVE  /\ DOMAIN th[t] = Fields /\ th[t].explicit \in BOOLEAN
         /\ th[t].pc \in InHash => th[t].p = None /\ ~th[t].explicit
         /\ th[t].pc = "idle" => th[t].tok = None
BY DEF RegInv, Shape, ThreadInv


(***************************************************************************)
(* Dequeues                                                                *)
(***************************************************************************)

(* A step of a dequeue leaves every producer to its owner: it may end the  *)
(* call, or go on with the token it has.                                   *)
LEMMA DequeueStepReg ==
  ASSUME RegInv, NEW t \in Threads, DequeueStep(t), Continues,
         UNCHANGED <<tok, nextExplicitConsumerId, globalExplicitConsumerOffset, hashes>>
  PROVE  RegInv'
<1> DEFINE Steps(l) == /\ th' = [th EXCEPT ![t] = l] /\ DOMAIN l = Fields
                       /\ l.explicit \in BOOLEAN /\ l.pc \in InDequeue \union {"idle"}
                       /\ l.pc = "idle" => l.tok = None
                       /\ l.tok \in {None, th[t].tok}
<1>1. ASSUME NEW l, Steps(l), th[t].pc \in InDequeue, SameProducers, list' = list
      PROVE  RegInv'
  <2>1. IsSeq(tables') /\ \A u \in Threads : \A p : Mapped(u, p)' => Mapped(u, p)
    BY SameTables DEF hashes
  <2>2. ~destroyed /\ th[t].pc # "deactivate"
    BY <1>1, BusyAlive DEF InDequeue
  <2>3. l.pc \in Elsewhere /\ (l.pc \in InHash => l.p = None /\ ~l.explicit)
    BY <1>1 DEF Elsewhere, InDequeue, InHash
  <2>4. tok' = tok /\ destroyed' = destroyed
    BY DEF Continues
  <2> QED
    BY <1>1, <2>1, <2>2, <2>3, <2>4, ElsewhereReg
<1>2. DOMAIN th[t] = Fields /\ th[t].explicit \in BOOLEAN
  BY ThreadFields
<1>3. ASSUME NEW m, th' = [th EXCEPT ![t] = Idle(m)] PROVE Steps(Idle(m))
  BY <1>3, IdleFields
<1>4. ASSUME NEW l, DOMAIN l = Fields, l.explicit = th[t].explicit, l.tok = th[t].tok,
             NEW pc \in InDequeue, Goto(t, l, pc)
      PROVE  Steps([l EXCEPT !.pc = pc])
  BY <1>2, <1>4 DEF Goto, Fields, InDequeue
<1>5. ASSUME NEW pc \in InDequeue, At(t, pc) PROVE th[t].pc \in InDequeue
  BY <1>5 DEF At
<1>6. ASSUME NEW l, l.explicit = th[t].explicit, l.tok = th[t].tok, DOMAIN l = Fields
      PROVE  /\ \A i, n : LET s == Seen(l, i, n) IN
                  s.explicit = th[t].explicit /\ s.tok = th[t].tok /\ DOMAIN s = Fields
             /\ LET s == NextPtr(l) IN
                  s.explicit = th[t].explicit /\ s.tok = th[t].tok /\ DOMAIN s = Fields
  BY <1>6 DEF Seen, NextPtr, Fields
<1> HIDE DEF Steps
<1>7. CASE MeasureTail(t)
  <2>1. SameProducers /\ list' = list
    BY <1>7, SameProducersUnchanged DEF MeasureTail, producers
  <2>2. th[t].pc \in InDequeue
    BY <1>7 DEF MeasureTail, At, InDequeue
  <2> DEFINE l == [th[t] EXCEPT !.at = prod[list[th[t].ptr]].in]
  <2>3. DOMAIN l = Fields /\ l.explicit = th[t].explicit /\ l.tok = th[t].tok
    BY <1>2 DEF Fields
  <2>4. Goto(t, l, "score") /\ "score" \in InDequeue
    BY <1>7 DEF MeasureTail, InDequeue
  <2> HIDE DEF l
  <2>5. Steps([l EXCEPT !.pc = "score"])
    BY <1>4, <2>3, <2>4
  <2> QED
    BY <1>1, <2>1, <2>2, <2>5
<1>8. CASE Score(t)
  <2>1. SameProducers /\ list' = list
    BY <1>8, SameProducersUnchanged DEF Score, producers
  <2>2. th[t].pc \in InDequeue
    BY <1>8 DEF Score, At, InDequeue
  <2>3. \E l : Steps(l)
    <3> DEFINE size == IF prod[list[th[t].ptr]].out < th[t].at
                       THEN th[t].at - prod[list[th[t].ptr]].out ELSE 0
               m == [Seen(th[t], th[t].ptr, size) EXCEPT !.count = 0]
               s == IF size = 0 THEN m
                    ELSE [m EXCEPT !.nonEmpty = @ + 1,
                                   !.best = IF size > th[t].bestSize THEN th[t].ptr ELSE @,
                                   !.bestSize = IF size > th[t].bestSize THEN size ELSE @]
    <3>1. \/ Goto(t, NextPtr(s), "measure") \/ Goto(t, s, "best") \/ ReturnEmpty(t, s)
      BY <1>8 DEF Score
    <3>2. DOMAIN m = Fields /\ m.explicit = th[t].explicit /\ m.tok = th[t].tok
      <4>1. LET x == Seen(th[t], th[t].ptr, size) IN
              x.explicit = th[t].explicit /\ x.tok = th[t].tok /\ DOMAIN x = Fields
        BY <1>2, <1>6
      <4> QED
        BY <4>1 DEF Fields
    <3> HIDE DEF m, size
    <3>3. DOMAIN s = Fields /\ s.explicit = th[t].explicit /\ s.tok = th[t].tok
      BY <3>2 DEF Fields
    <3> HIDE DEF s
    <3>4. LET x == NextPtr(s) IN
            x.explicit = th[t].explicit /\ x.tok = th[t].tok /\ DOMAIN x = Fields
      BY <1>6, <3>3
    <3>5. "measure" \in InDequeue /\ "best" \in InDequeue
      BY DEF InDequeue
    <3>6. CASE Goto(t, NextPtr(s), "measure")
      BY <1>4, <3>4, <3>5, <3>6
    <3>7. CASE Goto(t, s, "best")
      BY <1>4, <3>3, <3>5, <3>7
    <3>8. CASE ReturnEmpty(t, s)
      BY <1>3, <3>8 DEF ReturnEmpty
    <3> QED
      BY <3>1, <3>6, <3>7, <3>8
  <2> QED
    BY <1>1, <2>1, <2>2, <2>3
<1>9. CASE TryBest(t)
  <2>1. PICK n : /\ Handed(list[th[t].best], n)
                 /\ Return(t) \/ Goto(t, Seen(th[t], th[t].best, 0), "reload")
    BY <1>9 DEF TryBest
  <2>2. SameProducers /\ list' = list
    BY <1>9, <2>1, SameProducersHanded DEF TryBest
  <2>3. th[t].pc \in InDequeue /\ "reload" \in InDequeue
    BY <1>9 DEF TryBest, At, InDequeue
  <2>4. \E l : Steps(l)
    <3> DEFINE s == Seen(th[t], th[t].best, 0)
    <3>1. DOMAIN s = Fields /\ s.explicit = th[t].explicit /\ s.tok = th[t].tok
      BY <1>2, <1>6
    <3>2. Return(t) \/ Goto(t, s, "reload")
      BY <2>1
    <3> HIDE DEF s
    <3>3. CASE Return(t)
      BY <1>3, <3>3 DEF Return
    <3>4. CASE Goto(t, s, "reload")
      BY <1>4, <2>3, <3>1, <3>4
    <3> QED
      BY <3>2, <3>3, <3>4
  <2> QED
    BY <1>1, <2>2, <2>3, <2>4
<1>10. CASE Reload(t)
  <2>1. SameProducers /\ list' = list
    BY <1>10, SameProducersUnchanged DEF Reload, producers
  <2>2. th[t].pc \in InDequeue
    BY <1>10 DEF Reload, At, InDequeue
  <2> DEFINE l == [th[t] EXCEPT !.ptr = Len(list)]
  <2>3. DOMAIN l = Fields /\ l.explicit = th[t].explicit /\ l.tok = th[t].tok
    BY <1>2 DEF Fields
  <2>4. Goto(t, l, "each") /\ "each" \in InDequeue
    BY <1>10 DEF Reload, InDequeue
  <2> HIDE DEF l
  <2>5. Steps([l EXCEPT !.pc = "each"])
    BY <1>4, <2>3, <2>4
  <2> QED
    BY <1>1, <2>1, <2>2, <2>5
<1>11. CASE TryEach(t)
  <2>1. PICK n : /\ Handed(list[th[t].ptr], n)
                 /\ LET s == Seen(th[t], th[t].ptr, n) IN
                    Finish(t, s) \/ Goto(t, NextPtr(s), "each")
    BY <1>11 DEF TryEach
  <2>2. SameProducers /\ list' = list
    BY <1>11, <2>1, SameProducersHanded DEF TryEach
  <2>3. th[t].pc \in InDequeue /\ "each" \in InDequeue
    BY <1>11 DEF TryEach, At, InDequeue
  <2>4. \E l : Steps(l)
    <3> DEFINE s == Seen(th[t], th[t].ptr, n)
    <3>1. DOMAIN s = Fields /\ s.explicit = th[t].explicit /\ s.tok = th[t].tok
      BY <1>2, <1>6
    <3>2. Finish(t, s) \/ Goto(t, NextPtr(s), "each")
      BY <2>1
    <3> HIDE DEF s
    <3>3. CASE Finish(t, s)
      BY <1>3, <3>3 DEF Finish, Return, ReturnEmpty
    <3>4. CASE Goto(t, NextPtr(s), "each")
      BY <1>4, <1>6, <2>3, <3>1, <3>4
    <3> QED
      BY <3>2, <3>3, <3>4
  <2> QED
    BY <1>1, <2>2, <2>3, <2>4
<1>12. CASE TryFrom(t)
  <2>1. SameProducers /\ list' = list
    BY <1>12, SameProducersHanded DEF TryFrom
  <2>2. th[t].pc \in InDequeue
    BY <1>12 DEF TryFrom, At, InDequeue
  <2>3. \E l : Steps(l)
    BY <1>3, <1>12 DEF TryFrom, Return
  <2> QED
    BY <1>1, <2>1, <2>2, <2>3
<1>13. CASE Rotate(t)
  <2>1. SameProducers /\ list' = list
    BY <1>13, SameProducersUnchanged DEF Rotate, producers
  <2>2. th[t].pc \in InDequeue
    BY <1>13 DEF Rotate, At, InDequeue
  <2> DEFINE a == [th[t] EXCEPT !.tail = Len(list)]
             b == [th[t] EXCEPT !.at = producerCount]
  <2>3. /\ DOMAIN a = Fields /\ a.explicit = th[t].explicit /\ a.tok = th[t].tok
        /\ DOMAIN b = Fields /\ b.explicit = th[t].explicit /\ b.tok = th[t].tok
    BY <1>2 DEF Fields
  <2>4. ReturnEmpty(t, th[t]) \/ Goto(t, a, "counting") \/ Goto(t, b, "placing")
    BY <1>13 DEF Rotate
  <2>5. "counting" \in InDequeue /\ "placing" \in InDequeue
    BY DEF InDequeue
  <2> HIDE DEF a, b
  <2>6. \E l : Steps(l)
    <3>1. CASE ReturnEmpty(t, th[t])
      BY <1>3, <3>1 DEF ReturnEmpty
    <3>2. CASE Goto(t, a, "counting")
      BY <1>4, <2>3, <2>5, <3>2
    <3>3. CASE Goto(t, b, "placing")
      BY <1>4, <2>3, <2>5, <3>3
    <3> QED
      BY <2>4, <3>1, <3>2, <3>3
  <2> QED
    BY <1>1, <2>1, <2>2, <2>6
<1>14. CASE Place(t)
  <2>1. SameProducers /\ list' = list
    BY <1>14, SameProducersUnchanged DEF Place, producers
  <2>2. th[t].pc \in InDequeue
    BY <1>14 DEF Place, At, InDequeue
  <2> DEFINE l == [th[t] EXCEPT !.at = 0]
  <2>3. DOMAIN l = Fields /\ l.explicit = th[t].explicit /\ l.tok = th[t].tok
    BY <1>2 DEF Fields
  <2>4. Goto(t, l, "current") /\ "current" \in InDequeue
    BY <1>14 DEF Place, InDequeue
  <2> HIDE DEF l
  <2>5. Steps([l EXCEPT !.pc = "current"])
    BY <1>4, <2>3, <2>4
  <2> QED
    BY <1>1, <2>1, <2>2, <2>5
<1>15. CASE TryCurrent(t)
  <2> DEFINE c == ctok[th[t].tok].current
  <2>1. PICK n : /\ Handed(list[c], n)
                 /\ \/ Return(t) \/ Goto(t, Seen(th[t], c, n), "onward")
                    \/ Goto(t, Seen(th[t], c, n), "turn")
    BY <1>15 DEF TryCurrent
  <2>2. SameProducers /\ list' = list
    BY <1>15, <2>1, SameProducersHanded DEF TryCurrent
  <2>3. th[t].pc \in InDequeue /\ "onward" \in InDequeue /\ "turn" \in InDequeue
    BY <1>15 DEF TryCurrent, At, InDequeue
  <2>4. \E l : Steps(l)
    <3> DEFINE s == Seen(th[t], c, n)
    <3>1. DOMAIN s = Fields /\ s.explicit = th[t].explicit /\ s.tok = th[t].tok
      BY <1>2, <1>6
    <3>2. Return(t) \/ Goto(t, s, "onward") \/ Goto(t, s, "turn")
      BY <2>1
    <3> HIDE DEF s
    <3>3. CASE Return(t)
      BY <1>3, <3>3 DEF Return
    <3>4. CASE Goto(t, s, "onward")
      BY <1>4, <2>3, <3>1, <3>4
    <3>5. CASE Goto(t, s, "turn")
      BY <1>4, <2>3, <3>1, <3>5
    <3> QED
      BY <3>2, <3>3, <3>4, <3>5
  <2> QED
    BY <1>1, <2>2, <2>3, <2>4
<1>16. CASE LoadTail(t)
  <2>1. SameProducers /\ list' = list
    BY <1>16, SameProducersUnchanged DEF LoadTail, producers
  <2>2. th[t].pc \in InDequeue
    BY <1>16 DEF LoadTail, At, InDequeue
  <2> DEFINE l == [th[t] EXCEPT !.tail = Len(list),
                                !.ptr = Onward(ctok[th[t].tok].current, 1, Len(list))]
  <2>3. DOMAIN l = Fields /\ l.explicit = th[t].explicit /\ l.tok = th[t].tok
    BY <1>2 DEF Fields
  <2>4. Goto(t, l, "search") /\ "search" \in InDequeue
    BY <1>16 DEF LoadTail, InDequeue
  <2> HIDE DEF l
  <2>5. Steps([l EXCEPT !.pc = "search"])
    BY <1>4, <2>3, <2>4
  <2> QED
    BY <1>1, <2>1, <2>2, <2>5
<1>17. CASE Search(t)
  <2>1. th[t].pc \in InDequeue /\ list' = list /\ "search" \in InDequeue
    BY <1>17 DEF Search, At, InDequeue
  <2>2. CASE th[t].ptr = ctok[th[t].tok].current
    <3>1. Finish(t, th[t]) /\ prod' = prod
      BY <1>17, <2>2 DEF Search
    <3>2. \E l : Steps(l)
      BY <1>3, <3>1 DEF Finish, Return, ReturnEmpty
    <3>3. SameProducers
      BY <3>1, SameProducersUnchanged
    <3> QED
      BY <1>1, <2>1, <3>2, <3>3
  <2>3. CASE th[t].ptr # ctok[th[t].tok].current
    <3>1. PICK n : /\ Handed(list[th[t].ptr], n)
                   /\ LET s == [Seen(th[t], th[t].ptr, n) EXCEPT
                                  !.ptr = Onward(th[t].ptr, 1, th[t].tail)] IN
                      Return(t) \/ Goto(t, s, "search")
      BY <1>17, <2>3 DEF Search
    <3>2. SameProducers
      BY <3>1, SameProducersHanded
    <3> DEFINE r == Seen(th[t], th[t].ptr, n)
               s == [r EXCEPT !.ptr = Onward(th[t].ptr, 1, th[t].tail)]
    <3>3. DOMAIN r = Fields /\ r.explicit = th[t].explicit /\ r.tok = th[t].tok
      BY <1>2, <1>6
    <3>4. Return(t) \/ Goto(t, s, "search")
      BY <3>1
    <3> HIDE DEF r
    <3>5. DOMAIN s = Fields /\ s.explicit = th[t].explicit /\ s.tok = th[t].tok
      BY <3>3 DEF Fields
    <3> HIDE DEF s
    <3>6. \E l : Steps(l)
      <4>1. CASE Return(t)
        BY <1>3, <4>1 DEF Return
      <4>2. CASE Goto(t, s, "search")
        BY <1>4, <2>1, <3>5, <4>2
      <4> QED
        BY <3>4, <4>1, <4>2
    <3> QED
      BY <1>1, <2>1, <3>2, <3>6
  <2> QED
    BY <2>2, <2>3
<1> QED
  BY <1>7, <1>8, <1>9, <1>10, <1>11, <1>12, <1>13, <1>14, <1>15, <1>16, <1>17 DEF DequeueStep

(* A thread between two calls starts one.                                  *)
LEMMA Calls ==
  ASSUME RegInv, NEW t \in Threads, NEW kind, Call(t, kind)
  PROVE  /\ th[t].pc = "idle" /\ th[t].tok = None /\ ~destroyed /\ destroyed' = destroyed
         /\ DOMAIN th = Threads
BY ThreadFields DEF Call, At, RegInv, Shape

(* A call of a dequeue takes at most a token that is free.                 *)
LEMMA DequeueCallReg ==
  ASSUME RegInv, NEW t \in Threads, DequeueCall(t),
         UNCHANGED <<tok, nextExplicitConsumerId, globalExplicitConsumerOffset, hashes>>
  PROVE  RegInv'
<1>1. ASSUME NEW max PROVE LET b == Begin(max) IN
        /\ DOMAIN b = Fields /\ b.explicit = FALSE /\ b.tok = None
        /\ \A p : LET l == [b EXCEPT !.at = p] IN
             DOMAIN l = Fields /\ l.explicit = FALSE /\ l.tok = None
  BY IdleFields DEF Begin, Fields
<1>2. ASSUME Call(t, "dequeue"), UNCHANGED <<producers, ctok>>,
             NEW l, DOMAIN l = Fields, l.explicit = FALSE, l.tok = None \/ Free(l.tok),
             NEW pc \in InDequeue, Goto(t, l, pc)
      PROVE  RegInv'
  <2>1. SameProducers /\ list' = list
    BY <1>2, SameProducersUnchanged DEF producers
  <2>2. IsSeq(tables') /\ \A u \in Threads : \A p : Mapped(u, p)' => Mapped(u, p)
    BY SameTables DEF hashes
  <2>3. th[t].pc = "idle" /\ ~destroyed /\ destroyed' = destroyed
    BY <1>2, Calls
  <2> DEFINE m == [l EXCEPT !.pc = pc]
  <2>4. DOMAIN m = Fields /\ m.explicit = FALSE /\ m.tok = l.tok /\ m.pc = pc
    BY <1>2 DEF Fields
  <2>5. th' = [th EXCEPT ![t] = m]
    BY <1>2 DEF Goto
  <2> HIDE DEF m
  <2>6. m.pc \in Elsewhere /\ m.pc # "idle" /\ m.pc \notin InHash
    BY <1>2, <2>4 DEF InDequeue, Elsewhere, InHash
  <2> QED
    BY <1>2, <2>1, <2>2, <2>3, <2>4, <2>5, <2>6, ElsewhereReg
<1>3. ASSUME Call(t, "dequeue"), UNCHANGED <<producers, ctok>>, NEW l, ReturnEmpty(t, l)
      PROVE  RegInv'
  <2>1. SameProducers /\ list' = list
    BY <1>3, SameProducersUnchanged DEF producers
  <2>2. IsSeq(tables') /\ \A u \in Threads : \A p : Mapped(u, p)' => Mapped(u, p)
    BY SameTables DEF hashes
  <2>3. th[t].pc = "idle" /\ ~destroyed /\ destroyed' = destroyed
    BY <1>3, Calls
  <2>4. PICK m : th' = [th EXCEPT ![t] = Idle(m)]
    BY <1>3 DEF ReturnEmpty
  <2>5. DOMAIN Idle(m) = Fields /\ Idle(m).explicit = FALSE /\ Idle(m).tok = None
        /\ Idle(m).pc = "idle"
    BY IdleFields
  <2>6. Idle(m).pc \in Elsewhere /\ Idle(m).pc \notin InHash
    BY <2>5 DEF Elsewhere, InHash
  <2> QED
    BY <2>1, <2>2, <2>3, <2>4, <2>5, <2>6, ElsewhereReg
<1>4. {"measure", "each", "from", "rotate", "current"} \subseteq InDequeue
  BY DEF InDequeue
<1>5. CASE TryDequeue(t)
  <2>1. Call(t, "dequeue") /\ UNCHANGED <<producers, ctok>>
    BY <1>5 DEF TryDequeue
  <2>2. ReturnEmpty(t, Begin(1)) \/ Goto(t, Begin(1), "measure")
    BY <1>5 DEF TryDequeue
  <2> QED
    BY <1>1, <1>2, <1>3, <1>4, <2>1, <2>2
<1>6. ASSUME NEW max, TryDequeueBulk(t, max) PROVE RegInv'
  <2>1. Call(t, "dequeue") /\ UNCHANGED <<producers, ctok>>
    BY <1>6 DEF TryDequeueBulk
  <2>2. ReturnEmpty(t, Begin(max)) \/ Goto(t, Begin(max), "each")
    BY <1>6 DEF TryDequeueBulk
  <2> QED
    BY <1>1, <1>2, <1>3, <1>4, <2>1, <2>2
<1>7. ASSUME NEW max, NEW k, DequeueFrom(t, k, max) PROVE RegInv'
  <2>1. Call(t, "dequeue") /\ UNCHANGED <<producers, ctok>>
    BY <1>7 DEF DequeueFrom
  <2> DEFINE l == [Begin(max) EXCEPT !.at = tok[k].producer]
  <2>2. DOMAIN l = Fields /\ l.explicit = FALSE /\ l.tok = None
    BY <1>1
  <2>3. Goto(t, l, "from")
    BY <1>7 DEF DequeueFrom
  <2> HIDE DEF l
  <2> QED
    BY <1>2, <1>4, <2>1, <2>2, <2>3
<1>8. ASSUME NEW max, NEW c, NEW single, TryDequeueToken(t, c, max, single) PROVE RegInv'
  <2>1. Call(t, "dequeue") /\ UNCHANGED <<producers, ctok>> /\ Free(c)
    BY <1>8 DEF TryDequeueToken
  <2> DEFINE l == [Begin(max) EXCEPT !.tok = c, !.single = single]
  <2>2. DOMAIN l = Fields /\ l.explicit = FALSE /\ l.tok = c
    <3>1. PICK b : b = Begin(max)
      OBVIOUS
    <3>2. DOMAIN b = Fields /\ b.explicit = FALSE
      BY <1>1, <3>1
    <3>3. l = [b EXCEPT !.tok = c, !.single = single]
      BY <3>1
    <3> QED
      BY ONLY <3>2, <3>3 DEF Fields
  <2>3. Goto(t, l, "rotate") \/ Goto(t, l, "current")
    BY <1>8 DEF TryDequeueToken
  <2> HIDE DEF l
  <2> QED
    BY <1>2, <1>4, <2>1, <2>2, <2>3
<1> QED
  BY <1>5, <1>6, <1>7, <1>8 DEF DequeueCall

(* The last step of a dequeue whose quota is used up.                      *)
LEMMA TurnReg ==
  ASSUME RegInv, NEW t \in Threads, Turn(t)
  PROVE  RegInv'
<1>1. SameProducers /\ list' = list /\ tok' = tok /\ destroyed' = destroyed
  BY SameProducersUnchanged DEF Turn, producers, tokens, Continues
<1>2. IsSeq(tables') /\ \A u \in Threads : \A p : Mapped(u, p)' => Mapped(u, p)
  BY SameTables DEF Turn, hashes
<1>3. th[t].pc = "turn" /\ ~destroyed
  BY BusyAlive DEF Turn, At
<1>4. th' = [th EXCEPT ![t] = Idle({})]
  BY DEF Turn, Return
<1>5. PICK l : l = Idle({})
  OBVIOUS
<1>6. DOMAIN l = Fields /\ l.explicit = FALSE /\ l.tok = None /\ l.pc = "idle"
  BY <1>5, IdleFields
<1>7. l.pc \in Elsewhere /\ l.pc \notin InHash
  BY <1>6 DEF Elsewhere, InHash
<1> QED
  BY <1>1, <1>2, <1>3, <1>4, <1>5, <1>6, <1>7, ElsewhereReg

(***************************************************************************)
(* get_or_add_implicit_producer                                            *)
(***************************************************************************)

(* A set of table numbers has a largest one: the least distance from n.    *)
LEMMA Largest ==
  ASSUME NEW n \in Nat, NEW S, S \subseteq 1 .. n, S # {}
  PROVE  \E x \in S : \A y \in S : y <= x
<1> DEFINE R == {p \in Nat \X Nat : p[1] < p[2]}
           I == {x \in Nat : n - x \in S}
<1>1. IsWellFoundedOn(R, Nat)
  <2>1. R = OpToRel(<, Nat) BY Zenon DEF OpToRel
  <2> QED BY <2>1, NatLessThanWellFounded, Zenon
<1>2. I \subseteq Nat /\ I # {}
  <2>1. PICK y \in S : TRUE
    OBVIOUS
  <2>2. n - y \in Nat /\ n - (n - y) = y
    OBVIOUS
  <2>3. n - y \in I
    BY <2>2
  <2> QED BY <2>3
<1>3. PICK x \in I : \A y \in I : ~(<<y, x>> \in R)
  <2> HIDE DEF R, I
  <2> QED BY <1>1, <1>2, WFMin, Zenon
<1>4. ASSUME NEW y \in S PROVE y <= n - x
  <2>1. n - y \in Nat /\ n - (n - y) = y /\ y \in Nat
    OBVIOUS
  <2>2. n - y \in I
    BY <2>1
  <2>3. <<n - y, x>> \in Nat \X Nat /\ <<n - y, x>>[1] = n - y /\ <<n - y, x>>[2] = x
    BY <2>1
  <2>4. n - y < x => <<n - y, x>> \in R
    BY <2>3
  <2>5. ~(n - y < x)
    BY <1>3, <2>2, <2>4
  <2> QED BY <2>1, <2>5
<1> QED BY <1>4

(* inner_enqueue without a token: the producer found in an older table is  *)
(* the one this thread is mapped to.                                       *)
LEMMA EnqueueImplicitReg ==
  ASSUME RegInv, NEW t \in Threads, NEW n, EnqueueImplicit(t, n)
  PROVE  RegInv'
<1>1. th[t].pc = "idle" /\ ~destroyed /\ destroyed' = destroyed /\ DOMAIN th = Threads
  BY Calls DEF EnqueueImplicit
<1>2. SameProducers /\ list' = list /\ tok' = tok
  BY SameProducersUnchanged DEF EnqueueImplicit, producers, tokens
<1>3. IsSeq(tables') /\ \A u \in Threads : \A p : Mapped(u, p)' <=> Mapped(u, p)
  BY SameTables DEF EnqueueImplicit, hashes
<1> DEFINE h == CHOOSE h \in KnownIn(t) : \A g \in KnownIn(t) : g <= h
           l == [Idle({}) EXCEPT !.main = Len(tables), !.max = n, !.at = Hash[t]]
           q == tables[h][CHOOSE i \in Slot(t, h) : TRUE].value
           f == [l EXCEPT !.p = q]
<1>4. /\ DOMAIN l = Fields /\ l.explicit = FALSE /\ l.tok = None /\ l.p = None
  <2>1. PICK m : m = Idle({})
    OBVIOUS
  <2>2. DOMAIN m = Fields /\ m.explicit = FALSE /\ m.tok = None /\ m.p = None
    BY <2>1, IdleFields
  <2>3. l = [m EXCEPT !.main = Len(tables), !.max = n, !.at = Hash[t]]
    BY <2>1
  <2> QED
    BY ONLY <2>2, <2>3 DEF Fields
<1>5. \/ KnownIn(t) = {} /\ Goto(t, l, "count")
      \/ KnownIn(t) # {} /\ (Goto(t, f, "enqueue") \/ Goto(t, f, "probe"))
  BY DEF EnqueueImplicit
<1>6. KnownIn(t) # {} => Mapped(t, q)
  <2>1. SUFFICES ASSUME KnownIn(t) # {} PROVE Mapped(t, q)
    OBVIOUS
  <2>2. Len(tables) \in Nat /\ DOMAIN tables = 1 .. Len(tables)
    BY SeqLen DEF RegInv, Shape
  <2>3. \E x \in KnownIn(t) : \A y \in KnownIn(t) : y <= x
    <3>1. KnownIn(t) \subseteq 1 .. Len(tables)
      BY <2>2 DEF KnownIn
    <3> QED
      BY <2>1, <2>2, <3>1, Largest, Zenon
  <2>4. h \in KnownIn(t)
    BY <2>3, Zenon
  <2> HIDE DEF h
  <2>5. h \in DOMAIN tables /\ Slot(t, h) # {}
    BY <2>4 DEF KnownIn
  <2> QED
    BY <2>5 DEF Mapped
<1> HIDE DEF l, h, q
<1>7. CASE KnownIn(t) = {}
  <2> DEFINE m == [l EXCEPT !.pc = "count"]
  <2>1. DOMAIN m = Fields /\ m.explicit = FALSE /\ m.tok = None /\ m.pc = "count" /\ m.p = None
    BY <1>4 DEF Fields
  <2>2. th' = [th EXCEPT ![t] = m]
    BY <1>5, <1>7 DEF Goto
  <2> HIDE DEF m
  <2>3. m.pc \in Elsewhere /\ m.pc # "idle"
    BY <2>1 DEF Elsewhere, InHash
  <2> QED
    BY <1>1, <1>2, <1>3, <2>1, <2>2, <2>3, ElsewhereReg
<1>8. CASE KnownIn(t) # {} /\ Goto(t, f, "enqueue")
  <2> DEFINE m == [f EXCEPT !.pc = "enqueue"]
  <2>1. DOMAIN m = Fields /\ m.explicit = FALSE /\ m.tok = None /\ m.pc = "enqueue"
    BY <1>4 DEF Fields
  <2>2. th' = [th EXCEPT ![t] = m]
    BY <1>8 DEF Goto
  <2> HIDE DEF m
  <2>3. m.pc \in Elsewhere /\ m.pc # "idle" /\ m.pc \notin InHash
    BY <2>1 DEF Elsewhere, InHash
  <2> QED
    BY <1>1, <1>2, <1>3, <2>1, <2>2, <2>3, ElsewhereReg
<1>9. CASE KnownIn(t) # {} /\ Goto(t, f, "probe")
  <2> DEFINE m == [f EXCEPT !.pc = "probe"]
  <2>1. DOMAIN m = Fields /\ m.explicit = FALSE /\ m.tok = None /\ m.pc = "probe" /\ m.p = q
    BY <1>4 DEF Fields
  <2>2. th' = [th EXCEPT ![t] = m]
    BY <1>9 DEF Goto
  <2> HIDE DEF m
  <2>3. Moves(t) /\ th'[t] = m
    BY <1>1, <2>1, <2>2 DEF Moves
  <2>4. q \in DOMAIN prod /\ prod[q].explicit = FALSE /\ ~prod[q].inactive
    BY <1>6, <1>9 DEF RegInv, KindInv, Shape
  <2>5. ThreadInv(t)'
    BY <1>2, <2>1, <2>3, <2>4 DEF ThreadInv, InHash, InList, Obtained, SameProducers
  <2>6. Passes(t)
    BY <1>3, <1>6, <1>9, <2>1, <2>3 DEF Passes, Obtains
  <2> QED
    BY <1>1, <1>2, <1>3, <2>1, <2>3, <2>5, <2>6, QuietReg DEF Quiet
<1> QED
  BY <1>5, <1>7, <1>8, <1>9

(* Counting, resizing and choosing a table only move the thread, an added  *)
(* table is empty, and a probe enters the producer the thread has.         *)
LEMMA HashReg ==
  ASSUME RegInv, NEW t \in Threads, HashStep(t)
  PROVE  RegInv'
<1>1. DOMAIN th = Threads /\ DOMAIN th[t] = Fields /\ th[t].explicit \in BOOLEAN
      /\ (th[t].pc \in InHash => th[t].p = None /\ ~th[t].explicit)
  BY ThreadFields DEF RegInv, Shape
<1>2. SameProducers /\ list' = list /\ tok' = tok /\ destroyed' = destroyed
  BY SameProducersUnchanged DEF HashStep, producers, tokens, Continues
<1>3. Len(list) \in Nat
  BY SeqLen DEF RegInv, Shape
<1>4. ASSUME NEW l, DOMAIN l = Fields, l.p = None, l.explicit = FALSE, l.tok = th[t].tok,
             th[t].pc \in InHash, NEW pc \in InHash, Goto(t, l, pc), IsSeq(tables'),
             \A u \in Threads : \A p : Mapped(u, p)' => Mapped(u, p)
      PROVE  RegInv'
  <2> DEFINE m == [l EXCEPT !.pc = pc]
  <2>1. DOMAIN m = Fields /\ m.explicit = FALSE /\ m.tok = th[t].tok /\ m.pc = pc /\ m.p = None
    BY <1>4 DEF Fields
  <2>2. th' = [th EXCEPT ![t] = m]
    BY <1>4 DEF Goto
  <2> HIDE DEF m
  <2>3. m.pc \in Elsewhere /\ m.pc # "idle"
    BY <1>4, <2>1 DEF Elsewhere, InHash
  <2>4. ~destroyed /\ th[t].pc # "deactivate"
    BY <1>4, BusyAlive DEF InHash
  <2> QED
    BY <1>2, <1>4, <2>1, <2>2, <2>3, <2>4, ElsewhereReg
<1>6. {"count", "resize", "resizing", "unlock", "fail", "choose"} \subseteq InHash
  BY DEF InHash
<1>7. CASE CountUp(t)
  <2>1. IsSeq(tables') /\ \A u \in Threads : \A p : Mapped(u, p)' => Mapped(u, p)
    BY <1>7, SameTables DEF CountUp
  <2>2. th[t].pc \in InHash
    BY <1>7 DEF CountUp, At, InHash
  <2> DEFINE l == [th[t] EXCEPT !.newCount = implicitProducerHashCount + 1]
  <2>3. DOMAIN l = Fields /\ l.p = None /\ l.explicit = FALSE /\ l.tok = th[t].tok
    BY <1>1, <2>2 DEF Fields
  <2>4. Goto(t, l, "resize")
    BY <1>7 DEF CountUp
  <2> HIDE DEF l
  <2> QED
    BY <1>4, <1>6, <2>1, <2>2, <2>3, <2>4
<1>8. CASE TryResize(t)
  <2>1. IsSeq(tables') /\ \A u \in Threads : \A p : Mapped(u, p)' => Mapped(u, p)
    BY <1>8, SameTables DEF TryResize
  <2>2. th[t].pc \in InHash
    BY <1>8 DEF TryResize, At, InHash
  <2>3. th[t].p = None /\ th[t].explicit = FALSE
    BY <1>1, <2>2
  <2>4. Goto(t, th[t], "resizing") \/ Goto(t, th[t], "choose")
    BY <1>8 DEF TryResize
  <2> QED
    BY <1>1, <1>4, <1>6, <2>1, <2>2, <2>3, <2>4
<1>9. CASE Resize(t)
  <2>1. th[t].pc \in InHash
    BY <1>9 DEF Resize, At, InHash
  <2> DEFINE l == [th[t] EXCEPT !.main = Len(tables)]
             k == [l EXCEPT !.main = Len(tables) + 1]
  <2>2. /\ DOMAIN l = Fields /\ l.p = None /\ l.explicit = FALSE /\ l.tok = th[t].tok
        /\ DOMAIN k = Fields /\ k.p = None /\ k.explicit = FALSE /\ k.tok = th[t].tok
    BY <1>1, <2>1 DEF Fields
  <2>3. PICK c : \/ tables' = Append(tables, EmptyTable(c)) /\ Goto(t, k, "unlock")
                 \/ tables' = tables /\ (Goto(t, l, "fail") \/ Goto(t, l, "unlock"))
    BY <1>9 DEF Resize
  <2> HIDE DEF k, l
  <2>4. CASE tables' = tables /\ (Goto(t, l, "fail") \/ Goto(t, l, "unlock"))
    <3>1. IsSeq(tables') /\ \A u \in Threads : \A p : Mapped(u, p)' => Mapped(u, p)
      BY <2>4, SameTables
    <3> QED
      BY <1>4, <1>6, <2>1, <2>2, <2>4, <3>1
  <2>5. CASE tables' = Append(tables, EmptyTable(c)) /\ Goto(t, k, "unlock")
    <3>1. IsSeq(tables) /\ Len(tables) \in Nat /\ DOMAIN tables = 1 .. Len(tables)
      BY SeqLen DEF RegInv, Shape
    <3>2. /\ IsSeq(tables') /\ DOMAIN tables' = 1 .. Len(tables) + 1
          /\ tables'[Len(tables) + 1] = EmptyTable(c)
          /\ \A i \in DOMAIN tables : tables'[i] = tables[i]
      <4>1. PICK e : e = EmptyTable(c)
        OBVIOUS
      <4>2. tables' = Append(tables, e)
        BY <2>5, <4>1
      <4>3. IsSeq(tables)
        BY <3>1
      <4>4. LET q == Append(tables, e) IN
            /\ IsSeq(q) /\ Len(q) = Len(tables) + 1 /\ DOMAIN q = 1 .. Len(tables) + 1
            /\ q[Len(tables) + 1] = e
            /\ \A i \in DOMAIN tables : i \in DOMAIN q /\ q[i] = tables[i]
        BY ONLY <4>3, SeqAppend
      <4> QED
        BY ONLY <4>1, <4>2, <4>4
    <3>3. \A i \in DOMAIN EmptyTable(c) : EmptyTable(c)[i].key = None
      BY DEF EmptyTable
    <3>4. ASSUME NEW u \in Threads, NEW p, Mapped(u, p)' PROVE Mapped(u, p)
      <4>1. PICK h, i : /\ h \in DOMAIN tables' /\ i \in DOMAIN tables'[h]
                        /\ tables'[h][i].key = u /\ tables'[h][i].value = p
        BY <3>4 DEF Mapped, Slot
      <4>2. u # None
        BY RegistryAssumption
      <4>3. h # Len(tables) + 1
        BY <3>2, <3>3, <4>1, <4>2
      <4>4. h \in DOMAIN tables
        BY <3>1, <3>2, <4>1, <4>3
      <4>5. tables'[h] = tables[h]
        BY <3>2, <4>4
      <4> QED
        BY <4>1, <4>4, <4>5 DEF Mapped, Slot
    <3> QED
      BY <1>4, <1>6, <2>1, <2>2, <2>5, <3>2, <3>4
  <2> QED
    BY <2>3, <2>4, <2>5
<1>10. CASE Unlock(t)
  <2>1. IsSeq(tables') /\ \A u \in Threads : \A p : Mapped(u, p)' => Mapped(u, p)
    BY <1>10, SameTables DEF Unlock
  <2>2. th[t].pc \in InHash
    BY <1>10 DEF Unlock, At, InHash
  <2>3. th[t].p = None /\ th[t].explicit = FALSE
    BY <1>1, <2>2
  <2>4. Goto(t, th[t], "choose") \/ Return(t)
    BY <1>10 DEF Unlock
  <2>5. CASE Return(t)
    <3>1. PICK l : l = Idle({})
      OBVIOUS
    <3>2. DOMAIN l = Fields /\ l.explicit = FALSE /\ l.tok = None /\ l.pc = "idle"
      BY <3>1, IdleFields
    <3>3. l.pc \in Elsewhere /\ l.pc \notin InHash
      BY <3>2 DEF Elsewhere, InHash
    <3>4. th' = [th EXCEPT ![t] = l]
      BY <2>5, <3>1 DEF Return
    <3>5. ~destroyed /\ th[t].pc # "deactivate"
      BY <2>2, BusyAlive DEF InHash
    <3> QED
      BY <1>2, <2>1, <3>2, <3>3, <3>4, <3>5, ElsewhereReg
  <2> QED
    BY <1>1, <1>4, <1>6, <2>1, <2>2, <2>3, <2>4, <2>5
<1>11. CASE ChooseTable(t)
  <2>1. IsSeq(tables') /\ \A u \in Threads : \A p : Mapped(u, p)' => Mapped(u, p)
    BY <1>11, SameTables DEF ChooseTable, hashes
  <2>2. th[t].pc \in InHash /\ th[t].pc = "choose"
    BY <1>11 DEF ChooseTable, At, InHash
  <2> DEFINE l == [th[t] EXCEPT !.main = Len(tables)]
             k == [th[t] EXCEPT !.ptr = Len(list)]
             m == [k EXCEPT !.pc = "scan"]
  <2>3. /\ DOMAIN l = Fields /\ l.p = None /\ l.explicit = FALSE /\ l.tok = th[t].tok
        /\ DOMAIN m = Fields /\ m.p = None /\ m.explicit = FALSE /\ m.tok = th[t].tok
        /\ m.pc = "scan" /\ m.ptr = Len(list)
    BY <1>1, <2>2 DEF Fields
  <2>4. Goto(t, l, "resize") \/ th' = [th EXCEPT ![t] = m]
    BY <1>11 DEF ChooseTable, Goto
  <2> HIDE DEF l, m
  <2>5. CASE Goto(t, l, "resize")
    BY <1>4, <1>6, <2>1, <2>2, <2>3, <2>5
  <2>6. CASE th' = [th EXCEPT ![t] = m]
    <3>1. Moves(t) /\ th'[t] = m
      BY <1>1, <2>3, <2>6 DEF Moves
    <3>2. ThreadInv(t)'
      <4>1. m.ptr \in 0 .. Len(list')
        BY <1>2, <1>3, <2>3
      <4> QED
        BY <2>3, <3>1, <4>1 DEF ThreadInv, InHash, InList, Obtained
    <3>3. Passes(t)
      BY <2>1, <2>3, <3>1 DEF Passes, Obtains, Obtained
    <3>4. ~destroyed
      BY <2>2, BusyAlive
    <3> QED
      BY <1>2, <2>1, <2>2, <2>3, <3>1, <3>2, <3>3, <3>4, QuietReg DEF Quiet
  <2> QED
    BY <2>4, <2>5, <2>6
<1>12. CASE Probe(t)
  <2>1. th[t].pc = "probe" /\ ~destroyed
    BY <1>12, BusyAlive DEF Probe, At
  <2>2. /\ th[t].p \in DOMAIN prod /\ prod[th[t].p].explicit = FALSE /\ th[t].explicit = FALSE
        /\ ~prod[th[t].p].inactive
    BY <1>1, <2>1 DEF RegInv, ThreadInv, Obtained
  <2>3. Obtains(t, th[t].p)
    BY <2>1 DEF Obtains, Obtained
  <2> DEFINE h == th[t].main
             i == th[t].at % Capacity(th[t].main)
             l == [th[t] EXCEPT !.at = i + 1]
             m == [th[t] EXCEPT !.pc = "enqueue"]
             n == [l EXCEPT !.pc = "probe"]
  <2>4. \/ /\ tables' = [tables EXCEPT ![h][i] = [key |-> t, value |-> th[t].p]]
           /\ th' = [th EXCEPT ![t] = m]
        \/ tables' = tables /\ th' = [th EXCEPT ![t] = n]
    BY <1>12 DEF Probe, Goto
  <2>5. /\ DOMAIN m = Fields /\ m.explicit = FALSE /\ m.tok = th[t].tok /\ m.pc = "enqueue"
        /\ DOMAIN n = Fields /\ n.explicit = FALSE /\ n.tok = th[t].tok /\ n.pc = "probe"
        /\ n.p = th[t].p
    BY <1>1, <2>2 DEF Fields
  <2> HIDE DEF h, i, l, m, n
  <2>6. CASE tables' = tables /\ th' = [th EXCEPT ![t] = n]
    <3>1. IsSeq(tables') /\ \A u \in Threads : \A p : Mapped(u, p)' <=> Mapped(u, p)
      BY <2>6, SameTables
    <3>2. Moves(t) /\ th'[t] = n
      BY <1>1, <2>5, <2>6 DEF Moves
    <3>3. ThreadInv(t)'
      BY <1>2, <2>2, <2>5, <3>2 DEF ThreadInv, InHash, InList, Obtained, SameProducers
    <3>4. Passes(t)
      BY <2>3, <2>5, <3>1, <3>2 DEF Passes, Obtains
    <3> QED
      BY <1>2, <2>1, <2>5, <3>1, <3>2, <3>3, <3>4, QuietReg DEF Quiet
  <2>7. CASE /\ tables' = [tables EXCEPT ![h][i] = [key |-> t, value |-> th[t].p]]
             /\ th' = [th EXCEPT ![t] = m]
    <3>1. IsSeq(tables')
      <4>1. DOMAIN tables' = DOMAIN tables /\ tables' = [x \in DOMAIN tables' |-> tables'[x]]
        BY <2>7
      <4> QED
        BY <4>1, SeqDomain DEF RegInv, Shape
    <3>2. ASSUME NEW u \in Threads, NEW p, Mapped(u, p)'
          PROVE  Mapped(u, p) \/ (u = t /\ p = th[t].p)
      <4>1. PICK g, j : /\ g \in DOMAIN tables' /\ j \in DOMAIN tables'[g]
                        /\ tables'[g][j].key = u /\ tables'[g][j].value = p
        BY <3>2 DEF Mapped, Slot
      <4>2. g \in DOMAIN tables /\ j \in DOMAIN tables[g]
        BY <2>7, <4>1
      <4>3. tables'[g][j] = tables[g][j] \/ tables'[g][j] = [key |-> t, value |-> th[t].p]
        BY <2>7, <4>2
      <4>4. CASE tables'[g][j] = tables[g][j]
        BY <4>1, <4>2, <4>4 DEF Mapped, Slot
      <4>5. CASE tables'[g][j] = [key |-> t, value |-> th[t].p]
        BY <4>1, <4>5
      <4> QED
        BY <4>3, <4>4, <4>5
    <3>3. Moves(t) /\ th'[t] = m
      BY <1>1, <2>5, <2>7 DEF Moves
    <3>4. ThreadInv(t)'
      BY <2>5, <3>3 DEF ThreadInv, InHash, InList, Obtained
    <3>5. Passes(t)
      BY <2>2, <2>3, <2>5, <3>2, <3>3 DEF Passes, Obtains, Obtained
    <3> QED
      BY <1>2, <2>1, <2>5, <3>1, <3>3, <3>4, <3>5, QuietReg DEF Quiet
  <2> QED
    BY <2>4, <2>6, <2>7
<1> QED
  BY <1>7, <1>8, <1>9, <1>10, <1>11, <1>12 DEF HashStep

(***************************************************************************)
(* recycle_or_create_producer, add_producer                                *)
(***************************************************************************)

(* The list grows at its end, new producers belong to nobody, and the      *)
(* thread gets one that is new or was inactive.                            *)
Grows(t) ==
  /\ IsSeq(prod') /\ IsSeq(list') /\ DOMAIN prod \subseteq DOMAIN prod'
  /\ \A p \in DOMAIN prod :
       /\ DOMAIN prod'[p] = ProducerFields /\ prod'[p].inactive \in BOOLEAN
       /\ prod'[p].explicit = prod[p].explicit /\ prod'[p].token = prod[p].token
       /\ prod'[p].inactive => prod[p].inactive
  /\ \A p \in DOMAIN prod' : p \notin DOMAIN prod =>
       /\ DOMAIN prod'[p] = ProducerFields /\ prod'[p].inactive = FALSE
       /\ prod'[p].explicit \in BOOLEAN /\ prod'[p].token = None
  /\ Len(list) <= Len(list') /\ \A i \in DOMAIN list : list'[i] = list[i]
  /\ \A i \in DOMAIN list' : list'[i] \in DOMAIN prod'
  /\ tok' = tok /\ tables' = tables /\ destroyed' = destroyed /\ ~destroyed
  /\ Moves(t) /\ ThreadInv(t)' /\ th'[t].tok = th[t].tok
  /\ th[t].pc # "deactivate" /\ th'[t].pc # "deactivate"
  /\ \A p \in DOMAIN prod' :
       Obtains(t, p)' => Obtains(t, p) \/ p \notin DOMAIN prod \/ prod[p].inactive

(* Such a step keeps the invariant: nobody has an inactive producer.       *)
LEMMA GrowsReg ==
  ASSUME RegInv, NEW t \in Threads, Grows(t)
  PROVE  RegInv'
<1>1. Shape'
  BY DEF RegInv, Shape, Grows, Moves
<1>2. /\ DOMAIN list = 1 .. Len(list) /\ Len(list) \in Nat
      /\ DOMAIN list' = 1 .. Len(list') /\ Len(list') \in Nat
      /\ DOMAIN prod = 1 .. Len(prod) /\ None \notin DOMAIN prod
  <2>1. /\ DOMAIN list = 1 .. Len(list) /\ Len(list) \in Nat
        /\ DOMAIN prod = 1 .. Len(prod) /\ Len(prod) \in Nat
    BY SeqLen DEF RegInv, Shape
  <2>2. DOMAIN list' = 1 .. Len(list') /\ Len(list') \in Nat
    BY SeqLen DEF Grows
  <2> QED
    BY <2>1, <2>2, RegistryAssumption
<1>3. DOMAIN list \subseteq DOMAIN list'
  BY <1>2 DEF Grows
<1>4. \A p : InTheList(p) => InTheList(p)'
  BY <1>3 DEF InTheList, Grows
<1>5. \A u \in Threads : \A p : Mapped(u, p)' <=> Mapped(u, p)
  BY SameTables DEF Grows
<1>6. ASSUME NEW u \in Threads PROVE ThreadInv(u)'
  <2>1. CASE u = t
    BY <2>1 DEF Grows
  <2>2. CASE u # t
    <3>1. th'[u] = th[u] /\ ThreadInv(u)
      BY <2>2 DEF RegInv, Grows, Moves
    <3>2. th[u].pc = "scan" => th[u].ptr \in 0 .. Len(list')
      BY <1>2, <3>1 DEF ThreadInv, Grows
    <3>3. th[u].pc = "catch" => /\ th[u].ptr \in 1 .. Len(list') /\ list'[th[u].ptr] = list[th[u].ptr]
                                /\ prod'[list[th[u].ptr]].explicit = th[u].explicit
      BY <1>2, <3>1 DEF ThreadInv, Grows, RegInv, Shape
    <3>4. th[u].pc \in Obtained /\ ~(th[u].pc = "assign" /\ th[u].p = None) =>
            /\ th[u].p \in DOMAIN prod' /\ prod'[th[u].p].explicit = th[u].explicit
            /\ ~prod'[th[u].p].inactive
      BY <3>1 DEF ThreadInv, Grows
    <3>5. tok' = tok
      BY DEF Grows
    <3> QED
      BY <1>4, <3>1, <3>2, <3>3, <3>4, <3>5 DEF ThreadInv
  <2> QED
    BY <2>1, <2>2
<1>7. ASSUME NEW k \in Tokens PROVE TokenInv(k)'
  <2>1. TokenInv(k) /\ tok' = tok
    BY DEF RegInv, Grows
  <2> QED
    BY <1>4, <2>1 DEF TokenInv, Grows
<1>8. KindInv'
  <2>1. \A p \in DOMAIN prod' : prod'[p].inactive => prod'[p].explicit
    BY DEF RegInv, KindInv, Grows
  <2>2. \A u \in Threads : \A p : Mapped(u, p)' => p \in DOMAIN prod' /\ ~prod'[p].explicit
    BY <1>5 DEF RegInv, KindInv, Grows
  <2> QED
    BY <2>1, <2>2 DEF KindInv
<1>9. \A u \in Threads : \A p \in DOMAIN prod' :
        Has(u, p)' => Has(u, p) \/ (u = t /\ (p \notin DOMAIN prod \/ prod[p].inactive))
  BY <1>5 DEF Has, Obtains, Moves, Grows
<1>10. ASSUME NEW u \in Threads, NEW p \in DOMAIN prod', Has(u, p)
       PROVE  p \in DOMAIN prod /\ ~prod[p].inactive
  <2>1. CASE Mapped(u, p)
    BY <2>1 DEF RegInv, KindInv
  <2>2. CASE Obtains(u, p)
    <3>1. p # None
      <4>1. DOMAIN prod' = 1 .. Len(prod')
        BY SeqLen DEF Grows
      <4> QED
        BY <4>1, RegistryAssumption
    <3> QED
      BY <2>2, <3>1 DEF RegInv, ThreadInv, Obtains
  <2> QED
    BY <1>10, <2>1, <2>2 DEF Has
<1>11. Exclusive'
  <2>1. ASSUME NEW v \in Threads, NEW u \in Threads, th'[v].tok # None, th'[v].tok = th'[u].tok
        PROVE  v = u
    BY <2>1 DEF RegInv, Exclusive, Grows, Moves
  <2>2. ASSUME NEW v \in Threads, NEW u \in Threads, NEW p \in DOMAIN prod', Has(v, p)', Has(u, p)'
        PROVE  v = u
    BY <1>9, <1>10, <2>2 DEF RegInv, Exclusive
  <2>3. ASSUME NEW k \in Tokens, NEW u \in Threads, tok[k].producer # None
        PROVE  ~Has(u, tok[k].producer)'
    <3>1. tok[k].producer \in DOMAIN prod /\ ~prod[tok[k].producer].inactive
      BY <2>3 DEF RegInv, TokenInv
    <3>2. tok[k].producer \in DOMAIN prod' /\ ~Has(u, tok[k].producer)
      BY <2>3, <3>1 DEF RegInv, Exclusive, Grows
    <3>3. tok' = tok
      BY DEF Grows
    <3> QED
      BY <1>9, <3>1, <3>2, <3>3
  <2>4. tok' = tok
    BY DEF Grows
  <2> QED
    BY <2>1, <2>2, <2>3, <2>4 DEF RegInv, Exclusive
<1>12. TokensLinked'
  <2>1. ~destroyed' /\ ~destroyed /\ tok' = tok
    BY DEF Grows
  <2>2. \A u \in Threads, k \in Tokens : (At(u, "deactivate")' /\ th'[u].tok = k)
                                     <=> (At(u, "deactivate") /\ th[u].tok = k)
    BY DEF At, Grows, Moves
  <2>3. ASSUME NEW p \in DOMAIN prod', NEW k \in Tokens
        PROVE  prod'[p].token = k <=> /\ tok[k].live /\ tok[k].producer = p
                                      /\ ~\E u \in Threads : At(u, "deactivate")' /\ th'[u].tok = k
    <3>1. CASE p \in DOMAIN prod
      BY <2>1, <2>2, <3>1 DEF RegInv, TokensLinked, Grows
    <3>2. CASE p \notin DOMAIN prod
      <4>1. prod'[p].token # k
        BY <3>2, RegistryAssumption DEF Grows
      <4>2. tok[k].producer # p
        <5>1. DOMAIN prod' = 1 .. Len(prod')
          BY SeqLen DEF Grows
        <5>2. p # None
          BY <5>1, RegistryAssumption
        <5> QED
          BY <3>2, <5>2 DEF RegInv, TokenInv
      <4> QED
        BY <4>1, <4>2
    <3> QED
      BY <3>1, <3>2
  <2> QED
    BY <2>1, <2>3 DEF TokensLinked
<1> QED
  BY <1>1, <1>6, <1>7, <1>8, <1>11, <1>12 DEF RegInv, Grows

(* Scanning the list, and the steps that catch, make and link a producer.  *)
LEMMA ListReg ==
  ASSUME RegInv, NEW t \in Threads, ListStep(t)
  PROVE  RegInv'
<1>1. /\ DOMAIN th = Threads /\ DOMAIN th[t] = Fields /\ th[t].explicit \in BOOLEAN
      /\ ThreadInv(t)
  BY ThreadFields DEF RegInv, Shape
<1>2. tok' = tok /\ tables' = tables /\ destroyed' = destroyed
  BY DEF ListStep, tokens, hashes, Continues
<1>3. /\ IsSeq(list) /\ DOMAIN list = 1 .. Len(list) /\ Len(list) \in Nat
      /\ IsSeq(prod) /\ DOMAIN prod = 1 .. Len(prod) /\ Len(prod) \in Nat
      /\ \A i \in DOMAIN list : list[i] \in DOMAIN prod
      /\ \A p \in DOMAIN prod : /\ DOMAIN prod[p] = ProducerFields
                                /\ prod[p].explicit \in BOOLEAN /\ prod[p].inactive \in BOOLEAN
  BY SeqLen DEF RegInv, Shape
<1>4. IsSeq(tables') /\ \A u \in Threads : \A p : Mapped(u, p)' => Mapped(u, p)
  BY <1>2, SameTables
<1>5. th[t].pc \in InList /\ ~destroyed
  <2>1. th[t].pc \in InList
    BY DEF ListStep, Scan, Recycle, Create, Add, At, InList
  <2> QED
    BY <2>1, BusyAlive DEF InList
\* A step that moves the thread only.
<1>6. ASSUME NEW l, th' = [th EXCEPT ![t] = l], DOMAIN l = Fields, l.tok = th[t].tok,
             l.pc # "deactivate", prod' = prod, list' = list, ThreadInv(t)',
             l.pc \in Obtained => l.p = None \/ Obtains(t, l.p)
      PROVE  RegInv'
  <2>1. Moves(t) /\ th'[t] = l
    BY <1>1, <1>6 DEF Moves
  <2>2. SameProducers
    BY <1>6, SameProducersUnchanged
  <2>3. None \notin DOMAIN prod
    BY <1>3, RegistryAssumption
  <2>4. Passes(t)
    BY <1>4, <1>6, <2>1, <2>3 DEF Passes, Obtains
  <2>5. th[t].pc # "deactivate"
    BY <1>5 DEF InList
  <2> QED
    BY <1>2, <1>4, <1>5, <1>6, <2>1, <2>2, <2>4, <2>5, QuietReg DEF Quiet
<1>7. CASE Scan(t)
  <2>1. th[t].pc = "scan" /\ prod' = prod /\ list' = list
    BY <1>7 DEF Scan, At, producers
  <2>2. th[t].p = None /\ th[t].ptr \in 0 .. Len(list)
    BY <1>1, <2>1 DEF ThreadInv
  <2>3. th[t].explicit => th[t].tok \in Tokens /\ ~tok[th[t].tok].live
    BY <1>1, <2>1 DEF ThreadInv, InList
  <2> DEFINE a == [th[t] EXCEPT !.pc = "create"]
             b == [th[t] EXCEPT !.pc = "catch"]
             n == NextPtr(th[t])
             c == [n EXCEPT !.pc = "scan"]
  <2>4. /\ DOMAIN a = Fields /\ a.pc = "create" /\ a.p = None
        /\ a.tok = th[t].tok /\ a.explicit = th[t].explicit
        /\ DOMAIN b = Fields /\ b.pc = "catch" /\ b.p = None
        /\ b.tok = th[t].tok /\ b.explicit = th[t].explicit /\ b.ptr = th[t].ptr
        /\ DOMAIN c = Fields /\ c.pc = "scan" /\ c.p = None
        /\ c.tok = th[t].tok /\ c.explicit = th[t].explicit /\ c.ptr = th[t].ptr - 1
    BY <1>1, <2>2 DEF Fields, NextPtr
  <2>5. \/ th' = [th EXCEPT ![t] = a]
        \/ /\ th[t].ptr # 0 /\ prod[list[th[t].ptr]].explicit = th[t].explicit
           /\ th' = [th EXCEPT ![t] = b]
        \/ th[t].ptr # 0 /\ th' = [th EXCEPT ![t] = c]
    BY <1>7 DEF Scan, Goto
  <2> HIDE DEF a, b, c, n
  <2>6. CASE th' = [th EXCEPT ![t] = a]
    <3>1. th'[t] = a
      BY <1>1, <2>6
    <3>2. ThreadInv(t)'
      BY <1>1, <1>2, <2>1, <2>3, <2>4, <3>1 DEF ThreadInv, InHash, InList, Obtained
    <3> QED
      BY <1>6, <2>1, <2>4, <2>6, <3>2 DEF Obtained
  <2>7. CASE /\ th[t].ptr # 0 /\ prod[list[th[t].ptr]].explicit = th[t].explicit
             /\ th' = [th EXCEPT ![t] = b]
    <3>1. th'[t] = b
      BY <1>1, <2>7
    <3>2. b.ptr \in 1 .. Len(list)
      BY <1>3, <2>2, <2>4, <2>7
    <3>3. ThreadInv(t)'
      BY <1>1, <1>2, <2>1, <2>3, <2>4, <2>7, <3>1, <3>2 DEF ThreadInv, InHash, InList, Obtained
    <3> QED
      BY <1>6, <2>1, <2>4, <2>7, <3>3 DEF Obtained
  <2>8. CASE th[t].ptr # 0 /\ th' = [th EXCEPT ![t] = c]
    <3>1. th'[t] = c
      BY <1>1, <2>8
    <3>2. c.ptr \in 0 .. Len(list)
      BY <1>3, <2>2, <2>4, <2>8
    <3>3. ThreadInv(t)'
      BY <1>1, <1>2, <2>1, <2>3, <2>4, <3>1, <3>2 DEF ThreadInv, InHash, InList, Obtained
    <3> QED
      BY <1>6, <2>1, <2>4, <2>8, <3>3 DEF Obtained
  <2> QED
    BY <2>5, <2>6, <2>7, <2>8
<1>8. CASE Recycle(t)
  <2>1. th[t].pc = "catch" /\ list' = list
    BY <1>8 DEF Recycle, At
  <2>0. PICK q : q = list[th[t].ptr]
    OBVIOUS
  <2>2. /\ th[t].p = None /\ th[t].ptr \in 1 .. Len(list) /\ q \in DOMAIN prod
        /\ prod[q].explicit = th[t].explicit
    BY <1>1, <1>3, <2>0, <2>1 DEF ThreadInv
  <2>3. th[t].explicit => th[t].tok \in Tokens /\ ~tok[th[t].tok].live
    BY <1>1, <2>1 DEF ThreadInv, InList
  <2> DEFINE n == NextPtr(th[t])
             a == [n EXCEPT !.pc = "scan"]
             m == [th[t] EXCEPT !.p = q, !.recycled = TRUE]
             b == [m EXCEPT !.pc = "assign"]
  <2>4. \/ prod' = prod /\ th' = [th EXCEPT ![t] = a]
        \/ /\ prod[q].inactive /\ prod' = [prod EXCEPT ![q].inactive = FALSE]
           /\ th' = [th EXCEPT ![t] = b]
    BY <1>8, <2>0 DEF Recycle, Goto
  <2>5. InTheList(q)
    BY <1>3, <2>0, <2>2 DEF InTheList
  <2>6. /\ DOMAIN a = Fields /\ a.pc = "scan" /\ a.p = None
        /\ a.tok = th[t].tok /\ a.explicit = th[t].explicit /\ a.ptr = th[t].ptr - 1
        /\ DOMAIN b = Fields /\ b.pc = "assign" /\ b.p = q
        /\ b.tok = th[t].tok /\ b.explicit = th[t].explicit
    BY <1>1, <2>2 DEF Fields, NextPtr
  <2> HIDE DEF a, b, m, n
  <2>7. CASE prod' = prod /\ th' = [th EXCEPT ![t] = a]
    <3>1. th'[t] = a
      BY <1>1, <2>7
    <3>2. a.ptr \in 0 .. Len(list)
      BY <1>3, <2>2, <2>6
    <3>3. ThreadInv(t)'
      BY <1>1, <1>2, <2>1, <2>3, <2>6, <3>1, <3>2 DEF ThreadInv, InHash, InList, Obtained
    <3> QED
      BY <1>6, <2>1, <2>6, <2>7, <3>3 DEF Obtained
  <2>8. CASE /\ prod[q].inactive /\ prod' = [prod EXCEPT ![q].inactive = FALSE]
             /\ th' = [th EXCEPT ![t] = b]
    <3>1. th'[t] = b /\ Moves(t)
      BY <1>1, <2>6, <2>8 DEF Moves
    <3>2. IsSeq(prod') /\ DOMAIN prod' = DOMAIN prod
      <4>1. DOMAIN prod' = DOMAIN prod /\ prod' = [x \in DOMAIN prod' |-> prod'[x]]
        BY <2>8
      <4> QED
        BY <1>3, <4>1, SeqDomain
    <3>3. \A p \in DOMAIN prod :
            /\ DOMAIN prod'[p] = ProducerFields /\ prod'[p].inactive \in BOOLEAN
            /\ prod'[p].explicit = prod[p].explicit /\ prod'[p].token = prod[p].token
            /\ prod'[p].inactive => prod[p].inactive
      BY <1>3, <2>8 DEF ProducerFields
    <3>4. prod'[q].explicit = th[t].explicit /\ prod'[q].inactive = FALSE
      BY <1>3, <2>2, <2>8 DEF ProducerFields
    <3>5. InTheList(q)'
      BY <2>1, <2>5 DEF InTheList
    <3>6. ThreadInv(t)'
      BY <1>1, <1>2, <2>2, <2>3, <2>6, <3>1, <3>2, <3>4, <3>5
         DEF ThreadInv, InHash, InList, Obtained
    <3>7. \A p \in DOMAIN prod' : Obtains(t, p)' => prod[p].inactive
      BY <2>6, <2>8, <3>1 DEF Obtains
    <3>8. /\ IsSeq(list') /\ Len(list) <= Len(list') /\ \A i \in DOMAIN list : list'[i] = list[i]
          /\ \A i \in DOMAIN list' : list'[i] \in DOMAIN prod'
      BY <1>3, <2>1, <3>2
    <3>9. Grows(t)
      BY <1>2, <1>5, <2>1, <2>6, <3>1, <3>2, <3>3, <3>6, <3>7, <3>8 DEF Grows
    <3> QED
      BY <3>9, GrowsReg
  <2> QED
    BY <2>4, <2>7, <2>8
<1>9. CASE Create(t)
  <2>1. th[t].pc = "create" /\ list' = list
    BY <1>9 DEF Create, At
  <2>2. th[t].p = None /\ (th[t].explicit => th[t].tok \in Tokens /\ ~tok[th[t].tok].live)
    BY <1>1, <2>1 DEF ThreadInv, InList
  <2>0. PICK e : e = [explicit |-> th[t].explicit, inactive |-> FALSE, token |-> None,
                      in |-> 0, out |-> 0]
    OBVIOUS
  <2> DEFINE a == [th[t] EXCEPT !.pc = "assign"]
             m == [th[t] EXCEPT !.p = Len(prod) + 1]
             b == [m EXCEPT !.pc = "add"]
  <2>3. \/ prod' = prod /\ th' = [th EXCEPT ![t] = a]
        \/ prod' = Append(prod, e) /\ th' = [th EXCEPT ![t] = b]
    BY <1>9, <2>0 DEF Create, Goto
  <2>4. /\ DOMAIN a = Fields /\ a.pc = "assign" /\ a.p = None
        /\ a.tok = th[t].tok /\ a.explicit = th[t].explicit
        /\ DOMAIN b = Fields /\ b.pc = "add" /\ b.p = Len(prod) + 1
        /\ b.tok = th[t].tok /\ b.explicit = th[t].explicit
    BY <1>1, <2>2 DEF Fields
  <2> HIDE DEF a, b, m
  <2>5. CASE prod' = prod /\ th' = [th EXCEPT ![t] = a]
    <3>1. th'[t] = a
      BY <1>1, <2>5
    <3>2. ThreadInv(t)'
      BY <1>1, <1>2, <2>2, <2>4, <3>1 DEF ThreadInv, InHash, InList, Obtained
    <3> QED
      BY <1>6, <2>1, <2>4, <2>5, <3>2
  <2>6. CASE prod' = Append(prod, e) /\ th' = [th EXCEPT ![t] = b]
    <3>1. th'[t] = b /\ Moves(t)
      BY <1>1, <2>4, <2>6 DEF Moves
    <3>2. /\ IsSeq(prod') /\ DOMAIN prod' = 1 .. Len(prod) + 1 /\ prod'[Len(prod) + 1] = e
          /\ \A p \in DOMAIN prod : prod'[p] = prod[p]
      <4>1. LET q == Append(prod, e) IN
            /\ IsSeq(q) /\ Len(q) = Len(prod) + 1 /\ DOMAIN q = 1 .. Len(prod) + 1
            /\ q[Len(prod) + 1] = e
            /\ \A i \in DOMAIN prod : i \in DOMAIN q /\ q[i] = prod[i]
        BY ONLY <1>3, SeqAppend
      <4> QED
        BY <2>6, <4>1
    <3>3. DOMAIN prod \subseteq DOMAIN prod' /\ \A p \in DOMAIN prod' : p \in DOMAIN prod \/ p = Len(prod) + 1
      BY <1>3, <3>2
    <3>4. /\ DOMAIN e = ProducerFields /\ e.explicit = th[t].explicit /\ e.inactive = FALSE
          /\ e.token = None
      BY <2>0 DEF ProducerFields
    <3>5. Len(prod) + 1 \in DOMAIN prod' /\ Len(prod) + 1 \notin DOMAIN prod
      BY <1>3, <3>2
    <3>6. ThreadInv(t)'
      BY <1>1, <1>2, <2>2, <2>4, <3>1, <3>2, <3>4, <3>5 DEF ThreadInv, InHash, InList, Obtained
    <3>7. \A p \in DOMAIN prod' : Obtains(t, p)' => p \notin DOMAIN prod
      BY <2>4, <3>1, <3>5 DEF Obtains
    <3>8. /\ IsSeq(list') /\ Len(list) <= Len(list') /\ \A i \in DOMAIN list : list'[i] = list[i]
          /\ \A i \in DOMAIN list' : list'[i] \in DOMAIN prod'
      BY <1>3, <2>1, <3>3
    <3>9. \A p \in DOMAIN prod :
            /\ DOMAIN prod'[p] = ProducerFields /\ prod'[p].inactive \in BOOLEAN
            /\ prod'[p].explicit = prod[p].explicit /\ prod'[p].token = prod[p].token
            /\ prod'[p].inactive => prod[p].inactive
      BY <1>3, <3>2
    <3>10. \A p \in DOMAIN prod' : p \notin DOMAIN prod =>
             /\ DOMAIN prod'[p] = ProducerFields /\ prod'[p].inactive = FALSE
             /\ prod'[p].explicit \in BOOLEAN /\ prod'[p].token = None
      BY <1>1, <3>2, <3>3, <3>4
    <3>11. Grows(t)
      BY <1>2, <1>5, <2>1, <2>4, <3>1, <3>2, <3>3, <3>6, <3>7, <3>8, <3>9, <3>10 DEF Grows
    <3> QED
      BY <3>11, GrowsReg
  <2> QED
    BY <2>3, <2>5, <2>6
<1>10. CASE Add(t)
  <2>1. th[t].pc \in {"add", "push"} /\ prod' = prod
    BY <1>10 DEF Add, At
  <2>2. /\ th[t].p \in DOMAIN prod /\ prod[th[t].p].explicit = th[t].explicit
        /\ ~prod[th[t].p].inactive /\ Obtains(t, th[t].p)
        /\ th[t].explicit => th[t].tok \in Tokens /\ ~tok[th[t].tok].live
    BY <1>1, <2>1 DEF ThreadInv, Obtained, Obtains, InList
  <2> DEFINE a == [th[t] EXCEPT !.pc = "push"]
             b == [th[t] EXCEPT !.pc = "assign"]
  <2>3. \/ list' = list /\ th' = [th EXCEPT ![t] = a]
        \/ list' = Append(list, th[t].p) /\ th' = [th EXCEPT ![t] = b]
    BY <1>10 DEF Add, Goto
  <2>4. /\ DOMAIN a = Fields /\ a.pc = "push" /\ a.p = th[t].p
        /\ a.tok = th[t].tok /\ a.explicit = th[t].explicit
        /\ DOMAIN b = Fields /\ b.pc = "assign" /\ b.p = th[t].p
        /\ b.tok = th[t].tok /\ b.explicit = th[t].explicit
    BY <1>1 DEF Fields
  <2> HIDE DEF a, b
  <2>5. CASE list' = list /\ th' = [th EXCEPT ![t] = a]
    <3>1. th'[t] = a
      BY <1>1, <2>5
    <3>2. ThreadInv(t)'
      BY <1>1, <1>2, <2>1, <2>2, <2>4, <3>1 DEF ThreadInv, InHash, InList, Obtained
    <3> QED
      BY <1>6, <2>1, <2>2, <2>4, <2>5, <3>2
  <2>6. CASE list' = Append(list, th[t].p) /\ th' = [th EXCEPT ![t] = b]
    <3>1. th'[t] = b /\ Moves(t)
      BY <1>1, <2>4, <2>6 DEF Moves
    <3>0. PICK q : q = th[t].p
      OBVIOUS
    <3>2. /\ IsSeq(list') /\ Len(list') = Len(list) + 1 /\ DOMAIN list' = 1 .. Len(list) + 1
          /\ list'[Len(list) + 1] = q /\ \A i \in DOMAIN list : list'[i] = list[i]
      <4>1. LET s == Append(list, q) IN
            /\ IsSeq(s) /\ Len(s) = Len(list) + 1 /\ DOMAIN s = 1 .. Len(list) + 1
            /\ s[Len(list) + 1] = q
            /\ \A i \in DOMAIN list : i \in DOMAIN s /\ s[i] = list[i]
        BY ONLY <1>3, SeqAppend
      <4> QED
        BY <2>6, <3>0, <4>1
    <3>3. Len(list) <= Len(list') /\ \A i \in DOMAIN list' : i \in DOMAIN list \/ i = Len(list) + 1
      BY <1>3, <3>2
    <3>4. \A i \in DOMAIN list' : list'[i] \in DOMAIN prod'
      BY <1>3, <2>1, <2>2, <3>0, <3>2, <3>3
    <3>5. InTheList(q)'
      <4>1. Len(list) + 1 \in DOMAIN list'
        BY <1>3, <3>2
      <4> QED
        BY <3>2, <4>1 DEF InTheList
    <3>6. ThreadInv(t)'
      BY <1>1, <1>2, <2>1, <2>2, <2>4, <3>0, <3>1, <3>5 DEF ThreadInv, InHash, InList, Obtained
    <3>7. \A p \in DOMAIN prod' : Obtains(t, p)' => Obtains(t, p)
      BY <2>2, <2>4, <3>1 DEF Obtains
    <3>8. Grows(t)
      BY <1>2, <1>3, <1>5, <2>1, <2>4, <3>1, <3>2, <3>3, <3>4, <3>6, <3>7 DEF Grows
    <3> QED
      BY <3>8, GrowsReg
  <2> QED
    BY <2>3, <2>5, <2>6
<1> QED
  BY <1>7, <1>8, <1>9, <1>10 DEF ListStep

(* The producer goes to the token under construction, which nobody else    *)
(* uses, or to the thread that will enter it in the table.                 *)
LEMMA AssignReg ==
  ASSUME RegInv, NEW t \in Threads, Assign(t)
  PROVE  RegInv'
<1>1. /\ DOMAIN th = Threads /\ DOMAIN th[t] = Fields /\ th[t].explicit \in BOOLEAN
      /\ ThreadInv(t)
  BY ThreadFields DEF RegInv, Shape
<1>2. /\ th[t].pc = "assign" /\ ~destroyed /\ destroyed' = destroyed /\ list' = list
      /\ tables' = tables
  BY BusyAlive DEF Assign, At, Continues
<1>3. IsSeq(tables') /\ \A u \in Threads : \A p : Mapped(u, p)' <=> Mapped(u, p)
  BY <1>2, SameTables
<1>4. PICK z : z = Idle({})
  OBVIOUS
<1>5. DOMAIN z = Fields /\ z.explicit = FALSE /\ z.tok = None /\ z.pc = "idle" /\ z.p = None
  BY <1>4, IdleFields
<1>6. CASE ~th[t].explicit /\ th[t].p = None
  <2>1. th' = [th EXCEPT ![t] = z] /\ prod' = prod /\ tok' = tok
    BY <1>4, <1>6 DEF Assign, Return
  <2>2. SameProducers
    BY <2>1, SameProducersUnchanged
  <2>3. z.pc \in Elsewhere /\ z.pc \notin InHash
    BY <1>5 DEF Elsewhere, InHash
  <2> QED
    BY <1>2, <1>3, <1>5, <2>1, <2>2, <2>3, ElsewhereReg
<1>7. CASE ~th[t].explicit /\ th[t].p # None
  <2> DEFINE m == [th[t] EXCEPT !.pc = "probe"]
  <2>1. th' = [th EXCEPT ![t] = m] /\ prod' = prod /\ tok' = tok
    BY <1>7 DEF Assign, Goto
  <2>2. SameProducers
    BY <2>1, SameProducersUnchanged
  <2>3. /\ DOMAIN m = Fields /\ m.explicit = FALSE /\ m.pc = "probe" /\ m.p = th[t].p
        /\ m.tok = th[t].tok
    BY <1>1, <1>7 DEF Fields
  <2> HIDE DEF m
  <2>4. th'[t] = m /\ Moves(t)
    BY <1>1, <2>1, <2>3 DEF Moves
  <2>5. /\ th[t].p \in DOMAIN prod /\ prod[th[t].p].explicit = FALSE
        /\ ~prod[th[t].p].inactive
    BY <1>1, <1>2, <1>7 DEF ThreadInv, Obtained
  <2>6. ThreadInv(t)'
    BY <2>1, <2>3, <2>4, <2>5 DEF ThreadInv, InHash, InList, Obtained
  <2>7. Passes(t)
    BY <1>2, <1>3, <2>3, <2>4 DEF Passes, Obtains, Obtained
  <2> QED
    BY <1>2, <1>3, <2>1, <2>2, <2>3, <2>4, <2>6, <2>7, QuietReg DEF Quiet
<1>8. CASE th[t].explicit
  <2>0. PICK k, q : k = th[t].tok /\ q = th[t].p
    OBVIOUS
  <2>1. /\ k \in Tokens /\ ~tok[k].live
        /\ q # None => /\ q \in DOMAIN prod /\ prod[q].explicit /\ ~prod[q].inactive
                       /\ InTheList(q) /\ Obtains(t, q)
    BY <1>1, <1>2, <1>8, <2>0 DEF ThreadInv, InList, Obtained, Obtains
  <2>2. /\ th' = [th EXCEPT ![t] = z]
        /\ tok' = [tok EXCEPT ![k] = [live |-> TRUE, producer |-> q]]
        /\ prod' = IF q # None THEN [prod EXCEPT ![q].token = k] ELSE prod
    BY <1>4, <1>8, <2>0 DEF Assign, Return
  <2>3. Moves(t) /\ th'[t] = z
    BY <1>1, <1>5, <2>2 DEF Moves
  <2>4. /\ IsSeq(prod) /\ DOMAIN prod = 1 .. Len(prod) /\ Len(prod) \in Nat
        /\ \A p \in DOMAIN prod : /\ DOMAIN prod[p] = ProducerFields
                                  /\ prod[p].explicit \in BOOLEAN /\ prod[p].inactive \in BOOLEAN
        /\ tok \in [Tokens -> [live : BOOLEAN, producer : Nat \union {None}]]
    BY SeqLen DEF RegInv, Shape
  <2>5. /\ IsSeq(prod') /\ DOMAIN prod' = DOMAIN prod
        /\ \A p \in DOMAIN prod :
             /\ DOMAIN prod'[p] = ProducerFields /\ prod'[p].explicit = prod[p].explicit
             /\ prod'[p].inactive = prod[p].inactive
             /\ prod'[p].token = IF p = q THEN k ELSE prod[p].token
    <3>1. DOMAIN prod' = DOMAIN prod /\ prod' = [x \in DOMAIN prod' |-> prod'[x]]
      <4>1. prod = [x \in DOMAIN prod |-> prod[x]]
        BY <2>4, SeqLen
      <4> QED
        BY <2>2, <4>1
    <3>2. IsSeq(prod')
      BY <2>4, <3>1, SeqDomain
    <3>3. None \notin DOMAIN prod
      BY <2>4, RegistryAssumption
    <3> QED
      BY <2>2, <2>4, <3>1, <3>2, <3>3 DEF ProducerFields
  <2>6. /\ \A j \in Tokens : j # k => tok'[j] = tok[j]
        /\ tok'[k].live /\ tok'[k].producer = q
        /\ tok' \in [Tokens -> [live : BOOLEAN, producer : Nat \union {None}]]
    <3>1. q \in Nat \union {None}
      BY <2>1, <2>4
    <3> QED
      BY <2>1, <2>2, <2>4, <3>1
  <2>7. \A u \in Threads : u # t => th[u].tok # k
    <3>1. k # None
      BY <2>1, RegistryAssumption
    <3> QED
      BY <2>0, <3>1 DEF RegInv, Exclusive
  <2>8. tok[k].producer = None
    BY <2>1 DEF RegInv, TokenInv
  <2>9. Shape'
    BY <1>2, <1>3, <2>3, <2>4, <2>5, <2>6 DEF RegInv, Shape, Moves
  <2>10. \A p : InTheList(p)' <=> InTheList(p)
    BY <1>2 DEF InTheList
  <2>11. ASSUME NEW u \in Threads PROVE ThreadInv(u)'
    <3>1. CASE u = t
      BY <1>5, <2>3, <3>1 DEF ThreadInv, InHash, InList, Obtained
    <3>2. CASE u # t
      <4>1. th'[u] = th[u] /\ ThreadInv(u) /\ th[u].tok # k
        BY <2>3, <2>7, <3>2 DEF RegInv, Moves
      <4>2. \A i \in DOMAIN list : list[i] \in DOMAIN prod
        BY DEF RegInv, Shape
      <4>3. DOMAIN list = 1 .. Len(list)
        BY SeqLen DEF RegInv, Shape
      <4> QED
        BY <1>2, <2>5, <2>6, <2>10, <4>1, <4>2, <4>3 DEF ThreadInv
    <3> QED
      BY <3>1, <3>2
  <2>12. ASSUME NEW j \in Tokens PROVE TokenInv(j)'
    <3>1. TokenInv(j)
      BY DEF RegInv
    <3>2. CASE j = k
      BY <2>1, <2>5, <2>6, <2>10, <3>2 DEF TokenInv
    <3>3. CASE j # k
      BY <2>5, <2>6, <2>10, <3>1, <3>3 DEF TokenInv
    <3> QED
      BY <3>2, <3>3
  <2>13. KindInv'
    BY <1>3, <2>5 DEF RegInv, KindInv
  <2>14. \A u \in Threads : \A p : Has(u, p)' => (Has(u, p) /\ u # t) \/ Mapped(u, p)
    BY <1>3, <1>5, <2>3 DEF Has, Obtains, Moves, Obtained
  <2>15. q # None => \A u \in Threads : ~Has(u, q)'
    <3>1. SUFFICES ASSUME q # None, NEW u \in Threads, Has(u, q)' PROVE FALSE
      OBVIOUS
    <3>2. q \in DOMAIN prod /\ Has(t, q) /\ ~Mapped(u, q)
      BY <2>1, <3>1 DEF RegInv, KindInv, Has
    <3>3. Has(u, q) /\ u # t
      BY <2>1, <2>14, <3>1, <3>2
    <3> QED
      BY <3>2, <3>3 DEF RegInv, Exclusive
  <2>16. \A j \in Tokens : q # None => tok[j].producer # q
    BY <2>1 DEF RegInv, Exclusive, Has
  <2>17. Exclusive'
    <3>1. ASSUME NEW v \in Threads, NEW u \in Threads, th'[v].tok # None, th'[v].tok = th'[u].tok
          PROVE  v = u
      BY <1>5, <2>3, <3>1 DEF RegInv, Exclusive, Moves
    <3>2. \A v, u \in Threads : \A p \in DOMAIN prod' : Has(v, p)' /\ Has(u, p)' => v = u
      BY <2>5, <2>14 DEF RegInv, Exclusive, Has
    <3>3. \A j, i \in Tokens : tok'[i].producer # None /\ tok'[i].producer = tok'[j].producer => i = j
      BY <2>6, <2>16 DEF RegInv, Exclusive
    <3>4. ASSUME NEW j \in Tokens, NEW u \in Threads, NEW p, p = tok'[j].producer, p # None
          PROVE  ~Has(u, p)'
      <4>1. CASE j = k
        BY <2>6, <2>15, <3>4, <4>1
      <4>2. CASE j # k
        <5>1. p = tok[j].producer /\ ~Has(u, p)
          BY <2>6, <3>4, <4>2 DEF RegInv, Exclusive
        <5> QED
          BY <2>14, <5>1 DEF Has
      <4> QED
        BY <4>1, <4>2
    <3> QED
      BY <3>1, <3>2, <3>3, <3>4 DEF Exclusive
  <2>18. TokensLinked'
    <3>1. ASSUME NEW j \in Tokens
          PROVE  (\E u \in Threads : At(u, "deactivate")' /\ th'[u].tok = j)
                 <=> (\E u \in Threads : At(u, "deactivate") /\ th[u].tok = j)
      BY <1>2, <1>5, <2>3 DEF At, Moves
    <3>2. ~\E u \in Threads : At(u, "deactivate") /\ th[u].tok = k
      BY <1>2, <2>7 DEF At
    <3>3. \A p \in DOMAIN prod, j \in Tokens :
            prod[p].token = j <=> /\ tok[j].live /\ tok[j].producer = p
                                  /\ ~\E u \in Threads : At(u, "deactivate") /\ th[u].tok = j
      BY <1>2 DEF RegInv, TokensLinked
    <3>4. None \notin DOMAIN prod
      BY <2>4, RegistryAssumption
    <3>5. ASSUME NEW p \in DOMAIN prod, NEW j \in Tokens
          PROVE  prod'[p].token = j <=> /\ tok'[j].live /\ tok'[j].producer = p
                   /\ ~\E u \in Threads : At(u, "deactivate")' /\ th'[u].tok = j
      <4>1. CASE j = k
        BY <2>1, <2>5, <2>6, <3>1, <3>2, <3>3, <4>1
      <4>2. CASE j # k
        BY <2>5, <2>6, <2>16, <3>1, <3>3, <3>4, <4>2
      <4> QED
        BY <4>1, <4>2
    <3> QED
      BY <1>2, <2>5, <3>5 DEF TokensLinked
  <2> QED
    BY <1>2, <2>9, <2>11, <2>12, <2>13, <2>17, <2>18 DEF RegInv
<1> QED
  BY <1>1, <1>6, <1>7, <1>8

(* The elements go into a sub-queue and the call ends.                     *)
LEMMA EnqueueReg ==
  ASSUME RegInv, NEW t \in Threads, Enqueue(t)
  PROVE  RegInv'
<1>1. SameProducers
  <2>1. prod' = prod \/ prod' = [prod EXCEPT ![th[t].p].in = @ + th[t].max]
    BY DEF Enqueue
  <2> QED
    BY <2>1, SameProducersUnchanged, SameProducersFilled
<1>2. list' = list /\ tok' = tok /\ destroyed' = destroyed
  BY DEF Enqueue, tokens, Continues
<1>3. IsSeq(tables') /\ \A u \in Threads : \A p : Mapped(u, p)' => Mapped(u, p)
  BY SameTables DEF Enqueue, hashes
<1>4. th[t].pc = "enqueue" /\ ~destroyed
  BY BusyAlive DEF Enqueue, At
<1>5. PICK l : l = Idle({})
  OBVIOUS
<1>6. DOMAIN l = Fields /\ l.explicit = FALSE /\ l.tok = None /\ l.pc = "idle"
  BY <1>5, IdleFields
<1>7. l.pc \in Elsewhere /\ l.pc \notin InHash
  BY <1>6 DEF Elsewhere, InHash
<1>8. th' = [th EXCEPT ![t] = l]
  BY <1>5 DEF Enqueue, Return
<1> QED
  BY <1>1, <1>2, <1>3, <1>4, <1>6, <1>7, <1>8, ElsewhereReg

(***************************************************************************)
(* Tokens                                                                  *)
(***************************************************************************)

(* A token under construction looks for a producer; an enqueue uses the    *)
(* one it has; a consumer token is made, moved or swapped.                 *)
LEMMA TokenUseReg ==
  ASSUME RegInv, NEW t \in Threads, UNCHANGED <<hashes, globalExplicitConsumerOffset>>,
         \/ \E k \in Tokens : NewToken(t, k) \/ \E n \in 1 .. left.bulk : EnqueueToken(t, k, n)
         \/ \E c \in ConsumerTokens : NewConsumer(t, c)
                \/ \E d \in ConsumerTokens : MoveConsumer(t, c, d) \/ SwapConsumers(t, c, d)
  PROVE  RegInv'
<1>1. PICK kind : Call(t, kind)
  BY DEF NewToken, EnqueueToken, NewConsumer, MoveConsumer, SwapConsumers
<1>2. th[t].pc = "idle" /\ th[t].tok = None /\ ~destroyed /\ destroyed' = destroyed
      /\ DOMAIN th = Threads
  BY <1>1, Calls
<1>3. prod' = prod /\ list' = list /\ tok' = tok
  BY DEF NewToken, EnqueueToken, NewConsumer, MoveConsumer, SwapConsumers, producers, tokens
<1>4. SameProducers
  BY <1>3, SameProducersUnchanged
<1>5. IsSeq(tables') /\ \A u \in Threads : \A p : Mapped(u, p)' => Mapped(u, p)
  BY SameTables DEF hashes
<1>6. Len(list) \in Nat
  BY SeqLen DEF RegInv, Shape
<1>7. PICK z : z = Idle({})
  OBVIOUS
<1>8. DOMAIN z = Fields /\ z.explicit = FALSE /\ z.tok = None /\ z.pc = "idle" /\ z.p = None
  BY <1>7, IdleFields
<1>9. ASSUME NEW k \in Tokens, NewToken(t, k) PROVE RegInv'
  <2> DEFINE l == [z EXCEPT !.tok = k, !.explicit = TRUE, !.ptr = Len(list)]
             m == [l EXCEPT !.pc = "scan"]
  <2>1. Free(k) /\ ~tok[k].live /\ th' = [th EXCEPT ![t] = m]
    BY <1>7, <1>9 DEF NewToken, Goto
  <2>2. /\ DOMAIN m = Fields /\ m.explicit = TRUE /\ m.tok = k /\ m.pc = "scan" /\ m.p = None
        /\ m.ptr = Len(list)
    BY <1>8 DEF Fields
  <2> HIDE DEF m
  <2>3. th'[t] = m /\ Moves(t)
    BY <1>2, <2>1, <2>2 DEF Moves
  <2>4. m.ptr \in 0 .. Len(list')
    BY <1>3, <1>6, <2>2
  <2>5. ThreadInv(t)'
    BY <1>3, <2>1, <2>2, <2>3, <2>4 DEF ThreadInv, InHash, InList, Obtained
  <2>6. Passes(t)
    BY <1>5, <2>2, <2>3 DEF Passes, Obtains, Obtained
  <2> QED
    BY <1>2, <1>3, <1>4, <1>5, <2>1, <2>2, <2>3, <2>5, <2>6, QuietReg DEF Quiet
<1>10. ASSUME NEW k \in Tokens, NEW n, EnqueueToken(t, k, n) PROVE RegInv'
  <2> DEFINE l == [z EXCEPT !.tok = k, !.p = tok[k].producer, !.max = n]
             m == [l EXCEPT !.pc = "enqueue"]
  <2>1. Free(k) /\ th' = [th EXCEPT ![t] = m]
    BY <1>7, <1>10 DEF EnqueueToken, Goto
  <2>2. DOMAIN m = Fields /\ m.explicit = FALSE /\ m.tok = k /\ m.pc = "enqueue"
    BY <1>8 DEF Fields
  <2> HIDE DEF m
  <2>3. m.pc \in Elsewhere /\ m.pc \notin InHash
    BY <2>2 DEF Elsewhere, InHash
  <2> QED
    BY <1>2, <1>3, <1>4, <1>5, <2>1, <2>2, <2>3, ElsewhereReg
<1>11. ASSUME th' = th PROVE RegInv'
  <2>1. Moves(t)
    BY <1>2, <1>11, ThreadFields DEF Moves
  <2>2. ThreadInv(t)'
    BY <1>2, <1>11, ThreadFields DEF ThreadInv, InHash, InList, Obtained
  <2>3. Passes(t)
    BY <1>5, <1>11 DEF Passes, Obtains
  <2> QED
    BY <1>2, <1>3, <1>4, <1>5, <1>11, <2>1, <2>2, <2>3, QuietReg DEF Quiet
<1> QED
  BY <1>9, <1>10, <1>11 DEF NewConsumer, MoveConsumer, SwapConsumers

(* Tokens that no call uses exchange their producers, and the producers    *)
(* follow: what MoveToken, SwapTokens and the end of a token without a     *)
(* producer have in common.                                                *)
Hands ==
  /\ th' = th /\ list' = list /\ tables' = tables /\ destroyed' = destroyed /\ ~destroyed
  /\ tok' \in [Tokens -> [live : BOOLEAN, producer : Nat \union {None}]]
  /\ \A j \in Tokens : tok'[j] # tok[j] => Free(j)
  /\ \A j \in Tokens : tok'[j].producer # None =>
       tok'[j].live /\ \E i \in Tokens : tok[i].producer = tok'[j].producer
  /\ \A i, j \in Tokens : tok'[i].producer # None /\ tok'[i].producer = tok'[j].producer => i = j
  /\ IsSeq(prod') /\ DOMAIN prod' = DOMAIN prod
  /\ \A p \in DOMAIN prod :
       /\ DOMAIN prod'[p] = ProducerFields /\ prod'[p].explicit = prod[p].explicit
       /\ prod'[p].inactive = prod[p].inactive

(* Such a step keeps the invariant if the links between producers and      *)
(* tokens agree after it.                                                  *)
LEMMA HandsReg ==
  ASSUME RegInv, Hands, TokensLinked'
  PROVE  RegInv'
<1> USE DEF Hands
<1>1. Shape'
  BY DEF RegInv, Shape
<1>2. \A p : InTheList(p)' <=> InTheList(p)
  BY DEF InTheList
<1>3. \A u \in Threads : \A p : Mapped(u, p)' <=> Mapped(u, p)
  BY SameTables
<1>4. \A u \in Threads : \A p : Has(u, p)' <=> Has(u, p)
  BY <1>3 DEF Has, Obtains
<1>5. ASSUME NEW u \in Threads PROVE ThreadInv(u)'
  <2>1. ThreadInv(u) /\ \A i \in DOMAIN list : list[i] \in DOMAIN prod
    BY DEF RegInv, Shape
  <2>2. DOMAIN list = 1 .. Len(list)
    BY SeqLen DEF RegInv, Shape
  <2>3. th[u].tok \in Tokens => tok'[th[u].tok] = tok[th[u].tok]
    BY DEF Free
  <2> QED
    BY <1>2, <2>1, <2>2, <2>3 DEF ThreadInv
<1>6. ASSUME NEW k \in Tokens PROVE TokenInv(k)'
  <2>1. SUFFICES ASSUME tok'[k].producer # None PROVE TokenInv(k)'
    BY DEF TokenInv
  <2>2. PICK i \in Tokens : tok[i].producer = tok'[k].producer
    BY <2>1
  <2>3. TokenInv(i)
    BY DEF RegInv
  <2> QED
    BY <1>2, <2>1, <2>2, <2>3 DEF TokenInv
<1>7. KindInv'
  BY <1>3 DEF RegInv, KindInv
<1>8. Exclusive'
  <2>1. \A t, u \in Threads : th'[t].tok # None /\ th'[t].tok = th'[u].tok => t = u
    BY DEF RegInv, Exclusive
  <2>2. \A t, u \in Threads : \A p \in DOMAIN prod' : Has(t, p)' /\ Has(u, p)' => t = u
    BY <1>4 DEF RegInv, Exclusive
  <2>3. ASSUME NEW k \in Tokens, NEW t \in Threads, NEW p, p = tok'[k].producer, p # None
        PROVE  ~Has(t, p)'
    <3>1. PICK i \in Tokens : tok[i].producer = p
      BY <2>3
    <3> QED
      BY <1>4, <2>3, <3>1 DEF RegInv, Exclusive
  <2> QED
    BY <2>1, <2>2, <2>3 DEF Exclusive
<1> QED
  BY <1>1, <1>5, <1>6, <1>7, <1>8 DEF RegInv

(* What the links between producers and tokens are before destruction.     *)
LEMMA Links ==
  ASSUME RegInv, ~destroyed
  PROVE  /\ \A p \in DOMAIN prod, k \in Tokens :
              prod[p].token = k <=> /\ tok[k].live /\ tok[k].producer = p
                                    /\ ~\E t \in Threads : At(t, "deactivate") /\ th[t].tok = k
         /\ IsSeq(prod) /\ prod = [p \in DOMAIN prod |-> prod[p]] /\ None \notin DOMAIN prod
         /\ \A p \in DOMAIN prod : DOMAIN prod[p] = ProducerFields
         /\ tok \in [Tokens -> [live : BOOLEAN, producer : Nat \union {None}]]
         /\ \A k \in Tokens : tok[k].producer # None => tok[k].live
         /\ \A i, j \in Tokens : tok[i].producer # None /\ tok[i].producer = tok[j].producer => i = j
<1>1. IsSeq(prod)
  BY DEF RegInv, Shape
<1>2. Len(prod) \in Nat /\ DOMAIN prod = 1 .. Len(prod) /\ prod = [p \in DOMAIN prod |-> prod[p]]
  BY <1>1, SeqLen
<1>3. None \notin DOMAIN prod
  BY <1>2, RegistryAssumption
<1> QED
  BY <1>1, <1>2, <1>3 DEF RegInv, Shape, TokensLinked, TokenInv, Exclusive

(* What Relinked does to the producers.                                    *)
LEMMA RelinkedFields ==
  ASSUME RegInv, ~destroyed, NEW ks, NEW changed, prod' = Relinked(ks, changed)
  PROVE  /\ IsSeq(prod') /\ DOMAIN prod' = DOMAIN prod
         /\ \A p \in DOMAIN prod :
              /\ DOMAIN prod'[p] = ProducerFields /\ prod'[p].explicit = prod[p].explicit
              /\ prod'[p].inactive = prod[p].inactive
              /\ prod'[p].token = IF \E k \in ks : changed[k].producer = p
                                  THEN CHOOSE k \in ks : changed[k].producer = p
                                  ELSE prod[p].token
<1>1. DOMAIN prod' = DOMAIN prod /\ prod' = [p \in DOMAIN prod' |-> prod'[p]]
  BY DEF Relinked
<1>2. IsSeq(prod')
  BY <1>1, Links, SeqDomain
<1>3. \A p \in DOMAIN prod : DOMAIN prod[p] = ProducerFields
  BY Links
<1>4. ASSUME NEW p \in DOMAIN prod
      PROVE  /\ DOMAIN prod'[p] = ProducerFields /\ prod'[p].explicit = prod[p].explicit
             /\ prod'[p].inactive = prod[p].inactive
             /\ prod'[p].token = IF \E k \in ks : changed[k].producer = p
                                 THEN CHOOSE k \in ks : changed[k].producer = p
                                 ELSE prod[p].token
  <2>1. PICK x : x = IF \E k \in ks : changed[k].producer = p
                     THEN CHOOSE k \in ks : changed[k].producer = p ELSE prod[p].token
    OBVIOUS
  <2>2. prod'[p] = [prod[p] EXCEPT !.token = x]
    BY <2>1 DEF Relinked
  <2>3. /\ DOMAIN prod'[p] = ProducerFields /\ prod'[p].explicit = prod[p].explicit
        /\ prod'[p].inactive = prod[p].inactive /\ prod'[p].token = x
    BY ONLY <1>3, <2>2, p \in DOMAIN prod DEF ProducerFields
  <2> QED
    BY <2>1, <2>3
<1> QED
  BY <1>1, <1>2, <1>4

(* The move constructor.                                                   *)
LEMMA MoveTokenReg ==
  ASSUME RegInv, NEW t \in Threads, UNCHANGED <<hashes, globalExplicitConsumerOffset>>,
         NEW k \in Tokens, NEW from \in Tokens, MoveToken(t, k, from)
  PROVE  RegInv'
<1>1. /\ ~destroyed /\ destroyed' = destroyed /\ th' = th /\ list' = list /\ tables' = tables
      /\ Free(k) /\ Free(from) /\ ~tok[k].live /\ tok[from].live
  BY Calls DEF MoveToken, hashes
<1>2. PICK q : q = tok[from].producer
  OBVIOUS
<1>3. PICK changed : changed = [tok EXCEPT ![k] = [live |-> TRUE, producer |-> q],
                                           ![from].producer = None]
  OBVIOUS
<1>4. tok' = changed /\ prod' = Relinked({k}, changed)
  BY <1>2, <1>3 DEF MoveToken
<1>5. tok \in [Tokens -> [live : BOOLEAN, producer : Nat \union {None}]] /\ k # from
      /\ q \in Nat \union {None}
  BY <1>1, <1>2, Links
<1>6. /\ changed[k].live /\ changed[k].producer = q
      /\ changed[from].live = tok[from].live /\ changed[from].producer = None
      /\ \A j \in Tokens : j # k /\ j # from => changed[j] = tok[j]
      /\ changed \in [Tokens -> [live : BOOLEAN, producer : Nat \union {None}]]
  BY <1>3, <1>5
<1>7. /\ IsSeq(prod') /\ DOMAIN prod' = DOMAIN prod
      /\ \A p \in DOMAIN prod :
           /\ DOMAIN prod'[p] = ProducerFields /\ prod'[p].explicit = prod[p].explicit
           /\ prod'[p].inactive = prod[p].inactive
           /\ prod'[p].token = IF p = q THEN k ELSE prod[p].token
  <2>0. PICK ks : ks = {k}
    OBVIOUS
  <2>1. ASSUME NEW p
        PROVE  /\ (\E j \in ks : changed[j].producer = p) <=> p = q
               /\ p = q => (CHOOSE j \in ks : changed[j].producer = p) = k
    BY <1>6, <2>0
  <2>2. /\ IsSeq(prod') /\ DOMAIN prod' = DOMAIN prod
        /\ \A p \in DOMAIN prod :
             /\ DOMAIN prod'[p] = ProducerFields /\ prod'[p].explicit = prod[p].explicit
             /\ prod'[p].inactive = prod[p].inactive
             /\ prod'[p].token = IF \E j \in ks : changed[j].producer = p
                                 THEN CHOOSE j \in ks : changed[j].producer = p
                                 ELSE prod[p].token
    <3>1. prod' = Relinked(ks, changed) /\ ~destroyed
      BY <1>1, <1>4, <2>0
    <3> QED
      BY <3>1, RelinkedFields
  <2> QED
    BY <2>1, <2>2
<1>8. \A j \in Tokens : tok[j].producer # None => tok[j].live
  BY <1>1, Links
<1>9. tok[k].producer = None
  BY <1>1, <1>8
<1>10. \A i, j \in Tokens : tok[i].producer # None /\ tok[i].producer = tok[j].producer => i = j
  BY <1>1, Links
<1>11. Hands
  <2>1. \A j \in Tokens : tok'[j] # tok[j] => Free(j)
    BY <1>1, <1>4, <1>6
  <2>2. \A j \in Tokens : tok'[j].producer # None =>
          tok'[j].live /\ \E i \in Tokens : tok[i].producer = tok'[j].producer
    BY <1>2, <1>4, <1>6, <1>8
  <2>3. \A i, j \in Tokens : tok'[i].producer # None /\ tok'[i].producer = tok'[j].producer => i = j
    BY <1>2, <1>4, <1>5, <1>6, <1>10
  <2> QED
    BY <1>1, <1>4, <1>6, <1>7, <2>1, <2>2, <2>3 DEF Hands
<1>12. TokensLinked'
  <2>1. PICK D : D = {j \in Tokens : \E u \in Threads : At(u, "deactivate") /\ th[u].tok = j}
    OBVIOUS
  <2>2. \A j \in Tokens : (\E u \in Threads : At(u, "deactivate")' /\ th'[u].tok = j) <=> j \in D
    BY <1>1, <2>1 DEF At
  <2>3. k \notin D /\ from \notin D
    BY <1>1, <2>1 DEF Free
  <2>4. /\ \A p \in DOMAIN prod, j \in Tokens :
              prod[p].token = j <=> tok[j].live /\ tok[j].producer = p /\ j \notin D
        /\ None \notin DOMAIN prod
    BY <1>1, <2>1, Links
  <2>5. ASSUME NEW p \in DOMAIN prod, NEW j \in Tokens
        PROVE  prod'[p].token = j <=> tok'[j].live /\ tok'[j].producer = p /\ j \notin D
    <3>0. prod'[p].token = IF p = q THEN k ELSE prod[p].token
      BY <1>7
    <3>1. CASE j = k
      BY <1>1, <1>4, <1>6, <2>3, <2>4, <3>0, <3>1
    <3>2. CASE j = from
      BY <1>2, <1>4, <1>5, <1>6, <2>3, <2>4, <3>0, <3>2
    <3>3. CASE j # k /\ j # from
      BY <1>2, <1>4, <1>6, <1>10, <2>4, <3>0, <3>3
    <3> QED
      BY <3>1, <3>2, <3>3
  <2> QED
    BY <1>1, <1>7, <2>2, <2>5 DEF TokensLinked
<1> QED
  BY <1>11, <1>12, HandsReg

(* swap                                                                    *)
LEMMA SwapTokensReg ==
  ASSUME RegInv, NEW t \in Threads, UNCHANGED <<hashes, globalExplicitConsumerOffset>>,
         NEW k \in Tokens, NEW other \in Tokens, SwapTokens(t, k, other)
  PROVE  RegInv'
<1>1. /\ ~destroyed /\ destroyed' = destroyed /\ th' = th /\ list' = list /\ tables' = tables
      /\ Free(k) /\ Free(other) /\ k # other /\ tok[k].live /\ tok[other].live
  BY Calls DEF SwapTokens, hashes
<1>2. PICK q, r : q = tok[k].producer /\ r = tok[other].producer
  OBVIOUS
<1>3. PICK changed : changed = [tok EXCEPT ![k] = tok[other], ![other] = tok[k]]
  OBVIOUS
<1>4. tok' = changed /\ prod' = Relinked({k, other}, changed)
  BY <1>3 DEF SwapTokens
<1>5. tok \in [Tokens -> [live : BOOLEAN, producer : Nat \union {None}]]
  BY <1>1, Links
<1>6. /\ changed[k].live /\ changed[k].producer = r
      /\ changed[other].live /\ changed[other].producer = q
      /\ \A j \in Tokens : j # k /\ j # other => changed[j] = tok[j]
      /\ changed \in [Tokens -> [live : BOOLEAN, producer : Nat \union {None}]]
  BY <1>1, <1>2, <1>3, <1>5
<1>7. \A i, j \in Tokens : tok[i].producer # None /\ tok[i].producer = tok[j].producer => i = j
  BY <1>1, Links
<1>8. q # None => q # r
  BY <1>1, <1>2, <1>7
<1>9. None \notin DOMAIN prod
  BY <1>1, Links
<1>10. /\ IsSeq(prod') /\ DOMAIN prod' = DOMAIN prod
       /\ \A p \in DOMAIN prod :
            /\ DOMAIN prod'[p] = ProducerFields /\ prod'[p].explicit = prod[p].explicit
            /\ prod'[p].inactive = prod[p].inactive
            /\ p = r => prod'[p].token = k
            /\ p = q => prod'[p].token = other
            /\ p # q /\ p # r => prod'[p].token = prod[p].token
  <2>0. PICK ks : ks = {k, other}
    OBVIOUS
  <2>1. ASSUME NEW p \in DOMAIN prod
        PROVE  /\ (\E j \in ks : changed[j].producer = p) <=> p = q \/ p = r
               /\ p = r => (CHOOSE j \in ks : changed[j].producer = p) = k
               /\ p = q => (CHOOSE j \in ks : changed[j].producer = p) = other
    <3>1. p # None
      BY <1>9
    <3>2. \A j \in ks : j = k \/ j = other
      BY <2>0
    <3>3. k \in ks /\ other \in ks
      BY <2>0
    <3>4. (\E j \in ks : changed[j].producer = p) <=> p = q \/ p = r
      BY <1>6, <3>2, <3>3
    <3>5. ASSUME p = r PROVE \A j \in ks : changed[j].producer = p <=> j = k
      BY <1>1, <1>6, <1>8, <3>1, <3>2, <3>5
    <3>6. ASSUME p = q PROVE \A j \in ks : changed[j].producer = p <=> j = other
      BY <1>1, <1>6, <1>8, <3>1, <3>2, <3>6
    <3> QED
      BY <3>3, <3>4, <3>5, <3>6
  <2>2. /\ IsSeq(prod') /\ DOMAIN prod' = DOMAIN prod
        /\ \A p \in DOMAIN prod :
             /\ DOMAIN prod'[p] = ProducerFields /\ prod'[p].explicit = prod[p].explicit
             /\ prod'[p].inactive = prod[p].inactive
             /\ prod'[p].token = IF \E j \in ks : changed[j].producer = p
                                 THEN CHOOSE j \in ks : changed[j].producer = p
                                 ELSE prod[p].token
    <3>1. prod' = Relinked(ks, changed) /\ ~destroyed
      BY <1>1, <1>4, <2>0
    <3> QED
      BY <3>1, RelinkedFields
  <2> QED
    BY <2>1, <2>2
<1>11. Hands
  <2>1. \A j \in Tokens : tok'[j] # tok[j] => Free(j)
    BY <1>1, <1>4, <1>6
  <2>2. \A j \in Tokens : tok'[j].producer # None =>
          tok'[j].live /\ \E i \in Tokens : tok[i].producer = tok'[j].producer
    <3>1. \A j \in Tokens : tok[j].producer # None => tok[j].live
      BY <1>1, Links
    <3> QED
      BY <1>2, <1>4, <1>6, <3>1
  <2>3. \A i, j \in Tokens : tok'[i].producer # None /\ tok'[i].producer = tok'[j].producer => i = j
    BY <1>2, <1>4, <1>6, <1>7
  <2> QED
    BY <1>1, <1>4, <1>6, <1>10, <2>1, <2>2, <2>3 DEF Hands
<1>12. TokensLinked'
  <2>1. PICK D : D = {j \in Tokens : \E u \in Threads : At(u, "deactivate") /\ th[u].tok = j}
    OBVIOUS
  <2>2. \A j \in Tokens : (\E u \in Threads : At(u, "deactivate")' /\ th'[u].tok = j) <=> j \in D
    BY <1>1, <2>1 DEF At
  <2>3. k \notin D /\ other \notin D
    BY <1>1, <2>1 DEF Free
  <2>4. \A p \in DOMAIN prod, j \in Tokens :
          prod[p].token = j <=> tok[j].live /\ tok[j].producer = p /\ j \notin D
    BY <1>1, <2>1, Links
  <2>5. ASSUME NEW p \in DOMAIN prod, NEW j \in Tokens
        PROVE  prod'[p].token = j <=> tok'[j].live /\ tok'[j].producer = p /\ j \notin D
    <3>0. /\ p = r => prod'[p].token = k
          /\ p = q => prod'[p].token = other
          /\ p # q /\ p # r => prod'[p].token = prod[p].token
          /\ p # None
      BY <1>9, <1>10
    <3>1. CASE j = k
      BY <1>1, <1>2, <1>4, <1>6, <1>8, <2>3, <2>4, <3>0, <3>1
    <3>2. CASE j = other
      BY <1>1, <1>2, <1>4, <1>6, <1>8, <2>3, <2>4, <3>0, <3>2
    <3>3. CASE j # k /\ j # other
      BY <1>2, <1>4, <1>6, <1>7, <2>4, <3>0, <3>3
    <3> QED
      BY <3>1, <3>2, <3>3
  <2> QED
    BY <1>1, <1>10, <2>2, <2>5 DEF TokensLinked
<1> QED
  BY <1>11, <1>12, HandsReg

(* ~ProducerToken: a token without a producer is gone at once, the others  *)
(* are unlinked first and nobody can use them any more.                    *)
LEMMA DropTokenReg ==
  ASSUME RegInv, NEW t \in Threads, UNCHANGED <<hashes, globalExplicitConsumerOffset>>,
         NEW k \in Tokens, DropToken(t, k)
  PROVE  RegInv'
<1>1. /\ ~destroyed /\ destroyed' = destroyed /\ list' = list /\ tables' = tables
      /\ Free(k) /\ tok[k].live /\ th[t].pc = "idle" /\ DOMAIN th = Threads
  BY Calls DEF DropToken, hashes
<1>2. PICK D : D = {j \in Tokens : \E u \in Threads : At(u, "deactivate") /\ th[u].tok = j}
  OBVIOUS
<1>3. k \notin D
  BY <1>1, <1>2 DEF Free
<1>4. \A p \in DOMAIN prod, j \in Tokens :
        prod[p].token = j <=> tok[j].live /\ tok[j].producer = p /\ j \notin D
  BY <1>1, <1>2, Links
<1>5. /\ tok \in [Tokens -> [live : BOOLEAN, producer : Nat \union {None}]]
      /\ IsSeq(prod) /\ prod = [p \in DOMAIN prod |-> prod[p]] /\ None \notin DOMAIN prod
      /\ \A p \in DOMAIN prod : DOMAIN prod[p] = ProducerFields
      /\ \A j \in Tokens : tok[j].producer # None => tok[j].live
      /\ \A i, j \in Tokens : tok[i].producer # None /\ tok[i].producer = tok[j].producer => i = j
  BY <1>1, Links
<1>6. CASE tok[k].producer = None
  <2>1. tok' = [tok EXCEPT ![k].live = FALSE] /\ prod' = prod /\ th' = th
    BY <1>6 DEF DropToken
  <2>2. /\ \A j \in Tokens : j # k => tok'[j] = tok[j]
        /\ ~tok'[k].live /\ tok'[k].producer = None
        /\ tok' \in [Tokens -> [live : BOOLEAN, producer : Nat \union {None}]]
    BY <1>5, <1>6, <2>1
  <2>3. Hands
    <3>1. \A j \in Tokens : tok'[j].producer # None =>
            tok'[j].live /\ \E i \in Tokens : tok[i].producer = tok'[j].producer
      BY <1>5, <2>2
    <3>2. \A i, j \in Tokens : tok'[i].producer # None /\ tok'[i].producer = tok'[j].producer => i = j
      BY <1>5, <2>2
    <3>3. \A j \in Tokens : tok'[j] # tok[j] => Free(j)
      BY <1>1, <2>2
    <3> QED
      BY <1>1, <1>5, <2>1, <2>2, <3>1, <3>2, <3>3 DEF Hands
  <2>4. TokensLinked'
    <3>1. \A j \in Tokens : (\E u \in Threads : At(u, "deactivate")' /\ th'[u].tok = j) <=> j \in D
      BY <1>2, <2>1 DEF At
    <3>2. ASSUME NEW p \in DOMAIN prod, NEW j \in Tokens
          PROVE  prod'[p].token = j <=> tok'[j].live /\ tok'[j].producer = p /\ j \notin D
      BY <1>4, <1>5, <1>6, <2>1, <2>2
    <3> QED
      BY <1>1, <2>1, <3>1, <3>2 DEF TokensLinked
  <2> QED
    BY <2>3, <2>4, HandsReg
<1>7. CASE tok[k].producer # None
  <2>0. PICK q : q = tok[k].producer
    OBVIOUS
  <2> DEFINE z == Idle({})
             l == [z EXCEPT !.tok = k]
             m == [l EXCEPT !.pc = "deactivate"]
  <2>1. tok' = tok /\ prod' = [prod EXCEPT ![q].token = None] /\ th' = [th EXCEPT ![t] = m]
    BY <1>7, <2>0 DEF DropToken, Goto
  <2>2. DOMAIN m = Fields /\ m.explicit = FALSE /\ m.tok = k /\ m.pc = "deactivate"
    <3>1. DOMAIN z = Fields /\ z.explicit = FALSE
      BY IdleFields
    <3> HIDE DEF z
    <3> QED
      BY <3>1 DEF Fields
  <2> HIDE DEF m
  <2>3. Moves(t) /\ th'[t] = m
    BY <1>1, <2>1, <2>2 DEF Moves
  <2>4. q \in DOMAIN prod
    BY <1>7, <2>0 DEF RegInv, TokenInv
  <2>5. /\ IsSeq(prod') /\ DOMAIN prod' = DOMAIN prod
        /\ \A p \in DOMAIN prod :
             /\ DOMAIN prod'[p] = ProducerFields /\ prod'[p].explicit = prod[p].explicit
             /\ prod'[p].inactive = prod[p].inactive
             /\ prod'[p].token = IF p = q THEN None ELSE prod[p].token
    <3>1. DOMAIN prod' = DOMAIN prod /\ prod' = [x \in DOMAIN prod' |-> prod'[x]]
      BY <2>1
    <3>2. IsSeq(prod')
      BY <1>5, <3>1, SeqDomain
    <3> QED
      BY <1>5, <2>1, <2>4, <3>1, <3>2 DEF ProducerFields
  <2>6. Shape'
    BY <1>1, <2>1, <2>3, <2>5 DEF RegInv, Shape, Moves
  <2>7. \A p : InTheList(p)' <=> InTheList(p)
    BY <1>1 DEF InTheList
  <2>8. \A u \in Threads : \A p : Mapped(u, p)' <=> Mapped(u, p)
    BY <1>1, SameTables
  <2>9. \A u \in Threads : \A p : Has(u, p)' => Has(u, p)
    BY <2>2, <2>3, <2>8 DEF Has, Obtains, Obtained, Moves
  <2>10. ASSUME NEW u \in Threads PROVE ThreadInv(u)'
    <3>1. CASE u = t
      BY <1>1, <1>7, <2>1, <2>2, <2>3, <3>1 DEF ThreadInv, InHash, InList, Obtained
    <3>2. CASE u # t
      <4>1. th'[u] = th[u] /\ ThreadInv(u) /\ \A i \in DOMAIN list : list[i] \in DOMAIN prod
        BY <2>3, <3>2 DEF RegInv, Moves, Shape
      <4>2. DOMAIN list = 1 .. Len(list)
        BY SeqLen DEF RegInv, Shape
      <4> QED
        BY <1>1, <2>1, <2>5, <2>7, <4>1, <4>2 DEF ThreadInv
    <3> QED
      BY <3>1, <3>2
  <2>11. ASSUME NEW j \in Tokens PROVE TokenInv(j)'
    BY <2>1, <2>5, <2>7 DEF RegInv, TokenInv
  <2>12. KindInv'
    BY <2>5, <2>8 DEF RegInv, KindInv
  <2>13. Exclusive'
    <3>1. ASSUME NEW v \in Threads, NEW u \in Threads, th'[v].tok # None, th'[v].tok = th'[u].tok
          PROVE  v = u
      BY <1>1, <2>2, <2>3, <3>1 DEF RegInv, Exclusive, Moves, Free
    <3>2. \A v, u \in Threads : \A p \in DOMAIN prod' : Has(v, p)' /\ Has(u, p)' => v = u
      BY <2>5, <2>9 DEF RegInv, Exclusive
    <3>3. ASSUME NEW j \in Tokens, NEW u \in Threads, NEW p, p = tok'[j].producer, p # None
          PROVE  ~Has(u, p)'
      BY <2>1, <2>9, <3>3 DEF RegInv, Exclusive
    <3> QED
      BY <1>5, <2>1, <3>1, <3>2, <3>3 DEF Exclusive
  <2>14. TokensLinked'
    <3>1. ASSUME NEW j \in Tokens
          PROVE  (\E u \in Threads : At(u, "deactivate")' /\ th'[u].tok = j) <=> j \in D \/ j = k
      <4>1. ASSUME NEW u \in Threads, u # t
            PROVE  (At(u, "deactivate")' /\ th'[u].tok = j) <=> (At(u, "deactivate") /\ th[u].tok = j)
        BY <2>3, <4>1 DEF At, Moves
      <4>2. (At(t, "deactivate")' /\ th'[t].tok = j) <=> j = k
        BY <2>2, <2>3 DEF At
      <4>3. ~At(t, "deactivate")
        BY <1>1 DEF At
      <4> QED
        BY <1>2, <4>1, <4>2, <4>3
    <3>2. ASSUME NEW p \in DOMAIN prod, NEW j \in Tokens
          PROVE  prod'[p].token = j <=> tok'[j].live /\ tok'[j].producer = p /\ ~(j \in D \/ j = k)
      <4>1. prod'[p].token = IF p = q THEN None ELSE prod[p].token
        BY <2>5
      <4>2. j # None
        BY RegistryAssumption
      <4>3. q # None /\ q = tok[k].producer
        BY <1>7, <2>0
      <4> QED
        BY <1>4, <1>5, <2>1, <4>1, <4>2, <4>3
    <3> QED
      BY <1>1, <2>5, <3>1, <3>2 DEF TokensLinked
  <2> QED
    BY <1>1, <2>6, <2>10, <2>11, <2>12, <2>13, <2>14 DEF RegInv
<1> QED
  BY <1>6, <1>7

(* The end of ~ProducerToken: the producer can be recycled.                *)
LEMMA DeactivateReg ==
  ASSUME RegInv, NEW t \in Threads, Deactivate(t)
  PROVE  RegInv'
<1>1. /\ th[t].pc = "deactivate" /\ ~destroyed /\ destroyed' = destroyed /\ list' = list
      /\ tables' = tables
  BY BusyAlive DEF Deactivate, At, Continues, hashes
<1>2. DOMAIN th = Threads /\ ThreadInv(t)
  BY DEF RegInv, Shape
<1>3. PICK k, q, z : k = th[t].tok /\ q = tok[k].producer /\ z = Idle({})
  OBVIOUS
<1>4. k \in Tokens /\ tok[k].live /\ q # None
  BY <1>1, <1>2, <1>3 DEF ThreadInv
<1>5. /\ prod' = [prod EXCEPT ![q].inactive = TRUE]
      /\ tok' = [tok EXCEPT ![k] = [live |-> FALSE, producer |-> None]]
      /\ th' = [th EXCEPT ![t] = z]
  BY <1>3 DEF Deactivate, Return
<1>6. DOMAIN z = Fields /\ z.explicit = FALSE /\ z.tok = None /\ z.pc = "idle" /\ z.p = None
  BY <1>3, IdleFields
<1>7. Moves(t) /\ th'[t] = z
  BY <1>2, <1>5, <1>6 DEF Moves
<1>8. /\ tok \in [Tokens -> [live : BOOLEAN, producer : Nat \union {None}]]
      /\ IsSeq(prod) /\ None \notin DOMAIN prod
      /\ \A p \in DOMAIN prod : DOMAIN prod[p] = ProducerFields
      /\ \A i, j \in Tokens : tok[i].producer # None /\ tok[i].producer = tok[j].producer => i = j
  BY <1>1, Links
<1>9. q \in DOMAIN prod /\ prod[q].explicit
  BY <1>3, <1>4 DEF RegInv, TokenInv
<1>10. /\ IsSeq(prod') /\ DOMAIN prod' = DOMAIN prod
       /\ \A p \in DOMAIN prod :
            /\ DOMAIN prod'[p] = ProducerFields /\ prod'[p].explicit = prod[p].explicit
            /\ p # q => prod'[p].inactive = prod[p].inactive
            /\ p = q => prod'[p].inactive = TRUE
            /\ prod'[p].token = prod[p].token
  <2>1. DOMAIN prod' = DOMAIN prod /\ prod' = [x \in DOMAIN prod' |-> prod'[x]]
    BY <1>5
  <2>2. IsSeq(prod')
    BY <1>8, <2>1, SeqDomain
  <2> QED
    BY <1>5, <1>8, <1>9, <2>1, <2>2 DEF ProducerFields
<1>11. /\ \A j \in Tokens : j # k => tok'[j] = tok[j]
       /\ ~tok'[k].live /\ tok'[k].producer = None
       /\ tok' \in [Tokens -> [live : BOOLEAN, producer : Nat \union {None}]]
  BY <1>4, <1>5, <1>8
<1>12. Shape'
  <2>1. \A p \in DOMAIN prod : prod[p].explicit \in BOOLEAN /\ prod[p].inactive \in BOOLEAN
    BY DEF RegInv, Shape
  <2>2. \A p \in DOMAIN prod' : /\ DOMAIN prod'[p] = ProducerFields
                                /\ prod'[p].explicit \in BOOLEAN /\ prod'[p].inactive \in BOOLEAN
    BY <1>10, <2>1
  <2> QED
    BY <1>1, <1>7, <1>10, <1>11, <2>2 DEF RegInv, Shape, Moves
<1>13. \A p : InTheList(p)' <=> InTheList(p)
  BY <1>1 DEF InTheList
<1>14. \A u \in Threads : \A p : Mapped(u, p)' <=> Mapped(u, p)
  BY <1>1, SameTables
<1>15. \A u \in Threads : \A p : Has(u, p)' => Has(u, p)
  BY <1>6, <1>7, <1>14 DEF Has, Obtains, Obtained, Moves
<1>16. \A u \in Threads : ~Has(u, q) /\ (u # t => th[u].tok # k)
  <2>1. k # None
    BY <1>4, RegistryAssumption
  <2> QED
    BY <1>3, <1>4, <2>1 DEF RegInv, Exclusive
<1>17. ASSUME NEW u \in Threads PROVE ThreadInv(u)'
  <2>1. CASE u = t
    BY <1>6, <1>7, <2>1 DEF ThreadInv, InHash, InList, Obtained
  <2>2. CASE u # t
    <3>1. th'[u] = th[u] /\ ThreadInv(u) /\ \A i \in DOMAIN list : list[i] \in DOMAIN prod
      BY <1>7, <2>2 DEF RegInv, Moves, Shape
    <3>2. DOMAIN list = 1 .. Len(list)
      BY SeqLen DEF RegInv, Shape
    <3>3. th[u].tok # k /\ (th[u].pc \in Obtained => th[u].p # q)
      BY <1>16, <2>2 DEF Has, Obtains
    <3> QED
      BY <1>1, <1>10, <1>11, <1>13, <3>1, <3>2, <3>3 DEF ThreadInv
  <2> QED
    BY <2>1, <2>2
<1>18. ASSUME NEW j \in Tokens PROVE TokenInv(j)'
  <2>1. CASE j = k
    BY <1>11, <2>1 DEF TokenInv
  <2>2. CASE j # k
    <3>1. TokenInv(j) /\ tok'[j] = tok[j] /\ tok[j].producer # q
      BY <1>3, <1>4, <1>8, <1>11, <2>2 DEF RegInv
    <3> QED
      BY <1>10, <1>13, <3>1 DEF TokenInv
  <2> QED
    BY <2>1, <2>2
<1>19. KindInv'
  BY <1>9, <1>10, <1>14 DEF RegInv, KindInv
<1>20. Exclusive'
  <2>1. ASSUME NEW v \in Threads, NEW u \in Threads, th'[v].tok # None, th'[v].tok = th'[u].tok
        PROVE  v = u
    BY <1>6, <1>7, <2>1 DEF RegInv, Exclusive, Moves
  <2>2. \A v, u \in Threads : \A p \in DOMAIN prod' : Has(v, p)' /\ Has(u, p)' => v = u
    BY <1>10, <1>15 DEF RegInv, Exclusive
  <2>3. ASSUME NEW j \in Tokens, NEW u \in Threads, NEW p, p = tok'[j].producer, p # None
        PROVE  ~Has(u, p)'
    <3>1. p = tok[j].producer
      BY <1>11, <2>3
    <3> QED
      BY <1>15, <2>3, <3>1 DEF RegInv, Exclusive
  <2>4. \A i, j \in Tokens : tok'[i].producer # None /\ tok'[i].producer = tok'[j].producer => i = j
    BY <1>8, <1>11
  <2> QED
    BY <2>1, <2>2, <2>3, <2>4 DEF Exclusive
<1>21. TokensLinked'
  <2>1. PICK D : D = {j \in Tokens : \E u \in Threads : At(u, "deactivate") /\ th[u].tok = j}
    OBVIOUS
  <2>2. ASSUME NEW j \in Tokens, j # k
        PROVE  (\E u \in Threads : At(u, "deactivate")' /\ th'[u].tok = j) <=> j \in D
    <3>1. ASSUME NEW u \in Threads
          PROVE  (At(u, "deactivate")' /\ th'[u].tok = j) <=> (At(u, "deactivate") /\ th[u].tok = j)
      BY <1>3, <1>6, <1>7, <2>2 DEF At, Moves
    <3> QED
      BY <2>1, <3>1
  <2>3. k \in D
    BY <1>1, <1>3, <1>4, <2>1 DEF At
  <2>4. \A p \in DOMAIN prod, j \in Tokens :
          prod[p].token = j <=> tok[j].live /\ tok[j].producer = p /\ j \notin D
    BY <1>1, <2>1, Links
  <2>5. ASSUME NEW p \in DOMAIN prod, NEW j \in Tokens
        PROVE  prod'[p].token = j <=>
                 /\ tok'[j].live /\ tok'[j].producer = p
                 /\ ~\E u \in Threads : At(u, "deactivate")' /\ th'[u].tok = j
    <3>1. CASE j = k
      <4>1. prod'[p].token # k
        BY <1>4, <1>10, <2>3, <2>4
      <4> QED
        BY <1>11, <3>1, <4>1
    <3>2. CASE j # k
      BY <1>10, <1>11, <2>2, <2>4, <3>2
    <3> QED
      BY <3>1, <3>2
  <2> QED
    BY <1>1, <1>10, <2>5 DEF TokensLinked
<1> QED
  BY <1>1, <1>12, <1>17, <1>18, <1>19, <1>20, <1>21 DEF RegInv

(* The empty sequence.                                                     *)
LEMMA EmptySeq == IsSeq(<<>>) /\ DOMAIN <<>> = {} /\ Len(<<>>) = 0
<1>1. PICK S : S = {<<>>[i] : i \in DOMAIN <<>>}
  OBVIOUS
<1>2. <<>> \in Seq(S) /\ DOMAIN <<>> = {} /\ Len(<<>>) = 0
  OBVIOUS
<1> QED
  BY <1>1, <1>2 DEF IsSeq

(* ~ConcurrentQueue reaches every token that still has a producer.         *)
LEMMA DestroyReg ==
  ASSUME RegInv, Destroy
  PROVE  RegInv'
<1>1. /\ ~destroyed /\ destroyed' /\ list' = <<>> /\ prod' = prod /\ tables' = tables /\ th' = th
      /\ \A t \in Threads : th[t].pc = "idle" /\ th[t].tok = None
  BY ThreadFields DEF Destroy, At, hashes
<1>2. PICK owners : /\ owners = {prod[list[i]].token : i \in DOMAIN list} \ {None}
                    /\ tok' = [k \in Tokens |-> IF k \in owners THEN [tok[k] EXCEPT !.producer = None]
                                                ELSE tok[k]]
  BY DEF Destroy
<1>3. tok \in [Tokens -> [live : BOOLEAN, producer : Nat \union {None}]]
  BY DEF RegInv, Shape
<1>4. ASSUME NEW k \in Tokens PROVE tok'[k] \in [live : BOOLEAN, producer : {None}]
  <2>1. CASE k \in owners
    <3>1. tok'[k] = [tok[k] EXCEPT !.producer = None]
      BY <1>2, <2>1
    <3> QED
      BY <1>3, <3>1
  <2>2. CASE k \notin owners
    <3>1. tok'[k] = tok[k]
      BY <1>2, <2>2
    <3>2. tok[k].producer = None
      <4>1. SUFFICES ASSUME tok[k].producer # None PROVE FALSE
        OBVIOUS
      <4>2. tok[k].live /\ tok[k].producer \in DOMAIN prod /\ InTheList(tok[k].producer)
        BY <4>1 DEF RegInv, TokenInv
      <4>3. prod[tok[k].producer].token = k
        BY <1>1, <4>2, Links DEF At
      <4>4. k # None
        BY RegistryAssumption
      <4> QED
        BY <1>2, <2>2, <4>2, <4>3, <4>4 DEF InTheList
    <3> QED
      BY <1>3, <3>1, <3>2
  <2> QED
    BY <2>1, <2>2
<1>5. Shape'
  <2>1. tok' \in [Tokens -> [live : BOOLEAN, producer : Nat \union {None}]]
    BY <1>2, <1>4
  <2>2. IsSeq(list') /\ \A i \in DOMAIN list' : list'[i] \in DOMAIN prod'
    BY <1>1, EmptySeq
  <2> QED
    BY <1>1, <2>1, <2>2 DEF RegInv, Shape
<1>6. ASSUME NEW u \in Threads PROVE ThreadInv(u)'
  <2>1. th[u].explicit \in BOOLEAN
    BY ThreadFields
  <2> QED
    BY <1>1, <2>1 DEF ThreadInv, InHash, InList, Obtained
<1>7. \A k \in Tokens : tok'[k].producer = None
  BY <1>4
<1>8. \A u \in Threads : \A p : Mapped(u, p)' <=> Mapped(u, p)
  BY <1>1, SameTables
<1>9. KindInv'
  BY <1>1, <1>8 DEF RegInv, KindInv
<1>10. \A u \in Threads : \A p : Has(u, p)' <=> Has(u, p)
  BY <1>1, <1>8 DEF Has, Obtains
<1>11. Exclusive'
  <2>1. \A t, u \in Threads : th'[t].tok # None /\ th'[t].tok = th'[u].tok => t = u
    BY <1>1
  <2>2. \A t, u \in Threads : \A p \in DOMAIN prod' : Has(t, p)' /\ Has(u, p)' => t = u
    BY <1>1, <1>10 DEF RegInv, Exclusive
  <2> QED
    BY <1>7, <2>1, <2>2 DEF Exclusive
<1> QED
  BY <1>1, <1>5, <1>6, <1>7, <1>9, <1>11 DEF RegInv, TokensLinked, TokenInv

(***************************************************************************)
(* The theorems                                                            *)
(***************************************************************************)

(* Initially there are neither producers nor tokens, and the table is      *)
(* empty.                                                                  *)
LEMMA InitReg == Init => RegInv
<1> SUFFICES ASSUME Init PROVE RegInv
  OBVIOUS
<1>1. PICK z : z = Idle({})
  OBVIOUS
<1>2. DOMAIN z = Fields /\ z.explicit = FALSE /\ z.tok = None /\ z.pc = "idle" /\ z.p = None
  BY <1>1, IdleFields
<1>3. DOMAIN th = Threads /\ \A t \in Threads : th[t] = z
  BY <1>1 DEF Init
<1>4. prod = <<>> /\ list = <<>> /\ ~destroyed
  BY DEF Init
<1>5. tok = [k \in Tokens |-> [live |-> FALSE, producer |-> None]]
  BY DEF Init
<1>6. IsSeq(tables) /\ DOMAIN tables = {1} /\ tables[1] = EmptyTable(InitialCapacity)
  <2>1. PICK e : e = EmptyTable(InitialCapacity)
    OBVIOUS
  <2>2. tables = <<e>>
    BY <2>1 DEF Init
  <2>3. PICK S : S = {tables[i] : i \in DOMAIN tables}
    OBVIOUS
  <2>4. DOMAIN tables = {1} /\ tables[1] = e
    BY <2>2
  <2>5. e \in S
    BY <2>3, <2>4
  <2>6. tables \in Seq(S)
    BY <2>2, <2>5
  <2> QED
    BY <2>1, <2>3, <2>4, <2>6 DEF IsSeq
<1>7. Shape
  <2>1. tok \in [Tokens -> [live : BOOLEAN, producer : Nat \union {None}]]
    BY <1>5
  <2> QED
    BY <1>2, <1>3, <1>4, <1>6, <2>1, EmptySeq DEF Shape
<1>8. ASSUME NEW t \in Threads PROVE ThreadInv(t)
  BY <1>2, <1>3 DEF ThreadInv, InHash, InList, Obtained
<1>9. \A k \in Tokens : TokenInv(k) /\ tok[k].producer = None
  BY <1>5 DEF TokenInv
<1>10. ASSUME NEW t \in Threads, NEW p PROVE ~Mapped(t, p)
  <2>1. t # None
    BY RegistryAssumption
  <2>2. \A i \in DOMAIN EmptyTable(InitialCapacity) : EmptyTable(InitialCapacity)[i].key = None
    BY DEF EmptyTable
  <2> QED
    BY <1>6, <2>1, <2>2 DEF Mapped, Slot
<1>11. DOMAIN prod = {}
  BY <1>4, EmptySeq
<1>12. KindInv
  BY <1>10, <1>11 DEF KindInv
<1>13. Exclusive
  BY <1>2, <1>3, <1>9, <1>11 DEF Exclusive
<1>14. TokensLinked
  BY <1>4, <1>11 DEF TokensLinked
<1> QED
  BY <1>4, <1>7, <1>8, <1>9, <1>12, <1>13, <1>14 DEF RegInv

(* Nothing the invariant speaks of changes in a stuttering step.           *)
LEMMA StutterReg == RegInv /\ UNCHANGED vars => RegInv'
<1> SUFFICES ASSUME RegInv, UNCHANGED vars PROVE RegInv'
  OBVIOUS
<1>1. /\ prod' = prod /\ list' = list /\ tok' = tok /\ tables' = tables /\ th' = th
      /\ destroyed' = destroyed
  BY DEF vars, producers, tokens, hashes
<1>2. Shape' /\ TokensLinked'
  BY <1>1 DEF RegInv, Shape, TokensLinked, At
<1>3. \A t \in Threads : ThreadInv(t)'
  BY <1>1 DEF RegInv, ThreadInv, InTheList
<1>4. \A k \in Tokens : TokenInv(k)'
  BY <1>1 DEF RegInv, TokenInv, InTheList
<1>5. \A t \in Threads : \A p : (Mapped(t, p)' <=> Mapped(t, p)) /\ (Has(t, p)' <=> Has(t, p))
  BY <1>1, SameTables DEF Has, Obtains
<1>6. KindInv' /\ Exclusive'
  BY <1>1, <1>5 DEF RegInv, KindInv, Exclusive
<1> QED
  BY <1>1, <1>2, <1>3, <1>4, <1>6 DEF RegInv

(* Every step keeps the invariant.                                         *)
LEMMA StepReg == RegInv /\ [Next]_vars => RegInv'
<1> SUFFICES ASSUME RegInv, [Next]_vars PROVE RegInv'
  OBVIOUS
<1>1. ASSUME NEW t \in Threads, NEW n, EnqueueImplicit(t, n) PROVE RegInv'
  BY <1>1, EnqueueImplicitReg
<1>2. ASSUME NEW t \in Threads, HashStep(t) \/ ListStep(t) PROVE RegInv'
  BY <1>2, HashReg, ListReg
<1>3. ASSUME NEW t \in Threads, Assign(t) \/ Enqueue(t) PROVE RegInv'
  BY <1>3, AssignReg, EnqueueReg
<1>4. ASSUME NEW t \in Threads, TokenCall(t) PROVE RegInv'
  <2>1. UNCHANGED <<hashes, globalExplicitConsumerOffset>>
    BY <1>4 DEF TokenCall
  <2>2. ASSUME NEW k \in Tokens, DropToken(t, k) PROVE RegInv'
    BY <2>1, <2>2, DropTokenReg
  <2>3. ASSUME NEW k \in Tokens, NEW l \in Tokens, MoveToken(t, k, l) PROVE RegInv'
    BY <2>1, <2>3, MoveTokenReg
  <2>4. ASSUME NEW k \in Tokens, NEW l \in Tokens, SwapTokens(t, k, l) PROVE RegInv'
    BY <2>1, <2>4, SwapTokensReg
  <2>5. CASE \/ \E k \in Tokens : NewToken(t, k) \/ \E n \in 1 .. left.bulk : EnqueueToken(t, k, n)
             \/ \E c \in ConsumerTokens : NewConsumer(t, c)
                  \/ \E d \in ConsumerTokens : MoveConsumer(t, c, d) \/ SwapConsumers(t, c, d)
    BY <2>1, <2>5, TokenUseReg
  <2> QED
    BY <1>4, <2>2, <2>3, <2>4, <2>5 DEF TokenCall
<1>5. ASSUME NEW t \in Threads, Deactivate(t) \/ Turn(t) PROVE RegInv'
  BY <1>5, DeactivateReg, TurnReg
<1>6. ASSUME NEW t \in Threads, Dequeue(t) PROVE RegInv'
  <2>1. UNCHANGED <<tok, nextExplicitConsumerId, globalExplicitConsumerOffset, hashes>>
    BY <1>6 DEF Dequeue
  <2>2. CASE DequeueCall(t)
    BY <2>1, <2>2, DequeueCallReg
  <2>3. CASE DequeueStep(t) /\ Continues
    BY <2>1, <2>3, DequeueStepReg
  <2> QED
    BY <1>6, <2>2, <2>3 DEF Dequeue
<1>7. CASE Destroy
  BY <1>7, DestroyReg
<1>8. CASE UNCHANGED vars
  BY <1>8, StutterReg
<1> QED
  BY <1>1, <1>2, <1>3, <1>4, <1>5, <1>6, <1>7, <1>8 DEF Next

(* The invariant gives every producer at most one owner.                   *)
LEMMA OneOwnerFollows == RegInv => OneOwner
<1> SUFFICES ASSUME RegInv, NEW p \in DOMAIN prod
             PROVE  Cardinality(Owners(p)) <= 1 /\ (prod[p].inactive => Owners(p) = {})
  BY DEF OneOwner
<1>1. p # None
  <2>1. DOMAIN prod = 1 .. Len(prod)
    BY SeqLen DEF RegInv, Shape
  <2> QED
    BY <2>1, RegistryAssumption
<1> DEFINE ByToken(k) == k \in Tokens /\ tok[k].live /\ tok[k].producer = p
           ByTable(t) == t \in Threads /\ Mapped(t, p)
           ByCall(t)  == t \in Threads /\ Obtains(t, p)
           Name(t)    == IF th[t].explicit THEN th[t].tok ELSE t
<1>2. \A x \in Owners(p) : ByToken(x) \/ ByTable(x) \/ \E t : ByCall(t) /\ x = Name(t)
  BY DEF Owners, Obtaining, Mapped, Obtains, Obtained
<1>3. ASSUME NEW t, ByCall(t)
      PROVE  th[t].explicit = prod[p].explicit /\ ~prod[p].inactive
  BY <1>1, <1>3 DEF RegInv, ThreadInv, Obtains
<1>4. ASSUME NEW t, ByTable(t) PROVE ~prod[p].explicit /\ ~prod[p].inactive
  BY <1>4 DEF RegInv, KindInv
<1>5. ASSUME NEW k, ByToken(k) PROVE prod[p].explicit /\ ~prod[p].inactive
  BY <1>1, <1>5 DEF RegInv, TokenInv
<1>6. prod[p].inactive => Owners(p) = {}
  BY <1>2, <1>3, <1>4, <1>5
<1>7. ASSUME NEW x \in Owners(p), NEW y \in Owners(p) PROVE x = y
  <2>1. ASSUME NEW k, NEW j, ByToken(k), ByToken(j) PROVE k = j
    BY <1>1, <2>1 DEF RegInv, Exclusive
  <2>2. ASSUME NEW t, NEW u, ByTable(t) \/ ByCall(t), ByTable(u) \/ ByCall(u) PROVE t = u
    BY <2>2 DEF RegInv, Exclusive, Has
  <2>3. ASSUME NEW k, NEW t, ByToken(k), ByTable(t) \/ ByCall(t) PROVE FALSE
    BY <1>1, <2>3 DEF RegInv, Exclusive, Has
  <2>4. ASSUME NEW t, NEW u, ByTable(t), ByCall(u) PROVE Name(u) = t
    <3>1. ~th[u].explicit
      BY <1>3, <1>4, <2>4
    <3>2. t = u
      BY <2>2, <2>4
    <3> QED
      BY <3>1, <3>2
  <2> HIDE DEF ByToken, ByTable, ByCall, Name
  <2> QED
    BY <1>2, <2>1, <2>2, <2>3, <2>4
<1>8. Cardinality(Owners(p)) <= 1
  <2>1. CASE Owners(p) = {}
    BY <2>1, FS_EmptySet
  <2>2. CASE Owners(p) # {}
    <3>1. PICK x : x \in Owners(p)
      BY <2>2
    <3>2. Owners(p) = {x}
      BY <1>7, <3>1
    <3>3. Cardinality(Owners(p)) = 1
      BY <3>2, FS_Singleton
    <3> QED
      BY <3>3
  <2> QED
    BY <2>1, <2>2
<1> QED
  BY <1>6, <1>8

(* A sub-queue has one owner at a time: its token, the thread a hash table *)
(* gives it to, or the call that has just obtained it; none while it waits *)
(* to be recycled.  For any number of threads, tokens, producers and       *)
(* tables.                                                                 *)
THEOREM OneOwnerAlways == Spec => []OneOwner
<1>1. Spec => []RegInv
  BY InitReg, StepReg, PTL DEF Spec
<1> QED
  BY <1>1, OneOwnerFollows, PTL

(* The token field of a producer names the live token that has it, through *)
(* construction, moves, swaps and recycling; after ~ConcurrentQueue no     *)
(* token has a freed producer.                                             *)
THEOREM TokensLinkedAlways == Spec => []TokensLinked
<1>1. Spec => []RegInv
  BY InitReg, StepReg, PTL DEF Spec
<1>2. RegInv => TokensLinked
  BY DEF RegInv
<1> QED
  BY <1>1, <1>2, PTL

-----------------------------------------------------------------------------
(* A call that has counted itself and is not in a table yet.               *)
Counting(t) == \/ th[t].pc \in {"resize", "resizing", "unlock", "choose"}
               \/ th[t].pc \in InList /\ ~th[t].explicit
Placing(t)  == \/ th[t].pc \in InList /\ ~th[t].explicit
               \/ th[t].pc = "probe"

(* The threads implicitProducerHashCount counts.                           *)
Counted == {t \in Threads : Counting(t) \/ th[t].pc = "probe" \/ KnownIn(t) # {}}

(* A table is used by those whose count was below this.                    *)
Limit(h) == Capacity(h) \div 2 + Capacity(h) \div 4

(* The rank r of a thread is the count it read when it counted itself.     *)
CallerInv(t, r) ==
  LET l == th[t] IN
  /\ l.recycled => l.explicit
  /\ Counting(t) \/ l.pc \in {"count", "fail"} => KnownIn(t) = {}
  /\ Counting(t) => r[t] = l.newCount
  /\ Counting(t) \/ l.pc \in {"count", "probe"} => l.main \in DOMAIN tables /\ l.at \in Nat
  /\ Placing(t) => r[t] < Limit(l.main) /\ Slot(t, l.main) = {}

TableInv(r) ==
  /\ Len(tables) >= 1
  /\ \A h \in DOMAIN tables :
       /\ Capacity(h) \in Nat \ {0} /\ DOMAIN tables[h] = 0 .. Capacity(h) - 1
       /\ \A g \in DOMAIN tables : g <= h => Capacity(g) <= Capacity(h)
       /\ \A i \in DOMAIN tables[h] : tables[h][i].key \in Threads \union {None}
       /\ \A t \in Threads : /\ Slot(t, h) # {} => r[t] < Limit(h)
                             /\ \A i, j \in Slot(t, h) : i = j

(* At most m of the counted threads read a count up to m.                  *)
RankInv(r) ==
  /\ IsFiniteSet(Counted) /\ implicitProducerHashCount = Cardinality(Counted)
  /\ \A m \in Nat : Cardinality({t \in Counted : r[t] <= m}) <= m

HashInv(r) == (\A t \in Threads : CallerInv(t, r)) /\ TableInv(r) /\ RankInv(r)

(***************************************************************************)
(* Ranks leave a slot free                                                 *)
(***************************************************************************)

(* A full table would hold more threads than have a rank below its limit.  *)
LEMMA FreeSlotFollows ==
  ASSUME NEW r \in [Threads -> Nat], HashInv(r)
  PROVE  FreeSlot
<1> SUFFICES ASSUME NEW h \in DOMAIN tables, Slot(None, h) = {} PROVE FALSE
  BY DEF FreeSlot
<1>1. PICK c \in Nat \ {0} : c = Capacity(h)
  BY DEF HashInv, TableInv
<1> DEFINE D == DOMAIN tables[h]
           f == [i \in D |-> tables[h][i].key]
           b == c \div 2 + c \div 4
           T == {t \in Counted : r[t] <= b - 1}
<1>2. D = 0 .. c - 1
  BY <1>1 DEF HashInv, TableInv
<1>3. b \in Nat /\ b <= c /\ Limit(h) = b
  BY <1>1 DEF Limit
<1>4. ASSUME NEW i \in D
      PROVE  f[i] \in Counted /\ r[f[i]] \in Nat /\ r[f[i]] < b /\ i \in Slot(f[i], h)
  <2>1. f[i] \in Threads /\ f[i] = tables[h][i].key
    BY DEF HashInv, TableInv, Slot
  <2> HIDE DEF f
  <2>2. i \in Slot(f[i], h)
    BY <2>1 DEF Slot
  <2>3. f[i] \in Counted
    BY <2>1, <2>2 DEF Counted, KnownIn
  <2>4. r[f[i]] < Limit(h)
    BY <2>1, <2>2 DEF HashInv, TableInv
  <2> QED
    BY <1>3, <2>1, <2>2, <2>3, <2>4
<1>5. b >= 1
  <2>1. 0 \in D
    BY <1>1, <1>2
  <2>2. r[f[0]] \in Nat /\ r[f[0]] < b
    BY <1>4, <2>1
  <2> QED
    BY <1>3, <2>2
<1>6. IsFiniteSet(T) /\ Cardinality(T) \in Nat /\ Cardinality(T) <= b - 1
  <2>1. IsFiniteSet(Counted) /\ T \in SUBSET Counted
    BY DEF HashInv, RankInv
  <2>2. IsFiniteSet(T) /\ Cardinality(T) \in Nat
    BY <2>1, FS_Subset, FS_CardinalityType
  <2>3. b - 1 \in Nat
    BY <1>3, <1>5
  <2>4. Cardinality(T) <= b - 1
    BY <2>3 DEF HashInv, RankInv
  <2> QED
    BY <2>2, <2>4
<1>7. IsFiniteSet(D) /\ Cardinality(D) = c
  BY <1>1, <1>2, FS_Interval
<1>8. f \in [D -> T]
  <2>1. ASSUME NEW i \in D PROVE f[i] \in T
    BY <1>3, <1>4
  <2> HIDE DEF T
  <2> QED
    BY <2>1
<1> HIDE DEF T, f, D, b
<1>9. Cardinality(T) < Cardinality(D)
  BY <1>1, <1>3, <1>6, <1>7
<1>10. PICK i \in D, j \in D : i # j /\ f[i] = f[j]
  BY <1>6, <1>7, <1>8, <1>9, FS_PigeonHole
<1>11. f[i] \in Threads
  BY <1>4 DEF Counted
<1> QED
  BY <1>4, <1>10, <1>11 DEF HashInv, TableInv

(***************************************************************************)
(* Steps and the threads that do not take them                             *)
(***************************************************************************)

(* What is known of a call stays true while its entries stay the same.     *)
LEMMA CallerKept ==
  ASSUME NEW u \in Threads, NEW r, NEW s, s[u] = r[u], CallerInv(u, r), th'[u] = th[u],
         \A h \in DOMAIN tables : /\ h \in DOMAIN tables' /\ Capacity(h)' = Capacity(h)
                                  /\ Slot(u, h)' = Slot(u, h),
         KnownIn(u)' = KnownIn(u)
  PROVE  CallerInv(u, s)'
<1>1. /\ Counting(u)' <=> Counting(u)
      /\ Placing(u)' <=> Placing(u)
  BY DEF Counting, Placing
<1>2. Placing(u) => Counting(u) \/ th[u].pc = "probe"
  BY DEF Counting, Placing
<1>3. \A h \in DOMAIN tables : Limit(h)' = Limit(h)
  BY DEF Limit
<1> QED
  BY <1>1, <1>2, <1>3 DEF CallerInv

(* The entries of unchanged tables.                                        *)
LEMMA TablesKept ==
  ASSUME tables' = tables
  PROVE  /\ \A h : Capacity(h)' = Capacity(h) /\ Limit(h)' = Limit(h)
         /\ \A u, h : Slot(u, h)' = Slot(u, h)
         /\ \A u : KnownIn(u)' = KnownIn(u)
         /\ \A r : TableInv(r) => TableInv(r)'
BY DEF Capacity, Limit, Slot, KnownIn, TableInv

(* A thread counts neither more nor less, in unchanged tables.             *)
LEMMA KeepHash ==
  ASSUME NEW r, HashInv(r), NEW t \in Threads, \A u \in Threads : u # t => th'[u] = th[u],
         tables' = tables, implicitProducerHashCount' = implicitProducerHashCount,
         CallerInv(t, r)',
         Counting(t)' \/ th'[t].pc = "probe" \/ KnownIn(t) # {}
           <=> Counting(t) \/ th[t].pc = "probe" \/ KnownIn(t) # {}
  PROVE  HashInv(r)'
<1>1. \A u \in Threads : CallerInv(u, r)'
  <2> SUFFICES ASSUME NEW u \in Threads, u # t PROVE CallerInv(u, r)'
    OBVIOUS
  <2> QED
    BY CallerKept, TablesKept DEF HashInv
<1>2. Counted' = Counted
  <2>1. ASSUME NEW u \in Threads, u # t PROVE Counting(u)' <=> Counting(u)
    BY <2>1 DEF Counting
  <2> QED
    BY <2>1, TablesKept DEF Counted
<1>3. RankInv(r)'
  BY <1>2 DEF HashInv, RankInv
<1> QED
  BY <1>1, <1>3, TablesKept DEF HashInv

(* Nobody moves and the tables stay.                                       *)
LEMMA StillHash ==
  ASSUME NEW r, HashInv(r), th' = th, UNCHANGED hashes
  PROVE  HashInv(r)'
<1>1. ASSUME NEW u \in Threads PROVE CallerInv(u, r)'
  <2>1. CallerInv(u, r) /\ th'[u] = th[u] /\ r[u] = r[u]
    BY DEF HashInv
  <2> QED
    BY <2>1, CallerKept, TablesKept DEF hashes
<1>2. Counted' = Counted
  BY TablesKept DEF Counted, Counting, hashes
<1>3. RankInv(r)'
  BY <1>2 DEF HashInv, RankInv, hashes
<1> QED
  BY <1>1, <1>3, TablesKept DEF HashInv, hashes

(* A thread that is not entering a table before or after its step.         *)
Away(t) ==
  \/ th[t].pc \in InDequeue \union {"idle", "enqueue", "deactivate"}
  \/ th[t].pc \in InList /\ th[t].explicit

(* Such a step keeps the invariant.                                        *)
LEMMA AwayHash ==
  ASSUME NEW r, HashInv(r), NEW t \in Threads, \A u \in Threads : u # t => th'[u] = th[u],
         UNCHANGED hashes, Away(t), Away(t)', th'[t].recycled => th'[t].explicit
  PROVE  HashInv(r)'
<1>1. ~Counting(t) /\ th[t].pc # "probe"
  BY DEF Away, Counting, InDequeue, InList
<1>2. ~Counting(t)' /\ ~Placing(t)' /\ th'[t].pc \notin {"probe", "count", "fail"}
  BY DEF Away, Counting, Placing, InDequeue, InList
<1>3. CallerInv(t, r)'
  BY <1>2 DEF CallerInv
<1> QED
  BY <1>1, <1>2, <1>3, KeepHash DEF hashes

(* What a call in the hash tables keeps.                                   *)
LEMMA GotoHash ==
  ASSUME RegInv, NEW t \in Threads, NEW l, DOMAIN l = Fields, NEW pc, Goto(t, l, pc)
  PROVE  /\ \A u \in Threads : u # t => th'[u] = th[u]
         /\ th'[t].pc = pc /\ th'[t].explicit = l.explicit /\ th'[t].recycled = l.recycled
         /\ th'[t].main = l.main /\ th'[t].newCount = l.newCount /\ th'[t].at = l.at
         /\ th'[t].p = l.p
<1>1. DOMAIN th = Threads
  BY DEF RegInv, Shape
<1> QED
  BY <1>1 DEF Goto, Fields

(* A call that ends.                                                       *)
LEMMA ReturnHash ==
  ASSUME RegInv, NEW t \in Threads, NEW m, th' = [th EXCEPT ![t] = Idle(m)]
  PROVE  /\ \A u \in Threads : u # t => th'[u] = th[u]
         /\ th'[t].pc = "idle" /\ th'[t].explicit = FALSE /\ th'[t].recycled = FALSE
         /\ Away(t)' /\ (th'[t].recycled => th'[t].explicit)
<1>1. DOMAIN th = Threads
  BY DEF RegInv, Shape
<1>2. Idle(m).pc = "idle" /\ Idle(m).explicit = FALSE /\ Idle(m).recycled = FALSE
  BY DEF Idle
<1> QED
  BY <1>1, <1>2 DEF Away

(* The numbers of the tables.                                              *)
LEMMA TableNumbers ==
  ASSUME RegInv, NEW r, HashInv(r)
  PROVE  /\ IsSeq(tables) /\ Len(tables) \in Nat /\ DOMAIN tables = 1 .. Len(tables)
         /\ Len(tables) \in DOMAIN tables
<1>1. IsSeq(tables) /\ Len(tables) \in Nat /\ DOMAIN tables = 1 .. Len(tables)
  BY SeqLen DEF RegInv, Shape
<1>2. Len(tables) >= 1
  BY DEF HashInv, TableInv
<1> QED
  BY <1>1, <1>2

(* A larger table has a higher limit.                                      *)
LEMMA LimitGrows ==
  ASSUME NEW r, HashInv(r), NEW g \in DOMAIN tables, NEW h \in DOMAIN tables, g <= h
  PROVE  Limit(g) \in Nat /\ Limit(h) \in Nat /\ Limit(g) <= Limit(h)
<1>1. Capacity(g) \in Nat /\ Capacity(h) \in Nat /\ Capacity(g) <= Capacity(h)
  BY DEF HashInv, TableInv
<1>2. PICK a \in Nat, b \in Nat : a = Capacity(g) /\ b = Capacity(h) /\ a <= b
  BY <1>1
<1>3. a \div 2 + a \div 4 <= b \div 2 + b \div 4 /\ a \div 2 + a \div 4 \in Nat
      /\ b \div 2 + b \div 4 \in Nat
  BY <1>2
<1> QED
  BY <1>2, <1>3 DEF Limit

(* Looking the thread up: the producer found in an older table is entered  *)
(* in the main table, which has room for all that the older one has.       *)
LEMMA LookupHash ==
  ASSUME RegInv, NEW r \in [Threads -> Nat], HashInv(r), NEW t \in Threads, NEW n,
         EnqueueImplicit(t, n)
  PROVE  HashInv(r)'
<1>1. th[t].pc = "idle" /\ tables' = tables /\ implicitProducerHashCount' = implicitProducerHashCount
  BY Calls DEF EnqueueImplicit, hashes
<1>2. ~Counting(t) /\ th[t].pc # "probe"
  BY <1>1 DEF Counting, InList
<1>3. PICK z : z = Idle({})
  OBVIOUS
<1>4. DOMAIN z = Fields /\ z.explicit = FALSE /\ z.recycled = FALSE
  BY <1>3, IdleFields DEF Idle
<1> DEFINE h == CHOOSE h \in KnownIn(t) : \A g \in KnownIn(t) : g <= h
           l == [z EXCEPT !.main = Len(tables), !.max = n, !.at = Hash[t]]
           q == tables[h][CHOOSE i \in Slot(t, h) : TRUE].value
           f == [l EXCEPT !.p = q]
<1>5. IF KnownIn(t) = {} THEN Goto(t, l, "count")
      ELSE Goto(t, f, IF h = Len(tables) THEN "enqueue" ELSE "probe")
  BY <1>3 DEF EnqueueImplicit
<1>6. /\ DOMAIN l = Fields /\ l.explicit = FALSE /\ l.recycled = FALSE
      /\ l.main = Len(tables) /\ l.at = Hash[t]
  BY ONLY <1>4 DEF Fields
<1>7. Len(tables) \in Nat /\ DOMAIN tables = 1 .. Len(tables) /\ Len(tables) \in DOMAIN tables
  BY TableNumbers
<1>8. Hash[t] \in Nat
  BY RegistryAssumption
<1>9. KnownIn(t) # {} => h \in KnownIn(t) /\ \A g \in KnownIn(t) : g <= h
  <2>1. SUFFICES ASSUME KnownIn(t) # {} PROVE h \in KnownIn(t) /\ \A g \in KnownIn(t) : g <= h
    OBVIOUS
  <2>2. KnownIn(t) \subseteq 1 .. Len(tables)
    BY <1>7 DEF KnownIn
  <2>3. \E x \in KnownIn(t) : \A y \in KnownIn(t) : y <= x
    BY <1>7, <2>1, <2>2, Largest, Zenon
  <2> QED
    BY <2>3, Zenon
<1> HIDE DEF l, h, q
<1>10. CASE KnownIn(t) = {}
  <2>1. Goto(t, l, "count")
    BY <1>5, <1>10
  <2>2. /\ \A u \in Threads : u # t => th'[u] = th[u]
        /\ th'[t].pc = "count" /\ th'[t].explicit = FALSE /\ th'[t].recycled = FALSE
        /\ th'[t].at = Hash[t] /\ th'[t].main = Len(tables)
    BY <1>6, <2>1, GotoHash
  <2>3. ~Counting(t)' /\ ~Placing(t)'
    BY <2>2 DEF Counting, Placing, InList
  <2>4. CallerInv(t, r)'
    BY <1>1, <1>7, <1>8, <1>10, <2>2, <2>3, TablesKept DEF CallerInv
  <2> QED
    BY <1>1, <1>2, <1>10, <2>2, <2>3, <2>4, KeepHash
<1>11. CASE KnownIn(t) # {}
  <2>1. PICK pc : pc = (IF h = Len(tables) THEN "enqueue" ELSE "probe") /\ Goto(t, f, pc)
    BY <1>5, <1>11
  <2>2. /\ DOMAIN f = Fields /\ f.explicit = FALSE /\ f.recycled = FALSE
        /\ f.main = Len(tables) /\ f.at = Hash[t]
    BY ONLY <1>6 DEF Fields
  <2> HIDE DEF f
  <2>3. /\ \A u \in Threads : u # t => th'[u] = th[u]
        /\ th'[t].pc = pc /\ th'[t].explicit = FALSE /\ th'[t].recycled = FALSE
        /\ th'[t].at = Hash[t] /\ th'[t].main = Len(tables)
    BY <2>1, <2>2, GotoHash
  <2>4. ~Counting(t)' /\ (Placing(t)' <=> pc = "probe") /\ pc \notin {"count", "fail"}
    BY <2>1, <2>3 DEF Counting, Placing, InList
  <2>5. pc = "probe" => r[t] < Limit(Len(tables)) /\ Slot(t, Len(tables)) = {}
    <3>1. SUFFICES ASSUME pc = "probe"
                   PROVE  r[t] < Limit(Len(tables)) /\ Slot(t, Len(tables)) = {}
      OBVIOUS
    <3>2. h # Len(tables) /\ h \in DOMAIN tables /\ Slot(t, h) # {}
      BY <1>9, <1>11, <2>1, <3>1 DEF KnownIn
    <3>3. h <= Len(tables) /\ Len(tables) \notin KnownIn(t)
      BY <1>7, <1>9, <1>11, <3>2
    <3>4. r[t] < Limit(h)
      BY <3>2 DEF HashInv, TableInv
    <3>5. Limit(h) \in Nat /\ Limit(Len(tables)) \in Nat /\ Limit(h) <= Limit(Len(tables))
      BY <1>7, <3>2, <3>3, LimitGrows
    <3> QED
      BY <1>7, <3>3, <3>4, <3>5 DEF KnownIn
  <2>6. CallerInv(t, r)'
    BY <1>1, <1>7, <1>8, <2>3, <2>4, <2>5, TablesKept DEF CallerInv
  <2> QED
    BY <1>1, <1>2, <1>11, <2>3, <2>6, KeepHash
<1> QED
  BY <1>10, <1>11

(* The thread counts itself; its rank is the new count.                    *)
LEMMA CountHash ==
  ASSUME RegInv, NEW r \in [Threads -> Nat], HashInv(r), NEW t \in Threads, CountUp(t)
  PROVE  \E s \in [Threads -> Nat] : HashInv(s)'
<1>1. th[t].pc = "count" /\ tables' = tables
  BY DEF CountUp, At
<1>2. /\ DOMAIN th[t] = Fields /\ ~th[t].explicit /\ (th[t].recycled => th[t].explicit)
      /\ KnownIn(t) = {} /\ th[t].at \in Nat
  BY <1>1, ThreadFields DEF HashInv, CallerInv, InHash
<1>3. IsFiniteSet(Counted) /\ Cardinality(Counted) \in Nat
      /\ implicitProducerHashCount = Cardinality(Counted)
  BY FS_CardinalityType DEF HashInv, RankInv
<1>4. PICK k \in Nat : k = Cardinality(Counted) + 1
  BY <1>3
<1> DEFINE l == [th[t] EXCEPT !.newCount = k]
           s == [r EXCEPT ![t] = k]
<1>5. Goto(t, l, "resize") /\ implicitProducerHashCount' = k
  BY <1>3, <1>4 DEF CountUp
<1>6. /\ DOMAIN l = Fields /\ l.explicit = th[t].explicit /\ l.recycled = th[t].recycled
      /\ l.newCount = k /\ l.at = th[t].at /\ l.main = th[t].main
  BY <1>2 DEF Fields
<1>7. s \in [Threads -> Nat] /\ s[t] = k /\ \A u \in Threads : u # t => s[u] = r[u]
  OBVIOUS
<1> HIDE DEF l, s
<1>8. /\ \A u \in Threads : u # t => th'[u] = th[u]
      /\ th'[t].pc = "resize" /\ th'[t].explicit = l.explicit /\ th'[t].recycled = l.recycled
      /\ th'[t].newCount = k /\ th'[t].at = l.at /\ th'[t].main = th[t].main
  BY <1>5, <1>6, GotoHash
<1>9. CallerInv(t, s)'
  <2>1. Counting(t)' /\ ~Placing(t)'
    BY <1>8 DEF Counting, Placing, InList
  <2>2. th[t].main \in DOMAIN tables
    BY <1>1 DEF HashInv, CallerInv
  <2> QED
    BY <1>1, <1>2, <1>6, <1>7, <1>8, <2>1, <2>2, TablesKept DEF CallerInv
<1>10. ASSUME NEW u \in Threads, u # t PROVE CallerInv(u, s)'
  BY <1>1, <1>7, <1>8, <1>10, CallerKept, TablesKept DEF HashInv
<1>11. TableInv(s)'
  <2>1. TableInv(s)
    <3>1. \A h \in DOMAIN tables : Slot(t, h) = {}
      BY <1>2 DEF KnownIn
    <3> QED
      BY <1>7, <3>1 DEF HashInv, TableInv
  <2> QED
    BY <1>1, <2>1, TablesKept
<1>12. Counted' = Counted \union {t} /\ t \notin Counted
  <2>1. ASSUME NEW u \in Threads, u # t PROVE Counting(u)' <=> Counting(u)
    BY <1>8, <2>1 DEF Counting
  <2>2. Counting(t)' /\ ~Counting(t)
    BY <1>1, <1>8 DEF Counting, InList
  <2> QED
    BY <1>1, <1>2, <1>8, <2>1, <2>2, TablesKept DEF Counted
<1>13. RankInv(s)'
  <2>1. IsFiniteSet(Counted') /\ Cardinality(Counted') = k
    BY <1>3, <1>4, <1>12, FS_AddElement
  <2>2. ASSUME NEW m \in Nat PROVE Cardinality({u \in Counted' : s[u] <= m}) <= m
    <3>1. CASE k <= m
      <4>1. PICK T : T = {u \in Counted' : s[u] <= m}
        OBVIOUS
      <4>2. Cardinality(T) <= Cardinality(Counted') /\ Cardinality(T) \in Nat
        BY <2>1, <4>1, FS_Subset, FS_CardinalityType
      <4> QED
        BY <2>1, <3>1, <4>1, <4>2
    <3>2. CASE ~(k <= m)
      <4>1. {u \in Counted' : s[u] <= m} = {u \in Counted : r[u] <= m}
        BY <1>7, <1>12, <3>2 DEF Counted
      <4> QED
        BY <4>1 DEF HashInv, RankInv
    <3> QED
      BY <3>1, <3>2
  <2> QED
    BY <1>5, <2>1, <2>2 DEF RankInv
<1> QED
  BY <1>7, <1>9, <1>10, <1>11, <1>13 DEF HashInv

(* A thread that has counted itself takes it back.                         *)
LEMMA UncountHash ==
  ASSUME NEW r \in [Threads -> Nat], HashInv(r), NEW t \in Threads,
         \A u \in Threads : u # t => th'[u] = th[u], tables' = tables,
         implicitProducerHashCount' = implicitProducerHashCount - 1,
         Counting(t), CallerInv(t, r)', ~Counting(t)', th'[t].pc # "probe"
  PROVE  HashInv(r)'
<1>1. KnownIn(t) = {}
  BY DEF HashInv, CallerInv
<1>2. \A u \in Threads : CallerInv(u, r)'
  <2> SUFFICES ASSUME NEW u \in Threads, u # t PROVE CallerInv(u, r)'
    OBVIOUS
  <2> QED
    BY CallerKept, TablesKept DEF HashInv
<1>3. Counted' = Counted \ {t} /\ t \in Counted
  <2>1. ASSUME NEW u \in Threads, u # t PROVE Counting(u)' <=> Counting(u)
    BY <2>1 DEF Counting
  <2> QED
    BY <1>1, <2>1, TablesKept DEF Counted
<1>4. IsFiniteSet(Counted) /\ implicitProducerHashCount = Cardinality(Counted)
  BY DEF HashInv, RankInv
<1>5. IsFiniteSet(Counted') /\ implicitProducerHashCount' = Cardinality(Counted')
  BY <1>3, <1>4, FS_RemoveElement
<1>6. ASSUME NEW m \in Nat PROVE Cardinality({u \in Counted' : r[u] <= m}) <= m
  <2>1. PICK S, T : S = {u \in Counted : r[u] <= m} /\ T = {u \in Counted' : r[u] <= m}
    OBVIOUS
  <2>2. IsFiniteSet(S) /\ T \in SUBSET S
    <3>1. S \in SUBSET Counted /\ T \in SUBSET S
      BY <1>3, <2>1
    <3> QED
      BY <1>4, <3>1, FS_Subset
  <2>3. Cardinality(T) <= Cardinality(S) /\ Cardinality(S) \in Nat /\ Cardinality(T) \in Nat
    BY <2>2, FS_Subset, FS_CardinalityType
  <2>4. Cardinality(S) <= m
    BY <2>1 DEF HashInv, RankInv
  <2> QED
    BY <2>1, <2>3, <2>4
<1> QED
  BY <1>2, <1>5, <1>6, TablesKept DEF HashInv, RankInv

(* A new table is empty and larger than the others.                        *)
LEMMA ResizeHash ==
  ASSUME RegInv, NEW r \in [Threads -> Nat], HashInv(r), NEW t \in Threads, Resize(t)
  PROVE  HashInv(r)'
<1>1. th[t].pc = "resizing"
  BY DEF Resize, At
<1>2. Counting(t) /\ ~th[t].explicit /\ DOMAIN th[t] = Fields
  BY <1>1, ThreadFields DEF Counting, InHash
<1>3. /\ KnownIn(t) = {} /\ r[t] = th[t].newCount /\ th[t].at \in Nat
      /\ th[t].recycled => th[t].explicit
  BY <1>2 DEF HashInv, CallerInv
<1>4. /\ IsSeq(tables) /\ Len(tables) \in Nat /\ DOMAIN tables = 1 .. Len(tables)
      /\ Len(tables) \in DOMAIN tables
  BY TableNumbers
<1> DEFINE l == [th[t] EXCEPT !.main = Len(tables)]
           k == [l EXCEPT !.main = Len(tables) + 1]
<1>5. /\ DOMAIN l = Fields /\ l.main = Len(tables) /\ l.explicit = th[t].explicit
      /\ l.recycled = th[t].recycled /\ l.newCount = th[t].newCount /\ l.at = th[t].at
      /\ DOMAIN k = Fields /\ k.main = Len(tables) + 1 /\ k.explicit = th[t].explicit
      /\ k.recycled = th[t].recycled /\ k.newCount = th[t].newCount /\ k.at = th[t].at
  BY <1>2 DEF Fields
<1>6. \/ /\ \E c \in Doubled(Capacity(l.main), l.newCount) : tables' = Append(tables, EmptyTable(c))
         /\ Goto(t, k, "unlock") /\ implicitProducerHashCount' = implicitProducerHashCount
      \/ /\ Goto(t, l, "fail") /\ tables' = tables
         /\ implicitProducerHashCount' = implicitProducerHashCount - 1
      \/ /\ Goto(t, l, "unlock") /\ tables' = tables
         /\ implicitProducerHashCount' = implicitProducerHashCount
  BY DEF Resize
<1> HIDE DEF l, k
<1>7. CASE /\ Goto(t, l, "fail") /\ tables' = tables
           /\ implicitProducerHashCount' = implicitProducerHashCount - 1
  <2>1. /\ \A u \in Threads : u # t => th'[u] = th[u]
        /\ th'[t].pc = "fail" /\ th'[t].explicit = l.explicit /\ th'[t].recycled = l.recycled
    BY <1>5, <1>7, GotoHash
  <2>2. ~Counting(t)' /\ ~Placing(t)'
    BY <2>1 DEF Counting, Placing, InList
  <2>3. CallerInv(t, r)'
    BY <1>3, <1>5, <1>7, <2>1, <2>2, TablesKept DEF CallerInv
  <2> QED
    BY <1>2, <1>7, <2>1, <2>2, <2>3, UncountHash
<1>8. CASE /\ Goto(t, l, "unlock") /\ tables' = tables
           /\ implicitProducerHashCount' = implicitProducerHashCount
  <2>1. /\ \A u \in Threads : u # t => th'[u] = th[u]
        /\ th'[t].pc = "unlock" /\ th'[t].explicit = l.explicit /\ th'[t].recycled = l.recycled
        /\ th'[t].main = l.main /\ th'[t].newCount = l.newCount /\ th'[t].at = l.at
    BY <1>5, <1>8, GotoHash
  <2>2. Counting(t)' /\ ~Placing(t)'
    BY <2>1 DEF Counting, Placing, InList
  <2>3. CallerInv(t, r)'
    BY <1>3, <1>4, <1>5, <1>8, <2>1, <2>2, TablesKept DEF CallerInv
  <2> QED
    BY <1>2, <1>8, <2>1, <2>2, <2>3, KeepHash
<1>9. ASSUME NEW c \in Doubled(Capacity(l.main), l.newCount), tables' = Append(tables, EmptyTable(c)),
             Goto(t, k, "unlock"), implicitProducerHashCount' = implicitProducerHashCount
      PROVE  HashInv(r)'
  <2>1. /\ \A u \in Threads : u # t => th'[u] = th[u]
        /\ th'[t].pc = "unlock" /\ th'[t].explicit = k.explicit /\ th'[t].recycled = k.recycled
        /\ th'[t].main = k.main /\ th'[t].newCount = k.newCount /\ th'[t].at = k.at
    BY <1>5, <1>9, GotoHash
  <2>2. Counting(t)' /\ ~Placing(t)'
    BY <2>1 DEF Counting, Placing, InList
  <2>3. PICK N : N = Len(tables) + 1
    OBVIOUS
  <2>4. /\ IsSeq(tables') /\ DOMAIN tables' = 1 .. N /\ Len(tables') = N
        /\ tables'[N] = EmptyTable(c) /\ \A h \in DOMAIN tables : tables'[h] = tables[h]
    <3>1. PICK e, q : e = EmptyTable(c) /\ q = Append(tables, e)
      OBVIOUS
    <3>2. IsSeq(tables)
      BY <1>4
    <3>3. /\ IsSeq(q) /\ Len(q) = Len(tables) + 1 /\ DOMAIN q = 1 .. Len(tables) + 1
          /\ q[Len(tables) + 1] = e /\ \A i \in DOMAIN tables : i \in DOMAIN q /\ q[i] = tables[i]
      BY ONLY <3>1, <3>2, SeqAppend
    <3> QED
      BY <1>9, <2>3, <3>1, <3>3
  <2>5. /\ N \in Nat /\ N \notin DOMAIN tables /\ N \in DOMAIN tables'
        /\ \A h \in DOMAIN tables' : h = N \/ h \in DOMAIN tables
        /\ \A h \in DOMAIN tables : h \in DOMAIN tables' /\ h < N
    BY <1>4, <2>3, <2>4
  <2>6. \A h \in DOMAIN tables : /\ Capacity(h)' = Capacity(h) /\ Limit(h)' = Limit(h)
                                 /\ \A u : Slot(u, h)' = Slot(u, h)
    BY <2>4 DEF Capacity, Limit, Slot
  <2>7. /\ c \in Nat /\ c >= 1 /\ c >= Capacity(Len(tables))
    <3>1. PICK a \in Nat : a = Capacity(Len(tables)) /\ a >= 1
      BY <1>4 DEF HashInv, TableInv
    <3>2. PICK m \in 2 .. 4 * l.newCount : c = a * m
      BY <1>5, <3>1 DEF Doubled, Doublings
    <3>3. m \in Nat /\ m >= 2
      BY <3>2
    <3>4. a * m \in Nat /\ a * m >= a
      BY <3>1, <3>3
    <3> QED
      BY <3>1, <3>2, <3>4
  <2>8. /\ DOMAIN tables'[N] = 0 .. c - 1 /\ Capacity(N)' = c
        /\ \A i \in DOMAIN tables'[N] : tables'[N][i].key = None
    <3>1. DOMAIN EmptyTable(c) = 0 .. c - 1 /\ \A i \in 0 .. c - 1 : EmptyTable(c)[i].key = None
      BY DEF EmptyTable
    <3>2. Cardinality(0 .. c - 1) = c
      BY <2>7, FS_Interval
    <3> QED
      BY <2>4, <3>1, <3>2 DEF Capacity
  <2>9. \A u \in Threads : Slot(u, N)' = {}
    BY <2>8, RegistryAssumption DEF Slot
  <2>10. \A u \in Threads : KnownIn(u)' = KnownIn(u)
    <3> SUFFICES ASSUME NEW u \in Threads PROVE KnownIn(u)' = KnownIn(u)
      OBVIOUS
    <3>1. KnownIn(u)' = {h \in DOMAIN tables' : Slot(u, h)' # {}}
      BY DEF KnownIn
    <3>2. KnownIn(u) = {h \in DOMAIN tables : Slot(u, h) # {}}
      BY DEF KnownIn
    <3> QED
      BY <2>5, <2>6, <2>9, <3>1, <3>2
  <2>11. CallerInv(t, r)'
    BY <1>3, <1>5, <2>1, <2>2, <2>3, <2>5, <2>10 DEF CallerInv
  <2>12. ASSUME NEW u \in Threads, u # t PROVE CallerInv(u, r)'
    BY <2>1, <2>5, <2>6, <2>10, <2>12, CallerKept DEF HashInv
  <2>13. TableInv(r)'
    <3>1. ASSUME NEW h \in DOMAIN tables PROVE Capacity(h) \in Nat /\ Capacity(h) <= c
      <4>1. Capacity(h) \in Nat /\ Capacity(Len(tables)) \in Nat
            /\ Capacity(h) <= Capacity(Len(tables))
        BY <1>4 DEF HashInv, TableInv
      <4> QED
        BY <2>7, <4>1
    <3>2. ASSUME NEW h \in DOMAIN tables'
          PROVE  /\ Capacity(h)' \in Nat \ {0} /\ DOMAIN tables'[h] = 0 .. Capacity(h)' - 1
                 /\ \A g \in DOMAIN tables' : g <= h => Capacity(g)' <= Capacity(h)'
                 /\ \A i \in DOMAIN tables'[h] : tables'[h][i].key \in Threads \union {None}
                 /\ \A u \in Threads : /\ Slot(u, h)' # {} => r[u] < Limit(h)'
                                       /\ \A i, j \in Slot(u, h)' : i = j
      <4>1. CASE h = N
        BY <2>5, <2>6, <2>7, <2>8, <2>9, <3>1, <4>1
      <4>2. CASE h # N
        <5>1. h \in DOMAIN tables /\ h < N /\ tables'[h] = tables[h]
          BY <2>4, <2>5, <4>2
        <5>2. \A g \in DOMAIN tables' : g <= h => g \in DOMAIN tables
          BY <1>4, <2>3, <2>5, <5>1
        <5> QED
          BY <2>6, <5>1, <5>2 DEF HashInv, TableInv
      <4> QED
        BY <4>1, <4>2
    <3>3. Len(tables') >= 1
      BY <1>4, <2>3, <2>4
    <3> QED
      BY <3>2, <3>3 DEF TableInv
  <2>14. Counted' = Counted
    <3>1. ASSUME NEW u \in Threads, u # t PROVE Counting(u)' <=> Counting(u)
      BY <2>1, <3>1 DEF Counting
    <3> QED
      BY <1>2, <2>1, <2>2, <2>10, <3>1 DEF Counted
  <2>15. RankInv(r)'
    BY <1>9, <2>14 DEF HashInv, RankInv
  <2> QED
    BY <2>11, <2>12, <2>13, <2>15 DEF HashInv
<1> QED
  BY <1>6, <1>7, <1>8, <1>9

(* Taking the resize flag, giving it back, and choosing a table: the table *)
(* chosen has a limit above the rank.                                      *)
LEMMA ChooseHash ==
  ASSUME RegInv, NEW r \in [Threads -> Nat], HashInv(r), NEW t \in Threads,
         TryResize(t) \/ Unlock(t) \/ ChooseTable(t)
  PROVE  HashInv(r)'
<1>1. /\ tables' = tables /\ implicitProducerHashCount' = implicitProducerHashCount
      /\ th[t].pc \in {"resize", "unlock", "fail", "choose"}
  BY DEF TryResize, Unlock, ChooseTable, At, hashes
<1>2. DOMAIN th[t] = Fields /\ ~th[t].explicit /\ CallerInv(t, r)
  BY <1>1, ThreadFields DEF InHash, HashInv
<1>3. KnownIn(t) = {} /\ (th[t].recycled => th[t].explicit)
  BY <1>1, <1>2 DEF CallerInv, Counting
<1>4. Len(tables) \in DOMAIN tables
  BY TableNumbers
<1>5. th[t].pc # "fail" =>
        Counting(t) /\ r[t] = th[t].newCount /\ th[t].main \in DOMAIN tables /\ th[t].at \in Nat
  BY <1>1, <1>2 DEF CallerInv, Counting
\* The call goes on counting itself.
<1>6. ASSUME th[t].pc # "fail", NEW l, DOMAIN l = Fields, l.explicit = th[t].explicit,
             l.recycled = th[t].recycled, l.newCount = th[t].newCount, l.at = th[t].at,
             l.main \in DOMAIN tables, NEW pc \in {"resize", "resizing", "choose", "scan"},
             Goto(t, l, pc), pc = "scan" => r[t] < Limit(l.main)
      PROVE  HashInv(r)'
  <2>1. /\ \A u \in Threads : u # t => th'[u] = th[u]
        /\ th'[t].pc = pc /\ th'[t].explicit = l.explicit /\ th'[t].recycled = l.recycled
        /\ th'[t].main = l.main /\ th'[t].newCount = l.newCount /\ th'[t].at = l.at
    BY <1>6, GotoHash
  <2>2. Counting(t)' /\ (Placing(t)' <=> pc = "scan")
    BY <1>2, <1>6, <2>1 DEF Counting, Placing, InList
  <2>3. Slot(t, l.main) = {}
    BY <1>3, <1>6 DEF KnownIn
  <2>4. CallerInv(t, r)'
    BY <1>1, <1>3, <1>5, <1>6, <2>1, <2>2, <2>3, TablesKept DEF CallerInv
  <2> QED
    BY <1>1, <1>5, <1>6, <2>1, <2>2, <2>4, KeepHash
<1>7. CASE TryResize(t)
  <2>1. th[t].pc = "resize" /\ (Goto(t, th[t], "resizing") \/ Goto(t, th[t], "choose"))
    BY <1>7 DEF TryResize, At
  <2> QED
    BY <1>2, <1>5, <1>6, <2>1
<1>8. CASE Unlock(t)
  <2>1. CASE th[t].pc = "unlock" /\ Goto(t, th[t], "choose")
    BY <1>2, <1>5, <1>6, <2>1
  <2>2. CASE th[t].pc = "fail" /\ Return(t)
    <3>1. /\ \A u \in Threads : u # t => th'[u] = th[u]
          /\ th'[t].pc = "idle" /\ th'[t].explicit = FALSE /\ th'[t].recycled = FALSE
      BY <2>2, ReturnHash DEF Return
    <3>2. ~Counting(t)' /\ ~Placing(t)' /\ ~Counting(t)
      BY <2>2, <3>1 DEF Counting, Placing, InList
    <3>3. CallerInv(t, r)'
      BY <3>1, <3>2 DEF CallerInv
    <3> QED
      BY <1>1, <2>2, <3>1, <3>2, <3>3, KeepHash
  <2> QED
    BY <1>8, <2>1, <2>2 DEF Unlock, At
<1>9. CASE ChooseTable(t)
  <2> DEFINE a == [th[t] EXCEPT !.main = Len(tables)]
             b == [th[t] EXCEPT !.ptr = Len(list)]
  <2>1. /\ DOMAIN a = Fields /\ a.explicit = th[t].explicit /\ a.recycled = th[t].recycled
        /\ a.newCount = th[t].newCount /\ a.at = th[t].at /\ a.main = Len(tables)
        /\ DOMAIN b = Fields /\ b.explicit = th[t].explicit /\ b.recycled = th[t].recycled
        /\ b.newCount = th[t].newCount /\ b.at = th[t].at /\ b.main = th[t].main
    BY <1>2 DEF Fields
  <2>2. th[t].pc = "choose" /\ IF Crowded(th[t]) THEN Goto(t, a, "resize") ELSE Goto(t, b, "scan")
    BY <1>9 DEF ChooseTable, At
  <2> HIDE DEF a, b
  <2>3. ~Crowded(th[t]) => r[t] < Limit(th[t].main)
    <3>1. PICK c \in Nat : c = Capacity(th[t].main)
      BY <1>5, <2>2 DEF HashInv, TableInv
    <3>2. r[t] \in Nat /\ c \div 2 + c \div 4 \in Nat
      BY <3>1
    <3> QED
      BY <1>5, <2>2, <3>1, <3>2 DEF Crowded, Limit
  <2> QED
    BY <1>4, <1>5, <1>6, <2>1, <2>2, <2>3
<1> QED
  BY <1>7, <1>8, <1>9

(* Probing: the thread enters the table once, below its limit.             *)
LEMMA ProbeHash ==
  ASSUME RegInv, NEW r \in [Threads -> Nat], HashInv(r), NEW t \in Threads, Probe(t)
  PROVE  HashInv(r)'
<1>1. th[t].pc = "probe" /\ implicitProducerHashCount' = implicitProducerHashCount
  BY DEF Probe, At
<1>2. DOMAIN th[t] = Fields /\ CallerInv(t, r) /\ Placing(t)
  BY <1>1, ThreadFields DEF HashInv, Placing
<1>3. PICK g \in DOMAIN tables : g = th[t].main
  BY <1>1, <1>2 DEF CallerInv
<1>4. /\ (th[t].recycled => th[t].explicit) /\ th[t].at \in Nat
      /\ r[t] < Limit(g) /\ Slot(t, g) = {}
  BY <1>1, <1>2, <1>3 DEF CallerInv
<1>5. PICK c \in Nat \ {0} : c = Capacity(g) /\ DOMAIN tables[g] = 0 .. c - 1
  BY DEF HashInv, TableInv
<1>6. PICK i : i = th[t].at % c
  OBVIOUS
<1>7. i \in 0 .. c - 1 /\ i + 1 \in Nat /\ i \in DOMAIN tables[g]
  BY <1>4, <1>5, <1>6
<1> DEFINE n == [th[t] EXCEPT !.at = i + 1]
<1>8. /\ DOMAIN n = Fields /\ n.explicit = th[t].explicit /\ n.recycled = th[t].recycled
      /\ n.main = th[t].main /\ n.at = i + 1
  BY <1>2 DEF Fields
<1>9. IF tables[g][i].key = None
      THEN /\ tables' = [tables EXCEPT ![g][i] = [key |-> t, value |-> th[t].p]]
           /\ Goto(t, th[t], "enqueue")
      ELSE tables' = tables /\ Goto(t, n, "probe")
  BY <1>3, <1>5, <1>6 DEF Probe
<1> HIDE DEF n
<1>10. CASE tables[g][i].key # None
  <2>1. /\ \A u \in Threads : u # t => th'[u] = th[u]
        /\ th'[t].pc = "probe" /\ th'[t].explicit = n.explicit /\ th'[t].recycled = n.recycled
        /\ th'[t].main = n.main /\ th'[t].at = n.at
    BY <1>8, <1>9, <1>10, GotoHash
  <2>2. ~Counting(t)'
    BY <2>1 DEF Counting, InList
  <2>3. CallerInv(t, r)'
    BY <1>3, <1>4, <1>7, <1>8, <1>9, <1>10, <2>1, <2>2, TablesKept DEF CallerInv
  <2> QED
    BY <1>1, <1>9, <1>10, <2>1, <2>3, KeepHash
<1>11. CASE tables[g][i].key = None
  <2>1. /\ \A u \in Threads : u # t => th'[u] = th[u]
        /\ th'[t].pc = "enqueue" /\ th'[t].explicit = th[t].explicit
        /\ th'[t].recycled = th[t].recycled
    BY <1>2, <1>9, <1>11, GotoHash
  <2>2. ~Counting(t)' /\ ~Placing(t)' /\ ~Counting(t)
    BY <1>1, <2>1 DEF Counting, Placing, InList
  <2>3. PICK e : e = [key |-> t, value |-> th[t].p]
    OBVIOUS
  <2>4. tables' = [tables EXCEPT ![g][i] = e] /\ e.key = t
    BY <1>9, <1>11, <2>3
  <2>5. /\ DOMAIN tables' = DOMAIN tables /\ \A h \in DOMAIN tables : DOMAIN tables'[h] = DOMAIN tables[h]
        /\ \A h \in DOMAIN tables : \A j \in DOMAIN tables[h] :
             tables'[h][j] = IF h = g /\ j = i THEN e ELSE tables[h][j]
    BY <2>4
  <2>6. \A h \in DOMAIN tables : Capacity(h)' = Capacity(h) /\ Limit(h)' = Limit(h)
    BY <2>5 DEF Capacity, Limit
  <2>7. \A u \in Threads : u # None
    BY RegistryAssumption
  <2>8. ASSUME NEW u \in Threads, u # t
        PROVE  KnownIn(u)' = KnownIn(u) /\ \A h \in DOMAIN tables : Slot(u, h)' = Slot(u, h)
    <3>1. \A h \in DOMAIN tables : Slot(u, h)' = Slot(u, h)
      BY <1>11, <2>4, <2>5, <2>7, <2>8 DEF Slot
    <3> QED
      BY <2>5, <3>1 DEF KnownIn
  <2>9. /\ \A h \in DOMAIN tables : h # g => Slot(t, h)' = Slot(t, h)
        /\ Slot(t, g)' = {i}
    <3>1. \A h \in DOMAIN tables : h # g => Slot(t, h)' = Slot(t, h)
      BY <2>5 DEF Slot
    <3>2. Slot(t, g)' = {i}
      BY <1>4, <1>7, <2>4, <2>5 DEF Slot
    <3> QED
      BY <3>1, <3>2
  <2>10. g \in KnownIn(t)'
    BY <2>5, <2>9 DEF KnownIn
  <2>11. CallerInv(t, r)'
    BY <1>4, <2>1, <2>2 DEF CallerInv
  <2>12. ASSUME NEW u \in Threads, u # t PROVE CallerInv(u, r)'
    <3>1. CallerInv(u, r)
      BY DEF HashInv
    <3> QED
      BY <2>1, <2>5, <2>6, <2>8, <2>12, <3>1, CallerKept
  <2>13. TableInv(r)'
    <3>1. TableInv(r)
      BY DEF HashInv
    <3>2. ASSUME NEW h \in DOMAIN tables
          PROVE  /\ \A j \in DOMAIN tables'[h] : tables'[h][j].key \in Threads \union {None}
                 /\ \A u \in Threads : /\ Slot(u, h)' # {} => r[u] < Limit(h)
                                       /\ \A j, k \in Slot(u, h)' : j = k
      <4>1. \A j \in DOMAIN tables'[h] : tables'[h][j].key \in Threads \union {None}
        BY <2>4, <2>5, <3>1 DEF TableInv
      <4>2. ASSUME NEW u \in Threads
            PROVE  /\ Slot(u, h)' # {} => r[u] < Limit(h)
                   /\ \A j, k \in Slot(u, h)' : j = k
        <5>1. CASE u = t /\ h = g
          BY <1>4, <2>9, <5>1
        <5>2. CASE ~(u = t /\ h = g)
          <6>1. Slot(u, h)' = Slot(u, h)
            BY <2>8, <2>9, <5>2
          <6> QED
            BY <3>1, <6>1 DEF TableInv
        <5> QED
          BY <5>1, <5>2
      <4> QED
        BY <4>1, <4>2
    <3>3. Len(tables') = Len(tables)
      <4>1. DOMAIN tables' = 1 .. Len(tables) /\ Len(tables) \in Nat
        BY <2>5, TableNumbers
      <4>2. IsSeq(tables')
        <5>1. tables' = [x \in DOMAIN tables' |-> tables'[x]]
          BY <2>4
        <5> QED
          BY <2>5, <5>1, SeqDomain DEF RegInv, Shape
      <4>3. DOMAIN tables' = 1 .. Len(tables') /\ Len(tables') \in Nat
        BY <4>2, SeqLen
      <4> QED
        BY <4>1, <4>3
    <3> QED
      BY <2>5, <2>6, <3>1, <3>2, <3>3 DEF TableInv
  <2>14. Counted' = Counted
    <3>1. ASSUME NEW u \in Threads, u # t PROVE Counting(u)' <=> Counting(u)
      BY <2>1, <3>1 DEF Counting
    <3> QED
      BY <1>1, <2>1, <2>8, <2>10, <3>1 DEF Counted
  <2>15. RankInv(r)'
    BY <1>1, <2>14 DEF HashInv, RankInv
  <2> QED
    BY <2>11, <2>12, <2>13, <2>15 DEF HashInv
<1> QED
  BY <1>10, <1>11

(* Looking for a producer in the list: only a call for a token recycles    *)
(* one, since only those are ever inactive.                                *)
LEMMA ListHash ==
  ASSUME RegInv, NEW r \in [Threads -> Nat], HashInv(r), NEW t \in Threads, ListStep(t)
  PROVE  HashInv(r)'
<1>1. /\ tables' = tables /\ implicitProducerHashCount' = implicitProducerHashCount
      /\ UNCHANGED hashes
  BY DEF ListStep, hashes
<1>2. th[t].pc \in InList /\ DOMAIN th[t] = Fields /\ CallerInv(t, r) /\ ThreadInv(t)
  BY ThreadFields DEF ListStep, Scan, Recycle, Create, Add, At, InList, HashInv, RegInv
<1> DEFINE Same(l) == /\ DOMAIN l = Fields /\ l.explicit = th[t].explicit
                      /\ l.main = th[t].main /\ l.newCount = th[t].newCount /\ l.at = th[t].at
                      /\ l.recycled => l.explicit
<1>3. ASSUME NEW l, Same(l), NEW pc \in InList, Goto(t, l, pc) PROVE HashInv(r)'
  <2>1. /\ \A u \in Threads : u # t => th'[u] = th[u]
        /\ th'[t].pc = pc /\ th'[t].explicit = l.explicit /\ th'[t].recycled = l.recycled
        /\ th'[t].main = l.main /\ th'[t].newCount = l.newCount /\ th'[t].at = l.at
    BY <1>3, GotoHash
  <2>2. CASE th[t].explicit
    <3>1. Away(t) /\ Away(t)'
      BY <1>2, <1>3, <2>1, <2>2 DEF Away
    <3> QED
      BY <1>1, <1>3, <2>1, <3>1, AwayHash
  <2>3. CASE ~th[t].explicit
    <3>1. Counting(t) /\ Placing(t) /\ Counting(t)' /\ Placing(t)'
      BY <1>2, <1>3, <2>1, <2>3 DEF Counting, Placing
    <3>2. CallerInv(t, r)'
      <4>1. th'[t].pc \notin {"count", "fail", "probe"}
        BY <2>1, <1>3 DEF InList
      <4> QED
        BY <1>1, <1>2, <1>3, <2>1, <2>3, <3>1, <4>1, TablesKept DEF CallerInv
    <3> QED
      BY <1>1, <2>1, <3>1, <3>2, KeepHash
  <2> QED
    BY <2>2, <2>3
<1>4. th[t].recycled => th[t].explicit
  BY <1>2 DEF CallerInv
<1>5. /\ Same(th[t])
      /\ LET l == NextPtr(th[t]) IN Same(l)
      /\ \A p : LET l == [th[t] EXCEPT !.p = p] IN Same(l)
      /\ th[t].explicit => \A p : LET l == [th[t] EXCEPT !.p = p, !.recycled = TRUE] IN Same(l)
  BY <1>2, <1>4 DEF Fields, NextPtr
<1> HIDE DEF Same
<1>6. {"scan", "catch", "create", "add", "push", "assign"} \subseteq InList
  BY DEF InList
<1>7. CASE Scan(t)
  BY <1>3, <1>5, <1>6, <1>7 DEF Scan
<1>8. CASE Recycle(t)
  <2>1. CASE prod[list[th[t].ptr]].inactive
    <3>1. th[t].ptr \in DOMAIN list /\ prod[list[th[t].ptr]].explicit = th[t].explicit
      <4>1. th[t].pc = "catch"
        BY <1>8 DEF Recycle, At
      <4>2. DOMAIN list = 1 .. Len(list)
        BY SeqLen DEF RegInv, Shape
      <4> QED
        BY <1>2, <4>1, <4>2 DEF ThreadInv
    <3>2. th[t].explicit
      BY <2>1, <3>1 DEF RegInv, Shape, KindInv
    <3>3. PICK p : Goto(t, [th[t] EXCEPT !.p = p, !.recycled = TRUE], "assign")
      BY <1>8, <2>1 DEF Recycle
    <3> QED
      BY <1>3, <1>5, <1>6, <3>2, <3>3
  <2>2. CASE ~prod[list[th[t].ptr]].inactive
    BY <1>3, <1>5, <1>6, <1>8, <2>2 DEF Recycle
  <2> QED
    BY <2>1, <2>2
<1>9. CASE Create(t)
  BY <1>3, <1>5, <1>6, <1>9 DEF Create
<1>10. CASE Add(t)
  BY <1>3, <1>5, <1>6, <1>10 DEF Add
<1> QED
  BY <1>7, <1>8, <1>9, <1>10 DEF ListStep

(* The call goes on to its table, takes its count back or gives the        *)
(* producer to a token.                                                    *)
LEMMA AssignHash ==
  ASSUME RegInv, NEW r \in [Threads -> Nat], HashInv(r), NEW t \in Threads, Assign(t)
  PROVE  HashInv(r)'
<1>1. /\ tables' = tables /\ th[t].pc = "assign" /\ th[t].pc \in InList
      /\ implicitProducerHashResizeInProgress' = implicitProducerHashResizeInProgress
  BY DEF Assign, At, InList
<1>2. DOMAIN th[t] = Fields /\ CallerInv(t, r) /\ th[t].explicit \in BOOLEAN
  BY ThreadFields DEF HashInv
<1>3. /\ IsFiniteSet(Counted) /\ implicitProducerHashCount = Cardinality(Counted)
      /\ implicitProducerHashCount \in Nat
  BY FS_CardinalityType DEF HashInv, RankInv
<1>4. CASE th[t].explicit
  <2>1. implicitProducerHashCount' = implicitProducerHashCount - 0 /\ Return(t)
    BY <1>4 DEF Assign
  <2>2. UNCHANGED hashes
    BY <1>1, <1>3, <2>1 DEF hashes
  <2>3. Away(t)
    BY <1>1, <1>4 DEF Away
  <2> QED
    BY <2>1, <2>2, <2>3, ReturnHash, AwayHash DEF Return
<1>5. CASE ~th[t].explicit /\ th[t].p = None
  <2>1. implicitProducerHashCount' = implicitProducerHashCount - 1 /\ Return(t)
    BY <1>5 DEF Assign
  <2>2. /\ \A u \in Threads : u # t => th'[u] = th[u]
        /\ th'[t].pc = "idle" /\ th'[t].explicit = FALSE /\ th'[t].recycled = FALSE
    BY <2>1, ReturnHash DEF Return
  <2>3. ~Counting(t)' /\ ~Placing(t)' /\ Counting(t)
    BY <1>1, <1>5, <2>2 DEF Counting, Placing, InList
  <2>4. CallerInv(t, r)'
    BY <2>2, <2>3 DEF CallerInv
  <2> QED
    BY <1>1, <2>1, <2>2, <2>3, <2>4, UncountHash
<1>6. CASE ~th[t].explicit /\ th[t].p # None
  <2>1. ~th[t].recycled
    BY <1>2, <1>6 DEF CallerInv
  <2>2. implicitProducerHashCount' = implicitProducerHashCount - 0 /\ Goto(t, th[t], "probe")
    BY <1>6, <2>1 DEF Assign
  <2>3. /\ \A u \in Threads : u # t => th'[u] = th[u]
        /\ th'[t].pc = "probe" /\ th'[t].explicit = th[t].explicit
        /\ th'[t].recycled = th[t].recycled /\ th'[t].main = th[t].main /\ th'[t].at = th[t].at
    BY <1>2, <2>2, GotoHash
  <2>4. Counting(t) /\ Placing(t) /\ ~Counting(t)'
    BY <1>1, <1>6, <2>3 DEF Counting, Placing, InList
  <2>5. CallerInv(t, r)'
    BY <1>1, <1>2, <2>3, <2>4, TablesKept DEF CallerInv
  <2> QED
    BY <1>1, <1>3, <2>2, <2>3, <2>4, <2>5, KeepHash
<1> QED
  BY <1>4, <1>5, <1>6

(* Calls that do not enter a table.                                        *)
LEMMA OtherHash ==
  ASSUME RegInv, NEW r \in [Threads -> Nat], HashInv(r), NEW t \in Threads,
         Enqueue(t) \/ TokenCall(t) \/ Deactivate(t) \/ Dequeue(t) \/ Turn(t)
  PROVE  HashInv(r)'
<1>1. UNCHANGED hashes
  BY DEF Enqueue, TokenCall, Deactivate, Dequeue, Turn
<1>2. DOMAIN th[t] = Fields /\ CallerInv(t, r)
  BY ThreadFields DEF HashInv
<1>3. CASE th' = th
  BY <1>1, <1>3, StillHash
\* The call ends.
<1>4. ASSUME Away(t), NEW m, th' = [th EXCEPT ![t] = Idle(m)] PROVE HashInv(r)'
  BY <1>1, <1>4, ReturnHash, AwayHash
\* The call goes on elsewhere.
<1>5. ASSUME Away(t), NEW l, DOMAIN l = Fields, l.recycled => l.explicit, NEW pc, Goto(t, l, pc),
             pc \in InDequeue \union {"enqueue", "deactivate"} \/ (pc \in InList /\ l.explicit)
      PROVE  HashInv(r)'
  <2>1. /\ \A u \in Threads : u # t => th'[u] = th[u]
        /\ th'[t].pc = pc /\ th'[t].explicit = l.explicit /\ th'[t].recycled = l.recycled
    BY <1>5, GotoHash
  <2>2. Away(t)'
    BY <1>5, <2>1 DEF Away
  <2> QED
    BY <1>1, <1>5, <2>1, <2>2, AwayHash
<1>6. CASE Enqueue(t) \/ Deactivate(t) \/ Turn(t)
  BY <1>4, <1>6 DEF Enqueue, Deactivate, Turn, At, Away, InDequeue, Return
<1>7. PICK z : z = Idle({})
  OBVIOUS
<1>8. DOMAIN z = Fields /\ z.recycled = FALSE
  BY <1>7, IdleFields DEF Idle
<1>9. CASE TokenCall(t)
  <2>1. Away(t)
    BY <1>9 DEF TokenCall, NewToken, DropToken, EnqueueToken, MoveToken, SwapTokens, NewConsumer,
       MoveConsumer, SwapConsumers, Call, At, Away
  <2>2. ASSUME NEW k, NewToken(t, k) PROVE HashInv(r)'
    <3> DEFINE l == [z EXCEPT !.tok = k, !.explicit = TRUE, !.ptr = Len(list)]
    <3>1. DOMAIN l = Fields /\ l.explicit = TRUE
      BY ONLY <1>8 DEF Fields
    <3>2. Goto(t, l, "scan")
      BY <1>7, <2>2 DEF NewToken
    <3> HIDE DEF l
    <3>3. "scan" \in InList
      BY DEF InList
    <3> QED
      BY <1>5, <2>1, <3>1, <3>2, <3>3
  <2>3. ASSUME NEW k, NEW n, EnqueueToken(t, k, n) PROVE HashInv(r)'
    <3> DEFINE l == [z EXCEPT !.tok = k, !.p = tok[k].producer, !.max = n]
    <3>1. DOMAIN l = Fields /\ l.recycled = FALSE
      BY ONLY <1>8 DEF Fields
    <3>2. Goto(t, l, "enqueue")
      BY <1>7, <2>3 DEF EnqueueToken
    <3> HIDE DEF l
    <3> QED
      BY <1>5, <2>1, <3>1, <3>2
  <2>4. ASSUME NEW k, DropToken(t, k) PROVE HashInv(r)'
    <3> DEFINE l == [z EXCEPT !.tok = k]
    <3>1. DOMAIN l = Fields /\ l.recycled = FALSE
      BY ONLY <1>8 DEF Fields
    <3>2. th' = th \/ Goto(t, l, "deactivate")
      BY <1>7, <2>4 DEF DropToken
    <3> HIDE DEF l
    <3> QED
      BY <1>3, <1>5, <2>1, <3>1, <3>2
  <2> QED
    BY <1>3, <1>9, <2>2, <2>3, <2>4
       DEF TokenCall, MoveToken, SwapTokens, NewConsumer, MoveConsumer, SwapConsumers
<1>10. CASE Dequeue(t)
  <2>1. Away(t)
    BY <1>10 DEF Dequeue, DequeueCall, TryDequeue, TryDequeueBulk, DequeueFrom, TryDequeueToken,
       Call, DequeueStep, MeasureTail, Score, TryBest, Reload, TryEach, TryFrom, Rotate, Place,
       TryCurrent, LoadTail, Search, At, Away, InDequeue
  <2>2. CASE \E l : \E pc \in InDequeue : /\ DOMAIN l = Fields /\ (l.recycled => l.explicit)
                                          /\ Goto(t, l, pc)
    BY <1>5, <2>1, <2>2
  <2>3. CASE \E m : th' = [th EXCEPT ![t] = Idle(m)]
    BY <1>4, <2>1, <2>3
  <2>4. CASE DequeueCall(t)
    <3>1. ASSUME NEW max PROVE LET b == Begin(max) IN
            /\ DOMAIN b = Fields /\ b.recycled = FALSE
            /\ \A p : LET l == [b EXCEPT !.at = p] IN DOMAIN l = Fields /\ l.recycled = FALSE
            /\ \A k, s : LET l == [b EXCEPT !.tok = k, !.single = s] IN
                 DOMAIN l = Fields /\ l.recycled = FALSE
      <4> DEFINE b == [z EXCEPT !.start = Len(list), !.ptr = Len(list), !.max = max]
      <4>1. b = Begin(max)
        BY <1>7 DEF Begin
      <4>2. DOMAIN b = Fields /\ b.recycled = FALSE
        BY ONLY <1>8 DEF Fields
      <4> HIDE DEF b
      <4> QED
        BY ONLY <4>1, <4>2 DEF Fields
    <3> QED
      BY <2>2, <2>3, <2>4, <3>1 DEF DequeueCall, TryDequeue, TryDequeueBulk, DequeueFrom,
         TryDequeueToken, InDequeue, ReturnEmpty
  <2>5. CASE DequeueStep(t)
    <3> DEFINE Same(l) == DOMAIN l = Fields /\ (l.recycled => l.explicit)
    <3>1. Same(th[t])
      BY <1>2 DEF CallerInv
    <3>2. ASSUME NEW l, Same(l)
          PROVE  /\ \A v : LET x == [l EXCEPT !.at = v] IN Same(x)
                 /\ \A v : LET x == [l EXCEPT !.ptr = v] IN Same(x)
                 /\ \A v : LET x == [l EXCEPT !.tail = v] IN Same(x)
                 /\ \A v, w : LET x == [l EXCEPT !.tail = v, !.ptr = w] IN Same(x)
                 /\ \A v : LET x == [l EXCEPT !.count = v] IN Same(x)
                 /\ \A a, b, c : LET x == [l EXCEPT !.nonEmpty = a, !.best = b, !.bestSize = c] IN Same(x)
                 /\ \A i, n : LET x == Seen(l, i, n) IN Same(x)
                 /\ LET x == NextPtr(l) IN Same(x)
      BY ONLY <3>2 DEF Fields, Seen, NextPtr
    <3> HIDE DEF Same
    <3>3. (\E l : \E pc \in InDequeue : Same(l) /\ Goto(t, l, pc)) \/ \E m : th' = [th EXCEPT ![t] = Idle(m)]
      <4> USE DEF InDequeue, Return, ReturnEmpty, Finish
      <4>1. CASE MeasureTail(t) \/ Reload(t) \/ Rotate(t) \/ Place(t) \/ LoadTail(t)
        BY <3>1, <3>2, <4>1 DEF MeasureTail, Reload, Rotate, Place, LoadTail
      <4>2. CASE Score(t)
        <5> DEFINE l    == th[t]
                   size == IF prod[list[l.ptr]].out < l.at THEN l.at - prod[list[l.ptr]].out ELSE 0
                   x    == Seen(l, l.ptr, size)
                   m    == [x EXCEPT !.count = 0]
                   n    == [m EXCEPT !.nonEmpty = @ + 1,
                                     !.best = IF size > l.bestSize THEN l.ptr ELSE @,
                                     !.bestSize = IF size > l.bestSize THEN size ELSE @]
                   s    == IF size = 0 THEN m ELSE n
        <5>1. Goto(t, NextPtr(s), "measure") \/ Goto(t, s, "best") \/ ReturnEmpty(t, s)
          BY <4>2 DEF Score
        <5>2. Same(x)
          BY <3>1, <3>2
        <5> HIDE DEF x
        <5>3. Same(m)
          BY <3>2, <5>2
        <5> HIDE DEF m
        <5>4. Same(n)
          BY ONLY <5>3 DEF Same, Fields
        <5> HIDE DEF n, size
        <5>5. Same(s)
          BY <5>3, <5>4
        <5> HIDE DEF s
        <5>6. Same(NextPtr(s))
          BY <3>2, <5>5
        <5> QED
          BY <5>1, <5>5, <5>6
      <4>3. CASE TryBest(t)
        <5>1. Goto(t, Seen(th[t], th[t].best, 0), "reload") \/ Return(t)
          BY <4>3 DEF TryBest
        <5> QED
          BY <3>1, <3>2, <5>1
      <4>4. CASE TryEach(t)
        <5>1. PICK n : LET s == Seen(th[t], th[t].ptr, n) IN
                       Finish(t, s) \/ Goto(t, NextPtr(s), "each")
          BY <4>4 DEF TryEach
        <5>2. PICK s : s = Seen(th[t], th[t].ptr, n)
          OBVIOUS
        <5>3. Same(s) /\ Same(NextPtr(s))
          BY <3>1, <3>2, <5>2
        <5> QED
          BY <5>1, <5>2, <5>3
      <4>5. CASE TryFrom(t)
        BY <4>5 DEF TryFrom
      <4>6. CASE TryCurrent(t)
        <5>1. PICK n : LET s == Seen(th[t], ctok[th[t].tok].current, n) IN
                       Goto(t, s, "onward") \/ Goto(t, s, "turn") \/ Return(t)
          BY <4>6 DEF TryCurrent
        <5> QED
          BY <3>1, <3>2, <5>1
      <4>7. CASE Search(t)
        <5>1. CASE Finish(t, th[t]) \/ Return(t)
          BY <5>1
        <5>2. CASE \E n : Goto(t, [Seen(th[t], th[t].ptr, n) EXCEPT
                                   !.ptr = Onward(th[t].ptr, 1, th[t].tail)], "search")
          <6>1. PICK n : Goto(t, [Seen(th[t], th[t].ptr, n) EXCEPT
                                   !.ptr = Onward(th[t].ptr, 1, th[t].tail)], "search")
            BY <5>2
          <6>2. PICK s : s = Seen(th[t], th[t].ptr, n)
            OBVIOUS
          <6>3. Same(s)
            BY <3>1, <3>2, <6>2
          <6>4. Same([s EXCEPT !.ptr = Onward(th[t].ptr, 1, th[t].tail)])
            BY <3>2, <6>3
          <6> QED
            BY <6>1, <6>2, <6>4
        <5> QED
          BY <4>7, <5>1, <5>2 DEF Search
      <4> QED
        BY <2>5, <4>1, <4>2, <4>3, <4>4, <4>5, <4>6, <4>7 DEF DequeueStep
    <3> QED
      BY <2>2, <2>3, <3>3 DEF Same
  <2> QED
    BY <1>10, <2>4, <2>5 DEF Dequeue
<1> QED
  BY <1>6, <1>9, <1>10

(***************************************************************************)
(* The theorem                                                             *)
(***************************************************************************)

(* Initially the one table is empty and nobody is counted.                 *)
LEMMA InitHash == Init => \E r \in [Threads -> Nat] : HashInv(r)
<1> SUFFICES ASSUME Init PROVE \E r \in [Threads -> Nat] : HashInv(r)
  OBVIOUS
<1>1. PICK r \in [Threads -> Nat] : r = [t \in Threads |-> 0]
  OBVIOUS
<1>2. PICK c \in Nat \ {0} : c = InitialCapacity
  BY RegistryAssumption
<1>3. PICK e : e = EmptyTable(c) /\ tables = <<e>>
  BY <1>2 DEF Init
<1>4. Len(tables) = 1 /\ DOMAIN tables = {1} /\ tables[1] = e
  BY <1>3
<1>5. DOMAIN e = 0 .. c - 1 /\ \A i \in DOMAIN e : e[i].key = None
  BY <1>3 DEF EmptyTable
<1>6. Capacity(1) = c
  BY <1>2, <1>4, <1>5, FS_Interval DEF Capacity
<1>7. \A t \in Threads : Slot(t, 1) = {} /\ KnownIn(t) = {}
  BY <1>4, <1>5, RegistryAssumption DEF Slot, KnownIn
<1>8. PICK z : z = Idle({})
  OBVIOUS
<1>9. z.pc = "idle" /\ z.recycled = FALSE /\ \A t \in Threads : th[t] = z
  BY <1>8 DEF Init, Idle
<1>10. \A t \in Threads : ~Counting(t) /\ ~Placing(t) /\ th[t].pc = "idle"
  BY <1>9 DEF Counting, Placing, InList
<1>11. \A t \in Threads : CallerInv(t, r)
  BY <1>9, <1>10 DEF CallerInv
<1>12. TableInv(r)
  BY <1>2, <1>4, <1>5, <1>6, <1>7 DEF TableInv
<1>13. Counted = {}
  BY <1>7, <1>10 DEF Counted
<1>14. RankInv(r)
  <2>1. implicitProducerHashCount = 0
    BY DEF Init
  <2>2. \A m : {t \in Counted : r[t] <= m} = {}
    BY <1>13
  <2> QED
    BY <1>13, <2>1, <2>2, FS_EmptySet DEF RankInv
<1> QED
  BY <1>11, <1>12, <1>14 DEF HashInv

(* Every step keeps some ranks.                                            *)
LEMMA StepHash ==
  RegInv /\ (\E r \in [Threads -> Nat] : HashInv(r)) /\ [Next]_vars
    => (\E r \in [Threads -> Nat] : HashInv(r))'
<1> SUFFICES ASSUME RegInv, NEW r \in [Threads -> Nat], HashInv(r), [Next]_vars
             PROVE  \E s \in [Threads -> Nat] : HashInv(s)'
  OBVIOUS
<1>1. ASSUME NEW t \in Threads, NEW n, EnqueueImplicit(t, n) PROVE HashInv(r)'
  BY <1>1, LookupHash
<1>2. ASSUME NEW t \in Threads, HashStep(t) PROVE \E s \in [Threads -> Nat] : HashInv(s)'
  BY <1>2, CountHash, ResizeHash, ChooseHash, ProbeHash DEF HashStep
<1>3. ASSUME NEW t \in Threads, ListStep(t) \/ Assign(t) PROVE HashInv(r)'
  BY <1>3, ListHash, AssignHash
<1>4. ASSUME NEW t \in Threads,
             Enqueue(t) \/ TokenCall(t) \/ Deactivate(t) \/ Dequeue(t) \/ Turn(t)
      PROVE  HashInv(r)'
  BY <1>4, OtherHash
<1>5. CASE Destroy \/ UNCHANGED vars
  <2>1. th' = th /\ UNCHANGED hashes
    BY <1>5 DEF Destroy, vars, hashes
  <2> QED
    BY <2>1, StillHash
<1> QED
  BY <1>1, <1>2, <1>3, <1>4, <1>5 DEF Next

(* Every hash table has a free slot, so that the probing loops end: "Not   *)
(* an infinite loop because at least one slot is free in the hash table".  *)
(* For any number of threads, any hash function and any initial capacity.  *)
THEOREM FreeSlotAlways == Spec => []FreeSlot
<1>1. Spec => []RegInv
  BY InitReg, StepReg, PTL DEF Spec
<1>2. Spec => [](\E r \in [Threads -> Nat] : HashInv(r))
  BY <1>1, InitHash, StepHash, PTL DEF Spec
<1>3. (\E r \in [Threads -> Nat] : HashInv(r)) => FreeSlot
  BY FreeSlotFollows
<1> QED
  BY <1>2, <1>3, PTL

-----------------------------------------------------------------------------
AtToken == {"current", "onward", "search"}
Seeking == {"rotate", "counting", "placing"} \union AtToken

Covered(l, a, b) == \A i \in a .. b : i \in l.seen

(* The call: what it may still take, and how long the list was; n is how   *)
(* long the list is now.                                                   *)
CallInv(l, n) ==
  /\ l.missed = {}
  /\ l.max \in Nat /\ l.count \in 0 .. l.max
  /\ l.pc \in InDequeue => l.max >= 1 /\ l.start \in 0 .. n

(* Without a token: what lies behind ptr has been seen to be empty, unless *)
(* a sub-queue with elements is known or elements have been taken.         *)
EachInv(l, n) ==
  /\ l.pc \in {"measure", "score"} =>
       /\ l.ptr \in 1 .. n /\ l.nonEmpty \in Nat /\ l.bestSize \in Nat
       /\ IF l.nonEmpty = 0 THEN l.bestSize = 0 /\ Covered(l, l.ptr + 1, l.start)
          ELSE l.best \in 1 .. n
  /\ l.pc = "score" => l.at \in Nat
  /\ l.pc \in {"best", "reload"} => l.best \in 1 .. n
  /\ l.pc = "each" => l.ptr \in 1 .. n /\ (l.count = 0 => Covered(l, l.ptr + 1, l.start))

(* With a token, which is at a: the walk from a down to the oldest and     *)
(* from the newest down to a has covered what lies behind ptr.             *)
TokenWalkInv(l, n, a) ==
  /\ l.pc \in {"counting", "placing"} => l.tail \in 1 .. n
  /\ l.pc = "placing" => l.at \in Nat /\ l.at >= l.tail
  /\ l.pc \in AtToken => a \in 1 .. n
  /\ l.pc = "onward" /\ l.count = 0 => a \in l.seen
  /\ l.pc = "search" =>
       /\ l.tail \in l.start .. n /\ l.ptr \in 1 .. l.tail /\ a \in 1 .. l.tail
       /\ l.count = 0 =>
            IF l.ptr < a THEN Covered(l, l.ptr + 1, a)
            ELSE Covered(l, 1, a) /\ Covered(l, l.ptr + 1, l.tail)

WalkInv(t) ==
  LET l == th[t] IN
  /\ CallInv(l, Len(list)) /\ EachInv(l, Len(list))
  /\ l.pc \in Seeking => /\ l.tok \in ConsumerTokens /\ l.tok # None /\ ctok[l.tok].live
                         /\ TokenWalkInv(l, Len(list), ctok[l.tok].current)

(* A consumer token stands at a producer of the list once it has rotated.  *)
ConsumerRecords == [live : BOOLEAN, initial : Nat, last : Nat, items : Nat,
                    current : Nat, desired : Nat]
ConsumerInv(c) ==
  /\ ctok[c] \in ConsumerRecords
  /\ ~destroyed /\ ctok[c].live =>
       /\ ctok[c].current \in 0 .. Len(list) /\ ctok[c].desired \in 0 .. Len(list)
       /\ ctok[c].desired # 0 => ctok[c].current # 0

(* add_producer counts before it links.                                    *)
Pushing == {t \in Threads : th[t].pc = "push"}
CountInv ==
  /\ IsFiniteSet(Pushing)
  /\ ~destroyed => producerCount = Len(list) + Cardinality(Pushing)

(* No more elements leave a sub-queue than have entered it.                *)
SizeInv == \A p \in DOMAIN prod : prod[p].in \in Nat /\ prod[p].out \in 0 .. prod[p].in

SearchInv ==
  /\ \A t \in Threads : WalkInv(t)
  /\ DOMAIN ctok = ConsumerTokens /\ \A c \in ConsumerTokens : ConsumerInv(c)
  /\ nextExplicitConsumerId \in Nat /\ globalExplicitConsumerOffset \in Nat
  /\ CountInv /\ SizeInv

(***************************************************************************)
(* Steps and the threads that do not take them                             *)
(***************************************************************************)

(* The walk of a call is not disturbed when the list grows and its token   *)
(* stays where it is.                                                      *)
LEMMA WalkKept ==
  ASSUME NEW u \in Threads, WalkInv(u), th'[u] = th[u], Len(list) \in Nat, Len(list') \in Nat,
         Len(list) <= Len(list'),
         th[u].pc \in Seeking => ctok'[th[u].tok] = ctok[th[u].tok]
  PROVE  WalkInv(u)'
<1>1. PICK n, m : n = Len(list) /\ m = Len(list') /\ n \in Nat /\ m \in Nat /\ n <= m
  OBVIOUS
<1>2. PICK l : l = th[u]
  OBVIOUS
<1>3. CallInv(l, n) => CallInv(l, m)
  BY <1>1 DEF CallInv
<1>4. EachInv(l, n) => EachInv(l, m)
  BY <1>1 DEF EachInv
<1>5. ASSUME NEW a PROVE TokenWalkInv(l, n, a) => TokenWalkInv(l, m, a)
  BY <1>1 DEF TokenWalkInv
<1> QED
  BY <1>1, <1>2, <1>3, <1>4, <1>5 DEF WalkInv

(* One thread steps: only its own token moves, or one that is free.        *)
LEMMA ThreadStep ==
  ASSUME RegInv, SearchInv, NEW t \in Threads, \A u \in Threads : u # t => th'[u] = th[u],
         Len(list') \in Nat, Len(list) <= Len(list'),
         \A c \in ConsumerTokens : c = th[t].tok \/ Free(c) \/ ctok'[c] = ctok[c],
         WalkInv(t)'
  PROVE  \A u \in Threads : WalkInv(u)'
<1> SUFFICES ASSUME NEW u \in Threads, u # t PROVE WalkInv(u)'
  OBVIOUS
<1>1. WalkInv(u) /\ th'[u] = th[u]
  BY DEF SearchInv
<1>2. Len(list) \in Nat
  BY SeqLen DEF RegInv, Shape
<1>3. ASSUME th[u].pc \in Seeking PROVE ctok'[th[u].tok] = ctok[th[u].tok]
  <2>1. th[u].tok \in ConsumerTokens /\ th[u].tok # None
    BY <1>1, <1>3 DEF WalkInv
  <2>2. th[u].tok # th[t].tok /\ ~Free(th[u].tok)
    BY <2>1 DEF RegInv, Exclusive, Free
  <2> QED
    BY <2>1, <2>2
<1> QED
  BY <1>1, <1>2, <1>3, WalkKept

(* Consumer tokens that stay where they are.                               *)
LEMMA ConsumersKept ==
  ASSUME RegInv, SearchInv, ctok' = ctok, destroyed' = destroyed,
         Len(list') \in Nat, Len(list) <= Len(list')
  PROVE  DOMAIN ctok' = ConsumerTokens /\ \A c \in ConsumerTokens : ConsumerInv(c)'
<1>1. Len(list) \in Nat
  BY SeqLen DEF RegInv, Shape
<1> QED
  BY <1>1 DEF SearchInv, ConsumerInv

(* Nobody starts or ends linking a producer.                               *)
LEMMA CountKept ==
  ASSUME SearchInv, NEW t \in Threads, \A u \in Threads : u # t => th'[u] = th[u],
         th[t].pc # "push", th'[t].pc # "push", list' = list, producerCount' = producerCount,
         destroyed' = destroyed
  PROVE  CountInv'
<1>1. Pushing' = Pushing
  BY DEF Pushing
<1> QED
  BY <1>1 DEF SearchInv, CountInv

(* A step outside the walks that leaves list and consumer tokens alone.    *)
LEMMA PlainStep ==
  ASSUME RegInv, SearchInv, NEW t \in Threads, \A u \in Threads : u # t => th'[u] = th[u],
         th'[t].pc \notin InDequeue, th'[t].missed = {}, th'[t].max \in Nat,
         th'[t].count \in 0 .. th'[t].max, th[t].pc # "push", th'[t].pc # "push",
         list' = list, producerCount' = producerCount, ctok' = ctok, destroyed' = destroyed,
         nextExplicitConsumerId' \in Nat, globalExplicitConsumerOffset' \in Nat, SizeInv'
  PROVE  SearchInv'
<1>1. WalkInv(t)'
  BY DEF WalkInv, CallInv, EachInv, InDequeue, Seeking, AtToken
<1>2. Len(list') \in Nat /\ Len(list) <= Len(list')
  BY SeqLen DEF RegInv, Shape
<1>3. \A u \in Threads : WalkInv(u)'
  BY <1>1, <1>2, ThreadStep
<1>4. CountInv'
  BY CountKept
<1> QED
  BY <1>2, <1>3, <1>4, ConsumersKept DEF SearchInv

(* What a call that goes on keeps.                                         *)
LEMMA GotoFields ==
  ASSUME RegInv, NEW t \in Threads, NEW l, DOMAIN l = Fields, NEW pc, Goto(t, l, pc)
  PROVE  /\ \A u \in Threads : u # t => th'[u] = th[u]
         /\ th'[t].pc = pc /\ th'[t].missed = l.missed /\ th'[t].tok = l.tok /\ th'[t].at = l.at
         /\ th'[t].ptr = l.ptr /\ th'[t].tail = l.tail /\ th'[t].best = l.best
         /\ th'[t].bestSize = l.bestSize /\ th'[t].nonEmpty = l.nonEmpty /\ th'[t].max = l.max
         /\ th'[t].count = l.count /\ th'[t].start = l.start /\ th'[t].seen = l.seen
<1>1. DOMAIN th = Threads
  BY DEF RegInv, Shape
<1> QED
  BY <1>1 DEF Goto, Fields

(* A call that ends.                                                       *)
LEMMA ReturnFields ==
  ASSUME RegInv, NEW t \in Threads, NEW m, th' = [th EXCEPT ![t] = Idle(m)]
  PROVE  /\ \A u \in Threads : u # t => th'[u] = th[u]
         /\ th'[t].pc = "idle" /\ th'[t].missed = m /\ th'[t].max = 0 /\ th'[t].count = 0
<1>1. DOMAIN th = Threads
  BY DEF RegInv, Shape
<1>2. /\ Idle(m).pc = "idle" /\ Idle(m).missed = m /\ Idle(m).max = 0 /\ Idle(m).count = 0
  BY DEF Idle
<1> QED
  BY <1>1, <1>2

(* A thread that is outside the walks and stays there: it ends its call or *)
(* goes on with what it has to enqueue.                                    *)
Outside == InHash \union InList \union {"idle", "enqueue", "probe", "deactivate"}
Aside(t) ==
  \/ Return(t)
  \/ \E l : \E pc \in Outside \ {"push"} :
       /\ Goto(t, l, pc) /\ DOMAIN l = Fields
       /\ l.missed = {} /\ l.max \in Nat /\ l.count \in 0 .. l.max

(* Such a step keeps the invariant.                                        *)
LEMMA AsideSearch ==
  ASSUME RegInv, SearchInv, NEW t \in Threads, Aside(t), th[t].pc # "push",
         list' = list, producerCount' = producerCount, ctok' = ctok, destroyed' = destroyed,
         nextExplicitConsumerId' \in Nat, globalExplicitConsumerOffset' \in Nat, SizeInv'
  PROVE  SearchInv'
<1>1. CASE Return(t)
  <2>1. /\ \A u \in Threads : u # t => th'[u] = th[u]
        /\ th'[t].pc = "idle" /\ th'[t].missed = {} /\ th'[t].max = 0 /\ th'[t].count = 0
    BY <1>1, ReturnFields DEF Return
  <2>2. th'[t].pc \notin InDequeue
    BY <2>1 DEF InDequeue
  <2> QED
    BY <2>1, <2>2, PlainStep
<1>2. CASE ~Return(t)
  <2>1. PICK l : \E pc \in Outside \ {"push"} :
             /\ Goto(t, l, pc) /\ DOMAIN l = Fields
             /\ l.missed = {} /\ l.max \in Nat /\ l.count \in 0 .. l.max
    BY <1>2 DEF Aside
  <2>2. PICK pc \in Outside \ {"push"} : Goto(t, l, pc)
    BY <2>1
  <2>3. /\ \A u \in Threads : u # t => th'[u] = th[u]
        /\ th'[t].pc = pc /\ th'[t].missed = {} /\ th'[t].max = l.max /\ th'[t].count = l.count
    BY <2>1, <2>2, GotoFields
  <2>4. th'[t].pc \notin InDequeue /\ th'[t].pc # "push"
    BY <2>2, <2>3 DEF InDequeue, Outside, InHash, InList
  <2>5. th'[t].max \in Nat /\ th'[t].count \in 0 .. th'[t].max
    BY <2>1, <2>3
  <2> QED
    BY <2>3, <2>4, <2>5, PlainStep
<1> QED
  BY <1>1, <1>2

(* Unchanged counts of elements.                                           *)
LEMMA SizeKept ==
  ASSUME SearchInv, DOMAIN prod' = DOMAIN prod,
         \A p \in DOMAIN prod : prod'[p].in = prod[p].in /\ prod'[p].out = prod[p].out
  PROVE  SizeInv'
BY DEF SearchInv, SizeInv

(* The counts a thread has.                                                *)
LEMMA Counts ==
  ASSUME RegInv, SearchInv, NEW t \in Threads
  PROVE  /\ DOMAIN th[t] = Fields
         /\ th[t].missed = {} /\ th[t].max \in Nat /\ th[t].count \in 0 .. th[t].max
         /\ nextExplicitConsumerId \in Nat /\ globalExplicitConsumerOffset \in Nat
BY ThreadFields DEF SearchInv, WalkInv, CallInv

(* The fields of a new call.                                               *)
LEMMA NewFields ==
  ASSUME NEW z, z = Idle({})
  PROVE  /\ DOMAIN z = Fields /\ z.missed = {} /\ z.max = 0 /\ z.count = 0
BY IdleFields DEF Idle

(* Looking a thread up, and the steps in the hash tables.                  *)
LEMMA HashSearch ==
  ASSUME RegInv, SearchInv, NEW t \in Threads,
         HashStep(t) \/ \E n \in 1 .. left.bulk : EnqueueImplicit(t, n)
  PROVE  SearchInv'
<1>1. /\ list' = list /\ producerCount' = producerCount /\ ctok' = ctok /\ prod' = prod
      /\ nextExplicitConsumerId' = nextExplicitConsumerId
      /\ globalExplicitConsumerOffset' = globalExplicitConsumerOffset /\ destroyed' = destroyed
  BY DEF HashStep, EnqueueImplicit, producers, tokens, Continues, Call
<1>2. DOMAIN th[t] = Fields /\ th[t].missed = {} /\ th[t].max \in Nat
      /\ th[t].count \in 0 .. th[t].max
  BY Counts
<1>3. Aside(t)
  <2>1. ASSUME NEW n \in 1 .. left.bulk, EnqueueImplicit(t, n) PROVE Aside(t)
    <3>1. PICK z : z = Idle({})
      OBVIOUS
    <3>2. DOMAIN z = Fields /\ z.missed = {} /\ z.max = 0 /\ z.count = 0
      BY <3>1, NewFields
    <3> DEFINE l == [z EXCEPT !.main = Len(tables), !.max = n, !.at = Hash[t]]
    <3>3. DOMAIN l = Fields /\ l.missed = {} /\ l.max = n /\ l.count = 0
      BY ONLY <3>2 DEF Fields
    <3>4. PICK v : \/ Goto(t, l, "count")
                   \/ Goto(t, [l EXCEPT !.p = v], "enqueue") \/ Goto(t, [l EXCEPT !.p = v], "probe")
      BY <2>1, <3>1 DEF EnqueueImplicit
    <3> HIDE DEF l
    <3>5. LET f == [l EXCEPT !.p = v] IN
          DOMAIN f = Fields /\ f.missed = {} /\ f.max = n /\ f.count = 0
      BY ONLY <3>3 DEF Fields
    <3>6. n \in Nat /\ 0 \in 0 .. n /\ {"count", "enqueue", "probe"} \subseteq Outside \ {"push"}
      BY DEF Outside, InHash
    <3> QED
      BY <3>3, <3>4, <3>5, <3>6 DEF Aside
  <2>2. ASSUME HashStep(t) PROVE Aside(t)
    <3>1. {"resize", "resizing", "choose", "unlock", "fail", "scan", "probe", "enqueue"}
            \subseteq Outside \ {"push"}
      BY DEF Outside, InHash, InList
    <3> DEFINE Same(l) == /\ DOMAIN l = Fields /\ l.missed = th[t].missed
                          /\ l.max = th[t].max /\ l.count = th[t].count
    <3>2. Return(t) \/ \E l : \E pc \in {"resize", "resizing", "choose", "unlock", "fail", "scan",
                                         "probe", "enqueue"} : Same(l) /\ Goto(t, l, pc)
      <4>1. ASSUME NEW v PROVE LET l == [th[t] EXCEPT !.newCount = v] IN Same(l)
        BY <1>2 DEF Fields
      <4>2. ASSUME NEW v PROVE LET l == [th[t] EXCEPT !.main = v] IN Same(l)
        BY <1>2 DEF Fields
      <4>3. ASSUME NEW v PROVE LET l == [th[t] EXCEPT !.ptr = v] IN Same(l)
        BY <1>2 DEF Fields
      <4>4. ASSUME NEW v PROVE LET l == [th[t] EXCEPT !.at = v] IN Same(l)
        BY <1>2 DEF Fields
      <4>5. ASSUME NEW v, NEW w PROVE LET l == [[th[t] EXCEPT !.main = v] EXCEPT !.main = w] IN Same(l)
        BY <1>2 DEF Fields
      <4>6. Same(th[t])
        BY <1>2
      <4> HIDE DEF Same
      <4>7. CASE CountUp(t)
        BY <4>1, <4>7 DEF CountUp
      <4>8. CASE TryResize(t)
        BY <4>6, <4>8 DEF TryResize
      <4>9. CASE Resize(t)
        BY <4>2, <4>5, <4>9 DEF Resize
      <4>10. CASE Unlock(t)
        BY <4>6, <4>10 DEF Unlock
      <4>11. CASE ChooseTable(t)
        BY <4>2, <4>3, <4>11 DEF ChooseTable
      <4>12. CASE Probe(t)
        BY <4>4, <4>6, <4>12 DEF Probe
      <4> QED
        BY <2>2, <4>7, <4>8, <4>9, <4>10, <4>11, <4>12 DEF HashStep
    <3> QED
      BY <1>2, <3>1, <3>2 DEF Aside
  <2> QED
    BY <2>1, <2>2
<1>4. th[t].pc # "push"
  BY DEF HashStep, CountUp, TryResize, Resize, Unlock, ChooseTable, Probe, EnqueueImplicit, Call, At
<1> QED
  BY <1>1, <1>3, <1>4, AsideSearch, Counts, SizeKept

(* What the shape of the state says of the producers.                      *)
LEMMA ProducerShape ==
  ASSUME RegInv
  PROVE  /\ IsSeq(prod) /\ DOMAIN prod = 1 .. Len(prod) /\ Len(prod) \in Nat
         /\ \A p \in DOMAIN prod : DOMAIN prod[p] = ProducerFields
         /\ IsSeq(list) /\ DOMAIN list = 1 .. Len(list) /\ Len(list) \in Nat
         /\ \A i \in DOMAIN list : list[i] \in DOMAIN prod
BY SeqLen DEF RegInv, Shape

(* Scanning, catching and making a producer; counting and linking it.      *)
LEMMA ListSearch ==
  ASSUME RegInv, SearchInv, NEW t \in Threads, ListStep(t)
  PROVE  SearchInv'
<1>1. /\ ctok' = ctok /\ nextExplicitConsumerId' = nextExplicitConsumerId
      /\ globalExplicitConsumerOffset' = globalExplicitConsumerOffset /\ destroyed' = destroyed
  BY DEF ListStep, tokens, Continues
<1>2. /\ DOMAIN th[t] = Fields /\ th[t].missed = {} /\ th[t].max \in Nat
      /\ th[t].count \in 0 .. th[t].max
      /\ nextExplicitConsumerId' \in Nat /\ globalExplicitConsumerOffset' \in Nat
  BY <1>1, Counts
<1> DEFINE Same(l) == /\ DOMAIN l = Fields /\ l.missed = th[t].missed
                      /\ l.max = th[t].max /\ l.count = th[t].count
<1>3. /\ Same(th[t])
      /\ LET l == NextPtr(th[t]) IN Same(l)
      /\ \A p : LET l == [th[t] EXCEPT !.p = p] IN Same(l)
      /\ \A p : LET l == [th[t] EXCEPT !.p = p, !.recycled = TRUE] IN Same(l)
  BY <1>2 DEF Fields, NextPtr
<1>4. ASSUME NEW l, Same(l), NEW pc \in {"scan", "catch", "create", "assign", "add"}, Goto(t, l, pc)
      PROVE  Aside(t)
  BY <1>2, <1>4 DEF Aside, Outside, InList
<1> HIDE DEF Same
<1>5. CASE Scan(t)
  <2>1. Aside(t) /\ th[t].pc # "push"
    BY <1>3, <1>4, <1>5 DEF Scan, At
  <2>2. list' = list /\ producerCount' = producerCount /\ SizeInv'
    BY <1>5, SizeKept DEF Scan, producers
  <2> QED
    BY <1>1, <1>2, <2>1, <2>2, AsideSearch
<1>6. CASE Recycle(t)
  <2>1. Aside(t) /\ th[t].pc # "push"
    BY <1>3, <1>4, <1>6 DEF Recycle, At
  <2>2. list' = list /\ producerCount' = producerCount
    BY <1>6 DEF Recycle
  <2>3. prod' = prod \/ prod' = [prod EXCEPT ![list[th[t].ptr]].inactive = FALSE]
    BY <1>6 DEF Recycle
  <2>4. SizeInv'
    BY <2>3, SizeKept, ProducerShape DEF ProducerFields
  <2> QED
    BY <1>1, <1>2, <2>1, <2>2, <2>4, AsideSearch
<1>7. CASE Create(t)
  <2>1. Aside(t) /\ th[t].pc # "push"
    BY <1>3, <1>4, <1>7 DEF Create, At
  <2>2. list' = list /\ producerCount' = producerCount
    BY <1>7 DEF Create
  <2>3. PICK e : /\ e = [explicit |-> th[t].explicit, inactive |-> FALSE, token |-> None,
                         in |-> 0, out |-> 0]
                 /\ prod' = prod \/ prod' = Append(prod, e)
    BY <1>7 DEF Create
  <2>4. CASE prod' = prod
    BY <1>1, <1>2, <2>1, <2>2, <2>4, AsideSearch, SizeKept
  <2>5. CASE prod' = Append(prod, e)
    <3>1. IsSeq(prod)
      BY ProducerShape
    <3>2. PICK q : q = Append(prod, e)
      OBVIOUS
    <3>3. /\ DOMAIN q = 1 .. Len(prod) + 1 /\ q[Len(prod) + 1] = e
          /\ \A i \in DOMAIN prod : q[i] = prod[i]
      BY ONLY <3>1, <3>2, SeqAppend
    <3>4. e.in = 0 /\ e.out = 0
      BY <2>3
    <3>5. \A i \in DOMAIN q : i = Len(prod) + 1 \/ i \in DOMAIN prod
      BY <3>3, ProducerShape
    <3>6. ASSUME NEW i \in DOMAIN q PROVE q[i].in \in Nat /\ q[i].out \in 0 .. q[i].in
      BY <3>3, <3>4, <3>5 DEF SearchInv, SizeInv
    <3>7. SizeInv'
      BY <2>5, <3>2, <3>6 DEF SizeInv
    <3> QED
      BY <1>1, <1>2, <2>1, <2>2, <3>7, AsideSearch
  <2> QED
    BY <2>3, <2>4, <2>5
<1>8. ASSUME NEW pc, Goto(t, th[t], pc), pc \in {"push", "assign"}
      PROVE  /\ \A u \in Threads : u # t => th'[u] = th[u]
             /\ th'[t].pc = pc /\ WalkInv(t)'
  <2>1. /\ \A u \in Threads : u # t => th'[u] = th[u]
        /\ th'[t].pc = pc /\ th'[t].missed = th[t].missed /\ th'[t].max = th[t].max
        /\ th'[t].count = th[t].count
    BY <1>2, <1>8, GotoFields
  <2>2. WalkInv(t)'
    BY <1>2, <1>8, <2>1 DEF WalkInv, CallInv, EachInv, InDequeue, Seeking, AtToken
  <2> QED
    BY <2>1, <2>2
<1>9. CASE Add(t)
  <2>1. prod' = prod /\ SizeInv' /\ ~destroyed
    <3>1. th[t].pc # "idle"
      BY <1>9 DEF Add, At
    <3> QED
      BY <1>9, <3>1, SizeKept, BusyAlive DEF Add
  <2>2. CASE At(t, "add") /\ Goto(t, th[t], "push") /\ producerCount' = producerCount + 1 /\ list' = list
    <3>1. th'[t].pc = "push" /\ WalkInv(t)' /\ \A u \in Threads : u # t => th'[u] = th[u]
      BY <1>8, <2>2
    <3>2. Len(list) \in Nat
      BY ProducerShape
    <3>3. CountInv'
      <4>1. Pushing' = Pushing \union {t} /\ t \notin Pushing
        BY <2>2, <3>1 DEF Pushing, At
      <4>2. IsFiniteSet(Pushing') /\ Cardinality(Pushing') = Cardinality(Pushing) + 1
            /\ Cardinality(Pushing) \in Nat
        BY <4>1, FS_AddElement, FS_CardinalityType DEF SearchInv, CountInv
      <4> QED
        BY <2>1, <2>2, <3>2, <4>2 DEF SearchInv, CountInv
    <3>4. \A u \in Threads : WalkInv(u)'
      BY <1>1, <2>2, <3>1, <3>2, ThreadStep
    <3> QED
      BY <1>1, <1>2, <2>1, <2>2, <3>2, <3>3, <3>4, ConsumersKept DEF SearchInv
  <2>3. CASE At(t, "push") /\ Goto(t, th[t], "assign") /\ list' = Append(list, th[t].p)
             /\ producerCount' = producerCount
    <3>1. th'[t].pc = "assign" /\ WalkInv(t)' /\ \A u \in Threads : u # t => th'[u] = th[u]
      BY <1>8, <2>3
    <3>2. Len(list) \in Nat /\ Len(list') = Len(list) + 1
      <4>1. IsSeq(list) /\ Len(list) \in Nat
        BY ProducerShape
      <4>2. PICK q : q = Append(list, th[t].p)
        OBVIOUS
      <4>3. Len(q) = Len(list) + 1
        BY ONLY <4>1, <4>2, SeqAppend
      <4> QED
        BY <2>3, <4>1, <4>2, <4>3
    <3>3. CountInv'
      <4>1. Pushing' = Pushing \ {t} /\ t \in Pushing
        BY <2>3, <3>1 DEF Pushing, At
      <4>2. IsFiniteSet(Pushing') /\ Cardinality(Pushing') = Cardinality(Pushing) - 1
            /\ Cardinality(Pushing) \in Nat
        BY <4>1, FS_RemoveElement, FS_CardinalityType DEF SearchInv, CountInv
      <4> QED
        BY <2>1, <2>3, <3>2, <4>2, <1>1 DEF SearchInv, CountInv
    <3>4. \A u \in Threads : WalkInv(u)'
      BY <1>1, <3>1, <3>2, ThreadStep
    <3> QED
      BY <1>1, <1>2, <2>1, <3>2, <3>3, <3>4, ConsumersKept DEF SearchInv
  <2> QED
    BY <1>9, <2>2, <2>3 DEF Add
<1> QED
  BY <1>5, <1>6, <1>7, <1>9 DEF ListStep

(* The caller gets its producer, a sub-queue its elements.                 *)
LEMMA AssignSearch ==
  ASSUME RegInv, SearchInv, NEW t \in Threads, Assign(t) \/ Enqueue(t)
  PROVE  SearchInv'
<1>1. /\ ctok' = ctok /\ nextExplicitConsumerId' = nextExplicitConsumerId /\ list' = list
      /\ globalExplicitConsumerOffset' = globalExplicitConsumerOffset /\ destroyed' = destroyed
      /\ producerCount' = producerCount
  BY DEF Assign, Enqueue, tokens, Continues
<1>2. /\ DOMAIN th[t] = Fields /\ th[t].missed = {} /\ th[t].max \in Nat
      /\ th[t].count \in 0 .. th[t].max
      /\ nextExplicitConsumerId' \in Nat /\ globalExplicitConsumerOffset' \in Nat
  BY <1>1, Counts
<1>3. th[t].pc # "push" /\ (Return(t) \/ Goto(t, th[t], "probe"))
  BY DEF Assign, Enqueue, At
<1>4. Aside(t)
  BY <1>2, <1>3 DEF Aside, Outside
<1>5. SizeInv'
  <2>1. CASE Assign(t)
    <3>1. prod' = prod \/ prod' = [prod EXCEPT ![th[t].p].token = th[t].tok]
      BY <2>1 DEF Assign
    <3> QED
      BY <3>1, SizeKept, ProducerShape DEF ProducerFields
  <2>2. CASE Enqueue(t)
    <3>1. prod' = prod \/ prod' = [prod EXCEPT ![th[t].p].in = @ + th[t].max]
      BY <2>2 DEF Enqueue
    <3>2. ASSUME prod' = [prod EXCEPT ![th[t].p].in = @ + th[t].max], NEW p \in DOMAIN prod
          PROVE  prod'[p].in \in Nat /\ prod'[p].out \in 0 .. prod'[p].in
      <4>1. /\ prod[p].in \in Nat /\ prod[p].out \in 0 .. prod[p].in
            /\ DOMAIN prod[p] = ProducerFields
        BY ProducerShape DEF SearchInv, SizeInv
      <4>2. CASE p = th[t].p
        <5>1. prod'[p] = [prod[p] EXCEPT !.in = @ + th[t].max]
          BY <3>2, <4>2
        <5>2. prod'[p].in = prod[p].in + th[t].max /\ prod'[p].out = prod[p].out
          BY <4>1, <5>1 DEF ProducerFields
        <5> QED
          BY <1>2, <4>1, <5>2
      <4>3. CASE p # th[t].p
        BY <3>2, <4>1, <4>3
      <4> QED
        BY <4>2, <4>3
    <3> QED
      BY <3>1, <3>2, SizeKept DEF SizeInv
  <2> QED
    BY <2>1, <2>2
<1> QED
  BY <1>1, <1>2, <1>3, <1>4, <1>5, AsideSearch

(* A call that changes no thread and at most a consumer token nobody uses. *)
LEMMA StillSearch ==
  ASSUME RegInv, SearchInv, th' = th, list' = list, producerCount' = producerCount,
         destroyed' = destroyed, SizeInv', nextExplicitConsumerId' \in Nat,
         globalExplicitConsumerOffset' \in Nat,
         \A c \in ConsumerTokens : Free(c) \/ ctok'[c] = ctok[c],
         DOMAIN ctok' = ConsumerTokens, \A c \in ConsumerTokens : ConsumerInv(c)'
  PROVE  SearchInv'
<1>1. Len(list) \in Nat
  BY ProducerShape
<1>2. ASSUME NEW u \in Threads PROVE WalkInv(u)'
  <2>1. WalkInv(u)
    BY DEF SearchInv
  <2>2. th[u].pc \in Seeking => ctok'[th[u].tok] = ctok[th[u].tok]
    BY <2>1 DEF WalkInv, Free
  <2> QED
    BY <1>1, <2>1, <2>2, WalkKept
<1>3. CountInv'
  BY DEF SearchInv, CountInv, Pushing
<1> QED
  BY <1>2, <1>3 DEF SearchInv

(* The calls of tokens.                                                    *)
LEMMA TokenSearch ==
  ASSUME RegInv, SearchInv, NEW t \in Threads, TokenCall(t)
  PROVE  SearchInv'
<1>1. PICK kind : Call(t, kind)
  BY DEF TokenCall, NewToken, DropToken, EnqueueToken, MoveToken, SwapTokens, NewConsumer,
         MoveConsumer, SwapConsumers
<1>2. th[t].pc = "idle" /\ ~destroyed /\ destroyed' = destroyed
  BY <1>1, Calls
<1>3. /\ list' = list /\ producerCount' = producerCount
      /\ globalExplicitConsumerOffset' = globalExplicitConsumerOffset
  BY DEF TokenCall, NewToken, DropToken, EnqueueToken, MoveToken, SwapTokens, NewConsumer,
         MoveConsumer, SwapConsumers, producers
<1>4. nextExplicitConsumerId \in Nat /\ globalExplicitConsumerOffset \in Nat
      /\ DOMAIN ctok = ConsumerTokens /\ \A c \in ConsumerTokens : ConsumerInv(c)
  BY DEF SearchInv
<1>5. Len(list) \in Nat /\ \A p \in DOMAIN prod : DOMAIN prod[p] = ProducerFields
  BY ProducerShape
<1>6. PICK z : z = Idle({})
  OBVIOUS
<1>7. DOMAIN z = Fields /\ z.missed = {} /\ z.max = 0 /\ z.count = 0
  BY <1>6, NewFields
<1>8. ASSUME Aside(t), ctok' = ctok, nextExplicitConsumerId' = nextExplicitConsumerId, SizeInv'
      PROVE  SearchInv'
  BY <1>2, <1>3, <1>4, <1>8, AsideSearch
<1>9. ASSUME th' = th, ctok' = ctok, nextExplicitConsumerId' = nextExplicitConsumerId, SizeInv'
      PROVE  SearchInv'
  <2>1. DOMAIN ctok' = ConsumerTokens /\ \A c \in ConsumerTokens : ConsumerInv(c)'
    BY <1>2, <1>3, <1>5, <1>9, ConsumersKept
  <2> QED
    BY <1>2, <1>3, <1>4, <1>9, <2>1, StillSearch
<1>10. {"scan", "enqueue", "deactivate"} \subseteq Outside \ {"push"}
  BY DEF Outside, InList
<1>11. ASSUME NEW k \in Tokens, NewToken(t, k) PROVE SearchInv'
  <2> DEFINE l == [z EXCEPT !.tok = k, !.explicit = TRUE, !.ptr = Len(list)]
  <2>1. DOMAIN l = Fields /\ l.missed = {} /\ l.max = 0 /\ l.count = 0
    BY ONLY <1>7 DEF Fields
  <2>2. Goto(t, l, "scan")
    BY <1>6, <1>11 DEF NewToken
  <2> HIDE DEF l
  <2>3. Aside(t)
    BY <1>10, <2>1, <2>2 DEF Aside
  <2> QED
    BY <1>8, <1>11, <2>3, SizeKept DEF NewToken, producers, tokens
<1>12. ASSUME NEW k \in Tokens, NEW n \in 1 .. left.bulk, EnqueueToken(t, k, n) PROVE SearchInv'
  <2> DEFINE l == [z EXCEPT !.tok = k, !.p = tok[k].producer, !.max = n]
  <2>1. DOMAIN l = Fields /\ l.missed = {} /\ l.max = n /\ l.count = 0
    BY ONLY <1>7 DEF Fields
  <2>2. Goto(t, l, "enqueue")
    BY <1>6, <1>12 DEF EnqueueToken
  <2> HIDE DEF l
  <2>3. n \in Nat /\ 0 \in 0 .. n
    OBVIOUS
  <2>4. Aside(t)
    BY <1>10, <2>1, <2>2, <2>3 DEF Aside
  <2> QED
    BY <1>8, <1>12, <2>4, SizeKept DEF EnqueueToken, producers, tokens
<1>13. ASSUME NEW k \in Tokens, DropToken(t, k) PROVE SearchInv'
  <2>1. ctok' = ctok /\ nextExplicitConsumerId' = nextExplicitConsumerId
    BY <1>13 DEF DropToken
  <2>2. CASE tok[k].producer = None
    BY <1>9, <1>13, <2>1, <2>2, SizeKept DEF DropToken
  <2>3. CASE tok[k].producer # None
    <3> DEFINE l == [z EXCEPT !.tok = k]
    <3>1. DOMAIN l = Fields /\ l.missed = {} /\ l.max = 0 /\ l.count = 0
      BY ONLY <1>7 DEF Fields
    <3>2. Goto(t, l, "deactivate") /\ prod' = [prod EXCEPT ![tok[k].producer].token = None]
      BY <1>6, <1>13, <2>3 DEF DropToken
    <3> HIDE DEF l
    <3>3. Aside(t)
      BY <1>10, <3>1, <3>2 DEF Aside
    <3>4. SizeInv'
      BY <1>5, <3>2, SizeKept DEF ProducerFields
    <3> QED
      BY <1>8, <2>1, <3>3, <3>4
  <2> QED
    BY <2>2, <2>3
<1>14. ASSUME NEW ks, NEW changed, prod' = Relinked(ks, changed) PROVE SizeInv'
  <2>1. DOMAIN prod' = DOMAIN prod
    BY <1>14 DEF Relinked
  <2>2. ASSUME NEW p \in DOMAIN prod PROVE prod'[p].in = prod[p].in /\ prod'[p].out = prod[p].out
    <3>1. PICK x : prod'[p] = [prod[p] EXCEPT !.token = x]
      BY <1>14 DEF Relinked
    <3>2. DOMAIN prod[p] = ProducerFields
      BY <1>5
    <3> QED
      BY ONLY <3>1, <3>2 DEF ProducerFields
  <2> QED
    BY <2>1, <2>2, SizeKept
<1>15. ASSUME NEW k \in Tokens, NEW l \in Tokens, MoveToken(t, k, l) \/ SwapTokens(t, k, l)
       PROVE  SearchInv'
  <2>1. SizeInv'
    BY <1>14, <1>15 DEF MoveToken, SwapTokens
  <2> QED
    BY <1>9, <1>15, <2>1 DEF MoveToken, SwapTokens
<1>16. ASSUME NEW c \in ConsumerTokens, NEW d \in ConsumerTokens,
              NewConsumer(t, c) \/ MoveConsumer(t, c, d)
       PROVE  SearchInv'
  <2>1. /\ th' = th /\ Free(c) /\ prod' = prod
        /\ nextExplicitConsumerId' \in Nat
    <3>1. (nextExplicitConsumerId + 1) % OffsetMod \in Nat
      BY <1>4, RegistryAssumption
    <3> QED
      BY <1>4, <1>16, <3>1 DEF NewConsumer, MoveConsumer, producers
  <2>2. PICK r : /\ ctok' = [ctok EXCEPT ![c] = r] /\ r \in ConsumerRecords
                 /\ r.live => /\ r.current \in 0 .. Len(list) /\ r.desired \in 0 .. Len(list)
                              /\ r.desired # 0 => r.current # 0
    <3>1. CASE NewConsumer(t, c)
      <4> DEFINE r == [NoConsumer EXCEPT
                         !.live = TRUE, !.initial = nextExplicitConsumerId, !.last = OffsetMod - 1]
      <4>1. OffsetMod - 1 \in Nat
        BY RegistryAssumption
      <4>2. r \in ConsumerRecords /\ r.current = 0 /\ r.desired = 0
        BY <1>4, <4>1 DEF NoConsumer, ConsumerRecords
      <4>3. ctok' = [ctok EXCEPT ![c] = r]
        BY <3>1 DEF NewConsumer
      <4>4. 0 \in 0 .. Len(list)
        BY <1>5
      <4> HIDE DEF r
      <4> QED
        BY <4>2, <4>3, <4>4, Zenon
    <3>2. CASE MoveConsumer(t, c, d)
      BY <1>2, <1>4, <3>2 DEF MoveConsumer, ConsumerInv
    <3> QED
      BY <1>16, <3>1, <3>2
  <2>3. DOMAIN ctok' = ConsumerTokens /\ \A e \in ConsumerTokens : ConsumerInv(e)'
    BY <1>2, <1>3, <1>4, <2>2 DEF ConsumerInv
  <2>4. \A e \in ConsumerTokens : Free(e) \/ ctok'[e] = ctok[e]
    BY <1>4, <2>1, <2>2
  <2>5. SizeInv'
    BY <2>1, SizeKept
  <2> QED
    BY <1>2, <1>3, <1>4, <2>1, <2>3, <2>4, <2>5, StillSearch
<1>17. ASSUME NEW c \in ConsumerTokens, NEW d \in ConsumerTokens, SwapConsumers(t, c, d)
       PROVE  SearchInv'
  <2>1. /\ th' = th /\ Free(c) /\ Free(d) /\ prod' = prod
        /\ ctok' = [ctok EXCEPT ![c] = ctok[d], ![d] = ctok[c]]
        /\ nextExplicitConsumerId' = nextExplicitConsumerId
    BY <1>17 DEF SwapConsumers, producers
  <2>2. DOMAIN ctok' = ConsumerTokens
    BY <1>4, <2>1
  <2>3. \A e \in ConsumerTokens : \E f \in ConsumerTokens : ctok'[e] = ctok[f]
    BY <1>4, <2>1
  <2>4. \A e \in ConsumerTokens : ConsumerInv(e)'
    BY <1>2, <1>3, <1>4, <2>3 DEF ConsumerInv
  <2>5. \A e \in ConsumerTokens : Free(e) \/ ctok'[e] = ctok[e]
    BY <1>4, <2>1
  <2>6. SizeInv'
    BY <2>1, SizeKept
  <2> QED
    BY <1>2, <1>3, <1>4, <2>1, <2>2, <2>4, <2>5, <2>6, StillSearch
<1> QED
  BY <1>11, <1>12, <1>13, <1>15, <1>16, <1>17 DEF TokenCall

(* The end of a token, the end of a turn, and ~ConcurrentQueue.            *)
LEMMA EndSearch ==
  ASSUME RegInv, SearchInv
  PROVE  /\ \A t \in Threads : Deactivate(t) \/ Turn(t) => SearchInv'
         /\ Destroy => SearchInv'
         /\ UNCHANGED vars => SearchInv'
<1>1. ASSUME NEW t \in Threads, Deactivate(t) \/ Turn(t) PROVE SearchInv'
  <2>1. /\ ctok' = ctok /\ list' = list /\ producerCount' = producerCount
        /\ nextExplicitConsumerId' = nextExplicitConsumerId /\ destroyed' = destroyed
        /\ Return(t) /\ th[t].pc # "push"
    BY <1>1 DEF Deactivate, Turn, producers, tokens, Continues, At
  <2>2. nextExplicitConsumerId' \in Nat /\ globalExplicitConsumerOffset' \in Nat
    <3>1. nextExplicitConsumerId \in Nat /\ globalExplicitConsumerOffset \in Nat
      BY DEF SearchInv
    <3>2. (globalExplicitConsumerOffset + 1) % OffsetMod \in Nat
      BY <3>1, RegistryAssumption
    <3> QED
      BY <1>1, <2>1, <3>1, <3>2 DEF Deactivate, Turn
  <2>3. SizeInv'
    <3>1. prod' = prod \/ \E p : prod' = [prod EXCEPT ![p].inactive = TRUE]
      BY <1>1 DEF Deactivate, Turn, producers
    <3> QED
      BY <3>1, SizeKept, ProducerShape DEF ProducerFields
  <2> QED
    BY <2>1, <2>2, <2>3, AsideSearch DEF Aside
<1>2. ASSUME Destroy PROVE SearchInv'
  <2>1. /\ destroyed' /\ th' = th /\ prod' = prod /\ ctok' = ctok
        /\ nextExplicitConsumerId' = nextExplicitConsumerId
        /\ globalExplicitConsumerOffset' = globalExplicitConsumerOffset
        /\ \A u \in Threads : th[u].pc = "idle"
    BY <1>2 DEF Destroy, At
  <2>2. ASSUME NEW u \in Threads PROVE WalkInv(u)'
    <3>1. WalkInv(u) /\ th'[u] = th[u] /\ th[u].pc = "idle"
      BY <2>1 DEF SearchInv
    <3> QED
      BY <3>1 DEF WalkInv, CallInv, EachInv, InDequeue, Seeking, AtToken
  <2>3. CountInv' /\ SizeInv'
    BY <2>1 DEF SearchInv, CountInv, SizeInv, Pushing
  <2>4. DOMAIN ctok' = ConsumerTokens /\ \A c \in ConsumerTokens : ConsumerInv(c)'
    BY <2>1 DEF SearchInv, ConsumerInv
  <2> QED
    BY <2>1, <2>2, <2>3, <2>4 DEF SearchInv
<1>3. ASSUME UNCHANGED vars PROVE SearchInv'
  <2>1. /\ th' = th /\ list' = list /\ producerCount' = producerCount /\ prod' = prod
        /\ ctok' = ctok /\ nextExplicitConsumerId' = nextExplicitConsumerId
        /\ globalExplicitConsumerOffset' = globalExplicitConsumerOffset /\ destroyed' = destroyed
    BY <1>3 DEF vars, producers, tokens
  <2>2. DOMAIN ctok' = ConsumerTokens /\ \A c \in ConsumerTokens : ConsumerInv(c)'
    BY <2>1 DEF SearchInv, ConsumerInv
  <2>3. SizeInv'
    BY <2>1, SizeKept
  <2> QED
    BY <2>1, <2>2, <2>3, StillSearch, Counts DEF SearchInv
<1> QED
  BY <1>1, <1>2, <1>3

(* Initially nobody calls and there is nothing to find.                    *)
LEMMA InitSearch == Init => SearchInv
<1> SUFFICES ASSUME Init PROVE SearchInv
  OBVIOUS
<1>1. PICK z : z = Idle({})
  OBVIOUS
<1>2. z.missed = {} /\ z.max = 0 /\ z.count = 0 /\ z.pc = "idle"
  BY <1>1, NewFields, IdleFields
<1>3. \A t \in Threads : th[t] = z
  BY <1>1 DEF Init
<1>4. \A t \in Threads : WalkInv(t)
  BY <1>2, <1>3 DEF WalkInv, CallInv, EachInv, InDequeue, Seeking, AtToken
<1>5. DOMAIN ctok = ConsumerTokens /\ \A c \in ConsumerTokens : ConsumerInv(c)
  <2>1. \A c \in ConsumerTokens : ctok[c] = NoConsumer
    BY DEF Init
  <2>2. NoConsumer \in ConsumerRecords /\ ~NoConsumer.live
    BY DEF NoConsumer, ConsumerRecords
  <2> QED
    BY <2>1, <2>2 DEF Init, ConsumerInv
<1>6. CountInv
  <2>1. Pushing = {}
    BY <1>2, <1>3 DEF Pushing
  <2>2. list = <<>> /\ producerCount = 0
    BY DEF Init
  <2>3. Len(list) = 0
    BY <2>2, EmptySeq
  <2> QED
    BY <2>1, <2>2, <2>3, FS_EmptySet DEF CountInv
<1>7. SizeInv
  <2>1. DOMAIN prod = {}
    BY EmptySeq DEF Init
  <2> QED
    BY <2>1 DEF SizeInv
<1> QED
  BY <1>4, <1>5, <1>6, <1>7 DEF Init, SearchInv

(***************************************************************************)
(* Dequeues                                                                *)
(***************************************************************************)

(* A step of a dequeue keeps the invariant if it keeps the walk.           *)
LEMMA WalkStep ==
  ASSUME RegInv, SearchInv, NEW t \in Threads, \A u \in Threads : u # t => th'[u] = th[u],
         th[t].pc # "push", th'[t].pc # "push", list' = list, producerCount' = producerCount,
         destroyed' = destroyed, nextExplicitConsumerId' = nextExplicitConsumerId,
         globalExplicitConsumerOffset' = globalExplicitConsumerOffset, WalkInv(t)', SizeInv',
         \/ ctok' = ctok
         \/ \E r : /\ ctok' = [ctok EXCEPT ![th[t].tok] = r] /\ r \in ConsumerRecords
                   /\ r.current \in 1 .. Len(list) /\ r.desired \in 0 .. Len(list)
  PROVE  SearchInv'
<1>1. Len(list') \in Nat /\ Len(list) \in Nat /\ Len(list) <= Len(list')
  BY ProducerShape
<1>2. DOMAIN ctok = ConsumerTokens /\ \A c \in ConsumerTokens : ConsumerInv(c)
  BY DEF SearchInv
<1>3. \A c \in ConsumerTokens : c = th[t].tok \/ ctok'[c] = ctok[c]
  BY <1>2
<1>4. DOMAIN ctok' = ConsumerTokens /\ \A c \in ConsumerTokens : ConsumerInv(c)'
  <2>1. CASE ctok' = ctok
    BY <1>1, <2>1, ConsumersKept
  <2>2. CASE ctok' # ctok
    <3>1. PICK r : /\ ctok' = [ctok EXCEPT ![th[t].tok] = r] /\ r \in ConsumerRecords
                   /\ r.current \in 1 .. Len(list) /\ r.desired \in 0 .. Len(list)
      BY <2>2
    <3>2. ASSUME NEW c \in ConsumerTokens PROVE ConsumerInv(c)'
      <4>1. CASE c = th[t].tok
        <5>1. ctok'[c] = r
          BY <1>2, <3>1, <4>1
        <5> QED
          BY <1>1, <3>1, <5>1 DEF ConsumerInv
      <4>2. CASE c # th[t].tok
        <5>1. ctok'[c] = ctok[c]
          BY <1>3, <4>2
        <5> QED
          BY <1>2, <5>1 DEF ConsumerInv
      <4> QED
        BY <4>1, <4>2
    <3> QED
      BY <1>2, <3>1, <3>2
  <2> QED
    BY <2>1, <2>2
<1>5. \A u \in Threads : WalkInv(u)'
  BY <1>1, <1>3, ThreadStep
<1>6. CountInv'
  BY CountKept
<1> QED
  BY <1>4, <1>5, <1>6 DEF SearchInv

(* A call that ends with nothing overlooked.                               *)
LEMMA Ended ==
  ASSUME RegInv, NEW t \in Threads,
         Return(t) \/ \E l : ReturnEmpty(t, l) /\ Covered(l, 1, l.start)
  PROVE  WalkInv(t)' /\ th'[t].pc = "idle" /\ \A u \in Threads : u # t => th'[u] = th[u]
<1>1. th' = [th EXCEPT ![t] = Idle({})]
  <2>1. CASE Return(t)
    BY <2>1 DEF Return
  <2>2. ASSUME NEW l, ReturnEmpty(t, l), Covered(l, 1, l.start)
        PROVE  th' = [th EXCEPT ![t] = Idle({})]
    <3>1. (1 .. l.start) \ l.seen = {}
      BY <2>2 DEF Covered
    <3>2. PICK m : m = (1 .. l.start) \ l.seen /\ th' = [th EXCEPT ![t] = Idle(m)]
      BY <2>2 DEF ReturnEmpty
    <3> QED
      BY <3>1, <3>2
  <2> QED
    BY <2>1, <2>2
<1>2. /\ \A u \in Threads : u # t => th'[u] = th[u]
      /\ th'[t].pc = "idle" /\ th'[t].missed = {} /\ th'[t].max = 0 /\ th'[t].count = 0
  BY <1>1, ReturnFields
<1> QED
  BY <1>2 DEF WalkInv, CallInv, EachInv, InDequeue, Seeking, AtToken

(* A sub-queue hands out what it has, and no more than is asked for.       *)
LEMMA HandedOut ==
  ASSUME RegInv, SearchInv, NEW t \in Threads, NEW p, NEW n \in Outcomes(t, p), Handed(p, n)
  PROVE  /\ SizeInv'
         /\ p \in DOMAIN prod => n \in Nat /\ th[t].count + n <= th[t].max
<1>1. th[t].max \in Nat /\ th[t].count \in 0 .. th[t].max
  BY Counts
<1>2. ASSUME p \in DOMAIN prod
      PROVE  n \in Nat /\ th[t].count + n <= th[t].max /\ n <= prod[p].in - prod[p].out
  <2>1. prod[p].in \in Nat /\ prod[p].out \in 0 .. prod[p].in
    BY <1>2 DEF SearchInv, SizeInv
  <2>2. PICK k : /\ k = IF Size(p) < th[t].max - th[t].count THEN Size(p)
                        ELSE th[t].max - th[t].count
                 /\ n = k \/ n \in 0 .. k
    BY DEF Outcomes
  <2>3. k \in Nat /\ k <= th[t].max - th[t].count /\ k <= prod[p].in - prod[p].out
    BY <1>1, <2>1, <2>2 DEF Size
  <2> QED
    BY <1>1, <2>1, <2>2, <2>3
<1>3. ASSUME NEW q \in DOMAIN prod PROVE prod'[q].in \in Nat /\ prod'[q].out \in 0 .. prod'[q].in
  <2>1. /\ prod[q].in \in Nat /\ prod[q].out \in 0 .. prod[q].in
        /\ DOMAIN prod[q] = ProducerFields
    BY ProducerShape DEF SearchInv, SizeInv
  <2>2. CASE q = p
    <3>1. prod'[q] = [prod[q] EXCEPT !.out = @ + n]
      BY <2>2 DEF Handed
    <3>2. prod'[q].in = prod[q].in /\ prod'[q].out = prod[q].out + n
      BY <2>1, <3>1 DEF ProducerFields
    <3> QED
      BY <1>2, <2>1, <2>2, <3>2
  <2>3. CASE q # p
    BY <2>1, <2>3 DEF Handed
  <2> QED
    BY <2>2, <2>3
<1>4. DOMAIN prod' = DOMAIN prod
  BY DEF Handed
<1> QED
  BY <1>2, <1>3, <1>4 DEF SizeInv

(* The fields of a dequeue that begins.                                    *)
LEMMA BeginFields ==
  ASSUME NEW max, NEW b, b = Begin(max)
  PROVE  /\ DOMAIN b = Fields /\ b.missed = {} /\ b.max = max /\ b.count = 0
         /\ b.start = Len(list) /\ b.ptr = Len(list) /\ b.nonEmpty = 0 /\ b.bestSize = 0
         /\ b.best = 0 /\ b.seen = {} /\ b.tok = None
BY IdleFields DEF Begin, Idle, Fields

(* A dequeue begins.                                                       *)
LEMMA DequeueCallSearch ==
  ASSUME RegInv, SearchInv, NEW t \in Threads, DequeueCall(t),
         UNCHANGED <<tok, nextExplicitConsumerId, globalExplicitConsumerOffset, hashes>>
  PROVE  SearchInv'
<1>1. /\ Call(t, "dequeue") /\ ctok' = ctok /\ list' = list /\ prod' = prod
      /\ producerCount' = producerCount
  BY DEF DequeueCall, TryDequeue, TryDequeueBulk, DequeueFrom, TryDequeueToken, producers
<1>2. th[t].pc = "idle" /\ th[t].tok = None /\ ~destroyed /\ destroyed' = destroyed
  BY <1>1, Calls
<1>3. SizeInv'
  BY <1>1, SizeKept
<1>4. Len(list) \in Nat /\ DOMAIN list = 1 .. Len(list) /\ IsSeq(list)
  BY ProducerShape
<1>5. ASSUME \A u \in Threads : u # t => th'[u] = th[u], th'[t].pc # "push", WalkInv(t)'
      PROVE  SearchInv'
  BY <1>1, <1>2, <1>3, <1>5, WalkStep
<1>6. ASSUME NEW max, list = <<>>, ReturnEmpty(t, Begin(max)) PROVE SearchInv'
  <2>1. PICK b : b = Begin(max)
    OBVIOUS
  <2>2. b.start = 0
    BY <1>6, <2>1, BeginFields, EmptySeq
  <2>3. ReturnEmpty(t, b) /\ Covered(b, 1, b.start)
    BY <1>6, <2>1, <2>2 DEF Covered
  <2>4. WalkInv(t)' /\ th'[t].pc = "idle" /\ \A u \in Threads : u # t => th'[u] = th[u]
    BY <2>3, Ended
  <2> QED
    BY <1>5, <2>4
<1>7. ASSUME list # <<>> PROVE Len(list) >= 1
  BY <1>4, <1>7
<1>8. ASSUME NEW max, max \in Nat, max >= 1, list # <<>>, NEW pc \in {"measure", "each"},
             Goto(t, Begin(max), pc)
      PROVE  SearchInv'
  <2>1. PICK b : b = Begin(max)
    OBVIOUS
  <2>2. /\ DOMAIN b = Fields /\ b.missed = {} /\ b.max = max /\ b.count = 0
        /\ b.start = Len(list) /\ b.ptr = Len(list) /\ b.nonEmpty = 0 /\ b.bestSize = 0
    BY <2>1, BeginFields
  <2>3. /\ \A u \in Threads : u # t => th'[u] = th[u]
        /\ th'[t].pc = pc /\ th'[t].missed = b.missed /\ th'[t].max = b.max
        /\ th'[t].count = b.count /\ th'[t].start = b.start /\ th'[t].ptr = b.ptr
        /\ th'[t].nonEmpty = b.nonEmpty /\ th'[t].bestSize = b.bestSize
    BY <1>8, <2>1, <2>2, GotoFields
  <2>4. WalkInv(t)'
    BY <1>1, <1>4, <1>7, <1>8, <2>2, <2>3
       DEF WalkInv, CallInv, EachInv, Covered, InDequeue, Seeking, AtToken
  <2> QED
    BY <1>5, <1>8, <2>3, <2>4
<1>9. CASE TryDequeue(t)
  <2>1. 1 \in Nat /\ 1 >= 1
    OBVIOUS
  <2>2. CASE list = <<>>
    BY <1>6, <1>9, <2>2 DEF TryDequeue
  <2>3. CASE list # <<>>
    BY <1>8, <1>9, <2>1, <2>3 DEF TryDequeue
  <2> QED
    BY <2>2, <2>3
<1>10. ASSUME NEW max \in 1 .. left.bulk, TryDequeueBulk(t, max) PROVE SearchInv'
  <2>1. max \in Nat /\ max >= 1
    OBVIOUS
  <2>2. CASE list = <<>>
    BY <1>6, <1>10, <2>2 DEF TryDequeueBulk
  <2>3. CASE list # <<>>
    BY <1>8, <1>10, <2>1, <2>3 DEF TryDequeueBulk
  <2> QED
    BY <2>2, <2>3
<1>11. ASSUME NEW max \in 1 .. left.bulk, NEW k \in Tokens, DequeueFrom(t, k, max) PROVE SearchInv'
  <2>1. PICK b : b = Begin(max)
    OBVIOUS
  <2>2. DOMAIN b = Fields /\ b.missed = {} /\ b.max = max /\ b.count = 0 /\ b.start = Len(list)
    BY <2>1, BeginFields
  <2> DEFINE l == [b EXCEPT !.at = tok[k].producer]
  <2>3. DOMAIN l = Fields /\ l.missed = {} /\ l.max = max /\ l.count = 0 /\ l.start = Len(list)
    BY ONLY <2>2 DEF Fields
  <2>4. Goto(t, l, "from")
    BY <1>11, <2>1 DEF DequeueFrom
  <2> HIDE DEF l
  <2>5. /\ \A u \in Threads : u # t => th'[u] = th[u]
        /\ th'[t].pc = "from" /\ th'[t].missed = l.missed /\ th'[t].max = l.max
        /\ th'[t].count = l.count /\ th'[t].start = l.start
    BY <2>3, <2>4, GotoFields
  <2>6. WalkInv(t)'
    BY <1>1, <1>4, <1>11, <2>3, <2>5 DEF WalkInv, CallInv, EachInv, InDequeue, Seeking, AtToken
  <2> QED
    BY <1>5, <2>5, <2>6
<1>12. ASSUME NEW max \in 1 .. left.bulk, NEW c \in ConsumerTokens, NEW single \in BOOLEAN,
              TryDequeueToken(t, c, max, single)
       PROVE  SearchInv'
  <2>1. PICK b : b = Begin(max)
    OBVIOUS
  <2>2. DOMAIN b = Fields /\ b.missed = {} /\ b.max = max /\ b.count = 0 /\ b.start = Len(list)
    BY <2>1, BeginFields
  <2> DEFINE l == [b EXCEPT !.tok = c, !.single = single]
  <2>3. /\ DOMAIN l = Fields /\ l.missed = {} /\ l.max = max /\ l.count = 0 /\ l.start = Len(list)
        /\ l.tok = c
    BY ONLY <2>2 DEF Fields
  <2>4. PICK pc \in {"rotate", "current"} :
          Goto(t, l, pc) /\ (pc = "current" => ctok[c].desired # 0)
    BY <1>12, <2>1 DEF TryDequeueToken
  <2>5. Free(c) /\ ctok[c].live
    BY <1>12 DEF TryDequeueToken
  <2> HIDE DEF l
  <2>6. /\ \A u \in Threads : u # t => th'[u] = th[u]
        /\ th'[t].pc = pc /\ th'[t].missed = l.missed /\ th'[t].max = l.max
        /\ th'[t].count = l.count /\ th'[t].start = l.start /\ th'[t].tok = l.tok
    BY <2>3, <2>4, GotoFields
  <2>7. c # None
    BY <1>2, <2>5 DEF Free
  <2>8. pc = "current" => ctok[c].current \in 1 .. Len(list)
    <3>1. ConsumerInv(c)
      BY DEF SearchInv
    <3> QED
      BY <1>2, <1>4, <2>4, <2>5, <3>1 DEF ConsumerInv
  <2>9. WalkInv(t)'
    <3>1. CallInv(th'[t], Len(list))
      BY <1>4, <1>12, <2>3, <2>6 DEF CallInv
    <3>2. EachInv(th'[t], Len(list)) /\ TokenWalkInv(th'[t], Len(list), ctok[c].current)
      BY <2>6, <2>8 DEF EachInv, TokenWalkInv, AtToken
    <3> QED
      BY <1>1, <2>3, <2>5, <2>6, <2>7, <3>1, <3>2 DEF WalkInv
  <2> QED
    BY <1>5, <2>6, <2>9
<1> QED
  BY <1>9, <1>10, <1>11, <1>12 DEF DequeueCall

(* What a step of a dequeue leaves alone.                                  *)
Walks(t) ==
  /\ list' = list /\ producerCount' = producerCount /\ destroyed' = destroyed
  /\ nextExplicitConsumerId' = nextExplicitConsumerId
  /\ globalExplicitConsumerOffset' = globalExplicitConsumerOffset

(* Measuring sub-queues.                                                   *)
LEMMA ScoreSearch ==
  ASSUME RegInv, SearchInv, NEW t \in Threads, MeasureTail(t) \/ Score(t), Walks(t)
  PROVE  SearchInv'
<1> DEFINE l == th[t]
<1>1. l = th[t]
  OBVIOUS
<1>2. /\ DOMAIN l = Fields /\ CallInv(l, Len(list)) /\ EachInv(l, Len(list))
      /\ Len(list) \in Nat /\ DOMAIN list = 1 .. Len(list)
      /\ \A i \in DOMAIN list : list[i] \in DOMAIN prod
  BY <1>1, Counts, ProducerShape DEF SearchInv, WalkInv
<1>3. prod' = prod /\ ctok' = ctok /\ SizeInv'
  BY SizeKept DEF MeasureTail, Score, producers
<1>4. /\ l.pc \in {"measure", "score"} /\ l.ptr \in 1 .. Len(list)
      /\ l.nonEmpty \in Nat /\ l.bestSize \in Nat
      /\ IF l.nonEmpty = 0 THEN l.bestSize = 0 /\ Covered(l, l.ptr + 1, l.start)
         ELSE l.best \in 1 .. Len(list)
  BY <1>1, <1>2 DEF EachInv, MeasureTail, Score, At
<1>5. /\ l.missed = {} /\ l.max \in Nat /\ l.count \in 0 .. l.max /\ l.max >= 1
      /\ l.start \in 0 .. Len(list)
  BY <1>2, <1>4 DEF CallInv, InDequeue
<1>6. prod[list[l.ptr]].in \in Nat /\ prod[list[l.ptr]].out \in Nat
  BY <1>2, <1>4 DEF SearchInv, SizeInv
<1>7. ASSUME \A u \in Threads : u # t => th'[u] = th[u], th'[t].pc # "push", WalkInv(t)'
      PROVE  SearchInv'
  BY <1>1, <1>3, <1>4, <1>7, WalkStep DEF Walks
<1>8. CASE MeasureTail(t)
  <2> DEFINE m == [l EXCEPT !.at = prod[list[l.ptr]].in]
  <2>1. /\ DOMAIN m = Fields /\ m.at = prod[list[l.ptr]].in /\ m.ptr = l.ptr
        /\ m.missed = l.missed /\ m.max = l.max /\ m.count = l.count /\ m.start = l.start
        /\ m.nonEmpty = l.nonEmpty /\ m.bestSize = l.bestSize /\ m.best = l.best /\ m.seen = l.seen
    BY <1>2 DEF Fields
  <2>2. Goto(t, m, "score")
    BY <1>1, <1>8 DEF MeasureTail
  <2> HIDE DEF m
  <2>3. /\ \A u \in Threads : u # t => th'[u] = th[u]
        /\ th'[t].pc = "score" /\ th'[t].missed = m.missed /\ th'[t].at = m.at
        /\ th'[t].ptr = m.ptr /\ th'[t].best = m.best
        /\ th'[t].bestSize = m.bestSize /\ th'[t].nonEmpty = m.nonEmpty /\ th'[t].max = m.max
        /\ th'[t].count = m.count /\ th'[t].start = m.start /\ th'[t].seen = m.seen
    BY <2>1, <2>2, GotoFields
  <2>4. WalkInv(t)'
    BY <1>4, <1>5, <1>6, <2>1, <2>3
       DEF WalkInv, CallInv, EachInv, Covered, InDequeue, Seeking, AtToken, Walks
  <2> QED
    BY <1>7, <2>3, <2>4
<1>9. CASE Score(t)
  <2> DEFINE size == IF prod[list[l.ptr]].out < l.at THEN l.at - prod[list[l.ptr]].out ELSE 0
             x == Seen(l, l.ptr, size)
             m == [x EXCEPT !.count = 0]
             s == IF size = 0 THEN m
                  ELSE [m EXCEPT !.nonEmpty = @ + 1,
                                 !.best = IF size > l.bestSize THEN l.ptr ELSE @,
                                 !.bestSize = IF size > l.bestSize THEN size ELSE @]
  <2>1. IF s.nonEmpty < 3 /\ s.ptr > 1 THEN Goto(t, NextPtr(s), "measure")
         ELSE IF s.nonEmpty > 0 THEN Goto(t, s, "best")
         ELSE ReturnEmpty(t, s)
    BY <1>9 DEF Score
  <2>2. size \in Nat
    <3>1. l.at \in Nat
      BY <1>2, <1>9 DEF EachInv, Score, At
    <3> QED
      BY <1>6, <3>1
  <2> HIDE DEF l, size
  <2>3. /\ DOMAIN x = Fields /\ x.seen = (IF size = 0 THEN l.seen \union {l.ptr} ELSE l.seen)
        /\ x.missed = l.missed /\ x.max = l.max /\ x.start = l.start
        /\ x.ptr = l.ptr /\ x.best = l.best /\ x.bestSize = l.bestSize /\ x.nonEmpty = l.nonEmpty
    BY <1>2 DEF Seen, Fields
  <2> HIDE DEF x
  <2>4. /\ DOMAIN m = Fields /\ m.seen = x.seen /\ m.count = 0
        /\ m.missed = x.missed /\ m.max = x.max /\ m.start = x.start
        /\ m.ptr = x.ptr /\ m.best = x.best /\ m.bestSize = x.bestSize /\ m.nonEmpty = x.nonEmpty
    BY ONLY <2>3 DEF Fields
  <2> HIDE DEF m
  <2>5. /\ DOMAIN s = Fields /\ s.seen = m.seen /\ s.count = 0
        /\ s.missed = m.missed /\ s.max = m.max /\ s.start = m.start /\ s.ptr = m.ptr
        /\ s.nonEmpty = (IF size = 0 THEN m.nonEmpty ELSE m.nonEmpty + 1)
        /\ s.best = (IF size = 0 THEN m.best ELSE IF size > l.bestSize THEN l.ptr ELSE m.best)
        /\ s.bestSize = (IF size = 0 THEN m.bestSize
                         ELSE IF size > l.bestSize THEN size ELSE m.bestSize)
    BY ONLY <2>4 DEF Fields
  <2> HIDE DEF s
  <2>6. /\ s.nonEmpty \in Nat /\ s.bestSize \in Nat
        /\ IF s.nonEmpty = 0 THEN s.bestSize = 0 /\ Covered(s, s.ptr, s.start)
           ELSE s.best \in 1 .. Len(list)
    <3>1. CASE size = 0
      <4>1. /\ s.nonEmpty = l.nonEmpty /\ s.bestSize = l.bestSize /\ s.best = l.best
            /\ s.seen = l.seen \union {l.ptr} /\ s.ptr = l.ptr /\ s.start = l.start
        BY <2>3, <2>4, <2>5, <3>1
      <4>2. Covered(l, l.ptr + 1, l.start) => Covered(s, s.ptr, s.start)
        BY <1>4, <1>5, <4>1 DEF Covered
      <4> QED
        BY <1>4, <4>1, <4>2
    <3>2. CASE size # 0
      <4>1. /\ s.nonEmpty = l.nonEmpty + 1
            /\ s.best = (IF size > l.bestSize THEN l.ptr ELSE l.best)
            /\ s.bestSize = (IF size > l.bestSize THEN size ELSE l.bestSize)
        BY <2>3, <2>4, <2>5, <3>2
      <4> QED
        BY <1>4, <2>2, <3>2, <4>1
    <3> QED
      BY <3>1, <3>2
  <2>7. /\ s.missed = {} /\ s.max = l.max /\ s.start = l.start /\ s.ptr = l.ptr
    BY <1>5, <2>3, <2>4, <2>5
  <2>8. CASE s.ptr > 1 /\ Goto(t, NextPtr(s), "measure")
    <3>1. PICK q : q = NextPtr(s)
      OBVIOUS
    <3>2. /\ DOMAIN q = Fields /\ q.ptr = s.ptr - 1 /\ q.missed = s.missed /\ q.max = s.max
          /\ q.count = s.count /\ q.start = s.start /\ q.nonEmpty = s.nonEmpty
          /\ q.bestSize = s.bestSize /\ q.best = s.best /\ q.seen = s.seen
      BY ONLY <2>5, <3>1 DEF Fields, NextPtr
    <3>3. /\ \A u \in Threads : u # t => th'[u] = th[u]
          /\ th'[t].pc = "measure" /\ th'[t].missed = q.missed
          /\ th'[t].ptr = q.ptr /\ th'[t].best = q.best
          /\ th'[t].bestSize = q.bestSize /\ th'[t].nonEmpty = q.nonEmpty /\ th'[t].max = q.max
          /\ th'[t].count = q.count /\ th'[t].start = q.start /\ th'[t].seen = q.seen
      BY <2>8, <3>1, <3>2, GotoFields
    <3>4. th'[t].ptr \in 1 .. Len(list) /\ th'[t].ptr + 1 = s.ptr
      BY <1>4, <2>7, <2>8, <3>2, <3>3
    <3>5. WalkInv(t)'
      BY <1>5, <2>5, <2>6, <2>7, <3>2, <3>3, <3>4
         DEF WalkInv, CallInv, EachInv, Covered, InDequeue, Seeking, AtToken, Walks
    <3> QED
      BY <1>7, <3>3, <3>5
  <2>9. CASE s.nonEmpty > 0 /\ Goto(t, s, "best")
    <3>1. /\ \A u \in Threads : u # t => th'[u] = th[u]
          /\ th'[t].pc = "best" /\ th'[t].missed = s.missed
          /\ th'[t].best = s.best /\ th'[t].max = s.max
          /\ th'[t].count = s.count /\ th'[t].start = s.start
      BY <2>5, <2>9, GotoFields
    <3>2. s.best \in 1 .. Len(list)
      BY <2>6, <2>9
    <3>3. WalkInv(t)'
      BY <1>5, <2>5, <2>7, <3>1, <3>2
         DEF WalkInv, CallInv, EachInv, InDequeue, Seeking, AtToken, Walks
    <3> QED
      BY <1>7, <3>1, <3>3
  <2>10. CASE ~(s.nonEmpty < 3 /\ s.ptr > 1) /\ ~(s.nonEmpty > 0) /\ ReturnEmpty(t, s)
    <3>1. s.nonEmpty = 0 /\ s.ptr = 1
      BY <1>4, <2>6, <2>7, <2>10
    <3>2. Covered(s, 1, s.start)
      BY <2>6, <3>1
    <3>3. WalkInv(t)' /\ th'[t].pc = "idle" /\ \A u \in Threads : u # t => th'[u] = th[u]
      BY <2>10, <3>2, Ended
    <3> QED
      BY <1>7, <3>3
  <2> QED
    BY <2>1, <2>8, <2>9, <2>10
<1> QED
  BY <1>8, <1>9

(* Taking from the best sub-queue, from each in turn, from the one of a    *)
(* token.                                                                  *)
LEMMA EachSearch ==
  ASSUME RegInv, SearchInv, NEW t \in Threads,
         TryBest(t) \/ Reload(t) \/ TryEach(t) \/ TryFrom(t), Walks(t)
  PROVE  SearchInv'
<1>1. PICK l : l = th[t]
  OBVIOUS
<1>2. /\ DOMAIN l = Fields /\ CallInv(l, Len(list)) /\ EachInv(l, Len(list))
      /\ Len(list) \in Nat /\ DOMAIN list = 1 .. Len(list)
      /\ \A i \in DOMAIN list : list[i] \in DOMAIN prod
  BY <1>1, Counts, ProducerShape DEF SearchInv, WalkInv
<1>3. ctok' = ctok
  BY DEF TryBest, Reload, TryEach, TryFrom
<1>4. l.pc \in {"best", "reload", "each", "from"}
  BY <1>1 DEF TryBest, Reload, TryEach, TryFrom, At
<1>5. /\ l.missed = {} /\ l.max \in Nat /\ l.count \in 0 .. l.max /\ l.max >= 1
      /\ l.start \in 0 .. Len(list)
  BY <1>2, <1>4 DEF CallInv, InDequeue
<1>6. ASSUME \A u \in Threads : u # t => th'[u] = th[u], th'[t].pc # "push", WalkInv(t)', SizeInv'
      PROVE  SearchInv'
  BY <1>1, <1>3, <1>4, <1>6, WalkStep DEF Walks
<1>7. ASSUME SizeInv', Return(t) \/ \E m : ReturnEmpty(t, m) /\ Covered(m, 1, m.start)
      PROVE  SearchInv'
  <2>1. WalkInv(t)' /\ th'[t].pc = "idle" /\ \A u \in Threads : u # t => th'[u] = th[u]
    BY <1>7, Ended
  <2> QED
    BY <1>6, <1>7, <2>1
<1>8. CASE TryBest(t)
  <2>1. PICK n \in Outcomes(t, list[l.best]) :
          /\ Handed(list[l.best], n)
          /\ Return(t) \/ Goto(t, Seen(l, l.best, 0), "reload")
    BY <1>1, <1>8 DEF TryBest
  <2>2. SizeInv'
    BY <2>1, HandedOut
  <2>3. CASE Goto(t, Seen(l, l.best, 0), "reload")
    <3>1. PICK s : s = Seen(l, l.best, 0)
      OBVIOUS
    <3>2. /\ DOMAIN s = Fields /\ s.count = l.count + 0 /\ s.missed = l.missed /\ s.max = l.max
          /\ s.start = l.start /\ s.best = l.best
      BY ONLY <1>2, <3>1 DEF Seen, Fields
    <3>3. /\ \A u \in Threads : u # t => th'[u] = th[u]
          /\ th'[t].pc = "reload" /\ th'[t].missed = s.missed /\ th'[t].best = s.best
          /\ th'[t].max = s.max /\ th'[t].count = s.count /\ th'[t].start = s.start
      BY <2>3, <3>1, <3>2, GotoFields
    <3>4. l.best \in 1 .. Len(list)
      BY <1>1, <1>2, <1>8 DEF EachInv, TryBest, At
    <3>5. WalkInv(t)'
      BY <1>5, <3>2, <3>3, <3>4
         DEF WalkInv, CallInv, EachInv, InDequeue, Seeking, AtToken, Walks
    <3> QED
      BY <1>6, <2>2, <3>3, <3>5
  <2> QED
    BY <1>7, <2>1, <2>2, <2>3
<1>9. CASE Reload(t)
  <2>1. SizeInv'
    BY <1>9, SizeKept DEF Reload, producers
  <2> DEFINE s == [l EXCEPT !.ptr = Len(list)]
  <2>2. /\ DOMAIN s = Fields /\ s.count = l.count /\ s.missed = l.missed /\ s.max = l.max
        /\ s.start = l.start /\ s.ptr = Len(list)
    BY <1>2 DEF Fields
  <2>3. Goto(t, s, "each")
    BY <1>1, <1>9 DEF Reload
  <2> HIDE DEF s
  <2>4. /\ \A u \in Threads : u # t => th'[u] = th[u]
        /\ th'[t].pc = "each" /\ th'[t].missed = s.missed /\ th'[t].ptr = s.ptr
        /\ th'[t].max = s.max /\ th'[t].count = s.count /\ th'[t].start = s.start
    BY <2>2, <2>3, GotoFields
  <2>5. l.best \in 1 .. Len(list)
    BY <1>1, <1>2, <1>9 DEF EachInv, Reload, At
  <2>6. WalkInv(t)'
    BY <1>2, <1>5, <2>2, <2>4, <2>5
       DEF WalkInv, CallInv, EachInv, Covered, InDequeue, Seeking, AtToken, Walks
  <2> QED
    BY <1>6, <2>1, <2>4, <2>6
<1>10. CASE TryEach(t)
  <2>1. l.ptr \in 1 .. Len(list) /\ (l.count = 0 => Covered(l, l.ptr + 1, l.start))
    BY <1>1, <1>2, <1>10 DEF EachInv, TryEach, At
  <2>2. PICK n : /\ n \in IF l.ptr = l.best THEN {0} ELSE Outcomes(t, list[l.ptr])
                 /\ Handed(list[l.ptr], n)
                 /\ LET s == Seen(l, l.ptr, n) IN
                    IF s.count = l.max \/ l.ptr = 1 THEN Finish(t, s)
                    ELSE Goto(t, NextPtr(s), "each")
    BY <1>1, <1>10 DEF TryEach
  <2>3. SizeInv' /\ n \in Nat /\ l.count + n <= l.max
    <3>1. CASE l.ptr = l.best
      <4>1. n = 0 /\ prod' = [prod EXCEPT ![list[l.ptr]].out = @ + 0]
        BY <2>2, <3>1 DEF Handed
      <4>2. ASSUME NEW p \in DOMAIN prod PROVE prod'[p].in = prod[p].in /\ prod'[p].out = prod[p].out
        <5>1. prod[p].out \in Int /\ DOMAIN prod[p] = ProducerFields
          BY ProducerShape DEF SearchInv, SizeInv
        <5> QED
          BY <4>1, <5>1 DEF ProducerFields
      <4> QED
        BY <1>5, <4>1, <4>2, SizeKept
    <3>2. CASE l.ptr # l.best
      BY <1>1, <1>2, <2>1, <2>2, <3>2, HandedOut
    <3> QED
      BY <3>1, <3>2
  <2>4. PICK s : s = Seen(l, l.ptr, n)
    OBVIOUS
  <2>5. /\ DOMAIN s = Fields /\ s.seen = (IF n = 0 THEN l.seen \union {l.ptr} ELSE l.seen)
        /\ s.count = l.count + n /\ s.missed = l.missed /\ s.max = l.max /\ s.start = l.start
        /\ s.ptr = l.ptr
    BY ONLY <1>2, <2>4 DEF Seen, Fields
  <2>6. s.count \in 0 .. s.max /\ (s.count = 0 => Covered(s, s.ptr, s.start))
    <3>1. s.count \in 0 .. s.max /\ (s.count = 0 => n = 0 /\ l.count = 0)
      BY <1>5, <2>3, <2>5
    <3>2. ASSUME n = 0, Covered(l, l.ptr + 1, l.start) PROVE Covered(s, s.ptr, s.start)
      BY <1>5, <2>1, <2>5, <3>2 DEF Covered
    <3> QED
      BY <2>1, <3>1, <3>2
  <2>7. IF s.count = l.max \/ l.ptr = 1 THEN Finish(t, s) ELSE Goto(t, NextPtr(s), "each")
    BY <2>2, <2>4
  <2>8. CASE (s.count = l.max \/ l.ptr = 1) /\ Finish(t, s)
    <3>1. s.count = 0 => Covered(s, 1, s.start)
      <4>1. s.count = 0 => l.ptr = 1
        BY <1>5, <2>8
      <4> QED
        BY <2>5, <2>6, <4>1
    <3>2. Return(t) \/ (s.count = 0 /\ ReturnEmpty(t, s))
      BY <2>6, <2>8 DEF Finish
    <3> QED
      BY <1>7, <2>3, <3>1, <3>2
  <2>9. CASE l.ptr # 1 /\ Goto(t, NextPtr(s), "each")
    <3>1. PICK q : q = NextPtr(s)
      OBVIOUS
    <3>2. /\ DOMAIN q = Fields /\ q.ptr = s.ptr - 1 /\ q.missed = s.missed /\ q.max = s.max
          /\ q.count = s.count /\ q.start = s.start /\ q.seen = s.seen
      BY ONLY <2>5, <3>1 DEF Fields, NextPtr
    <3>3. /\ \A u \in Threads : u # t => th'[u] = th[u]
          /\ th'[t].pc = "each" /\ th'[t].missed = q.missed /\ th'[t].ptr = q.ptr
          /\ th'[t].max = q.max /\ th'[t].count = q.count /\ th'[t].start = q.start
          /\ th'[t].seen = q.seen
      BY <2>9, <3>1, <3>2, GotoFields
    <3>4. th'[t].ptr \in 1 .. Len(list) /\ th'[t].ptr + 1 = s.ptr
      BY <2>1, <2>5, <2>9, <3>2, <3>3
    <3>5. WalkInv(t)'
      BY <1>5, <2>5, <2>6, <3>2, <3>3, <3>4
         DEF WalkInv, CallInv, EachInv, Covered, InDequeue, Seeking, AtToken, Walks
    <3> QED
      BY <1>6, <2>3, <3>3, <3>5
  <2> QED
    BY <2>7, <2>8, <2>9
<1>11. CASE TryFrom(t)
  <2>1. Return(t) /\ SizeInv'
    BY <1>11, HandedOut DEF TryFrom
  <2> QED
    BY <1>7, <2>1
<1> QED
  BY <1>8, <1>9, <1>10, <1>11

(* A position reached along the list is one.                               *)
LEMMA OnwardRange ==
  ASSUME NEW i \in Int, NEW k \in Int, NEW tail \in Nat, tail >= 1
  PROVE  Onward(i, k, tail) \in 1 .. tail
BY DEF Onward

(* The next position: the one before, or the tail behind the first.        *)
LEMMA OnwardOne ==
  ASSUME NEW tail \in Nat, NEW i \in 1 .. tail
  PROVE  Onward(i, 1, tail) = IF i = 1 THEN tail ELSE i - 1
<1>1. CASE i = 1
  <2>1. (0 - 1) % tail = tail - 1
    OBVIOUS
  <2> QED
    BY <1>1, <2>1 DEF Onward
<1>2. CASE i # 1
  <2>1. i - 1 - 1 \in 0 .. tail - 1
    BY <1>2
  <2>2. (i - 1 - 1) % tail = i - 1 - 1
    BY <2>1
  <2> QED
    BY <1>2, <2>1, <2>2 DEF Onward
<1> QED
  BY <1>1, <1>2

(* A call with a consumer token.                                           *)
LEMMA AtSeeking ==
  ASSUME RegInv, SearchInv, NEW t \in Threads, th[t].pc \in Seeking
  PROVE  /\ DOMAIN th[t] = Fields /\ Len(list) \in Nat /\ DOMAIN list = 1 .. Len(list)
         /\ \A i \in DOMAIN list : list[i] \in DOMAIN prod
         /\ th[t].missed = {} /\ th[t].max \in Nat /\ th[t].count \in 0 .. th[t].max
         /\ th[t].max >= 1 /\ th[t].start \in 0 .. Len(list)
         /\ th[t].tok \in ConsumerTokens /\ th[t].tok # None
         /\ ctok[th[t].tok] \in ConsumerRecords /\ DOMAIN ctok = ConsumerTokens
         /\ ctok[th[t].tok].live /\ ~destroyed
         /\ ctok[th[t].tok].current \in 0 .. Len(list)
         /\ ctok[th[t].tok].desired \in 0 .. Len(list)
         /\ TokenWalkInv(th[t], Len(list), ctok[th[t].tok].current)
         /\ globalExplicitConsumerOffset \in Nat
<1>1. th[t].pc \in InDequeue /\ th[t].pc # "idle"
  BY DEF Seeking, AtToken, InDequeue
<1>2. DOMAIN th[t] = Fields /\ ~destroyed
  BY <1>1, Counts, BusyAlive
<1>3. WalkInv(t)
  BY DEF SearchInv
<1>4. ConsumerInv(th[t].tok)
  BY <1>3 DEF SearchInv, WalkInv
<1> QED
  BY <1>1, <1>2, <1>3, <1>4, ProducerShape DEF SearchInv, WalkInv, CallInv, ConsumerInv

(* The loads before a rotation.                                            *)
LEMMA RotateSearch ==
  ASSUME RegInv, SearchInv, NEW t \in Threads, Rotate(t), Walks(t)
  PROVE  SearchInv'
<1> DEFINE l == th[t]
<1>1. l.pc \in {"rotate", "counting"} /\ ctok' = ctok /\ prod' = prod
  BY DEF Rotate, At, producers
<1>2. /\ DOMAIN l = Fields /\ Len(list) \in Nat /\ DOMAIN list = 1 .. Len(list)
      /\ l.missed = {} /\ l.max \in Nat /\ l.count \in 0 .. l.max
      /\ l.max >= 1 /\ l.start \in 0 .. Len(list) /\ l.tok \in ConsumerTokens /\ l.tok # None
      /\ ctok[l.tok].live /\ ctok[l.tok].desired \in 0 .. Len(list) /\ ~destroyed
      /\ TokenWalkInv(l, Len(list), ctok[l.tok].current)
  BY <1>1, AtSeeking DEF Seeking
<1>3. SizeInv'
  BY <1>1, SizeKept
<1>4. ASSUME \A u \in Threads : u # t => th'[u] = th[u], th'[t].pc # "push", WalkInv(t)'
      PROVE  SearchInv'
  BY <1>1, <1>3, <1>4, WalkStep DEF Walks
<1>5. IsSeq(list)
  BY ProducerShape
<1>6. CASE At(t, "rotate") /\ list = <<>> /\ ReturnEmpty(t, l)
  <2>1. l.start = 0
    BY <1>2, <1>6, EmptySeq
  <2>2. Covered(l, 1, l.start)
    BY <2>1 DEF Covered
  <2>3. WalkInv(t)' /\ th'[t].pc = "idle" /\ \A u \in Threads : u # t => th'[u] = th[u]
    BY <1>6, <2>2, Ended
  <2> QED
    BY <1>4, <2>3
<1>7. CASE /\ At(t, "rotate") /\ ~(ctok[l.tok].desired = 0 /\ list = <<>>)
           /\ Goto(t, [l EXCEPT !.tail = Len(list)], "counting")
  <2>1. Len(list) >= 1
    BY <1>2, <1>5, <1>7
  <2> DEFINE m == [l EXCEPT !.tail = Len(list)]
  <2>2. /\ DOMAIN m = Fields /\ m.missed = l.missed /\ m.max = l.max /\ m.count = l.count
        /\ m.start = l.start /\ m.tok = l.tok /\ m.tail = Len(list)
    BY <1>2 DEF Fields
  <2>3. Goto(t, m, "counting")
    BY <1>7
  <2> HIDE DEF m, l
  <2>4. /\ \A u \in Threads : u # t => th'[u] = th[u]
        /\ th'[t].pc = "counting" /\ th'[t].missed = m.missed /\ th'[t].max = m.max
        /\ th'[t].count = m.count /\ th'[t].start = m.start /\ th'[t].tok = m.tok
        /\ th'[t].tail = m.tail
    BY <2>2, <2>3, GotoFields
  <2>5. WalkInv(t)'
    BY <1>1, <1>2, <2>1, <2>2, <2>4
       DEF WalkInv, CallInv, EachInv, TokenWalkInv, InDequeue, Seeking, AtToken, Walks
  <2> QED
    BY <1>4, <2>4, <2>5
<1>8. CASE At(t, "counting") /\ Goto(t, [l EXCEPT !.at = producerCount], "placing")
  <2>1. l.tail \in 1 .. Len(list)
    BY <1>2, <1>8 DEF TokenWalkInv, At
  <2>2. producerCount \in Nat /\ producerCount >= Len(list)
    <3>1. Cardinality(Pushing) \in Nat /\ producerCount = Len(list) + Cardinality(Pushing)
      BY <1>2, FS_CardinalityType DEF SearchInv, CountInv
    <3> QED
      BY <1>2, <3>1
  <2> DEFINE m == [l EXCEPT !.at = producerCount]
  <2>3. /\ DOMAIN m = Fields /\ m.missed = l.missed /\ m.max = l.max /\ m.count = l.count
        /\ m.start = l.start /\ m.tok = l.tok /\ m.tail = l.tail /\ m.at = producerCount
    BY <1>2 DEF Fields
  <2>4. Goto(t, m, "placing")
    BY <1>8
  <2> HIDE DEF m, l
  <2>5. /\ \A u \in Threads : u # t => th'[u] = th[u]
        /\ th'[t].pc = "placing" /\ th'[t].missed = m.missed /\ th'[t].max = m.max
        /\ th'[t].count = m.count /\ th'[t].start = m.start /\ th'[t].tok = m.tok
        /\ th'[t].tail = m.tail /\ th'[t].at = m.at
    BY <2>3, <2>4, GotoFields
  <2>6. WalkInv(t)'
    BY <1>1, <1>2, <2>1, <2>2, <2>3, <2>5
       DEF WalkInv, CallInv, EachInv, TokenWalkInv, InDequeue, Seeking, AtToken, Walks
  <2> QED
    BY <1>4, <2>5, <2>6
<1> QED
  BY <1>6, <1>7, <1>8 DEF Rotate

(* The rotation.                                                           *)
LEMMA PlaceSearch ==
  ASSUME RegInv, SearchInv, NEW t \in Threads, Place(t), Walks(t)
  PROVE  SearchInv'
<1> DEFINE l == th[t]
           c == ctok[l.tok]
           first == IF c.desired # 0 THEN c.desired
                    ELSE Onward(l.tail, l.at - 1 - (c.initial % l.at), l.tail)
           delta == ((globalExplicitConsumerOffset - c.last) % OffsetMod) % l.at
           there == Onward(first, delta, l.tail)
           r == [c EXCEPT !.last = globalExplicitConsumerOffset,
                   !.desired = there, !.current = there, !.items = 0]
           m == [l EXCEPT !.at = 0]
<1>1. /\ l.pc = "placing" /\ prod' = prod /\ ctok' = [ctok EXCEPT ![l.tok] = r]
      /\ Goto(t, m, "current")
  BY DEF Place, At, producers
<1>2. /\ DOMAIN l = Fields /\ Len(list) \in Nat
      /\ l.missed = {} /\ l.max \in Nat /\ l.count \in 0 .. l.max
      /\ l.max >= 1 /\ l.start \in 0 .. Len(list) /\ l.tok \in ConsumerTokens /\ l.tok # None
      /\ c \in ConsumerRecords /\ c.live /\ DOMAIN ctok = ConsumerTokens
      /\ TokenWalkInv(l, Len(list), c.current) /\ globalExplicitConsumerOffset \in Nat
  BY <1>1, AtSeeking DEF Seeking
<1>3. l.tail \in 1 .. Len(list) /\ l.at \in Nat /\ l.at >= l.tail
  BY <1>1, <1>2 DEF TokenWalkInv
<1>4. DOMAIN m = Fields /\ m.missed = l.missed /\ m.max = l.max /\ m.count = l.count
      /\ m.start = l.start /\ m.tok = l.tok
  BY <1>2 DEF Fields
<1>5. there \in 1 .. l.tail
  <2>1. c.initial \in Nat /\ c.last \in Nat /\ c.desired \in Nat
    BY <1>2 DEF ConsumerRecords
  <2> HIDE DEF l, c
  <2>2. c.initial % l.at \in Int
    BY <1>3, <2>1
  <2>3. l.tail \in Nat /\ l.tail >= 1 /\ l.tail \in Int
    BY <1>2, <1>3
  <2>4. first \in Int
    <3>1. PICK k : k = l.at - 1 - (c.initial % l.at)
      OBVIOUS
    <3>2. k \in Int
      BY <1>3, <2>2, <3>1
    <3>3. Onward(l.tail, k, l.tail) \in 1 .. l.tail
      BY <2>3, <3>2, OnwardRange
    <3> QED
      BY <2>1, <2>3, <3>1, <3>3
  <2>5. delta \in Int
    <3>1. (globalExplicitConsumerOffset - c.last) % OffsetMod \in Int
      BY <1>2, <2>1, RegistryAssumption
    <3> QED
      BY <1>3, <2>3, <3>1
  <2> HIDE DEF first, delta
  <2> QED
    BY <2>3, <2>4, <2>5, OnwardRange
<1> HIDE DEF there
<1>6. /\ r \in ConsumerRecords /\ r.current = there /\ r.desired = there /\ r.live
      /\ there \in 1 .. Len(list)
  <2>1. there \in Nat /\ there \in 1 .. Len(list)
    BY <1>2, <1>3, <1>5
  <2> HIDE DEF c
  <2> QED
    BY <1>2, <2>1 DEF ConsumerRecords
<1> HIDE DEF r, m
<1>7. /\ \A u \in Threads : u # t => th'[u] = th[u]
      /\ th'[t].pc = "current" /\ th'[t].missed = m.missed /\ th'[t].max = m.max
      /\ th'[t].count = m.count /\ th'[t].start = m.start /\ th'[t].tok = m.tok
  BY <1>1, <1>4, GotoFields
<1>8. ctok'[l.tok] = r
  BY <1>1, <1>2
<1>9. WalkInv(t)'
  <2> HIDE DEF l, c
  <2>1. CallInv(th'[t], Len(list)) /\ EachInv(th'[t], Len(list))
    BY <1>2, <1>4, <1>7 DEF CallInv, EachInv
  <2>2. TokenWalkInv(th'[t], Len(list), there)
    BY <1>6, <1>7 DEF TokenWalkInv, AtToken
  <2> QED
    BY <1>2, <1>4, <1>6, <1>7, <1>8, <2>1, <2>2 DEF WalkInv, Walks
<1>10. SizeInv'
  BY <1>1, SizeKept
<1>11. there \in 0 .. Len(list)
  BY <1>2, <1>6
<1>12. \E x : /\ ctok' = [ctok EXCEPT ![th[t].tok] = x] /\ x \in ConsumerRecords
              /\ x.current \in 1 .. Len(list) /\ x.desired \in 0 .. Len(list)
  BY <1>1, <1>6, <1>11, Zenon
<1> QED
  BY <1>1, <1>7, <1>9, <1>10, <1>12, WalkStep DEF Walks

(* Dequeueing from the producer the token is at.                           *)
LEMMA CurrentSearch ==
  ASSUME RegInv, SearchInv, NEW t \in Threads, TryCurrent(t), Walks(t)
  PROVE  SearchInv'
<1> DEFINE l == th[t]
           c == ctok[l.tok]
<1>1. l.pc = "current"
  BY DEF TryCurrent, At
<1>2. /\ DOMAIN l = Fields /\ Len(list) \in Nat /\ DOMAIN list = 1 .. Len(list)
      /\ \A i \in DOMAIN list : list[i] \in DOMAIN prod
      /\ l.missed = {} /\ l.max \in Nat /\ l.count \in 0 .. l.max
      /\ l.max >= 1 /\ l.start \in 0 .. Len(list) /\ l.tok \in ConsumerTokens /\ l.tok # None
      /\ c \in ConsumerRecords /\ c.live /\ c.desired \in 0 .. Len(list)
      /\ DOMAIN ctok = ConsumerTokens /\ TokenWalkInv(l, Len(list), c.current)
  BY <1>1, AtSeeking DEF Seeking, AtToken
<1>3. c.current \in 1 .. Len(list)
  BY <1>1, <1>2 DEF TokenWalkInv, AtToken
<1>4. PICK n \in Outcomes(t, list[c.current]) :
        /\ Handed(list[c.current], n)
        /\ ctok' = [ctok EXCEPT ![l.tok].items = c.items + n]
        /\ \/ Goto(t, Seen(l, c.current, n), "onward") \/ Goto(t, Seen(l, c.current, n), "turn")
           \/ Return(t)
  BY DEF TryCurrent
<1>5. SizeInv' /\ n \in Nat /\ l.count + n <= l.max
  BY <1>2, <1>3, <1>4, HandedOut
<1> DEFINE r == [c EXCEPT !.items = c.items + n]
           s == Seen(l, c.current, n)
<1>6. ctok' = [ctok EXCEPT ![l.tok] = r]
  BY <1>4
<1>7. /\ r \in ConsumerRecords /\ r.current = c.current /\ r.desired = c.desired /\ r.live
  <2>1. c \in ConsumerRecords /\ c.live /\ n \in Nat
    BY <1>2, <1>5
  <2> HIDE DEF c
  <2> QED
    BY ONLY <2>1 DEF ConsumerRecords
<1>8. ctok'[l.tok] = r
  BY <1>2, <1>6
<1>9. Goto(t, s, "onward") \/ Goto(t, s, "turn") \/ Return(t)
  BY <1>4
<1>10. /\ DOMAIN s = Fields /\ s.seen = (IF n = 0 THEN l.seen \union {c.current} ELSE l.seen)
       /\ s.count = l.count + n /\ s.missed = l.missed /\ s.max = l.max /\ s.start = l.start
       /\ s.tok = l.tok
  <2> HIDE DEF l, c
  <2> QED
    BY ONLY <1>2 DEF Seen, Fields
<1> HIDE DEF r, s
<1>11. \E x : /\ ctok' = [ctok EXCEPT ![th[t].tok] = x] /\ x \in ConsumerRecords
              /\ x.current \in 1 .. Len(list) /\ x.desired \in 0 .. Len(list)
  BY <1>2, <1>3, <1>6, <1>7, Zenon
<1>12. ASSUME \A u \in Threads : u # t => th'[u] = th[u], th'[t].pc # "push", WalkInv(t)'
       PROVE  SearchInv'
  BY <1>1, <1>5, <1>11, <1>12, WalkStep DEF Walks
<1>13. CASE Return(t)
  BY <1>12, <1>13, Ended
<1>14. ASSUME NEW pc \in {"onward", "turn"}, Goto(t, s, pc) PROVE SearchInv'
  <2>1. /\ \A u \in Threads : u # t => th'[u] = th[u]
        /\ th'[t].pc = pc /\ th'[t].missed = s.missed /\ th'[t].max = s.max
        /\ th'[t].count = s.count /\ th'[t].start = s.start /\ th'[t].tok = s.tok
        /\ th'[t].seen = s.seen
    BY <1>10, <1>14, GotoFields
  <2> HIDE DEF l, c
  <2>2. CallInv(th'[t], Len(list)) /\ EachInv(th'[t], Len(list))
    BY <1>2, <1>5, <1>10, <1>14, <2>1 DEF CallInv, EachInv
  <2>3. pc = "onward" => TokenWalkInv(th'[t], Len(list), c.current)
    <3>1. s.count = 0 => c.current \in s.seen
      BY <1>2, <1>5, <1>10
    <3> QED
      BY <1>3, <2>1, <3>1 DEF TokenWalkInv, AtToken
  <2>4. WalkInv(t)'
    BY <1>2, <1>7, <1>8, <1>10, <1>14, <2>1, <2>2, <2>3 DEF WalkInv, Walks, Seeking, AtToken
  <2> QED
    BY <1>12, <1>14, <2>1, <2>4
<1> QED
  BY <1>9, <1>13, <1>14

(* The way around the list begins.                                         *)
LEMMA LoadTailSearch ==
  ASSUME RegInv, SearchInv, NEW t \in Threads, LoadTail(t), Walks(t)
  PROVE  SearchInv'
<1> DEFINE l == th[t]
           a == ctok[l.tok].current
           m == [l EXCEPT !.tail = Len(list), !.ptr = Onward(a, 1, Len(list))]
<1>1. l.pc = "onward" /\ prod' = prod /\ ctok' = ctok /\ Goto(t, m, "search")
  BY DEF LoadTail, At, producers
<1>2. /\ DOMAIN l = Fields /\ Len(list) \in Nat
      /\ l.missed = {} /\ l.max \in Nat /\ l.count \in 0 .. l.max
      /\ l.max >= 1 /\ l.start \in 0 .. Len(list) /\ l.tok \in ConsumerTokens /\ l.tok # None
      /\ ctok[l.tok].live /\ TokenWalkInv(l, Len(list), a)
  BY <1>1, AtSeeking DEF Seeking, AtToken
<1>3. a \in 1 .. Len(list) /\ (l.count = 0 => a \in l.seen)
  BY <1>1, <1>2 DEF TokenWalkInv, AtToken
<1>4. /\ DOMAIN m = Fields /\ m.missed = l.missed /\ m.max = l.max /\ m.count = l.count
      /\ m.start = l.start /\ m.tok = l.tok /\ m.tail = Len(list) /\ m.seen = l.seen
      /\ m.ptr = Onward(a, 1, Len(list))
  <2> HIDE DEF l, a
  <2> QED
    BY <1>2 DEF Fields
<1> HIDE DEF m
<1>5. /\ \A u \in Threads : u # t => th'[u] = th[u]
      /\ th'[t].pc = "search" /\ th'[t].missed = m.missed /\ th'[t].max = m.max
      /\ th'[t].count = m.count /\ th'[t].start = m.start /\ th'[t].tok = m.tok
      /\ th'[t].seen = m.seen /\ th'[t].ptr = m.ptr /\ th'[t].tail = m.tail
  BY <1>1, <1>4, GotoFields
<1>6. th'[t].ptr = IF a = 1 THEN Len(list) ELSE a - 1
  BY <1>2, <1>3, <1>4, <1>5, OnwardOne
<1>7. WalkInv(t)'
  <2> HIDE DEF l, a
  <2>1. CallInv(th'[t], Len(list)) /\ EachInv(th'[t], Len(list))
    BY <1>2, <1>4, <1>5 DEF CallInv, EachInv
  <2>2. TokenWalkInv(th'[t], Len(list), a)
    BY <1>2, <1>3, <1>4, <1>5, <1>6 DEF TokenWalkInv, AtToken, Covered
  <2> QED
    BY <1>1, <1>2, <1>4, <1>5, <2>1, <2>2 DEF WalkInv, Walks, a, l
<1>8. SizeInv'
  BY <1>1, SizeKept
<1> QED
  BY <1>1, <1>5, <1>7, <1>8, WalkStep DEF Walks

(* A step around the list, or the end of the way.                          *)
LEMMA AroundSearch ==
  ASSUME RegInv, SearchInv, NEW t \in Threads, Search(t), Walks(t)
  PROVE  SearchInv'
<1> DEFINE l == th[t]
           c == ctok[l.tok]
           a == c.current
<1>1. l.pc = "search"
  BY DEF Search, At
<1>2. /\ DOMAIN l = Fields /\ Len(list) \in Nat /\ DOMAIN list = 1 .. Len(list)
      /\ \A i \in DOMAIN list : list[i] \in DOMAIN prod
      /\ l.missed = {} /\ l.max \in Nat /\ l.count \in 0 .. l.max
      /\ l.max >= 1 /\ l.start \in 0 .. Len(list) /\ l.tok \in ConsumerTokens /\ l.tok # None
      /\ c \in ConsumerRecords /\ c.live /\ c.desired \in 0 .. Len(list)
      /\ DOMAIN ctok = ConsumerTokens /\ TokenWalkInv(l, Len(list), a)
  BY <1>1, AtSeeking DEF Seeking, AtToken
<1>3. /\ l.tail \in l.start .. Len(list) /\ l.ptr \in 1 .. l.tail /\ a \in 1 .. l.tail
      /\ l.count = 0 => IF l.ptr < a THEN Covered(l, l.ptr + 1, a)
                        ELSE Covered(l, 1, a) /\ Covered(l, l.ptr + 1, l.tail)
  BY <1>1, <1>2 DEF TokenWalkInv
<1>4. CASE l.ptr = a
  <2>1. Finish(t, l) /\ prod' = prod /\ ctok' = ctok
    BY <1>4 DEF Search
  <2>2. l.count = 0 => Covered(l, 1, l.start)
    <3> HIDE DEF l, a
    <3> QED
      BY <1>2, <1>3, <1>4 DEF Covered
  <2>3. Return(t) \/ (l.count = 0 /\ ReturnEmpty(t, l))
    BY <1>2, <2>1 DEF Finish
  <2>4. WalkInv(t)' /\ th'[t].pc = "idle" /\ \A u \in Threads : u # t => th'[u] = th[u]
    BY <2>2, <2>3, Ended
  <2> QED
    BY <1>1, <2>1, <2>4, SizeKept, WalkStep DEF Walks
<1>5. CASE l.ptr # a
  <2>1. PICK n \in Outcomes(t, list[l.ptr]) :
          /\ Handed(list[l.ptr], n)
          /\ ctok' = IF n = 0 THEN ctok
                     ELSE [ctok EXCEPT ![l.tok].current = l.ptr, ![l.tok].items = n]
          /\ \/ Return(t)
             \/ Goto(t, [Seen(l, l.ptr, n) EXCEPT !.ptr = Onward(l.ptr, 1, l.tail)], "search")
    BY <1>5 DEF Search
  <2>2. l.ptr \in DOMAIN list
    BY <1>2, <1>3
  <2>3. SizeInv' /\ n \in Nat /\ l.count + n <= l.max
    BY <1>2, <2>1, <2>2, HandedOut
  <2> DEFINE x == Seen(l, l.ptr, n)
             s == [x EXCEPT !.ptr = Onward(l.ptr, 1, l.tail)]
             r == IF n = 0 THEN c ELSE [c EXCEPT !.current = l.ptr, !.items = n]
  <2>4. Return(t) \/ Goto(t, s, "search")
    BY <2>1
  <2>5. ctok' = ctok \/ ctok' = [ctok EXCEPT ![l.tok] = r]
    BY <2>1
  <2>6. ctok'[l.tok] = r
    BY <1>2, <2>1
  <2>7. /\ DOMAIN x = Fields /\ x.seen = (IF n = 0 THEN l.seen \union {l.ptr} ELSE l.seen)
        /\ x.count = l.count + n /\ x.missed = l.missed /\ x.max = l.max /\ x.start = l.start
        /\ x.tok = l.tok /\ x.tail = l.tail
    <3> HIDE DEF l, a
    <3> QED
      BY ONLY <1>2 DEF Seen, Fields
  <2> HIDE DEF x
  <2>8. /\ DOMAIN s = Fields /\ s.seen = x.seen /\ s.count = x.count /\ s.missed = x.missed
        /\ s.max = x.max /\ s.start = x.start /\ s.tok = x.tok /\ s.tail = x.tail
        /\ s.ptr = Onward(l.ptr, 1, l.tail)
    BY ONLY <2>7 DEF Fields
  <2> HIDE DEF s
  <2>9. /\ r \in ConsumerRecords /\ r.live /\ r.desired = c.desired
        /\ r.current = IF n = 0 THEN a ELSE l.ptr
    <3>1. l.ptr \in Nat
      BY <1>2, <2>2
    <3> HIDE DEF l, c
    <3> QED
      BY <1>2, <2>3, <3>1 DEF ConsumerRecords
  <2> HIDE DEF r
  <2>10. r.current \in 1 .. l.tail /\ r.current \in 1 .. Len(list) /\ l.tail \in Nat
    <3> HIDE DEF l, a
    <3> QED
      BY <1>2, <1>3, <2>9
  <2>11. \/ ctok' = ctok
         \/ \E y : /\ ctok' = [ctok EXCEPT ![th[t].tok] = y] /\ y \in ConsumerRecords
                   /\ y.current \in 1 .. Len(list) /\ y.desired \in 0 .. Len(list)
    BY <1>2, <2>5, <2>9, <2>10, Zenon
  <2>12. ASSUME \A u \in Threads : u # t => th'[u] = th[u], th'[t].pc # "push", WalkInv(t)'
         PROVE  SearchInv'
    BY <1>1, <2>3, <2>11, <2>12, WalkStep DEF Walks
  <2>13. CASE Return(t)
    BY <2>12, <2>13, Ended
  <2>14. CASE Goto(t, s, "search")
    <3>1. /\ \A u \in Threads : u # t => th'[u] = th[u]
          /\ th'[t].pc = "search" /\ th'[t].missed = s.missed /\ th'[t].max = s.max
          /\ th'[t].count = s.count /\ th'[t].start = s.start /\ th'[t].tok = s.tok
          /\ th'[t].seen = s.seen /\ th'[t].ptr = s.ptr /\ th'[t].tail = s.tail
      BY <2>8, <2>14, GotoFields
    <3>2. PICK j : j = IF l.ptr = 1 THEN l.tail ELSE l.ptr - 1
      OBVIOUS
    <3>3. s.ptr = j /\ j \in 1 .. l.tail
      BY <1>3, <2>8, <2>10, <3>2, OnwardOne
    <3>4. s.count = 0 => IF j < a THEN Covered(s, j + 1, a)
                         ELSE Covered(s, 1, a) /\ Covered(s, j + 1, l.tail)
      <4>1. s.count = 0 => l.count = 0 /\ n = 0
        BY <1>2, <2>3, <2>7, <2>8
      <4>2. n = 0 => s.seen = l.seen \union {l.ptr}
        BY <2>7, <2>8
      <4> HIDE DEF l, a
      <4>3. l.tail \in Nat /\ a \in 1 .. l.tail /\ l.ptr \in 1 .. l.tail /\ l.ptr # a
        BY <1>3, <1>5, <2>10
      <4> SUFFICES ASSUME s.count = 0
                   PROVE  IF j < a THEN Covered(s, j + 1, a)
                          ELSE Covered(s, 1, a) /\ Covered(s, j + 1, l.tail)
        OBVIOUS
      <4>4. /\ s.seen = l.seen \union {l.ptr}
            /\ IF l.ptr < a THEN Covered(l, l.ptr + 1, a)
               ELSE Covered(l, 1, a) /\ Covered(l, l.ptr + 1, l.tail)
        BY <1>3, <4>1, <4>2
      <4> HIDE DEF s
      <4>5. CASE l.ptr < a
        <5>1. Covered(s, l.ptr, a)
          BY <4>3, <4>4, <4>5 DEF Covered
        <5>2. CASE l.ptr = 1
          BY <3>2, <4>3, <4>5, <5>1, <5>2 DEF Covered
        <5>3. CASE l.ptr # 1
          BY <3>2, <4>3, <4>5, <5>1, <5>3 DEF Covered
        <5> QED
          BY <5>2, <5>3
      <4>6. CASE ~(l.ptr < a)
        <5>1. Covered(s, 1, a) /\ Covered(s, l.ptr, l.tail)
          BY <4>3, <4>4, <4>6 DEF Covered
        <5>2. l.ptr # 1 /\ j = l.ptr - 1 /\ ~(j < a) /\ j + 1 = l.ptr
          BY <3>2, <4>3, <4>6
        <5> QED
          BY <5>1, <5>2
      <4> QED
        BY <4>5, <4>6
    <3> HIDE DEF l, c, a
    <3>5. CallInv(th'[t], Len(list)) /\ EachInv(th'[t], Len(list))
      BY <1>2, <2>3, <2>7, <2>8, <3>1 DEF CallInv, EachInv
    <3>6. TokenWalkInv(th'[t], Len(list), r.current)
      <4>1. s.count = 0 => r.current = a
        BY <1>2, <2>3, <2>7, <2>8, <2>9
      <4>2. s.tail = l.tail /\ s.start = l.start /\ l.tail \in s.start .. Len(list)
        BY <1>3, <2>7, <2>8
      <4> QED
        BY <2>10, <3>1, <3>3, <3>4, <4>1, <4>2 DEF TokenWalkInv, AtToken, Covered
    <3>7. WalkInv(t)'
      BY <1>2, <2>6, <2>7, <2>8, <2>9, <3>1, <3>5, <3>6 DEF WalkInv, Walks
    <3> QED
      BY <2>12, <3>1, <3>7
  <2> QED
    BY <2>4, <2>13, <2>14
<1> QED
  BY <1>4, <1>5

(***************************************************************************)
(* The theorem                                                             *)
(***************************************************************************)

(* Every step keeps the invariant.                                         *)
LEMMA StepSearch == RegInv /\ SearchInv /\ [Next]_vars => SearchInv'
<1> SUFFICES ASSUME RegInv, SearchInv, [Next]_vars PROVE SearchInv'
  OBVIOUS
<1>1. ASSUME NEW t \in Threads,
             HashStep(t) \/ \E n \in 1 .. left.bulk : EnqueueImplicit(t, n)
      PROVE  SearchInv'
  BY <1>1, HashSearch
<1>2. ASSUME NEW t \in Threads, ListStep(t) PROVE SearchInv'
  BY <1>2, ListSearch
<1>3. ASSUME NEW t \in Threads, Assign(t) \/ Enqueue(t) PROVE SearchInv'
  BY <1>3, AssignSearch
<1>4. ASSUME NEW t \in Threads, TokenCall(t) PROVE SearchInv'
  BY <1>4, TokenSearch
<1>5. ASSUME NEW t \in Threads, Deactivate(t) \/ Turn(t) PROVE SearchInv'
  BY <1>5, EndSearch
<1>6. ASSUME NEW t \in Threads, Dequeue(t) PROVE SearchInv'
  <2>1. UNCHANGED <<tok, nextExplicitConsumerId, globalExplicitConsumerOffset, hashes>>
    BY <1>6 DEF Dequeue
  <2>2. CASE DequeueCall(t)
    BY <2>1, <2>2, DequeueCallSearch
  <2>3. CASE DequeueStep(t) /\ Continues
    <3>1. Walks(t)
      BY <2>1, <2>3 DEF Walks, Continues, DequeueStep, MeasureTail, Score, TryBest, Reload, TryEach,
         TryFrom, Rotate, Place, TryCurrent, LoadTail, Search, producers
    <3> QED
      BY <2>3, <3>1, ScoreSearch, EachSearch, RotateSearch, PlaceSearch, CurrentSearch,
         LoadTailSearch, AroundSearch DEF DequeueStep
  <2> QED
    BY <1>6, <2>2, <2>3 DEF Dequeue
<1>7. CASE Destroy \/ UNCHANGED vars
  BY <1>7, EndSearch
<1> QED
  BY <1>1, <1>2, <1>3, <1>4, <1>5, <1>6, <1>7 DEF Next

(* A dequeue that returns false has found every sub-queue that existed     *)
(* when it began to appear empty, and a rotation finds producerCount not   *)
(* behind the list it has loaded.  For any number of threads, producers    *)
(* and tokens, any quota and any width of the consumer offsets.            *)
THEOREM NothingOverlookedAlways == Spec => []NothingOverlooked
<1>1. Spec => []RegInv
  BY InitReg, StepReg, PTL DEF Spec
<1>2. Spec => [](RegInv /\ SearchInv)
  BY <1>1, InitSearch, StepSearch, PTL DEF Spec
<1>3. RegInv /\ SearchInv => NothingOverlooked
  <2> SUFFICES ASSUME RegInv, SearchInv, NEW t \in Threads
               PROVE  th[t].missed = {} /\ (At(t, "placing") => th[t].at >= th[t].tail)
    BY DEF NothingOverlooked
  <2> QED
    BY DEF SearchInv, WalkInv, CallInv, TokenWalkInv, Seeking, At
<1> QED
  BY <1>2, <1>3, PTL
=============================================================================
