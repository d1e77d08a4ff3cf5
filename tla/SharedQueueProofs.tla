------------------------- MODULE SharedQueueProofs --------------------------
(***************************************************************************)
(* Proofs about SharedQueue, for any finite set of elements, with and      *)
(* without a lock around Enqueue.  However the calls race, a node is       *)
(* written into the list once, behind a node that was written earlier, so  *)
(* the nodes can be ranked by when they were written (the rank is not      *)
(* state: the invariant says that there is one), and the loop only ever    *)
(* goes from a node to one of a higher rank.                               *)
(***************************************************************************)
EXTENDS SharedQueue, FiniteSetTheorems, TLAPS

(* The nodes that their Enqueue has written into the list. *)
Touched == {e \in Element : producer[e].pc \in {"last", "count", "counted", "accepted"}}

(* Between its question for the length and its own change of the length    *)
(* the loop finds that it is not 0, as nobody else lowers it.              *)
LengthOK ==
  /\ length <= Cardinality(Accepted)
  /\ \A e \in Element : producer[e].pc = "counted" => producer[e].len <= Cardinality(Accepted)
  /\ consumer.pc \in {"loadstart", "onlyone", "clearstart", "clearend", "loadnext",
                      "advance", "count"} => length # 0
  /\ consumer.pc = "counted" => consumer.len # 0 /\ consumer.len <= Cardinality(Accepted)

(* What the fields of the list refer to. *)
ListRanked(rank) ==
  /\ start # Nil => start \in Touched
  /\ end # Nil => end \in Touched
  /\ \A n \in Element :
       next[n] # Nil => {n, next[n]} \subseteq Touched /\ rank[n] < rank[next[n]]
  /\ \A e \in Element :
       producer[e].pc = "link" /\ producer[e].at # Nil => producer[e].at \in Touched

(* What the loop has loaded, compared with where the list starts.          *)
LoopRanked(rank) ==
  /\ consumer.pc \in {"idle", "loadstart"} => consumer.node = Nil
  /\ consumer.node # Nil => consumer.node \in Touched
  /\ consumer.node # Nil /\ start # Nil =>
       IF consumer.pc \in {"onlyone", "clearstart", "loadnext", "advance"}
       THEN rank[consumer.node] <= rank[start] ELSE rank[consumer.node] < rank[start]
  /\ consumer.pc = "advance" /\ consumer.to # Nil =>
       /\ consumer.to \in Touched
       /\ consumer.node # Nil => rank[consumer.node] < rank[consumer.to]

(* What was taken has lower ranks than all that can still be taken.        *)
TakenRanked(rank) ==
  /\ \A i \in 1 .. Len(taken) :
       /\ taken[i] \in Touched
       /\ start # Nil => rank[taken[i]] < rank[start]
       /\ consumer.node # Nil => rank[taken[i]] < rank[consumer.node]
       /\ consumer.pc = "advance" /\ consumer.to # Nil => rank[taken[i]] < rank[consumer.to]
  /\ \A i, j \in 1 .. Len(taken) : i < j => rank[taken[i]] < rank[taken[j]]

(* What was accepted before a call began has a lower rank than its node.   *)
AfterRanked(rank) ==
  \A e \in Element : \A x \in after[e] :
    x \in Touched /\ (e \in Touched => rank[x] < rank[e])

Ranked(rank, clock) ==
  /\ \A e \in Touched : rank[e] < clock
  /\ ListRanked(rank) /\ LoopRanked(rank) /\ TakenRanked(rank) /\ AfterRanked(rank)

Ranks == [Element -> Nat]

IInv == TypeOK /\ LengthOK /\ \E rank \in Ranks, clock \in Nat : Ranked(rank, clock)
-----------------------------------------------------------------------------
(* What a step does to the goroutine that takes it. *)

(* A call of Enqueue that goes on changes its own program counter only. *)
LEMMA GotoSets ==
  ASSUME TypeOK, NEW e \in Element, NEW to, Goto(e, to)
  PROVE  /\ producer'[e].pc = to
         /\ producer'[e].at = producer[e].at /\ producer'[e].len = producer[e].len
         /\ \A d \in Element \ {e} : producer'[d] = producer[d]
         /\ \A d \in Element : producer'[d].at = producer[d].at
BY DEF TypeOK, Goto

LEMMA LoadEndSets ==
  ASSUME TypeOK, NEW e \in Element, LoadEnd(e)
  PROVE  /\ producer'[e].pc = "link" /\ producer'[e].at = end
         /\ \A d \in Element \ {e} : producer'[d] = producer[d]
BY DEF TypeOK, LoadEnd

LEMMA CountLoadSets ==
  ASSUME TypeOK, NEW e \in Element, CountLoad(e)
  PROVE  /\ producer'[e].pc = "counted" /\ producer'[e].len = length
         /\ producer'[e].at = producer[e].at
         /\ \A d \in Element \ {e} : producer'[d] = producer[d]
BY DEF TypeOK, CountLoad

(* The loop goes on. *)
LEMMA ProceedSets ==
  ASSUME TypeOK, NEW to, Proceed(to)
  PROVE  /\ consumer'.pc = to /\ consumer'.node = consumer.node
         /\ consumer'.to = consumer.to /\ consumer'.len = consumer.len
BY DEF TypeOK, Proceed

(* A node is touched by the store that puts it in the list, and by no      *)
(* other step.                                                             *)
LEMMA StoreTouches ==
  ASSUME TypeOK, NEW e \in Element, StoreStart(e) \/ Link(e)
  PROVE  e \notin Touched /\ Touched' = Touched \cup {e}
<1>1. producer[e].pc \in {"first", "link"} /\ Goto(e, "last")
      BY DEF StoreStart, Link, At
<1>2. producer'[e].pc = "last" /\ \A d \in Element \ {e} : producer'[d] = producer[d]
      BY <1>1, GotoSets
<1> QED BY <1>1, <1>2 DEF Touched

LEMMA OthersTouchNothing ==
  ASSUME TypeOK, NEW e \in Element,
         AddTask(e) \/ LoadLength(e) \/ LoadEnd(e) \/ Drop(e) \/ StoreEnd(e)
           \/ CountLoad(e) \/ CountStore(e)
  PROVE  Touched' = Touched
<1>1. \A d \in Element \ {e} : producer'[d] = producer[d]
      BY GotoSets, LoadEndSets, CountLoadSets
         DEF AddTask, LoadLength, Drop, StoreEnd, CountStore
<1>2. \/ /\ producer[e].pc \in {"idle", "isempty", "loadend", "link"}
         /\ producer'[e].pc \in {"isempty", "first", "loadend", "link", "dropped"}
      \/ /\ producer[e].pc \in {"last", "count", "counted"}
         /\ producer'[e].pc \in {"count", "counted", "accepted"}
      BY GotoSets, LoadEndSets, CountLoadSets
         DEF AddTask, LoadLength, LoadEnd, Drop, StoreEnd, CountLoad, CountStore, At
<1> QED BY <1>1, <1>2 DEF Touched

(* The loop touches no node. *)
LEMMA DequeueTouches == Dequeue => producer' = producer /\ after' = after /\ Touched' = Touched
BY DEF Dequeue, RunTask, LoadStart, OnlyOne, ClearStart, ClearEnd, LoadNext, Advance,
       CountDown, StoreCount, Return, Panic, LoopOnly, Touched
-----------------------------------------------------------------------------
(* The ranks, through the steps of Enqueue. *)

(* A step that touches no node and leaves the list, the loop and what was  *)
(* taken alone keeps the ranks, if what it loaded was touched.             *)
LEMMA QuietStep ==
  ASSUME NEW rank, NEW clock, Ranked(rank, clock),
         UNCHANGED <<start, next, consumer, taken>>, Touched' = Touched,
         end' # Nil => end' \in Touched,
         \A d \in Element :
           producer'[d].pc = "link" /\ producer'[d].at # Nil => producer'[d].at \in Touched,
         \A d \in Element : after'[d] = after[d] \/ (d \notin Touched /\ after'[d] \subseteq Touched)
  PROVE  Ranked(rank, clock)'
<1> USE DEF Ranked
<1>1. ListRanked(rank)'
      BY DEF ListRanked
<1>2. LoopRanked(rank)' /\ TakenRanked(rank)'
      BY DEF LoopRanked, TakenRanked
<1>3. AfterRanked(rank)'
      BY DEF AfterRanked
<1> QED BY <1>1, <1>2, <1>3

LEMMA ProducerQuiet ==
  ASSUME TypeOK, NEW e \in Element, NEW rank, NEW clock, Ranked(rank, clock),
         AddTask(e) \/ LoadLength(e) \/ LoadEnd(e) \/ Drop(e) \/ StoreEnd(e)
           \/ CountLoad(e) \/ CountStore(e)
  PROVE  Ranked(rank, clock)'
<1> USE DEF LoopUntouched, queue, history
<1>1. Touched' = Touched
      BY OthersTouchNothing
<1>2. UNCHANGED <<start, next, consumer, taken>>
      BY DEF AddTask, LoadLength, LoadEnd, Drop, StoreEnd, CountLoad, CountStore
<1>3. end' # Nil => end' \in Touched
      BY DEF AddTask, LoadLength, LoadEnd, Drop, StoreEnd, CountLoad, CountStore,
             Ranked, ListRanked, Touched, At
<1>4. ASSUME NEW d \in Element, producer'[d].pc = "link", producer'[d].at # Nil
      PROVE  producer'[d].at \in Touched
  <2>1. CASE LoadEnd(e) /\ d = e
        BY <1>4, <2>1, LoadEndSets DEF Ranked, ListRanked
  <2>2. CASE ~ (LoadEnd(e) /\ d = e)
    <3>1. producer'[d] = producer[d]
          BY <1>4, <2>2, GotoSets, LoadEndSets, CountLoadSets
             DEF AddTask, LoadLength, Drop, StoreEnd, CountStore
    <3> QED BY <1>4, <3>1 DEF Ranked, ListRanked
  <2> QED BY <2>1, <2>2
<1>5. ASSUME NEW d \in Element
      PROVE  after'[d] = after[d] \/ (d \notin Touched /\ after'[d] \subseteq Touched)
  <2>1. CASE AddTask(e)
        BY <2>1 DEF AddTask, At, Touched, Accepted, TypeOK
  <2>2. CASE after' = after
        BY <2>2
  <2> QED BY <2>1, <2>2
          DEF LoadLength, LoadEnd, Drop, StoreEnd, CountLoad, CountStore
<1> QED BY <1>1, <1>2, <1>3, <1>4, <1>5, QuietStep

(* The store that puts a node in the list gives it the highest rank. *)
LEMMA ProducerStores ==
  ASSUME TypeOK, NEW e \in Element, NEW rank \in Ranks, NEW clock \in Nat,
         Ranked(rank, clock), StoreStart(e) \/ Link(e)
  PROVE  Ranked([rank EXCEPT ![e] = clock], clock + 1)'
<1> DEFINE r == [rank EXCEPT ![e] = clock]
<1> USE NilAssumption DEF Ranks, LoopUntouched, history
<1>1. e \notin Touched /\ Touched' = Touched \cup {e}
      BY StoreTouches
<1>2. /\ r[e] = clock
      /\ \A d \in Element \ {e} : r[d] = rank[d]
      /\ \A d \in Touched : d \in Element /\ d # e /\ r[d] = rank[d] /\ rank[d] < clock
      BY <1>1 DEF Ranked, Touched
<1>3. UNCHANGED <<consumer, taken, after>>
      BY DEF StoreStart, Link
<1>4. start' = e \/ start' = start
      BY DEF StoreStart, Link
<1>5. \A d \in Touched' : r[d] < clock + 1
      BY <1>1, <1>2 DEF Ranks
<1>6. ListRanked(r)'
  <2>1. start' # Nil => start' \in Touched'
        BY <1>1, <1>4 DEF Ranked, ListRanked
  <2>2. end' # Nil => end' \in Touched'
        BY <1>1 DEF Ranked, ListRanked, StoreStart, Link
  <2>3. ASSUME NEW n \in Element, next'[n] # Nil
        PROVE  {n, next'[n]} \subseteq Touched' /\ r[n] < r[next'[n]]
    <3>1. CASE next'[n] = next[n]
          BY <1>1, <1>2, <2>3, <3>1 DEF Ranked, ListRanked
    <3>2. CASE next'[n] # next[n]
      <4>1. Link(e) /\ n = producer[e].at /\ next'[n] = e
            BY <3>2 DEF StoreStart, Link, TypeOK
      <4>2. n \in Touched
            BY <4>1 DEF Link, At, Ranked, ListRanked
      <4> QED BY <1>1, <1>2, <4>1, <4>2
    <3> QED BY <3>1, <3>2
  <2>4. ASSUME NEW d \in Element, producer'[d].pc = "link", producer'[d].at # Nil
        PROVE  producer'[d].at \in Touched'
    <3>1. producer'[d] = producer[d]
          BY <2>4, GotoSets DEF StoreStart, Link
    <3> QED BY <1>1, <2>4, <3>1 DEF Ranked, ListRanked
  <2> QED BY <2>1, <2>2, <2>3, <2>4 DEF ListRanked
<1>7. LoopRanked(r)'
  <2>1. consumer.node # Nil => consumer.node \in Touched
        BY DEF Ranked, LoopRanked
  <2>2. start # Nil => start \in Touched
        BY DEF Ranked, ListRanked
  <2>3. consumer.node # Nil /\ start' # Nil =>
          IF consumer.pc \in {"onlyone", "clearstart", "loadnext", "advance"}
          THEN r[consumer.node] <= r[start'] ELSE r[consumer.node] < r[start']
        BY <1>2, <1>4, <2>1, <2>2 DEF Ranked, LoopRanked
  <2>4. consumer.pc = "advance" /\ consumer.to # Nil =>
          /\ consumer.to \in Touched'
          /\ consumer.node # Nil => r[consumer.node] < r[consumer.to]
        BY <1>1, <1>2, <2>1 DEF Ranked, LoopRanked
  <2> QED BY <1>1, <1>3, <2>1, <2>3, <2>4 DEF Ranked, LoopRanked
<1>8. TakenRanked(r)'
  <2>1. ASSUME NEW i \in 1 .. Len(taken)
        PROVE  /\ taken[i] \in Touched'
               /\ start' # Nil => r[taken[i]] < r[start']
               /\ consumer.node # Nil => r[taken[i]] < r[consumer.node]
               /\ consumer.pc = "advance" /\ consumer.to # Nil => r[taken[i]] < r[consumer.to]
    <3>1. taken[i] \in Touched
          BY DEF Ranked, TakenRanked
    <3>2. start' # Nil => r[taken[i]] < r[start']
          BY <1>2, <1>4, <3>1 DEF Ranked, TakenRanked, ListRanked
    <3> QED BY <1>1, <1>2, <3>1, <3>2 DEF Ranked, TakenRanked, LoopRanked
  <2>2. ASSUME NEW i \in 1 .. Len(taken), NEW j \in 1 .. Len(taken), i < j
        PROVE  r[taken[i]] < r[taken[j]]
        BY <1>2, <2>2 DEF Ranked, TakenRanked
  <2> QED BY <1>3, <2>1, <2>2 DEF TakenRanked
<1>9. AfterRanked(r)'
      BY <1>1, <1>2, <1>3 DEF Ranked, AfterRanked, TypeOK
<1> QED BY <1>5, <1>6, <1>7, <1>8, <1>9 DEF Ranked
-----------------------------------------------------------------------------
(* The ranks, through the steps of Dequeue. *)

LEMMA DequeueRanked ==
  ASSUME TypeOK, NEW rank \in Ranks, NEW clock \in Nat, Ranked(rank, clock), Dequeue
  PROVE  Ranked(rank, clock)'
<1> USE NilAssumption DEF Ranked, Ranks, Loop, LoopOnly, queue
<1>1. producer' = producer /\ after' = after /\ Touched' = Touched
      BY DequeueTouches
<1>2. AfterRanked(rank)' /\ \A e \in Touched' : rank[e] < clock
      BY <1>1 DEF AfterRanked
<1>3. Touched \subseteq Element
      BY DEF Touched
<1>4. ListRanked(rank)'
  <2>1. start' # Nil => start' \in Touched
        BY DEF Dequeue, RunTask, LoadStart, OnlyOne, ClearStart, ClearEnd, LoadNext,
               Advance, CountDown, StoreCount, Return, Panic, ListRanked, LoopRanked
  <2>2. next' = next /\ (end' = end \/ end' = Nil)
        BY DEF Dequeue, RunTask, LoadStart, OnlyOne, ClearStart, ClearEnd, LoadNext,
               Advance, CountDown, StoreCount, Return, Panic
  <2> QED BY <1>1, <2>1, <2>2 DEF ListRanked
<1>5. LoopRanked(rank)' /\ TakenRanked(rank)'
  <2>1. CASE RunTask \/ OnlyOne \/ CountDown \/ StoreCount
    <3>1. /\ UNCHANGED <<start, taken>>
          /\ consumer'.node = consumer.node /\ consumer'.to = consumer.to
          BY <2>1, ProceedSets DEF RunTask, OnlyOne, CountDown, StoreCount, TypeOK
    <3>2. \/ consumer.pc = "idle" /\ consumer'.pc = "loadstart"
          \/ consumer.pc = "onlyone" /\ consumer'.pc \in {"clearstart", "loadnext"}
          \/ consumer.pc = "count" /\ consumer'.pc = "counted"
          \/ consumer.pc = "counted" /\ consumer'.pc = "return"
          BY <2>1, ProceedSets DEF RunTask, OnlyOne, CountDown, StoreCount, TypeOK
    <3>3. LoopRanked(rank)'
          BY <1>1, <3>1, <3>2 DEF LoopRanked
    <3> QED BY <1>1, <3>1, <3>2, <3>3 DEF TakenRanked
  <2>2. CASE LoadStart
    <3>1. /\ consumer'.pc = "onlyone" /\ consumer'.node = start
          /\ UNCHANGED <<start, taken>> /\ consumer.node = Nil
          BY <2>2 DEF LoadStart, TypeOK, LoopRanked
    <3>2. LoopRanked(rank)'
          BY <1>1, <1>3, <3>1 DEF LoopRanked, ListRanked
    <3> QED BY <1>1, <3>1, <3>2 DEF TakenRanked
  <2>3. CASE ClearStart \/ ClearEnd
    <3>1. /\ consumer'.node = consumer.node /\ consumer'.pc \in {"clearend", "count"}
          /\ start' = Nil \/ (start' = start /\ consumer.pc = "clearend") 
          /\ taken' = taken
          BY <2>3, ProceedSets DEF ClearStart, ClearEnd
    <3>2. LoopRanked(rank)'
          BY <1>1, <3>1 DEF LoopRanked
    <3> QED BY <1>1, <3>1, <3>2 DEF TakenRanked
  <2>4. CASE LoadNext
    <3>1. /\ consumer'.pc = "advance" /\ consumer'.node = consumer.node
          /\ consumer'.to = next[start] /\ consumer.pc = "loadnext"
          /\ UNCHANGED <<start, taken>> /\ start \in Element
          BY <2>4 DEF LoadNext, TypeOK
    <3>2. next[start] # Nil => /\ next[start] \in Touched /\ start \in Touched
                               /\ rank[start] < rank[next[start]]
          BY <3>1 DEF ListRanked
    <3>3. LoopRanked(rank)'
          BY <1>1, <1>3, <3>1, <3>2 DEF LoopRanked
    <3>4. ASSUME NEW i \in 1 .. Len(taken), next[start] # Nil
          PROVE  rank[taken[i]] < rank[next[start]]
      <4>1. taken[i] \in Element /\ rank[taken[i]] < rank[start]
            BY <1>3, <3>1 DEF TakenRanked
      <4> QED BY <1>3, <3>1, <3>2, <3>4, <4>1
    <3> QED BY <1>1, <3>1, <3>3, <3>4 DEF TakenRanked
  <2>5. CASE Advance
    <3>1. /\ consumer'.pc = "count" /\ consumer'.node = consumer.node
          /\ consumer.pc = "advance" /\ start' = consumer.to /\ taken' = taken
          BY <2>5, ProceedSets DEF Advance
    <3>2. LoopRanked(rank)'
          BY <1>1, <3>1 DEF LoopRanked
    <3> QED BY <1>1, <3>1, <3>2 DEF TakenRanked
  <2>6. CASE Return
    <3>1. /\ taken' = Append(taken, consumer.node) /\ start' = start
          /\ consumer.node \in Touched /\ consumer.pc = "return"
          /\ consumer'.pc = "idle" /\ consumer'.node = Nil
          BY <2>6 DEF Return, LoopRanked
    <3>2. taken \in Seq(Element) /\ consumer.node \in Element
          BY <1>3, <3>1 DEF TypeOK
    <3>3. /\ Len(taken') = Len(taken) + 1 /\ Len(taken) \in Nat
          /\ \A i \in 1 .. Len(taken) : taken'[i] = taken[i]
          /\ taken'[Len(taken) + 1] = consumer.node
          BY <3>1, <3>2
    <3>4. LoopRanked(rank)'
          BY <1>1, <3>1 DEF LoopRanked
    <3>5. ASSUME NEW i \in 1 .. Len(taken')
          PROVE  taken'[i] \in Touched /\ (start # Nil => rank[taken'[i]] < rank[start])
          BY <1>3, <3>1, <3>3, <3>5 DEF TakenRanked, LoopRanked
    <3>6. ASSUME NEW i \in 1 .. Len(taken'), NEW j \in 1 .. Len(taken'), i < j
          PROVE  rank[taken'[i]] < rank[taken'[j]]
      <4>1. i \in 1 .. Len(taken) /\ taken'[i] = taken[i]
            BY <3>3, <3>6
      <4>2. CASE j \in 1 .. Len(taken)
            BY <3>3, <3>6, <4>1, <4>2 DEF TakenRanked
      <4>3. CASE j = Len(taken) + 1
            BY <1>3, <3>1, <3>3, <4>1, <4>3 DEF TakenRanked
      <4> QED BY <3>3, <3>6, <4>2, <4>3
    <3> QED BY <1>1, <3>1, <3>4, <3>5, <3>6 DEF TakenRanked
  <2>7. CASE Panic
    <3>1. UNCHANGED <<start, consumer, taken>>
          BY <2>7 DEF Panic
    <3> QED BY <1>1, <3>1 DEF LoopRanked, TakenRanked
  <2> QED BY <2>1, <2>2, <2>3, <2>4, <2>5, <2>6, <2>7 DEF Dequeue
<1> QED BY <1>2, <1>4, <1>5

(* There is a ranking after every step. *)
LEMMA NextRanked ==
  IInv /\ [Next]_queueVars => \E rank \in Ranks, clock \in Nat : Ranked(rank, clock)'
<1> SUFFICES ASSUME IInv, [Next]_queueVars
             PROVE  \E rank \in Ranks, clock \in Nat : Ranked(rank, clock)'
    OBVIOUS
<1> PICK rank \in Ranks, clock \in Nat : Ranked(rank, clock)
    BY DEF IInv
<1>1. CASE Dequeue
      BY <1>1, DequeueRanked DEF IInv
<1>2. ASSUME NEW e \in Element, StoreStart(e) \/ Link(e)
      PROVE  \E r \in Ranks, c \in Nat : Ranked(r, c)'
  <2> DEFINE r == [rank EXCEPT ![e] = clock]
  <2>1. r \in Ranks /\ clock + 1 \in Nat
        BY DEF Ranks
  <2>2. Ranked(r, clock + 1)'
        BY <1>2, ProducerStores DEF IInv
  <2> QED BY <2>1, <2>2
<1>3. ASSUME NEW e \in Element,
             AddTask(e) \/ LoadLength(e) \/ LoadEnd(e) \/ Drop(e) \/ StoreEnd(e)
               \/ CountLoad(e) \/ CountStore(e)
      PROVE  Ranked(rank, clock)'
      BY <1>3, ProducerQuiet DEF IInv
<1>4. CASE UNCHANGED queueVars
      BY <1>4 DEF queueVars, queue, history, Ranked, ListRanked, LoopRanked, TakenRanked,
                  AfterRanked, Touched
<1> QED BY <1>1, <1>2, <1>3, <1>4 DEF Next, Enqueue
-----------------------------------------------------------------------------
(* The length. *)

LEMMA AcceptedFinite ==
  ASSUME NEW S \in SUBSET Element
  PROVE  /\ IsFiniteSet(S) /\ Cardinality(S) \in Nat
         /\ Cardinality(S) <= Cardinality(Element) /\ Cardinality(Element) \in Nat
BY ElementAssumption, FS_Subset, FS_CardinalityType

(* What is accepted only grows, by the call that stores the length. *)
LEMMA AcceptedSteps ==
  ASSUME TypeOK, NEW e \in Element, Enqueue(e)
  PROVE  IF CountStore(e) THEN e \notin Accepted /\ Accepted' = Accepted \cup {e}
         ELSE Accepted' = Accepted
<1>1. \A d \in Element \ {e} : producer'[d] = producer[d]
      BY GotoSets, LoadEndSets, CountLoadSets
         DEF Enqueue, AddTask, LoadLength, StoreStart, Drop, Link, StoreEnd, CountStore
<1>2. CASE CountStore(e)
  <2>1. producer[e].pc = "counted" /\ producer'[e].pc = "accepted"
        BY <1>2, GotoSets DEF CountStore, At
  <2> QED BY <1>1, <1>2, <2>1 DEF Accepted
<1>3. CASE ~ CountStore(e)
  <2>1. producer[e].pc # "accepted" /\ producer'[e].pc # "accepted"
        BY <1>3, GotoSets, LoadEndSets, CountLoadSets
           DEF Enqueue, AddTask, LoadLength, StoreStart, LoadEnd, Drop, Link, StoreEnd,
               CountLoad, At
  <2> QED BY <1>1, <1>3, <2>1 DEF Accepted
<1> QED BY <1>2, <1>3

LEMMA NextLengthOK == IInv /\ [Next]_queueVars => LengthOK' /\ length' \in Nat
<1> SUFFICES ASSUME IInv, [Next]_queueVars PROVE LengthOK' /\ length' \in Nat
    OBVIOUS
<1> USE DEF IInv
<1> DEFINE n == Cardinality(Accepted)
<1>1. Accepted \subseteq Element /\ Accepted' \subseteq Element
      BY DEF Accepted
<1>2. n \in Nat /\ n' \in Nat /\ length \in Nat /\ consumer.len \in Nat
      BY <1>1, AcceptedFinite DEF TypeOK
<1>3. ASSUME NEW e \in Element, Enqueue(e) PROVE LengthOK' /\ length' \in Nat
  <2>1. consumer' = consumer
        BY <1>3 DEF Enqueue, AddTask, LoadLength, StoreStart, LoadEnd, Drop, Link, StoreEnd,
                    CountLoad, CountStore, LoopUntouched
  <2>2. CASE CountStore(e)
    <3>1. n' = n + 1
      <4>1. e \notin Accepted /\ Accepted' = Accepted \cup {e}
            BY <1>3, <2>2, AcceptedSteps
      <4> QED BY <4>1, <1>1, AcceptedFinite, FS_AddElement
    <3>2. /\ length' = producer[e].len + 1 /\ producer[e].pc = "counted"
          /\ producer'[e].pc = "accepted"
          /\ \A d \in Element \ {e} : producer'[d] = producer[d]
          BY <2>2, GotoSets DEF CountStore, At
    <3>3. \A d \in Element : producer[d].len \in Nat
          BY DEF TypeOK
    <3> QED BY <1>2, <2>1, <3>1, <3>2, <3>3 DEF LengthOK
  <2>3. CASE ~ CountStore(e)
    <3>1. Accepted' = Accepted
          BY <1>3, <2>3, AcceptedSteps
    <3>2. length' = length
          BY <1>3, <2>3
             DEF Enqueue, AddTask, LoadLength, StoreStart, LoadEnd, Drop, Link, StoreEnd,
                 CountLoad, LoopUntouched, queue
    <3>3. \A d \in Element :
            producer'[d].pc = "counted" =>
              \/ producer[d].pc = "counted" /\ producer'[d].len = producer[d].len
              \/ producer'[d].len = length
          BY <1>3, <2>3, GotoSets, LoadEndSets, CountLoadSets
             DEF Enqueue, AddTask, LoadLength, StoreStart, Drop, Link, StoreEnd
    <3> QED BY <1>2, <2>1, <3>1, <3>2, <3>3 DEF LengthOK
  <2> QED BY <2>2, <2>3
<1>4. CASE Dequeue
  <2>1. Accepted' = Accepted /\ producer' = producer
        BY <1>4, DequeueTouches DEF Accepted
  <2> USE <1>2, <2>1 DEF LengthOK, Loop, queue
  <2>2. CASE RunTask
        BY <2>2, ProceedSets DEF RunTask
  <2>3. CASE LoadStart \/ LoadNext
        BY <2>3 DEF LoadStart, LoadNext, TypeOK
  <2>4. CASE OnlyOne
        BY <2>4, ProceedSets DEF OnlyOne
  <2>5. CASE ClearStart \/ ClearEnd \/ Advance
        BY <2>5, ProceedSets DEF ClearStart, ClearEnd, Advance
  <2>6. CASE CountDown
        BY <2>6 DEF CountDown, TypeOK
  <2>7. CASE StoreCount
        BY <2>7, ProceedSets DEF StoreCount
  <2>8. CASE Return
        BY <2>8 DEF Return
  <2>9. CASE Panic
        BY <2>9 DEF Panic
  <2> QED BY <1>4, <2>2, <2>3, <2>4, <2>5, <2>6, <2>7, <2>8, <2>9 DEF Dequeue
<1>5. CASE UNCHANGED queueVars
      BY <1>2, <1>5 DEF queueVars, queue, LengthOK, Accepted
<1> QED BY <1>3, <1>4, <1>5 DEF Next
-----------------------------------------------------------------------------
(* Types. *)

(* A call with what it loaded: TypeOK gives both as sets of records. *)
ProducerType ==
  [pc : {"idle", "isempty", "first", "loadend", "link", "last", "count", "counted",
         "accepted", "dropped"},
   at : Element \cup {Nil}, len : Nat]

ConsumerType ==
  [pc : {"idle", "loadstart", "onlyone", "clearstart", "clearend", "loadnext", "advance",
         "count", "counted", "return"},
   node : Element \cup {Nil}, to : Element \cup {Nil}, len : Nat]

LEMMA ProducerTyped ==
  ASSUME producer \in [Element -> ProducerType], end \in Element \cup {Nil}, length \in Nat,
         NEW e \in Element,
         \/ \E to \in {"isempty", "first", "loadend", "dropped", "last", "count", "accepted"} :
              Goto(e, to)
         \/ LoadEnd(e) \/ CountLoad(e)
  PROVE  producer' \in [Element -> ProducerType]
<1>1. producer[e] \in ProducerType
      OBVIOUS
<1>2. CASE \E to \in {"isempty", "first", "loadend", "dropped", "last", "count", "accepted"} :
             Goto(e, to)
  <2>1. PICK to \in {"isempty", "first", "loadend", "dropped", "last", "count", "accepted"} :
          Goto(e, to)
        BY <1>2
  <2>2. [producer[e] EXCEPT !.pc = to] \in ProducerType
        BY <1>1 DEF ProducerType
  <2> QED BY <2>1, <2>2 DEF Goto
<1>3. CASE LoadEnd(e)
  <2>1. [producer[e] EXCEPT !.pc = "link", !.at = end] \in ProducerType
        BY <1>1 DEF ProducerType
  <2> QED BY <1>3, <2>1 DEF LoadEnd
<1>4. CASE CountLoad(e)
  <2>1. [producer[e] EXCEPT !.pc = "counted", !.len = length] \in ProducerType
        BY <1>1 DEF ProducerType
  <2> QED BY <1>4, <2>1 DEF CountLoad
<1> QED BY <1>2, <1>3, <1>4

LEMMA ConsumerTyped ==
  ASSUME consumer \in ConsumerType, start \in Element \cup {Nil}, length \in Nat,
         next \in [Element -> Element \cup {Nil}],
         \/ \E to \in {"loadstart", "clearstart", "loadnext", "clearend", "count", "return"} :
              Proceed(to)
         \/ LoadStart \/ LoadNext \/ CountDown
  PROVE  consumer' \in ConsumerType
<1>1. CASE \E to \in {"loadstart", "clearstart", "loadnext", "clearend", "count", "return"} :
             Proceed(to)
      BY <1>1 DEF Proceed, ConsumerType
<1>2. CASE LoadStart
      BY <1>2 DEF LoadStart, ConsumerType
<1>3. CASE LoadNext
  <2>1. next[start] \in Element \cup {Nil}
        BY <1>3 DEF LoadNext
  <2> QED BY <1>3, <2>1 DEF LoadNext, ConsumerType
<1>4. CASE CountDown
      BY <1>4 DEF CountDown, ConsumerType
<1> QED BY <1>1, <1>2, <1>3, <1>4

LEMMA NextTypeOK == IInv /\ [Next]_queueVars => TypeOK'
<1> SUFFICES ASSUME IInv, [Next]_queueVars PROVE TypeOK'
    OBVIOUS
<1> USE DEF IInv
<1>1. length' \in 0 .. Cardinality(Element)
  <2>1. Accepted' \subseteq Element
        BY DEF Accepted
  <2>2. /\ Cardinality(Accepted') \in Nat /\ Cardinality(Element) \in Nat
        /\ Cardinality(Accepted') <= Cardinality(Element)
        BY <2>1, AcceptedFinite
  <2>3. length' \in Nat /\ length' <= Cardinality(Accepted')
        BY NextLengthOK DEF LengthOK
  <2> QED BY <2>2, <2>3
<1>2. /\ consumer'.pc \in {"loadstart", "onlyone", "count"} => length' # 0
      BY NextLengthOK DEF LengthOK
<1>3. \A i \in 1 .. Len(taken') : taken'[i] \in Touched'
      BY NextRanked DEF Ranked, TakenRanked
<1>4. Taken' \cap {e \in Element : producer'[e].pc = "idle"} = {}
      BY <1>3 DEF Taken, Touched
<1> DEFINE Rest ==
      /\ {start, end} \subseteq Element \cup {Nil}
      /\ next \in [Element -> Element \cup {Nil}]
      /\ producer \in [Element -> ProducerType]
      /\ consumer \in ConsumerType
      /\ taken \in Seq(Element)
      /\ after \in [Element -> SUBSET Element] /\ {up, overlapped} \subseteq BOOLEAN
<1>5. Rest /\ length \in Nat
  <2>1. Cardinality(Element) \in Nat
        BY AcceptedFinite
  <2> QED BY <2>1 DEF TypeOK, ProducerType, ConsumerType
<1>6. Rest'
  <2> HIDE DEF IInv
  <2> USE <1>5 DEF LoopUntouched, queue, history
  <2>1. ASSUME NEW e \in Element, Enqueue(e) PROVE Rest'
    <3>1. producer' \in [Element -> ProducerType]
          BY <2>1, ProducerTyped
             DEF Enqueue, AddTask, LoadLength, StoreStart, Drop, Link, StoreEnd, CountStore
    <3>2. CASE AddTask(e)
          BY <3>1, <3>2 DEF AddTask, Accepted
    <3>3. CASE LoadLength(e) \/ StoreStart(e) \/ LoadEnd(e) \/ Drop(e)
          BY <3>1, <3>3 DEF LoadLength, StoreStart, LoadEnd, Drop
    <3>4. CASE Link(e)
          BY <3>1, <3>4 DEF Link
    <3>5. CASE StoreEnd(e) \/ CountLoad(e) \/ CountStore(e)
          BY <3>1, <3>5 DEF StoreEnd, CountLoad, CountStore
    <3> QED BY <2>1, <3>2, <3>3, <3>4, <3>5 DEF Enqueue
  <2> USE DEF LoopOnly
  <2>2. CASE RunTask \/ LoadStart \/ OnlyOne \/ ClearStart \/ ClearEnd
    <3>1. consumer' \in ConsumerType
          BY <2>2, ConsumerTyped DEF RunTask, OnlyOne, ClearStart, ClearEnd
    <3> QED BY <2>2, <3>1 DEF RunTask, LoadStart, OnlyOne, ClearStart, ClearEnd
  <2>3. CASE LoadNext \/ Advance \/ CountDown \/ StoreCount
    <3>1. consumer' \in ConsumerType
          BY <2>3, ConsumerTyped DEF Advance, StoreCount
    <3>2. Advance => consumer.to \in Element \cup {Nil}
          BY DEF ConsumerType
    <3> QED BY <2>3, <3>1, <3>2 DEF LoadNext, Advance, CountDown, StoreCount
  <2>4. CASE Return
    <3>1. Append(taken, consumer.node) \in Seq(Element)
          BY <2>4 DEF Return, ConsumerType
    <3>2. consumer' \in ConsumerType
          BY <2>4 DEF Return, ConsumerType
    <3> QED BY <2>4, <3>1, <3>2 DEF Return
  <2>5. CASE Panic
        BY <2>5 DEF Panic
  <2>6. CASE UNCHANGED queueVars
        BY <2>6 DEF queueVars
  <2> QED BY <2>1, <2>2, <2>3, <2>4, <2>5, <2>6 DEF Next, Dequeue
<1> QED BY <1>1, <1>2, <1>4, <1>6 DEF TypeOK, ProducerType, ConsumerType

(* Initial states. *)
LEMMA InitIInv == Init => IInv
<1> SUFFICES ASSUME Init PROVE IInv
    OBVIOUS
<1> USE DEF Init
<1>1. Touched = {} /\ Accepted = {}
      BY DEF Touched, Accepted
<1>2. taken \in Seq(Element) /\ Len(taken) = 0
      OBVIOUS
<1>3. TypeOK
  <2>1. length \in 0 .. Cardinality(Element)
        BY AcceptedFinite
  <2>2. Taken = {}
        BY <1>2 DEF Taken
  <2> QED BY <1>2, <2>1, <2>2 DEF TypeOK
<1>4. LengthOK
      BY <1>1, FS_EmptySet DEF LengthOK
<1>5. \E rank \in Ranks, clock \in Nat : Ranked(rank, clock)
  <2> DEFINE r == [e \in Element |-> 0]
  <2>1. r \in Ranks
        BY DEF Ranks
  <2>2. Ranked(r, 0)
        BY <1>1, <1>2 DEF Ranked, ListRanked, LoopRanked, TakenRanked, AfterRanked
  <2> QED BY <2>1, <2>2
<1> QED BY <1>3, <1>4, <1>5 DEF IInv

(* The invariant is inductive. *)
THEOREM Inductive == Spec => []IInv
<1>1. IInv /\ [Next]_queueVars => IInv'
      BY NextTypeOK, NextLengthOK, NextRanked DEF IInv
<1> QED BY InitIInv, <1>1, PTL DEF Spec

(* Type correctness: among others, whatever the race, the loop never finds *)
(* the list empty that it has just seen not to be, and the length is never *)
(* more than the number of elements.                                       *)
THEOREM TypeCorrect == Spec => []TypeOK
<1>1. IInv => TypeOK
      BY DEF IInv
<1> QED BY Inductive, <1>1, PTL

(* However Enqueue and Dequeue race, no element is taken twice: the ranks  *)
(* of what is taken increase.                                              *)
THEOREM NothingIsTakenTwice == Spec => []TakenOnce
<1>1. ASSUME IInv PROVE TakenOnce
  <2> SUFFICES ASSUME NEW i \in 1 .. Len(taken), NEW j \in 1 .. Len(taken),
                      taken[i] = taken[j], i # j
               PROVE  FALSE
      BY DEF TakenOnce
  <2>1. taken \in Seq(Element)
        BY <1>1 DEF IInv, TypeOK
  <2>2. PICK rank \in Ranks, clock \in Nat : TakenRanked(rank)
        BY <1>1 DEF IInv, Ranked
  <2>3. rank[taken[i]] \in Nat
        BY <2>1, <2>2 DEF Ranks
  <2>4. CASE i < j
        BY <2>1, <2>2, <2>3, <2>4 DEF TakenRanked
  <2>5. CASE j < i
        BY <2>1, <2>2, <2>3, <2>5 DEF TakenRanked
  <2> QED BY <2>1, <2>4, <2>5
<1> QED BY Inductive, <1>1, PTL

(* A request that was made after another one was answered is never taken   *)
(* before it: its node has the higher rank.                                *)
THEOREM OrderIsKept == Spec => []OrderKept
<1>1. ASSUME IInv PROVE OrderKept
  <2> SUFFICES ASSUME NEW i \in 1 .. Len(taken), NEW j \in 1 .. Len(taken),
                      i < j, taken[j] \in after[taken[i]]
               PROVE  FALSE
      BY DEF OrderKept
  <2>1. taken[i] \in Element /\ taken[j] \in Element
        BY <1>1 DEF IInv, TypeOK
  <2>2. PICK rank \in Ranks, clock \in Nat : TakenRanked(rank) /\ AfterRanked(rank)
        BY <1>1 DEF IInv, Ranked
  <2>3. rank[taken[i]] \in Nat /\ rank[taken[j]] \in Nat
        BY <2>1, <2>2 DEF Ranks
  <2>4. rank[taken[i]] < rank[taken[j]] /\ taken[i] \in Touched
        BY <2>2 DEF TakenRanked
  <2>5. rank[taken[j]] < rank[taken[i]]
        BY <2>1, <2>2, <2>4 DEF AfterRanked
  <2> QED BY <2>3, <2>4, <2>5
<1> QED BY Inductive, <1>1, PTL
=============================================================================
