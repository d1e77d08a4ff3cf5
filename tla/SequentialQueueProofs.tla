----------------------- MODULE SequentialQueueProofs ------------------------
(***************************************************************************)
(* The other half of the proofs about SharedQueue, again for any finite    *)
(* set of elements: what the linked list is worth as long as no two calls  *)
(* overlap.  The nodes from start then form a chain, q, which the          *)
(* invariant says exists, and every step of a call lengthens it at its     *)
(* end, shortens it at its start or leaves it.  That the chain is all that *)
(* can be reached takes a least position of what would be missed.          *)
(***************************************************************************)
EXTENDS SharedQueueProofs, WellFoundedInduction

(* The loop has taken its node out of the list, and, but for the return,   *)
(* not out of the length.                                                  *)
Removed == consumer.pc \in {"clearend", "count", "counted", "return"}
Uncounted == consumer.pc \in {"clearend", "count", "counted"}

Writing(e) == producer[e].pc \in {"last", "count", "counted"}

(* One call at a time. *)
Alone ==
  /\ \A d, e \in Inside : d = e
  /\ Inside # {} => consumer.pc = "idle"

(* q is the list from start: each node of it once, the last without next.  *)
Chain(q) ==
  /\ \A i, j \in 1 .. Len(q) : q[i] = q[j] => i = j
  /\ start = IF Len(q) = 0 THEN Nil ELSE q[1]
  /\ \A i \in 1 .. Len(q) - 1 : next[q[i]] = q[i + 1]
  /\ Len(q) # 0 => next[q[Len(q)]] = Nil

In(q, n) == \E i \in 1 .. Len(q) : q[i] = n

(* It holds what was written and not taken, and its length is right but for *)
(* the call that is about to correct it.                                   *)
Contents(q) ==
  /\ \A n \in Element : In(q, n) <=> n \in Touched \ Taken /\ ~(Removed /\ n = consumer.node)
  /\ length = IF Uncounted THEN Len(q) + 1
              ELSE IF \E e \in Element : Writing(e) THEN Len(q) - 1 ELSE Len(q)
  /\ consumer.pc # "clearend" /\ (\A e \in Element : producer[e].pc # "last") =>
       end = IF Len(q) = 0 THEN Nil ELSE q[Len(q)]

(* What the call under way has found out about it. *)
ProducerKnows(q) ==
  \A e \in Element :
    /\ producer[e].pc # "dropped"
    /\ producer[e].pc = "first" => Len(q) = 0
    /\ producer[e].pc \in {"loadend", "link"} => Len(q) # 0
    /\ producer[e].pc = "link" => producer[e].at = q[Len(q)]
    /\ Writing(e) => Len(q) # 0 /\ q[Len(q)] = e
    /\ producer[e].pc = "counted" => producer[e].len = length

LoopKnows(q) ==
  /\ consumer.pc = "loadstart" => Len(q) # 0
  /\ consumer.pc \in {"onlyone", "clearstart", "loadnext", "advance"} =>
       Len(q) # 0 /\ consumer.node = q[1]
  /\ consumer.pc = "clearstart" => Len(q) = 1
  /\ consumer.pc \in {"loadnext", "advance"} => Len(q) > 1
  /\ consumer.pc = "advance" => consumer.to = q[2]
  /\ consumer.pc = "clearend" => Len(q) = 0
  /\ Removed => consumer.node \in Touched \ Taken
  /\ consumer.pc = "counted" => consumer.len = length

Sequential(q) == Chain(q) /\ Contents(q) /\ ProducerKnows(q) /\ LoopKnows(q)

SeqInv == ~overlapped => up /\ Alone /\ \E q \in Seq(Element) : Sequential(q)

-----------------------------------------------------------------------------
(* What IInv says of a state in which no calls overlapped. *)
Calm ==
  /\ TypeOK /\ ~overlapped /\ up /\ Alone
  /\ \A n \in Element : next[n] # Nil => n \in Touched
  /\ Taken \subseteq Touched

LEMMA CalmStates == IInv /\ SeqInv /\ ~overlapped => Calm
BY DEF IInv, SeqInv, Calm, Ranked, ListRanked, TakenRanked, Taken

Quiet(d) == producer[d].pc \in {"idle", "accepted"}

(* A call of Enqueue that goes on is the only one, and so is one of Dequeue.*)
LEMMA EnqueueIsAlone ==
  ASSUME Calm, NEW q, ProducerKnows(q), NEW e \in Element,
         producer[e].pc \notin {"idle", "accepted", "dropped"}
  PROVE  /\ consumer.pc = "idle"
         /\ \A d \in Element \ {e} : Quiet(d)
BY DEF Calm, Alone, Inside, ProducerKnows, Quiet, TypeOK

LEMMA DequeueIsAlone ==
  ASSUME Calm, NEW q, ProducerKnows(q), consumer.pc # "idle"
  PROVE  \A d \in Element : Quiet(d)
BY DEF Calm, Alone, Inside, ProducerKnows, Quiet, TypeOK

(* What has to be shown of a step of Enqueue, *)
LEMMA EnqueueStep ==
  ASSUME NEW e \in Element, NEW q \in Seq(Element),
         consumer' = consumer, consumer.pc = "idle",
         \A d \in Element \ {e} : producer'[d] = producer[d] /\ Quiet(d),
         Chain(q)',
         \A n \in Element : In(q, n) <=> n \in Touched' \ Taken',
         length' = IF Writing(e)' THEN Len(q) - 1 ELSE Len(q),
         producer'[e].pc # "last" => end' = IF Len(q) = 0 THEN Nil ELSE q[Len(q)],
         producer'[e].pc # "dropped",
         producer'[e].pc = "first" => Len(q) = 0,
         producer'[e].pc \in {"loadend", "link"} => Len(q) # 0,
         producer'[e].pc = "link" => producer'[e].at = q[Len(q)],
         Writing(e)' => Len(q) # 0 /\ q[Len(q)] = e,
         producer'[e].pc = "counted" => producer'[e].len = length'
  PROVE  Alone' /\ Sequential(q)'
<1>1. \A d \in Element \ {e} : producer'[d].pc \in {"idle", "accepted"}
      BY DEF Quiet
<1>2. Alone'
      BY <1>1 DEF Alone, Inside
<1>3. ProducerKnows(q)'
      BY <1>1 DEF ProducerKnows, Writing
<1>4. (\E d \in Element : Writing(d)') <=> Writing(e)'
      BY <1>1 DEF Writing
<1>5. Contents(q)'
      BY <1>1, <1>4 DEF Contents, Removed, Uncounted
<1>6. LoopKnows(q)'
      BY DEF LoopKnows, Removed
<1> QED BY <1>2, <1>3, <1>5, <1>6 DEF Sequential

(* and of one of Dequeue. *)
LEMMA DequeueStep ==
  ASSUME NEW q \in Seq(Element), producer' = producer,
         \A d \in Element : Quiet(d),
         Chain(q)',
         \A n \in Element : In(q, n) <=> n \in Touched' \ Taken' /\ ~(Removed' /\ n = consumer'.node),
         length' = IF Uncounted' THEN Len(q) + 1 ELSE Len(q),
         consumer'.pc # "clearend" => end' = IF Len(q) = 0 THEN Nil ELSE q[Len(q)],
         LoopKnows(q)'
  PROVE  Alone' /\ Sequential(q)'
<1>1. \A d \in Element : producer'[d].pc \in {"idle", "accepted"}
      BY DEF Quiet
<1>2. Alone'
      BY <1>1 DEF Alone, Inside
<1>3. ProducerKnows(q)'
      BY <1>1 DEF ProducerKnows, Writing
<1>4. Contents(q)'
      BY <1>1 DEF Contents, Writing
<1> QED BY <1>2, <1>3, <1>4 DEF Sequential

(* What Sequential says when the loop waits, *)
LEMMA WhileIdle ==
  ASSUME NEW q \in Seq(Element), Sequential(q), consumer.pc = "idle",
         NEW e \in Element, \A d \in Element \ {e} : Quiet(d)
  PROVE  /\ \A n \in Element : In(q, n) <=> n \in Touched \ Taken
         /\ length = IF Writing(e) THEN Len(q) - 1 ELSE Len(q)
         /\ producer[e].pc # "last" => end = IF Len(q) = 0 THEN Nil ELSE q[Len(q)]
<1>1. \A d \in Element \ {e} : ~Writing(d) /\ producer[d].pc # "last"
      BY DEF Quiet, Writing
<1> QED BY <1>1 DEF Sequential, Contents, Removed, Uncounted

(* and when nobody calls Enqueue. *)
LEMMA WhileQuiet ==
  ASSUME NEW q \in Seq(Element), Sequential(q), \A d \in Element : Quiet(d)
  PROVE  /\ \A n \in Element : In(q, n) <=> n \in Touched \ Taken /\ ~(Removed /\ n = consumer.node)
         /\ length = IF Uncounted THEN Len(q) + 1 ELSE Len(q)
         /\ consumer.pc # "clearend" => end = IF Len(q) = 0 THEN Nil ELSE q[Len(q)]
<1>1. \A d \in Element : ~Writing(d) /\ producer[d].pc # "last"
      BY DEF Quiet, Writing
<1> QED BY <1>1 DEF Sequential, Contents
-----------------------------------------------------------------------------
(* The steps of Enqueue. *)

Kept == Alone' /\ \E r \in Seq(Element) : Sequential(r)'

LEMMA AddTaskKeeps ==
  ASSUME Calm, NEW q \in Seq(Element), Sequential(q), NEW e \in Element, AddTask(e), ~overlapped'
  PROVE  Kept
<1>1. /\ consumer.pc = "idle" /\ Inside = {} /\ producer[e].pc = "idle"
      /\ UNCHANGED <<start, end, length, next, consumer, taken>>
      BY DEF AddTask, At, Calm, queue
<1>2. \A d \in Element : Quiet(d)
      BY <1>1 DEF Inside, Quiet, Sequential, ProducerKnows
<1>3. producer'[e].pc = "isempty" /\ \A d \in Element \ {e} : producer'[d] = producer[d]
      BY GotoSets DEF AddTask, Calm
<1>4. Touched' = Touched /\ Taken' = Taken
      BY <1>1, OthersTouchNothing DEF Calm, Taken
<1>5. ~Writing(e) /\ ~Writing(e)'
      BY <1>1, <1>3 DEF Writing
<1>6. Chain(q)'
      BY <1>1 DEF Sequential, Chain
<1>7. /\ \A n \in Element : In(q, n) <=> n \in Touched' \ Taken'
      /\ length' = Len(q) /\ end' = IF Len(q) = 0 THEN Nil ELSE q[Len(q)]
      BY <1>1, <1>2, <1>4, <1>5, WhileIdle
<1>8. Alone' /\ Sequential(q)'
      BY <1>1, <1>2, <1>3, <1>5, <1>6, <1>7, EnqueueStep
<1> QED BY <1>8 DEF Kept

(* What holds of a call that is under way. *)
LEMMA EnqueueUnderWay ==
  ASSUME Calm, NEW q \in Seq(Element), Sequential(q), NEW e \in Element,
         producer[e].pc \notin {"idle", "accepted"}
  PROVE  /\ consumer.pc = "idle"
         /\ \A d \in Element \ {e} : Quiet(d)
         /\ \A n \in Element : In(q, n) <=> n \in Touched \ Taken
         /\ length = IF Writing(e) THEN Len(q) - 1 ELSE Len(q)
         /\ producer[e].pc # "last" => end = IF Len(q) = 0 THEN Nil ELSE q[Len(q)]
         /\ Len(q) \in Nat /\ (Len(q) # 0 => q[Len(q)] \in Element)
<1>1. ProducerKnows(q)
      BY DEF Sequential
<1>2. producer[e].pc # "dropped"
      BY <1>1 DEF ProducerKnows
<1>3. consumer.pc = "idle" /\ \A d \in Element \ {e} : Quiet(d)
      BY <1>1, <1>2, EnqueueIsAlone
<1> QED BY <1>3, WhileIdle

(* The steps that leave the list as it is. *)
LEMMA EnqueueLoads ==
  ASSUME Calm, NEW q \in Seq(Element), Sequential(q), NEW e \in Element,
         LoadLength(e) \/ LoadEnd(e) \/ Drop(e) \/ StoreEnd(e) \/ CountLoad(e) \/ CountStore(e)
  PROVE  Kept
<1> USE DEF LoopUntouched, queue, history
<1>1. producer[e].pc \in {"isempty", "loadend", "link", "last", "count", "counted"}
      BY DEF LoadLength, LoadEnd, Drop, StoreEnd, CountLoad, CountStore, At
<1>2. /\ consumer.pc = "idle"
      /\ \A d \in Element \ {e} : Quiet(d)
      /\ \A n \in Element : In(q, n) <=> n \in Touched \ Taken
      /\ length = IF Writing(e) THEN Len(q) - 1 ELSE Len(q)
      /\ producer[e].pc # "last" => end = IF Len(q) = 0 THEN Nil ELSE q[Len(q)]
      /\ Len(q) \in Nat /\ (Len(q) # 0 => q[Len(q)] \in Element)
      BY <1>1, EnqueueUnderWay
<1>3. /\ producer[e].pc \in {"loadend", "link"} => Len(q) # 0
      /\ producer[e].pc = "link" => producer[e].at = q[Len(q)]
      /\ Writing(e) => Len(q) # 0 /\ q[Len(q)] = e
      /\ producer[e].pc = "counted" => producer[e].len = length
      BY DEF Sequential, ProducerKnows
<1>4. UNCHANGED <<start, next, consumer, taken>>
      BY DEF LoadLength, LoadEnd, Drop, StoreEnd, CountLoad, CountStore
<1>5. Touched' = Touched /\ Taken' = Taken /\ Chain(q)'
      <2>1. Touched' = Touched
            BY OthersTouchNothing DEF Calm
      <2> QED BY <1>4, <2>1 DEF Taken, Sequential, Chain
<1>6. \A d \in Element \ {e} : producer'[d] = producer[d]
      BY GotoSets, LoadEndSets, CountLoadSets
         DEF LoadLength, Drop, StoreEnd, CountStore, Calm
<1>7. CASE LoadLength(e)
  <2>1. /\ producer[e].pc = "isempty" /\ UNCHANGED <<end, length>>
        /\ producer'[e].pc = IF length = 0 THEN "first" ELSE "loadend"
        BY <1>7, GotoSets DEF LoadLength, At, Calm
  <2>2. ~Writing(e) /\ ~Writing(e)'
        BY <2>1 DEF Writing
  <2> QED BY <1>2, <1>4, <1>5, <1>6, <2>1, <2>2, EnqueueStep DEF Kept
<1>8. CASE LoadEnd(e)
  <2>1. /\ producer[e].pc = "loadend" /\ UNCHANGED <<end, length>>
        /\ producer'[e].pc = "link" /\ producer'[e].at = end
        BY <1>8, LoadEndSets DEF LoadEnd, At, Calm
  <2>2. ~Writing(e) /\ ~Writing(e)'
        BY <2>1 DEF Writing
  <2> QED BY <1>2, <1>3, <1>4, <1>5, <1>6, <2>1, <2>2, EnqueueStep DEF Kept
<1>9. CASE Drop(e)
  <2>1. producer[e].pc = "link" /\ producer[e].at = Nil
        BY <1>9 DEF Drop, At
  <2> QED BY <1>2, <1>3, <2>1, NilAssumption
<1>10. CASE StoreEnd(e)
  <2>1. /\ producer[e].pc = "last" /\ end' = e /\ length' = length
        /\ producer'[e].pc = "count"
        BY <1>10, GotoSets DEF StoreEnd, At, Calm
  <2>2. Writing(e) /\ Writing(e)'
        BY <2>1 DEF Writing
  <2> QED BY <1>2, <1>3, <1>4, <1>5, <1>6, <2>1, <2>2, EnqueueStep DEF Kept
<1>11. CASE CountLoad(e)
  <2>1. /\ producer[e].pc = "count" /\ UNCHANGED <<end, length>>
        /\ producer'[e].pc = "counted" /\ producer'[e].len = length
        BY <1>11, CountLoadSets DEF CountLoad, At, Calm
  <2>2. Writing(e) /\ Writing(e)'
        BY <2>1 DEF Writing
  <2> QED BY <1>2, <1>3, <1>4, <1>5, <1>6, <2>1, <2>2, EnqueueStep DEF Kept
<1>12. CASE CountStore(e)
  <2>1. /\ producer[e].pc = "counted" /\ end' = end /\ length' = producer[e].len + 1
        /\ producer'[e].pc = "accepted"
        BY <1>12, GotoSets DEF CountStore, At, Calm
  <2>2. Writing(e) /\ ~Writing(e)'
        BY <2>1 DEF Writing
  <2>3. length' = Len(q)
        BY <1>2, <1>3, <2>1, <2>2
  <2> QED BY <1>2, <1>3, <1>4, <1>5, <1>6, <2>1, <2>2, <2>3, EnqueueStep DEF Kept
<1> QED BY <1>7, <1>8, <1>9, <1>10, <1>11, <1>12

(* The first node. *)
LEMMA StoreStartKeeps ==
  ASSUME Calm, NEW q \in Seq(Element), Sequential(q), NEW e \in Element, StoreStart(e)
  PROVE  Kept
<1> USE DEF LoopUntouched, queue, history
<1>1. /\ producer[e].pc = "first" /\ start' = e
      /\ UNCHANGED <<end, length, next, consumer, taken>>
      BY DEF StoreStart, At
<1>2. producer'[e].pc = "last" /\ \A d \in Element \ {e} : producer'[d] = producer[d]
      BY GotoSets DEF StoreStart, Calm
<1>3. e \notin Touched /\ Touched' = Touched \cup {e} /\ Taken' = Taken
      BY <1>1, StoreTouches DEF Calm, Taken
<1>4. /\ consumer.pc = "idle"
      /\ \A d \in Element \ {e} : Quiet(d)
      /\ \A n \in Element : In(q, n) <=> n \in Touched \ Taken
      /\ length = IF Writing(e) THEN Len(q) - 1 ELSE Len(q)
      BY <1>1, EnqueueUnderWay
<1>5. Len(q) = 0 /\ ~Writing(e) /\ Writing(e)'
      BY <1>1, <1>2 DEF Sequential, ProducerKnows, Writing
<1> DEFINE r == <<e>>
<1>6. r \in Seq(Element) /\ Len(r) = 1 /\ r[1] = e
      OBVIOUS
<1>7. \A n \in Element : In(r, n) <=> n \in Touched' \ Taken'
  <2>1. \A n \in Element : ~In(q, n)
        BY <1>5 DEF In
  <2>2. \A n \in Element : In(r, n) <=> n = e
        BY <1>6 DEF In
  <2>3. e \notin Taken
        BY <1>3 DEF Calm
  <2> QED BY <1>3, <1>4, <2>1, <2>2, <2>3
<1>8. next'[e] = Nil
      BY <1>1, <1>3 DEF Calm
<1> HIDE DEF r
<1>9. Chain(r)'
      BY <1>1, <1>6, <1>8 DEF Chain
<1>10. length' = Len(r) - 1
      BY <1>1, <1>4, <1>5, <1>6
<1> QED BY <1>1, <1>2, <1>4, <1>5, <1>6, <1>7, <1>9, <1>10, EnqueueStep DEF Kept

(* A node behind the last one. *)
LEMMA LinkKeeps ==
  ASSUME Calm, NEW q \in Seq(Element), Sequential(q), NEW e \in Element, Link(e)
  PROVE  Kept
<1> USE DEF LoopUntouched, queue, history
<1>1. /\ producer[e].pc = "link" /\ next' = [next EXCEPT ![producer[e].at] = e]
      /\ UNCHANGED <<start, end, length, consumer, taken>>
      BY DEF Link, At
<1>2. producer'[e].pc = "last" /\ \A d \in Element \ {e} : producer'[d] = producer[d]
      BY GotoSets DEF Link, Calm
<1>3. e \notin Touched /\ Touched' = Touched \cup {e} /\ Taken' = Taken
      BY <1>1, StoreTouches DEF Calm, Taken
<1>4. /\ consumer.pc = "idle"
      /\ \A d \in Element \ {e} : Quiet(d)
      /\ \A n \in Element : In(q, n) <=> n \in Touched \ Taken
      /\ length = IF Writing(e) THEN Len(q) - 1 ELSE Len(q)
      BY <1>1, EnqueueUnderWay
<1>5. Len(q) # 0 /\ producer[e].at = q[Len(q)] /\ ~Writing(e) /\ Writing(e)'
      BY <1>1, <1>2 DEF Sequential, ProducerKnows, Writing
<1> DEFINE r == Append(q, e)
<1>6. /\ r \in Seq(Element) /\ Len(r) = Len(q) + 1 /\ r[Len(q) + 1] = e
      /\ Len(q) \in Nat \ {0}
      /\ \A i \in 1 .. Len(q) : r[i] = q[i] /\ q[i] \in Element
      BY <1>5
<1> HIDE DEF r
<1>7. \A i \in 1 .. Len(r) : i \in 1 .. Len(q) \/ i = Len(r)
      BY <1>6
<1>8. \A n \in Element : In(r, n) <=> In(q, n) \/ n = e
      BY <1>6, <1>7 DEF In
<1>9. e \notin Taken /\ \A n \in Element : In(r, n) <=> n \in Touched' \ Taken'
      BY <1>3, <1>4, <1>8 DEF Calm
<1>10. \A i \in 1 .. Len(q) : q[i] # e
      BY <1>3, <1>4, <1>6 DEF In
<1>11. /\ \A i, j \in 1 .. Len(q) : q[i] = q[j] => i = j
       /\ start = q[1]
       /\ \A i \in 1 .. Len(q) - 1 : next[q[i]] = q[i + 1]
      BY <1>5 DEF Sequential, Chain
<1>12. next' = [next EXCEPT ![q[Len(q)]] = e] /\ next \in [Element -> Element \cup {Nil}]
      BY <1>1, <1>5 DEF Calm, TypeOK
<1>13. \A i, j \in 1 .. Len(r) : r[i] = r[j] => i = j
      BY <1>6, <1>7, <1>10, <1>11
<1>14. start' = r[1]
      BY <1>1, <1>6, <1>11
<1>15. \A i \in 1 .. Len(r) - 1 : next'[r[i]] = r[i + 1]
  <2> SUFFICES ASSUME NEW i \in 1 .. Len(q) PROVE next'[r[i]] = r[i + 1]
      BY <1>6
  <2>1. CASE i = Len(q)
        BY <1>6, <1>12, <2>1
  <2>2. CASE i # Len(q)
    <3>1. i \in 1 .. Len(q) - 1 /\ i + 1 \in 1 .. Len(q) /\ Len(q) \in 1 .. Len(q)
          BY <1>6, <2>2
    <3>2. q[i] # q[Len(q)]
          BY <1>11, <2>2, <3>1
    <3> QED BY <1>6, <1>11, <1>12, <3>1, <3>2
  <2> QED BY <2>1, <2>2
<1>16. next'[r[Len(r)]] = Nil
  <2>1. next[e] = Nil /\ e # q[Len(q)]
        BY <1>3, <1>6, <1>10 DEF Calm
  <2> QED BY <1>6, <1>12, <2>1
<1>17. Chain(r)'
      BY <1>6, <1>13, <1>14, <1>15, <1>16 DEF Chain
<1>18. length' = Len(r) - 1 /\ Len(r) # 0
      BY <1>1, <1>4, <1>5, <1>6
<1> QED BY <1>1, <1>2, <1>4, <1>5, <1>6, <1>9, <1>17, <1>18, EnqueueStep DEF Kept
-----------------------------------------------------------------------------
(* The steps of Dequeue. *)

LEMMA DequeueUnderWay ==
  ASSUME Calm, NEW q \in Seq(Element), Sequential(q), consumer.pc # "idle"
  PROVE  /\ \A d \in Element : Quiet(d)
         /\ \A n \in Element : In(q, n) <=> n \in Touched \ Taken /\ ~(Removed /\ n = consumer.node)
         /\ length = IF Uncounted THEN Len(q) + 1 ELSE Len(q)
         /\ consumer.pc # "clearend" => end = IF Len(q) = 0 THEN Nil ELSE q[Len(q)]
         /\ Len(q) \in Nat /\ (Len(q) # 0 => q[1] \in Element)
<1>1. \A d \in Element : Quiet(d)
      BY DequeueIsAlone DEF Sequential
<1> QED BY <1>1, WhileQuiet

LEMMA RunTaskKeeps ==
  ASSUME Calm, NEW q \in Seq(Element), Sequential(q), RunTask, ~overlapped'
  PROVE  Kept
<1> USE DEF LoopOnly, queue
<1>1. /\ consumer.pc = "idle" /\ length # 0 /\ Inside = {}
      /\ UNCHANGED <<start, end, length, next, producer, taken>>
      BY DEF RunTask, Loop, Calm
<1>2. consumer'.pc = "loadstart" /\ consumer'.node = consumer.node
      BY ProceedSets DEF RunTask, Calm
<1>3. \A d \in Element : Quiet(d)
      BY <1>1 DEF Inside, Quiet, Sequential, ProducerKnows
<1>4. /\ \A n \in Element : In(q, n) <=> n \in Touched \ Taken
      /\ length = Len(q) /\ end = IF Len(q) = 0 THEN Nil ELSE q[Len(q)]
      BY <1>1, <1>3, WhileQuiet DEF Removed, Uncounted
<1>5. Touched' = Touched /\ Taken' = Taken /\ Chain(q)'
      BY <1>1 DEF Touched, Taken, Sequential, Chain
<1>6. ~Removed' /\ ~Uncounted'
      BY <1>2 DEF Removed, Uncounted
<1>7. LoopKnows(q)'
      BY <1>1, <1>2, <1>4, <1>6 DEF LoopKnows
<1> QED BY <1>1, <1>2, <1>3, <1>4, <1>5, <1>6, <1>7, DequeueStep DEF Kept

(* The steps that leave start and the length as they are. *)
LEMMA DequeueLoads ==
  ASSUME Calm, NEW q \in Seq(Element), Sequential(q),
         LoadStart \/ OnlyOne \/ ClearEnd \/ LoadNext \/ CountDown
  PROVE  Kept
<1> USE DEF LoopOnly, queue
<1>1. /\ consumer.pc \in {"loadstart", "onlyone", "clearend", "loadnext", "count"}
      /\ UNCHANGED <<start, length, next, producer, taken>>
      BY DEF LoadStart, OnlyOne, ClearEnd, LoadNext, CountDown, Loop
<1>2. /\ \A d \in Element : Quiet(d)
      /\ \A n \in Element : In(q, n) <=> n \in Touched \ Taken /\ ~(Removed /\ n = consumer.node)
      /\ length = IF Uncounted THEN Len(q) + 1 ELSE Len(q)
      /\ consumer.pc # "clearend" => end = IF Len(q) = 0 THEN Nil ELSE q[Len(q)]
      /\ Len(q) \in Nat /\ (Len(q) # 0 => q[1] \in Element)
      BY <1>1, DequeueUnderWay
<1>3. Touched' = Touched /\ Taken' = Taken /\ Chain(q)'
      BY <1>1 DEF Touched, Taken, Sequential, Chain
<1>4. LoopKnows(q) /\ Chain(q)
      BY DEF Sequential
<1>5. CASE LoadStart
  <2>1. /\ consumer.pc = "loadstart" /\ end' = end
        /\ consumer'.pc = "onlyone" /\ consumer'.node = start
        BY <1>5 DEF LoadStart, Loop, Calm, TypeOK
  <2>2. ~Removed /\ ~Removed' /\ ~Uncounted /\ ~Uncounted'
        BY <2>1 DEF Removed, Uncounted
  <2>3. LoopKnows(q)'
        BY <1>4, <2>1, <2>2 DEF LoopKnows, Chain
  <2> QED BY <1>1, <1>2, <1>3, <2>1, <2>2, <2>3, DequeueStep DEF Kept
<1>6. CASE OnlyOne
  <2>1. /\ consumer.pc = "onlyone" /\ end' = end
        /\ consumer'.pc = (IF length = 1 THEN "clearstart" ELSE "loadnext")
        /\ consumer'.node = consumer.node
        BY <1>6, ProceedSets DEF OnlyOne, Loop, Calm
  <2>2. ~Removed /\ ~Removed' /\ ~Uncounted /\ ~Uncounted'
        BY <2>1 DEF Removed, Uncounted
  <2>3. LoopKnows(q)'
        BY <1>2, <1>4, <2>1, <2>2 DEF LoopKnows
  <2> QED BY <1>1, <1>2, <1>3, <2>1, <2>2, <2>3, DequeueStep DEF Kept
<1>7. CASE ClearEnd
  <2>1. /\ consumer.pc = "clearend" /\ end' = Nil
        /\ consumer'.pc = "count" /\ consumer'.node = consumer.node
        BY <1>7, ProceedSets DEF ClearEnd, Loop, Calm
  <2>2. Removed /\ Removed' /\ Uncounted /\ Uncounted' /\ Len(q) = 0
        BY <1>4, <2>1 DEF Removed, Uncounted, LoopKnows
  <2>3. LoopKnows(q)'
        BY <1>3, <1>4, <2>1, <2>2 DEF LoopKnows
  <2> QED BY <1>1, <1>2, <1>3, <2>1, <2>2, <2>3, DequeueStep DEF Kept
<1>8. CASE LoadNext
  <2>1. /\ consumer.pc = "loadnext" /\ end' = end
        /\ consumer'.pc = "advance" /\ consumer'.node = consumer.node
        /\ consumer'.to = next[start]
        BY <1>8 DEF LoadNext, Loop, Calm, TypeOK
  <2>2. ~Removed /\ ~Removed' /\ ~Uncounted /\ ~Uncounted'
        BY <2>1 DEF Removed, Uncounted
  <2>3. Len(q) > 1 /\ start = q[1] /\ next[q[1]] = q[2]
    <3>1. Len(q) > 1 /\ start = q[1]
          BY <1>2, <1>4, <2>1 DEF LoopKnows, Chain
    <3>2. 1 \in 1 .. Len(q) - 1
          BY <1>2, <3>1
    <3>3. next[q[1]] = q[1 + 1]
          BY <1>4, <3>2 DEF Chain
    <3> QED BY <3>1, <3>3
  <2>4. LoopKnows(q)'
        BY <1>4, <2>1, <2>2, <2>3 DEF LoopKnows
  <2> QED BY <1>1, <1>2, <1>3, <2>1, <2>2, <2>4, DequeueStep DEF Kept
<1>9. CASE CountDown
  <2>1. /\ consumer.pc = "count" /\ end' = end
        /\ consumer'.pc = "counted" /\ consumer'.node = consumer.node
        /\ consumer'.len = length
        BY <1>9 DEF CountDown, Loop, Calm, TypeOK
  <2>2. Removed /\ Removed' /\ Uncounted /\ Uncounted'
        BY <2>1 DEF Removed, Uncounted
  <2>3. LoopKnows(q)'
        BY <1>1, <1>3, <1>4, <2>1, <2>2 DEF LoopKnows
  <2> QED BY <1>1, <1>2, <1>3, <2>1, <2>2, <2>3, DequeueStep DEF Kept
<1> QED BY <1>5, <1>6, <1>7, <1>8, <1>9

(* The only node leaves the list, *)
LEMMA ClearStartKeeps ==
  ASSUME Calm, NEW q \in Seq(Element), Sequential(q), ClearStart
  PROVE  Kept
<1> USE DEF LoopOnly
<1>1. /\ consumer.pc = "clearstart" /\ start' = Nil
      /\ UNCHANGED <<end, length, next, producer, taken>>
      BY DEF ClearStart, Loop
<1>2. consumer'.pc = "clearend" /\ consumer'.node = consumer.node
      BY ProceedSets DEF ClearStart, Calm
<1>3. /\ \A d \in Element : Quiet(d)
      /\ \A n \in Element : In(q, n) <=> n \in Touched \ Taken
      /\ length = Len(q)
      BY <1>1, DequeueUnderWay DEF Removed, Uncounted
<1>4. Len(q) = 1 /\ consumer.node = q[1] /\ q[1] \in Element
      BY <1>1 DEF Sequential, LoopKnows
<1>5. Touched' = Touched /\ Taken' = Taken /\ Removed' /\ Uncounted'
      BY <1>1, <1>2 DEF Touched, Taken, Removed, Uncounted
<1> DEFINE r == << >>
<1>6. r \in Seq(Element) /\ Len(r) = 0 /\ \A n : ~In(r, n)
      BY DEF In
<1>7. \A n \in Element : In(q, n) <=> n = consumer.node
      BY <1>4 DEF In
<1> HIDE DEF r
<1>8. Chain(r)'
      BY <1>1, <1>6 DEF Chain
<1>9. \A n \in Element : In(r, n) <=> n \in Touched' \ Taken' /\ ~(Removed' /\ n = consumer'.node)
      BY <1>2, <1>3, <1>5, <1>6, <1>7
<1>10. consumer'.node \in Touched' \ Taken'
      BY <1>2, <1>3, <1>4, <1>5, <1>7
<1>11. LoopKnows(r)'
      BY <1>2, <1>6, <1>10 DEF LoopKnows
<1>12. length' = Len(r) + 1
      BY <1>1, <1>3, <1>4, <1>6
<1> QED BY <1>1, <1>2, <1>3, <1>5, <1>6, <1>8, <1>9, <1>11, <1>12, DequeueStep DEF Kept

(* or the first of several. *)
LEMMA AdvanceKeeps ==
  ASSUME Calm, NEW q \in Seq(Element), Sequential(q), Advance
  PROVE  Kept
<1> USE DEF LoopOnly
<1>1. /\ consumer.pc = "advance" /\ start' = consumer.to
      /\ UNCHANGED <<end, length, next, producer, taken>>
      BY DEF Advance, Loop
<1>2. consumer'.pc = "count" /\ consumer'.node = consumer.node
      BY ProceedSets DEF Advance, Calm
<1>3. /\ \A d \in Element : Quiet(d)
      /\ \A n \in Element : In(q, n) <=> n \in Touched \ Taken
      /\ length = Len(q) /\ end = IF Len(q) = 0 THEN Nil ELSE q[Len(q)]
      BY <1>1, DequeueUnderWay DEF Removed, Uncounted
<1>4. Len(q) > 1 /\ consumer.node = q[1] /\ consumer.to = q[2]
      BY <1>1 DEF Sequential, LoopKnows
<1>5. Touched' = Touched /\ Taken' = Taken /\ Removed' /\ Uncounted'
      BY <1>1, <1>2 DEF Touched, Taken, Removed, Uncounted
<1> DEFINE r == Tail(q)
<1>6. /\ r \in Seq(Element) /\ Len(r) = Len(q) - 1 /\ Len(q) \in Nat
      /\ \A i \in 1 .. Len(r) : r[i] = q[i + 1] /\ i + 1 \in 1 .. Len(q)
      BY <1>4
<1> HIDE DEF r
<1>7. /\ \A i, j \in 1 .. Len(q) : q[i] = q[j] => i = j
      /\ \A i \in 1 .. Len(q) - 1 : next[q[i]] = q[i + 1]
      /\ next[q[Len(q)]] = Nil
      BY <1>4 DEF Sequential, Chain
<1>8. /\ 1 \in 1 .. Len(r) /\ r[1] = q[2]
      /\ Len(r) \in 1 .. Len(r) /\ r[Len(r)] = q[Len(q)]
      BY <1>4, <1>6
<1>9. \A i, j \in 1 .. Len(r) : r[i] = r[j] => i = j
  <2> SUFFICES ASSUME NEW i \in 1 .. Len(r), NEW j \in 1 .. Len(r), r[i] = r[j]
               PROVE  i = j
      OBVIOUS
  <2>1. i + 1 = j + 1
        BY <1>6, <1>7
  <2> QED BY <2>1
<1>10. \A i \in 1 .. Len(r) - 1 : next[r[i]] = r[i + 1]
  <2> SUFFICES ASSUME NEW i \in 1 .. Len(r) - 1 PROVE next[r[i]] = r[i + 1]
      OBVIOUS
  <2>1. i \in 1 .. Len(r) /\ i + 1 \in 1 .. Len(r) /\ i + 1 \in 1 .. Len(q) - 1
        BY <1>6
  <2>2. r[i] = q[i + 1] /\ r[i + 1] = q[(i + 1) + 1]
        BY <1>6, <2>1
  <2> QED BY <1>7, <2>1, <2>2
<1>11. Chain(r)'
      BY <1>1, <1>4, <1>7, <1>8, <1>9, <1>10 DEF Chain
<1>12. \A n \in Element : In(r, n) <=> In(q, n) /\ n # q[1]
  <2> SUFFICES ASSUME NEW n \in Element PROVE In(r, n) <=> In(q, n) /\ n # q[1]
      OBVIOUS
  <2>1. ASSUME In(r, n) PROVE In(q, n) /\ n # q[1]
    <3>1. PICK i \in 1 .. Len(r) : r[i] = n
          BY <2>1 DEF In
    <3>2. q[i + 1] = n /\ i + 1 \in 1 .. Len(q) /\ i + 1 # 1 /\ 1 \in 1 .. Len(q)
          BY <1>4, <1>6, <3>1
    <3> QED BY <1>7, <3>2 DEF In
  <2>2. ASSUME In(q, n), n # q[1] PROVE In(r, n)
    <3>1. PICK i \in 1 .. Len(q) : q[i] = n
          BY <2>2 DEF In
    <3>2. i # 1
          BY <2>2, <3>1
    <3>3. i - 1 \in 1 .. Len(r) /\ (i - 1) + 1 = i
          BY <1>6, <3>2
    <3>4. r[i - 1] = n
          BY <1>6, <3>1, <3>3
    <3> QED BY <3>3, <3>4 DEF In
  <2> QED BY <2>1, <2>2
<1>13. \A n \in Element : In(r, n) <=> n \in Touched' \ Taken' /\ ~(Removed' /\ n = consumer'.node)
      BY <1>2, <1>3, <1>4, <1>5, <1>12
<1>14. q[1] \in Element /\ In(q, q[1])
      BY <1>4, <1>6 DEF In
<1>15. consumer'.node \in Touched' \ Taken'
      BY <1>2, <1>3, <1>4, <1>5, <1>14
<1>16. LoopKnows(r)'
      BY <1>2, <1>15 DEF LoopKnows
<1>17. length' = Len(r) + 1 /\ Len(r) # 0 /\ end' = r[Len(r)]
      BY <1>1, <1>3, <1>4, <1>6, <1>8
<1> QED BY <1>1, <1>3, <1>5, <1>6, <1>11, <1>13, <1>16, <1>17, DequeueStep DEF Kept

LEMMA StoreCountKeeps ==
  ASSUME Calm, NEW q \in Seq(Element), Sequential(q), StoreCount
  PROVE  Kept
<1> USE DEF LoopOnly
<1>1. /\ consumer.pc = "counted" /\ length' = consumer.len - 1
      /\ UNCHANGED <<start, end, next, producer, taken>>
      BY DEF StoreCount, Loop
<1>2. consumer'.pc = "return" /\ consumer'.node = consumer.node
      BY ProceedSets DEF StoreCount, Calm
<1>3. Removed /\ Uncounted /\ Removed' /\ ~Uncounted'
      BY <1>1, <1>2 DEF Removed, Uncounted
<1>4. /\ \A d \in Element : Quiet(d)
      /\ \A n \in Element : In(q, n) <=> n \in Touched \ Taken /\ n # consumer.node
      /\ length = Len(q) + 1 /\ end = IF Len(q) = 0 THEN Nil ELSE q[Len(q)]
      /\ Len(q) \in Nat
      BY <1>1, <1>3, DequeueUnderWay
<1>5. consumer.len = length /\ consumer.node \in Touched \ Taken
      BY <1>1, <1>3 DEF Sequential, LoopKnows
<1>6. Touched' = Touched /\ Taken' = Taken /\ Chain(q)'
      BY <1>1 DEF Touched, Taken, Sequential, Chain
<1>7. LoopKnows(q)'
      BY <1>2, <1>5, <1>6 DEF LoopKnows
<1>8. length' = Len(q)
      BY <1>1, <1>4, <1>5
<1> QED BY <1>1, <1>2, <1>3, <1>4, <1>6, <1>7, <1>8, DequeueStep DEF Kept

LEMMA ReturnKeeps ==
  ASSUME Calm, NEW q \in Seq(Element), Sequential(q), Return
  PROVE  Kept
<1> USE DEF LoopOnly, queue
<1>1. /\ consumer.pc = "return" /\ taken' = Append(taken, consumer.node)
      /\ consumer'.pc = "idle"
      /\ UNCHANGED <<start, end, length, next, producer>>
      BY DEF Return, Loop
<1>2. Removed /\ ~Uncounted /\ ~Removed' /\ ~Uncounted'
      BY <1>1 DEF Removed, Uncounted
<1>3. /\ \A d \in Element : Quiet(d)
      /\ \A n \in Element : In(q, n) <=> n \in Touched \ Taken /\ n # consumer.node
      /\ length = Len(q) /\ end = IF Len(q) = 0 THEN Nil ELSE q[Len(q)]
      BY <1>1, <1>2, DequeueUnderWay
<1>4. consumer.node \in Touched \ Taken /\ consumer.node \in Element
      BY <1>2 DEF Sequential, LoopKnows, Touched
<1>5. Taken' = Taken \cup {consumer.node}
  <2>1. /\ taken \in Seq(Element) /\ Len(taken) \in Nat /\ Len(taken') = Len(taken) + 1
        /\ taken'[Len(taken) + 1] = consumer.node
        /\ \A i \in 1 .. Len(taken) : taken'[i] = taken[i]
        BY <1>1, <1>4 DEF Calm, TypeOK
  <2>2. \A i \in 1 .. Len(taken') : i \in 1 .. Len(taken) \/ i = Len(taken) + 1
        BY <2>1
  <2>3. Len(taken) + 1 \in 1 .. Len(taken') /\ \A i \in 1 .. Len(taken) : i \in 1 .. Len(taken')
        BY <2>1
  <2> QED BY <2>1, <2>2, <2>3 DEF Taken
<1>6. Touched' = Touched /\ Chain(q)'
      BY <1>1 DEF Touched, Sequential, Chain
<1>7. LoopKnows(q)'
      BY <1>1, <1>2 DEF LoopKnows
<1> QED BY <1>1, <1>2, <1>3, <1>5, <1>6, <1>7, DequeueStep DEF Kept

LEMMA NoPanic ==
  ASSUME Calm, NEW q \in Seq(Element), Sequential(q)
  PROVE  ~Panic
<1> SUFFICES ASSUME Panic PROVE FALSE
    OBVIOUS
<1>1. CASE consumer.pc = "loadnext" /\ start = Nil
      BY <1>1, NilAssumption DEF Sequential, LoopKnows, Chain
<1>2. CASE consumer.pc = "return" /\ consumer.node = Nil
      BY <1>2, NilAssumption DEF Sequential, LoopKnows, Removed, Touched
<1> QED BY <1>1, <1>2 DEF Panic, Loop
-----------------------------------------------------------------------------
LEMMA InitSeqInv == Init => SeqInv
<1> SUFFICES ASSUME Init PROVE up /\ Alone /\ \E q \in Seq(Element) : Sequential(q)
    BY DEF SeqInv
<1>1. \A e \in Element : producer[e].pc = "idle" /\ ~Writing(e)
      BY DEF Init, Writing
<1>2. consumer.pc = "idle" /\ ~Removed /\ ~Uncounted
      BY DEF Init, Removed, Uncounted
<1>3. up /\ Alone
      BY <1>1 DEF Init, Alone, Inside
<1> DEFINE q == << >>
<1>4. q \in Seq(Element) /\ Len(q) = 0 /\ \A n : ~In(q, n)
      BY DEF In
<1> HIDE DEF q
<1>5. Chain(q)
      BY <1>4 DEF Init, Chain
<1>6. Contents(q)
      BY <1>1, <1>2, <1>4 DEF Init, Contents, Touched
<1>7. ProducerKnows(q)
      BY <1>1 DEF ProducerKnows
<1>8. LoopKnows(q)
      BY <1>2 DEF LoopKnows
<1> QED BY <1>3, <1>4, <1>5, <1>6, <1>7, <1>8 DEF Sequential

LEMMA NextSeqInv == IInv /\ SeqInv /\ [Next]_queueVars => SeqInv'
<1> SUFFICES ASSUME IInv, SeqInv, [Next]_queueVars, ~overlapped'
             PROVE  up' /\ Kept
    BY DEF SeqInv, Kept
<1> USE DEF queue, history, LoopUntouched, LoopOnly
<1>1. ~overlapped
  <2>1. overlapped \in BOOLEAN
        BY DEF IInv, TypeOK
  <2>2. CASE \E e \in Element : Enqueue(e)
        BY <2>1, <2>2 DEF Enqueue, AddTask, LoadLength, StoreStart, LoadEnd, Drop, Link,
                          StoreEnd, CountLoad, CountStore
  <2>3. CASE Dequeue
        BY <2>1, <2>3 DEF Dequeue, RunTask, LoadStart, OnlyOne, ClearStart, ClearEnd, LoadNext,
                          Advance, CountDown, StoreCount, Return, Panic
  <2>4. CASE UNCHANGED queueVars
        BY <2>4 DEF queueVars
  <2> QED BY <2>2, <2>3, <2>4 DEF Next
<1>2. Calm
      BY <1>1, CalmStates
<1>3. PICK q \in Seq(Element) : Sequential(q)
      BY <1>1 DEF SeqInv
<1>4. ASSUME NEW e \in Element, Enqueue(e) PROVE up' /\ Kept
  <2>1. up' = up
        BY <1>4 DEF Enqueue, AddTask, LoadLength, StoreStart, LoadEnd, Drop, Link,
                    StoreEnd, CountLoad, CountStore
  <2>2. Kept
        BY <1>2, <1>3, <1>4, AddTaskKeeps, EnqueueLoads, StoreStartKeeps, LinkKeeps DEF Enqueue
  <2> QED BY <1>2, <2>1, <2>2 DEF Calm
<1>5. CASE Dequeue
  <2>1. ~Panic
        BY <1>2, <1>3, NoPanic
  <2>2. up' = up
        BY <1>5, <2>1 DEF Dequeue, RunTask, LoadStart, OnlyOne, ClearStart, ClearEnd, LoadNext,
                          Advance, CountDown, StoreCount, Return
  <2>3. Kept
        BY <1>2, <1>3, <1>5, <2>1, RunTaskKeeps, DequeueLoads, ClearStartKeeps, AdvanceKeeps,
           StoreCountKeeps, ReturnKeeps DEF Dequeue
  <2> QED BY <1>2, <2>2, <2>3 DEF Calm
<1>6. CASE UNCHANGED queueVars
  <2>1. UNCHANGED <<start, end, length, next, producer, consumer, up, taken>>
        BY <1>6 DEF queueVars
  <2>2. Sequential(q)'
        BY <1>3, <2>1 DEF Sequential, Chain, Contents, ProducerKnows, LoopKnows, Touched, Taken,
                          Removed, Uncounted, Writing
  <2>3. up' /\ Alone'
        BY <1>2, <2>1 DEF Calm, Alone, Inside
  <2> QED BY <2>2, <2>3 DEF Kept
<1> QED BY <1>4, <1>5, <1>6 DEF Next

-----------------------------------------------------------------------------
(* A set of positions that is not empty has a first one. *)
LEMMA FirstPosition ==
  ASSUME NEW T \in SUBSET Nat, T # {}
  PROVE  \E m \in T : \A n \in T : ~(n < m)
<1> DEFINE Less == {ss \in Nat \X Nat : ss[1] < ss[2]}
<1>1. IsWellFoundedOn(Less, Nat)
      BY NatLessThanWellFounded DEF OpToRel
<1>2. PICK m \in T : \A n \in T : ~(<<n, m>> \in Less)
      <2> HIDE DEF Less
      <2> QED BY <1>1, WFMin
<1>3. ASSUME NEW n \in T PROVE ~(n < m)
      <2>1. <<n, m>> \in Nat \X Nat /\ <<n, m>>[1] = n /\ <<n, m>>[2] = m
            OBVIOUS
      <2> QED BY <1>2, <2>1
<1> QED BY <1>3

(* From start exactly the chain can be reached. *)
LEMMA ReachableIsChain ==
  ASSUME TypeOK, NEW q \in Seq(Element), Chain(q)
  PROVE  \A n \in Element : n \in Reachable <=> In(q, n)
<1> DEFINE Closed(S) == /\ start # Nil => start \in S
                        /\ \A n \in S : next[n] # Nil => next[n] \in S
           All == {n \in Element : In(q, n)}
<1>1. Reachable = {e \in Element : \A S \in SUBSET Element : Closed(S) => e \in S}
      BY DEF Reachable
<1>2. /\ \A i \in 1 .. Len(q) : q[i] \in Element
      /\ Len(q) \in Nat
      /\ \A i \in 1 .. Len(q) - 1 : next[q[i]] = q[i + 1]
      /\ start = IF Len(q) = 0 THEN Nil ELSE q[1]
      /\ Len(q) # 0 => next[q[Len(q)]] = Nil
      BY DEF Chain
<1>3. Closed(All)
  <2>1. start # Nil => start \in All
        BY <1>2 DEF In
  <2>2. ASSUME NEW n \in All, next[n] # Nil PROVE next[n] \in All
    <3>1. PICK i \in 1 .. Len(q) : q[i] = n
          BY <2>2 DEF In
    <3>2. i # Len(q)
          BY <1>2, <2>2, <3>1
    <3>3. i \in 1 .. Len(q) - 1 /\ i + 1 \in 1 .. Len(q)
          BY <1>2, <3>2
    <3>4. next[n] = q[i + 1]
          BY <1>2, <3>1, <3>3
    <3> QED BY <1>2, <3>3, <3>4 DEF In
  <2> QED BY <2>1, <2>2
<1>4. ASSUME NEW n \in Element, n \in Reachable PROVE In(q, n)
  <2>1. All \in SUBSET Element
        OBVIOUS
  <2> HIDE DEF All, Closed
  <2>2. n \in All
        BY <1>1, <1>3, <1>4, <2>1
  <2> QED BY <2>2 DEF All
<1>5. ASSUME NEW S \in SUBSET Element, Closed(S) PROVE \A i \in 1 .. Len(q) : q[i] \in S
  <2> DEFINE missed == {i \in 1 .. Len(q) : q[i] \notin S}
  <2> SUFFICES ASSUME missed # {} PROVE FALSE
      OBVIOUS
  <2>1. PICK m \in missed : \A n \in missed : ~(n < m)
    <3>1. missed \in SUBSET Nat
          OBVIOUS
    <3> HIDE DEF missed
    <3> QED BY <3>1, FirstPosition
  <2>2. m \in 1 .. Len(q) /\ q[m] \notin S
        OBVIOUS
  <2>3. CASE m = 1
    <3>1. start = q[1] /\ q[1] # Nil
          BY <1>2, <2>2, <2>3, NilAssumption
    <3> QED BY <1>5, <2>2, <2>3, <3>1
  <2>4. CASE m # 1
    <3>1. m - 1 \in 1 .. Len(q) - 1 /\ m - 1 \in 1 .. Len(q) /\ m - 1 < m /\ (m - 1) + 1 = m
          BY <1>2, <2>2, <2>4
    <3>2. q[m - 1] \in S
          BY <2>1, <3>1
    <3>3. next[q[m - 1]] = q[m] /\ q[m] # Nil
          BY <1>2, <2>2, <3>1, NilAssumption
    <3> QED BY <1>5, <2>2, <3>2, <3>3
  <2> QED BY <2>3, <2>4
<1>6. ASSUME NEW n \in Element, In(q, n) PROVE n \in Reachable
  <2> HIDE DEF Closed
  <2> QED BY <1>1, <1>5, <1>6 DEF In
<1> QED BY <1>4, <1>6

LEMMA ChainCounts ==
  ASSUME NEW q \in Seq(Element), \A i, j \in 1 .. Len(q) : q[i] = q[j] => i = j,
         NEW S \in SUBSET Element, \A n \in Element : n \in S <=> In(q, n)
  PROVE  Cardinality(S) = Len(q)
<1>1. Len(q) \in Nat /\ q \in [1 .. Len(q) -> S]
      BY DEF In
<1>2. q \in Bijection(1 .. Len(q), S)
      BY <1>1 DEF Bijection, Injection, Surjection, IsInjective, In
<1> QED BY <1>1, <1>2, FS_CountingElements DEF ExistsBijection

(* As long as no calls overlapped, the linked list is a queue: no call      *)
(* panics, and between calls it holds what was accepted and not taken,     *)
(* with the length right (Enqueue and Dequeue of golang-collections).      *)
THEOREM SequentialCallsKeepWhatTheyGot == Spec => []SequentialCallsKeepAll
<1>1. ASSUME IInv, SeqInv PROVE SequentialCallsKeepAll
  <2> SUFFICES ASSUME ~overlapped
               PROVE  /\ up /\ \A e \in Element : producer[e].pc # "dropped"
                      /\ Inside = {} /\ consumer.pc = "idle"
                           => Reachable = Accepted \ Taken /\ length = Cardinality(Reachable)
      BY DEF SequentialCallsKeepAll
  <2>1. Calm
        BY <1>1, CalmStates
  <2>2. PICK q \in Seq(Element) : Sequential(q)
        BY <1>1 DEF SeqInv
  <2>3. up /\ \A e \in Element : producer[e].pc # "dropped"
        BY <2>1, <2>2 DEF Calm, Sequential, ProducerKnows
  <2>4. ASSUME Inside = {}, consumer.pc = "idle"
        PROVE  Reachable = Accepted \ Taken /\ length = Cardinality(Reachable)
    <3>1. \A d \in Element : Quiet(d)
          BY <2>3, <2>4 DEF Inside, Quiet
    <3>2. Touched = Accepted
          BY <3>1 DEF Touched, Accepted, Quiet
    <3>3. /\ \A n \in Element : In(q, n) <=> n \in Accepted \ Taken
          /\ length = Len(q)
          BY <2>2, <2>4, <3>1, <3>2, WhileQuiet DEF Removed, Uncounted
    <3>4. Reachable \in SUBSET Element /\ Accepted \subseteq Element
          BY DEF Reachable, Accepted
    <3>5. \A n \in Element : n \in Reachable <=> In(q, n)
          BY <2>1, <2>2, ReachableIsChain DEF Calm, Sequential
    <3>6. Cardinality(Reachable) = Len(q)
          BY <2>2, <3>4, <3>5, ChainCounts DEF Sequential, Chain
    <3> QED BY <3>3, <3>4, <3>5, <3>6
  <2> QED BY <2>3, <2>4
<1> QED BY Inductive, InitSeqInv, NextSeqInv, <1>1, PTL DEF Spec
=============================================================================
