---------------------------- MODULE SharedQueue -----------------------------
(***************************************************************************)
(* The queue between the handlers and the loop that empties it, load by    *)
(* load and store by store.  It is a linked list of golang-collections and *)
(* does not synchronise anything.  Manager.AddTaskEvent calls Enqueue from *)
(* the goroutine of each request without a lock; Worker.AddTask does it    *)
(* under the worker's mutex, which makes the producers exclude one another *)
(* but not the loop, which never takes the mutex to dequeue.               *)
(*                                                                         *)
(* An element is enqueued once, so it also names the node made for it.     *)
(* Loads and stores take effect in one order that all goroutines see: what *)
(* weaker orders add is left out.                                          *)
(***************************************************************************)
EXTENDS Naturals, Sequences, FiniteSets

CONSTANTS
  Element,  \* task events of the manager, or tasks of the worker
  Nil,      \* the nil pointer
  Locked    \* TRUE: producers hold a mutex (worker), FALSE: none (manager)

ASSUME ElementAssumption == IsFiniteSet(Element)
ASSUME NilAssumption == Nil \notin Element
ASSUME LockedAssumption == Locked \in BOOLEAN

VARIABLES
  start, end, length,  \* the fields of the queue
  next,                \* the field next of each node
  producer,            \* each goroutine's call of Enqueue: where it is, what it loaded
  consumer,            \* the loop's call of Dequeue: where it is, what it loaded
  up,                  \* FALSE when a panic of the loop has ended the process
  taken,               \* what the loop got, in order
  after,               \* history: what had been accepted when a call began
  overlapped           \* history: a call began while another was under way

queue == <<start, end, length, next>>
history == <<after, overlapped>>
queueVars == <<queue, producer, consumer, up, taken, history>>

Init ==
  /\ start = Nil /\ end = Nil /\ length = 0
  /\ next = [e \in Element |-> Nil]
  /\ producer = [e \in Element |-> [pc |-> "idle", at |-> Nil, len |-> 0]]
  /\ consumer = [pc |-> "idle", node |-> Nil, to |-> Nil, len |-> 0]
  /\ up = TRUE
  /\ taken = <<>>
  /\ after = [e \in Element |-> {}]
  /\ overlapped = FALSE

Accepted == {e \in Element : producer[e].pc = "accepted"}
Inside == {e \in Element : producer[e].pc \notin {"idle", "accepted", "dropped"}}

-----------------------------------------------------------------------------
(* Enqueue(e).  A step of a goroutine that is at pc and goes on at to. *)

At(e, pc) == up /\ producer[e].pc = pc
Goto(e, to) == producer' = [producer EXCEPT ![e].pc = to]
LoopUntouched == UNCHANGED <<consumer, up, taken, history>>

AddTask(e) ==
  /\ At(e, "idle")
  /\ Locked => Inside = {}
  /\ Goto(e, "isempty")
  /\ after' = [after EXCEPT ![e] = Accepted]
  /\ overlapped' = (overlapped \/ Inside # {} \/ consumer.pc # "idle")
  /\ UNCHANGED <<queue, consumer, up, taken>>

LoadLength(e) ==
  /\ At(e, "isempty")
  /\ Goto(e, IF length = 0 THEN "first" ELSE "loadend")
  /\ UNCHANGED queue /\ LoopUntouched

StoreStart(e) ==
  /\ At(e, "first")
  /\ start' = e
  /\ Goto(e, "last")
  /\ UNCHANGED <<end, length, next>> /\ LoopUntouched

LoadEnd(e) ==
  /\ At(e, "loadend")
  /\ producer' = [producer EXCEPT ![e].pc = "link", ![e].at = end]
  /\ UNCHANGED queue /\ LoopUntouched

(* Without a last node the handler panics: net/http recovers it, and the   *)
(* client gets no answer.                                                  *)
Drop(e) ==
  /\ At(e, "link") /\ producer[e].at = Nil
  /\ Goto(e, "dropped")
  /\ UNCHANGED queue /\ LoopUntouched

(* Mutant of Link: the new node becomes the first one. *)
Link_AsFirst(e) ==
  /\ At(e, "link") /\ producer[e].at # Nil
  /\ next' = [next EXCEPT ![e] = start] /\ start' = e
  /\ Goto(e, "count")
  /\ UNCHANGED <<end, length>> /\ LoopUntouched

Link(e) ==
  /\ At(e, "link") /\ producer[e].at # Nil
  /\ next' = [next EXCEPT ![producer[e].at] = e]
  /\ Goto(e, "last")
  /\ UNCHANGED <<start, end, length>> /\ LoopUntouched

(* Mutant of StoreEnd: the last node stays the first one. *)
StoreEnd_Forgotten(e) ==
  /\ At(e, "last")
  /\ end' = IF end = Nil THEN e ELSE end
  /\ Goto(e, "count")
  /\ UNCHANGED <<start, length, next>> /\ LoopUntouched

StoreEnd(e) ==
  /\ At(e, "last")
  /\ end' = e
  /\ Goto(e, "count")
  /\ UNCHANGED <<start, length, next>> /\ LoopUntouched

CountLoad(e) ==
  /\ At(e, "count")
  /\ producer' = [producer EXCEPT ![e].pc = "counted", ![e].len = length]
  /\ UNCHANGED queue /\ LoopUntouched

(* Enqueue returns, and the handler answers 201 or 204. *)
CountStore(e) ==
  /\ At(e, "counted")
  /\ length' = producer[e].len + 1
  /\ Goto(e, "accepted")
  /\ UNCHANGED <<start, end, next>> /\ LoopUntouched

Enqueue(e) ==
  \/ AddTask(e) \/ LoadLength(e) \/ StoreStart(e) \/ LoadEnd(e) \/ Drop(e)
  \/ Link(e) \/ StoreEnd(e) \/ CountLoad(e) \/ CountStore(e)

-----------------------------------------------------------------------------
(* Dequeue, by the one goroutine that calls it. *)

Loop(pc) == up /\ consumer.pc = pc
LoopOnly == UNCHANGED <<producer, after>>
Proceed(to) == consumer' = [consumer EXCEPT !.pc = to]

(* The loop asks Len, and Dequeue asks once more: nobody else lowers the   *)
(* length, so the second answer is not 0 when the first is not.            *)
RunTask ==
  /\ Loop("idle") /\ length # 0
  /\ Proceed("loadstart")
  /\ overlapped' = (overlapped \/ Inside # {})
  /\ UNCHANGED <<queue, up, taken>> /\ LoopOnly

LoadStart ==
  /\ Loop("loadstart")
  /\ consumer' = [consumer EXCEPT !.pc = "onlyone", !.node = start]
  /\ UNCHANGED <<queue, up, taken, overlapped>> /\ LoopOnly

(* Mutant of OnlyOne: the last node is counted here and again below. *)
OnlyOne_CountsTwice ==
  /\ Loop("onlyone")
  /\ Proceed(IF length = 1 THEN "clearstart" ELSE "loadnext")
  /\ length' = IF length = 1 THEN 0 ELSE length
  /\ UNCHANGED <<start, end, next, up, taken, overlapped>> /\ LoopOnly

OnlyOne ==
  /\ Loop("onlyone")
  /\ Proceed(IF length = 1 THEN "clearstart" ELSE "loadnext")
  /\ UNCHANGED <<queue, up, taken, overlapped>> /\ LoopOnly

ClearStart ==
  /\ Loop("clearstart")
  /\ start' = Nil
  /\ Proceed("clearend")
  /\ UNCHANGED <<end, length, next, up, taken, overlapped>> /\ LoopOnly

ClearEnd ==
  /\ Loop("clearend")
  /\ end' = Nil
  /\ Proceed("count")
  /\ UNCHANGED <<start, length, next, up, taken, overlapped>> /\ LoopOnly

LoadNext ==
  /\ Loop("loadnext") /\ start # Nil
  /\ consumer' = [consumer EXCEPT !.pc = "advance", !.to = next[start]]
  /\ UNCHANGED <<queue, up, taken, overlapped>> /\ LoopOnly

(* Mutant of Advance: the first node stays where it is. *)
Advance_Stays ==
  /\ Loop("advance")
  /\ Proceed("count")
  /\ UNCHANGED <<queue, up, taken, overlapped>> /\ LoopOnly

Advance ==
  /\ Loop("advance")
  /\ start' = consumer.to
  /\ Proceed("count")
  /\ UNCHANGED <<end, length, next, up, taken, overlapped>> /\ LoopOnly

CountDown ==
  /\ Loop("count")
  /\ consumer' = [consumer EXCEPT !.pc = "counted", !.len = length]
  /\ UNCHANGED <<queue, up, taken, overlapped>> /\ LoopOnly

StoreCount ==
  /\ Loop("counted")
  /\ length' = consumer.len - 1
  /\ Proceed("return")
  /\ UNCHANGED <<start, end, next, up, taken, overlapped>> /\ LoopOnly

Return ==
  /\ Loop("return") /\ consumer.node # Nil
  /\ taken' = Append(taken, consumer.node)
  /\ consumer' = [pc |-> "idle", node |-> Nil, to |-> Nil, len |-> 0]
  /\ UNCHANGED <<queue, up, overlapped>> /\ LoopOnly

(* start.next or n.value of a nil pointer: nothing recovers the panic. *)
Panic ==
  /\ \/ Loop("loadnext") /\ start = Nil
     \/ Loop("return") /\ consumer.node = Nil
  /\ up' = FALSE
  /\ UNCHANGED <<queue, consumer, taken, overlapped>> /\ LoopOnly

Dequeue ==
  \/ RunTask \/ LoadStart \/ OnlyOne \/ ClearStart \/ ClearEnd
  \/ LoadNext \/ Advance \/ CountDown \/ StoreCount \/ Return \/ Panic

Next == (\E e \in Element : Enqueue(e)) \/ Dequeue

Spec == Init /\ [][Next]_queueVars

-----------------------------------------------------------------------------
Taken == {taken[i] : i \in 1 .. Len(taken)}

(* The nodes that can be reached from start: the least set that has start   *)
(* and the next of each of its members.                                    *)
Reachable ==
  LET Closed(S) == /\ start # Nil => start \in S
                   /\ \A n \in S : next[n] # Nil => next[n] \in S
  IN {e \in Element : \A S \in SUBSET Element : Closed(S) => e \in S}

(* A node belongs to the list only once its Enqueue has touched it, and     *)
(* Dequeue never finds the length 0 that its caller has just seen not to   *)
(* be 0, so the loop gets no nil for an answer.                            *)
TypeOK ==
  /\ {start, end} \subseteq Element \cup {Nil} /\ length \in 0 .. Cardinality(Element)
  /\ next \in [Element -> Element \cup {Nil}]
  /\ producer \in [Element -> [pc : {"idle", "isempty", "first", "loadend", "link", "last",
                                    "count", "counted", "accepted", "dropped"},
                               at : Element \cup {Nil}, len : Nat]]
  /\ consumer \in [pc : {"idle", "loadstart", "onlyone", "clearstart", "clearend",
                         "loadnext", "advance", "count", "counted", "return"},
                   node : Element \cup {Nil}, to : Element \cup {Nil}, len : Nat]
  /\ consumer.pc \in {"loadstart", "onlyone", "count"} => length # 0
  /\ taken \in Seq(Element) /\ Taken \cap {e \in Element : producer[e].pc = "idle"} = {}
  /\ after \in [Element -> SUBSET Element] /\ {up, overlapped} \subseteq BOOLEAN

(* However calls of Enqueue and Dequeue race, no event is sent (no task is  *)
(* run) twice out of one request.                                          *)
TakenOnce == \A i, j \in 1 .. Len(taken) : taken[i] = taken[j] => i = j

(* However they race, a request made after another one was answered is not *)
(* taken before it: a stop does not overtake its start.                    *)
OrderKept == \A i, j \in 1 .. Len(taken) : i < j => taken[j] \notin after[taken[i]]

(* As long as no two calls overlapped, the list is a queue: nobody panics,  *)
(* and between calls exactly the accepted events that were not taken are   *)
(* in the list and the length is their number.                             *)
SequentialCallsKeepAll ==
  ~overlapped =>
    /\ up /\ \A e \in Element : producer[e].pc # "dropped"
    /\ Inside = {} /\ consumer.pc = "idle"
         => Reachable = Accepted \ Taken /\ length = Cardinality(Reachable)

(* What AddTask and AddTaskEvent are for: an event that was accepted is in  *)
(* the queue until it is taken.                                            *)
AcceptedKept == up => Accepted \subseteq Taken \cup Reachable \cup {consumer.node}
=============================================================================
