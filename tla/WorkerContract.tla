--------------------------- MODULE WorkerContract ---------------------------
(***************************************************************************)
(* What the manager may rely on from the workers it talks to, whatever     *)
(* happens inside them: how the state that a worker reports for a task can *)
(* change from one GET /tasks to a later one.                              *)
(*                                                                         *)
(* A key is a task as one worker knows it.  posted and asked record which  *)
(* starts and stops were ever sent, so a request that is handled late, or  *)
(* whose answer is lost, is a report that comes late.                      *)
(***************************************************************************)
EXTENDS TaskStates

CONSTANT Key

VARIABLES
  posted,    \* the keys a start was sent for
  asked,     \* the keys a stop was sent for
  reported,  \* the state of each key in the worker's store
  revised    \* the keys whose end was reported twice, differently

contractVars == <<posted, asked, reported, revised>>

Init ==
  /\ posted = {}
  /\ asked = {}
  /\ reported = [k \in Key |-> Absent]
  /\ revised = {}

Post(k) == posted' = posted \cup {k} /\ UNCHANGED <<asked, reported, revised>>

Ask(k) == asked' = asked \cup {k} /\ UNCHANGED <<posted, reported, revised>>

(* The states that a state may be followed by while a task has not ended. *)
Follows(s) ==
  CASE s = Absent    -> {Scheduled, Running}
    [] s = Scheduled -> {Running}
    [] s = Running   -> Terminal
    [] OTHER         -> {}

Set(k, s) ==
  /\ s = Completed => k \in asked
  /\ reported' = [reported EXCEPT ![k] = s]
  /\ UNCHANGED <<posted, asked>>

(* A task that was sent moves forward, and completes only if asked to. *)
Advance(k) ==
  /\ k \in posted
  /\ \E s \in Follows(reported[k]) : Set(k, s)
  /\ UNCHANGED revised

(* The goroutine that stops a task and the one that misses its container   *)
(* may both record its end; the one that is later changes it, once.        *)
Revise(k) ==
  /\ reported[k] \in Terminal
  /\ k \notin revised
  /\ \E s \in Terminal \ {reported[k]} : Set(k, s)
  /\ revised' = revised \cup {k}

Work(k) == Advance(k) \/ Revise(k)

Next == \E k \in Key : Post(k) \/ Ask(k) \/ Work(k)

Spec == Init /\ [][Next]_contractVars
=============================================================================
