----------------------------- MODULE TaskStates -----------------------------
(***************************************************************************)
(* The life cycle of a task: the states of package task and the table of   *)
(* transitions that a worker consults before it runs one.  The manager     *)
(* never consults the table: it stores whatever state it is told.          *)
(***************************************************************************)

Pending   == "PENDING"
Scheduled == "SCHEDULED"
Running   == "RUNNING"
Completed == "COMPLETED"
Failed    == "FAILED"

State == {Pending, Scheduled, Running, Completed, Failed}

(* What a store answers for a key that it does not hold. *)
Absent == "ABSENT"

(* The states a worker is busy with and the states that end a task. *)
Active   == {Scheduled, Running}
Terminal == {Completed, Failed}

(* Mutant of stateTransitionMap: a task that ended may be started again. *)
stateTransitionMap_Restartable ==
  [s \in State |->
     CASE s = Pending   -> {Scheduled}
       [] s = Scheduled -> {Scheduled, Running, Failed}
       [] s = Running   -> {Running, Completed, Failed}
       [] s \in Terminal -> {Scheduled}]

stateTransitionMap ==
  [s \in State |->
     CASE s = Pending   -> {Scheduled}
       [] s = Scheduled -> {Scheduled, Running, Failed}
       [] s = Running   -> {Running, Completed, Failed}
       [] s \in Terminal -> {}]

ValidStateTransition(src, dest) == dest \in stateTransitionMap[src]
=============================================================================
