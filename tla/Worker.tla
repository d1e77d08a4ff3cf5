------------------------------- MODULE Worker -------------------------------
(***************************************************************************)
(* One worker process: the queue of desired states, the handlers of its    *)
(* API that fill it, the goroutine that runs it (RunTasksForever), the     *)
(* goroutine that compares taskDb with Docker (UpdateTaskStatsForever),    *)
(* and the containers, which outlive the process.                          *)
(*                                                                         *)
(* The mutex is held while a queued task is executed and while a task is   *)
(* enqueued; StopTaskHandler, GetTasksHandler and updateTasks read and     *)
(* write taskDb without it, so each of their accesses is a step.           *)
(*                                                                         *)
(* Of a task only its state and whether its container id is known are      *)
(* kept.  A container is created under the name of its task, which Docker  *)
(* keeps unique, so there is one container per task at a time.             *)
(***************************************************************************)
EXTENDS Naturals, Sequences, FiniteSets, TaskStates

CONSTANTS
  Task,          \* identifiers of tasks
  NoTask,        \* the goroutine has no task in hand
  MaxQueue,      \* bound on the length of the queue
  MaxStops,      \* bound on the number of stop handlers at work
  DockerFaults,  \* the tasks for which a call of Docker may return an error
  StoreFaults,   \* the tasks for which a Put may fail, which no caller reads
  Named,         \* the tasks that may be sent with the id of their container
  Crashes        \* TRUE: the process may die and be started again

ASSUME NoTaskAssumption == NoTask \notin Task
ASSUME BoundsAssumption == MaxQueue \in Nat /\ MaxStops \in Nat
ASSUME NamedAssumption == Named \subseteq Task
ASSUME FaultsAssumption == DockerFaults \cup StoreFaults \subseteq Task /\ Crashes \in BOOLEAN

VARIABLES
  taskDb,     \* bucket "<name>_tasks": [state, cid] of each task
  queue,      \* Queue: the tasks whose state is to become the desired one
  run,        \* RunTasksForever: where it is and the task in its hand
  stopping,   \* StopTaskHandlers that have read taskDb and wait for the mutex
  upd,        \* UpdateTaskStatsForever: where it is and its copies of tasks
  container,  \* what Docker knows of the container of each task
  started,    \* history: the tasks docker.Run was called for by this process
  posted,     \* history: the tasks StartTaskHandler was ever called for
  asked,      \* history: the tasks StopTaskHandler ever accepted
  revised     \* history: the tasks stored as ended in two different states

loopVars == <<queue, run>>
requests == <<posted, asked>>
workerVars == <<taskDb, loopVars, stopping, upd, container, started, requests, revised>>

(* cid: the task carries a container id that leads to its container.  The  *)
(* id comes from docker.Run, or with the request of a user: the name of    *)
(* the container does as well.  An id that is empty, or wrong, is FALSE.   *)
NotStored == [state |-> Absent, cid |-> FALSE]
TaskInState(s, cid) == [state |-> s, cid |-> cid]
Wanted(t, s, cid) == [task |-> t, state |-> s, cid |-> cid]

Idle == [pc |-> "idle", task |-> NoTask, state |-> Absent, cid |-> FALSE]
Down == [Idle EXCEPT !.pc = "down"]
Asleep == [pc |-> "sleep", todo |-> {}, task |-> NoTask, got |-> NotStored]

-----------------------------------------------------------------------------
Init ==
  /\ taskDb = [t \in Task |-> NotStored]
  /\ queue = <<>>
  /\ run = Idle
  /\ stopping = {}
  /\ upd = Asleep
  /\ container = [t \in Task |-> "none"]
  /\ started = {}
  /\ posted = {} /\ asked = {} /\ revised = {}

(* taskDb.Put: every caller in this module drops the error it may return. *)
Put(t, v) ==
  \/ /\ taskDb' = [taskDb EXCEPT ![t] = v]
     /\ revised' = IF taskDb[t].state \in Terminal \ {v.state}
                   THEN revised \cup {t} ELSE revised
  \/ t \in StoreFaults /\ UNCHANGED <<taskDb, revised>>

(* transitionTask holds the mutex from its first line to its last. *)
Unlocked == run.pc \in {"idle", "dequeued"}

AddTask(m) ==
  /\ Unlocked
  /\ Len(queue) < MaxQueue
  /\ queue' = Append(queue, m)

(* POST /tasks: the manager sends the task as scheduled, with the container *)
(* id that the user gave, if any.                                          *)
StartTaskHandler(t, cid) ==
  /\ AddTask(Wanted(t, Scheduled, cid))
  /\ posted' = posted \cup {t}
  /\ UNCHANGED <<taskDb, run, stopping, upd, container, started, asked, revised>>

(* Mutant of StopTaskHandler: the copy keeps the state that was read. *)
StopTaskHandler_StateNotSet(t) ==
  /\ run.pc # "down"
  /\ taskDb[t].state # Absent
  /\ Cardinality(stopping) < MaxStops
  /\ stopping' = stopping \cup {Wanted(t, taskDb[t].state, taskDb[t].cid)}
  /\ asked' = asked \cup {t}
  /\ UNCHANGED <<taskDb, loopVars, upd, container, started, posted, revised>>

(* DELETE /tasks/t: 404 when t is not stored, else a copy of t is taken,   *)
(* which waits for the mutex and is enqueued with the desired state.       *)
StopTaskHandler(t) ==
  /\ run.pc # "down"
  /\ taskDb[t].state # Absent
  /\ Cardinality(stopping) < MaxStops
  /\ stopping' = stopping \cup {Wanted(t, Completed, taskDb[t].cid)}
  /\ asked' = asked \cup {t}
  /\ UNCHANGED <<taskDb, loopVars, upd, container, started, posted, revised>>

StopTaskEnqueue(m) ==
  /\ m \in stopping
  /\ AddTask(m)
  /\ stopping' = stopping \ {m}
  /\ UNCHANGED <<taskDb, run, upd, container, started, requests, revised>>

-----------------------------------------------------------------------------
(* RunTasksForever. *)

(* runTask takes the head of the queue, without the mutex. *)
Dequeue ==
  /\ run.pc = "idle"
  /\ queue # <<>>
  /\ run' = [pc |-> "dequeued", task |-> Head(queue).task,
             state |-> Head(queue).state, cid |-> Head(queue).cid]
  /\ queue' = Tail(queue)
  /\ UNCHANGED <<taskDb, stopping, upd, container, started, requests, revised>>

(* Mutants of TransitionTask: the table of transitions is not consulted; a *)
(* new task is not stored before it is started.                            *)
TransitionTask_Unchecked ==
  /\ run.pc = "dequeued"
  /\ IF taskDb[run.task].state = Absent
     THEN Put(run.task, TaskInState(run.state, run.cid))
     ELSE UNCHANGED <<taskDb, revised>>
  /\ run' = [run EXCEPT !.pc = IF run.state = Scheduled THEN "start" ELSE "stop"]
  /\ UNCHANGED <<queue, stopping, upd, container, started, requests>>

TransitionTask_NotStored ==
  /\ run.pc = "dequeued"
  /\ taskDb[run.task].state # Absent => ValidStateTransition(taskDb[run.task].state, run.state)
  /\ run' = [run EXCEPT !.pc = IF run.state = Scheduled THEN "start" ELSE "stop"]
  /\ UNCHANGED <<taskDb, queue, stopping, upd, container, started, requests, revised>>

(* transitionTask locks, stores the task if it is new, and goes on to      *)
(* StartTask or StopTask if the table allows the transition; if not, it    *)
(* unlocks and the queued task is dropped.                                 *)
TransitionTask ==
  /\ run.pc = "dequeued"
  /\ LET t == run.task
         new == taskDb[t].state = Absent
         persisted == IF new THEN run.state ELSE taskDb[t].state
     IN /\ IF new THEN Put(t, TaskInState(run.state, run.cid))
                   ELSE UNCHANGED <<taskDb, revised>>
        /\ run' = IF ValidStateTransition(persisted, run.state)
                  THEN [run EXCEPT !.pc = IF run.state = Scheduled THEN "start" ELSE "stop"]
                  ELSE Idle
  /\ UNCHANGED <<queue, stopping, upd, container, started, requests>>

(* docker.Run: the container is created and started and its logs are read, *)
(* or one of these calls fails: no container, one that is created, or one  *)
(* that runs; then, and when the name is taken, no id is returned.         *)
DockerRun ==
  /\ run.pc = "start"
  /\ started' = started \cup {run.task}
  /\ \E made \in {"none", "created", "running"}, ok \in BOOLEAN :
       /\ ok => made = "running"
       /\ container[run.task] # "none" => made = "none"
       /\ ~ ok => run.task \in DockerFaults \/ container[run.task] # "none"
       /\ container' = IF made = "none" THEN container
                       ELSE [container EXCEPT ![run.task] = made]
       /\ run' = [run EXCEPT !.pc = "started", !.cid = ok]
  /\ UNCHANGED <<taskDb, queue, stopping, upd, requests, revised>>

(* Mutant of StartTaskPut: the state stays the one that was queued. *)
StartTaskPut_StateNotSet ==
  /\ run.pc = "started"
  /\ Put(run.task, TaskInState(run.state, run.cid))
  /\ run' = Idle
  /\ UNCHANGED <<queue, stopping, upd, container, started, requests>>

(* StartTask stores the task as running, whatever docker.Run returned. *)
StartTaskPut ==
  /\ run.pc = "started"
  /\ Put(run.task, TaskInState(Running, run.cid))
  /\ run' = Idle
  /\ UNCHANGED <<queue, stopping, upd, container, started, requests>>

(* Mutants of DockerStop: the container is not removed; StopTask returns   *)
(* when it fails.                                                          *)
DockerStop_NotRemoved ==
  /\ run.pc = "stop"
  /\ container' = IF run.cid /\ container[run.task] # "none"
                  THEN [container EXCEPT ![run.task] = "exited"] ELSE container
  /\ run' = [run EXCEPT !.pc = "stopped"]
  /\ UNCHANGED <<taskDb, queue, stopping, upd, started, requests, revised>>

DockerStop_ErrorReturns ==
  /\ run.pc = "stop"
  /\ \/ /\ run.cid /\ container[run.task] # "none"
        /\ container' = [container EXCEPT ![run.task] = "none"]
        /\ run' = [run EXCEPT !.pc = "stopped"]
     \/ /\ run.task \in DockerFaults \/ ~ run.cid \/ container[run.task] = "none"
        /\ UNCHANGED container
        /\ run' = Idle
  /\ UNCHANGED <<taskDb, queue, stopping, upd, started, requests, revised>>

(* docker.Stop stops and removes the container of the id in hand.  Without *)
(* an id, or without a container, it fails and changes nothing.            *)
DockerStop ==
  /\ run.pc = "stop"
  /\ \E left \in {"none", "exited", container[run.task]} :
       /\ left # "none" => run.task \in DockerFaults \/ ~ run.cid
       /\ ~ run.cid => left = container[run.task]
       /\ container[run.task] = "none" => left = "none"
       /\ container' = [container EXCEPT ![run.task] = left]
  /\ run' = [run EXCEPT !.pc = "stopped"]
  /\ UNCHANGED <<taskDb, queue, stopping, upd, started, requests, revised>>

(* StopTask stores the queued copy as completed, whatever Stop returned. *)
StopTaskPut ==
  /\ run.pc = "stopped"
  /\ Put(run.task, TaskInState(Completed, run.cid))
  /\ run' = Idle
  /\ UNCHANGED <<queue, stopping, upd, container, started, requests>>

RunTasksForever ==
  \/ Dequeue
  \/ TransitionTask
  \/ DockerRun \/ StartTaskPut
  \/ DockerStop \/ StopTaskPut

-----------------------------------------------------------------------------
(* UpdateTaskStatsForever: updateTasks, in any order of the listed tasks.  *)

UpdateNext(todo) == IF todo = {} THEN Asleep ELSE [Asleep EXCEPT !.pc = "loop", !.todo = todo]

(* A pass that lists no running task does nothing. *)
UpdateList ==
  LET running == {t \in Task : taskDb[t].state = Running}
  IN /\ run.pc # "down" /\ upd.pc = "sleep"
     /\ running # {}
     /\ upd' = UpdateNext({[task |-> t, cid |-> taskDb[t].cid] : t \in running})
     /\ UNCHANGED <<taskDb, loopVars, stopping, container, started, requests, revised>>

(* Any error of Inspect is taken for a removed container.  When there is   *)
(* one, running or not, only a copy of the task is changed.                *)
UpdateInspect(m) ==
  /\ upd.pc = "loop"
  /\ m \in upd.todo
  /\ \E found \in BOOLEAN :
       /\ found => m.cid /\ container[m.task] # "none"
       /\ ~ found => m.task \in DockerFaults \/ ~ m.cid \/ container[m.task] = "none"
       /\ upd' = IF found THEN UpdateNext(upd.todo \ {m})
                 ELSE [upd EXCEPT !.pc = "get", !.task = m.task, !.todo = @ \ {m}]
  /\ UNCHANGED <<taskDb, loopVars, stopping, container, started, requests, revised>>

UpdateGet ==
  /\ upd.pc = "get"
  /\ upd' = [upd EXCEPT !.pc = "put", !.got = taskDb[upd.task]]
  /\ UNCHANGED <<taskDb, loopVars, stopping, container, started, requests, revised>>

(* Mutant of UpdatePut: the failed task is not stored, as in the branch of *)
(* updateTasks for a container that exited.                                *)
UpdatePut_Forgotten ==
  /\ upd.pc = "put"
  /\ upd' = UpdateNext(upd.todo)
  /\ UNCHANGED <<taskDb, loopVars, stopping, container, started, requests, revised>>

UpdatePut ==
  /\ upd.pc = "put"
  /\ Put(upd.task, [upd.got EXCEPT !.state = Failed])
  /\ upd' = UpdateNext(upd.todo)
  /\ UNCHANGED <<loopVars, stopping, container, started, requests>>

UpdateTaskStatsForever ==
  \/ UpdateList
  \/ \E m \in [task : Task, cid : BOOLEAN] : UpdateInspect(m)
  \/ UpdateGet
  \/ UpdatePut

-----------------------------------------------------------------------------
(* What the process does not control. *)

ContainerExits(t) ==
  /\ container[t] = "running"
  /\ container' = [container EXCEPT ![t] = "exited"]
  /\ UNCHANGED <<taskDb, loopVars, stopping, upd, started, requests, revised>>

(* The restart policy of the task, or docker start. *)
ContainerStarts(t) ==
  /\ container[t] \in {"created", "exited"}
  /\ container' = [container EXCEPT ![t] = "running"]
  /\ UNCHANGED <<taskDb, loopVars, stopping, upd, started, requests, revised>>

(* Somebody removes the container: docker rm. *)
ContainerRemoved(t) ==
  /\ container[t] # "none"
  /\ container' = [container EXCEPT ![t] = "none"]
  /\ UNCHANGED <<taskDb, loopVars, stopping, upd, started, requests, revised>>

(* The process dies: taskDb and the containers stay. *)
Crash ==
  /\ Crashes
  /\ run.pc # "down"
  /\ queue' = <<>>
  /\ run' = Down
  /\ stopping' = {}
  /\ upd' = Asleep
  /\ started' = {}
  /\ UNCHANGED <<taskDb, container, requests, revised>>

(* It is started again, and opens the bucket it had. *)
Start ==
  /\ run.pc = "down"
  /\ run' = Idle
  /\ UNCHANGED <<taskDb, queue, stopping, upd, container, started, requests, revised>>

Next ==
  \/ \E t \in Task, cid \in BOOLEAN : (cid => t \in Named) /\ StartTaskHandler(t, cid)
  \/ \E t \in Task : StopTaskHandler(t)
  \/ \E m \in stopping : StopTaskEnqueue(m)
  \/ RunTasksForever
  \/ UpdateTaskStatsForever
  \/ \E t \in Task : ContainerExits(t) \/ ContainerStarts(t) \/ ContainerRemoved(t)
  \/ Crash \/ Start

(* Both goroutines loop for ever, and Docker answers each call.  A handler *)
(* that waits for the mutex gets it: Go hands a mutex to a starving waiter.*)
Fairness ==
  /\ WF_workerVars(RunTasksForever)
  /\ WF_workerVars(UpdateTaskStatsForever)
  /\ \A t \in Task, cid \in BOOLEAN : SF_workerVars(StopTaskEnqueue(Wanted(t, Completed, cid)))

Spec == Init /\ [][Next]_workerVars
FairSpec == Spec /\ Fairness

-----------------------------------------------------------------------------
Desired == [task : Task, state : {Scheduled, Completed}, cid : BOOLEAN]
InHand == [pc : {"dequeued", "start", "started", "stop", "stopped"}, task : Task,
           state : {Scheduled, Completed}, cid : BOOLEAN]
Entry == [state : {Absent, Scheduled, Running, Completed, Failed}, cid : BOOLEAN]
Update == [pc : {"sleep", "loop", "get", "put"}, todo : SUBSET [task : Task, cid : BOOLEAN],
           task : Task \cup {NoTask}, got : Entry]

(* The types; no task is stored as pending, and RunTasksForever has a task *)
(* in hand unless it waits for one.                                        *)
TypeOK ==
  /\ taskDb \in [Task -> Entry]
  /\ queue \in Seq(Desired)
  /\ run \in InHand \cup {Idle, Down}
  /\ stopping \subseteq [task : Task, state : {Completed}, cid : BOOLEAN]
  /\ upd \in Update
  /\ upd.pc \in {"get", "put"} => upd.task \in Task
  /\ container \in [Task -> {"none", "created", "running", "exited"}]
  /\ started \subseteq Task
  /\ posted \subseteq Task /\ asked \subseteq Task /\ revised \subseteq Task

(* A task that the manager sends again, because the answer was lost or a   *)
(* user submitted it twice, is not started a second time by the process,   *)
(* as long as no Put of it fails.                                          *)
StartedOnce == run.pc = "start" => run.task \notin started \/ run.task \in StoreFaults

(* Every container that exists belongs to a task that is stored, even when *)
(* the process died while Docker was starting it.                          *)
ContainersKnown ==
  \A t \in Task \ StoreFaults : container[t] # "none" => taskDb[t].state # Absent

(* A task stored as completed under its container id has no container, as  *)
(* long as no call of Docker for it fails.                                 *)
CompletedRemoved ==
  \A t \in Task \ DockerFaults :
    taskDb[t] = TaskInState(Completed, TRUE) => container[t] = "none"

(* The worker keeps its side of WorkerContract: whatever requests, stale    *)
(* copies in the queue and in updateTasks, errors and crashes come, a task *)
(* is reported only if it was sent, moves forward only, completes only if  *)
(* a stop was accepted, and its end is revised at most once.               *)
Contract == INSTANCE WorkerContract
              WITH Key <- Task, reported <- [t \in Task |-> taskDb[t].state]

KeepsContract == Contract!Spec

(* StopTask requires the task it is given to have a container id. *)
StopHasContainerId == run.pc = "stop" => run.cid

(* A queued start is executed: the task is stored as running or ended,      *)
(* unless the process dies first, and with it the queue.  As StopsTake and *)
(* LostContainerNoticed, this is about the tasks whose Puts do not fail.   *)
StartsTake ==
  \A t \in Task \ StoreFaults :
    (\E i \in DOMAIN queue : queue[i].task = t /\ queue[i].state = Scheduled)
      ~> taskDb[t].state \in {Running} \cup Terminal \/ run.pc = "down"

(* The process died between storing t and storing it as running: nothing   *)
(* of the request that started t is left but the state it was stored in.   *)
LeftScheduled(t) ==
  /\ taskDb[t].state = Scheduled
  /\ run.task = t => run.state # Scheduled
  /\ \A i \in DOMAIN queue : queue[i].task = t => queue[i].state # Scheduled

(* A stop that was accepted ends the task, whatever state it was read in,   *)
(* with two exceptions.  The process may die, and with it the queue.  And  *)
(* a task that an earlier death left as scheduled is not ended by stops:   *)
(* the table has no transition from scheduled to completed, so the stop,   *)
(* which was answered with 204, is dropped.                                *)
StopsTake ==
  \A t \in Task \ StoreFaults :
    (\E m \in stopping : m.task = t)
      ~> taskDb[t].state \in Terminal \/ LeftScheduled(t) \/ run.pc = "down"

(* A task stored as running without a container that is known does not     *)
(* stay so while the process is up, also if it was left so by an earlier   *)
(* process.                                                                *)
LostContainerNoticed ==
  \A t \in Task \ StoreFaults :
    taskDb[t].state = Running /\ (~ taskDb[t].cid \/ container[t] = "none")
      ~> taskDb[t].state # Running \/ run.pc = "down"

(* docs/architecture.md: a running task whose container exits by itself    *)
(* completes or fails.                                                     *)
ExitNoticed ==
  \A t \in Task :
    taskDb[t].state = Running /\ container[t] = "exited" ~> taskDb[t].state # Running
=============================================================================
