---------------------------- MODULE ManagerState ----------------------------
(***************************************************************************)
(* MappingStorage: what the manager knows about tasks and workers.         *)
(*                                                                         *)
(* Four buckets of one bolt file survive the process: taskDb, eventDb,     *)
(* taskWorkerDb and workerNameDb.  Three maps are derived from them when   *)
(* the manager starts and kept up to date in memory afterwards: workers,   *)
(* workerTaskMap and workerActiveTaskCountMap.  A read-write mutex makes   *)
(* every operation atomic for the other goroutines, but not for a crash:   *)
(* each Put is a transaction of its own, so AssignTaskToWorker, the only   *)
(* operation with two of them, is modelled as two steps between which the  *)
(* mutex is held and the process may die.                                  *)
(*                                                                         *)
(* Of a task only the state is kept.  The name of a worker is abstracted   *)
(* to whether one is stored.  Get does not fail: PersistentStore.Get       *)
(* reports an absent key for every failed transaction.                     *)
(***************************************************************************)
EXTENDS Integers, FiniteSets, TaskStates

CONSTANTS
  Task,        \* identifiers of tasks
  Worker,      \* identifiers of workers
  EventId,     \* identifiers of task events
  NoWorker,    \* the nil *uuid.UUID of GetAssignedWorker
  Free,        \* the mutex is not held
  StoreFaults  \* TRUE: a Put of the persistent store may return an error

ASSUME TaskAssumption == IsFiniteSet(Task)
ASSUME WorkerAssumption == NoWorker \notin Worker
ASSUME FreeAssumption == Free \notin [task : Task, worker : Worker]
ASSUME StoreFaultsAssumption == StoreFaults \in BOOLEAN

VARIABLES
  taskDb,        \* bucket "tasks": the state of each stored task
  eventDb,       \* bucket "events": the keys of the logged events
  taskWorkerDb,  \* bucket "task_to_worker"
  workerNameDb,  \* bucket "worker_id_to_name": the workers with a name
  workers,       \* how often each worker occurs in the slice of workers
  workerTaskMap, \* the tasks assigned to each worker
  workerActiveTaskCountMap,
  mutex,         \* the assignment between its two Puts, or Free
  up,            \* FALSE once rehydrate has refused to start the manager
  drifted        \* history: the workers whose count the code let drift

stores == <<taskDb, eventDb, taskWorkerDb, workerNameDb>>
derived == <<workers, workerTaskMap, workerActiveTaskCountMap>>
stateVars == <<stores, derived, mutex, up, drifted>>

-----------------------------------------------------------------------------
(* The operations.  Unlocked is the guard of everything that takes mutex. *)

Unlocked == up /\ mutex = Free

(* The tasks of worker w that are scheduled or running. *)
ActiveTasks(w) == {t \in workerTaskMap[w] : taskDb[t] \in Active}

Init ==
  /\ taskDb = [t \in Task |-> Absent]
  /\ eventDb = {}
  /\ taskWorkerDb = [t \in Task |-> NoWorker]
  /\ workerNameDb = {}
  /\ workers = [w \in Worker |-> 0]
  /\ workerTaskMap = [w \in Worker |-> {}]
  /\ workerActiveTaskCountMap = [w \in Worker |-> 0]
  /\ mutex = Free
  /\ up = TRUE
  /\ drifted = {}

(* Mutant of RegisterWorker: it forgets to ask whether a name is stored. *)
RegisterWorker_AlwaysAppends(w) ==
  /\ Unlocked
  /\ workerNameDb' = workerNameDb \cup {w}
  /\ workers' = [workers EXCEPT ![w] = @ + 1]
  /\ UNCHANGED <<taskDb, eventDb, taskWorkerDb, workerTaskMap,
                 workerActiveTaskCountMap, mutex, up, drifted>>

(* A worker introduces itself.  Its name is stored again each time; it is  *)
(* appended to workers when no name was stored before.                     *)
RegisterWorker(w) ==
  /\ Unlocked
  /\ workerNameDb' = workerNameDb \cup {w}
  /\ workers' = [workers EXCEPT ![w] = IF w \in workerNameDb THEN @ ELSE @ + 1]
  /\ UNCHANGED <<taskDb, eventDb, taskWorkerDb, workerTaskMap,
                 workerActiveTaskCountMap, mutex, up, drifted>>

UpdateTaskEvent(e) ==
  /\ Unlocked
  /\ eventDb' = eventDb \cup {e}
  /\ UNCHANGED <<taskDb, taskWorkerDb, workerNameDb, derived, mutex, up, drifted>>

(* UpdateTask(t, s): task t is reported to be in state s.  Ends(t, s): the *)
(* report makes UpdateTask lower the count of the worker assigned to t.    *)
Ends(t, s) == taskDb[t] # s /\ s \in Terminal

(* UpdateTask returns an error before it changes anything. *)
UpdateTaskRefused(t, s) ==
  \/ taskDb[t] = Absent
  \/ Ends(t, s) /\ taskWorkerDb[t] = NoWorker

UpdateTaskCounts(t, s) ==
  workerActiveTaskCountMap' =
    IF Ends(t, s)
    THEN [workerActiveTaskCountMap EXCEPT ![taskWorkerDb[t]] = @ - 1]
    ELSE workerActiveTaskCountMap

UpdateTaskStored(t, s) ==
  /\ Unlocked
  /\ ~ UpdateTaskRefused(t, s)
  /\ UpdateTaskCounts(t, s)
  /\ taskDb' = [taskDb EXCEPT ![t] = s]
  /\ drifted' = IF taskDb[t] \in Terminal /\ s # taskDb[t]
                THEN drifted \cup ({taskWorkerDb[t]} \ {NoWorker})
                ELSE drifted
  /\ UNCHANGED <<eventDb, taskWorkerDb, workerNameDb, workers, workerTaskMap,
                 mutex, up>>

(* The Put fails after the count has been lowered. *)
UpdateTaskPutFails(t, s) ==
  /\ StoreFaults
  /\ Unlocked
  /\ ~ UpdateTaskRefused(t, s)
  /\ UpdateTaskCounts(t, s)
  /\ drifted' = IF Ends(t, s) THEN drifted \cup {taskWorkerDb[t]} ELSE drifted
  /\ UNCHANGED <<stores, workers, workerTaskMap, mutex, up>>

UpdateTask(t, s) ==
  \/ Unlocked /\ UpdateTaskRefused(t, s) /\ UNCHANGED stateVars
  \/ UpdateTaskStored(t, s)
  \/ UpdateTaskPutFails(t, s)

(* Mutants of AssignPutTask: the state of the task is not set before it is *)
(* stored; the two Puts are swapped.                                       *)
AssignPutTask_StateNotSet(t, w) ==
  /\ Unlocked
  /\ taskDb' = [taskDb EXCEPT ![t] = Pending]
  /\ mutex' = [task |-> t, worker |-> w]
  /\ UNCHANGED <<eventDb, taskWorkerDb, workerNameDb, derived, up, drifted>>

AssignPutTask_Swapped(t, w) ==
  /\ Unlocked
  /\ taskWorkerDb' = [taskWorkerDb EXCEPT ![t] = w]
  /\ mutex' = [task |-> t, worker |-> w]
  /\ UNCHANGED <<eventDb, taskDb, workerNameDb, derived, up, drifted>>

(* AssignTaskToWorker, up to its first Put: t is stored as scheduled. *)
AssignPutTask(t, w) ==
  /\ Unlocked
  /\ taskDb' = [taskDb EXCEPT ![t] = Scheduled]
  /\ mutex' = [task |-> t, worker |-> w]
  /\ drifted' = IF taskDb[t] \in Terminal
                THEN drifted \cup ({taskWorkerDb[t]} \ {NoWorker})
                ELSE drifted
  /\ UNCHANGED <<eventDb, taskWorkerDb, workerNameDb, derived, up>>

(* Mutant of AssignPutWorker: a task that is already listed counts again. *)
AssignPutWorker_AlwaysCounts ==
  /\ up /\ mutex # Free
  /\ LET t == mutex.task
         w == mutex.worker
     IN /\ taskWorkerDb' = [taskWorkerDb EXCEPT ![t] = w]
        /\ workerTaskMap' = [workerTaskMap EXCEPT ![w] = @ \cup {t}]
        /\ workerActiveTaskCountMap' = [workerActiveTaskCountMap EXCEPT ![w] = @ + 1]
  /\ mutex' = Free
  /\ UNCHANGED <<taskDb, eventDb, workerNameDb, workers, up, drifted>>

(* The second Put and the two maps, then the mutex is released. *)
AssignPutWorker ==
  /\ up /\ mutex # Free
  /\ LET t == mutex.task
         w == mutex.worker
         new == t \notin workerTaskMap[w]
     IN /\ taskWorkerDb' = [taskWorkerDb EXCEPT ![t] = w]
        /\ workerTaskMap' = [workerTaskMap EXCEPT ![w] = @ \cup {t}]
        /\ workerActiveTaskCountMap' =
             [workerActiveTaskCountMap EXCEPT ![w] = IF new THEN @ + 1 ELSE @]
  /\ mutex' = Free
  /\ UNCHANGED <<taskDb, eventDb, workerNameDb, workers, up, drifted>>

(* The second Put fails: t stays stored as scheduled. *)
AssignPutWorkerFails ==
  /\ StoreFaults
  /\ up /\ mutex # Free
  /\ mutex' = Free
  /\ UNCHANGED <<stores, derived, up, drifted>>

(* rehydrate fails on an assignment whose task is not stored. *)
Rehydratable == \A t \in Task : taskWorkerDb[t] # NoWorker => taskDb[t] # Absent

(* The process dies, between two operations or inside one, and is started  *)
(* again: NewState derives the maps from the buckets.                      *)
Restart ==
  LET tasksOf == [w \in Worker |-> {t \in Task : taskWorkerDb[t] = w}]
  IN /\ up' = Rehydratable
     /\ workerTaskMap' = tasksOf
     /\ workers' = [w \in Worker |->
                      IF tasksOf[w] # {} \/ w \in workerNameDb THEN 1 ELSE 0]
     /\ workerActiveTaskCountMap' =
          [w \in Worker |-> Cardinality({t \in tasksOf[w] : taskDb[t] \in Active})]
     /\ mutex' = Free
     /\ drifted' = {}
     /\ UNCHANGED stores

-----------------------------------------------------------------------------
(* Mutant of Eligible: an assigned task may be scheduled anew. *)
Eligible_AnyWorker(t, w) == workers[w] > 0

(* The callers.  SendWork, the one caller of AssignTaskToWorker, keeps a   *)
(* task with the worker it was assigned to and otherwise takes a worker    *)
(* from GetWorkerIds; a worker never reports the state Pending.            *)
Eligible(t, w) ==
  IF taskWorkerDb[t] = NoWorker THEN workers[w] > 0 ELSE w = taskWorkerDb[t]

Next ==
  \/ \E w \in Worker : RegisterWorker(w)
  \/ \E e \in EventId : UpdateTaskEvent(e)
  \/ \E t \in Task, s \in State \ {Pending} : UpdateTask(t, s)
  \/ \E t \in Task, w \in Worker : Eligible(t, w) /\ AssignPutTask(t, w)
  \/ AssignPutWorker
  \/ AssignPutWorkerFails
  \/ Restart

Spec == Init /\ [][Next]_stateVars

-----------------------------------------------------------------------------
(* The types; no task is ever stored as pending, the state it is submitted *)
(* in.                                                                     *)
TypeOK ==
  /\ taskDb \in [Task -> (State \ {Pending}) \cup {Absent}]
  /\ eventDb \subseteq EventId
  /\ taskWorkerDb \in [Task -> Worker \cup {NoWorker}]
  /\ workerNameDb \subseteq Worker
  /\ workers \in [Worker -> Nat]
  /\ workerTaskMap \in [Worker -> SUBSET Task]
  /\ workerActiveTaskCountMap \in [Worker -> Int]
  /\ mutex \in [task : Task, worker : Worker] \cup {Free}
  /\ up \in BOOLEAN
  /\ drifted \subseteq Worker

(* However the process died, between the two Puts of an assignment         *)
(* included, rehydrate never finds an assignment whose task is missing, so *)
(* the manager always starts again.                                        *)
RestartSucceeds == up /\ Rehydratable

(* The maps in memory are the ones rehydrate would build at this moment: a *)
(* worker is listed once exactly when its name is stored, and lists        *)
(* exactly the tasks that taskWorkerDb gives it, whatever registrations,   *)
(* re-registrations, failed Puts and restarts came before.                 *)
DerivedMatchesStores ==
  /\ \A w \in Worker : workers[w] = IF w \in workerNameDb THEN 1 ELSE 0
  /\ \A t \in Task, w \in Worker : t \in workerTaskMap[w] <=> taskWorkerDb[t] = w

(* workerActiveTaskCountMap is documented as the number of tasks of the    *)
(* worker that are running or scheduled.                                   *)
ActiveCountExact ==
  \A w \in Worker : workerActiveTaskCountMap[w] = Cardinality(ActiveTasks(w))

(* The count is exact until, since the last start, a task of the worker    *)
(* left a terminal state (it was submitted again, or a late report brought *)
(* it back), or the store failed right after the count was lowered.        *)
CountExactUntilDrift ==
  \A w \in Worker \ drifted :
    workerActiveTaskCountMap[w] = Cardinality(ActiveTasks(w))

(* An assignment is never undone and never moved to another worker.        *)
AssignmentSticks ==
  [][\A t \in Task : taskWorkerDb[t] # NoWorker => taskWorkerDb'[t] = taskWorkerDb[t]]_stateVars
=============================================================================
