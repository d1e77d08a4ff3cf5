------------------------- MODULE ManagerStateProofs -------------------------
(***************************************************************************)
(* Proofs about ManagerState, for any finite set of tasks, any workers and *)
(* either value of StoreFaults.  The properties are not inductive: what    *)
(* they leave out is which assignment the mutex protects (MutexOK), that   *)
(* only introduced workers are given tasks (AssignedNamed).                *)
(***************************************************************************)
EXTENDS ManagerState, FiniteSetTheorems, TLAPS

AssignedNamed ==
  \A t \in Task : taskWorkerDb[t] # NoWorker => taskWorkerDb[t] \in workerNameDb

MutexOK ==
  mutex # Free =>
    /\ taskDb[mutex.task] = Scheduled
    /\ taskWorkerDb[mutex.task] \in {NoWorker, mutex.worker}
    /\ mutex.worker \in workerNameDb

IInv == /\ TypeOK
        /\ RestartSucceeds
        /\ DerivedMatchesStores
        /\ AssignedNamed
        /\ MutexOK
        /\ CountExactUntilDrift

(* The next-state relation, one named action per line of Next. *)
Register == \E w \in Worker : RegisterWorker(w)
LogEvent == \E e \in EventId : UpdateTaskEvent(e)
Refused == \E t \in Task, s \in State \ {Pending} :
             Unlocked /\ UpdateTaskRefused(t, s) /\ UNCHANGED stateVars
Stored == \E t \in Task, s \in State \ {Pending} : UpdateTaskStored(t, s)
PutFails == \E t \in Task, s \in State \ {Pending} : UpdateTaskPutFails(t, s)
Assign == \E t \in Task, w \in Worker : Eligible(t, w) /\ AssignPutTask(t, w)

(* The five states and Absent are six different strings. *)
LEMMA StatesDistinct ==
  /\ State = {Pending, Scheduled, Running, Completed, Failed}
  /\ Active = {Scheduled, Running} /\ Terminal = {Completed, Failed}
  /\ Pending # Scheduled /\ Pending # Running /\ Pending # Completed
  /\ Pending # Failed /\ Scheduled # Running /\ Scheduled # Completed
  /\ Scheduled # Failed /\ Running # Completed /\ Running # Failed
  /\ Completed # Failed /\ Absent \notin State
BY DEF State, Active, Terminal, Pending, Scheduled, Running, Completed, Failed, Absent

(* Every step is one of the named actions. *)
LEMMA NextCases ==
  Next => \/ Register \/ LogEvent \/ Refused \/ Stored \/ PutFails \/ Assign
          \/ AssignPutWorker \/ AssignPutWorkerFails \/ Restart
BY DEF Next, Register, LogEvent, Refused, Stored, PutFails, Assign, UpdateTask

(* Lowering a count belongs to a worker: an accepted report that ends a    *)
(* task is about an assigned task.                                         *)
LEMMA EndsAssigned ==
  ASSUME TypeOK, NEW t \in Task, NEW s \in State, ~ UpdateTaskRefused(t, s)
  PROVE  /\ taskDb[t] \in State
         /\ Ends(t, s) => taskWorkerDb[t] \in Worker
BY StatesDistinct DEF TypeOK, UpdateTaskRefused, Ends

-----------------------------------------------------------------------------
(* Initial states. *)
LEMMA InitIInv == Init => IInv
<1> SUFFICES ASSUME Init PROVE IInv
    OBVIOUS
<1>1. TypeOK
      BY DEF Init, TypeOK
<1>2. RestartSucceeds
      BY DEF Init, RestartSucceeds, Rehydratable
<1>3. DerivedMatchesStores
      BY WorkerAssumption DEF Init, DerivedMatchesStores
<1>4. AssignedNamed /\ MutexOK
      BY DEF Init, AssignedNamed, MutexOK
<1>5. CountExactUntilDrift
  <2>1. \A w \in Worker : ActiveTasks(w) = {}
        BY DEF Init, ActiveTasks
  <2> QED BY <2>1, FS_EmptySet DEF Init, CountExactUntilDrift
<1> QED BY <1>1, <1>2, <1>3, <1>4, <1>5 DEF IInv

(* Types are kept by every step. *)
LEMMA NextTypeOK == TypeOK /\ [Next]_stateVars => TypeOK'
<1> SUFFICES ASSUME TypeOK, [Next]_stateVars PROVE TypeOK'
    OBVIOUS
<1> USE DEF TypeOK
<1>1. CASE Register
      BY <1>1 DEF Register, RegisterWorker, derived
<1>2. CASE LogEvent
      BY <1>2 DEF LogEvent, UpdateTaskEvent, derived
<1>3. CASE Refused
      BY <1>3 DEF Refused, stateVars, stores, derived
<1>4. CASE Stored
  <2>1. PICK t \in Task, s \in State \ {Pending} : UpdateTaskStored(t, s)
        BY <1>4 DEF Stored
  <2>2. Ends(t, s) => taskWorkerDb[t] \in Worker
        BY <2>1, EndsAssigned DEF UpdateTaskStored
  <2>3. workerActiveTaskCountMap' \in [Worker -> Int]
        BY <2>1, <2>2 DEF UpdateTaskStored, UpdateTaskCounts
  <2>4. drifted' \subseteq Worker
        BY <2>1 DEF UpdateTaskStored
  <2> QED BY <2>1, <2>3, <2>4 DEF UpdateTaskStored
<1>5. CASE PutFails
  <2>1. PICK t \in Task, s \in State \ {Pending} : UpdateTaskPutFails(t, s)
        BY <1>5 DEF PutFails
  <2>2. Ends(t, s) => taskWorkerDb[t] \in Worker
        BY <2>1, EndsAssigned DEF UpdateTaskPutFails
  <2>3. workerActiveTaskCountMap' \in [Worker -> Int]
        BY <2>1, <2>2 DEF UpdateTaskPutFails, UpdateTaskCounts
  <2>4. drifted' \subseteq Worker
        BY <2>1, <2>2 DEF UpdateTaskPutFails
  <2> QED BY <2>1, <2>3, <2>4 DEF UpdateTaskPutFails, stores
<1>6. CASE Assign
      BY <1>6, StatesDistinct DEF Assign, AssignPutTask, derived
<1>7. CASE AssignPutWorker
      BY <1>7 DEF AssignPutWorker
<1>8. CASE AssignPutWorkerFails
      BY <1>8 DEF AssignPutWorkerFails, stores, derived
<1>9. CASE Restart
  <2>1. ASSUME NEW w \in Worker
        PROVE  Cardinality({t \in {u \in Task : taskWorkerDb[u] = w} :
                              taskDb[t] \in Active}) \in Int
    <3>1. IsFiniteSet({t \in {u \in Task : taskWorkerDb[u] = w} : taskDb[t] \in Active})
          BY TaskAssumption, FS_Subset
    <3> QED BY <3>1, FS_CardinalityType
  <2>2. /\ up' \in BOOLEAN
        /\ workers' \in [Worker -> Nat]
        /\ workerTaskMap' \in [Worker -> SUBSET Task]
        BY <1>9 DEF Restart, Rehydratable
  <2>3. workerActiveTaskCountMap' \in [Worker -> Int]
        BY <1>9, <2>1 DEF Restart
  <2> QED BY <1>9, <2>2, <2>3 DEF Restart, stores
<1>10. CASE UNCHANGED stateVars
       BY <1>10 DEF stateVars, stores, derived
<1> QED BY <1>1, <1>2, <1>3, <1>4, <1>5, <1>6, <1>7, <1>8, <1>9, <1>10, NextCases

-----------------------------------------------------------------------------
(* The manager starts again after every step. *)
LEMMA NextRestartSucceeds == IInv /\ [Next]_stateVars => RestartSucceeds'
<1> SUFFICES ASSUME IInv, [Next]_stateVars PROVE RestartSucceeds'
    OBVIOUS
<1> USE DEF IInv, RestartSucceeds, Rehydratable
<1>1. CASE Register
      BY <1>1 DEF Register, RegisterWorker, derived
<1>2. CASE LogEvent
      BY <1>2 DEF LogEvent, UpdateTaskEvent
<1>3. CASE Refused
      BY <1>3 DEF Refused, stateVars, stores
<1>4. CASE Stored
      BY <1>4, StatesDistinct DEF Stored, UpdateTaskStored, TypeOK
<1>5. CASE PutFails
      BY <1>5 DEF PutFails, UpdateTaskPutFails, stores
<1>6. CASE Assign
      BY <1>6, StatesDistinct DEF Assign, AssignPutTask, TypeOK
<1>7. CASE AssignPutWorker
      BY <1>7, StatesDistinct DEF AssignPutWorker, TypeOK, MutexOK
<1>8. CASE AssignPutWorkerFails
      BY <1>8 DEF AssignPutWorkerFails, stores
<1>9. CASE Restart
      BY <1>9 DEF Restart, stores
<1>10. CASE UNCHANGED stateVars
       BY <1>10 DEF stateVars, stores
<1> QED BY <1>1, <1>2, <1>3, <1>4, <1>5, <1>6, <1>7, <1>8, <1>9, <1>10, NextCases

(* The parts that strengthen the invariant are kept. *)
LEMMA NextStrengthening ==
  IInv /\ [Next]_stateVars => AssignedNamed' /\ MutexOK'
<1> SUFFICES ASSUME IInv, [Next]_stateVars
             PROVE  AssignedNamed' /\ MutexOK'
    OBVIOUS
<1> USE StatesDistinct DEF IInv, AssignedNamed, MutexOK
<1>1. CASE Register
      BY <1>1 DEF Register, RegisterWorker
<1>2. CASE LogEvent
      BY <1>2 DEF LogEvent, UpdateTaskEvent
<1>3. CASE Refused
      BY <1>3 DEF Refused, stateVars, stores
<1>4. CASE Stored
      BY <1>4 DEF Stored, UpdateTaskStored, TypeOK, Unlocked
<1>5. CASE PutFails
      BY <1>5 DEF PutFails, UpdateTaskPutFails, stores
<1>6. CASE Assign
  <2>1. PICK t \in Task, w \in Worker : Eligible(t, w) /\ AssignPutTask(t, w)
        BY <1>6 DEF Assign
  <2>2. w \in workerNameDb /\ taskWorkerDb[t] \in {NoWorker, w}
        BY <2>1, WorkerAssumption DEF Eligible, DerivedMatchesStores, TypeOK
  <2> QED BY <2>1, <2>2 DEF AssignPutTask, TypeOK
<1>7. CASE AssignPutWorker
      BY <1>7 DEF AssignPutWorker, TypeOK
<1>8. CASE AssignPutWorkerFails
      BY <1>8 DEF AssignPutWorkerFails, stores
<1>9. CASE Restart
      BY <1>9 DEF Restart, stores
<1>10. CASE UNCHANGED stateVars
       BY <1>10 DEF stateVars, stores
<1> QED BY <1>1, <1>2, <1>3, <1>4, <1>5, <1>6, <1>7, <1>8, <1>9, <1>10, NextCases

(* The derived maps keep matching the buckets. *)
LEMMA NextDerivedMatchesStores ==
  IInv /\ [Next]_stateVars => DerivedMatchesStores'
<1> SUFFICES ASSUME IInv, [Next]_stateVars PROVE DerivedMatchesStores'
    OBVIOUS
<1> USE DEF IInv, DerivedMatchesStores
<1>1. CASE Register
      BY <1>1 DEF Register, RegisterWorker, TypeOK
<1>2. CASE LogEvent
      BY <1>2 DEF LogEvent, UpdateTaskEvent, derived
<1>3. CASE Refused
      BY <1>3 DEF Refused, stateVars, stores, derived
<1>4. CASE Stored
      BY <1>4 DEF Stored, UpdateTaskStored
<1>5. CASE PutFails
      BY <1>5 DEF PutFails, UpdateTaskPutFails, stores
<1>6. CASE Assign
      BY <1>6 DEF Assign, AssignPutTask, derived
<1>7. CASE AssignPutWorker
      BY <1>7, WorkerAssumption DEF AssignPutWorker, TypeOK, MutexOK
<1>8. CASE AssignPutWorkerFails
      BY <1>8 DEF AssignPutWorkerFails, stores, derived
<1>9. CASE Restart
      BY <1>9, WorkerAssumption DEF Restart, stores, AssignedNamed, TypeOK
<1>10. CASE UNCHANGED stateVars
       BY <1>10 DEF stateVars, stores, derived
<1> QED BY <1>1, <1>2, <1>3, <1>4, <1>5, <1>6, <1>7, <1>8, <1>9, <1>10, NextCases

-----------------------------------------------------------------------------
(* The active tasks of a worker are a finite set. *)
LEMMA ActiveFinite ==
  ASSUME TypeOK, NEW w \in Worker
  PROVE  IsFiniteSet(ActiveTasks(w))
BY TaskAssumption, FS_Subset DEF ActiveTasks, TypeOK

(* A step that changes no state of a task, no list of tasks and no count,  *)
(* and forgets no drift, keeps the counts exact.                           *)
LEMMA CountUntouched ==
  ASSUME CountExactUntilDrift, drifted \subseteq drifted',
         UNCHANGED <<taskDb, workerTaskMap, workerActiveTaskCountMap>>
  PROVE  CountExactUntilDrift'
BY DEF CountExactUntilDrift, ActiveTasks

(* An accepted report keeps the counts exact: it lowers the count by one   *)
(* exactly when one task stops being active.                               *)
LEMMA StoredCount ==
  ASSUME IInv, NEW t \in Task, NEW s \in State \ {Pending}, UpdateTaskStored(t, s)
  PROVE  CountExactUntilDrift'
<1> USE DEF IInv
<1>1. /\ taskDb[t] \in State
      /\ Ends(t, s) => taskWorkerDb[t] \in Worker
      BY EndsAssigned DEF UpdateTaskStored
<1>2. SUFFICES ASSUME NEW w \in Worker, w \notin drifted'
               PROVE  workerActiveTaskCountMap'[w] = Cardinality(ActiveTasks(w)')
      BY DEF CountExactUntilDrift
<1>3. /\ workerActiveTaskCountMap[w] = Cardinality(ActiveTasks(w))
      /\ workerActiveTaskCountMap[w] \in Int
      BY <1>2 DEF CountExactUntilDrift, UpdateTaskStored, TypeOK
<1>4. \A u \in Task : u \in workerTaskMap[w] <=> taskWorkerDb[u] = w
      BY DEF DerivedMatchesStores
<1>5. workerTaskMap' = workerTaskMap /\ taskDb' = [taskDb EXCEPT ![t] = s]
      BY DEF UpdateTaskStored
<1>6. CASE taskWorkerDb[t] # w
  <2>1. ActiveTasks(w)' = ActiveTasks(w)
        BY <1>4, <1>5, <1>6 DEF ActiveTasks, TypeOK
  <2>2. workerActiveTaskCountMap'[w] = workerActiveTaskCountMap[w]
        BY <1>1, <1>6 DEF UpdateTaskStored, UpdateTaskCounts, TypeOK
  <2> QED BY <1>3, <2>1, <2>2
<1>7. CASE taskWorkerDb[t] = w /\ ~ Ends(t, s)
  <2>1. taskDb[t] \in Active => s \in Active
        BY <1>7, <1>1, StatesDistinct DEF Ends
  <2>2. taskDb[t] \notin Active => s = taskDb[t]
        BY <1>2, <1>7, <1>1, WorkerAssumption, StatesDistinct
           DEF Ends, UpdateTaskStored, TypeOK
  <2>3. ActiveTasks(w)' = ActiveTasks(w)
        BY <1>4, <1>5, <1>7, <2>1, <2>2 DEF ActiveTasks, TypeOK
  <2>4. workerActiveTaskCountMap'[w] = workerActiveTaskCountMap[w]
        BY <1>7 DEF UpdateTaskStored, UpdateTaskCounts
  <2> QED BY <1>3, <2>3, <2>4
<1>8. CASE taskWorkerDb[t] = w /\ Ends(t, s)
  <2>1. taskDb[t] \in Active
        BY <1>1, <1>2, <1>8, WorkerAssumption, StatesDistinct
           DEF Ends, UpdateTaskStored, TypeOK
  <2>2. t \in ActiveTasks(w)
        BY <1>4, <1>8, <2>1 DEF ActiveTasks
  <2>3. ActiveTasks(w)' = ActiveTasks(w) \ {t}
        BY <1>4, <1>5, <1>8, <2>1, StatesDistinct DEF ActiveTasks, TypeOK, Ends
  <2>4. Cardinality(ActiveTasks(w) \ {t}) = Cardinality(ActiveTasks(w)) - 1
        BY <2>2, ActiveFinite, FS_RemoveElement
  <2>5. workerActiveTaskCountMap'[w] = workerActiveTaskCountMap[w] - 1
        BY <1>8, <1>1 DEF UpdateTaskStored, UpdateTaskCounts, TypeOK
  <2> QED BY <1>3, <2>3, <2>4, <2>5
<1> QED BY <1>6, <1>7, <1>8

(* So does the first half of an assignment. *)
LEMMA AssignCount ==
  ASSUME IInv, NEW t \in Task, NEW w \in Worker, AssignPutTask(t, w)
  PROVE  CountExactUntilDrift'
<1> USE DEF IInv
<1>1. SUFFICES ASSUME NEW x \in Worker, x \notin drifted'
               PROVE  workerActiveTaskCountMap'[x] = Cardinality(ActiveTasks(x)')
      BY DEF CountExactUntilDrift
<1>2. /\ workerActiveTaskCountMap'[x] = Cardinality(ActiveTasks(x))
      /\ workerTaskMap' = workerTaskMap
      /\ taskDb' = [taskDb EXCEPT ![t] = Scheduled]
      BY <1>1 DEF CountExactUntilDrift, AssignPutTask, derived
<1>3. t \in workerTaskMap[x] => taskDb[t] \in Active
  <2>1. t \in workerTaskMap[x] => taskWorkerDb[t] = x /\ taskDb[t] # Absent
        BY WorkerAssumption DEF DerivedMatchesStores, RestartSucceeds, Rehydratable
  <2> QED BY <1>1, <2>1, WorkerAssumption, StatesDistinct
          DEF AssignPutTask, TypeOK
<1>4. ActiveTasks(x)' = ActiveTasks(x)
      BY <1>2, <1>3, StatesDistinct DEF ActiveTasks, TypeOK
<1> QED BY <1>2, <1>4

(* The second half counts the task once, and only if it is new. *)
LEMMA AssignedCount ==
  ASSUME IInv, AssignPutWorker
  PROVE  CountExactUntilDrift'
<1> USE DEF IInv
<1> DEFINE t == mutex.task
           w == mutex.worker
<1>1. t \in Task /\ w \in Worker /\ taskDb[t] \in Active
      BY StatesDistinct DEF AssignPutWorker, TypeOK, MutexOK
<1>2. SUFFICES ASSUME NEW x \in Worker, x \notin drifted'
               PROVE  workerActiveTaskCountMap'[x] = Cardinality(ActiveTasks(x)')
      BY DEF CountExactUntilDrift
<1>3. /\ workerActiveTaskCountMap[x] = Cardinality(ActiveTasks(x))
      /\ taskDb' = taskDb
      BY <1>2 DEF CountExactUntilDrift, AssignPutWorker
<1>4. CASE x # w \/ t \in workerTaskMap[w]
  <2>1. workerActiveTaskCountMap'[x] = workerActiveTaskCountMap[x]
        BY <1>1, <1>4 DEF AssignPutWorker, TypeOK
  <2>2. workerTaskMap'[x] = workerTaskMap[x]
        BY <1>1, <1>4 DEF AssignPutWorker, TypeOK
  <2>3. ActiveTasks(x)' = ActiveTasks(x)
        BY <1>3, <2>2 DEF ActiveTasks
  <2> QED BY <1>3, <2>1, <2>3
<1>5. CASE x = w /\ t \notin workerTaskMap[w]
  <2>1. /\ workerActiveTaskCountMap'[x] = workerActiveTaskCountMap[x] + 1
        /\ workerTaskMap'[x] = workerTaskMap[x] \cup {t}
        BY <1>1, <1>5 DEF AssignPutWorker, TypeOK
  <2>2. t \notin ActiveTasks(x) /\ ActiveTasks(x)' = ActiveTasks(x) \cup {t}
        BY <1>1, <1>3, <1>5, <2>1 DEF ActiveTasks
  <2>3. Cardinality(ActiveTasks(x) \cup {t}) = Cardinality(ActiveTasks(x)) + 1
        BY <2>2, ActiveFinite, FS_AddElement
  <2> QED BY <1>3, <2>1, <2>2, <2>3
<1> QED BY <1>4, <1>5

(* The counts are exact after every step, but for the drifted workers. *)
LEMMA NextCount == IInv /\ [Next]_stateVars => CountExactUntilDrift'
<1> SUFFICES ASSUME IInv, [Next]_stateVars PROVE CountExactUntilDrift'
    OBVIOUS
<1> USE DEF IInv
<1>1. CASE Register
      BY <1>1, CountUntouched DEF Register, RegisterWorker
<1>2. CASE LogEvent
      BY <1>2, CountUntouched DEF LogEvent, UpdateTaskEvent, derived
<1>3. CASE Refused
      BY <1>3, CountUntouched DEF Refused, stateVars, stores, derived
<1>4. CASE Stored
      BY <1>4, StoredCount DEF Stored
<1>5. CASE PutFails
  <2>1. PICK t \in Task, s \in State \ {Pending} : UpdateTaskPutFails(t, s)
        BY <1>5 DEF PutFails
  <2>2. ASSUME NEW w \in Worker, w \notin drifted'
        PROVE  workerActiveTaskCountMap'[w] = Cardinality(ActiveTasks(w)')
    <3>1. w \notin drifted /\ (Ends(t, s) => taskWorkerDb[t] # w)
          BY <2>1, <2>2 DEF UpdateTaskPutFails
    <3>2. Ends(t, s) => taskWorkerDb[t] \in Worker
          BY <2>1, EndsAssigned DEF UpdateTaskPutFails
    <3>3. workerActiveTaskCountMap'[w] = workerActiveTaskCountMap[w]
          BY <2>1, <3>1, <3>2 DEF UpdateTaskPutFails, UpdateTaskCounts, TypeOK
    <3>4. ActiveTasks(w)' = ActiveTasks(w)
          BY <2>1 DEF UpdateTaskPutFails, ActiveTasks, stores
    <3> QED BY <3>1, <3>3, <3>4 DEF CountExactUntilDrift
  <2> QED BY <2>2 DEF CountExactUntilDrift
<1>6. CASE Assign
      BY <1>6, AssignCount DEF Assign
<1>7. CASE AssignPutWorker
      BY <1>7, AssignedCount
<1>8. CASE AssignPutWorkerFails
      BY <1>8, CountUntouched DEF AssignPutWorkerFails, stores, derived
<1>9. CASE Restart
      BY <1>9 DEF Restart, stores, CountExactUntilDrift, ActiveTasks
<1>10. CASE UNCHANGED stateVars
       BY <1>10, CountUntouched DEF stateVars, stores, derived
<1> QED BY <1>1, <1>2, <1>3, <1>4, <1>5, <1>6, <1>7, <1>8, <1>9, <1>10, NextCases

-----------------------------------------------------------------------------
(* Every step keeps the invariant. *)
LEMMA NextIInv == IInv /\ [Next]_stateVars => IInv'
BY NextTypeOK, NextRestartSucceeds, NextStrengthening, NextDerivedMatchesStores,
   NextCount DEF IInv

(* What a step leaves alone: a task stays stored, a worker stays listed,   *)
(* the worker of a task changes only at the end of an assignment, and then *)
(* only if there was none.                                                 *)
LEMMA NextKeeps ==
  ASSUME IInv, [Next]_stateVars
  PROVE  /\ \A t \in Task : taskDb[t] # Absent => taskDb'[t] # Absent
         /\ \A w \in Worker : workers[w] > 0 => workers'[w] > 0
         /\ \A t \in Task : taskWorkerDb[t] # NoWorker => taskWorkerDb'[t] = taskWorkerDb[t]
         /\ taskWorkerDb' = taskWorkerDb \/ AssignPutWorker
<1> USE DEF IInv
<1>1. taskWorkerDb' = taskWorkerDb \/ AssignPutWorker
      BY NextCases
         DEF Register, RegisterWorker, LogEvent, UpdateTaskEvent, Refused, Stored,
             UpdateTaskStored, PutFails, UpdateTaskPutFails, Assign,
             AssignPutTask, AssignPutWorkerFails, Restart, stateVars, stores
<1>2. ASSUME NEW t \in Task, taskWorkerDb[t] # NoWorker
      PROVE  taskWorkerDb'[t] = taskWorkerDb[t]
  <2>1. CASE AssignPutWorker
        BY <1>2, <2>1 DEF AssignPutWorker, MutexOK, TypeOK
  <2> QED BY <1>1, <2>1
<1>3. taskDb' = taskDb \/ Stored \/ Assign
      BY NextCases
         DEF Register, RegisterWorker, LogEvent, UpdateTaskEvent, Refused, PutFails,
             UpdateTaskPutFails, AssignPutWorker, AssignPutWorkerFails, Restart,
             stateVars, stores
<1>4. ASSUME NEW t \in Task, taskDb[t] # Absent PROVE taskDb'[t] # Absent
      BY <1>3, <1>4, StatesDistinct
         DEF Stored, UpdateTaskStored, Assign, AssignPutTask, TypeOK
<1>5. workerNameDb \subseteq workerNameDb'
      BY NextCases
         DEF Register, RegisterWorker, LogEvent, UpdateTaskEvent, Refused, Stored,
             UpdateTaskStored, PutFails, UpdateTaskPutFails, Assign, AssignPutTask,
             AssignPutWorker, AssignPutWorkerFails, Restart, stateVars, stores
<1>6. ASSUME NEW w \in Worker, workers[w] > 0 PROVE workers'[w] > 0
      BY <1>5, <1>6, NextDerivedMatchesStores DEF DerivedMatchesStores
<1> QED BY <1>1, <1>2, <1>4, <1>6

(* The invariant is inductive. *)
THEOREM Inductive == Spec => []IInv
BY InitIInv, NextIInv, PTL DEF Spec

(* Type correctness: whatever the callers of MappingStorage do, its four   *)
(* buckets and three maps keep their types.                                *)
THEOREM TypeCorrect == Spec => []TypeOK
<1>1. IInv => TypeOK
      BY DEF IInv
<1> QED BY Inductive, <1>1, PTL

(* rehydrate never refuses to start the manager, wherever the process was  *)
(* killed: AssignTaskToWorker stores the task before the assignment.       *)
THEOREM RestartAlwaysSucceeds == Spec => []RestartSucceeds
<1>1. IInv => RestartSucceeds
      BY DEF IInv
<1> QED BY Inductive, <1>1, PTL

(* The lists of workers and of their tasks that the operations maintain    *)
(* are the ones rehydrate would derive from the buckets.                   *)
THEOREM DerivedAlwaysMatchStores == Spec => []DerivedMatchesStores
<1>1. IInv => DerivedMatchesStores
      BY DEF IInv
<1> QED BY Inductive, <1>1, PTL

(* The count that the scheduler reads is the number of active tasks of the *)
(* worker until one of its tasks leaves a terminal state or a Put fails.   *)
THEOREM CountsExactUntilDrift == Spec => []CountExactUntilDrift
<1>1. IInv => CountExactUntilDrift
      BY DEF IInv
<1> QED BY Inductive, <1>1, PTL

(* The worker a task is assigned to never changes. *)
THEOREM AssignmentsStick == Spec => AssignmentSticks
<1> DEFINE A == \A t \in Task :
                  taskWorkerDb[t] # NoWorker => taskWorkerDb'[t] = taskWorkerDb[t]
<1>1. ASSUME IInv, [Next]_stateVars PROVE A
      BY <1>1, NextKeeps
<1>2. []IInv /\ [][Next]_stateVars => [][A]_stateVars
  <2>1. IInv /\ [Next]_stateVars => [A]_stateVars
        BY <1>1
  <2> QED BY <2>1, PTL
<1> QED BY Inductive, <1>2, PTL DEF Spec, AssignmentSticks
=============================================================================
