--------------------------- MODULE ManagerProofs ----------------------------
(***************************************************************************)
(* Proofs about Manager, for any finite set of tasks, any workers, any     *)
(* bounds and either value of StoreFaults.  What the goroutines do to      *)
(* MappingStorage are steps of ManagerState, so what is proved of that     *)
(* module holds here (module MSP); what they do to workers are steps of    *)
(* WorkerContract.  The rest is about what a goroutine has in hand between *)
(* two steps: the worker that SendWork found (SendOK) and the reports that *)
(* SyncTasks has fetched and not yet stored (ReportsTold).                 *)
(***************************************************************************)
EXTENDS Manager, TLAPS

MSP == INSTANCE ManagerStateProofs

SendPc == {"idle", "log", "lookup", "determine", "select", "assign", "assigning",
           "post", "posting", "delete", "deleting", "failed"}

(* What TypeOK leaves out: the records themselves, and that no worker      *)
(* reports a task as pending.                                              *)
RecordsOK ==
  /\ send \in [pc : SendPc, ev : Event \cup {NoEvent}, worker : Worker \cup {NoWorker}]
  /\ sync \in [todo : SUBSET Worker, reports : SUBSET [task : Task, state : State \ {Pending}]]
  /\ reported \in [Worker \X Task -> (State \ {Pending}) \cup {Absent}]

(* What SendWork found out stays true until it is used: a task without a   *)
(* worker still has none, the worker to assign is still eligible, the      *)
(* worker to talk to still has the task, and the answer that SendWork      *)
(* waits for is to a request that was sent.                                *)
SendOK ==
  /\ send.pc = "select" => taskWorkerDb[send.ev.task] = NoWorker
  /\ send.pc = "assign" => S!Eligible(send.ev.task, send.worker)
  /\ send.pc \in {"post", "posting", "delete", "deleting"}
       => taskWorkerDb[send.ev.task] = send.worker
  /\ send.pc = "posting" => Key \in posted

(* A worker only has tasks that were sent to it, and completes only tasks  *)
(* that it was asked to stop.                                              *)
WorkersOK ==
  \A k \in Worker \X Task :
    /\ reported[k] # Absent => k \in posted
    /\ reported[k] = Completed => k \in asked

(* The worker of t has got at least as far with t as a report s says. *)
Told(t, s) ==
  LET k == <<taskWorkerDb[t], t>>
  IN /\ k \in posted
     /\ s = Running => reported[k] \in {Running} \cup Terminal
     /\ s = Completed => k \in asked /\ reported[k] \in Terminal

ReportsTold == \A r \in sync.reports : Told(r.task, r.state)

OwnInv == /\ RecordsOK
          /\ SendOK
          /\ WorkersOK
          /\ SentIsAssigned
          /\ ReportsTold
          /\ NeverAhead

IInv == TypeOK /\ MSP!IInv /\ OwnInv

-----------------------------------------------------------------------------
(* ManagerState is reached as S from Manager and as MSP with its proofs:   *)
(* the two instances say the same.                                         *)

LEMMA SameStates ==
  /\ S!State = State /\ MSP!State = State /\ Contract!Terminal = Terminal
  /\ S!Terminal = Terminal /\ MSP!Terminal = Terminal
  /\ S!Active = Active /\ MSP!Active = Active
  /\ S!Pending = Pending /\ MSP!Pending = Pending
  /\ S!Scheduled = Scheduled /\ MSP!Scheduled = Scheduled
  /\ S!Absent = Absent /\ MSP!Absent = Absent
  /\ Contract!Scheduled = Scheduled /\ Contract!Running = Running
  /\ Contract!Completed = Completed /\ Contract!Absent = Absent
BY DEF State, Terminal, Active, Pending, Scheduled, Running, Completed, Failed, Absent,
       S!State, S!Terminal, S!Active, S!Pending, S!Scheduled, S!Running, S!Completed,
       S!Failed, S!Absent, MSP!State, MSP!Terminal, MSP!Active, MSP!Pending,
       MSP!Scheduled, MSP!Running, MSP!Completed, MSP!Failed, MSP!Absent,
       Contract!Terminal, Contract!Scheduled, Contract!Running, Contract!Completed,
       Contract!Failed, Contract!Absent

(* The states of a task are different strings. *)
LEMMA StatesDistinct ==
  /\ State = {Pending, Scheduled, Running, Completed, Failed}
  /\ Terminal = {Completed, Failed}
  /\ Pending # Scheduled /\ Pending # Running /\ Pending # Completed
  /\ Pending # Failed /\ Scheduled # Running /\ Scheduled # Completed
  /\ Scheduled # Failed /\ Running # Completed /\ Running # Failed
  /\ Completed # Failed /\ Absent \notin State
BY DEF State, Terminal, Pending, Scheduled, Running, Completed, Failed, Absent

LEMMA SameUpdateTask == \A t, s : S!UpdateTask(t, s) <=> MSP!UpdateTask(t, s)
BY SameStates
   DEF S!UpdateTask, S!UpdateTaskStored, S!UpdateTaskPutFails, S!UpdateTaskRefused,
       S!UpdateTaskCounts, S!Ends, S!Unlocked, S!stateVars, S!stores, S!derived,
       MSP!UpdateTask, MSP!UpdateTaskStored, MSP!UpdateTaskPutFails,
       MSP!UpdateTaskRefused, MSP!UpdateTaskCounts, MSP!Ends, MSP!Unlocked,
       MSP!stateVars, MSP!stores, MSP!derived

LEMMA SameNext == [S!Next]_S!stateVars <=> [MSP!Next]_MSP!stateVars
<1> USE SameStates DEF S!Unlocked, S!stores, S!derived, S!stateVars,
                       MSP!Unlocked, MSP!stores, MSP!derived, MSP!stateVars
<1>1. \A w \in Worker : S!RegisterWorker(w) <=> MSP!RegisterWorker(w)
      BY DEF S!RegisterWorker, MSP!RegisterWorker
<1>2. \A e \in EventId : S!UpdateTaskEvent(e) <=> MSP!UpdateTaskEvent(e)
      BY DEF S!UpdateTaskEvent, MSP!UpdateTaskEvent
<1>3. \A t, w : S!Eligible(t, w) /\ S!AssignPutTask(t, w)
                <=> MSP!Eligible(t, w) /\ MSP!AssignPutTask(t, w)
      BY DEF S!Eligible, S!AssignPutTask, MSP!Eligible, MSP!AssignPutTask
<1>4. S!AssignPutWorker <=> MSP!AssignPutWorker
      BY DEF S!AssignPutWorker, MSP!AssignPutWorker
<1>5. S!AssignPutWorkerFails <=> MSP!AssignPutWorkerFails
      BY DEF S!AssignPutWorkerFails, MSP!AssignPutWorkerFails
<1>6. S!Restart <=> MSP!Restart
      BY DEF S!Restart, S!Rehydratable, S!Cardinality,
             MSP!Restart, MSP!Rehydratable, MSP!Cardinality
<1> QED BY <1>1, <1>2, <1>3, <1>4, <1>5, <1>6, SameUpdateTask DEF S!Next, MSP!Next

LEMMA SameInit == S!Init <=> MSP!Init
BY SameStates DEF S!Init, MSP!Init

LEMMA SameTypes == S!TypeOK <=> MSP!TypeOK
BY SameStates DEF S!TypeOK, MSP!TypeOK

(* What is assumed of the constants is what ManagerState assumes. *)
LEMMA StorageAssumptions ==
  /\ MSP!TaskAssumption /\ MSP!WorkerAssumption
  /\ MSP!FreeAssumption /\ MSP!StoreFaultsAssumption
BY TaskAssumption, WorkerAssumption, FreeAssumption, StoreFaultsAssumption
   DEF IsFiniteSet, MSP!IsFiniteSet

(* So a step of MappingStorage keeps the invariant of ManagerState. *)
LEMMA StorageInv ==
  ASSUME MSP!IInv, [S!Next]_S!stateVars
  PROVE  MSP!IInv' /\ S!TypeOK'
<1>1. MSP!IInv'
      BY SameNext, StorageAssumptions, MSP!NextIInv
<1> QED BY <1>1, SameStates DEF MSP!IInv, MSP!TypeOK, S!TypeOK

(* And it leaves alone what NextKeeps says. *)
LEMMA StorageKeeps ==
  ASSUME MSP!IInv, [S!Next]_S!stateVars
  PROVE  /\ \A t \in Task : taskDb[t] # Absent => taskDb'[t] # Absent
         /\ \A w \in Worker : workers[w] > 0 => workers'[w] > 0
         /\ \A t \in Task : taskWorkerDb[t] # NoWorker => taskWorkerDb'[t] = taskWorkerDb[t]
         /\ mutex = Free => taskWorkerDb' = taskWorkerDb
BY SameNext, SameStates, StorageAssumptions, MSP!NextKeeps DEF MSP!AssignPutWorker

-----------------------------------------------------------------------------
(* One step, seen from MappingStorage and from the workers. *)

(* The steps of the goroutines that use MappingStorage, and what each      *)
(* calls.                                                                  *)
StorageCall ==
  \/ \E w \in Worker : RegisterWorker(w)
  \/ LogEvent \/ AssignTask \/ AssignWorker \/ MarkFailed
  \/ SyncUpdates
  \/ Restart

LEMMA StorageCases == [Next]_managerVars => StorageCall \/ UNCHANGED storage
BY DEF Next, StorageCall, StartTaskHandler, StopTaskHandler, AddTaskEvent, SendWork,
       Dequeue, LookUpWorker, DetermineWorker, SelectWorker, PostTask, PostAnswer,
       DeleteTask, DeleteAnswer, SyncStart, FetchTasks, FetchTasksFails, AddClient,
       WorkerStep, managerVars

(* SendWork has an event in hand unless it is idle. *)
LEMMA InHand ==
  ASSUME IInv, send.pc # "idle"
  PROVE  /\ send.ev \in Event /\ send.ev.id \in EventId /\ send.ev.task \in Task
         /\ send.ev.target \in {Scheduled, Completed}
BY DEF IInv, TypeOK, Event

(* Every step of the manager is one of MappingStorage, or none. *)
LEMMA NextStorage ==
  ASSUME IInv, [Next]_managerVars
  PROVE  [S!Next]_S!stateVars
<1> USE SameStates
<1>1. CASE \E w \in Worker : RegisterWorker(w)
      BY <1>1 DEF RegisterWorker, S!Next
<1>2. CASE LogEvent
      BY <1>2, InHand DEF LogEvent, S!Next, storage, S!stateVars, S!stores, S!derived
<1>3. CASE AssignTask
  <2>1. /\ S!Eligible(send.ev.task, send.worker)
        /\ send.ev.task \in Task /\ send.worker \in Worker
        BY <1>3, InHand DEF AssignTask, IInv, OwnInv, SendOK, TypeOK
  <2> QED BY <1>3, <2>1 DEF AssignTask, S!Next, storage, S!stateVars, S!stores, S!derived
<1>4. CASE AssignWorker
      BY <1>4 DEF AssignWorker, S!Next
<1>5. CASE MarkFailed
      BY <1>5, InHand, StatesDistinct DEF MarkFailed, S!Next
<1>6. CASE SyncUpdates
  <2>1. PICK r \in sync.reports : SyncUpdate(r)
        BY <1>6 DEF SyncUpdates
  <2>2. r.task \in Task /\ r.state \in State \ {Pending}
        BY <2>1 DEF IInv, OwnInv, RecordsOK
  <2> QED BY <2>1, <2>2 DEF SyncUpdate, S!Next
<1>7. CASE Restart
      BY <1>7 DEF Restart, S!Next
<1>8. CASE UNCHANGED storage
      BY <1>8 DEF storage, S!stateVars, S!stores, S!derived
<1> QED BY <1>1, <1>2, <1>3, <1>4, <1>5, <1>6, <1>7, <1>8, StorageCases DEF StorageCall

(* Every step of the manager is one of the workers' contract, or none:     *)
(* SendWork sends a start, or a stop, or a worker gets on.                 *)
LEMMA RemoteCases ==
  [Next]_managerVars =>
    \/ PostTask /\ send.worker \in clients /\ Contract!Post(Key)
    \/ DeleteTask /\ send.worker \in clients /\ Contract!Ask(Key)
    \/ \E k \in Worker \X Task : Contract!Work(k)
    \/ UNCHANGED remote
BY DEF Next, StartTaskHandler, StopTaskHandler, AddTaskEvent, SendWork, Dequeue,
       LogEvent, LookUpWorker, DetermineWorker, SelectWorker, AssignTask, AssignWorker,
       PostTask, PostAnswer, DeleteTask, DeleteAnswer, MarkFailed, SyncStart,
       FetchTasks, FetchTasksFails, SyncUpdates, SyncUpdate, RegisterWorker, AddClient,
       WorkerStep, Restart, managerVars

-----------------------------------------------------------------------------
(* What the workers do. *)

(* Requests that were sent remain sent. *)
LEMMA SentGrows ==
  [Next]_managerVars => posted \subseteq posted' /\ asked \subseteq asked'
BY RemoteCases
   DEF Contract!Post, Contract!Ask, Contract!Work, Contract!Advance, Contract!Revise,
       Contract!Set, remote

(* A start is sent to the worker that the task is assigned to. *)
LEMMA NextPosted ==
  ASSUME IInv, [Next]_managerVars, NEW k \in posted', k \notin posted
  PROVE  k[2] \in Task /\ k[1] \in Worker /\ taskWorkerDb[k[2]] = k[1]
<1>1. PostTask /\ posted' = posted \cup {Key}
      BY RemoteCases
         DEF Contract!Post, Contract!Ask, Contract!Work, Contract!Advance,
             Contract!Revise, Contract!Set, remote
<1>2. send.pc = "post" /\ k = <<send.worker, send.ev.task>>
      BY <1>1 DEF PostTask, Key
<1> QED BY <1>2, InHand DEF IInv, TypeOK, OwnInv, SendOK

(* A report changes only of a task that was sent; it says completed only   *)
(* of one that was asked for; and once it says that the task ran, it says  *)
(* so, or that it ended, for ever.                                         *)
LEMMA NextReported ==
  ASSUME IInv, [Next]_managerVars, NEW k \in Worker \X Task, reported'[k] # reported[k]
  PROVE  /\ k \in posted
         /\ reported'[k] \in State \ {Pending}
         /\ reported'[k] = Completed => k \in asked
         /\ reported[k] \in {Running} \cup Terminal => reported'[k] \in Terminal
<1> USE SameStates, StatesDistinct DEF IInv, OwnInv, RecordsOK
<1>1. PICK j \in Worker \X Task : Contract!Work(j)
      BY RemoteCases DEF Contract!Post, Contract!Ask, remote
<1>2. CASE Contract!Advance(j)
  <2>1. PICK s \in Contract!Follows(reported[j]) : Contract!Set(j, s)
        BY <1>2 DEF Contract!Advance
  <2>2. j = k /\ reported'[k] = s
        BY <2>1 DEF Contract!Set
  <2>3. /\ s \in State \ {Pending}
        /\ reported[j] \in {Running} \cup Terminal => s \in Terminal
        BY <2>1, <2>2 DEF Contract!Follows
  <2> QED BY <1>2, <2>1, <2>2, <2>3 DEF Contract!Advance, Contract!Set
<1>3. CASE Contract!Revise(j)
  <2>1. PICK s \in Terminal : Contract!Set(j, s)
        BY <1>3 DEF Contract!Revise
  <2>2. j = k /\ reported'[k] = s
        BY <2>1 DEF Contract!Set
  <2>3. k \in posted
        BY <1>3, <2>2 DEF Contract!Revise, WorkersOK
  <2> QED BY <2>1, <2>2, <2>3 DEF Contract!Set
<1> QED BY <1>1, <1>2, <1>3 DEF Contract!Work

(* The workers' part of the invariant is kept. *)
LEMMA NextWorkersOK == IInv /\ [Next]_managerVars => WorkersOK'
<1> SUFFICES ASSUME IInv, [Next]_managerVars, NEW k \in Worker \X Task
             PROVE  /\ reported'[k] # Absent => k \in posted'
                    /\ reported'[k] = Completed => k \in asked'
    BY DEF WorkersOK
<1> QED BY NextReported, SentGrows DEF IInv, OwnInv, WorkersOK

(* Whatever was sent is still stored as assigned to the worker it was sent *)
(* to.                                                                     *)
LEMMA NextSentIsAssigned == IInv /\ [Next]_managerVars => SentIsAssigned'
<1> SUFFICES ASSUME IInv, [Next]_managerVars, NEW k \in posted'
             PROVE  taskDb'[k[2]] # Absent /\ taskWorkerDb'[k[2]] = k[1]
    BY DEF SentIsAssigned
<1>1. taskWorkerDb[k[2]] = k[1] /\ k[1] \in Worker /\ k[2] \in Task
  <2>1. CASE k \in posted
        BY <2>1 DEF IInv, OwnInv, TypeOK, SentIsAssigned
  <2>2. CASE k \notin posted
        BY <2>2, NextPosted
  <2> QED BY <2>1, <2>2
<1>2. taskWorkerDb[k[2]] # NoWorker
      BY <1>1, WorkerAssumption
<1>3. taskDb[k[2]] # Absent
      BY <1>1, <1>2, SameStates DEF IInv, MSP!IInv, MSP!RestartSucceeds, MSP!Rehydratable
<1> QED BY <1>1, <1>2, <1>3, NextStorage, StorageKeeps DEF IInv

(* What a worker was told to have done, it has done for ever. *)
LEMMA StaysTold ==
  ASSUME IInv, [Next]_managerVars, NEW t \in Task, NEW s \in State, Told(t, s)
  PROVE  Told(t, s)'
<1> DEFINE k == <<taskWorkerDb[t], t>>
<1>1. k \in posted /\ k \in Worker \X Task
      BY DEF Told, IInv, TypeOK
<1>2. taskWorkerDb'[t] = taskWorkerDb[t]
      BY <1>1, WorkerAssumption, NextStorage, StorageKeeps DEF IInv
<1>3. k \in posted' /\ (k \in asked => k \in asked')
      BY <1>1, SentGrows
<1>4. reported[k] \in {Running} \cup Terminal =>
        \/ reported'[k] = reported[k]
        \/ reported'[k] \in Terminal
      BY <1>1, NextReported
<1> QED BY <1>1, <1>2, <1>3, <1>4, StatesDistinct DEF Told
-----------------------------------------------------------------------------
(* What the manager makes of it. *)

(* A report that is fetched says what the assigned worker says. *)
LEMMA FetchedTold ==
  ASSUME IInv, NEW w \in Worker, NEW r \in Reports(w)
  PROVE  r.task \in Task /\ r.state \in State \ {Pending} /\ Told(r.task, r.state)
<1> USE DEF IInv, OwnInv
<1>1. PICK t \in Task : reported[<<w, t>>] # Absent /\ r = [task |-> t, state |-> reported[<<w, t>>]]
      BY DEF Reports
<1>2. <<w, t>> \in posted /\ (reported[<<w, t>>] = Completed => <<w, t>> \in asked)
      BY <1>1 DEF WorkersOK
<1>3. taskWorkerDb[t] = w
      BY <1>2 DEF SentIsAssigned
<1> QED BY <1>1, <1>2, <1>3, StatesDistinct DEF Told, RecordsOK

LEMMA NextReportsTold == IInv /\ [Next]_managerVars => ReportsTold'
<1> SUFFICES ASSUME IInv, [Next]_managerVars, NEW r \in sync'.reports
             PROVE  Told(r.task, r.state)'
    BY DEF ReportsTold
<1>1. \/ r \in sync.reports
      \/ \E w \in Worker : r \in Reports(w)
      BY DEF Next, StartTaskHandler, StopTaskHandler, AddTaskEvent, SendWork, Dequeue,
             LogEvent, LookUpWorker, DetermineWorker, SelectWorker, AssignTask,
             AssignWorker, PostTask, PostAnswer, DeleteTask, DeleteAnswer, MarkFailed,
             SyncStart, FetchTasks, FetchTasksFails, SyncUpdates, SyncUpdate,
             RegisterWorker, AddClient, WorkerStep, Restart, managerVars, IdleSync,
             IInv, OwnInv, RecordsOK
<1>2. r.task \in Task /\ r.state \in State /\ Told(r.task, r.state)
      BY <1>1, FetchedTold DEF IInv, OwnInv, RecordsOK, ReportsTold
<1> QED BY <1>2, StaysTold

(* What UpdateTask does to the state of a task. *)
LEMMA UpdateTaskStores ==
  ASSUME S!TypeOK, NEW t \in Task, NEW s \in State, S!UpdateTask(t, s), NEW u \in Task
  PROVE  taskDb'[u] = taskDb[u] \/ (u = t /\ taskDb'[u] = s)
BY DEF S!TypeOK, S!UpdateTask, S!UpdateTaskStored, S!UpdateTaskPutFails, S!stateVars,
       S!stores

(* The state of a task changes only to scheduled, to failed, or to what a  *)
(* report says.                                                            *)
LEMMA NextTaskDb ==
  ASSUME IInv, [Next]_managerVars, NEW t \in Task, taskDb'[t] # taskDb[t]
  PROVE  \/ taskDb'[t] \in {Scheduled, Failed}
         \/ \E r \in sync.reports : r.task = t /\ r.state = taskDb'[t]
<1> USE SameStates, StatesDistinct DEF IInv, TypeOK
<1>1. CASE AssignTask
      BY <1>1, InHand DEF AssignTask, S!AssignPutTask, S!TypeOK, storage
<1>2. CASE MarkFailed
      BY <1>2, InHand, UpdateTaskStores DEF MarkFailed
<1>3. CASE SyncUpdates
  <2>1. PICK r \in sync.reports : S!UpdateTask(r.task, r.state)
        BY <1>3 DEF SyncUpdates, SyncUpdate
  <2> QED BY <2>1, UpdateTaskStores DEF OwnInv, RecordsOK
<1>4. taskDb' = taskDb \/ AssignTask \/ MarkFailed \/ SyncUpdates
      BY StorageCases
         DEF StorageCall, RegisterWorker, S!RegisterWorker, LogEvent, S!UpdateTaskEvent,
             AssignWorker, S!AssignPutWorker, S!AssignPutWorkerFails, Restart,
             S!Restart, storage, S!stores
<1> QED BY <1>1, <1>2, <1>3, <1>4

LEMMA NextNeverAhead == IInv /\ [Next]_managerVars => NeverAhead'
<1> SUFFICES ASSUME IInv, [Next]_managerVars, NEW t \in Task,
                    NEW s \in {Running, Completed}, taskDb'[t] = s
             PROVE  Told(t, s)'
    BY DEF NeverAhead, Told
<1>1. Told(t, s)
  <2>1. CASE taskDb[t] = s
        BY <2>1 DEF IInv, OwnInv, NeverAhead, Told
  <2>2. CASE taskDb[t] # s
        BY <2>2, NextTaskDb, StatesDistinct DEF IInv, OwnInv, ReportsTold
  <2> QED BY <2>1, <2>2
<1> QED BY <1>1, StaysTold, StatesDistinct
-----------------------------------------------------------------------------
(* What SendWork has in hand. *)

SendRecord == [pc : SendPc, ev : Event \cup {NoEvent}, worker : Worker \cup {NoWorker}]

LEMMA GotoKeeps ==
  ASSUME send \in SendRecord, NEW pc \in SendPc, Goto(pc)
  PROVE  /\ send' \in SendRecord
         /\ send'.pc = pc /\ send'.ev = send.ev /\ send'.worker = send.worker
BY DEF Goto, SendRecord

LEMMA GotoWithKeeps ==
  ASSUME send \in SendRecord, NEW pc \in SendPc, NEW w \in Worker, GotoWith(pc, w)
  PROVE  /\ send' \in SendRecord
         /\ send'.pc = pc /\ send'.ev = send.ev /\ send'.worker = w
BY DEF GotoWith, SendRecord

LEMMA IdleSendTyped ==
  /\ IdleSend \in SendRecord
  /\ IdleSend.pc = "idle" /\ IdleSend.ev = NoEvent
BY DEF IdleSend, SendRecord, SendPc

(* An event is not NoEvent. *)
LEMMA EventIsEvent == NoEvent \notin Event
<1>1. Event \subseteq [id : EventId, task : Task, target : State]
      BY StatesDistinct DEF Event
<1> QED BY <1>1, NoEventAssumption

(* The steps of SendWork that do not use MappingStorage, or only read it.  *)
(* What the other goroutines do leaves SendWork where it is, and the mutex *)
(* as it is.                                                               *)
LEMMA SendCases ==
  ASSUME IInv, [Next]_managerVars
  PROVE  SendWork \/ Restart \/ (send' = send /\ mutex' = mutex)
BY DEF Next, StartTaskHandler, StopTaskHandler, AddTaskEvent, SyncStart, FetchTasks,
       FetchTasksFails, SyncUpdates, SyncUpdate, RegisterWorker, AddClient, WorkerStep,
       managerVars, storage, S!RegisterWorker, S!UpdateTask, S!UpdateTaskStored,
       S!UpdateTaskPutFails, S!stateVars

(* Where SendWork is says what it has and whether it holds the mutex. *)
SendTyped ==
  /\ send \in SendRecord
  /\ send.pc = "idle" <=> send.ev = NoEvent
  /\ send.pc \in {"assign", "assigning", "post", "posting", "delete", "deleting"}
       => send.worker \in Worker
  /\ mutex = IF send.pc = "assigning"
             THEN [task |-> send.ev.task, worker |-> send.worker] ELSE Free

LEMMA NextSendTyped == IInv /\ [Next]_managerVars => SendTyped'
<1> SUFFICES ASSUME IInv, [Next]_managerVars PROVE SendTyped'
    OBVIOUS
<1>1. SendTyped
      BY DEF SendTyped, SendRecord, IInv, TypeOK, OwnInv, RecordsOK
<1>2. /\ pending \in Seq(Event)
      /\ taskWorkerDb \in [Task -> Worker \cup {NoWorker}]
      /\ clients \subseteq Worker
      BY DEF IInv, TypeOK, S!TypeOK
<1> USE IdleSendTyped DEF SendTyped, SendPc
<1>3. CASE Dequeue
  <2>1. Head(pending) \in Event /\ send' = [pc |-> "log", ev |-> Head(pending), worker |-> NoWorker]
        BY <1>2, <1>3 DEF Dequeue
  <2>2. send' \in SendRecord /\ send'.pc = "log" /\ send'.ev \in Event
        BY <2>1 DEF SendRecord
  <2> QED BY <1>1, <1>3, <2>2, EventIsEvent DEF Dequeue, storage
<1>4. CASE LogEvent
  <2>1. mutex' = mutex
        BY <1>4 DEF LogEvent, S!UpdateTaskEvent, storage
  <2> QED BY <1>1, <1>4, <2>1, GotoKeeps DEF LogEvent
<1>5. CASE LookUpWorker
  <2> DEFINE w == taskWorkerDb[send.ev.task]
  <2>1. w \in Worker \cup {NoWorker}
        BY <1>2, <1>5, InHand DEF LookUpWorker
  <2>2. mutex' = mutex
        BY <1>5 DEF LookUpWorker, storage
  <2>3. IF w = NoWorker THEN Goto("failed") ELSE GotoWith("delete", w)
        BY <1>5 DEF LookUpWorker
  <2> QED BY <1>1, <1>5, <2>1, <2>2, <2>3, GotoKeeps, GotoWithKeeps DEF LookUpWorker
<1>6. CASE DetermineWorker
  <2> DEFINE w == taskWorkerDb[send.ev.task]
  <2>1. w \in Worker \cup {NoWorker}
        BY <1>2, <1>6, InHand DEF DetermineWorker
  <2>2. mutex' = mutex
        BY <1>6 DEF DetermineWorker, storage
  <2>3. IF w = NoWorker THEN Goto("select") ELSE GotoWith("assign", w)
        BY <1>6 DEF DetermineWorker
  <2> QED BY <1>1, <1>6, <2>1, <2>2, <2>3, GotoKeeps, GotoWithKeeps DEF DetermineWorker
<1>7. CASE SelectWorker
  <2>1. mutex' = mutex /\ (Goto("failed") \/ \E w \in Worker : GotoWith("assign", w))
        BY <1>2, <1>7 DEF SelectWorker, storage
  <2> QED BY <1>1, <1>7, <2>1, GotoKeeps, GotoWithKeeps DEF SelectWorker
<1>8. CASE AssignTask
  <2>1. CASE S!AssignPutTask(send.ev.task, send.worker) /\ Goto("assigning")
        BY <1>1, <1>8, <2>1, GotoKeeps DEF AssignTask, S!AssignPutTask
  <2>2. CASE UNCHANGED storage /\ Goto("failed")
        BY <1>1, <1>8, <2>2, GotoKeeps DEF AssignTask, storage
  <2> QED BY <1>8, <2>1, <2>2 DEF AssignTask
<1>9. CASE AssignWorker
  <2>1. mutex' = Free
        BY <1>9 DEF AssignWorker, S!AssignPutWorker, S!AssignPutWorkerFails
  <2> QED BY <1>1, <1>9, <2>1, GotoKeeps DEF AssignWorker
<1>10. CASE PostTask \/ PostAnswer \/ DeleteTask \/ DeleteAnswer
  <2>1. mutex' = mutex
        BY <1>10 DEF PostTask, PostAnswer, DeleteTask, DeleteAnswer, storage
  <2>2. send.pc \in {"post", "posting", "delete", "deleting"}
        BY <1>10 DEF PostTask, PostAnswer, DeleteTask, DeleteAnswer
  <2>3. \/ Goto("posting") \/ Goto("deleting") \/ Goto("failed") \/ send' = IdleSend
        BY <1>10 DEF PostTask, PostAnswer, DeleteTask, DeleteAnswer
  <2> QED BY <1>1, <2>1, <2>2, <2>3, GotoKeeps
<1>11. CASE MarkFailed
  <2>1. mutex' = mutex
        BY <1>11 DEF MarkFailed, S!UpdateTask, S!UpdateTaskStored, S!UpdateTaskPutFails,
                     S!stateVars
  <2> QED BY <1>1, <1>11, <2>1 DEF MarkFailed
<1>12. CASE Restart
       BY <1>12 DEF Restart, S!Restart
<1>13. CASE send' = send /\ mutex' = mutex
       BY <1>1, <1>13
<1> QED BY <1>3, <1>4, <1>5, <1>6, <1>7, <1>8, <1>9, <1>10, <1>11, <1>12, <1>13, SendCases
        DEF SendWork
(* While SendWork stands still, nobody takes away what it found. *)
LEMMA SendStaysOK ==
  ASSUME IInv, [Next]_managerVars, send' = send
  PROVE  SendOK'
<1> USE DEF IInv, OwnInv, SendOK, TypeOK
<1>1. send.pc \in {"select", "assign"} => taskWorkerDb' = taskWorkerDb
      BY NextStorage, StorageKeeps
<1>2. \A w \in Worker : workers[w] > 0 => workers'[w] > 0
      BY NextStorage, StorageKeeps
<1>3. S!Eligible(send.ev.task, send.worker) /\ send.pc = "assign"
        => S!Eligible(send.ev.task, send.worker)'
      BY <1>1, <1>2 DEF S!Eligible
<1>4. ASSUME send.pc \in {"post", "posting", "delete", "deleting"}
      PROVE  taskWorkerDb'[send.ev.task] = send.worker
  <2>1. send.ev.task \in Task /\ taskWorkerDb[send.ev.task] # NoWorker
        BY <1>4, InHand, WorkerAssumption
  <2> QED BY <1>4, <2>1, NextStorage, StorageKeeps
<1>5. send.pc = "posting" => Key' \in posted'
      BY SentGrows DEF Key
<1> QED BY <1>1, <1>3, <1>4, <1>5

LEMMA NextSendOK == IInv /\ [Next]_managerVars => SendOK'
<1> SUFFICES ASSUME IInv, [Next]_managerVars PROVE SendOK'
    OBVIOUS
<1>1. send \in SendRecord /\ SendTyped
      BY DEF SendTyped, SendRecord, IInv, TypeOK, OwnInv, RecordsOK
<1>2. /\ taskWorkerDb \in [Task -> Worker \cup {NoWorker}]
      /\ clients \subseteq Worker
      BY DEF IInv, TypeOK, S!TypeOK
<1> USE IdleSendTyped DEF SendPc, SendOK
<1>3. CASE Dequeue
      BY <1>3 DEF Dequeue
<1>4. CASE LogEvent
      BY <1>1, <1>4, GotoKeeps DEF LogEvent
<1>5. CASE LookUpWorker
  <2> DEFINE w == taskWorkerDb[send.ev.task]
  <2>1. w \in Worker \cup {NoWorker}
        BY <1>2, <1>5, InHand DEF LookUpWorker
  <2>2. taskWorkerDb' = taskWorkerDb
        BY <1>5 DEF LookUpWorker, storage
  <2>3. IF w = NoWorker THEN Goto("failed") ELSE GotoWith("delete", w)
        BY <1>5 DEF LookUpWorker
  <2> QED BY <1>1, <2>1, <2>2, <2>3, GotoKeeps, GotoWithKeeps
<1>6. CASE DetermineWorker
  <2> DEFINE w == taskWorkerDb[send.ev.task]
  <2>1. w \in Worker \cup {NoWorker}
        BY <1>2, <1>6, InHand DEF DetermineWorker
  <2>2. taskWorkerDb' = taskWorkerDb /\ workers' = workers
        BY <1>6 DEF DetermineWorker, storage
  <2>3. IF w = NoWorker THEN Goto("select") ELSE GotoWith("assign", w)
        BY <1>6 DEF DetermineWorker
  <2> QED BY <1>1, <2>1, <2>2, <2>3, GotoKeeps, GotoWithKeeps DEF S!Eligible
<1>7. CASE SelectWorker
  <2>1. taskWorkerDb' = taskWorkerDb /\ workers' = workers
        BY <1>7 DEF SelectWorker, storage
  <2>2. taskWorkerDb[send.ev.task] = NoWorker
        BY <1>7 DEF SelectWorker, IInv, OwnInv
  <2>3. Goto("failed") \/ \E w \in Worker : workers[w] > 0 /\ GotoWith("assign", w)
        BY <1>2, <1>7 DEF SelectWorker
  <2> QED BY <1>1, <2>1, <2>2, <2>3, GotoKeeps, GotoWithKeeps DEF S!Eligible
<1>8. CASE AssignTask
      BY <1>1, <1>8, GotoKeeps DEF AssignTask
<1>9. CASE AssignWorker
  <2>1. CASE S!AssignPutWorker /\ Goto("post")
    <3>1. mutex = [task |-> send.ev.task, worker |-> send.worker]
          BY <1>1, <1>9 DEF SendTyped, AssignWorker
    <3>2. taskWorkerDb'[send.ev.task] = send.worker
          BY <1>2, <1>9, <2>1, <3>1, InHand DEF AssignWorker, S!AssignPutWorker
    <3> QED BY <1>1, <2>1, <3>2, GotoKeeps
  <2>2. CASE Goto("failed")
        BY <1>1, <2>2, GotoKeeps
  <2> QED BY <1>9, <2>1, <2>2 DEF AssignWorker
<1>10. CASE PostTask
  <2>1. taskWorkerDb' = taskWorkerDb /\ taskWorkerDb[send.ev.task] = send.worker
        BY <1>10 DEF PostTask, storage, IInv, OwnInv
  <2>2. CASE Contract!Post(Key) /\ Goto("posting")
    <3>1. Key \in posted'
          BY <2>2 DEF Contract!Post
    <3> QED BY <1>1, <2>1, <2>2, <3>1, GotoKeeps DEF Key
  <2>3. CASE Goto("failed")
        BY <1>1, <2>3, GotoKeeps
  <2> QED BY <1>10, <2>2, <2>3 DEF PostTask
<1>11. CASE DeleteTask
  <2>1. taskWorkerDb' = taskWorkerDb /\ taskWorkerDb[send.ev.task] = send.worker
        BY <1>11 DEF DeleteTask, storage, IInv, OwnInv
  <2>2. Goto("deleting") \/ Goto("failed")
        BY <1>11 DEF DeleteTask
  <2> QED BY <1>1, <2>1, <2>2, GotoKeeps
<1>12. CASE PostAnswer \/ DeleteAnswer \/ MarkFailed \/ Restart
  <2>1. send' = IdleSend \/ Goto("failed")
        BY <1>12 DEF PostAnswer, DeleteAnswer, MarkFailed, Restart
  <2> QED BY <1>1, <2>1, GotoKeeps
<1>13. CASE send' = send
       BY <1>13, SendStaysOK
<1> QED BY <1>3, <1>4, <1>5, <1>6, <1>7, <1>8, <1>9, <1>10, <1>11, <1>12, <1>13, SendCases
        DEF SendWork
-----------------------------------------------------------------------------
(* Types. *)

Report == [task : Task, state : State \ {Pending}]

LEMMA ReportsTyped ==
  ASSUME IInv, NEW w \in Worker
  PROVE  Reports(w) \subseteq Report
<1> SUFFICES ASSUME NEW r \in Reports(w) PROVE r \in Report
    OBVIOUS
<1>1. PICK t \in Task : r = [task |-> t, state |-> reported[<<w, t>>]]
      BY DEF Reports
<1> QED BY <1>1, FetchedTold DEF Report

(* What SyncTasks has fetched, and what it has to fetch. *)
LEMMA NextSyncTyped ==
  IInv /\ [Next]_managerVars => sync' \in [todo : SUBSET Worker, reports : SUBSET Report]
<1> SUFFICES ASSUME IInv, [Next]_managerVars
             PROVE  sync' \in [todo : SUBSET Worker, reports : SUBSET Report]
    OBVIOUS
<1>1. sync \in [todo : SUBSET Worker, reports : SUBSET Report] /\ clients \subseteq Worker
      BY DEF IInv, OwnInv, RecordsOK, Report, TypeOK
<1>2. CASE SyncStart
      BY <1>1, <1>2 DEF SyncStart
<1>3. CASE \E w \in Worker : FetchTasks(w)
      BY <1>1, <1>3, ReportsTyped DEF FetchTasks
<1>4. CASE \E w \in Worker : FetchTasksFails(w)
      BY <1>1, <1>4 DEF FetchTasksFails
<1>5. CASE SyncUpdates
      BY <1>1, <1>5 DEF SyncUpdates, SyncUpdate
<1>6. CASE Restart
      BY <1>6 DEF Restart, IdleSync
<1>7. CASE sync' = sync
      BY <1>1, <1>7
<1> QED BY <1>2, <1>3, <1>4, <1>5, <1>6, <1>7
        DEF Next, StartTaskHandler, StopTaskHandler, AddTaskEvent, SendWork, Dequeue,
            LogEvent, LookUpWorker, DetermineWorker, SelectWorker, AssignTask,
            AssignWorker, PostTask, PostAnswer, DeleteTask, DeleteAnswer, MarkFailed,
            RegisterWorker, AddClient, WorkerStep, managerVars

(* The history of the workers. *)
LEMMA NextRemoteTyped ==
  IInv /\ [Next]_managerVars =>
    /\ {posted', asked', revised'} \subseteq SUBSET (Worker \X Task)
    /\ reported' \in [Worker \X Task -> (State \ {Pending}) \cup {Absent}]
<1> SUFFICES ASSUME IInv, [Next]_managerVars
             PROVE  /\ {posted', asked', revised'} \subseteq SUBSET (Worker \X Task)
                    /\ reported' \in [Worker \X Task -> (State \ {Pending}) \cup {Absent}]
    OBVIOUS
<1>1. /\ {posted, asked, revised} \subseteq SUBSET (Worker \X Task)
      /\ reported \in [Worker \X Task -> (State \ {Pending}) \cup {Absent}]
      BY DEF IInv, OwnInv, RecordsOK, TypeOK
<1>2. CASE PostTask /\ Contract!Post(Key)
  <2>1. Key \in Worker \X Task
        BY <1>2, InHand DEF PostTask, Key, IInv, TypeOK
  <2> QED BY <1>1, <1>2, <2>1 DEF Contract!Post
<1>3. CASE DeleteTask /\ Contract!Ask(Key)
  <2>1. Key \in Worker \X Task
        BY <1>3, InHand DEF DeleteTask, Key, IInv, TypeOK
  <2> QED BY <1>1, <1>3, <2>1 DEF Contract!Ask
<1>4. CASE \E k \in Worker \X Task : Contract!Work(k)
  <2>1. PICK k \in Worker \X Task : Contract!Work(k)
        BY <1>4
  <2>2. PICK s \in State : Contract!Set(k, s)
        BY <2>1, SameStates, StatesDistinct
           DEF Contract!Work, Contract!Advance, Contract!Revise, Contract!Follows
  <2>3. reported' = [reported EXCEPT ![k] = s] /\ posted' = posted /\ asked' = asked
        BY <2>2 DEF Contract!Set
  <2>4. s \in (State \ {Pending}) \cup {Absent}
    <3>1. reported'[k] = s
          BY <1>1, <2>3
    <3> QED BY <1>1, <3>1, NextReported
  <2>5. revised' \subseteq Worker \X Task
        BY <1>1, <2>1 DEF Contract!Work, Contract!Advance, Contract!Revise
  <2> QED BY <1>1, <2>3, <2>4, <2>5
<1>5. CASE UNCHANGED remote
      BY <1>1, <1>5 DEF remote
<1> QED BY <1>2, <1>3, <1>4, <1>5, RemoteCases

(* The queue of events, and who is connected. *)
LEMMA NextApiTyped ==
  IInv /\ [Next]_managerVars =>
    /\ pending' \in Seq(Event) /\ submits' \in Nat
    /\ joining' \in Worker \cup {NoWorker} /\ clients' \subseteq Worker
<1> SUFFICES ASSUME IInv, [Next]_managerVars
             PROVE  /\ pending' \in Seq(Event) /\ submits' \in Nat
                    /\ joining' \in Worker \cup {NoWorker} /\ clients' \subseteq Worker
    OBVIOUS
<1>1. /\ pending \in Seq(Event) /\ submits \in Nat
      /\ joining \in Worker \cup {NoWorker} /\ clients \subseteq Worker
      BY DEF IInv, TypeOK
<1>2. CASE \E e \in Event : AddTaskEvent(e)
      BY <1>1, <1>2 DEF AddTaskEvent
<1>3. CASE Dequeue
      BY <1>1, <1>3 DEF Dequeue
<1>4. CASE \E w \in Worker : RegisterWorker(w)
      BY <1>1, <1>4 DEF RegisterWorker, api
<1>5. CASE AddClient
      BY <1>1, <1>5 DEF AddClient, api
<1>6. CASE Restart
  <2>1. <<>> \in Seq(Event)
        OBVIOUS
  <2> QED BY <1>1, <1>6, <2>1 DEF Restart
<1>7. CASE UNCHANGED <<api, joining, clients>>
      BY <1>1, <1>7 DEF api
<1> QED BY <1>2, <1>3, <1>4, <1>5, <1>6, <1>7
        DEF Next, StartTaskHandler, StopTaskHandler, SendWork, LogEvent, LookUpWorker,
            DetermineWorker, SelectWorker, AssignTask, AssignWorker, PostTask,
            PostAnswer, DeleteTask, DeleteAnswer, MarkFailed, SyncStart, FetchTasks,
            FetchTasksFails, SyncUpdates, SyncUpdate, WorkerStep, managerVars

LEMMA NextTypeOK == IInv /\ [Next]_managerVars => TypeOK' /\ RecordsOK' /\ MSP!IInv'
<1> SUFFICES ASSUME IInv, [Next]_managerVars PROVE TypeOK' /\ RecordsOK' /\ MSP!IInv'
    OBVIOUS
<1>1. S!TypeOK' /\ MSP!IInv'
      BY NextStorage, StorageInv DEF IInv
<1>2. SendTyped'
      BY NextSendTyped
<1>3. RecordsOK'
      BY <1>2, NextSyncTyped, NextRemoteTyped DEF RecordsOK, Report, SendTyped, SendRecord
<1>4. /\ send'.ev \in Event \cup {NoEvent}
      /\ send'.worker \in Worker \cup {NoWorker}
      BY <1>2 DEF SendTyped, SendRecord
<1>5. sync'.todo \subseteq Worker /\ sync'.reports \subseteq [task : Task, state : State]
      BY NextSyncTyped DEF Report
<1>6. reported' \in [Worker \X Task -> State \cup {Absent}]
      BY NextRemoteTyped
<1> QED BY <1>1, <1>2, <1>3, <1>4, <1>5, <1>6, NextRemoteTyped, NextApiTyped
        DEF TypeOK, SendTyped

-----------------------------------------------------------------------------
(* Initial states. *)
LEMMA InitIInv == Init => IInv
<1> SUFFICES ASSUME Init PROVE IInv
    OBVIOUS
<1> USE DEF Init
<1>1. MSP!IInv
      BY SameInit, StorageAssumptions, MSP!InitIInv
<1>2. S!TypeOK
      BY <1>1, SameTypes DEF MSP!IInv
<1>3. send = IdleSend /\ SendTyped
      BY IdleSendTyped DEF SendTyped, S!Init
<1>4. /\ posted = {} /\ asked = {} /\ revised = {}
      /\ reported = [k \in Worker \X Task |-> Absent]
      BY SameStates DEF Contract!Init
<1>5. /\ sync \in [todo : SUBSET Worker, reports : SUBSET Report]
      /\ sync.reports = {} /\ sync.todo = {}
      BY DEF IdleSync
<1>6. pending \in Seq(Event)
      OBVIOUS
<1>7. RecordsOK
      BY <1>3, <1>4, <1>5 DEF RecordsOK, Report, SendTyped, SendRecord
<1>8. TypeOK
      BY <1>2, <1>3, <1>4, <1>5, <1>6 DEF TypeOK, SendTyped, SendRecord
<1>9. SendOK /\ ReportsTold
      BY <1>3, <1>5, IdleSendTyped DEF SendOK, ReportsTold
<1>10. WorkersOK /\ SentIsAssigned
       BY <1>4, StatesDistinct DEF WorkersOK, SentIsAssigned
<1>11. NeverAhead
       BY SameStates, StatesDistinct DEF NeverAhead, S!Init
<1> QED BY <1>1, <1>7, <1>8, <1>9, <1>10, <1>11 DEF IInv, OwnInv

(* Every step keeps the invariant. *)
LEMMA NextIInv == IInv /\ [Next]_managerVars => IInv'
BY NextTypeOK, NextSendOK, NextWorkersOK, NextSentIsAssigned, NextReportsTold,
   NextNeverAhead DEF IInv, OwnInv

(* The invariant is inductive. *)
THEOREM Inductive == Spec => []IInv
BY InitIInv, NextIInv, PTL DEF Spec

(* Type correctness, the mutex included: it is held exactly while          *)
(* SendWork is between the two Puts of an assignment.                      *)
THEOREM TypeCorrect == Spec => []TypeOK
<1>1. IInv => TypeOK
      BY DEF IInv
<1> QED BY Inductive, <1>1, PTL

(* However requests, syncs, registrations and restarts interleave, a task  *)
(* is only ever sent to the one worker it is stored as assigned to.        *)
THEOREM SentAreAssigned == Spec => []SentIsAssigned
<1>1. IInv => SentIsAssigned
      BY DEF IInv, OwnInv
<1> QED BY Inductive, <1>1, PTL

(* The manager never stores a task as running before its worker ran it,    *)
(* nor as completed before that worker was asked to stop it and ended it.  *)
THEOREM ManagerIsNeverAhead == Spec => []NeverAhead
<1>1. IInv => NeverAhead
      BY DEF IInv, OwnInv
<1> QED BY Inductive, <1>1, PTL

(* The manager implements ManagerState: its goroutines call MappingStorage *)
(* as the module of the storage expects.                                   *)
THEOREM StorageUsedProperly == Spec => UsesStorageProperly
<1>1. Init => S!Init
      BY DEF Init
<1>2. IInv /\ [Next]_managerVars => [S!Next]_S!stateVars
      BY NextStorage
<1> QED BY Inductive, <1>1, <1>2, PTL DEF Spec, UsesStorageProperly, S!Spec

(* So what is proved of MappingStorage holds in the manager: it always     *)
(* starts again, its maps match its buckets, and an assignment sticks.     *)
THEOREM StorageGuarantees ==
  Spec => /\ [](S!RestartSucceeds /\ S!DerivedMatchesStores)
          /\ S!AssignmentSticks
<1> DEFINE A == \A t \in Task : taskWorkerDb[t] # NoWorker
                                  => taskWorkerDb'[t] = taskWorkerDb[t]
<1>1. IInv => S!RestartSucceeds /\ S!DerivedMatchesStores
      BY SameStates DEF IInv, MSP!IInv, S!RestartSucceeds, S!Rehydratable,
         S!DerivedMatchesStores, MSP!RestartSucceeds, MSP!Rehydratable,
         MSP!DerivedMatchesStores
<1>2. IInv /\ [Next]_managerVars => [A]_S!stateVars
      BY NextStorage, StorageKeeps DEF IInv
<1>3. Spec => [][A]_S!stateVars
      BY Inductive, <1>2, PTL DEF Spec
<1> QED BY Inductive, <1>1, <1>3, PTL DEF S!AssignmentSticks

-----------------------------------------------------------------------------
(* SendWork gets rid of an event when it is answered, or in the deferred   *)
(* call: no other step makes it idle.                                      *)
LEMMA IdleCases ==
  ASSUME IInv, SendWork, send' = IdleSend
  PROVE  PostAnswer \/ DeleteAnswer \/ MarkFailed
<1>1. send \in SendRecord /\ send.pc \in SendPc
      BY DEF IInv, OwnInv, RecordsOK, SendRecord
<1>2. CASE Dequeue
      BY <1>2 DEF Dequeue, IdleSend
<1>3. ASSUME NEW pc \in SendPc, Goto(pc), pc # "idle" PROVE FALSE
      BY <1>1, <1>3, GotoKeeps, IdleSendTyped
<1>4. ASSUME NEW pc \in SendPc, NEW w, GotoWith(pc, w), pc # "idle" PROVE FALSE
  <2>1. send'.pc = pc
        BY <1>1, <1>4 DEF GotoWith, SendRecord
  <2> QED BY <1>4, <2>1, IdleSendTyped
<1>5. ~ (LogEvent \/ LookUpWorker \/ DetermineWorker \/ SelectWorker \/ AssignTask
         \/ AssignWorker \/ PostTask \/ DeleteTask)
      BY <1>3, <1>4
         DEF LogEvent, LookUpWorker, DetermineWorker, SelectWorker, AssignTask,
             AssignWorker, PostTask, DeleteTask, SendPc
<1> QED BY <1>2, <1>5 DEF SendWork

(* With a store that works, only a restart strands a task.  Without that    *)
(* premise it does not hold: the failure of the task is not stored either. *)

(* The deferred call leaves no assigned task as scheduled. *)
LEMMA MarkFailedUnschedules ==
  ASSUME ~StoreFaults, IInv, MarkFailed, taskWorkerDb[send.ev.task] # NoWorker
  PROVE  taskDb'[send.ev.task] # Scheduled
<1> DEFINE t == send.ev.task
<1>1. t \in Task /\ taskDb \in [Task -> (State \ {Pending}) \cup {Absent}]
      BY InHand, SameStates DEF MarkFailed, IInv, TypeOK, S!TypeOK
<1>2. S!UpdateTask(t, Failed)
      BY DEF MarkFailed
<1>3. \/ S!UpdateTaskRefused(t, Failed) /\ taskDb' = taskDb
      \/ taskDb' = [taskDb EXCEPT ![t] = Failed]
      BY <1>2 DEF S!UpdateTask, S!UpdateTaskStored, S!UpdateTaskPutFails, S!stateVars, S!stores
<1> QED BY <1>1, <1>3, SameStates, StatesDistinct DEF S!UpdateTaskRefused, S!Ends

(* A task that SendWork lets go of, scheduled and assigned, was sent: it   *)
(* was answered, or the worker it was to be stopped by knows it.           *)
LEMMA LetGoWasSent ==
  ASSUME ~StoreFaults, IInv, SendWork, send' = IdleSend,
         taskWorkerDb[send.ev.task] # NoWorker, taskDb'[send.ev.task] = Scheduled
  PROVE  <<taskWorkerDb[send.ev.task], send.ev.task>> \in posted
<1> DEFINE t == send.ev.task
<1>1. CASE PostAnswer
      BY <1>1 DEF PostAnswer, IInv, OwnInv, SendOK, Key
<1>2. CASE DeleteAnswer
  <2>1. Key = <<taskWorkerDb[t], t>> /\ Key \in Worker \X Task
        BY <1>2, InHand DEF DeleteAnswer, IInv, OwnInv, SendOK, TypeOK, Key
  <2>2. reported[Key] # Absent
        BY <1>2, IdleSendTyped, GotoKeeps
           DEF DeleteAnswer, IInv, OwnInv, RecordsOK, SendRecord, SendPc
  <2> QED BY <2>1, <2>2 DEF IInv, OwnInv, WorkersOK
<1> QED BY <1>1, <1>2, IdleCases, MarkFailedUnschedules

(* A step that is no restart leaves the event in hand, takes one up, or     *)
(* lets it go.                                                             *)
LEMMA HandCases ==
  ASSUME IInv, [Next]_managerVars, ~Restart, send.pc # "idle"
  PROVE  \/ send'.pc # "idle" /\ send'.ev = send.ev
         \/ SendWork /\ send' = IdleSend
<1>1. send \in SendRecord /\ send.pc \in SendPc
      BY DEF IInv, OwnInv, RecordsOK, SendRecord
<1>2. CASE send' = send
      BY <1>2
<1>3. ASSUME NEW pc \in SendPc, Goto(pc), pc # "idle"
      PROVE  send'.pc # "idle" /\ send'.ev = send.ev
      BY <1>1, <1>3, GotoKeeps
<1>4. ASSUME NEW w, NEW pc \in SendPc, GotoWith(pc, w), pc # "idle"
      PROVE  send'.pc # "idle" /\ send'.ev = send.ev
      BY <1>1, <1>4 DEF GotoWith, SendRecord
<1>5. CASE SendWork
      BY <1>1, <1>3, <1>4, <1>5
         DEF SendWork, Dequeue, LogEvent, LookUpWorker, DetermineWorker, SelectWorker,
             AssignTask, AssignWorker, PostTask, PostAnswer, DeleteTask, DeleteAnswer,
             MarkFailed, SendPc
<1> QED BY <1>2, <1>5, SendCases

(* What is newly scheduled is in the hand of SendWork, or is reported by   *)
(* the worker it was sent to.                                              *)
LEMMA NewlyScheduled ==
  ASSUME IInv, [Next]_managerVars, NEW t \in Task,
         taskDb[t] # Scheduled, taskDb'[t] = Scheduled
  PROVE  \/ AssignTask /\ send.ev.task = t
         \/ <<taskWorkerDb[t], t>> \in posted
<1> USE SameStates, StatesDistinct DEF IInv, TypeOK
<1>1. CASE AssignTask
      BY <1>1, InHand DEF AssignTask, S!AssignPutTask, S!TypeOK, storage
<1>2. CASE MarkFailed
      BY <1>2, InHand, UpdateTaskStores DEF MarkFailed
<1>3. CASE SyncUpdates
  <2>1. PICK r \in sync.reports : S!UpdateTask(r.task, r.state)
        BY <1>3 DEF SyncUpdates, SyncUpdate
  <2>2. r.task = t
        BY <2>1, UpdateTaskStores DEF OwnInv, RecordsOK
  <2> QED BY <2>1, <2>2 DEF OwnInv, ReportsTold, Told
<1>4. taskDb' = taskDb \/ AssignTask \/ MarkFailed \/ SyncUpdates
      BY StorageCases
         DEF StorageCall, RegisterWorker, S!RegisterWorker, LogEvent, S!UpdateTaskEvent,
             AssignWorker, S!AssignPutWorker, S!AssignPutWorkerFails, Restart,
             S!Restart, storage, S!stores
<1> QED BY <1>1, <1>2, <1>3, <1>4

(* With a store that works, no step but a restart leaves behind a task      *)
(* that is assigned, scheduled and never sent.                             *)
THEOREM OnlyRestartsStrand == ~StoreFaults => (Spec => OnlyRestartStrands)
<1> SUFFICES ASSUME ~StoreFaults PROVE Spec => OnlyRestartStrands
    OBVIOUS
<1> DEFINE A == \A t \in Task : ~ Stranded(t) /\ Stranded(t)' => Restart
<1>1. ASSUME IInv, [Next]_managerVars PROVE A
  <2> SUFFICES ASSUME NEW t \in Task, ~ Stranded(t), Stranded(t)', ~ Restart
               PROVE  FALSE
      OBVIOUS
  <2> DEFINE k == <<taskWorkerDb[t], t>>
  <2>1. /\ taskWorkerDb'[t] # NoWorker /\ taskDb'[t] = Scheduled
        /\ <<taskWorkerDb'[t], t>> \notin posted'
        /\ ~ (send'.pc # "idle" /\ send'.ev.task = t)
        BY DEF Stranded
  <2>2. taskWorkerDb[t] # NoWorker
    <3> SUFFICES ASSUME taskWorkerDb[t] = NoWorker PROVE FALSE
        OBVIOUS
    <3>1. mutex # Free
          BY <1>1, <2>1, NextStorage, StorageKeeps DEF IInv
    <3>2. send.pc = "assigning" /\ mutex = [task |-> send.ev.task, worker |-> send.worker]
          BY <1>1, <3>1 DEF IInv, TypeOK
    <3>3. send.ev.task # t
          BY <1>1, <2>1, <3>2, HandCases, IdleCases
             DEF PostAnswer, DeleteAnswer, MarkFailed
    <3>4. taskWorkerDb'[t] = taskWorkerDb[t]
      <4>1. CASE AssignWorker /\ S!AssignPutWorker
            BY <1>1, <3>2, <3>3, <4>1 DEF S!AssignPutWorker, IInv, TypeOK, S!TypeOK
      <4>2. CASE taskWorkerDb' = taskWorkerDb
            BY <4>2
      <4>3. taskWorkerDb' = taskWorkerDb \/ (AssignWorker /\ S!AssignPutWorker)
            BY <1>1, StorageCases
               DEF StorageCall, RegisterWorker, S!RegisterWorker, LogEvent,
                   S!UpdateTaskEvent, AssignTask, S!AssignPutTask, AssignWorker,
                   S!AssignPutWorkerFails, MarkFailed, SyncUpdates, SyncUpdate,
                   S!UpdateTask, S!UpdateTaskStored, S!UpdateTaskPutFails,
                   S!stateVars, S!stores, storage
      <4> QED BY <4>1, <4>2, <4>3
    <3> QED BY <2>1, <3>4
  <2>3. taskWorkerDb'[t] = taskWorkerDb[t] /\ k \notin posted
    <3>1. taskWorkerDb'[t] = taskWorkerDb[t]
          BY <1>1, <2>2, NextStorage, StorageKeeps DEF IInv
    <3> QED BY <1>1, <2>1, <3>1, SentGrows
  <2>4. CASE send.pc # "idle" /\ send.ev.task = t
        BY <1>1, <2>1, <2>2, <2>3, <2>4, HandCases, LetGoWasSent
  <2>5. CASE taskDb[t] # Scheduled
    <3>1. AssignTask /\ send.ev.task = t
          BY <1>1, <2>1, <2>3, <2>5, NewlyScheduled
    <3> QED BY <2>4, <3>1 DEF AssignTask
  <2> QED BY <2>2, <2>3, <2>4, <2>5 DEF Stranded
<1>2. IInv /\ [Next]_managerVars => [A]_managerVars
      BY <1>1
<1> QED BY Inductive, <1>2, PTL DEF Spec, OnlyRestartStrands
=============================================================================
