------------------------------ MODULE Manager -------------------------------
(***************************************************************************)
(* The manager process: the handlers of its API, the queue of pending      *)
(* events, and its goroutines SendTasksForever (SendWork), SyncTasks and   *)
(* waitForWorkersForever.  They share MappingStorage, which is module      *)
(* ManagerState: each of its operations is one step here, and everything   *)
(* that happens between two of them, a request to a worker or another      *)
(* goroutine, may come in between.                                         *)
(*                                                                         *)
(* The workers are known by WorkerContract, for all of them at once: a key *)
(* is a worker and a task.  An answer may be lost: every request may fail  *)
(* whatever the worker does with it.  Stats of the workers, the scheduler  *)
(* and the contents of tasks and events are left out: SelectWorker returns *)
(* any connected worker, or none.                                          *)
(***************************************************************************)
EXTENDS Integers, Sequences, FiniteSets, TaskStates

CONSTANTS
  Task, Worker, EventId, NoWorker, Free, StoreFaults,  \* as in ManagerState
  NoEvent,     \* SendWork has no event in hand
  MaxPending,  \* bound on the length of the queue of pending events
  MaxSubmits   \* bound on the number of requests users make

ASSUME TaskAssumption == IsFiniteSet(Task)
ASSUME WorkerAssumption == NoWorker \notin Worker
ASSUME FreeAssumption == Free \notin [task : Task, worker : Worker]
ASSUME StoreFaultsAssumption == StoreFaults \in BOOLEAN
ASSUME NoEventAssumption == NoEvent \notin [id : EventId, task : Task, target : State]
ASSUME BoundsAssumption == MaxPending \in Nat /\ MaxSubmits \in Nat

VARIABLES
  taskDb, eventDb, taskWorkerDb, workerNameDb, workers, workerTaskMap,
  workerActiveTaskCountMap, mutex, up, drifted,        \* as in ManagerState
  posted, asked, reported, revised,                    \* as in WorkerContract
  pending,   \* Pending: events accepted from users and not yet sent
  submits,   \* how many requests were accepted
  send,      \* SendWork: where it is, its event and the worker it found
  sync,      \* SyncTasks: the workers still to fetch, the reports to store
  joining,   \* the worker that has been registered but has no client yet
  clients    \* workerClientMap: the workers with a client

S == INSTANCE ManagerState
Contract == INSTANCE WorkerContract WITH Key <- Worker \X Task

storage == <<taskDb, eventDb, taskWorkerDb, workerNameDb, workers, workerTaskMap,
             workerActiveTaskCountMap, mutex, up, drifted>>
remote == <<posted, asked, reported, revised>>
api == <<pending, submits>>
managerVars == <<storage, remote, api, send, sync, joining, clients>>

Event == [id : EventId, task : Task, target : {Scheduled, Completed}]
IdleSend == [pc |-> "idle", ev |-> NoEvent, worker |-> NoWorker]
IdleSync == [todo |-> {}, reports |-> {}]

Init ==
  /\ S!Init
  /\ Contract!Init
  /\ pending = <<>> /\ submits = 0
  /\ send = IdleSend
  /\ sync = IdleSync
  /\ joining = NoWorker /\ clients = {}

-----------------------------------------------------------------------------
(* The API: both handlers only put an event in the queue. *)

AddTaskEvent(e) ==
  /\ up
  /\ Len(pending) < MaxPending /\ submits < MaxSubmits
  /\ pending' = Append(pending, e)
  /\ submits' = submits + 1
  /\ UNCHANGED <<storage, remote, send, sync, joining, clients>>

(* POST /tasks takes any event.  Of its target only "completed" matters. *)
StartTaskHandler(e) == AddTaskEvent(e)

(* DELETE /tasks/t: 404 unless t is stored. *)
StopTaskHandler(e) ==
  /\ S!Unlocked
  /\ taskDb[e.task] # Absent
  /\ e.target = Completed
  /\ AddTaskEvent(e)

-----------------------------------------------------------------------------
(* SendWork, one step per call that another goroutine can come before.     *)

Goto(pc) == send' = [send EXCEPT !.pc = pc]
GotoWith(pc, w) == send' = [send EXCEPT !.pc = pc, !.worker = w]

Dequeue ==
  /\ up
  /\ send.pc = "idle" /\ pending # <<>>
  /\ send' = [pc |-> "log", ev |-> Head(pending), worker |-> NoWorker]
  /\ pending' = Tail(pending)
  /\ UNCHANGED <<storage, remote, submits, sync, joining, clients>>

LogEvent ==
  /\ send.pc = "log"
  /\ \/ /\ S!UpdateTaskEvent(send.ev.id)
        /\ Goto(IF send.ev.target = Completed THEN "lookup" ELSE "determine")
     \/ /\ StoreFaults /\ S!Unlocked
        /\ UNCHANGED storage
        /\ Goto("failed")
  /\ UNCHANGED <<remote, api, sync, joining, clients>>

(* stopTask: only an assigned task can be stopped. *)
LookUpWorker ==
  /\ send.pc = "lookup"
  /\ S!Unlocked
  /\ LET w == taskWorkerDb[send.ev.task]
     IN IF w = NoWorker THEN Goto("failed") ELSE GotoWith("delete", w)
  /\ UNCHANGED <<storage, remote, api, sync, joining, clients>>

(* Mutant of DetermineWorker: the worker of an assigned task is not used. *)
DetermineWorker_Anew ==
  /\ send.pc = "determine"
  /\ S!Unlocked
  /\ Goto("select")
  /\ UNCHANGED <<storage, remote, api, sync, joining, clients>>

(* determineWorker: a task that is assigned stays with its worker. *)
DetermineWorker ==
  /\ send.pc = "determine"
  /\ S!Unlocked
  /\ LET w == taskWorkerDb[send.ev.task]
     IN IF w = NoWorker THEN Goto("select") ELSE GotoWith("assign", w)
  /\ UNCHANGED <<storage, remote, api, sync, joining, clients>>

(* SelectWorker: a worker whose stats were fetched, or no candidate. *)
SelectWorker ==
  /\ send.pc = "select"
  /\ \/ \E w \in clients : workers[w] > 0 /\ GotoWith("assign", w)
     \/ Goto("failed")
  /\ UNCHANGED <<storage, remote, api, sync, joining, clients>>

AssignTask ==
  /\ send.pc = "assign"
  /\ \/ S!AssignPutTask(send.ev.task, send.worker) /\ Goto("assigning")
     \/ StoreFaults /\ S!Unlocked /\ UNCHANGED storage /\ Goto("failed")
  /\ UNCHANGED <<remote, api, sync, joining, clients>>

(* Mutant of AssignWorker: an error of the second Put is not noticed. *)
AssignWorker_ErrorIgnored ==
  /\ send.pc = "assigning"
  /\ S!AssignPutWorker \/ S!AssignPutWorkerFails
  /\ Goto("post")
  /\ UNCHANGED <<remote, api, sync, joining, clients>>

AssignWorker ==
  /\ send.pc = "assigning"
  /\ \/ S!AssignPutWorker /\ Goto("post")
     \/ S!AssignPutWorkerFails /\ Goto("failed")
  /\ UNCHANGED <<remote, api, sync, joining, clients>>

Key == <<send.worker, send.ev.task>>

(* Mutants of PostTask: a missing client is not noticed; SendTask waits    *)
(* for a client.                                                           *)
PostTask_NoClientIgnored ==
  /\ send.pc = "post"
  /\ IF send.worker \in clients THEN Contract!Post(Key) ELSE UNCHANGED remote
  /\ Goto("posting")
  /\ UNCHANGED <<storage, api, sync, joining, clients>>

PostTask_Waits ==
  /\ send.pc = "post"
  /\ send.worker \in clients
  /\ Contract!Post(Key) /\ Goto("posting")
  /\ UNCHANGED <<storage, api, sync, joining, clients>>

(* SendTask of the cluster: the request leaves, if there is a client. *)
PostTask ==
  /\ send.pc = "post"
  /\ IF send.worker \in clients
     THEN Contract!Post(Key) /\ Goto("posting")
     ELSE UNCHANGED remote /\ Goto("failed")
  /\ UNCHANGED <<storage, api, sync, joining, clients>>

(* Mutant of PostAnswer: a task counts as running once it is accepted. *)
PostAnswer_RunsAtOnce ==
  /\ send.pc = "posting"
  /\ \/ S!UpdateTask(send.ev.task, Running) /\ send' = IdleSend
     \/ UNCHANGED storage /\ Goto("failed")
  /\ UNCHANGED <<remote, api, sync, joining, clients>>

PostAnswer ==
  /\ send.pc = "posting"
  /\ send' = IdleSend \/ Goto("failed")
  /\ UNCHANGED <<storage, remote, api, sync, joining, clients>>

(* StopTask of the cluster. *)
DeleteTask ==
  /\ send.pc = "delete"
  /\ IF send.worker \in clients
     THEN Contract!Ask(Key) /\ Goto("deleting")
     ELSE UNCHANGED remote /\ Goto("failed")
  /\ UNCHANGED <<storage, api, sync, joining, clients>>

(* 204 needs a task that the worker has stored. *)
DeleteAnswer ==
  /\ send.pc = "deleting"
  /\ \/ reported[Key] # Absent /\ send' = IdleSend
     \/ Goto("failed")
  /\ UNCHANGED <<storage, remote, api, sync, joining, clients>>

(* Mutant of MarkFailed: SendWork goes on with the event in hand. *)
MarkFailed_EventKept ==
  /\ send.pc = "failed"
  /\ S!UpdateTask(send.ev.task, Failed)
  /\ Goto("idle")
  /\ UNCHANGED <<remote, api, sync, joining, clients>>

(* The deferred call: an event that was not sent fails its task, as far as *)
(* UpdateTask accepts it.                                                  *)
MarkFailed ==
  /\ send.pc = "failed"
  /\ S!UpdateTask(send.ev.task, Failed)
  /\ send' = IdleSend
  /\ UNCHANGED <<remote, api, sync, joining, clients>>

SendWork ==
  \/ Dequeue \/ LogEvent \/ LookUpWorker \/ DetermineWorker \/ SelectWorker
  \/ AssignTask \/ AssignWorker \/ PostTask \/ PostAnswer
  \/ DeleteTask \/ DeleteAnswer \/ MarkFailed

-----------------------------------------------------------------------------
(* SyncTasks: the workers are asked at the same time, and the reports of   *)
(* one are stored while others are still to come.                          *)

(* A pass that finds no client does nothing. *)
SyncStart ==
  LET connected == {w \in clients : workers[w] > 0}
  IN /\ S!Unlocked
     /\ sync = IdleSync /\ connected # {}
     /\ sync' = [sync EXCEPT !.todo = connected]
     /\ UNCHANGED <<storage, remote, api, send, joining, clients>>

Reports(w) ==
  {[task |-> t, state |-> reported[<<w, t>>]] :
     t \in {u \in Task : reported[<<w, u>>] # Absent}}

FetchTasks(w) ==
  /\ w \in sync.todo
  /\ sync' = [todo |-> sync.todo \ {w}, reports |-> sync.reports \cup Reports(w)]
  /\ UNCHANGED <<storage, remote, api, send, joining, clients>>

FetchTasksFails(w) ==
  /\ w \in sync.todo
  /\ sync' = [sync EXCEPT !.todo = @ \ {w}]
  /\ UNCHANGED <<storage, remote, api, send, joining, clients>>

(* Mutant of SyncUpdate: a task that failed or completed is left alone. *)
SyncUpdate_EndedSkipped(r) ==
  /\ r \in sync.reports
  /\ IF taskDb[r.task] \in Terminal
     THEN S!Unlocked /\ UNCHANGED storage
     ELSE S!UpdateTask(r.task, r.state)
  /\ sync' = [sync EXCEPT !.reports = @ \ {r}]
  /\ UNCHANGED <<remote, api, send, joining, clients>>

SyncUpdate(r) ==
  /\ r \in sync.reports
  /\ S!UpdateTask(r.task, r.state)
  /\ sync' = [sync EXCEPT !.reports = @ \ {r}]
  /\ UNCHANGED <<remote, api, send, joining, clients>>

SyncUpdates == \E r \in sync.reports : SyncUpdate(r)

-----------------------------------------------------------------------------
(* waitForWorkersForever: AddWorkerAndClient, for one connection at a time.*)
RegisterWorker(w) ==
  /\ joining = NoWorker
  /\ S!RegisterWorker(w)
  /\ joining' = w
  /\ UNCHANGED <<remote, api, send, sync, clients>>

AddClient ==
  /\ up
  /\ joining # NoWorker
  /\ clients' = clients \cup {joining}
  /\ joining' = NoWorker
  /\ UNCHANGED <<storage, remote, api, send, sync>>

(* A worker gets on with what it was sent. *)
WorkerStep ==
  /\ \E k \in Worker \X Task : Contract!Work(k)
  /\ UNCHANGED <<storage, api, send, sync, joining, clients>>

(* The process dies and starts again: the queue and the clients are lost. *)
Restart ==
  /\ S!Restart
  /\ pending' = <<>>
  /\ send' = IdleSend
  /\ sync' = IdleSync
  /\ joining' = NoWorker
  /\ clients' = {}
  /\ UNCHANGED <<remote, submits>>

Next ==
  \/ \E e \in Event : StartTaskHandler(e) \/ StopTaskHandler(e)
  \/ SendWork
  \/ SyncStart
  \/ \E w \in Worker : FetchTasks(w) \/ FetchTasksFails(w)
  \/ SyncUpdates
  \/ \E w \in Worker : RegisterWorker(w)
  \/ AddClient
  \/ WorkerStep
  \/ Restart

(* SendTasksForever and UpdateTasksForever loop for ever and their requests*)
(* are answered or fail; a worker that stays connected does not fail every *)
(* GET /tasks.                                                             *)
Fairness ==
  /\ WF_managerVars(SendWork)
  /\ WF_managerVars(SyncStart)
  /\ WF_managerVars(SyncUpdates)
  /\ \A w \in Worker : /\ WF_managerVars(FetchTasks(w) \/ FetchTasksFails(w))
                       /\ SF_managerVars(FetchTasks(w))

Spec == Init /\ [][Next]_managerVars
FairSpec == Spec /\ Fairness

-----------------------------------------------------------------------------
(* Where SendWork is says what it has in hand, and the mutex is held       *)
(* exactly by the assignment that SendWork is in.                          *)
TypeOK ==
  /\ S!TypeOK
  /\ pending \in Seq(Event) /\ submits \in Nat
  /\ send.ev \in Event \cup {NoEvent} /\ send.worker \in Worker \cup {NoWorker}
  /\ send.pc = "idle" <=> send.ev = NoEvent
  /\ send.pc \in {"assign", "assigning", "post", "posting", "delete", "deleting"}
       => send.worker \in Worker
  /\ mutex = IF send.pc = "assigning"
             THEN [task |-> send.ev.task, worker |-> send.worker] ELSE Free
  /\ sync.todo \subseteq Worker
  /\ sync.reports \subseteq [task : Task, state : State]
  /\ joining \in Worker \cup {NoWorker} /\ clients \subseteq Worker
  /\ {posted, asked, revised} \subseteq SUBSET (Worker \X Task)
  /\ reported \in [Worker \X Task -> State \cup {Absent}]

(* The goroutines of the manager use MappingStorage as ManagerState says:  *)
(* in particular the worker that SendWork found, several steps earlier, is *)
(* still registered, and still the one the task is assigned to, when the   *)
(* assignment is stored.                                                   *)
UsesStorageProperly == S!Spec

(* Whatever may start on a worker, requests that are still on their way    *)
(* included, is a task that the manager has stored as assigned to that     *)
(* worker, so no task is ever sent to two workers, across restarts too.    *)
SentIsAssigned ==
  \A k \in posted : taskDb[k[2]] # Absent /\ taskWorkerDb[k[2]] = k[1]

(* The manager never says more of a task than its worker does: it is not   *)
(* running before it runs, and not completed before it was stopped.        *)
NeverAhead ==
  \A t \in Task : taskDb[t] \in {Running, Completed} =>
    LET k == <<taskWorkerDb[t], t>>
    IN /\ k \in posted
       /\ taskDb[t] = Running => reported[k] \in {Running} \cup Terminal
       /\ taskDb[t] = Completed => k \in asked /\ reported[k] \in Terminal

(* A task is stranded when it is stored as assigned and scheduled, was      *)
(* never sent to its worker, and SendWork does not have it in hand: only   *)
(* another request of a user can get it out of this state.                 *)
Stranded(t) ==
  /\ taskWorkerDb[t] # NoWorker /\ taskDb[t] = Scheduled
  /\ <<taskWorkerDb[t], t>> \notin posted
  /\ ~ (send.pc # "idle" /\ send.ev.task = t)

(* Only a restart strands a task, one that comes after its assignment is    *)
(* stored and before it is sent.  Wherever else SendWork gives up, and     *)
(* whatever earlier restarts and reports did to the task, the task then    *)
(* says that it failed, if the store works.                                *)
OnlyRestartStrands ==
  [][\A t \in Task : ~ Stranded(t) /\ Stranded(t)' => Restart]_managerVars

(* Every event that is accepted, and not lost in a restart, is handled in  *)
(* the end, sent or not, whatever the workers answer.                      *)
QueueDrains == <>[](pending = <<>> /\ send = IdleSend)

(* Once a worker stays connected and what it reports of a task does not    *)
(* change any more, the manager says the same of it for ever, whatever it  *)
(* concluded from answers it never got.                                    *)
SyncConverges ==
  \A w \in Worker, t \in Task, s \in State :
    <>[](w \in clients /\ reported[<<w, t>>] = s) => <>[](taskDb[t] = s)
=============================================================================
