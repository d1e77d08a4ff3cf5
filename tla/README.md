# Netbula: specifications, model checking and proofs

Netbula is a small container orchestrator. A **manager** accepts tasks from
users, assigns each to a **worker** and keeps what the workers report; a worker
runs tasks as Docker containers. This directory holds TLA+ modules of the parts
of the program whose behaviour depends on order, failure and restart, the
configurations under which TLC checks them, and proofs that TLAPS checks.

## Inventory

| Part (source) | State | Operations | What makes it correct |
|---|---|---|---|
| Task life cycle (`internal/task/task.go`) | none | `stateTransitionMap`, `ValidStateTransition` | only the worker consults the table |
| Manager state, `MappingStorage` (`internal/app/manager/state.go`) | buckets `tasks`, `events`, `task_to_worker`, `worker_id_to_name`; in memory `workers`, `workerTaskMap`, `workerActiveTaskCountMap` | `rehydrate`, `RegisterWorker`, `UpdateTask`, `AssignTaskToWorker`, `UpdateTaskEvent`, reads | the maps agree with the buckets; a restart succeeds; assignments stick; counts count |
| Manager loops (`manager.go`, `api.go`) | queue `Pending` | `SendWork`, `SyncTasks`, API handlers | a task is sent only to its worker; the manager does not run ahead of it and catches up with it; every queued event is handled |
| Queues (golang-collections, used by `manager.go` and `worker.go`) | a linked list and its length | `Enqueue`, `Dequeue`, `Len` | what is accepted is taken, once and in order |
| Start and registration (`manager/boot.go`, `worker/boot.go`, `worker/api.go`) | processes, connections, `workerClientMap` | `SetupConfig`, `setupWorkerConfig`, `Run`, `waitForWorkersForever`, `AddWorkerAndClient` | a worker that trusts the manager gets connected, and a client leads to its worker |
| Cluster (`cluster.go`) | clients, list of nodes | `UpdateWorkerNodes`, `SyncTasks`, `SendTask`, `StopTask`, `AddClient` | a selected worker has a client; passes that overlap do no harm |
| Worker (`internal/app/worker/*.go`) | bucket of tasks, queue | handlers, `RunTasksForever`, `UpdateTaskStatsForever` | a task starts once, moves forward, ends once; containers and records agree |
| Docker client (`internal/docker/docker.go`) | containers, in Docker | `Run`, `Stop`, `Inspect` | |
| Stores (`internal/store`) | a bolt bucket or a map | `Put`, `Get`, `List`, `Entries`, `Count` | a `Put` is one transaction |
| Schedulers (`internal/scheduler`) | round robin: an index | `SelectCandidateNodes`, `Score`, `Pick` | the pick is a candidate; round robin moves on |
| Configurations (`internal/configs`) and identities (`internal/networks/security`) | JSON files | read, generate, overwrite in place | an identity and a uuid survive restarts |
| Control client, command line, logger, routers, node, stats, mocks | the control client's file | | |

How they interact: users reach the manager's API over TLS; its handlers only
enqueue events. Workers dial the manager, which then uses each connection
(yamux) as an HTTP client of that worker: `POST /tasks`, `DELETE /tasks/{id}`,
`GET /tasks`, `GET /stats`, `GET /info`. The manager's goroutines
(`SendTasksForever`, `UpdateTasksForever`, `waitForWorkersForever`, one per API
request) share `MappingStorage` and the cluster, each behind a mutex of its
own. In the worker, handlers and two goroutines share a queue and a bucket; the
mutex covers only part of these accesses.

What is hard: every `Put` is a transaction of its own, so a crash may come
between two of them; requests of the manager fail whether or not the worker
handled them; the worker's handlers and `updateTasks` work on stale copies; the
three callers of `UpdateWorkerNodes` overlap; the queues are shared without a
lock that all their users take; config files are overwritten in place; and
connections break, or come back while the old client is still filed under the
same uuid. The list `hazards` of `PROJECT.json` names each place.

## Modules

| Module | What it is |
|---|---|
| `TaskStates` | states and the table of transitions |
| `ManagerState` | `MappingStorage`, one action per operation, with crashes and failing `Put`s; `MCManagerState` bounds the counts |
| `ManagerStateProofs` | theorems about it |
| `WorkerContract` | abstract: how what a worker reports for a task may change |
| `Worker` | the worker process and its containers; refines `WorkerContract` |
| `WorkerProofs` | theorems about it, the refinement among them |
| `Manager` | the manager's loops and handlers over `ManagerState` (instance `S`), with all the workers as one `WorkerContract` (instance `Contract`); `MCManager` bounds it |
| `ManagerProofs` | theorems about it, among them that it uses `ManagerState` as that module expects |
| `Schedulers` | the two schedulers: candidates, the scores of round robin, `Pick` |
| `Cluster` | the list of nodes, its concurrent updates, and the selection by either scheduler |
| `ClusterProofs` | theorems about it |
| `Boot` | how manager and workers start, with their config files, and find one another |
| `BootProofs` | theorems about it |
| `SharedQueue` | one queue and its users, load by load and store by store |
| `SharedQueueProofs` | theorems about it under any race |
| `SequentialQueueProofs` | the theorem about it when no calls overlap |

The parts are composed by contract. `Manager` uses the actions of
`ManagerState`, so each operation of `MappingStorage` is one step of it, and
the property `UsesStorageProperly` (`S!Spec`) says that the manager calls
them only as `ManagerState` assumes (`Eligible`). It is proved, so what is
proved of `ManagerState` holds inside `Manager` (`StorageGuarantees`). In place
of workers `Manager` has `WorkerContract`, for keys `<<worker, task>>`: it
changes their state through the contract's actions only, by construction, and
the contract lets a manager send any request at any time. The side that could
go wrong is the worker's, and is proved: each worker implements the contract
for its own keys (`WorkerKeepsContract`). A delayed request
is covered because the contract only records that it was sent and lets the
worker act on it at any later time. `Cluster` justifies the one thing
`Manager` assumes of `SelectWorker`, that it returns a connected registered
worker or fails. `Boot` justifies what `Manager` and `Cluster` say of clients:
there is at most one for a worker, and it is the worker's. `SharedQueue` is the
one exception: `Manager` and `Worker` take the queue to be atomic, and the run
`queue_lost` shows that it is not; `SequentialCallsKeepAll` says when it is.

### Correspondence with the code

* **ManagerState.** `taskDb`, `eventDb`, `taskWorkerDb`, `workerNameDb` are
  the buckets (of a task the state, of an event the key). `workers` counts how
  often a worker occurs in the slice. `AssignTaskToWorker` is `AssignPutTask`,
  then `AssignPutWorker` or `AssignPutWorkerFails`; `mutex` holds what is
  between them. `Restart` is a crash at any point and `NewState`/`rehydrate`;
  `up` becomes FALSE if `rehydrate` returns an error. `drifted` is a history
  variable. A failed `RegisterWorker`, `UpdateTaskEvent` or first `Put` changes
  nothing and is a stuttering step here; `Manager` has the error path.
* **Manager.** `send` is the point of `SendWork` between two calls that others
  can come between, with its event and the worker found; the deferred function
  is `MarkFailed`. `sync` is `SyncTasks`: the workers not yet fetched and the
  reports not yet stored. `joining` is a worker between `RegisterWorker` and
  `AddClient`. Events have any identifier, any task and one of the two targets
  that `SendWork` tells apart, so that submissions, resubmissions and stops are
  all inputs.
* **Worker.** `run` is `RunTasksForever` with the task in hand
  (`dequeued`, then `start`, `started` or `stop`, `stopped` under the mutex),
  `stopping` holds the copies of `StopTaskHandler`s that wait for the mutex,
  `upd` is `updateTasks` between `List`, `Inspect`, `Get` and `Put`. `cid`
  says whether a copy of a task carries a container id that leads to its
  container. It comes from `docker.Run`, or from the user: the manager passes a
  `ContainerID` of a request on (`api.go:106-117`), and the worker keeps it
  (`handler.go:56`). Only the name of the task leads to its container before
  that exists, and `Named` are the tasks for which a user may give it. The
  mutex is free while `run` is `idle` or `dequeued`, since `runTask` locks only
  in `transitionTask`. `Crash` leaves `run` at `down`, until `Start` opens the
  same bucket again. `container` is what Docker knows and outlives the process. `DockerRun` and `DockerStop` have an
  outcome for each call inside `Run` and `Stop` that can fail. `started`,
  `posted`, `asked` and `revised` are history variables.
* **Cluster.** `pass` has one run of `UpdateWorkerNodes` for each caller:
  identifiers, clients, one fetch per worker, replacement of the list, which is
  in the order in which the stats arrived. `scheduler` is the one the manager
  was started with: the commands use E-PVM, the tests also round robin.
  `choice` is what `SelectWorker` returned last, and the list it saw. `Pick` and
  the candidates of both schedulers are translated in `Schedulers`; the scores
  of E-PVM are any numbers (NaN, which it computes for a node without cores or
  memory, is left out).
* **Boot.** A config file is absent, torn or whole; `SetupConfig` and
  `SetupWorkerConfig` truncate it, the store completes it, and a crash between
  the two leaves it torn. An `Identity` is certificate, key and token, which are
  generated together. `issued` is what the manager printed, hence what an
  operator can give to a worker. `link` is the loop of `worker.Run`, `backlog`
  the accept queue of the listener, `joining` the iteration of
  `waitForWorkersForever`. `Rotate` deletes the manager's file at any time,
  also while the process runs, or between the truncation and the end of a
  write, which then goes to a file that no name leads to. Reading the file and
  truncating it is one step of `SetupConfig`. `GetInfoFails` is also an answer
  with an error on a connection that works (`manager/boot.go:207-221`): the
  manager goes on to the next connection and nobody ends this one
  (`unregistered`). A connection bears the name of its host until it
  ends; whatever still refers to it then refers to `Dead`. The handshake, in
  which the worker compares the fingerprint, happens with the first request,
  since a Go listener of TLS connections does not do it in `Accept`. The first
  start of a worker with flags is refused, as in the code
  (`worker/boot.go:112`), although the command describes it: such a worker is
  started once without flags, then with them.
* **SharedQueue.** The fields of the queue and of its nodes, a program counter
  for each call, and every load and store that another goroutine can observe.
  `Locked` chooses between the manager's `AddTaskEvent` and the worker's
  `AddTask`. A nil pointer panics: in a handler net/http recovers it, in the
  loop it ends the process. Go's memory model allows a data race more than the
  interleavings of this module; what they show to go wrong does go wrong.

### Abstractions

A task is its state and whether it has a container id; names, images,
resources, ports, times and the stats are left out. Container names: the
program creates a container under the name of its task, and Docker keeps names
unique, so a task has at most one container; two tasks of one name show as a
`docker.Run` that fails. `Get` of the persistent store does not fail in the
models: it reports a missing key for a failed transaction, and bolt reads of an
open file do not fail. Bodies that do not decode are refused before anything
changes. A container id that a
user sends and that is wrong is none.

## Runs

`tlc -config X.cfg M` with the module `M` of `PROJECT.json`. Runs that pass:

| Run | Configuration | Shows |
|---|---|---|
| manager_state | `ManagerState.cfg` | `RestartSucceeds`, `DerivedMatchesStores`, `CountExactUntilDrift`, `AssignmentSticks` with failing `Put`s and crashes anywhere |
| manager_workers | `ManagerWorkers.cfg` | `SentIsAssigned`, `NeverAhead`, `UsesStorageProperly` in all interleavings of sending, syncing, joining, working, lost answers, failing `Put`s and restarts |
| manager_live | `ManagerLive.cfg` | `SyncConverges`; `QueueDrains`: every event that no restart loses is handled; `OnlyRestartStrands`: only a restart between an assignment and its sending leaves the task scheduled and unsent, no other way in which `SendWork` gives up, across earlier restarts |
| worker_faults | `WorkerFaults.cfg` | `KeepsContract` with Docker errors for one task, failing `Put`s for the other, and crashes; `StartedOnce` and `ContainersKnown` of the task whose `Put`s do not fail; `CompletedRemoved` of the task for which Docker answers |
| worker_live | `WorkerLive.cfg` | `StartsTake`, `StopsTake`, `LostContainerNoticed` when calls of Docker may fail and the process may die anywhere. What the process that dies had accepted is excepted, and for `StopsTake` also a task that an earlier death left as scheduled |
| cluster | `Cluster.cfg` | `PicksConnected` and `SelectionEnds` when the requests of one worker may fail; of the other, `StaysListed`: only passes that began before it joined take it off the list, and `JoinStays`: it is listed for good in the end; `RoundRobinMovesOn` |
| boot | `Boot.cfg` | `OneIdentity` and `OneUuid` across restarts unless a file was torn or lost, `ClientIsWorker`, and `WorkersJoin` whatever crashed, broke or was rotated before, except for a worker whose working connection was left without a client |
| shared_queue | `SharedQueue.cfg` | `TakenOnce` and `OrderKept` under any race, `SequentialCallsKeepAll` without one |

Runs that find a disagreement between the code and what the repository says:

| Run | The repository says | The code does |
|---|---|---|
| active_count | the map is the number of the worker's scheduled or running tasks | a resubmitted task is not counted again, but its end is |
| worker_stale_stop | `StopTask` requires a container id | a stop copied before the start has none; the container stays |
| worker_exit | a task ends when its container exits | the branch changes a copy and does not store it |
| queue_lost | a task that is accepted is put in the queue to be executed | an `Enqueue` that overlaps the `Dequeue` of the last element is lost, although the producers exclude one another; the next `Dequeue` panics |

Other known differences, which the models contain and no run is spent on:

* `docs/architecture.md` calls completed and failed terminal; `updateTasks`
  turns a task that `StopTask` has just completed into a failed one
  (`worker.go:228`).
* A task that no worker could be found for was not stored yet, so the deferred
  `UpdateTask` of `SendWork` is refused and the task leaves no trace
  (`manager.go:221`); `OnlyRestartStrands` therefore speaks of assigned tasks.
* A restart of the manager after an assignment is stored (`state.go:258`) and
  before the task is posted (`cluster.go:243`) leaves the task scheduled for
  ever: the event was only in memory, nothing sends the task again, and its
  worker, which never had it, reports nothing. `OnlyRestartStrands` says that
  this is the only way. One between the two `Put`s of the assignment leaves it
  scheduled without a worker. Only a user who submits it again helps.
* A worker that dies between storing a task and storing it as running, or whose
  second `Put` fails, leaves it as scheduled. A stop of it is answered with 204
  and dropped, since the table has no transition from scheduled to completed
  (`worker.go:84`, `task.go:88`); `LeftScheduled` excepts it from `StopsTake`.
* A container that was created or started by a `docker.Run` that then failed
  stays behind without anybody knowing its id (`worker.go:119`).
* A pass of `UpdateWorkerNodes` that began before a worker joined and ends after
  the pass made for the join takes the worker off the list until the next pass
  (`cluster.go:95`). `JoinStays` therefore has the premise that passes go on to
  be made; without it TLC finds that order.
* If `GET /info` or the registration fails on a connection that works, the
  connection is left without a client and nobody dials again
  (`manager/boot.go:207-221`, `manager.go:161`): `WorkersJoin` excepts it.
* `SelectWorker` may use stats older than its own update: a pass that began
  before may replace the list before it is read (`manager.go:184`).
* `docs/adr/0002` wants the token rotated without a new fingerprint; the
  rotation that `SECURITY.md` describes makes both anew.
* Round robin picks by position in a list that is in order of arrival: two
  selections from one list differ (`RoundRobinMovesOn`), but lists that change
  in length or order do not share the load evenly.

Because terminal states are not final, the properties that hold are stated
without that assumption: `WorkerContract` allows one revision of an end,
`CountExactUntilDrift` excludes the workers for which the history variable
shows a known cause of drift, `NeverAhead` speaks of running and completed. In
the manager too `UpdateTask` stores a report over a terminal state: a task that
was marked as failed after a lost answer runs again after a sync, which is what
makes `SyncConverges` hold. A container that could not be started leaves its
task stored as running (`StartTaskPut`), where `docs/architecture.md` draws
`Scheduled --> Failed`; `LostContainerNoticed` shows that the next pass of
`updateTasks` makes it failed.

### Bounds, and why they are enough

* `MaxDrift` bounds `workerActiveTaskCountMap`, which drifts without limit;
  3 is more than the two tasks can legitimately count, so each cause of drift
  occurs, several times.
* Two tasks and two workers in `manager_state`: the state of a task touches
  other tasks only through the count and the mutex, and of a worker only
  through the assignment. One task and two workers in `manager_workers`: what
  could go wrong is one task sent to two workers. `MaxPending` = 2 and
  `MaxSubmits` = 3 allow a submission, a second one and a stop, all queued or
  one after the other, across restarts.
* Worker: two tasks for the safety runs, so one can be inspected while the
  other runs; `MaxQueue` = 1 there, besides the task in hand and the copy of a
  stop handler, so three desired states are under way at a time.
  `MaxStops` = 1 at a time is one stale copy (more enter the queue one after
  the other). The other runs use one task and `MaxQueue` = 2, a start and a
  stop or the same task twice; `worker_live` has Docker errors and crashes.
  `Named` has a task in every run, and one outside it in `worker_faults`.
  The two tasks of `worker_faults` differ in what may go wrong for them: Docker
  for one (`DockerFaults`), `Put` for the other (`StoreFaults`), so that each
  property is checked under every fault that it is claimed under.
* `manager_live`: one task, two workers, two requests, with restarts but
  without failing `Put`s, under which `OnlyRestartStrands` does not hold: the
  failure of a task that was not sent cannot be recorded either.
* Cluster: two workers, one of them in `Flaky`, whose requests may fail; all
  three kinds of caller: one request at a time besides the two goroutines
  already lets three passes overlap. `MaxScore` = 1 lets either worker score
  lower, or both the same.
* Boot: two hosts, so that one can be in the way of the other; two identities
  and two uuids: one rotation, or one loss of a file, on each side.
* SharedQueue: three elements, of which two are enqueued while one is dequeued:
  the shortest races of two producers and the loop, and lists of more than one
  element; two for the counterexample.
* Symmetry is used in the runs of `MCManagerState` and in `manager_workers`,
  none of which has a liveness property.

### Fairness

* Worker: weak fairness of `RunTasksForever` and of `UpdateTaskStatsForever`,
  each a goroutine in an endless loop whose Docker calls return; strong
  fairness of `StopTaskEnqueue`, because Go hands a mutex to a waiter that
  starves. None for handlers, crashes, restarts or what containers do: the
  properties say nothing of a process that is down.
* Manager: weak fairness of `SendWork`, `SyncStart`, `SyncUpdates` and of each
  fetch ending; strong fairness of a successful fetch: a worker that stays
  connected does not fail every `GET /tasks` for ever.
* Cluster: weak fairness of each caller's pass: a request is answered or
  fails, since yamux closes a session whose peer no longer answers. A worker
  whose handler hangs while its session answers would block `SelectWorker` for
  ever, as the HTTP clients have no timeout; the fairness excludes that.
* Boot: weak fairness of `waitForWorkersForever`, whose `GET /info` is answered
  or fails for the same reason and with the same exception, and of
  each worker's dialing and noticing that a session ended: `worker.Run` loops
  for ever, and yamux sends pings. `WorkersJoin` supposes in its premise that
  both processes stay up and their connection does not break any more.

## Proofs

For every value of the constants, from the named assumptions of the modules
only: tasks and elements are finite sets, bounds are numbers, and the
values which stand for "none" are not among the tasks, workers, hosts or
elements. Every invariant and every action property of the runs that pass is
stated by a theorem. Hardly any of them is inductive; each module proves a
stronger conjunction (`IInv`).

* **ManagerStateProofs**: `TypeCorrect`, `RestartAlwaysSucceeds`,
  `DerivedAlwaysMatchStores`, `CountsExactUntilDrift`, `AssignmentsStick`. The
  invariant adds what holds while an assignment is between its two `Put`s: the
  task is stored, and it is either not assigned or already assigned to the
  worker in hand. That gives `Rehydratable` at every crash point. The
  count needs lemmas on the cardinality of the set of active tasks when one
  task enters or leaves it.
* **ManagerProofs**: `SentAreAssigned`, `ManagerIsNeverAhead`,
  `StorageUsedProperly`, `StorageGuarantees`, `OnlyRestartsStrand`,
  `TypeCorrect`. The invariant has the one of
  `ManagerStateProofs` as a part, and says in addition that what a goroutine
  found out is still true when it uses it: `SendOK` of the worker that
  `SendWork` looked up or selected several steps before, and `ReportsTold` of
  the reports that `SyncTasks` fetched. The first holds because only
  `SendWork` assigns tasks and one loop runs it, the second because an
  assignment never moves and a worker never goes back (the contract). The
  proof that each step is a step of `ManagerState` or leaves its state alone
  (`NextStorage`) lets the lemmas of that module do the rest.
  `OnlyRestartsStrand` has the premise `~StoreFaults`: where a `Put` fails,
  the failure of the task cannot be stored either.
* **WorkerProofs**: `TypeCorrect`, and `WorkerKeepsContract`: a worker
  implements `WorkerContract` under every fault. The invariant says who may
  still record the end of a task: `RunTasksForever` (`Ending`) and
  `updateTasks` (`Watched`) take up a task only while it is running and each
  once, so after one of them stored an end only the other can change it, and
  after that nobody. `RequestInv` ties queue entries to requests. Every step
  of `Next` is then shown to be a step of the contract or a stutter
  (`NextContract`). `StartsOnce` and
  `NoUnknownContainer` are about the tasks outside `StoreFaults`, a set that is
  any set of tasks: a lost `Put` leaves a started task stored as scheduled, so
  the exception is needed. `CompletedIsRemoved` is about the tasks outside
  `DockerFaults`; its invariant says that no container comes back between
  `docker.Stop` and the `Put` after it.
* **ClusterProofs**: `TypeCorrect`, `PicksAreConnected`, `RoundRobinAdvances`,
  `NotUnlisted`.
  The invariant is about every pass, since any of them may have written the
  list, and uses that clients are never removed. `PickIsCandidate` shows of
  `Pick` that its `CHOOSE` finds a candidate of least score whatever the
  scores, from the least element of a set of natural numbers.
  `RoundRobinAdvances` needs that a list has no worker twice, hence that no
  pass asks a worker twice (`AsksOnce`), and that the index still points at
  the last choice in the list it was made from (`LastIsChoice`).
  `NotUnlisted` is that a pass under way goes on to know the workers it knows
  (`Knows`) and that a new one begins with all that are registered.
* **BootProofs**: `IdentityIsKept`, `UuidStays`, `ClientsAreWorkers`,
  `TypeCorrect`. What is printed or registered is remembered only in a file
  while the process is down: `IssuedIsKept` and `UuidIsKept` say which of the
  two holds the identity or the uuid at each point of a start.
  `ConnectionOK` says what is known of both ends of a connection after each
  step of a registration, so that `AddWorkerAndClient` files it under the uuid
  its worker has; `EndedKeeps` is the lemma for all the ways a connection ends.
* **SharedQueueProofs**: `NothingIsTakenTwice`, `OrderIsKept`, `TypeCorrect`,
  with or without the lock and under any race. The list may lose nodes, but the
  nodes can be ranked by when they were written, and every `next` leads to a
  higher rank (`Ranked`, whose ranks are a witness and not state). What was
  taken has lower ranks than what can still be taken.
  `LengthOK` is why `Dequeue` never stores a negative length.
* **SequentialQueueProofs**: `SequentialCallsKeepWhatTheyGot`. While no two
  calls overlap, there is a sequence that is the list from `start` to `end`,
  holds exactly what was written and not taken, and whose length is the stored
  one up to the call under way (`Sequential`). Each load of that call tells
  something about the sequence, each store changes it at one end. That
  `Reachable`, a least fixed point, is the range of the sequence is by
  minimality of a first missing position (`ReachableIsChain`).

Model-checked only: liveness (`SyncConverges`, `QueueDrains`, `StartsTake`,
`StopsTake`, `LostContainerNoticed`, `JoinStays`, `SelectionEnds`,
`WorkersJoin`), since the proof system supports neither liveness under fairness
nor `ENABLED`.

## Not modelled

* Loss of accepted events in a crash is in the model (`Restart` empties
  `pending`), but no property forbids it, as nothing promises otherwise. The
  same holds of containers nobody knows the id of (`worker.go:119`).
* A request that is never answered nor ends (`cluster.go:81`,
  `manager/boot.go:206`): the models assume that each one ends.
* Floating point scores of E-PVM and the machine stats, cryptography, the token
  check of the API, the logger, and shutdown through the context, which the
  commands never cancel.
* The control client: each command merges its flags into one file and makes
  one request. Its requests are the inputs of `Manager`.
* The in-memory store, which only tests create.
* That renaming a worker changes the bucket its tasks are in (`worker.go:50`):
  `Worker` has one bucket, and a worker under a new name starts as a new one.
* Generated mocks and tests.

## Plan

The safety properties are proved. What is left:

1. `Manager` and the detailed `Worker` in one module, for a small instance and
   by proof, so that the composition by contract is stated and not only argued:
   the contract of all workers from the contracts of each.
2. What the two sides' theorems give together: a container of a task exists
   only on the worker the manager has it assigned to.
3. Of liveness, the safety half that can be proved: that what the properties
   wait for, once reached, stays (`SyncConverges`, `WorkersJoin`).
