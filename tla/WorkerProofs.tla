---------------------------- MODULE WorkerProofs ----------------------------
(***************************************************************************)
(* Proofs about Worker, for any tasks, any bounds and any choice of        *)
(* faults.  The main one is that a worker keeps WorkerContract.  It rests  *)
(* on who may still record the end of a task: the goroutine that runs the  *)
(* queue (Ending) and updateTasks (Watched) take up a task only while it   *)
(* is running, each of them once, so an end is revised at most once.       *)
(***************************************************************************)
EXTENDS Worker, TLAPS

(* RunTasksForever has a task in hand. *)
Busy == run.pc \notin {"idle", "down"}

(* RunTasksForever is about to store the end of t. *)
Ending(t) == run.pc \in {"stop", "stopped"} /\ run.task = t

(* updateTasks holds a copy of t and may still store that it failed. *)
Watched(t) ==
  \/ upd.pc \in {"get", "put"} /\ upd.task = t
  \/ \E m \in upd.todo : m.task = t

RunInv ==
  /\ run.pc \in {"start", "started"} =>
       run.state = Scheduled /\ taskDb[run.task].state \in {Absent, Scheduled}
  /\ run.pc \in {"stop", "stopped"} => run.state = Completed

WatchOnce ==
  /\ upd.pc = "sleep" => upd.todo = {}
  /\ upd.pc \in {"get", "put"} => \A m \in upd.todo : m.task # upd.task
  /\ \A m, n \in upd.todo : m.task = n.task => m = n

EndInv ==
  \A t \in Task :
    /\ taskDb[t].state \in {Absent, Scheduled} => ~ Ending(t) /\ ~ Watched(t)
    /\ taskDb[t].state \in Terminal => ~ (Ending(t) /\ Watched(t))
    /\ t \in revised => taskDb[t].state \in Terminal /\ ~ Ending(t) /\ ~ Watched(t)

(* A desired state stems from requests, a stop from one that found t. *)
Requested(m) ==
  /\ m.task \in posted
  /\ m.state = Completed => m.task \in asked /\ taskDb[m.task].state # Absent

RequestInv ==
  /\ \A t \in Task : taskDb[t].state # Absent => t \in posted
  /\ \A i \in DOMAIN queue : Requested(queue[i])
  /\ Busy => Requested(run)
  /\ \A m \in stopping : Requested(m)

IInv == TypeOK /\ RunInv /\ WatchOnce /\ EndInv /\ RequestInv

USE DEF Pending, Scheduled, Running, Completed, Failed, Absent, Down, Busy

(* Of the table of transitions, what TransitionTask asks of it. *)
LEMMA Transitions ==
  ASSUME NEW s \in State
  PROVE  /\ ValidStateTransition(s, Scheduled) => s \in {Pending, Scheduled}
         /\ ValidStateTransition(s, Completed) => s = Running
BY DEF ValidStateTransition, stateTransitionMap, State, Terminal

(* The head of the queue and what is left are typed as the queue is. *)
LEMMA QueueHead ==
  ASSUME NEW T, NEW q \in Seq(T), q # <<>>
  PROVE  /\ Head(q) \in T /\ Head(q) = q[1] /\ 1 \in DOMAIN q
         /\ Tail(q) \in Seq(T)
         /\ \A i \in DOMAIN Tail(q) : i + 1 \in DOMAIN q /\ Tail(q)[i] = q[i + 1]
OBVIOUS

LEMMA QueueAppend ==
  ASSUME NEW T, NEW q \in Seq(T), NEW m \in T
  PROVE  /\ Append(q, m) \in Seq(T)
         /\ \A i \in DOMAIN Append(q, m) :
              \/ i \in DOMAIN q /\ Append(q, m)[i] = q[i]
              \/ Append(q, m)[i] = m
OBVIOUS

-----------------------------------------------------------------------------
LEMMA InitIInv == Init => IInv
<1> SUFFICES ASSUME Init PROVE IInv
    OBVIOUS
<1> USE DEF Init, NotStored, Idle, Asleep, TaskInState
<1>1. TypeOK
  <2>1. upd \in Update /\ upd.pc = "sleep"
        BY DEF Update, Entry
  <2>2. queue \in Seq(Desired) /\ DOMAIN queue = {}
        OBVIOUS
  <2> QED BY <2>1, <2>2 DEF TypeOK, Entry
<1>2. RunInv /\ WatchOnce /\ EndInv
      BY DEF RunInv, WatchOnce, EndInv, Ending, Watched, Terminal
<1>3. RequestInv
      BY DEF RequestInv, Requested
<1> QED BY <1>1, <1>2, <1>3 DEF IInv

LEMMA PutTyped ==
  ASSUME TypeOK, NEW t \in Task, NEW v \in Entry, Put(t, v)
  PROVE  taskDb' \in [Task -> Entry] /\ revised' \subseteq Task
BY DEF TypeOK, Put

LEMMA UpdateTyped ==
  ASSUME NEW todo \in SUBSET [task : Task, cid : BOOLEAN]
  PROVE  /\ UpdateNext(todo) \in Update
         /\ UpdateNext(todo).pc \in {"sleep", "loop"}
         /\ UpdateNext(todo).todo = todo
         /\ UpdateNext(todo).pc = "sleep" => todo = {}
<1>1. Asleep \in Update
      BY DEF Asleep, Update, Entry, NotStored
<1>2. CASE todo = {}
      BY <1>1, <1>2 DEF UpdateNext, Asleep
<1>3. CASE todo # {}
  <2>1. UpdateNext(todo) = [Asleep EXCEPT !.pc = "loop", !.todo = todo]
        BY <1>3 DEF UpdateNext
  <2> QED BY <1>1, <2>1 DEF Update, Asleep
<1> QED BY <1>2, <1>3

(* Types are kept by every step. *)
LEMMA NextTypeOK == TypeOK /\ [Next]_workerVars => TypeOK'
<1> SUFFICES ASSUME TypeOK, [Next]_workerVars PROVE TypeOK'
    OBVIOUS
<1> USE DEF TypeOK, Entry, Desired, loopVars, requests
<1>1. ASSUME NEW t \in Task, NEW cid \in BOOLEAN, StartTaskHandler(t, cid) PROVE TypeOK'
  <2>1. Wanted(t, Scheduled, cid) \in Desired
        BY DEF Wanted
  <2>2. queue' = Append(queue, Wanted(t, Scheduled, cid))
        BY <1>1 DEF StartTaskHandler, AddTask
  <2>3. queue' \in Seq(Desired)
        BY <2>1, <2>2, QueueAppend
  <2> QED BY <1>1, <2>3 DEF StartTaskHandler
<1>2. ASSUME NEW t \in Task, StopTaskHandler(t) PROVE TypeOK'
      BY <1>2 DEF StopTaskHandler, Wanted
<1>3. ASSUME NEW m \in stopping, StopTaskEnqueue(m) PROVE TypeOK'
  <2>1. m \in Desired /\ m.state = Completed
        BY <1>3
  <2>2. queue' = Append(queue, m)
        BY <1>3 DEF StopTaskEnqueue, AddTask
  <2>3. queue' \in Seq(Desired)
        BY <2>1, <2>2, QueueAppend
  <2> QED BY <1>3, <2>3 DEF StopTaskEnqueue
<1>4. CASE Dequeue
  <2>1. queue # <<>> /\ queue' = Tail(queue) /\ queue \in Seq(Desired)
        BY <1>4 DEF Dequeue
  <2> HIDE DEF Desired
  <2>2. Head(queue) \in Desired /\ queue' \in Seq(Desired)
        BY <2>1, QueueHead
  <2> USE DEF Desired
  <2>3. run' \in InHand
        BY <1>4, <2>2 DEF Dequeue, InHand
  <2> QED BY <1>4, <2>2, <2>3 DEF Dequeue
<1>5. CASE TransitionTask
  <2>1. run \in InHand /\ run.pc = "dequeued"
        BY <1>5 DEF TransitionTask, Idle
  <2>2. run' \in InHand \cup {Idle}
        BY <1>5, <2>1 DEF TransitionTask, InHand
  <2>3. TaskInState(run.state, run.cid) \in Entry /\ run.task \in Task
        BY <2>1 DEF TaskInState, InHand
  <2>4. taskDb' \in [Task -> Entry] /\ revised' \subseteq Task
        BY <1>5, <2>3, PutTyped DEF TransitionTask
  <2> QED BY <1>5, <2>2, <2>4 DEF TransitionTask
<1>6. CASE DockerRun
  <2>1. run \in InHand /\ run.pc = "start"
        BY <1>6 DEF DockerRun, Idle
  <2>2. run' \in InHand /\ run'.pc = "started"
        BY <1>6, <2>1 DEF DockerRun, InHand
  <2>3. run.task \in Task
        BY <2>1 DEF InHand
  <2> QED BY <1>6, <2>2, <2>3 DEF DockerRun
<1>7. CASE StartTaskPut
  <2>1. run.task \in Task /\ run.cid \in BOOLEAN
        BY <1>7 DEF StartTaskPut, Idle, InHand
  <2>2. TaskInState(Running, run.cid) \in Entry
        BY <2>1 DEF TaskInState
  <2>3. taskDb' \in [Task -> Entry] /\ revised' \subseteq Task
        BY <1>7, <2>1, <2>2, PutTyped DEF StartTaskPut
  <2> QED BY <1>7, <2>3 DEF StartTaskPut, Idle
<1>8. CASE DockerStop
  <2>1. run \in InHand /\ run.pc = "stop" /\ run.task \in Task
        BY <1>8 DEF DockerStop, Idle, InHand
  <2>2. run' \in InHand /\ run'.pc = "stopped"
        BY <1>8, <2>1 DEF DockerStop, InHand
  <2>3. container' \in [Task -> {"none", "created", "running", "exited"}]
        BY <1>8, <2>1 DEF DockerStop
  <2> QED BY <1>8, <2>2, <2>3 DEF DockerStop
<1>9. CASE StopTaskPut
  <2>1. run.task \in Task /\ run.cid \in BOOLEAN
        BY <1>9 DEF StopTaskPut, Idle, InHand
  <2>2. TaskInState(Completed, run.cid) \in Entry
        BY <2>1 DEF TaskInState
  <2>3. taskDb' \in [Task -> Entry] /\ revised' \subseteq Task
        BY <1>9, <2>1, <2>2, PutTyped DEF StopTaskPut
  <2> QED BY <1>9, <2>3 DEF StopTaskPut, Idle
<1>10. CASE UpdateList
  <2>1. {[task |-> t, cid |-> taskDb[t].cid] : t \in {u \in Task : taskDb[u].state = Running}}
          \in SUBSET [task : Task, cid : BOOLEAN]
        OBVIOUS
  <2>2. upd' \in Update /\ upd'.pc \notin {"get", "put"}
        BY <1>10, <2>1, UpdateTyped DEF UpdateList
  <2> QED BY <1>10, <2>2 DEF UpdateList
<1>11. ASSUME NEW m \in [task : Task, cid : BOOLEAN], UpdateInspect(m) PROVE TypeOK'
  <2>1. upd.todo \ {m} \in SUBSET [task : Task, cid : BOOLEAN]
        BY DEF Update
  <2>2. upd' \in Update /\ (upd'.pc \in {"get", "put"} => upd'.task \in Task)
    <3>1. CASE upd' = UpdateNext(upd.todo \ {m})
          BY <2>1, <3>1, UpdateTyped
    <3>2. CASE upd' = [upd EXCEPT !.pc = "get", !.task = m.task, !.todo = @ \ {m}]
          BY <2>1, <3>2 DEF Update
    <3> QED BY <1>11, <3>1, <3>2 DEF UpdateInspect
  <2> QED BY <1>11, <2>2 DEF UpdateInspect
<1>12. CASE UpdateGet
       BY <1>12 DEF UpdateGet, Update
<1>13. CASE UpdatePut
  <2>1. upd.task \in Task /\ [upd.got EXCEPT !.state = Failed] \in Entry
        BY <1>13 DEF UpdatePut, Update
  <2>2. taskDb' \in [Task -> Entry] /\ revised' \subseteq Task
        BY <1>13, <2>1, PutTyped DEF UpdatePut
  <2>3. upd.todo \in SUBSET [task : Task, cid : BOOLEAN]
        BY DEF Update
  <2>4. upd' \in Update /\ upd'.pc \notin {"get", "put"}
        BY <1>13, <2>3, UpdateTyped DEF UpdatePut
  <2> QED BY <1>13, <2>2, <2>4 DEF UpdatePut
<1>14. ASSUME NEW t \in Task, ContainerExits(t) \/ ContainerStarts(t) \/ ContainerRemoved(t)
       PROVE  TypeOK'
       BY <1>14 DEF ContainerExits, ContainerStarts, ContainerRemoved
<1>15. CASE Crash
       BY <1>15, UpdateTyped DEF Crash, Asleep, NotStored, Update, Idle
<1>16. CASE Start
       BY <1>16 DEF Start
<1>17. CASE UNCHANGED workerVars
       BY <1>17 DEF workerVars
<1> HIDE DEF TypeOK
<1> QED BY <1>1, <1>2, <1>3, <1>4, <1>5, <1>6, <1>7, <1>8, <1>9, <1>10, <1>11, <1>12,
           <1>13, <1>14, <1>15, <1>16, <1>17 DEF Next, RunTasksForever, UpdateTaskStatsForever

-----------------------------------------------------------------------------
(* Where the goroutines are, and who may still record an end. *)

(* What a Put does to the state of the tasks. *)
LEMMA PutStates ==
  ASSUME TypeOK, NEW t \in Task, NEW v \in Entry, Put(t, v)
  PROVE  /\ \A u \in Task \ {t} : taskDb'[u] = taskDb[u] /\ (u \in revised' <=> u \in revised)
         /\ \/ taskDb'[t] = v
            \/ taskDb'[t] = taskDb[t]
         /\ t \in revised' =>
              \/ t \in revised
              \/ taskDb[t].state \in Terminal /\ taskDb'[t] = v /\ v.state # taskDb[t].state
BY DEF TypeOK, Put

(* The steps that change neither taskDb nor what the goroutines hold. *)
LEMMA GoroutinesUntouched ==
  ASSUME RunInv, WatchOnce, EndInv, UNCHANGED <<taskDb, run, upd, revised>>
  PROVE  RunInv' /\ WatchOnce' /\ EndInv'
BY DEF RunInv, WatchOnce, EndInv, Ending, Watched

LEMMA NextGoroutines ==
  IInv /\ [Next]_workerVars => RunInv' /\ WatchOnce' /\ EndInv'
<1> SUFFICES ASSUME IInv, [Next]_workerVars
             PROVE  RunInv' /\ WatchOnce' /\ EndInv'
    OBVIOUS
<1> USE DEF IInv, loopVars, requests
<1> DEFINE Goal == RunInv' /\ WatchOnce' /\ EndInv'
<1>1. ASSUME NEW t \in Task, NEW cid \in BOOLEAN,
             StartTaskHandler(t, cid) \/ StopTaskHandler(t)
      PROVE  Goal
      BY <1>1, GoroutinesUntouched DEF StartTaskHandler, StopTaskHandler
<1>2. ASSUME NEW m \in stopping, StopTaskEnqueue(m) PROVE Goal
      BY <1>2, GoroutinesUntouched DEF StopTaskEnqueue
<1>3. CASE Dequeue
      BY <1>3 DEF Dequeue, RunInv, WatchOnce, EndInv, Ending, Watched
<1>4. CASE TransitionTask
  <2>1. run \in InHand /\ run.pc = "dequeued" /\ run.task \in Task
        BY <1>4 DEF TransitionTask, TypeOK, Idle, InHand
  <2>2. upd' = upd
        BY <1>4 DEF TransitionTask
  <2>3. Requested(run)
        BY <2>1 DEF RequestInv
  <2> DEFINE t == run.task
             p == IF taskDb[t].state = Absent THEN run.state ELSE taskDb[t].state
  <2>4. p \in State /\ (taskDb[t].state = Absent => run.state = Scheduled)
        BY <2>1, <2>3 DEF Requested, InHand, TypeOK, Entry, State
  <2>5. /\ \A u \in Task :
             \/ taskDb'[u] = taskDb[u]
             \/ u = t /\ taskDb[t].state = Absent /\ taskDb'[t].state = Scheduled
        /\ revised' = revised
    <3>1. CASE taskDb[t].state = Absent
      <4>1. Put(t, TaskInState(run.state, run.cid))
            BY <1>4, <3>1 DEF TransitionTask
      <4>2. TaskInState(run.state, run.cid).state = Scheduled
            BY <2>4, <3>1 DEF TaskInState
      <4>3. /\ \A u \in Task \ {t} : taskDb'[u] = taskDb[u]
            /\ taskDb'[t] = TaskInState(run.state, run.cid) \/ taskDb'[t] = taskDb[t]
            BY <2>1, <4>1 DEF Put, TypeOK
      <4>4. revised' = revised
            BY <3>1, <4>1 DEF Put, Terminal
      <4> QED BY <3>1, <4>2, <4>3, <4>4
    <3>2. CASE taskDb[t].state # Absent
          BY <1>4, <3>2 DEF TransitionTask
    <3> QED BY <3>1, <3>2
  <2>6. \/ run' = Idle
        \/ run' = [run EXCEPT !.pc = "start"] /\ run.state = Scheduled
             /\ taskDb'[t].state \in {Absent, Scheduled}
        \/ run' = [run EXCEPT !.pc = "stop"] /\ run.state = Completed
             /\ taskDb[t].state = Running
    <3>1. CASE ~ ValidStateTransition(p, run.state)
          BY <1>4, <3>1 DEF TransitionTask
    <3>2. CASE ValidStateTransition(p, run.state) /\ run.state = Scheduled
      <4>1. p \in {Pending, Scheduled}
            BY <3>2, <2>4, Transitions
      <4>2. taskDb[t].state \in {Absent, Scheduled}
            BY <4>1, <2>1 DEF TypeOK, Entry
      <4> QED BY <1>4, <3>2, <4>2, <2>5, <2>1 DEF TransitionTask
    <3>3. CASE ValidStateTransition(p, run.state) /\ run.state = Completed
      <4>1. p = Running
            BY <3>3, <2>4, Transitions
      <4> QED BY <1>4, <3>3, <4>1 DEF TransitionTask
    <3> QED BY <2>1, <3>1, <3>2, <3>3 DEF InHand
  <2>7. RunInv'
        BY <2>1, <2>6 DEF RunInv, InHand, Idle
  <2>8. WatchOnce'
        BY <2>2 DEF WatchOnce
  <2>9. EndInv'
    <3> SUFFICES ASSUME NEW u \in Task
                 PROVE  /\ taskDb'[u].state \in {Absent, Scheduled} => ~ Ending(u)' /\ ~ Watched(u)'
                        /\ taskDb'[u].state \in Terminal => ~ (Ending(u)' /\ Watched(u)')
                        /\ u \in revised' => taskDb'[u].state \in Terminal
                                             /\ ~ Ending(u)' /\ ~ Watched(u)'
        BY DEF EndInv
    <3>1. Watched(u)' <=> Watched(u)
          BY <2>2 DEF Watched
    <3>2. Ending(u)' => u = t /\ taskDb[t].state = Running
          BY <2>1, <2>6 DEF Ending, InHand, Idle
    <3>3. /\ taskDb'[u].state \in {Absent, Scheduled} => taskDb[u].state \in {Absent, Scheduled}
          /\ taskDb[u].state \in {Running} \cup Terminal => taskDb'[u] = taskDb[u]
          /\ taskDb'[u].state \in Terminal => taskDb[u].state \in Terminal
          BY <2>5 DEF Terminal
    <3> QED BY <3>1, <3>2, <3>3, <2>5 DEF EndInv, Terminal
  <2> QED BY <2>7, <2>8, <2>9
<1>5. CASE DockerRun
  <2>1. run \in InHand /\ run.pc = "start"
        BY <1>5 DEF DockerRun, TypeOK, Idle
  <2>2. /\ run'.pc = "started" /\ run'.task = run.task /\ run'.state = run.state
        /\ taskDb' = taskDb /\ upd' = upd /\ revised' = revised
        BY <1>5, <2>1 DEF DockerRun, InHand
  <2> QED BY <2>1, <2>2 DEF RunInv, WatchOnce, EndInv, Ending, Watched
<1>6. CASE StartTaskPut
  <2>1. /\ run.task \in Task /\ run.cid \in BOOLEAN
        /\ taskDb[run.task].state \in {Absent, Scheduled}
        BY <1>6 DEF StartTaskPut, TypeOK, Idle, InHand, RunInv
  <2>2. /\ TaskInState(Running, run.cid) \in Entry
        /\ TaskInState(Running, run.cid).state = Running
        BY <2>1 DEF TaskInState, Entry
  <2>3. /\ run' = Idle /\ upd' = upd
        /\ Put(run.task, TaskInState(Running, run.cid))
        BY <1>6 DEF StartTaskPut
  <2>4. /\ \A u \in Task \ {run.task} : taskDb'[u] = taskDb[u] /\ (u \in revised' <=> u \in revised)
        /\ taskDb'[run.task].state = Running \/ taskDb'[run.task] = taskDb[run.task]
        /\ run.task \notin revised'
        BY <2>1, <2>2, <2>3, PutStates DEF EndInv, Terminal
  <2> QED BY <2>1, <2>3, <2>4 DEF RunInv, WatchOnce, EndInv, Ending, Watched, Idle, Terminal
<1>7. CASE DockerStop
  <2>1. run \in InHand /\ run.pc = "stop"
        BY <1>7 DEF DockerStop, TypeOK, Idle
  <2>2. /\ run'.pc = "stopped" /\ run'.task = run.task /\ run'.state = run.state
        /\ taskDb' = taskDb /\ upd' = upd /\ revised' = revised
        BY <1>7, <2>1 DEF DockerStop, InHand
  <2> QED BY <2>1, <2>2 DEF RunInv, WatchOnce, EndInv, Ending, Watched
<1>8. CASE StopTaskPut
  <2>1. run.task \in Task /\ run.cid \in BOOLEAN /\ Ending(run.task)
        BY <1>8 DEF StopTaskPut, TypeOK, Idle, InHand, Ending
  <2>2. /\ TaskInState(Completed, run.cid) \in Entry
        /\ TaskInState(Completed, run.cid).state = Completed
        BY <2>1 DEF TaskInState, Entry
  <2>3. /\ run' = Idle /\ upd' = upd
        /\ Put(run.task, TaskInState(Completed, run.cid))
        BY <1>8 DEF StopTaskPut
  <2>4. /\ \A u \in Task \ {run.task} : taskDb'[u] = taskDb[u] /\ (u \in revised' <=> u \in revised)
        /\ taskDb'[run.task].state = Completed \/ taskDb'[run.task] = taskDb[run.task]
        /\ run.task \in revised' => taskDb[run.task].state \in Terminal
                                   /\ taskDb'[run.task].state = Completed
        BY <2>1, <2>2, <2>3, PutStates DEF EndInv
  <2>5. \A u \in Task : ~ Ending(u)' /\ (Watched(u)' <=> Watched(u))
        BY <2>3 DEF Ending, Watched, Idle
  <2>6. taskDb[run.task].state \notin {Absent, Scheduled}
        BY <2>1 DEF EndInv
  <2>7. EndInv'
        BY <2>1, <2>4, <2>5, <2>6 DEF EndInv, Terminal
  <2> QED BY <2>3, <2>7 DEF RunInv, WatchOnce, Idle
<1>9. CASE UpdateList
  <2> DEFINE todo == {[task |-> t, cid |-> taskDb[t].cid] :
                        t \in {u \in Task : taskDb[u].state = Running}}
  <2>1. todo \in SUBSET [task : Task, cid : BOOLEAN]
        BY DEF TypeOK, Entry
  <2>2. /\ upd' = UpdateNext(todo) /\ upd.pc = "sleep"
        /\ run' = run /\ taskDb' = taskDb /\ revised' = revised
        BY <1>9 DEF UpdateList
  <2>3. /\ upd'.pc \in {"sleep", "loop"} /\ upd'.todo = todo
        /\ upd'.pc = "sleep" => todo = {}
        BY <2>1, <2>2, UpdateTyped
  <2>4. \A u \in Task : Watched(u)' => taskDb[u].state = Running
        BY <2>3 DEF Watched
  <2>5. \A u \in Task : Ending(u)' <=> Ending(u)
        BY <2>2 DEF Ending
  <2>6. \A m, n \in todo : m.task = n.task => m = n
        OBVIOUS
  <2>7. WatchOnce'
        BY <2>3, <2>6 DEF WatchOnce
  <2>8. EndInv'
        BY <2>2, <2>4, <2>5 DEF EndInv, Terminal
  <2> QED BY <2>2, <2>7, <2>8 DEF RunInv
<1>10. ASSUME NEW m \in [task : Task, cid : BOOLEAN], UpdateInspect(m) PROVE Goal
  <2>1. upd.pc = "loop" /\ m \in upd.todo /\ upd \in Update
        BY <1>10 DEF UpdateInspect, TypeOK
  <2>2. upd.todo \ {m} \in SUBSET [task : Task, cid : BOOLEAN]
        BY <2>1 DEF Update
  <2>3. run' = run /\ taskDb' = taskDb /\ revised' = revised
        BY <1>10 DEF UpdateInspect
  <2>4. /\ upd'.todo = upd.todo \ {m}
        /\ upd'.pc = "sleep" => upd.todo \ {m} = {}
        /\ upd'.pc \in {"get", "put"} => upd'.task = m.task
    <3>1. CASE upd' = UpdateNext(upd.todo \ {m})
          BY <2>2, <3>1, UpdateTyped
    <3>2. CASE upd' = [upd EXCEPT !.pc = "get", !.task = m.task, !.todo = @ \ {m}]
          BY <2>1, <3>2 DEF Update
    <3> QED BY <1>10, <3>1, <3>2 DEF UpdateInspect
  <2>5. \A u \in Task : (Watched(u)' => Watched(u)) /\ (Ending(u)' <=> Ending(u))
        BY <2>1, <2>3, <2>4 DEF Watched, Ending
  <2>6. WatchOnce'
        BY <2>1, <2>4 DEF WatchOnce
  <2>7. EndInv'
        BY <2>3, <2>5 DEF EndInv
  <2> QED BY <2>3, <2>6, <2>7 DEF RunInv
<1>11. CASE UpdateGet
  <2>1. /\ upd.pc = "get" /\ upd'.pc = "put" /\ upd'.task = upd.task /\ upd'.todo = upd.todo
        /\ run' = run /\ taskDb' = taskDb /\ revised' = revised
        BY <1>11 DEF UpdateGet, TypeOK, Update
  <2> QED BY <2>1 DEF RunInv, WatchOnce, EndInv, Ending, Watched
<1>12. CASE UpdatePut
  <2>1. /\ upd.pc = "put" /\ upd.task \in Task /\ Watched(upd.task)
        /\ [upd.got EXCEPT !.state = Failed] \in Entry
        /\ [upd.got EXCEPT !.state = Failed].state = Failed
        /\ upd.todo \in SUBSET [task : Task, cid : BOOLEAN]
        BY <1>12 DEF UpdatePut, TypeOK, Update, Entry, Watched
  <2>2. /\ run' = run /\ upd' = UpdateNext(upd.todo)
        /\ Put(upd.task, [upd.got EXCEPT !.state = Failed])
        BY <1>12 DEF UpdatePut
  <2>3. /\ \A u \in Task \ {upd.task} : taskDb'[u] = taskDb[u] /\ (u \in revised' <=> u \in revised)
        /\ taskDb'[upd.task].state = Failed \/ taskDb'[upd.task] = taskDb[upd.task]
        /\ upd.task \in revised' => taskDb[upd.task].state \in Terminal
                                   /\ taskDb'[upd.task].state = Failed
        BY <2>1, <2>2, PutStates DEF EndInv
  <2>4. /\ upd'.pc \in {"sleep", "loop"} /\ upd'.todo = upd.todo
        /\ upd'.pc = "sleep" => upd.todo = {}
        BY <2>1, <2>2, UpdateTyped
  <2>5. \A u \in Task : (Watched(u)' => Watched(u) /\ u # upd.task) /\ (Ending(u)' <=> Ending(u))
        BY <2>1, <2>2, <2>4 DEF Watched, Ending, WatchOnce
  <2>6. taskDb[upd.task].state \notin {Absent, Scheduled}
        BY <2>1 DEF EndInv
  <2>7. WatchOnce'
        BY <2>4 DEF WatchOnce
  <2>8. EndInv'
        BY <2>1, <2>3, <2>5, <2>6 DEF EndInv, Terminal
  <2>9. RunInv'
        BY <2>2, <2>3, <2>6 DEF RunInv, TypeOK, Idle, InHand
  <2> QED BY <2>7, <2>8, <2>9
<1>13. ASSUME NEW t \in Task, ContainerExits(t) \/ ContainerStarts(t) \/ ContainerRemoved(t)
       PROVE  Goal
       BY <1>13, GoroutinesUntouched DEF ContainerExits, ContainerStarts, ContainerRemoved
<1>14. CASE Crash \/ Start
       BY <1>14 DEF Crash, Start, RunInv, WatchOnce, EndInv, Ending, Watched, Idle, Asleep
<1>15. CASE UNCHANGED workerVars
       BY <1>15, GoroutinesUntouched DEF workerVars
<1> QED BY <1>1, <1>2, <1>3, <1>4, <1>5, <1>6, <1>7, <1>8, <1>9, <1>10, <1>11, <1>12,
           <1>13, <1>14, <1>15 DEF Next, RunTasksForever, UpdateTaskStatsForever

-----------------------------------------------------------------------------
(* Every step of the worker is a step of the contract, or none. *)

USE DEF Contract!Absent, Contract!Scheduled, Contract!Running, Contract!Completed,
        Contract!Failed, Contract!Terminal

StaysOrWorks == Contract!Next \/ UNCHANGED Contract!contractVars

LEMMA Unreported ==
  ASSUME UNCHANGED <<taskDb, posted, asked, revised>>
  PROVE  StaysOrWorks
BY DEF StaysOrWorks, Contract!contractVars

(* A Put is a step of the contract if it moves the task forward or, once,  *)
(* changes its end.                                                        *)
LEMMA PutContract ==
  ASSUME TypeOK, NEW t \in Task, NEW v \in Entry, Put(t, v), UNCHANGED <<posted, asked>>,
         t \in posted,
         v.state = Completed => t \in asked,
         \/ v.state \in Contract!Follows(taskDb[t].state)
         \/ taskDb[t].state \in Terminal /\ v.state \in Terminal /\ t \notin revised
  PROVE  StaysOrWorks
<1>1. CASE UNCHANGED <<taskDb, revised>>
      BY <1>1, Unreported
<1>2. CASE taskDb' = [taskDb EXCEPT ![t] = v]
           /\ revised' = IF taskDb[t].state \in Terminal \ {v.state}
                         THEN revised \cup {t} ELSE revised
  <2> DEFINE rep == [u \in Task |-> taskDb[u].state]
  <2>1. [u \in Task |-> taskDb'[u].state] = [rep EXCEPT ![t] = v.state]
        BY <1>2 DEF TypeOK
  <2>2. Contract!Set(t, v.state)
        BY <2>1 DEF Contract!Set
  <2>3. rep[t] = taskDb[t].state
        OBVIOUS
  <2>4. CASE v.state \in Contract!Follows(taskDb[t].state)
    <3>1. taskDb[t].state \notin Terminal
          BY <2>4 DEF Contract!Follows, Terminal
    <3>2. revised' = revised
          BY <1>2, <3>1
    <3>3. Contract!Advance(t)
          BY <2>2, <2>3, <2>4, <3>2 DEF Contract!Advance
    <3> QED BY <3>3 DEF StaysOrWorks, Contract!Next, Contract!Work
  <2>5. CASE taskDb[t].state \in Terminal /\ v.state \in Terminal /\ t \notin revised
    <3>1. CASE v.state = taskDb[t].state
      <4>1. revised' = revised
            BY <1>2, <3>1
      <4>2. [u \in Task |-> taskDb'[u].state] = rep
            BY <2>1, <2>3, <3>1
      <4> QED BY <4>1, <4>2 DEF StaysOrWorks, Contract!contractVars
    <3>2. CASE v.state # taskDb[t].state
      <4>1. revised' = revised \cup {t}
            BY <1>2, <2>5, <3>2
      <4>2. Contract!Revise(t)
            BY <2>2, <2>3, <2>5, <3>2, <4>1 DEF Contract!Revise, Terminal
      <4> QED BY <4>2 DEF StaysOrWorks, Contract!Next, Contract!Work
    <3> QED BY <3>1, <3>2
  <2> QED BY <2>4, <2>5
<1> QED BY <1>1, <1>2 DEF Put

LEMMA NextContract == IInv /\ [Next]_workerVars => StaysOrWorks
<1> SUFFICES ASSUME IInv, [Next]_workerVars PROVE StaysOrWorks
    OBVIOUS
<1> USE DEF IInv, loopVars, requests
<1>1. ASSUME NEW t \in Task, NEW cid \in BOOLEAN, StartTaskHandler(t, cid) PROVE StaysOrWorks
  <2>1. Contract!Post(t)
        BY <1>1 DEF StartTaskHandler, Contract!Post
  <2> QED BY <2>1 DEF StaysOrWorks, Contract!Next
<1>2. ASSUME NEW t \in Task, StopTaskHandler(t) PROVE StaysOrWorks
  <2>1. Contract!Ask(t)
        BY <1>2 DEF StopTaskHandler, Contract!Ask
  <2> QED BY <2>1 DEF StaysOrWorks, Contract!Next
<1>3. ASSUME NEW m \in stopping, StopTaskEnqueue(m) PROVE StaysOrWorks
      BY <1>3, Unreported DEF StopTaskEnqueue
<1>4. CASE Dequeue \/ DockerRun \/ DockerStop
      BY <1>4, Unreported DEF Dequeue, DockerRun, DockerStop
<1>5. CASE TransitionTask
  <2>1. run \in InHand /\ run.task \in Task /\ Requested(run)
        BY <1>5 DEF TransitionTask, TypeOK, Idle, InHand, RequestInv
  <2>2. CASE taskDb[run.task].state # Absent
        BY <1>5, <2>2, Unreported DEF TransitionTask
  <2>3. CASE taskDb[run.task].state = Absent
    <3>1. run.state = Scheduled
          BY <2>1, <2>3 DEF Requested, InHand
    <3>2. Put(run.task, TaskInState(run.state, run.cid)) /\ UNCHANGED <<posted, asked>>
          BY <1>5, <2>3 DEF TransitionTask
    <3>3. /\ TaskInState(run.state, run.cid) \in Entry
          /\ TaskInState(run.state, run.cid).state = Scheduled
          BY <2>1, <3>1 DEF TaskInState, Entry, InHand
    <3>4. Scheduled \in Contract!Follows(taskDb[run.task].state)
          BY <2>3 DEF Contract!Follows
    <3>5. run.task \in posted
          BY <2>1 DEF Requested
    <3> QED BY <2>1, <3>2, <3>3, <3>4, <3>5, PutContract
  <2> QED BY <2>2, <2>3
<1>6. CASE StartTaskPut
  <2>1. /\ run.task \in Task /\ run.cid \in BOOLEAN /\ run.task \in posted
        /\ taskDb[run.task].state \in {Absent, Scheduled}
        BY <1>6 DEF StartTaskPut, TypeOK, Idle, InHand, RunInv, RequestInv, Requested
  <2>2. /\ TaskInState(Running, run.cid) \in Entry
        /\ TaskInState(Running, run.cid).state = Running
        BY <2>1 DEF TaskInState, Entry
  <2>3. Put(run.task, TaskInState(Running, run.cid)) /\ UNCHANGED <<posted, asked>>
        BY <1>6 DEF StartTaskPut
  <2>4. Running \in Contract!Follows(taskDb[run.task].state)
        BY <2>1 DEF Contract!Follows
  <2> QED BY <2>1, <2>2, <2>3, <2>4, PutContract
<1>7. CASE StopTaskPut
  <2>1. run.task \in Task /\ run.cid \in BOOLEAN /\ Ending(run.task) /\ run.state = Completed
        BY <1>7 DEF StopTaskPut, TypeOK, Idle, InHand, Ending, RunInv
  <2>2. run.task \in posted /\ run.task \in asked
        BY <1>7, <2>1 DEF StopTaskPut, RequestInv, Requested
  <2>3. /\ TaskInState(Completed, run.cid) \in Entry
        /\ TaskInState(Completed, run.cid).state = Completed
        BY <2>1 DEF TaskInState, Entry
  <2>4. Put(run.task, TaskInState(Completed, run.cid)) /\ UNCHANGED <<posted, asked>>
        BY <1>7 DEF StopTaskPut
  <2>5. taskDb[run.task].state \in {Running} \cup Terminal /\ run.task \notin revised
        BY <2>1 DEF EndInv, TypeOK, Entry, Terminal
  <2>6. taskDb[run.task].state = Running => Completed \in Contract!Follows(taskDb[run.task].state)
        BY DEF Contract!Follows, Terminal
  <2> QED BY <2>1, <2>2, <2>3, <2>4, <2>5, <2>6, PutContract DEF Terminal
<1>8. CASE UpdateList \/ UpdateGet
      BY <1>8, Unreported DEF UpdateList, UpdateGet
<1>9. ASSUME NEW m \in [task : Task, cid : BOOLEAN], UpdateInspect(m) PROVE StaysOrWorks
      BY <1>9, Unreported DEF UpdateInspect
<1>10. CASE UpdatePut
  <2> DEFINE v == [upd.got EXCEPT !.state = Failed]
  <2>1. /\ upd.task \in Task /\ Watched(upd.task)
        /\ v \in Entry /\ v.state = Failed
        BY <1>10 DEF UpdatePut, TypeOK, Update, Entry, Watched
  <2>2. Put(upd.task, v) /\ UNCHANGED <<posted, asked>>
        BY <1>10 DEF UpdatePut
  <2>3. taskDb[upd.task].state \in {Running} \cup Terminal /\ upd.task \notin revised
        BY <2>1 DEF EndInv, TypeOK, Entry, Terminal
  <2>4. taskDb[upd.task].state = Running => Failed \in Contract!Follows(taskDb[upd.task].state)
        BY DEF Contract!Follows, Terminal
  <2>5. upd.task \in posted
        BY <2>1, <2>3 DEF RequestInv, Terminal
  <2> HIDE DEF v
  <2> QED BY <2>1, <2>2, <2>3, <2>4, <2>5, PutContract DEF Terminal
<1>11. ASSUME NEW t \in Task, ContainerExits(t) \/ ContainerStarts(t) \/ ContainerRemoved(t)
       PROVE  StaysOrWorks
       BY <1>11, Unreported DEF ContainerExits, ContainerStarts, ContainerRemoved
<1>12. CASE Crash \/ Start
       BY <1>12, Unreported DEF Crash, Start
<1>13. CASE UNCHANGED workerVars
       BY <1>13, Unreported DEF workerVars
<1> QED BY <1>1, <1>2, <1>3, <1>4, <1>5, <1>6, <1>7, <1>8, <1>9, <1>10, <1>11, <1>12,
           <1>13 DEF Next, RunTasksForever, UpdateTaskStatsForever

(* Requests stay requested: no step forgets a request or a stored task. *)
LEMMA RequestsStay ==
  IInv /\ StaysOrWorks =>
    /\ posted \subseteq posted' /\ asked \subseteq asked'
    /\ \A t \in Task : taskDb[t].state # Absent => taskDb'[t].state # Absent
    /\ \A t \in Task : taskDb'[t].state # Absent => t \in posted'
<1> SUFFICES ASSUME IInv, StaysOrWorks
             PROVE  /\ posted \subseteq posted' /\ asked \subseteq asked'
                    /\ \A t \in Task : taskDb[t].state # Absent => taskDb'[t].state # Absent
                    /\ \A t \in Task : taskDb'[t].state # Absent => t \in posted'
    OBVIOUS
<1> DEFINE rep == [u \in Task |-> taskDb[u].state]
           after == [u \in Task |-> taskDb'[u].state]
<1>1. \A t \in Task : rep[t] = taskDb[t].state /\ after[t] = taskDb'[t].state
      OBVIOUS
<1>2. \A t \in Task : rep[t] # Absent => t \in posted
      BY DEF IInv, RequestInv
<1>3. CASE UNCHANGED Contract!contractVars
      BY <1>1, <1>2, <1>3 DEF Contract!contractVars
<1>4. ASSUME NEW k \in Task, Contract!Post(k) \/ Contract!Ask(k)
      PROVE  posted \subseteq posted' /\ asked \subseteq asked' /\ after = rep
      BY <1>4 DEF Contract!Post, Contract!Ask
<1>5. ASSUME NEW k \in Task, Contract!Work(k)
      PROVE  /\ UNCHANGED <<posted, asked>> /\ k \in posted
             /\ \E s \in {Scheduled, Running} \cup Terminal : after = [rep EXCEPT ![k] = s]
  <2>1. CASE Contract!Advance(k)
        BY <2>1 DEF Contract!Advance, Contract!Set, Contract!Follows, Terminal
  <2>2. CASE Contract!Revise(k)
        BY <2>2, <1>1, <1>2 DEF Contract!Revise, Contract!Set, Terminal
  <2> QED BY <1>5, <2>1, <2>2 DEF Contract!Work
<1> QED BY <1>1, <1>2, <1>3, <1>4, <1>5 DEF StaysOrWorks, Contract!Next, Terminal

LEMMA NextRequestInv == IInv /\ [Next]_workerVars => RequestInv'
<1> SUFFICES ASSUME IInv, [Next]_workerVars PROVE RequestInv'
    OBVIOUS
<1> USE DEF IInv, loopVars, requests
<1>1. /\ posted \subseteq posted' /\ asked \subseteq asked'
      /\ \A t \in Task : taskDb[t].state # Absent => taskDb'[t].state # Absent
      /\ \A t \in Task : taskDb'[t].state # Absent => t \in posted'
      BY NextContract, RequestsStay
<1> DEFINE Still(m) == /\ m.task \in posted'
                       /\ m.state = Completed =>
                            m.task \in asked' /\ taskDb'[m.task].state # Absent
<1>2. RequestInv' <=> /\ \A t \in Task : taskDb'[t].state # Absent => t \in posted'
                      /\ \A i \in DOMAIN queue' : Still(queue'[i])
                      /\ Busy' => Still(run')
                      /\ \A m \in stopping' : Still(m)
      BY DEF RequestInv, Requested
<1>3. /\ \A i \in DOMAIN queue : Still(queue[i])
      /\ Busy => Still(run)
      /\ \A m \in stopping : Still(m)
  <2>1. ASSUME NEW m, m.task \in Task, Requested(m) PROVE Still(m)
        BY <1>1, <2>1 DEF Requested
  <2>2. \A i \in DOMAIN queue : queue[i].task \in Task
    <3>1. queue \in Seq(Desired)
          BY DEF TypeOK
    <3>2. \A i \in DOMAIN queue : queue[i] \in Desired
          BY <3>1
    <3> QED BY <3>2 DEF Desired
  <2>3. Busy => run.task \in Task
        BY DEF TypeOK, InHand, Idle
  <2>4. \A m \in stopping : m.task \in Task
        BY DEF TypeOK
  <2> QED BY <2>1, <2>2, <2>3, <2>4 DEF RequestInv
<1> DEFINE Kept == UNCHANGED <<queue, stopping>> /\ (run' = run \/ run' = Idle)
<1>4. ASSUME Kept PROVE RequestInv'
      BY <1>1, <1>2, <1>3, <1>4 DEF Idle
<1>5. ASSUME NEW t \in Task, NEW cid \in BOOLEAN, StartTaskHandler(t, cid) PROVE RequestInv'
  <2> DEFINE m == Wanted(t, Scheduled, cid)
  <2>1. m \in Desired /\ Still(m)
        BY <1>5 DEF StartTaskHandler, Wanted, Desired
  <2>2. queue' = Append(queue, m) /\ queue \in Seq(Desired)
        BY <1>5 DEF StartTaskHandler, AddTask, TypeOK
  <2> HIDE DEF m
  <2>3. \A i \in DOMAIN queue' : (i \in DOMAIN queue /\ queue'[i] = queue[i]) \/ queue'[i] = m
        BY <2>1, <2>2, QueueAppend
  <2>4. \A i \in DOMAIN queue' : Still(queue'[i])
        BY <1>3, <2>1, <2>3
  <2> QED BY <1>1, <1>2, <1>3, <1>5, <2>4 DEF StartTaskHandler
<1>6. ASSUME NEW t \in Task, StopTaskHandler(t) PROVE RequestInv'
  <2>1. /\ stopping' = stopping \cup {Wanted(t, Completed, taskDb[t].cid)}
        /\ UNCHANGED <<queue, run>>
        BY <1>6 DEF StopTaskHandler
  <2>2. Still(Wanted(t, Completed, taskDb[t].cid))
        BY <1>6 DEF StopTaskHandler, Wanted, RequestInv
  <2> QED BY <1>1, <1>2, <1>3, <2>1, <2>2
<1>7. ASSUME NEW m \in stopping, StopTaskEnqueue(m) PROVE RequestInv'
  <2>1. queue' = Append(queue, m) /\ m \in Desired
        BY <1>7 DEF StopTaskEnqueue, AddTask, TypeOK, Desired
  <2>2. \A i \in DOMAIN queue' : (i \in DOMAIN queue /\ queue'[i] = queue[i]) \/ queue'[i] = m
        BY <2>1, QueueAppend DEF TypeOK
  <2>3. \A i \in DOMAIN queue' : Still(queue'[i])
        BY <1>2, <1>3, <2>2
  <2> QED BY <1>1, <1>2, <1>3, <1>7, <2>3 DEF StopTaskEnqueue
<1>8. CASE Dequeue
  <2>1. queue # <<>> /\ queue' = Tail(queue) /\ queue \in Seq(Desired)
        BY <1>8 DEF Dequeue, TypeOK
  <2> HIDE DEF Desired
  <2>2. Head(queue) = queue[1] /\ 1 \in DOMAIN queue
        BY <2>1, QueueHead
  <2>3. \A i \in DOMAIN queue' : queue'[i] = queue[i + 1] /\ i + 1 \in DOMAIN queue
        BY <2>1, QueueHead
  <2>4. \A i \in DOMAIN queue' : Still(queue'[i])
        BY <1>2, <1>3, <2>3
  <2>5. Still(Head(queue))
        BY <1>2, <1>3, <2>2
  <2>6. Still(run')
        BY <1>8, <2>5 DEF Dequeue
  <2> QED BY <1>1, <1>2, <1>3, <1>8, <2>4, <2>6 DEF Dequeue
<1>9. CASE TransitionTask \/ DockerRun \/ DockerStop
  <2>1. /\ run \in InHand /\ UNCHANGED <<queue, stopping>>
        /\ run' = Idle \/ (run'.task = run.task /\ run'.state = run.state)
    <3>1. run \in InHand
      <4>1. Busy
            BY <1>9 DEF TransitionTask, DockerRun, DockerStop
      <4> QED BY <4>1 DEF TypeOK, Idle
    <3>2. CASE TransitionTask
          BY <3>1, <3>2 DEF TransitionTask, InHand
    <3>3. CASE DockerRun
          BY <3>1, <3>3 DEF DockerRun, InHand
    <3>4. CASE DockerStop
          BY <3>1, <3>4 DEF DockerStop, InHand
    <3> QED BY <1>9, <3>1, <3>2, <3>3, <3>4
  <2>2. Busy
        BY <2>1 DEF InHand
  <2>3. run' = Idle \/ Still(run')
        BY <1>2, <1>3, <2>1, <2>2
  <2> QED BY <1>1, <1>2, <1>3, <2>1, <2>3 DEF Idle
<1>10. CASE StartTaskPut \/ StopTaskPut
       BY <1>4, <1>10 DEF StartTaskPut, StopTaskPut
<1>11. CASE UpdateTaskStatsForever
       BY <1>4, <1>11 DEF UpdateTaskStatsForever, UpdateList, UpdateInspect, UpdateGet, UpdatePut
<1>12. ASSUME NEW t \in Task, ContainerExits(t) \/ ContainerStarts(t) \/ ContainerRemoved(t)
       PROVE  RequestInv'
       BY <1>4, <1>12 DEF ContainerExits, ContainerStarts, ContainerRemoved
<1>13. CASE Crash \/ Start
  <2>1. ~ Busy' /\ stopping' \subseteq stopping /\ (queue' = queue \/ queue' = <<>>)
        BY <1>13 DEF Crash, Start, Idle
  <2> HIDE DEF Busy
  <2> QED BY <1>1, <1>2, <1>3, <2>1
<1>14. CASE UNCHANGED workerVars
       BY <1>4, <1>14 DEF workerVars
<1> QED BY <1>5, <1>6, <1>7, <1>8, <1>9, <1>10, <1>11, <1>12, <1>13, <1>14
        DEF Next, RunTasksForever

-----------------------------------------------------------------------------
(* The conjunction IInv holds in every state of every worker. *)
THEOREM Inductive == Spec => []IInv
<1>1. IInv /\ [Next]_workerVars => IInv'
      BY NextTypeOK, NextGoroutines, NextRequestInv DEF IInv
<1> QED BY InitIInv, <1>1, PTL DEF Spec

(* The types hold: in particular no task is ever stored as pending, also   *)
(* when it is sent with a container id of the user's.                      *)
THEOREM TypeCorrect == Spec => []TypeOK
BY Inductive, PTL DEF IInv

(* A worker implements WorkerContract, whatever is sent to it, whichever   *)
(* of its calls fail and however often it dies.                            *)
THEOREM WorkerKeepsContract == Spec => KeepsContract
<1>1. Init => Contract!Init
      BY DEF Init, NotStored, Contract!Init
<1>2. IInv /\ [Next]_workerVars => [Contract!Next]_Contract!contractVars
      BY NextContract DEF StaysOrWorks
<1> QED BY Inductive, <1>1, <1>2, PTL DEF Spec, KeepsContract, Contract!Spec

-----------------------------------------------------------------------------
(* Of the tasks whose Puts succeed, taskDb knows every start. *)

StartInv ==
  /\ run.pc = "start" /\ run.task \notin StoreFaults => run.task \notin started
  /\ run.pc \in {"start", "started"} /\ run.task \notin StoreFaults =>
       taskDb[run.task].state = Scheduled
  /\ \A t \in started \ StoreFaults : taskDb[t].state # Absent
  /\ \A t \in started \ StoreFaults :
       taskDb[t].state = Scheduled => run.pc = "started" /\ run.task = t

KnownInv == StartInv /\ ContainersKnown

(* The steps of a goroutine that only move a stored task on. *)
LEMMA StoredStays ==
  ASSUME KnownInv, UNCHANGED <<started, run>>,
         \A t \in Task : taskDb[t].state # Absent => taskDb'[t].state # Absent,
         \A t \in Task : taskDb'[t].state = Scheduled <=> taskDb[t].state = Scheduled,
         \A t \in Task : container'[t] # "none" => container[t] # "none",
         started \subseteq Task, Busy => run.task \in Task
  PROVE  KnownInv'
BY DEF KnownInv, StartInv, ContainersKnown

LEMMA NextKnownInv ==
  ASSUME IInv, KnownInv, [Next]_workerVars
  PROVE  KnownInv'
<1> USE DEF IInv, loopVars, requests
<1>1. /\ started \subseteq Task
      /\ Busy => run \in InHand /\ run.task \in Task
      /\ \A t \in Task : taskDb[t].state # Absent => taskDb'[t].state # Absent
  <2>1. Busy => run \in InHand /\ run.task \in Task
        BY DEF TypeOK, Idle, InHand
  <2> QED BY <2>1, NextContract, RequestsStay DEF TypeOK
<1>2. ASSUME UNCHANGED <<taskDb, container, started, run>> PROVE KnownInv'
      BY <1>2 DEF KnownInv, StartInv, ContainersKnown
<1>3. ASSUME NEW t \in Task, NEW cid \in BOOLEAN,
             StartTaskHandler(t, cid) \/ StopTaskHandler(t)
      PROVE  KnownInv'
      BY <1>2, <1>3 DEF StartTaskHandler, StopTaskHandler
<1>4. ASSUME NEW m \in stopping, StopTaskEnqueue(m) PROVE KnownInv'
      BY <1>2, <1>4 DEF StopTaskEnqueue
<1>5. CASE Dequeue
      BY <1>5 DEF Dequeue, KnownInv, StartInv, ContainersKnown
<1>6. CASE TransitionTask
  <2>1. run \in InHand /\ run.pc = "dequeued" /\ run.task \in Task
        BY <1>1, <1>6 DEF TransitionTask
  <2> DEFINE t == run.task
             p == IF taskDb[t].state = Absent THEN run.state ELSE taskDb[t].state
  <2>2. p \in State /\ (taskDb[t].state = Absent => run.state = Scheduled)
        BY <2>1 DEF RequestInv, Requested, InHand, TypeOK, Entry, State
  <2>3. /\ \A u \in Task \ {t} : taskDb'[u] = taskDb[u]
        /\ t \notin StoreFaults => taskDb'[t].state = p
    <3>1. CASE taskDb[t].state = Absent
      <4>1. Put(t, TaskInState(run.state, run.cid))
            BY <1>6, <3>1 DEF TransitionTask
      <4> QED BY <2>1, <3>1, <4>1 DEF Put, TypeOK, TaskInState
    <3>2. CASE taskDb[t].state # Absent
          BY <1>6, <3>2 DEF TransitionTask
    <3> QED BY <3>1, <3>2
  <2>4. \/ run' = Idle
        \/ run' = [run EXCEPT !.pc = "stop"]
        \/ run' = [run EXCEPT !.pc = "start"] /\ p = Scheduled
    <3>1. run.state = Scheduled /\ ValidStateTransition(p, run.state) => p = Scheduled
          BY <2>1, <2>2, Transitions DEF TypeOK, Entry
    <3> QED BY <1>6, <3>1 DEF TransitionTask
  <2>5. started' = started /\ container' = container
        BY <1>6 DEF TransitionTask
  <2>6. t \notin started \ StoreFaults \/ taskDb[t].state \notin {Absent, Scheduled}
        BY <2>1 DEF KnownInv, StartInv
  <2>7. StartInv'
        BY <1>1, <2>1, <2>3, <2>4, <2>5, <2>6 DEF KnownInv, StartInv, Idle, InHand
  <2>8. ContainersKnown'
        BY <1>1, <2>5 DEF KnownInv, ContainersKnown
  <2> QED BY <2>7, <2>8 DEF KnownInv
<1>7. CASE DockerRun
  <2>1. run \in InHand /\ run.pc = "start" /\ run.task \in Task
        BY <1>1, <1>7 DEF DockerRun
  <2>2. /\ run'.pc = "started" /\ run'.task = run.task
        /\ taskDb' = taskDb /\ started' = started \cup {run.task}
        BY <1>7, <2>1 DEF DockerRun, InHand
  <2>3. \A t \in Task \ {run.task} : container'[t] = container[t]
        BY <1>7 DEF DockerRun, TypeOK
  <2> QED BY <2>1, <2>2, <2>3 DEF KnownInv, StartInv, ContainersKnown
<1>8. CASE StartTaskPut
  <2>1. run.pc = "started" /\ run.task \in Task /\ run' = Idle
        BY <1>1, <1>8 DEF StartTaskPut
  <2>2. Put(run.task, TaskInState(Running, run.cid)) /\ UNCHANGED <<started, container>>
        BY <1>8 DEF StartTaskPut
  <2>3. /\ \A u \in Task \ {run.task} : taskDb'[u] = taskDb[u]
        /\ run.task \notin StoreFaults => taskDb'[run.task].state = Running
        BY <2>1, <2>2 DEF Put, TypeOK, TaskInState
  <2> QED BY <1>1, <2>1, <2>2, <2>3 DEF KnownInv, StartInv, ContainersKnown, Idle
<1>9. CASE DockerStop
  <2>1. run \in InHand /\ run.pc = "stop" /\ run.task \in Task
        BY <1>1, <1>9 DEF DockerStop
  <2>2. run'.pc = "stopped" /\ run'.task = run.task /\ UNCHANGED <<taskDb, started>>
        BY <1>9, <2>1 DEF DockerStop, InHand
  <2>3. \A t \in Task : container'[t] # "none" => container[t] # "none"
        BY <1>9, <2>1 DEF DockerStop, TypeOK
  <2> QED BY <2>1, <2>2, <2>3 DEF KnownInv, StartInv, ContainersKnown
<1>10. CASE StopTaskPut
  <2>1. run.pc = "stopped" /\ run.task \in Task /\ run' = Idle
        BY <1>1, <1>10 DEF StopTaskPut
  <2>2. Put(run.task, TaskInState(Completed, run.cid)) /\ UNCHANGED <<started, container>>
        BY <1>10 DEF StopTaskPut
  <2>3. /\ \A u \in Task \ {run.task} : taskDb'[u] = taskDb[u]
        /\ run.task \notin StoreFaults => taskDb'[run.task].state = Completed
        BY <2>1, <2>2 DEF Put, TypeOK, TaskInState
  <2> QED BY <1>1, <2>1, <2>2, <2>3 DEF KnownInv, StartInv, ContainersKnown, Idle
<1>11. CASE UpdateList \/ UpdateGet
       BY <1>2, <1>11 DEF UpdateList, UpdateGet
<1>12. ASSUME NEW m \in [task : Task, cid : BOOLEAN], UpdateInspect(m) PROVE KnownInv'
       BY <1>2, <1>12 DEF UpdateInspect
<1>13. CASE UpdatePut
  <2>1. /\ upd.task \in Task /\ Watched(upd.task)
        /\ [upd.got EXCEPT !.state = Failed].state = Failed
        BY <1>13 DEF UpdatePut, TypeOK, Update, Entry, Watched
  <2>2. /\ Put(upd.task, [upd.got EXCEPT !.state = Failed])
        /\ UNCHANGED <<run, started, container>>
        BY <1>13 DEF UpdatePut
  <2>3. /\ \A u \in Task \ {upd.task} : taskDb'[u] = taskDb[u]
        /\ taskDb'[upd.task].state = Failed \/ taskDb'[upd.task] = taskDb[upd.task]
        BY <2>1, <2>2 DEF Put, TypeOK
  <2>4. taskDb[upd.task].state # Scheduled
        BY <2>1 DEF EndInv
  <2> QED BY <1>1, <2>1, <2>2, <2>3, <2>4, StoredStays
<1>14. ASSUME NEW t \in Task, ContainerExits(t) \/ ContainerStarts(t) \/ ContainerRemoved(t)
       PROVE  KnownInv'
  <2>1. /\ UNCHANGED <<taskDb, run, started>>
        /\ \A u \in Task : container'[u] # "none" => container[u] # "none"
        BY <1>14 DEF ContainerExits, ContainerStarts, ContainerRemoved, TypeOK
  <2> QED BY <1>1, <2>1, StoredStays
<1>15. CASE Crash \/ Start
       BY <1>15 DEF Crash, Start, KnownInv, StartInv, ContainersKnown, Idle
<1>16. CASE UNCHANGED workerVars
       BY <1>2, <1>16 DEF workerVars
<1> QED BY <1>3, <1>4, <1>5, <1>6, <1>7, <1>8, <1>9, <1>10, <1>11, <1>12, <1>13, <1>14,
           <1>15, <1>16 DEF Next, RunTasksForever, UpdateTaskStatsForever

LEMMA KnownForEver == Spec => []KnownInv
<1>1. Init => KnownInv
      BY DEF Init, NotStored, Idle, KnownInv, StartInv, ContainersKnown
<1>2. IInv /\ KnownInv /\ [Next]_workerVars => KnownInv'
      BY NextKnownInv
<1> QED BY Inductive, <1>1, <1>2, PTL DEF Spec

(* If no Put of a task fails, a process does not start the task twice,     *)
(* however often it is sent.                                               *)
THEOREM StartsOnce == Spec => []StartedOnce
<1>1. KnownInv => StartedOnce
      BY DEF KnownInv, StartInv, StartedOnce
<1> QED BY KnownForEver, <1>1, PTL

(* If no Put of a task fails, the task has no container before the worker  *)
(* has a record of it, even after it died while it started one.            *)
THEOREM NoUnknownContainer == Spec => []ContainersKnown
<1>1. KnownInv => ContainersKnown
      BY DEF KnownInv
<1> QED BY KnownForEver, <1>1, PTL
-----------------------------------------------------------------------------
(* Between docker.Stop and the Put after it nobody makes a container anew:  *)
(* that is the loop's own work, and only for a task not yet running.       *)

RemovedInv ==
  /\ run.pc = "stopped" /\ run.cid /\ run.task \notin DockerFaults =>
       container[run.task] = "none"
  /\ CompletedRemoved

(* The steps after which no more tasks are completed, and no container is   *)
(* back.                                                                   *)
LEMMA RemovedStays ==
  ASSUME RemovedInv,
         \A t \in Task : taskDb'[t] = TaskInState(Completed, TRUE) =>
                           taskDb[t] = TaskInState(Completed, TRUE),
         \A t \in Task : container[t] = "none" => container'[t] = "none",
         Busy => run.task \in Task,
         run' = run \/ run'.pc # "stopped"
  PROVE  RemovedInv'
BY DEF RemovedInv, CompletedRemoved

LEMMA NextRemovedInv ==
  ASSUME IInv, RemovedInv, [Next]_workerVars
  PROVE  RemovedInv'
<1> USE DEF IInv, loopVars, requests
<1>1. Busy => run \in InHand /\ run.task \in Task
      BY DEF TypeOK, Idle, InHand
<1>2. ASSUME UNCHANGED <<taskDb, container>>, run' = run \/ run'.pc # "stopped"
      PROVE  RemovedInv'
      BY <1>1, <1>2, RemovedStays
<1>3. ASSUME NEW t \in Task, NEW cid \in BOOLEAN,
             StartTaskHandler(t, cid) \/ StopTaskHandler(t)
      PROVE  RemovedInv'
      BY <1>2, <1>3 DEF StartTaskHandler, StopTaskHandler
<1>4. ASSUME NEW m \in stopping, StopTaskEnqueue(m) PROVE RemovedInv'
      BY <1>2, <1>4 DEF StopTaskEnqueue
<1>5. CASE Dequeue
      BY <1>2, <1>5 DEF Dequeue
<1>6. CASE TransitionTask
  <2>1. run \in InHand /\ run.pc = "dequeued" /\ run.task \in Task
        BY <1>1, <1>6 DEF TransitionTask
  <2>2. run'.pc # "stopped" /\ container' = container
        BY <1>6, <2>1 DEF TransitionTask, Idle, InHand
  <2>3. /\ \A u \in Task \ {run.task} : taskDb'[u] = taskDb[u]
        /\ taskDb'[run.task] = taskDb[run.task] \/ taskDb'[run.task].state = Scheduled
    <3>1. CASE taskDb[run.task].state = Absent
      <4>1. run.state = Scheduled
            BY <2>1, <3>1 DEF RequestInv, Requested, InHand
      <4>2. Put(run.task, TaskInState(run.state, run.cid))
            BY <1>6, <3>1 DEF TransitionTask
      <4> QED BY <2>1, <4>1, <4>2 DEF Put, TypeOK, TaskInState
    <3>2. CASE taskDb[run.task].state # Absent
          BY <1>6, <3>2 DEF TransitionTask
    <3> QED BY <3>1, <3>2
  <2> QED BY <1>1, <2>1, <2>2, <2>3, RemovedStays DEF TaskInState
<1>7. CASE DockerRun
  <2>1. run \in InHand /\ run.pc = "start" /\ run.task \in Task
        BY <1>1, <1>7 DEF DockerRun
  <2>2. run'.pc = "started" /\ taskDb' = taskDb
        BY <1>7, <2>1 DEF DockerRun, InHand
  <2>3. \A t \in Task \ {run.task} : container'[t] = container[t]
        BY <1>7 DEF DockerRun, TypeOK
  <2>4. taskDb[run.task].state \in {Absent, Scheduled}
        BY <2>1 DEF RunInv
  <2> QED BY <2>2, <2>3, <2>4 DEF RemovedInv, CompletedRemoved, TaskInState
<1>8. CASE StartTaskPut
  <2>1. run.pc = "started" /\ run.task \in Task /\ run' = Idle
        BY <1>1, <1>8 DEF StartTaskPut
  <2>2. Put(run.task, TaskInState(Running, run.cid)) /\ container' = container
        BY <1>8 DEF StartTaskPut
  <2>3. /\ \A u \in Task \ {run.task} : taskDb'[u] = taskDb[u]
        /\ taskDb'[run.task] = taskDb[run.task] \/ taskDb'[run.task].state = Running
        BY <2>1, <2>2 DEF Put, TypeOK, TaskInState
  <2> QED BY <1>1, <2>1, <2>2, <2>3, RemovedStays DEF TaskInState, Idle
<1>9. CASE DockerStop
  <2>1. run \in InHand /\ run.pc = "stop" /\ run.task \in Task
        BY <1>1, <1>9 DEF DockerStop
  <2>2. run'.task = run.task /\ run'.cid = run.cid /\ taskDb' = taskDb
        BY <1>9, <2>1 DEF DockerStop, InHand
  <2>3. \A t \in Task : container[t] = "none" => container'[t] = "none"
        BY <1>9, <2>1 DEF DockerStop, TypeOK
  <2>4. run.cid /\ run.task \notin DockerFaults => container'[run.task] = "none"
        BY <1>9, <2>1 DEF DockerStop, TypeOK
  <2> QED BY <2>2, <2>3, <2>4 DEF RemovedInv, CompletedRemoved
<1>10. CASE StopTaskPut
  <2>1. run.pc = "stopped" /\ run.task \in Task /\ run' = Idle
        BY <1>1, <1>10 DEF StopTaskPut
  <2>2. Put(run.task, TaskInState(Completed, run.cid)) /\ container' = container
        BY <1>10 DEF StopTaskPut
  <2>3. /\ \A u \in Task \ {run.task} : taskDb'[u] = taskDb[u]
        /\ taskDb'[run.task] = taskDb[run.task] \/ taskDb'[run.task] = TaskInState(Completed, run.cid)
        BY <2>1, <2>2 DEF Put, TypeOK
  <2>4. TaskInState(Completed, run.cid) = TaskInState(Completed, TRUE) => run.cid = TRUE
        BY DEF TaskInState
  <2>5. run'.pc # "stopped"
        BY <2>1 DEF Idle
  <2> QED BY <2>1, <2>2, <2>3, <2>4, <2>5 DEF RemovedInv, CompletedRemoved
<1>11. CASE UpdateList \/ UpdateGet
       BY <1>2, <1>11 DEF UpdateList, UpdateGet
<1>12. ASSUME NEW m \in [task : Task, cid : BOOLEAN], UpdateInspect(m) PROVE RemovedInv'
       BY <1>2, <1>12 DEF UpdateInspect
<1>13. CASE UpdatePut
  <2>1. upd.task \in Task /\ [upd.got EXCEPT !.state = Failed].state = Failed
        BY <1>13 DEF UpdatePut, TypeOK, Update, Entry
  <2>2. Put(upd.task, [upd.got EXCEPT !.state = Failed]) /\ UNCHANGED <<run, container>>
        BY <1>13 DEF UpdatePut
  <2>3. /\ \A u \in Task \ {upd.task} : taskDb'[u] = taskDb[u]
        /\ taskDb'[upd.task] = taskDb[upd.task] \/ taskDb'[upd.task].state = Failed
        BY <2>1, <2>2 DEF Put, TypeOK
  <2> QED BY <1>1, <2>1, <2>2, <2>3, RemovedStays DEF TaskInState
<1>14. ASSUME NEW t \in Task, ContainerExits(t) \/ ContainerStarts(t) \/ ContainerRemoved(t)
       PROVE  RemovedInv'
  <2>1. /\ UNCHANGED <<taskDb, run>>
        /\ \A u \in Task : container[u] = "none" => container'[u] = "none"
        BY <1>14 DEF ContainerExits, ContainerStarts, ContainerRemoved, TypeOK
  <2> QED BY <1>1, <2>1, RemovedStays
<1>15. CASE Crash \/ Start
       BY <1>2, <1>15 DEF Crash, Start, Idle
<1>16. CASE UNCHANGED workerVars
       BY <1>2, <1>16 DEF workerVars
<1> QED BY <1>3, <1>4, <1>5, <1>6, <1>7, <1>8, <1>9, <1>10, <1>11, <1>12, <1>13, <1>14,
           <1>15, <1>16 DEF Next, RunTasksForever, UpdateTaskStatsForever

(* If no call of Docker for a task fails, a task stored as completed under  *)
(* its container id has no container (StopTask, docker.Stop), whatever     *)
(* updateTasks, other requests and crashes do in between.                  *)
THEOREM CompletedIsRemoved == Spec => []CompletedRemoved
<1>1. Init => RemovedInv
      BY DEF Init, NotStored, Idle, RemovedInv, CompletedRemoved
<1>2. IInv /\ RemovedInv /\ [Next]_workerVars => RemovedInv'
      BY NextRemovedInv
<1>3. RemovedInv => CompletedRemoved
      BY DEF RemovedInv
<1> QED BY Inductive, <1>1, <1>2, <1>3, PTL DEF Spec
=============================================================================
