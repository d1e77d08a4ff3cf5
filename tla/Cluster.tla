------------------------------ MODULE Cluster -------------------------------
(***************************************************************************)
(* The cluster's list of nodes, and the worker that SelectWorker takes     *)
(* from it.  UpdateWorkerNodes collects the stats of all connected workers *)
(* and replaces the list.  It takes no lock while it collects, and three   *)
(* callers run it at the same time: SelectWorker (SendTasksForever),       *)
(* waitForWorkersForever after each connection, and every GET /nodes.      *)
(*                                                                         *)
(* What the stats say is left out: a list names the workers whose stats    *)
(* are in it, in the order in which they arrived.  For E-PVM any nodes may *)
(* have disk enough for the task, and any scores may come out.             *)
(***************************************************************************)
EXTENDS FiniteSets, Schedulers

CONSTANTS
  Worker,        \* identifiers of workers
  NoWorker,      \* no worker
  Request,       \* requests GET /nodes that are served at the same time
  Send, Join,    \* the other callers: SelectWorker and waitForWorkersForever
  Flaky,         \* the workers whose GET /stats may fail
  MaxScore       \* the highest score of E-PVM: a bound

ASSUME NoWorkerAssumption == NoWorker \notin Worker
ASSUME CallerAssumption == Send # Join /\ {Send, Join} \cap Request = {}
ASSUME FlakyAssumption == Flaky \subseteq Worker
ASSUME MaxScoreAssumption == MaxScore \in Nat

Caller == {Send, Join} \cup Request

VARIABLES
  registered,  \* GetWorkerIds of the state
  clients,     \* workerClientMap: the workers with a client
  joining,     \* waitForWorkersForever: where it is and with which worker
  nodes,       \* workerNodes: the workers listed, in the order of their stats
  pass,        \* each caller's run of UpdateWorkerNodes
  scheduler,   \* the scheduler, with the LastWorkerIdx of round robin
  choice       \* what SelectWorker returned last, and from which list

clusterVars == <<registered, clients, joining, nodes, pass, scheduler, choice>>

Waiting == [pc |-> "wait", worker |-> NoWorker]
NoPass == [pc |-> "idle", ids |-> {}, todo |-> {}, got |-> <<>>]
NoChoice == [worker |-> NoWorker, from |-> <<>>]

(* The workers that were ever registered are read from disk at the start.  *)
Init ==
  /\ registered \in SUBSET Worker
  /\ clients = {}
  /\ joining = Waiting
  /\ nodes = <<>>
  /\ pass = [c \in Caller |-> NoPass]
  /\ scheduler \in {[policy |-> p, last |-> Unset] : p \in {"epvm", "roundrobin"}}
  /\ choice = NoChoice

-----------------------------------------------------------------------------
(* waitForWorkersForever, for one connection after the other. *)

(* Mutant of RegisterWorker: a new worker is not added to the identifiers. *)
RegisterWorker_NotListed(w) ==
  /\ joining = Waiting
  /\ joining' = [pc |-> "registered", worker |-> w]
  /\ UNCHANGED <<registered, clients, nodes, pass, scheduler, choice>>

RegisterWorker(w) ==
  /\ joining = Waiting
  /\ registered' = registered \cup {w}
  /\ joining' = [pc |-> "registered", worker |-> w]
  /\ UNCHANGED <<clients, nodes, pass, scheduler, choice>>

AddClient ==
  /\ joining.pc = "registered"
  /\ clients' = clients \cup {joining.worker}
  /\ joining' = [joining EXCEPT !.pc = "added"]
  /\ UNCHANGED <<registered, nodes, pass, scheduler, choice>>

-----------------------------------------------------------------------------
(* UpdateWorkerNodes: first the identifiers, then the clients are copied.  *)

Begin(c) ==
  /\ pass[c].pc = "idle"
  /\ pass' = [pass EXCEPT ![c] = [NoPass EXCEPT !.pc = "copy", !.ids = registered]]

(* After the worker joined. *)
JoinUpdates ==
  /\ joining.pc = "added"
  /\ Begin(Join)
  /\ joining' = [joining EXCEPT !.pc = "updating"]
  /\ UNCHANGED <<registered, clients, nodes, scheduler, choice>>

GetNodesHandler(r) ==
  /\ Begin(r)
  /\ UNCHANGED <<registered, clients, joining, nodes, scheduler, choice>>

(* SelectWorker begins. *)
SelectWorker ==
  /\ Begin(Send)
  /\ UNCHANGED <<registered, clients, joining, nodes, scheduler, choice>>

(* Mutant of CopyClients: a worker without a client is asked as well. *)
CopyClients_All(c) ==
  /\ pass[c].pc = "copy"
  /\ pass' = [pass EXCEPT ![c].pc = "fetch", ![c].todo = pass[c].ids]
  /\ UNCHANGED <<registered, clients, joining, nodes, scheduler, choice>>

CopyClients(c) ==
  /\ pass[c].pc = "copy"
  /\ pass' = [pass EXCEPT ![c].pc = "fetch", ![c].todo = pass[c].ids \cap clients]
  /\ UNCHANGED <<registered, clients, joining, nodes, scheduler, choice>>

(* Mutant of FetchNodeStats: stats that arrive displace those before them. *)
FetchNodeStats_Displaces(c, w) ==
  /\ w \in pass[c].todo
  /\ pass' = [pass EXCEPT ![c].todo = @ \ {w}, ![c].got = <<w>>]
  /\ UNCHANGED <<registered, clients, joining, nodes, scheduler, choice>>

FetchNodeStats(c, w) ==
  /\ w \in pass[c].todo
  /\ pass' = [pass EXCEPT ![c].todo = @ \ {w}, ![c].got = Append(@, w)]
  /\ UNCHANGED <<registered, clients, joining, nodes, scheduler, choice>>

FetchFails(c, w) ==
  /\ w \in pass[c].todo \cap Flaky
  /\ pass' = [pass EXCEPT ![c].todo = @ \ {w}]
  /\ UNCHANGED <<registered, clients, joining, nodes, scheduler, choice>>

Fetched(c) == pass[c].pc = "fetch" /\ pass[c].todo = {}

(* The caller goes on: SelectWorker reads the list, the others are done. *)
Return(c) ==
  /\ pass' = [pass EXCEPT ![c] = IF c = Send THEN [NoPass EXCEPT !.pc = "read"] ELSE NoPass]
  /\ joining' = IF c = Join THEN Waiting ELSE joining

(* Mutants of ReplaceNodes: waitForWorkersForever does not come back to     *)
(* its listener; an empty list is not returned.                            *)
ReplaceNodes_NeverReturns(c) ==
  /\ Fetched(c)
  /\ nodes' = pass[c].got
  /\ pass' = [pass EXCEPT ![c] = IF c = Send THEN [NoPass EXCEPT !.pc = "read"] ELSE NoPass]
  /\ UNCHANGED <<registered, clients, joining, scheduler, choice>>

ReplaceNodes_NotEmpty(c) ==
  /\ Fetched(c)
  /\ pass[c].got # <<>>
  /\ nodes' = pass[c].got
  /\ Return(c)
  /\ UNCHANGED <<registered, clients, scheduler, choice>>

ReplaceNodes(c) ==
  /\ Fetched(c)
  /\ nodes' = pass[c].got
  /\ Return(c)
  /\ UNCHANGED <<registered, clients, scheduler, choice>>

(* SelectWorker goes on with GetNodes: without a candidate it returns an   *)
(* error, before any score is computed.                                    *)
NoCandidate ==
  /\ pass[Send].pc = "read"
  /\ scheduler.policy = "roundrobin" => nodes = <<>>
  /\ choice' = NoChoice
  /\ pass' = [pass EXCEPT ![Send] = NoPass]
  /\ UNCHANGED <<registered, clients, joining, nodes, scheduler>>

PickEpvm ==
  /\ pass[Send].pc = "read" /\ scheduler.policy = "epvm"
  /\ \E fits \in SUBSET Worker, scores \in [Worker -> 0 .. MaxScore] :
       /\ EpvmCandidates(nodes, fits) # {}
       /\ choice' = [worker |-> Pick(scores, nodes, EpvmCandidates(nodes, fits)), from |-> nodes]
  /\ pass' = [pass EXCEPT ![Send] = NoPass]
  /\ UNCHANGED <<registered, clients, joining, nodes, scheduler>>

(* Mutant of PickRoundRobin: the index is not kept. *)
PickRoundRobin_Forgets ==
  /\ pass[Send].pc = "read" /\ scheduler.policy = "roundrobin" /\ nodes # <<>>
  /\ LET scores == RoundRobinScore(NewWorkerIdx(scheduler.last, nodes), nodes, Worker)
     IN choice' = [worker |-> Pick(scores, nodes, RoundRobinCandidates(nodes)), from |-> nodes]
  /\ pass' = [pass EXCEPT ![Send] = NoPass]
  /\ UNCHANGED <<registered, clients, joining, nodes, scheduler>>

PickRoundRobin ==
  /\ pass[Send].pc = "read" /\ scheduler.policy = "roundrobin" /\ nodes # <<>>
  /\ LET idx == NewWorkerIdx(scheduler.last, nodes)
         scores == RoundRobinScore(idx, nodes, Worker)
     IN /\ scheduler' = [scheduler EXCEPT !.last = idx]
        /\ choice' = [worker |-> Pick(scores, nodes, RoundRobinCandidates(nodes)), from |-> nodes]
  /\ pass' = [pass EXCEPT ![Send] = NoPass]
  /\ UNCHANGED <<registered, clients, joining, nodes>>

PickNode == NoCandidate \/ PickEpvm \/ PickRoundRobin

UpdateWorkerNodes(c) ==
  \/ CopyClients(c)
  \/ \E w \in Worker : FetchNodeStats(c, w) \/ FetchFails(c, w)
  \/ ReplaceNodes(c)

Next ==
  \/ \E w \in Worker : RegisterWorker(w)
  \/ AddClient
  \/ JoinUpdates
  \/ \E r \in Request : GetNodesHandler(r)
  \/ SelectWorker
  \/ \E c \in Caller : UpdateWorkerNodes(c)
  \/ PickNode

(* Goroutines that can go on do so, and a request is answered or fails:    *)
(* yamux gives up a connection that no longer answers.                     *)
Fairness ==
  /\ WF_clusterVars(AddClient)
  /\ WF_clusterVars(JoinUpdates)
  /\ \A c \in Caller : WF_clusterVars(UpdateWorkerNodes(c))
  /\ WF_clusterVars(PickNode)

Spec == Init /\ [][Next]_clusterVars
FairSpec == Spec /\ Fairness

-----------------------------------------------------------------------------
Listed(list) == {list[i] : i \in DOMAIN list}

(* A pass exists as long as its caller is in UpdateWorkerNodes, and only    *)
(* SelectWorker has something to do after it.                              *)
TypeOK ==
  /\ registered \subseteq Worker /\ clients \subseteq registered
  /\ joining \in [pc : {"registered", "added", "updating"}, worker : registered] \cup {Waiting}
  /\ nodes \in Seq(Worker)
  /\ pass \in [Caller -> [pc : {"idle", "copy", "fetch", "read"}, ids : SUBSET Worker,
                          todo : SUBSET Worker, got : Seq(Worker)]]
  /\ \A c \in Caller : pass[c].pc = "read" => c = Send
  /\ pass[Join].pc # "idle" <=> joining.pc = "updating"
  /\ scheduler \in [policy : {"epvm", "roundrobin"}, last : Int] /\ scheduler.last + 1 \in Nat
  /\ choice \in [worker : Worker \cup {NoWorker}, from : Seq(Worker)]

(* Whichever pass wrote the list last, and whichever scheduler picks from   *)
(* it, SelectWorker returns a registered worker that has a client, so that *)
(* SendTask finds one.                                                     *)
PicksConnected == choice.worker # NoWorker => choice.worker \in registered \cap clients

(* Round robin moves on: two selections in a row that find the same list,   *)
(* in the same order, pick different workers of it, if there are two.      *)
RoundRobinMovesOn ==
  [][ /\ PickNode /\ scheduler.policy = "roundrobin"
      /\ choice.from = nodes /\ Len(nodes) > 1
      => choice'.worker # choice.worker ]_clusterVars

(* A pass knows w if w is going to be on its list. *)
Knows(p, w) ==
  /\ p.pc = "copy" => w \in p.ids
  /\ p.pc = "fetch" => w \in p.todo \cup Listed(p.got)

(* Settled: w is listed, and all passes under way know it. *)
Settled(w) ==
  /\ w \in clients \cap Listed(nodes)
  /\ \A c \in Caller : Knows(pass[c], w)

(* A pass that copied the identifiers or the clients before w joined takes  *)
(* it off the list again.  Once these are done no pass does so, whichever  *)
(* of the callers begin and end in which order, if its requests do not     *)
(* fail.                                                                   *)
StaysListed == [][\A w \in Worker \ Flaky : Settled(w) => Settled(w)']_clusterVars

(* Therefore a worker that joined is on the list for good at some time, as  *)
(* long as its requests do not fail and passes go on to be made.  The last *)
(* condition is needed: the pass made for the join itself may write before *)
(* one that began earlier.                                                 *)
JoinStays ==
  []<>(\E c \in Caller : pass[c].pc = "copy") =>
    \A w \in Worker \ Flaky :
      joining = [pc |-> "added", worker |-> w] ~> [](w \in Listed(nodes))

(* A selection that began ends, with a worker or with an error. *)
SelectionEnds == pass[Send].pc # "idle" ~> pass[Send].pc = "idle"
=============================================================================
