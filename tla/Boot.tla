-------------------------------- MODULE Boot --------------------------------
(***************************************************************************)
(* How the manager and the workers start, and how they find one another:   *)
(* the config files with the manager's identity and the workers' uuids,    *)
(* the certificate that a worker pins, and the connection that a worker    *)
(* dials and the manager accepts, asks GET /info and keeps as a client.    *)
(*                                                                         *)
(* Certificate, fingerprint and token are generated together and stored    *)
(* together: they are one Identity.  Addresses, ports and names are left   *)
(* out; a worker has an address when it has a fingerprint, as both come    *)
(* from flags that an operator gives together.  A connection carries the   *)
(* name of its host; what still refers to one that ended refers to Dead.   *)
(***************************************************************************)
EXTENDS Naturals, Sequences, FiniteSets

CONSTANTS
  Host,      \* machines that run a worker
  Identity,  \* identities a manager may generate: a bound on how often
  Uuid,      \* uuids workers may generate: a bound on how often
  None,      \* nothing: no file, no identity, no host, no uuid
  Torn,      \* a file that cannot be decoded
  Dead       \* a connection that ended

ASSUME DistinctAssumption ==
  /\ Identity \cap {None, Torn} = {} /\ Uuid \cap {None} = {} /\ Host \cap {None, Dead} = {}
  /\ None \notin {Torn, Dead} /\ None \notin [uuid : Uuid, pin : Identity \cup {None}]
  /\ Torn \notin [uuid : Uuid, pin : Identity \cup {None}]

VARIABLES
  managerFile,  \* manager_config.json
  manager,      \* the manager process: where it is, and its identity
  issued,       \* the identities that were printed for the operator
  workerFile,   \* worker_config.json of each host
  worker,       \* the worker process of each host: where it is, its config
  link,         \* what the worker's loop is doing: nothing, dialing, serving
  wire,         \* the hosts whose connection works
  backlog,      \* connections the manager has not accepted
  joining,      \* waitForWorkersForever: where it is, its connection, the uuid it got
  clients,      \* workerClientMap: the connection behind each client
  names,        \* history: the uuids that each host registered with
  disturbed,    \* history: the manager's file was torn, or deleted
  lostUuid,     \* history: the hosts whose file was torn
  unregistered  \* history: the hosts whose connection stayed without a client

files == <<managerFile, workerFile>>
connection == <<link, wire, backlog, joining, clients, unregistered>>
bootVars == <<managerFile, manager, issued, workerFile, worker, connection, names,
              disturbed, lostUuid>>

Config == [uuid : Uuid, pin : Identity \cup {None}]
Accepting == [pc |-> "accept", conn |-> None, uuid |-> None]
Down == [pc |-> "down", id |-> None]

Init ==
  /\ managerFile = None /\ manager = Down /\ issued = {}
  /\ workerFile = [h \in Host |-> None]
  /\ worker = [h \in Host |-> [pc |-> "down", cfg |-> None]]
  /\ link = [h \in Host |-> "none"] /\ wire = {} /\ backlog = <<>>
  /\ joining = Accepting /\ clients = [u \in Uuid |-> None]
  /\ names = [h \in Host |-> {}]
  /\ disturbed = FALSE /\ lostUuid = {} /\ unregistered = {}

-----------------------------------------------------------------------------
(* The manager starts: SetupConfig reads the file, or generates a new      *)
(* identity, and always writes the file: it is truncated first.            *)

managerStep == <<issued, workerFile, worker, connection, names, disturbed, lostUuid>>

GenerateManagerIdentity == Identity \ (issued \cup {managerFile})

(* Mutant of SetupConfig: an identity is generated at every start. *)
SetupConfig_Anew ==
  /\ manager.pc = "down"
  /\ \E i \in GenerateManagerIdentity : manager' = [pc |-> "storing", id |-> i]
  /\ managerFile' = Torn
  /\ UNCHANGED managerStep

SetupConfig ==
  /\ manager.pc = "down"
  /\ \E i \in IF managerFile \in Identity THEN {managerFile} ELSE GenerateManagerIdentity :
       manager' = [pc |-> "storing", id |-> i]
  /\ managerFile' = Torn
  /\ UNCHANGED managerStep

(* Mutant of StoreConfigToFile: an error of the write is not noticed. *)
StoreConfigToFile_ErrorIgnored ==
  /\ manager.pc = "storing"
  /\ managerFile' \in IF managerFile = None THEN {None} ELSE {Torn, manager.id}
  /\ manager' = [manager EXCEPT !.pc = "stored"]
  /\ UNCHANGED managerStep

(* The file is written, or what is left of it if it was deleted meanwhile. *)
StoreConfigToFile ==
  /\ manager.pc = "storing"
  /\ managerFile' = IF managerFile = None THEN None ELSE manager.id
  /\ manager' = [manager EXCEPT !.pc = "stored"]
  /\ UNCHANGED managerStep

(* The listeners are open, and token and fingerprint are printed. *)
RunManager ==
  /\ manager.pc = "stored"
  /\ manager' = [manager EXCEPT !.pc = "up"]
  /\ issued' = issued \cup {manager.id}
  /\ UNCHANGED <<files, worker, connection, names, disturbed, lostUuid>>

(* The process dies, or gives up because a file cannot be written or a     *)
(* port is in use.  All of its connections end.                            *)
ManagerStops ==
  /\ manager.pc # "down"
  /\ manager' = Down
  /\ disturbed' = (disturbed \/ manager.pc = "storing")
  /\ wire' = {} /\ backlog' = <<>> /\ joining' = Accepting
  /\ clients' = [u \in Uuid |-> None] /\ unregistered' = {}
  /\ UNCHANGED <<files, issued, worker, link, names, lostUuid>>

(* The operator rotates the token: the file is deleted, at any time before *)
(* the restart.                                                            *)
Rotate ==
  /\ managerFile # None
  /\ managerFile' = None
  /\ disturbed' = TRUE
  /\ UNCHANGED <<manager, issued, workerFile, worker, connection, names, lostUuid>>

-----------------------------------------------------------------------------
(* A worker starts with the fingerprint that the operator gave, if any.    *)

workerStep == <<managerFile, manager, issued, connection, names, disturbed>>

UsedUuid ==
  UNION {names[h] : h \in Host}
    \cup {c.uuid : c \in Config \cap {workerFile[h] : h \in Host}}
    \cup {c.uuid : c \in Config \cap {worker[h].cfg : h \in Host}}

NewWorkerConfigs == [uuid : Uuid \ UsedUuid, pin : {None}]

Updated(h, flag) ==
  [workerFile[h] EXCEPT !.pin = IF flag = None THEN workerFile[h].pin ELSE flag]

(* Mutant of SetupWorkerConfig: flags make a new config. *)
SetupWorkerConfig_Anew(h, flag) ==
  /\ worker[h].pc = "down"
  /\ \E c \in IF flag = None /\ workerFile[h] \in Config THEN {workerFile[h]}
              ELSE [uuid : Uuid \ UsedUuid, pin : {flag}] :
       worker' = [worker EXCEPT ![h] = [pc |-> "storing", cfg |-> c]]
  /\ workerFile' = [workerFile EXCEPT ![h] = Torn]
  /\ UNCHANGED <<workerStep, lostUuid>>

(* Without a config that can be read, a start with flags is refused.       *)
SetupWorkerConfig(h, flag) ==
  /\ worker[h].pc = "down"
  /\ workerFile[h] \in Config \/ flag = None
  /\ \E c \in IF workerFile[h] \in Config THEN {Updated(h, flag)} ELSE NewWorkerConfigs :
       worker' = [worker EXCEPT ![h] = [pc |-> "storing", cfg |-> c]]
  /\ workerFile' = [workerFile EXCEPT ![h] = Torn]
  /\ UNCHANGED <<workerStep, lostUuid>>

StoreWorkerConfig(h) ==
  /\ worker[h].pc = "storing"
  /\ workerFile' = [workerFile EXCEPT ![h] = worker[h].cfg]
  /\ worker' = [worker EXCEPT ![h].pc = "up"]
  /\ UNCHANGED <<workerStep, lostUuid>>

(* A host has at most one connection that waits. *)
Without(seq, h) ==
  IF \E i \in 1 .. Len(seq) : seq[i] = h
  THEN LET k == CHOOSE i \in 1 .. Len(seq) : seq[i] = h
       IN [i \in 1 .. Len(seq) - 1 |-> IF i < k THEN seq[i] ELSE seq[i + 1]]
  ELSE seq

(* The connection of h has ended: who still holds it holds a dead one. *)
Ended(h) ==
  /\ wire' = wire \ {h}
  /\ backlog' = Without(backlog, h)
  /\ joining' = IF joining.conn = h THEN [joining EXCEPT !.conn = Dead] ELSE joining
  /\ clients' = [u \in Uuid |-> IF clients[u] = h THEN Dead ELSE clients[u]]
  /\ unregistered' = unregistered \ {h}

WorkerStops(h) ==
  /\ worker[h].pc # "down"
  /\ worker' = [worker EXCEPT ![h] = [pc |-> "down", cfg |-> None]]
  /\ lostUuid' = IF worker[h].pc = "storing" THEN lostUuid \cup {h} ELSE lostUuid
  /\ link' = [link EXCEPT ![h] = "none"]
  /\ Ended(h)
  /\ UNCHANGED <<files, manager, issued, names, disturbed>>

-----------------------------------------------------------------------------
(* The worker's loop: dial, serve until the session ends, and again.       *)

processes == <<files, manager, issued, worker, disturbed, lostUuid>>

Dial(h) ==
  /\ worker[h].pc = "up" /\ worker[h].cfg.pin # None /\ link[h] = "none"
  /\ manager.pc = "up"
  /\ link' = [link EXCEPT ![h] = "dialing"]
  /\ wire' = wire \cup {h}
  /\ backlog' = Append(backlog, h)
  /\ UNCHANGED <<processes, joining, clients, unregistered, names>>

(* Dial fails, or Serve returns: yamux gives up a session that is dead. *)
SessionEnds(h) ==
  /\ link[h] # "none" /\ h \notin wire
  /\ link' = [link EXCEPT ![h] = "none"]
  /\ UNCHANGED <<processes, wire, backlog, joining, clients, unregistered, names>>

(* The network drops a connection. *)
Break(h) ==
  /\ h \in wire
  /\ Ended(h)
  /\ UNCHANGED <<processes, link, names>>

-----------------------------------------------------------------------------
(* waitForWorkersForever. *)

Accept ==
  /\ manager.pc = "up"
  /\ joining = Accepting /\ backlog # <<>>
  /\ joining' = [pc |-> "info", conn |-> Head(backlog), uuid |-> None]
  /\ backlog' = Tail(backlog)
  /\ UNCHANGED <<processes, link, wire, clients, unregistered, names>>

(* Mutant of GetInfo: the worker accepts any certificate. *)
GetInfo_AnyCertificate(h) ==
  /\ joining.pc = "info" /\ joining.conn = h
  /\ joining' = [joining EXCEPT !.pc = "add", !.uuid = worker[h].cfg.uuid]
  /\ link' = [link EXCEPT ![h] = "serving"]
  /\ UNCHANGED <<processes, wire, backlog, clients, unregistered, names>>

(* The handshake, in which the worker compares the fingerprint, and the    *)
(* answer to GET /info.                                                    *)
GetInfo(h) ==
  /\ joining.pc = "info" /\ joining.conn = h
  /\ worker[h].cfg.pin = manager.id
  /\ joining' = [joining EXCEPT !.pc = "add", !.uuid = worker[h].cfg.uuid]
  /\ link' = [link EXCEPT ![h] = "serving"]
  /\ UNCHANGED <<processes, wire, backlog, clients, unregistered, names>>

(* The worker aborts the handshake with a manager that it does not trust. *)
Mismatch(h) ==
  /\ joining.pc = "info" /\ joining.conn = h
  /\ worker[h].cfg.pin # manager.id
  /\ Ended(h)
  /\ UNCHANGED <<processes, link, names>>

(* GET /info fails: the connection ended, or the answer cannot be read.    *)
(* Nobody ends a connection that works, on which the worker serves.        *)
GetInfoFails ==
  /\ joining.pc = "info"
  /\ \/ joining.conn = Dead /\ UNCHANGED <<link, unregistered>>
     \/ \E h \in Host :
          /\ joining.conn = h /\ worker[h].cfg.pin = manager.id
          /\ link' = [link EXCEPT ![h] = "serving"]
          /\ unregistered' = unregistered \cup {h}
  /\ joining' = Accepting
  /\ UNCHANGED <<processes, wire, backlog, clients, names>>

(* Mutant of AddWorkerAndClient: a client that exists is not replaced. *)
AddWorkerAndClient_KeepsOld ==
  /\ joining.pc = "add"
  /\ clients' = [clients EXCEPT ![joining.uuid] = IF @ = None THEN joining.conn ELSE @]
  /\ names' = [h \in Host |-> IF joining.conn = h THEN names[h] \cup {joining.uuid} ELSE names[h]]
  /\ joining' = Accepting
  /\ UNCHANGED <<processes, link, wire, backlog, unregistered>>

AddWorkerAndClient ==
  /\ joining.pc = "add"
  /\ clients' = [clients EXCEPT ![joining.uuid] = joining.conn]
  /\ names' = [h \in Host |-> IF joining.conn = h THEN names[h] \cup {joining.uuid} ELSE names[h]]
  /\ joining' = Accepting
  /\ UNCHANGED <<processes, link, wire, backlog, unregistered>>

(* RegisterWorker cannot store the name: no client is added, and nobody    *)
(* ends the connection.                                                    *)
RegisterFails ==
  /\ joining.pc = "add"
  /\ unregistered' = unregistered \cup ({joining.conn} \cap Host)
  /\ joining' = Accepting
  /\ UNCHANGED <<processes, link, wire, backlog, clients, names>>

waitForWorkersForever ==
  \/ Accept \/ GetInfoFails \/ AddWorkerAndClient \/ RegisterFails
  \/ \E h \in Host : GetInfo(h) \/ Mismatch(h)

Next ==
  \/ SetupConfig \/ StoreConfigToFile \/ RunManager \/ ManagerStops \/ Rotate
  \/ \E h \in Host, flag \in issued \cup {None} : SetupWorkerConfig(h, flag)
  \/ \E h \in Host : StoreWorkerConfig(h) \/ WorkerStops(h)
  \/ \E h \in Host : Dial(h) \/ SessionEnds(h) \/ Break(h)
  \/ waitForWorkersForever

(* The worker's loop retries for ever and yamux notices a dead session;    *)
(* the manager accepts for ever, and GET /info is answered or fails.       *)
Fairness ==
  /\ WF_bootVars(waitForWorkersForever)
  /\ \A h \in Host : WF_bootVars(Dial(h)) /\ WF_bootVars(SessionEnds(h))

Spec == Init /\ [][Next]_bootVars
FairSpec == Spec /\ Fairness

-----------------------------------------------------------------------------
(* A manager that got past SetupConfig runs with what is on disk, unless    *)
(* the file was deleted since, a connection that waits is one that its     *)
(* worker dials, and waitForWorkersForever has a uuid exactly when it is   *)
(* about to add it.                                                        *)
TypeOK ==
  /\ managerFile \in Identity \cup {None, Torn}
  /\ manager \in [pc : {"storing", "stored", "up"}, id : Identity] \cup {Down}
  /\ manager.pc # "down" =>
       \/ managerFile = IF manager.pc = "storing" THEN Torn ELSE manager.id
       \/ disturbed /\ managerFile = None
  /\ issued \subseteq Identity
  /\ workerFile \in [Host -> Config \cup {None, Torn}]
  /\ worker \in [Host -> [pc : {"storing", "up"}, cfg : Config] \cup [pc : {"down"}, cfg : {None}]]
  /\ \A h \in Host : worker[h].pc = "up" => workerFile[h] = worker[h].cfg
  /\ link \in [Host -> {"none", "dialing", "serving"}]
  /\ wire \subseteq Host /\ \A h \in wire : link[h] # "none" /\ worker[h].pc = "up"
  /\ \A i \in 1 .. Len(backlog) : backlog[i] \in wire /\ link[backlog[i]] = "dialing"
  /\ \A i, j \in 1 .. Len(backlog) : backlog[i] = backlog[j] => i = j
  /\ joining \in [pc : {"accept", "info", "add"}, conn : wire \cup {None, Dead},
                uuid : Uuid \cup {None}]
  /\ joining.pc = "accept" <=> joining.conn = None
  /\ joining.pc = "add" <=> joining.uuid # None
  /\ clients \in [Uuid -> wire \cup {None, Dead}]
  /\ names \in [Host -> SUBSET Uuid]
  /\ disturbed \in BOOLEAN /\ lostUuid \subseteq Host /\ unregistered \subseteq wire

(* A restart keeps the identity: as long as no crash tore the file and      *)
(* nobody deleted it, all starts of the manager print the same             *)
(* fingerprint and token, and workers that pinned it are never refused.    *)
OneIdentity == ~disturbed => Cardinality(issued) <= 1

(* Restarts, new flags and new identities of the manager do not give a      *)
(* host a new uuid, under which its tasks would be another worker's.       *)
OneUuid == \A h \in Host \ lostUuid : Cardinality(names[h]) <= 1

(* A client whose connection works leads to the worker with its uuid, and   *)
(* that worker pinned the certificate the manager has now.                 *)
ClientIsWorker ==
  \A u \in Uuid : clients[u] \in Host =>
    LET w == worker[clients[u]]
    IN link[clients[u]] = "serving" /\ w.cfg = [uuid |-> u, pin |-> manager.id]

(* Whatever crashed, broke or was rotated before: once the manager stays    *)
(* up, the worker stays up with its fingerprint and their connection does  *)
(* not break, the worker stays connected under its uuid, also if other     *)
(* workers keep failing.  Excepted is a connection that nobody ends        *)
(* although it has no client: GET /info failed on it while it worked, or   *)
(* the registration could not be stored.                                   *)
WorkersJoin ==
  \A h \in Host :
    /\ <>[](/\ manager.pc = "up" /\ worker[h].pc = "up"
            /\ worker[h].cfg.pin = manager.id /\ h \notin unregistered)
    /\ <>[][~Break(h)]_bootVars
    => <>[](\E u \in Uuid : clients[u] = h)
=============================================================================
