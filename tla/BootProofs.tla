----------------------------- MODULE BootProofs -----------------------------
(***************************************************************************)
(* Proofs about Boot, for any hosts and any number of identities and       *)
(* uuids.  What is on disk must be told apart from what the processes      *)
(* hold: an identity or a uuid is kept through a restart because a process *)
(* runs with what it read or wrote, and a connection has ended before      *)
(* either of its ends could have changed.                                  *)
(***************************************************************************)
EXTENDS Boot, FiniteSetTheorems, TLAPS

(* Until the file was torn or deleted, the operator was shown no identity   *)
(* but the one the manager has, or, while it is down, the one on disk.     *)
IssuedIsKept ==
  ~disturbed =>
    IF manager.pc # "down" THEN issued \subseteq {manager.id}
    ELSE /\ managerFile # Torn
         /\ issued \subseteq {managerFile}

(* The same for the uuid of a host and its file. *)
UuidIsKept ==
  \A h \in Host \ lostUuid :
    IF worker[h].pc # "down" THEN names[h] \subseteq {worker[h].cfg.uuid}
    ELSE /\ workerFile[h] # Torn
         /\ workerFile[h] = None => names[h] = {}
         /\ workerFile[h] # None => names[h] \subseteq {workerFile[h].uuid}

(* What a connection has been through says what is known of both its ends. *)
ConnectionOK ==
  /\ backlog \in Seq(Host)
  /\ manager.pc # "up" => wire = {}
  /\ joining.conn \in Host /\ joining.pc = "info" =>
       /\ link[joining.conn] = "dialing"
       /\ \A i \in 1 .. Len(backlog) : backlog[i] # joining.conn
  /\ joining.conn \in Host /\ joining.pc = "add" =>
       /\ link[joining.conn] = "serving"
       /\ worker[joining.conn].cfg = [uuid |-> joining.uuid, pin |-> manager.id]

IInv == TypeOK /\ IssuedIsKept /\ UuidIsKept /\ ConnectionOK /\ ClientIsWorker

-----------------------------------------------------------------------------
(* TypeOK in two parts: the processes with their files, and what lies       *)
(* between them.                                                           *)
ProcessesOK ==
  /\ managerFile \in Identity \cup {None, Torn}
  /\ manager \in [pc : {"storing", "stored", "up"}, id : Identity] \cup {Down}
  /\ manager.pc # "down" =>
       \/ managerFile = IF manager.pc = "storing" THEN Torn ELSE manager.id
       \/ disturbed /\ managerFile = None
  /\ issued \subseteq Identity
  /\ workerFile \in [Host -> Config \cup {None, Torn}]
  /\ worker \in [Host -> [pc : {"storing", "up"}, cfg : Config] \cup [pc : {"down"}, cfg : {None}]]
  /\ \A h \in Host : worker[h].pc = "up" => workerFile[h] = worker[h].cfg
  /\ names \in [Host -> SUBSET Uuid]
  /\ disturbed \in BOOLEAN /\ lostUuid \subseteq Host

LinksOK ==
  /\ link \in [Host -> {"none", "dialing", "serving"}]
  /\ wire \subseteq Host
  /\ \A h \in wire : link[h] # "none" /\ worker[h].pc = "up"
  /\ \A i \in 1 .. Len(backlog) : backlog[i] \in wire /\ link[backlog[i]] = "dialing"
  /\ \A i, j \in 1 .. Len(backlog) : backlog[i] = backlog[j] => i = j
  /\ joining \in [pc : {"accept", "info", "add"}, conn : wire \cup {None, Dead},
                  uuid : Uuid \cup {None}]
  /\ joining.pc = "accept" <=> joining.conn = None
  /\ joining.pc = "add" <=> joining.uuid # None
  /\ clients \in [Uuid -> wire \cup {None, Dead}]
  /\ unregistered \subseteq wire

Own == ProcessesOK /\ IssuedIsKept /\ UuidIsKept
Between == LinksOK /\ ConnectionOK /\ ClientIsWorker

LEMMA Parts == IInv <=> Own /\ Between
  BY DEF IInv, Own, Between, TypeOK, ProcessesOK, LinksOK
-----------------------------------------------------------------------------
(* Without(seq, h) has what seq has but for h, still each host once. *)
LEMMA WithoutHost ==
  ASSUME NEW h, NEW seq \in Seq(Host),
         \A i, j \in 1 .. Len(seq) : seq[i] = seq[j] => i = j
  PROVE  /\ Without(seq, h) \in Seq(Host)
         /\ \A i \in 1 .. Len(Without(seq, h)) :
              /\ Without(seq, h)[i] # h
              /\ \E j \in 1 .. Len(seq) : Without(seq, h)[i] = seq[j]
         /\ \A i, j \in 1 .. Len(Without(seq, h)) :
              Without(seq, h)[i] = Without(seq, h)[j] => i = j
<1>1. CASE ~ \E i \in 1 .. Len(seq) : seq[i] = h
  BY <1>1 DEF Without
<1>2. CASE \E i \in 1 .. Len(seq) : seq[i] = h
  <2> DEFINE k == CHOOSE i \in 1 .. Len(seq) : seq[i] = h
             rest == [i \in 1 .. Len(seq) - 1 |-> IF i < k THEN seq[i] ELSE seq[i + 1]]
  <2>1. k \in 1 .. Len(seq) /\ seq[k] = h
    BY <1>2
  <2>2. Without(seq, h) = rest
    BY <1>2 DEF Without
  <2> HIDE DEF k
  <2>3. Len(seq) \in Nat /\ Len(seq) - 1 \in Nat
    BY <2>1
  <2>4. \A i \in 1 .. Len(seq) - 1 :
          rest[i] \in Host /\ i \in 1 .. Len(seq) /\ i + 1 \in 1 .. Len(seq)
    BY <2>1, <2>3
  <2>5. rest \in Seq(Host) /\ Len(rest) = Len(seq) - 1
    BY <2>3, <2>4
  <2>6. \A i \in 1 .. Len(rest) : rest[i] # h /\ \E j \in 1 .. Len(seq) : rest[i] = seq[j]
    BY <2>1, <2>3, <2>4, <2>5
  <2>7. \A i, j \in 1 .. Len(rest) : rest[i] = rest[j] => i = j
    <3> SUFFICES ASSUME NEW i \in 1 .. Len(rest), NEW j \in 1 .. Len(rest), rest[i] = rest[j]
                 PROVE  i = j
      OBVIOUS
    <3>1. i \in 1 .. Len(seq) - 1 /\ j \in 1 .. Len(seq) - 1
      BY <2>5
    <3>2. i \in 1 .. Len(seq) /\ i + 1 \in 1 .. Len(seq) /\ j \in 1 .. Len(seq) /\ j + 1 \in 1 .. Len(seq)
      BY <2>4, <3>1
    <3>3. /\ i < k => rest[i] = seq[i]
          /\ ~(i < k) => rest[i] = seq[i + 1]
          /\ j < k => rest[j] = seq[j]
          /\ ~(j < k) => rest[j] = seq[j + 1]
      BY <3>1
    <3> HIDE DEF rest
    <3>4. k \in Int /\ i \in Int /\ j \in Int
      BY <2>1, <2>3, <3>1
    <3> QED
      BY <3>2, <3>3, <3>4
  <2> HIDE DEF rest
  <2> QED
    BY <2>2, <2>5, <2>6, <2>7
<1> QED
  BY <1>1, <1>2

(* What the end of a connection leaves of the others, whatever else its     *)
(* worker does in the same step.                                           *)
LEMMA EndedKeeps ==
  ASSUME Between, NEW h \in Host, Ended(h), manager' = manager,
         link' \in [Host -> {"none", "dialing", "serving"}],
         \A g \in Host \ {h} : link'[g] = link[g] /\ worker'[g] = worker[g]
  PROVE  Between'
<1> USE DistinctAssumption
<1>1. /\ wire' = wire \ {h}
      /\ backlog' = Without(backlog, h)
      /\ joining' = IF joining.conn = h THEN [joining EXCEPT !.conn = Dead] ELSE joining
      /\ clients' = [u \in Uuid |-> IF clients[u] = h THEN Dead ELSE clients[u]]
      /\ unregistered' = unregistered \ {h}
  BY DEF Ended
<1>2. /\ backlog' \in Seq(Host)
      /\ \A i \in 1 .. Len(backlog') : /\ backlog'[i] # h
                                       /\ \E j \in 1 .. Len(backlog) : backlog'[i] = backlog[j]
      /\ \A i, j \in 1 .. Len(backlog') : backlog'[i] = backlog'[j] => i = j
  BY <1>1, WithoutHost DEF Between, LinksOK, ConnectionOK
<1>3. wire' \subseteq Host /\ \A g \in wire' : g \in wire /\ g # h /\ g \in Host
  BY <1>1 DEF Between, LinksOK
<1>4. \A g \in wire' : link'[g] # "none" /\ worker'[g].pc = "up"
  BY <1>3 DEF Between, LinksOK
<1>5. \A i \in 1 .. Len(backlog') : backlog'[i] \in wire' /\ link'[backlog'[i]] = "dialing"
  <2> SUFFICES ASSUME NEW i \in 1 .. Len(backlog')
               PROVE  backlog'[i] \in wire' /\ link'[backlog'[i]] = "dialing"
    OBVIOUS
  <2>1. PICK j \in 1 .. Len(backlog) : backlog'[i] = backlog[j] /\ backlog'[i] # h
    BY <1>2
  <2>2. backlog[j] \in wire /\ link[backlog[j]] = "dialing"
    BY DEF Between, LinksOK
  <2>3. backlog[j] \in wire' /\ backlog[j] \in Host \ {h}
    BY <2>1, <2>2, <1>1, <1>3
  <2> QED
    BY <2>1, <2>2, <2>3
<1>6. /\ joining' \in [pc : {"accept", "info", "add"}, conn : wire' \cup {None, Dead},
                       uuid : Uuid \cup {None}]
      /\ joining'.pc = joining.pc /\ joining'.uuid = joining.uuid
      /\ joining'.conn = IF joining.conn = h THEN Dead ELSE joining.conn
  BY <1>1 DEF Between, LinksOK
<1>7. clients' \in [Uuid -> wire' \cup {None, Dead}]
  BY <1>1 DEF Between, LinksOK
<1>8. LinksOK'
  BY <1>1, <1>2, <1>3, <1>4, <1>5, <1>6, <1>7 DEF Between, LinksOK
<1>9. ConnectionOK'
  <2>1. manager'.pc # "up" => wire' = {}
    BY <1>1 DEF Between, ConnectionOK
  <2>2. joining'.conn \in Host => joining.conn = joining'.conn /\ joining.conn \in Host \ {h}
    BY <1>6
  <2>3. ASSUME joining'.conn \in Host, joining'.pc = "info"
        PROVE  /\ link'[joining'.conn] = "dialing"
               /\ \A i \in 1 .. Len(backlog') : backlog'[i] # joining'.conn
    BY <2>2, <2>3, <1>6, <1>2 DEF Between, ConnectionOK
  <2>4. ASSUME joining'.conn \in Host, joining'.pc = "add"
        PROVE  /\ link'[joining'.conn] = "serving"
               /\ worker'[joining'.conn].cfg = [uuid |-> joining'.uuid, pin |-> manager'.id]
    BY <2>2, <2>4, <1>6 DEF Between, ConnectionOK
  <2> QED
    BY <1>2, <2>1, <2>3, <2>4 DEF ConnectionOK
<1>10. ClientIsWorker'
  <2> SUFFICES ASSUME NEW u \in Uuid, clients'[u] \in Host
               PROVE  /\ link'[clients'[u]] = "serving"
                      /\ worker'[clients'[u]].cfg = [uuid |-> u, pin |-> manager'.id]
    BY DEF ClientIsWorker
  <2>1. clients'[u] = clients[u] /\ clients[u] \in Host \ {h}
    BY <1>1
  <2> QED
    BY <2>1 DEF Between, ClientIsWorker
<1> QED
  BY <1>8, <1>9, <1>10 DEF Between
-----------------------------------------------------------------------------
(* A step of the manager that leaves the connections as they are keeps what *)
(* is known of them, unless it changes an identity that was told.          *)
LEMMA ManagerKeepsLinks ==
  ASSUME Between, UNCHANGED <<worker, connection>>,
         manager'.pc # "up" => wire = {},
         wire # {} => manager'.id = manager.id
  PROVE  Between'
<1> USE DistinctAssumption
<1>1. wire' = wire /\ link' = link /\ backlog' = backlog /\ joining' = joining
      /\ clients' = clients /\ unregistered' = unregistered /\ worker' = worker
  BY DEF connection
<1>2. LinksOK'
  BY <1>1 DEF Between, LinksOK
<1>3. joining.conn \in Host => wire # {}
  BY DEF Between, LinksOK
<1>4. ConnectionOK'
  BY <1>1, <1>3 DEF Between, ConnectionOK
<1>5. \A u \in Uuid : clients[u] \in Host => wire # {}
  BY DEF Between, LinksOK
<1>6. ClientIsWorker'
  BY <1>1, <1>5 DEF Between, ClientIsWorker
<1> QED
  BY <1>2, <1>4, <1>6 DEF Between

LEMMA SetupConfigKeeps == Own /\ Between /\ SetupConfig => Own' /\ Between'
<1> SUFFICES ASSUME Own, Between, SetupConfig
             PROVE  Own' /\ Between'
  OBVIOUS
<1> USE DistinctAssumption
<1>1. PICK i \in IF managerFile \in Identity THEN {managerFile} ELSE GenerateManagerIdentity :
        manager' = [pc |-> "storing", id |-> i]
  BY DEF SetupConfig
<1>2. i \in Identity
  BY DEF GenerateManagerIdentity
<1>3. manager.pc = "down" /\ managerFile' = Torn /\ UNCHANGED managerStep
  BY DEF SetupConfig
<1>4. ProcessesOK'
  BY <1>1, <1>2, <1>3 DEF Own, ProcessesOK, managerStep
<1>5. IssuedIsKept'
  <2>1. ASSUME ~disturbed
        PROVE  issued \subseteq {i}
    BY <2>1, <1>1, <1>3 DEF Own, ProcessesOK, IssuedIsKept
  <2> QED
    BY <2>1, <1>1, <1>3 DEF IssuedIsKept, managerStep
<1>6. UuidIsKept'
  BY <1>3 DEF Own, UuidIsKept, managerStep
<1>7. wire = {} /\ UNCHANGED <<worker, connection>>
  BY <1>3 DEF Between, ConnectionOK, managerStep
<1> QED
  BY <1>4, <1>5, <1>6, <1>7, ManagerKeepsLinks DEF Own

LEMMA StoreConfigToFileKeeps == Own /\ Between /\ StoreConfigToFile => Own' /\ Between'
<1> SUFFICES ASSUME Own, Between, StoreConfigToFile
             PROVE  Own' /\ Between'
  OBVIOUS
<1> USE DistinctAssumption
<1>1. /\ manager.pc = "storing"
      /\ managerFile' = IF managerFile = None THEN None ELSE manager.id
      /\ manager' = [manager EXCEPT !.pc = "stored"] /\ UNCHANGED managerStep
  BY DEF StoreConfigToFile
<1>2. manager \in [pc : {"storing", "stored", "up"}, id : Identity]
  BY <1>1 DEF Own, ProcessesOK, Down
<1>3. /\ manager' \in [pc : {"storing", "stored", "up"}, id : Identity]
      /\ manager'.pc = "stored" /\ manager'.id = manager.id
  BY <1>1, <1>2
<1>4. ProcessesOK'
  BY <1>1, <1>2, <1>3 DEF Own, ProcessesOK, managerStep
<1>5. IssuedIsKept' /\ UuidIsKept'
  BY <1>1, <1>3 DEF Own, IssuedIsKept, UuidIsKept, managerStep
<1>6. wire = {} /\ UNCHANGED <<worker, connection>>
  BY <1>1 DEF Between, ConnectionOK, managerStep
<1> QED
  BY <1>4, <1>5, <1>6, ManagerKeepsLinks DEF Own

LEMMA RunManagerKeeps == Own /\ Between /\ RunManager => Own' /\ Between'
<1> SUFFICES ASSUME Own, Between, RunManager
             PROVE  Own' /\ Between'
  OBVIOUS
<1> USE DistinctAssumption
<1>1. /\ manager.pc = "stored" /\ manager' = [manager EXCEPT !.pc = "up"]
      /\ issued' = issued \cup {manager.id}
      /\ UNCHANGED <<files, worker, connection, names, disturbed, lostUuid>>
  BY DEF RunManager
<1>2. manager \in [pc : {"storing", "stored", "up"}, id : Identity]
  BY <1>1 DEF Own, ProcessesOK, Down
<1>3. /\ manager' \in [pc : {"storing", "stored", "up"}, id : Identity]
      /\ manager'.pc = "up" /\ manager'.id = manager.id
  BY <1>1, <1>2
<1>4. ProcessesOK'
  BY <1>1, <1>2, <1>3 DEF Own, ProcessesOK, files
<1>5. IssuedIsKept' /\ UuidIsKept'
  BY <1>1, <1>3 DEF Own, IssuedIsKept, UuidIsKept, files
<1> QED
  BY <1>1, <1>3, <1>4, <1>5, ManagerKeepsLinks DEF Own

LEMMA RotateKeeps == Own /\ Between /\ Rotate => Own' /\ Between'
<1> SUFFICES ASSUME Own, Between, Rotate
             PROVE  Own' /\ Between'
  OBVIOUS
<1> USE DistinctAssumption
<1>1. /\ managerFile' = None /\ disturbed' = TRUE
      /\ UNCHANGED <<manager, issued, workerFile, worker, connection, names, lostUuid>>
  BY DEF Rotate
<1>2. ProcessesOK'
  BY <1>1 DEF Own, ProcessesOK
<1>3. IssuedIsKept' /\ UuidIsKept'
  BY <1>1 DEF Own, IssuedIsKept, UuidIsKept
<1> QED
  BY <1>1, <1>2, <1>3, ManagerKeepsLinks DEF Own, Between, ConnectionOK

LEMMA ManagerStopsKeeps == Own /\ Between /\ ManagerStops => Own' /\ Between'
<1> SUFFICES ASSUME Own, Between, ManagerStops
             PROVE  Own' /\ Between'
  OBVIOUS
<1> USE DistinctAssumption
<1>1. /\ manager.pc # "down" /\ manager' = Down
      /\ disturbed' = (disturbed \/ manager.pc = "storing")
      /\ wire' = {} /\ backlog' = <<>> /\ joining' = Accepting
      /\ clients' = [u \in Uuid |-> None] /\ unregistered' = {}
      /\ UNCHANGED <<files, issued, worker, link, names, lostUuid>>
  BY DEF ManagerStops
<1>2. manager'.pc = "down"
  BY <1>1 DEF Down
<1>3. ProcessesOK'
  BY <1>1, <1>2 DEF Own, ProcessesOK, files
<1>4. IssuedIsKept'
  <2>1. ASSUME ~disturbed'
        PROVE  managerFile = manager.id /\ managerFile # Torn /\ issued \subseteq {manager.id}
    <3>1. ~disturbed /\ manager.pc # "storing"
      BY <2>1, <1>1
    <3>2. manager \in [pc : {"storing", "stored", "up"}, id : Identity]
      BY <1>1 DEF Own, ProcessesOK, Down
    <3>3. managerFile = manager.id
      BY <3>1, <3>2 DEF Own, ProcessesOK
    <3> QED
      BY <3>1, <3>2, <3>3, <1>1 DEF Own, IssuedIsKept
  <2> QED
    BY <2>1, <1>1, <1>2 DEF IssuedIsKept, files
<1>5. UuidIsKept'
  BY <1>1 DEF Own, UuidIsKept, files
<1>6. LinksOK'
  BY <1>1 DEF Between, LinksOK, Accepting
<1>7. ConnectionOK' /\ ClientIsWorker'
  BY <1>1 DEF ConnectionOK, ClientIsWorker, Accepting
<1> QED
  BY <1>3, <1>4, <1>5, <1>6, <1>7 DEF Own, Between
-----------------------------------------------------------------------------
(* A step of the manager's connections keeps what the processes have. *)
LEMMA UnchangedOwn ==
  ASSUME Own, UNCHANGED <<processes, names>>
  PROVE  Own'
  BY DEF Own, ProcessesOK, IssuedIsKept, UuidIsKept, processes, files

(* A worker that is down has no connection, so its start disturbs none. *)
LEMMA WorkerKeepsLinks ==
  ASSUME Between, UNCHANGED <<manager, connection>>,
         \A g \in wire : worker'[g] = worker[g]
  PROVE  Between'
<1> USE DistinctAssumption
<1>1. wire' = wire /\ link' = link /\ backlog' = backlog /\ joining' = joining
      /\ clients' = clients /\ unregistered' = unregistered
  BY DEF connection
<1>2. LinksOK'
  BY <1>1 DEF Between, LinksOK
<1>3. joining.conn \in Host => joining.conn \in wire
  BY DEF Between, LinksOK
<1>4. ConnectionOK'
  BY <1>1, <1>3 DEF Between, ConnectionOK
<1>5. \A u \in Uuid : clients[u] \in Host => clients[u] \in wire
  BY DEF Between, LinksOK
<1>6. ClientIsWorker'
  BY <1>1, <1>5 DEF Between, ClientIsWorker
<1> QED
  BY <1>2, <1>4, <1>6 DEF Between

(* New flags change the fingerprint that a worker pinned, not its uuid. *)
LEMMA UpdatedConfig ==
  ASSUME NEW h, workerFile[h] \in Config, NEW flag \in Identity \cup {None}
  PROVE  Updated(h, flag) \in Config /\ Updated(h, flag).uuid = workerFile[h].uuid
  BY DEF Updated, Config

LEMMA SetupWorkerConfigKeeps ==
  ASSUME Own, Between, NEW h \in Host, NEW flag \in issued \cup {None}, SetupWorkerConfig(h, flag)
  PROVE  Own' /\ Between'
<1> USE DistinctAssumption
<1>1. worker[h].pc = "down" /\ UNCHANGED <<workerStep, lostUuid>>
      /\ workerFile' = [workerFile EXCEPT ![h] = Torn]
  BY DEF SetupWorkerConfig
<1>2. PICK c \in IF workerFile[h] \in Config THEN {Updated(h, flag)} ELSE NewWorkerConfigs :
        worker' = [worker EXCEPT ![h] = [pc |-> "storing", cfg |-> c]]
  BY DEF SetupWorkerConfig
<1>3. flag \in Identity \cup {None}
  BY DEF Own, ProcessesOK
<1>4. c \in Config /\ (workerFile[h] \in Config => c.uuid = workerFile[h].uuid)
  BY <1>2, <1>3, UpdatedConfig DEF NewWorkerConfigs, Config
<1>5. /\ worker' \in [Host -> [pc : {"storing", "up"}, cfg : Config] \cup [pc : {"down"}, cfg : {None}]]
      /\ worker'[h] = [pc |-> "storing", cfg |-> c]
      /\ \A g \in Host \ {h} : worker'[g] = worker[g] /\ workerFile'[g] = workerFile[g]
  BY <1>1, <1>2, <1>4 DEF Own, ProcessesOK
<1>6. ProcessesOK'
  <2>1. workerFile' \in [Host -> Config \cup {None, Torn}]
    BY <1>1 DEF Own, ProcessesOK
  <2>2. \A g \in Host : worker'[g].pc = "up" => workerFile'[g] = worker'[g].cfg
    BY <1>5 DEF Own, ProcessesOK
  <2> QED
    BY <1>1, <1>5, <2>1, <2>2 DEF Own, ProcessesOK, workerStep
<1>7. IssuedIsKept'
  BY <1>1 DEF Own, IssuedIsKept, workerStep
<1>8. UuidIsKept'
  <2>1. ASSUME h \notin lostUuid
        PROVE  names[h] \subseteq {c.uuid}
    BY <2>1, <1>1, <1>4 DEF Own, ProcessesOK, UuidIsKept
  <2>2. names' = names /\ lostUuid' = lostUuid
    BY <1>1 DEF workerStep
  <2> QED
    BY <2>1, <2>2, <1>5 DEF Own, UuidIsKept
<1>9. h \notin wire
  BY <1>1 DEF Between, LinksOK
<1>10. UNCHANGED <<manager, connection>> /\ \A g \in wire : worker'[g] = worker[g]
  BY <1>1, <1>5, <1>9 DEF workerStep, Between, LinksOK
<1> QED
  BY <1>6, <1>7, <1>8, <1>10, WorkerKeepsLinks DEF Own

LEMMA StoreWorkerConfigKeeps ==
  ASSUME Own, Between, NEW h \in Host, StoreWorkerConfig(h)
  PROVE  Own' /\ Between'
<1> USE DistinctAssumption
<1>1. worker[h].pc = "storing" /\ UNCHANGED <<workerStep, lostUuid>>
      /\ workerFile' = [workerFile EXCEPT ![h] = worker[h].cfg]
      /\ worker' = [worker EXCEPT ![h].pc = "up"]
  BY DEF StoreWorkerConfig
<1>2. worker[h] \in [pc : {"storing", "up"}, cfg : Config]
  BY <1>1 DEF Own, ProcessesOK
<1> DEFINE started == [worker[h] EXCEPT !.pc = "up"]
<1>3. started \in [pc : {"storing", "up"}, cfg : Config] /\ started.pc = "up" /\ started.cfg = worker[h].cfg
  BY <1>2
<1>4. worker' = [worker EXCEPT ![h] = started]
  BY <1>1
<1> HIDE DEF started
<1>5. /\ worker' \in [Host -> [pc : {"storing", "up"}, cfg : Config] \cup [pc : {"down"}, cfg : {None}]]
      /\ worker'[h] = started
      /\ workerFile' \in [Host -> Config \cup {None, Torn}]
      /\ workerFile'[h] = started.cfg
      /\ \A g \in Host \ {h} : worker'[g] = worker[g] /\ workerFile'[g] = workerFile[g]
  BY <1>1, <1>2, <1>3, <1>4 DEF Own, ProcessesOK
<1>6. ProcessesOK'
  BY <1>1, <1>5 DEF Own, ProcessesOK, workerStep
<1>7. IssuedIsKept'
  BY <1>1 DEF Own, IssuedIsKept, workerStep
<1>8. UuidIsKept'
  <2>1. names' = names /\ lostUuid' = lostUuid
    BY <1>1 DEF workerStep
  <2> QED
    BY <2>1, <1>1, <1>3, <1>5 DEF Own, UuidIsKept
<1>9. h \notin wire
  BY <1>1 DEF Between, LinksOK
<1>10. UNCHANGED <<manager, connection>> /\ \A g \in wire : worker'[g] = worker[g]
  BY <1>1, <1>5, <1>9 DEF workerStep, Between, LinksOK
<1> QED
  BY <1>6, <1>7, <1>8, <1>10, WorkerKeepsLinks DEF Own

LEMMA WorkerStopsKeeps ==
  ASSUME Own, Between, NEW h \in Host, WorkerStops(h)
  PROVE  Own' /\ Between'
<1> USE DistinctAssumption
<1>1. /\ worker[h].pc # "down" /\ Ended(h)
      /\ worker' = [worker EXCEPT ![h] = [pc |-> "down", cfg |-> None]]
      /\ lostUuid' = IF worker[h].pc = "storing" THEN lostUuid \cup {h} ELSE lostUuid
      /\ link' = [link EXCEPT ![h] = "none"]
      /\ UNCHANGED <<files, manager, issued, names, disturbed>>
  BY DEF WorkerStops
<1>2. /\ worker' \in [Host -> [pc : {"storing", "up"}, cfg : Config] \cup [pc : {"down"}, cfg : {None}]]
      /\ worker'[h] = [pc |-> "down", cfg |-> None]
      /\ \A g \in Host \ {h} : worker'[g] = worker[g]
  BY <1>1 DEF Own, ProcessesOK
<1>3. ProcessesOK'
  BY <1>1, <1>2 DEF Own, ProcessesOK, files
<1>4. IssuedIsKept'
  BY <1>1 DEF Own, IssuedIsKept, files
<1>5. UuidIsKept'
  <2>1. ASSUME h \notin lostUuid'
        PROVE  workerFile[h] \in Config /\ names[h] \subseteq {workerFile[h].uuid} /\ h \notin lostUuid
    <3>1. worker[h].pc = "up" /\ h \notin lostUuid
      BY <2>1, <1>1 DEF Own, ProcessesOK
    <3>2. workerFile[h] = worker[h].cfg /\ worker[h].cfg \in Config
      BY <3>1 DEF Own, ProcessesOK
    <3> QED
      BY <3>1, <3>2 DEF Own, UuidIsKept
  <2>2. workerFile' = workerFile /\ names' = names /\ lostUuid \subseteq lostUuid'
    BY <1>1 DEF files
  <2>3. ASSUME NEW g \in (Host \ lostUuid') \ {h}
        PROVE  /\ g \in Host \ lostUuid /\ g \in Host \ {h}
               /\ worker'[g] = worker[g]
    BY <2>2, <1>2
  <2>4. (workerFile[h] # Torn /\ workerFile[h] # None) \/ h \in lostUuid'
    BY <2>1 DEF Config
  <2> QED
    BY <2>1, <2>2, <2>3, <2>4, <1>2 DEF Own, UuidIsKept
<1>6. /\ link' \in [Host -> {"none", "dialing", "serving"}]
      /\ \A g \in Host \ {h} : link'[g] = link[g] /\ worker'[g] = worker[g]
  BY <1>1, <1>2 DEF Between, LinksOK
<1> QED
  BY <1>1, <1>3, <1>4, <1>5, <1>6, EndedKeeps DEF Own
-----------------------------------------------------------------------------
(* A host that dials had no connection before. *)
LEMMA DialKeeps ==
  ASSUME Between, NEW h \in Host, Dial(h)
  PROVE  Between'
<1> USE DistinctAssumption
<1>1. /\ worker[h].pc = "up" /\ link[h] = "none" /\ manager.pc = "up"
      /\ link' = [link EXCEPT ![h] = "dialing"]
      /\ wire' = wire \cup {h}
      /\ backlog' = Append(backlog, h)
      /\ UNCHANGED <<manager, worker, joining, clients, unregistered>>
  BY DEF Dial, processes
<1>2. h \notin wire /\ backlog \in Seq(Host)
  BY <1>1 DEF Between, LinksOK, ConnectionOK
<1>3. /\ link' \in [Host -> {"none", "dialing", "serving"}]
      /\ link'[h] = "dialing" /\ \A g \in Host \ {h} : link'[g] = link[g]
  BY <1>1 DEF Between, LinksOK
<1>4. /\ backlog' \in Seq(Host) /\ Len(backlog') = Len(backlog) + 1 /\ Len(backlog) \in Nat
      /\ backlog'[Len(backlog) + 1] = h
      /\ \A i \in 1 .. Len(backlog) : backlog'[i] = backlog[i]
  BY <1>1, <1>2
<1>5. \A i \in 1 .. Len(backlog') : i \in 1 .. Len(backlog) \/ i = Len(backlog) + 1
  BY <1>4
<1>6. \A i \in 1 .. Len(backlog) : backlog[i] \in wire /\ backlog[i] \in Host \ {h}
  BY <1>2 DEF Between, LinksOK
<1>7. \A i \in 1 .. Len(backlog') : backlog'[i] \in wire' /\ link'[backlog'[i]] = "dialing"
  BY <1>1, <1>3, <1>4, <1>5, <1>6 DEF Between, LinksOK
<1>8. \A i, j \in 1 .. Len(backlog') : backlog'[i] = backlog'[j] => i = j
  BY <1>4, <1>5, <1>6 DEF Between, LinksOK
<1>9. \A g \in wire' : link'[g] # "none" /\ worker'[g].pc = "up"
  BY <1>1, <1>3 DEF Between, LinksOK
<1>10. LinksOK'
  BY <1>1, <1>3, <1>7, <1>8, <1>9 DEF Between, LinksOK
<1>11. joining.conn \in Host => joining.conn \in wire /\ joining.conn # h
  BY <1>2 DEF Between, LinksOK
<1>12. joining.conn \in Host /\ joining.pc = "info" =>
         \A i \in 1 .. Len(backlog') : backlog'[i] # joining.conn
  BY <1>4, <1>5, <1>11 DEF Between, ConnectionOK
<1>13. ConnectionOK'
  BY <1>1, <1>3, <1>4, <1>11, <1>12 DEF Between, ConnectionOK
<1>14. \A u \in Uuid : clients[u] \in Host => clients[u] \in Host \ {h}
  BY <1>2 DEF Between, LinksOK
<1>15. ClientIsWorker'
  BY <1>1, <1>3, <1>14 DEF Between, ClientIsWorker
<1> QED
  BY <1>10, <1>13, <1>15 DEF Between

LEMMA SessionEndsKeeps ==
  ASSUME Between, NEW h \in Host, SessionEnds(h)
  PROVE  Between'
<1> USE DistinctAssumption
<1>1. /\ h \notin wire /\ link' = [link EXCEPT ![h] = "none"]
      /\ UNCHANGED <<manager, worker, wire, backlog, joining, clients, unregistered>>
  BY DEF SessionEnds, processes
<1>2. /\ link' \in [Host -> {"none", "dialing", "serving"}]
      /\ \A g \in wire : g \in Host /\ link'[g] = link[g]
  BY <1>1 DEF Between, LinksOK
<1>3. LinksOK'
  BY <1>1, <1>2 DEF Between, LinksOK
<1>4. /\ joining.conn \in Host => joining.conn \in wire
      /\ \A u \in Uuid : clients[u] \in Host => clients[u] \in wire
  BY DEF Between, LinksOK
<1>5. ConnectionOK' /\ ClientIsWorker'
  BY <1>1, <1>2, <1>4 DEF Between, ConnectionOK, ClientIsWorker
<1> QED
  BY <1>3, <1>5 DEF Between

(* The next connection that waits is another one than those that are left. *)
LEMMA AcceptKeeps == Between /\ Accept => Between'
<1> SUFFICES ASSUME Between, Accept
             PROVE  Between'
  OBVIOUS
<1> USE DistinctAssumption
<1>1. /\ joining = Accepting /\ backlog # <<>>
      /\ joining' = [pc |-> "info", conn |-> Head(backlog), uuid |-> None]
      /\ backlog' = Tail(backlog)
      /\ UNCHANGED <<manager, worker, link, wire, clients, unregistered>>
  BY DEF Accept, processes
<1>2. /\ backlog \in Seq(Host) /\ Len(backlog) \in Nat \ {0}
      /\ Head(backlog) = backlog[1] /\ backlog[1] \in Host
  BY <1>1 DEF Between, ConnectionOK
<1>3. /\ backlog' \in Seq(Host) /\ Len(backlog') = Len(backlog) - 1
      /\ \A i \in 1 .. Len(backlog') : backlog'[i] = backlog[i + 1]
  BY <1>1, <1>2
<1>4. \A i \in 1 .. Len(backlog') : i \in Nat /\ i + 1 \in 1 .. Len(backlog) /\ i + 1 # 1
  BY <1>2, <1>3
<1>5. 1 \in 1 .. Len(backlog)
  BY <1>2
<1>6. \A i \in 1 .. Len(backlog') : backlog'[i] # backlog[1]
  BY <1>3, <1>4, <1>5 DEF Between, LinksOK
<1>7. \A i \in 1 .. Len(backlog') : backlog'[i] \in wire /\ link[backlog'[i]] = "dialing"
  BY <1>3, <1>4 DEF Between, LinksOK
<1>8. \A i, j \in 1 .. Len(backlog') : backlog'[i] = backlog'[j] => i = j
  <2> SUFFICES ASSUME NEW i \in 1 .. Len(backlog'), NEW j \in 1 .. Len(backlog'),
                      backlog'[i] = backlog'[j]
               PROVE  i = j
    OBVIOUS
  <2>1. i + 1 = j + 1
    BY <1>3, <1>4 DEF Between, LinksOK
  <2> QED
    BY <2>1, <1>4
<1>9. backlog[1] \in wire /\ link[backlog[1]] = "dialing"
  BY <1>5 DEF Between, LinksOK
<1>10. LinksOK'
  BY <1>1, <1>2, <1>7, <1>8, <1>9 DEF Between, LinksOK
<1>11. ConnectionOK'
  BY <1>1, <1>2, <1>3, <1>6, <1>9 DEF Between, ConnectionOK
<1>12. ClientIsWorker'
  BY <1>1 DEF Between, ClientIsWorker
<1> QED
  BY <1>10, <1>11, <1>12 DEF Between

LEMMA GetInfoKeeps ==
  ASSUME Own, Between, NEW h \in Host, GetInfo(h)
  PROVE  Between'
<1> USE DistinctAssumption
<1>1. /\ joining.pc = "info" /\ joining.conn = h /\ worker[h].cfg.pin = manager.id
      /\ joining' = [joining EXCEPT !.pc = "add", !.uuid = worker[h].cfg.uuid]
      /\ link' = [link EXCEPT ![h] = "serving"]
      /\ UNCHANGED <<manager, worker, wire, backlog, clients, unregistered>>
  BY DEF GetInfo, processes
<1>2. h \in wire /\ worker[h].pc = "up"
  BY <1>1 DEF Between, LinksOK
<1>3. worker[h].cfg \in Config
  BY <1>2 DEF Own, ProcessesOK
<1>4. worker[h].cfg.uuid \in Uuid /\ worker[h].cfg = [uuid |-> worker[h].cfg.uuid, pin |-> manager.id]
  BY <1>1, <1>3 DEF Config
<1>5. /\ joining' \in [pc : {"accept", "info", "add"}, conn : wire \cup {None, Dead},
                       uuid : Uuid \cup {None}]
      /\ joining'.pc = "add" /\ joining'.conn = h /\ joining'.uuid = worker[h].cfg.uuid
  BY <1>1, <1>4 DEF Between, LinksOK
<1>6. /\ link' \in [Host -> {"none", "dialing", "serving"}]
      /\ link'[h] = "serving" /\ \A g \in Host \ {h} : link'[g] = link[g]
  BY <1>1 DEF Between, LinksOK
<1>7. \A i \in 1 .. Len(backlog) : backlog[i] \in Host \ {h} /\ link[backlog[i]] = "dialing"
  BY <1>1 DEF Between, LinksOK, ConnectionOK
<1>8. \A g \in wire : g \in Host /\ link'[g] # "none" /\ worker[g].pc = "up"
  BY <1>6 DEF Between, LinksOK
<1>9. LinksOK'
  BY <1>1, <1>4, <1>5, <1>6, <1>7, <1>8 DEF Between, LinksOK
<1>10. ConnectionOK'
  BY <1>1, <1>4, <1>5, <1>6 DEF Between, ConnectionOK
<1>11. ClientIsWorker'
  BY <1>1, <1>6 DEF Between, ClientIsWorker
<1> QED
  BY <1>9, <1>10, <1>11 DEF Between

(* waitForWorkersForever drops its connection and turns to the next one. *)
LEMMA AcceptingKeeps ==
  ASSUME Between, joining' = Accepting, UNCHANGED <<manager, worker, link, wire, backlog>>,
         clients' \in [Uuid -> wire \cup {None, Dead}], unregistered' \subseteq wire,
         ClientIsWorker'
  PROVE  Between'
<1> USE DistinctAssumption
<1>1. joining' \in [pc : {"accept", "info", "add"}, conn : wire \cup {None, Dead},
                    uuid : Uuid \cup {None}]
      /\ joining'.pc = "accept" /\ joining'.conn = None /\ joining'.uuid = None
  BY DEF Accepting
<1>2. LinksOK'
  BY <1>1 DEF Between, LinksOK
<1>3. ConnectionOK'
  BY <1>1 DEF Between, ConnectionOK
<1> QED
  BY <1>2, <1>3 DEF Between

(* A connection that works and got no client is served by its worker. *)
LEMMA GetInfoFailsKeeps == Between /\ GetInfoFails => Between'
<1> SUFFICES ASSUME Between, GetInfoFails
             PROVE  Between'
  OBVIOUS
<1> USE DistinctAssumption
<1>1. /\ joining.pc = "info" /\ joining' = Accepting
      /\ UNCHANGED <<manager, worker, wire, backlog, clients>>
  BY DEF GetInfoFails, processes
<1>2. CASE UNCHANGED <<link, unregistered>>
  <2>1. /\ clients' \in [Uuid -> wire \cup {None, Dead}] /\ unregistered' \subseteq wire
        /\ ClientIsWorker'
    BY <1>1, <1>2 DEF Between, LinksOK, ClientIsWorker
  <2> QED
    BY <1>1, <1>2, <2>1, AcceptingKeeps
<1>3. ASSUME NEW h \in Host, joining.conn = h, link' = [link EXCEPT ![h] = "serving"],
             unregistered' = unregistered \cup {h}
      PROVE  Between'
  <2>1. h \in wire /\ \A i \in 1 .. Len(backlog) : backlog[i] # h
    BY <1>1, <1>3 DEF Between, LinksOK, ConnectionOK
  <2>2. /\ link' \in [Host -> {"none", "dialing", "serving"}]
        /\ link'[h] = "serving" /\ \A g \in Host \ {h} : link'[g] = link[g]
    BY <1>3 DEF Between, LinksOK
  <2>3. joining' \in [pc : {"accept", "info", "add"}, conn : wire \cup {None, Dead},
                      uuid : Uuid \cup {None}]
        /\ joining'.pc = "accept" /\ joining'.conn = None /\ joining'.uuid = None
    BY <1>1 DEF Accepting
  <2>4. \A i \in 1 .. Len(backlog) : backlog[i] \in Host \ {h} /\ backlog[i] \in wire
    BY <2>1 DEF Between, LinksOK
  <2>5. LinksOK'
    <3>1. wire \subseteq Host /\ unregistered' \subseteq wire
      BY <1>3, <2>1 DEF Between, LinksOK
    <3>2. \A g \in wire : link'[g] # "none" /\ worker[g].pc = "up"
      BY <2>2, <3>1 DEF Between, LinksOK
    <3>3. \A i \in 1 .. Len(backlog) : backlog[i] \in wire /\ link'[backlog[i]] = "dialing"
      BY <2>2, <2>4 DEF Between, LinksOK
    <3> QED
      BY <1>1, <2>2, <2>3, <3>1, <3>2, <3>3 DEF Between, LinksOK
  <2>6. ConnectionOK' /\ ClientIsWorker'
    BY <1>1, <2>2, <2>3 DEF Between, ConnectionOK, ClientIsWorker
  <2> QED
    BY <2>5, <2>6 DEF Between
<1> QED
  BY <1>2, <1>3 DEF GetInfoFails

(* A client that is added leads to the worker that has its uuid, and the    *)
(* host registers under the uuid it has.                                   *)
LEMMA AddWorkerAndClientKeeps == Own /\ Between /\ AddWorkerAndClient => Own' /\ Between'
<1> SUFFICES ASSUME Own, Between, AddWorkerAndClient
             PROVE  Own' /\ Between'
  OBVIOUS
<1> USE DistinctAssumption
<1>1. /\ joining.pc = "add" /\ joining' = Accepting
      /\ clients' = [clients EXCEPT ![joining.uuid] = joining.conn]
      /\ names' = [h \in Host |-> IF joining.conn = h THEN names[h] \cup {joining.uuid} ELSE names[h]]
      /\ UNCHANGED <<managerFile, workerFile, manager, issued, worker, disturbed, lostUuid,
                     link, wire, backlog, unregistered>>
  BY DEF AddWorkerAndClient, processes, files
<1>2. joining.uuid \in Uuid /\ joining.conn \in wire \cup {None, Dead}
  BY <1>1 DEF Between, LinksOK
<1>3. joining.conn \in Host =>
        /\ link[joining.conn] = "serving" /\ worker[joining.conn].pc = "up"
        /\ worker[joining.conn].cfg = [uuid |-> joining.uuid, pin |-> manager.id]
  BY <1>1 DEF Between, LinksOK, ConnectionOK
<1>4. clients' \in [Uuid -> wire \cup {None, Dead}]
  BY <1>1, <1>2 DEF Between, LinksOK
<1>5. ClientIsWorker'
  <2> SUFFICES ASSUME NEW u \in Uuid, clients'[u] \in Host
               PROVE  /\ link[clients'[u]] = "serving"
                      /\ worker[clients'[u]].cfg = [uuid |-> u, pin |-> manager.id]
    BY <1>1 DEF ClientIsWorker
  <2>1. CASE u = joining.uuid
    BY <2>1, <1>1, <1>3 DEF Between, LinksOK
  <2>2. CASE u # joining.uuid
    BY <2>2, <1>1 DEF Between, LinksOK, ClientIsWorker
  <2> QED
    BY <2>1, <2>2
<1>6. Between'
  BY <1>1, <1>4, <1>5, AcceptingKeeps DEF Between, LinksOK
<1>7. names' \in [Host -> SUBSET Uuid]
  BY <1>1, <1>2 DEF Own, ProcessesOK
<1>8. ProcessesOK' /\ IssuedIsKept'
  BY <1>1, <1>7 DEF Own, ProcessesOK, IssuedIsKept
<1>9. UuidIsKept'
  <2>1. ASSUME NEW h \in Host
        PROVE  \/ names'[h] = names[h]
               \/ /\ worker[h].pc = "up" /\ worker[h].cfg.uuid = joining.uuid
                  /\ names'[h] = names[h] \cup {joining.uuid}
    BY <1>1, <1>3
  <2> QED
    BY <2>1, <1>1 DEF Own, UuidIsKept
<1> QED
  BY <1>6, <1>8, <1>9 DEF Own

LEMMA JoinKeeps == Own /\ Between /\ waitForWorkersForever => Own' /\ Between'
<1> SUFFICES ASSUME Own, Between, waitForWorkersForever
             PROVE  Own' /\ Between'
  OBVIOUS
<1> USE DistinctAssumption
<1>1. CASE Accept
  <2>1. UNCHANGED <<processes, names>>
    BY <1>1 DEF Accept
  <2> QED
    BY <1>1, <2>1, UnchangedOwn, AcceptKeeps
<1>2. CASE GetInfoFails
  <2>1. UNCHANGED <<processes, names>>
    BY <1>2 DEF GetInfoFails
  <2> QED
    BY <1>2, <2>1, UnchangedOwn, GetInfoFailsKeeps
<1>3. CASE AddWorkerAndClient
  BY <1>3, AddWorkerAndClientKeeps
<1>4. CASE RegisterFails
  <2>1. /\ joining' = Accepting /\ unregistered' = unregistered \cup ({joining.conn} \cap Host)
        /\ UNCHANGED <<manager, worker, link, wire, backlog, clients>>
    BY <1>4 DEF RegisterFails, processes
  <2>2. UNCHANGED <<processes, names>>
    BY <1>4 DEF RegisterFails
  <2>3. /\ clients' \in [Uuid -> wire \cup {None, Dead}] /\ unregistered' \subseteq wire
        /\ ClientIsWorker'
    BY <2>1 DEF Between, LinksOK, ClientIsWorker
  <2> QED
    BY <2>1, <2>2, <2>3, UnchangedOwn, AcceptingKeeps
<1>5. ASSUME NEW h \in Host, GetInfo(h)
      PROVE  Own' /\ Between'
  <2>1. UNCHANGED <<processes, names>>
    BY <1>5 DEF GetInfo
  <2> QED
    BY <1>5, <2>1, UnchangedOwn, GetInfoKeeps
<1>6. ASSUME NEW h \in Host, Mismatch(h)
      PROVE  Own' /\ Between'
  <2>1. Ended(h) /\ UNCHANGED <<processes, names>> /\ UNCHANGED <<manager, worker, link>>
    BY <1>6 DEF Mismatch, processes
  <2>2. /\ link' \in [Host -> {"none", "dialing", "serving"}]
        /\ \A g \in Host \ {h} : link'[g] = link[g] /\ worker'[g] = worker[g]
    BY <2>1 DEF Between, LinksOK
  <2> QED
    BY <2>1, <2>2, UnchangedOwn, EndedKeeps
<1> QED
  BY <1>1, <1>2, <1>3, <1>4, <1>5, <1>6 DEF waitForWorkersForever

LEMMA LoopKeeps ==
  ASSUME Own, Between, NEW h \in Host, Dial(h) \/ SessionEnds(h) \/ Break(h)
  PROVE  Own' /\ Between'
<1>1. UNCHANGED <<processes, names>>
  BY DEF Dial, SessionEnds, Break
<1>2. Own'
  BY <1>1, UnchangedOwn
<1>3. CASE Dial(h)
  BY <1>2, <1>3, DialKeeps
<1>4. CASE SessionEnds(h)
  BY <1>2, <1>4, SessionEndsKeeps
<1>5. CASE Break(h)
  <2>1. Ended(h) /\ UNCHANGED <<manager, worker, link>>
    BY <1>5 DEF Break, processes
  <2>2. /\ link' \in [Host -> {"none", "dialing", "serving"}]
        /\ \A g \in Host \ {h} : link'[g] = link[g] /\ worker'[g] = worker[g]
    BY <2>1 DEF Between, LinksOK
  <2> QED
    BY <1>2, <2>1, <2>2, EndedKeeps
<1> QED
  BY <1>3, <1>4, <1>5

-----------------------------------------------------------------------------
LEMMA InitIInv == Init => IInv
<1> USE DistinctAssumption
<1> SUFFICES ASSUME Init PROVE IInv
  OBVIOUS
<1>1. ProcessesOK
  BY DEF Init, ProcessesOK, Down
<1>2. IssuedIsKept /\ UuidIsKept
  BY DEF Init, IssuedIsKept, UuidIsKept, Down
<1>3. LinksOK
  BY DEF Init, LinksOK, Accepting
<1>4. ConnectionOK /\ ClientIsWorker
  BY DEF Init, ConnectionOK, ClientIsWorker, Accepting
<1> QED
  BY <1>1, <1>2, <1>3, <1>4, Parts DEF Own, Between

LEMMA NextIInv == IInv /\ [Next]_bootVars => IInv'
<1> SUFFICES ASSUME Own, Between, [Next]_bootVars
             PROVE  Own' /\ Between'
  BY Parts, PTL
<1>1. CASE SetupConfig \/ StoreConfigToFile \/ RunManager \/ ManagerStops \/ Rotate
  BY <1>1, SetupConfigKeeps, StoreConfigToFileKeeps, RunManagerKeeps, ManagerStopsKeeps, RotateKeeps
<1>2. CASE \E h \in Host, flag \in issued \cup {None} : SetupWorkerConfig(h, flag)
  BY <1>2, SetupWorkerConfigKeeps
<1>3. CASE \E h \in Host : StoreWorkerConfig(h) \/ WorkerStops(h)
  BY <1>3, StoreWorkerConfigKeeps, WorkerStopsKeeps
<1>4. CASE \E h \in Host : Dial(h) \/ SessionEnds(h) \/ Break(h)
  BY <1>4, LoopKeeps
<1>5. CASE waitForWorkersForever
  BY <1>5, JoinKeeps
<1>6. CASE UNCHANGED bootVars
  <2>1. UNCHANGED <<processes, names>> /\ UNCHANGED <<worker, connection, manager>>
    BY <1>6 DEF bootVars, processes, files, connection
  <2>2. Own'
    BY <2>1, UnchangedOwn
  <2>3. Between'
    BY <2>1, ManagerKeepsLinks DEF Between, ConnectionOK
  <2> QED
    BY <2>2, <2>3
<1> QED
  BY <1>1, <1>2, <1>3, <1>4, <1>5, <1>6 DEF Next

(* What Boot reaches satisfies IInv. *)
THEOREM Inductive == Spec => []IInv
  BY InitIInv, NextIInv, PTL DEF Spec

(* A set with at most one element that can be named has at most one. *)
LEMMA AtMostOne ==
  ASSUME NEW S, NEW e, S \subseteq {e}
  PROVE  Cardinality(S) <= 1
<1>1. IsFiniteSet({e}) /\ Cardinality({e}) = 1
  BY FS_Singleton
<1> QED
  BY <1>1, FS_Subset

(* The types of both processes, their files and the connections: a manager  *)
(* that serves runs with what is on disk unless the file was deleted, and  *)
(* the manager never takes up a connection that its worker gave up.        *)
THEOREM TypeCorrect == Spec => []TypeOK
<1>1. IInv => TypeOK
  BY DEF IInv
<1> QED
  BY Inductive, <1>1, PTL

(* All starts of a manager whose file was not torn or deleted show the      *)
(* operator the same certificate and token (SetupConfig).                  *)
THEOREM IdentityIsKept == Spec => []OneIdentity
<1>1. IInv => OneIdentity
  BY AtMostOne DEF IInv, IssuedIsKept, OneIdentity
<1> QED
  BY Inductive, <1>1, PTL

(* A host whose file was not torn registers under one uuid, whatever flags  *)
(* it is started with and however often (SetupWorkerConfig).               *)
THEOREM UuidStays == Spec => []OneUuid
<1>1. IInv => OneUuid
  <2> SUFFICES ASSUME IInv, NEW h \in Host \ lostUuid
               PROVE  \E e : names[h] \subseteq {e}
    BY AtMostOne DEF OneUuid
  <2>1. \/ names[h] \subseteq {worker[h].cfg.uuid}
        \/ names[h] \subseteq {workerFile[h].uuid}
        \/ names[h] = {}
    BY DEF IInv, UuidIsKept
  <2> QED
    BY <2>1
<1> QED
  BY Inductive, <1>1, PTL

(* A client whose connection works leads to the worker of its uuid, which   *)
(* trusts the manager that runs, whoever crashed and whatever broke while  *)
(* the worker was registered.                                              *)
THEOREM ClientsAreWorkers == Spec => []ClientIsWorker
<1>1. IInv => ClientIsWorker
  BY DEF IInv
<1> QED
  BY Inductive, <1>1, PTL
=============================================================================
