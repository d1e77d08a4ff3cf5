--------------------------- MODULE ClusterProofs ----------------------------
(***************************************************************************)
(* Proofs about Cluster, for any workers and any number of requests: the   *)
(* worker that SelectWorker returns has a client.  The list it reads may   *)
(* have been written by any pass, so the invariant speaks of what each     *)
(* pass has asked and collected; that clients are never taken away makes   *)
(* it inductive.                                                           *)
(* The second part, that round robin moves on, is about the order and the  *)
(* uniqueness of what each pass collects.                                  *)
(* The third part is about what each pass is still going to list.          *)
(***************************************************************************)
EXTENDS Cluster, TLAPS, WellFoundedInduction

PassType ==
  [pc : {"idle", "copy", "fetch", "read"}, ids : SUBSET Worker,
   todo : SUBSET Worker, got : Seq(Worker)]

(* What a pass asks and collects comes from connected workers. *)
AsksConnected ==
  \A c \in Caller : pass[c].todo \subseteq clients /\ pass[c].got \in Seq(clients)

ListsConnected == nodes \in Seq(clients)

IInv == TypeOK /\ AsksConnected /\ ListsConnected /\ PicksConnected

-----------------------------------------------------------------------------
(* Lemmas about Pick. *)

LEMMA Least ==
  ASSUME NEW T \in SUBSET Nat, T # {}
  PROVE  \E m \in T : \A n \in T : m <= n
<1> DEFINE Less == {ss \in Nat \X Nat : ss[1] < ss[2]}
<1>0. IsWellFoundedOn(Less, Nat)
      BY NatLessThanWellFounded DEF OpToRel
<1>1. PICK m \in T : \A n \in T : ~ (<<n, m>> \in Less)
      <2> HIDE DEF Less
      <2> QED BY <1>0, WFMin
<1>2. ASSUME NEW n \in T PROVE m <= n
      <2>1. <<n, m>> \in Nat \X Nat /\ <<n, m>>[1] = n /\ <<n, m>>[2] = m
            OBVIOUS
      <2>2. ~ (n < m)
            BY <1>1, <2>1
      <2> QED BY <2>2
<1> QED BY <1>2

(* Of any candidates there is one that Pick takes, whatever they score, so *)
(* the result is a node of the list.                                       *)
LEMMA PickIsCandidate ==
  ASSUME NEW W, NEW list \in Seq(W), NEW scores \in [W -> Nat],
         NEW C \in SUBSET DOMAIN list, C # {}
  PROVE  \E i \in C : /\ Pick(scores, list, C) = list[i]
                     /\ \A j \in C : scores[list[i]] <= scores[list[j]]
<1> DEFINE s(i) == scores[list[i]]
           All == {s(i) : i \in C}
<1>1. C \subseteq Nat /\ \A i \in C : list[i] \in W /\ s(i) \in Nat
      OBVIOUS
<1>2. PICK low \in All : \A n \in All : low <= n
      <2>1. All \in SUBSET Nat /\ All # {}
            BY <1>1
      <2> HIDE DEF All
      <2> QED BY <2>1, Least
<1> DEFINE Lowest == {i \in C : s(i) = low}
<1>3. PICK first \in Lowest : \A i \in Lowest : first <= i
      <2>1. Lowest \in SUBSET Nat /\ Lowest # {}
            BY <1>1, <1>2
      <2> HIDE DEF Lowest
      <2> QED BY <2>1, Least
<1>4. \A j \in C : \/ s(first) < s(j)
                   \/ s(first) = s(j) /\ first <= j
      <2> SUFFICES ASSUME NEW j \in C PROVE s(first) < s(j) \/ (s(first) = s(j) /\ first <= j)
          OBVIOUS
      <2>1. s(first) = low /\ low \in Nat /\ s(j) \in Nat /\ low <= s(j)
            BY <1>1, <1>2, <1>3
      <2>2. CASE s(j) = low
            BY <1>3, <2>1, <2>2
      <2>3. CASE s(j) # low
            BY <2>1, <2>3
      <2> QED BY <2>2, <2>3
<1>5. first \in C
      BY <1>3
<1> DEFINE Best(i) == \A j \in C : s(i) < s(j) \/ (s(i) = s(j) /\ i <= j)
           picked == CHOOSE i \in C : Best(i)
<1>6. Pick(scores, list, C) = list[picked]
      BY DEF Pick
<1>7. picked \in C /\ Best(picked)
      BY <1>4, <1>5
<1> HIDE DEF picked
<1>8. \A j \in C : s(picked) <= s(j)
      <2> SUFFICES ASSUME NEW j \in C PROVE s(picked) <= s(j)
          OBVIOUS
      <2>1. s(picked) \in Nat /\ s(j) \in Nat
            BY <1>1, <1>7
      <2>2. s(picked) < s(j) \/ s(picked) = s(j)
            BY <1>7
      <2> HIDE DEF s
      <2> QED BY <2>1, <2>2
<1> QED BY <1>6, <1>7, <1>8

-----------------------------------------------------------------------------
LEMMA SeqOfMore ==
  ASSUME NEW S, NEW T, S \subseteq T, NEW seq \in Seq(S)
  PROVE  seq \in Seq(T)
OBVIOUS

LEMMA NoPassType ==
  NoPass \in PassType /\ NoPass.pc = "idle" /\ NoPass.todo = {} /\ NoPass.got = <<>>
BY DEF NoPass, PassType

(* The parts of TypeOK that most steps leave alone. *)
Rest == /\ scheduler \in [policy : {"epvm", "roundrobin"}, last : Int] /\ scheduler.last + 1 \in Nat
        /\ choice \in [worker : Worker \cup {NoWorker}, from : Seq(Worker)]

TypeAside ==
  /\ registered \subseteq Worker /\ clients \subseteq registered
  /\ joining \in [pc : {"registered", "added", "updating"}, worker : registered] \cup {Waiting}
  /\ nodes \in Seq(Worker)
  /\ \A c \in Caller : pass[c].pc = "read" => c = Send
  /\ pass[Join].pc # "idle" <=> joining.pc = "updating"
  /\ Rest

LEMMA TypeParts == TypeOK <=> pass \in [Caller -> PassType] /\ TypeAside
BY DEF TypeOK, PassType, TypeAside, Rest

LEMMA InitIInv == Init => IInv
<1> SUFFICES ASSUME Init PROVE IInv
    OBVIOUS
<1>1. \A c \in Caller : pass[c] = NoPass
      BY DEF Init
<1>2. NoPass \in PassType /\ NoPass.pc = "idle" /\ NoPass.todo = {} /\ NoPass.got = <<>>
      BY NoPassType
<1>3. Join \in Caller
      BY DEF Caller
<1>4. Rest /\ choice.worker = NoWorker
  <2>1. \A p \in {"epvm", "roundrobin"} :
           /\ [policy |-> p, last |-> Unset] \in [policy : {"epvm", "roundrobin"}, last : Int]
           /\ [policy |-> p, last |-> Unset].last + 1 \in Nat
        BY DEF Unset
  <2>2. NoChoice \in [worker : Worker \cup {NoWorker}, from : Seq(Worker)]
           /\ NoChoice.worker = NoWorker
        BY DEF NoChoice
  <2>3. choice = NoChoice /\ \E p \in {"epvm", "roundrobin"} :
           scheduler = [policy |-> p, last |-> Unset]
        BY Zenon DEF Init
  <2> QED BY <2>1, <2>2, <2>3 DEF Rest
<1>5. registered \subseteq Worker /\ clients = {} /\ nodes = <<>> /\ joining = Waiting
        /\ pass \in [Caller -> PassType]
      BY <1>2 DEF Init
<1>6. TypeOK
      BY <1>1, <1>2, <1>3, <1>4, <1>5 DEF Waiting, TypeOK, PassType, Rest
<1>7. AsksConnected
      <2>1. \A c \in Caller : pass[c].todo = {} /\ pass[c].got = <<>>
            BY <1>1, <1>2
      <2>2. <<>> \in Seq(clients)
            OBVIOUS
      <2> QED BY <2>1, <2>2 DEF AsksConnected
<1>8. ListsConnected
      BY <1>5 DEF ListsConnected
<1> QED BY <1>4, <1>6, <1>7, <1>8 DEF IInv, PicksConnected

(* A pass that begins, in the function of all passes. *)
LEMMA BeginPass ==
  ASSUME TypeOK, NEW c \in Caller, Begin(c)
  PROVE  /\ pass' \in [Caller -> PassType]
         /\ \A d \in Caller \ {c} : pass'[d] = pass[d]
         /\ pass'[c].pc = "copy" /\ pass'[c].todo = {} /\ pass'[c].got = <<>>
<1> DEFINE new == [NoPass EXCEPT !.pc = "copy", !.ids = registered]
<1>1. new \in PassType /\ new.pc = "copy" /\ new.todo = {} /\ new.got = <<>>
      BY NoPassType DEF TypeOK, PassType
<1>2. pass' = [pass EXCEPT ![c] = new] /\ pass \in [Caller -> PassType]
      BY DEF Begin, TypeOK, PassType
<1> HIDE DEF new
<1> QED BY <1>1, <1>2

(* A selection ends with an error, or with one of the nodes it read. *)
LEMMA PickNodeSelects ==
  ASSUME TypeOK, PickNode
  PROVE  /\ choice' = NoChoice \/ \E i \in DOMAIN nodes : choice' = [worker |-> nodes[i], from |-> nodes]
         /\ scheduler' \in [policy : {"epvm", "roundrobin"}, last : Int] /\ scheduler'.last + 1 \in Nat
<1> DEFINE Sched == [policy : {"epvm", "roundrobin"}, last : Int]
<1>0. nodes \in Seq(Worker) /\ scheduler \in Sched /\ scheduler.last + 1 \in Nat
      BY DEF TypeOK
<1>1. CASE NoCandidate
      BY <1>0, <1>1 DEF NoCandidate
<1>2. CASE PickEpvm
  <2>1. PICK fits \in SUBSET Worker, scores \in [Worker -> 0 .. MaxScore] :
           /\ EpvmCandidates(nodes, fits) # {}
           /\ choice' = [worker |-> Pick(scores, nodes, EpvmCandidates(nodes, fits)), from |-> nodes]
        BY <1>2 DEF PickEpvm
  <2>2. EpvmCandidates(nodes, fits) \in SUBSET DOMAIN nodes
        BY DEF EpvmCandidates
  <2>3. scores \in [Worker -> Nat]
        BY <2>1, MaxScoreAssumption
  <2>4. \E i \in EpvmCandidates(nodes, fits) :
           Pick(scores, nodes, EpvmCandidates(nodes, fits)) = nodes[i]
        <3> DEFINE C == EpvmCandidates(nodes, fits)
        <3>1. C \in SUBSET DOMAIN nodes /\ C # {}
              BY <2>1, <2>2
        <3> HIDE DEF C
        <3>2. \E i \in C : /\ Pick(scores, nodes, C) = nodes[i]
                           /\ \A j \in C : scores[nodes[i]] <= scores[nodes[j]]
              BY <1>0, <2>3, <3>1, PickIsCandidate
        <3> QED BY <3>2 DEF C
  <2>5. scheduler' = scheduler
        BY <1>2 DEF PickEpvm
  <2>6. \E i \in DOMAIN nodes : choice' = [worker |-> nodes[i], from |-> nodes]
        BY <2>1, <2>2, <2>4, Zenon
  <2> QED BY <1>0, <2>5, <2>6
<1>3. CASE PickRoundRobin
  <2> DEFINE idx == NewWorkerIdx(scheduler.last, nodes)
             scores == RoundRobinScore(idx, nodes, Worker)
  <2>1. nodes # <<>> /\ choice' = [worker |-> Pick(scores, nodes, DOMAIN nodes), from |-> nodes]
          /\ scheduler' = [scheduler EXCEPT !.last = idx]
        BY <1>3 DEF PickRoundRobin, RoundRobinCandidates
  <2>2. scores \in [Worker -> Nat]
        BY DEF RoundRobinScore
  <2>3. DOMAIN nodes # {}
        <3>1. Len(nodes) \in Nat \ {0} /\ DOMAIN nodes = 1 .. Len(nodes)
              BY <1>0, <2>1
        <3>2. 1 \in DOMAIN nodes
              BY <3>1
        <3> QED BY <3>2
  <2>4. \E i \in DOMAIN nodes : Pick(scores, nodes, DOMAIN nodes) = nodes[i]
        <3> DEFINE C == DOMAIN nodes
        <3> HIDE DEF scores, C
        <3>1. nodes \in Seq(Worker) /\ C \in SUBSET DOMAIN nodes /\ C # {}
              BY <1>0, <2>3 DEF C
        <3>2. \E i \in C : /\ Pick(scores, nodes, C) = nodes[i]
                           /\ \A j \in C : scores[nodes[i]] <= scores[nodes[j]]
              BY <2>2, <3>1, PickIsCandidate
        <3> QED BY <3>2 DEF C
  <2>5. idx \in Nat
        <3>1. Len(nodes) \in Nat \ {0} /\ scheduler.last + 1 \in Nat
              BY <1>0, <2>1
        <3> QED BY <3>1 DEF NewWorkerIdx
  <2> HIDE DEF idx, scores
  <2> QED BY <1>0, <2>1, <2>4, <2>5
<1> QED BY <1>1, <1>2, <1>3 DEF PickNode

(* A caller's step that asks and collects from connected workers only. *)
LEMMA PassStep ==
  ASSUME NEW c \in Caller, AsksConnected, UNCHANGED clients,
         \A d \in Caller \ {c} : pass'[d] = pass[d],
         pass'[c].todo \subseteq clients, pass'[c].got \in Seq(clients)
  PROVE  AsksConnected'
<1> SUFFICES ASSUME NEW d \in Caller
             PROVE  pass'[d].todo \subseteq clients /\ pass'[d].got \in Seq(clients)
    BY DEF AsksConnected
<1>1. CASE d = c
      BY <1>1
<1>2. CASE d # c
      BY <1>2 DEF AsksConnected
<1> QED BY <1>1, <1>2

LEMMA NextIInv == IInv /\ [Next]_clusterVars => IInv'
<1> SUFFICES ASSUME IInv, [Next]_clusterVars PROVE IInv'
    OBVIOUS
<1> USE DEF IInv
<1>0. pass \in [Caller -> PassType] /\ {Send, Join} \subseteq Caller /\ Send # Join /\ Rest
      BY CallerAssumption DEF TypeOK, PassType, Caller, Rest
<1>1. ASSUME NEW w \in Worker, RegisterWorker(w) PROVE IInv'
      BY <1>1 DEF RegisterWorker, TypeOK, Waiting, AsksConnected, ListsConnected, PicksConnected
<1>2. CASE AddClient
  <2>1. joining.worker \in registered /\ joining \in [pc : {"registered"}, worker : registered]
        BY <1>2 DEF AddClient, TypeOK, Waiting
  <2>2. clients \subseteq clients' /\ UNCHANGED <<registered, nodes, pass, scheduler, choice>>
        BY <1>2 DEF AddClient
  <2>3. TypeOK'
        <3>1. pass' \in [Caller -> PassType]
              BY <2>2, TypeParts
        <3>2. TypeAside'
              BY <1>2, <2>1, <2>2, TypeParts DEF AddClient, TypeAside, Rest, Waiting
        <3> QED BY <3>1, <3>2 DEF TypeOK, PassType, TypeAside, Rest
  <2>4. AsksConnected'
        BY <2>2, SeqOfMore DEF AsksConnected
  <2>5. ListsConnected'
        BY <2>2, SeqOfMore DEF ListsConnected
  <2> QED BY <2>2, <2>3, <2>4, <2>5 DEF PicksConnected
<1>3. CASE JoinUpdates
  <2>1. /\ pass' \in [Caller -> PassType]
        /\ \A d \in Caller \ {Join} : pass'[d] = pass[d]
        /\ pass'[Join].pc = "copy" /\ pass'[Join].todo = {} /\ pass'[Join].got = <<>>
        BY <1>0, <1>3, BeginPass DEF JoinUpdates
  <2>2. joining' \in [pc : {"updating"}, worker : registered]
        <3>1. joining.pc = "added" /\ joining' = [joining EXCEPT !.pc = "updating"]
              BY <1>3 DEF JoinUpdates
        <3>2. joining \in [pc : {"added"}, worker : registered]
              BY <3>1 DEF TypeOK, Waiting
        <3> QED BY <3>1, <3>2
  <2>3. UNCHANGED <<registered, clients, nodes, scheduler, choice>>
        BY <1>3 DEF JoinUpdates
  <2>4. TypeOK'
        BY <1>0, <2>1, <2>2, <2>3 DEF TypeOK, PassType
  <2>5. AsksConnected'
        <3>1. <<>> \in Seq(clients)
              OBVIOUS
        <3> QED BY <1>0, <2>1, <2>3, <3>1, PassStep
  <2> QED BY <2>3, <2>4, <2>5 DEF ListsConnected, PicksConnected
<1>4. ASSUME NEW c \in {Send} \cup Request, Begin(c),
             UNCHANGED <<registered, clients, joining, nodes, scheduler, choice>>
      PROVE  IInv'
  <2>1. c \in Caller \ {Join}
        BY CallerAssumption DEF Caller
  <2>2. /\ pass' \in [Caller -> PassType]
        /\ \A d \in Caller \ {c} : pass'[d] = pass[d]
        /\ pass'[c].pc = "copy" /\ pass'[c].todo = {} /\ pass'[c].got = <<>>
        BY <1>4, <2>1, BeginPass
  <2>3. TypeOK'
        BY <1>0, <1>4, <2>1, <2>2 DEF TypeOK, PassType
  <2>4. AsksConnected'
        <3>1. <<>> \in Seq(clients)
              OBVIOUS
        <3> QED BY <1>4, <2>1, <2>2, <3>1, PassStep
  <2> QED BY <1>4, <2>3, <2>4 DEF ListsConnected, PicksConnected
<1>5. ASSUME NEW c \in Caller, CopyClients(c) PROVE IInv'
  <2>1. /\ pass' \in [Caller -> PassType]
        /\ \A d \in Caller \ {c} : pass'[d] = pass[d]
        /\ pass[c].pc = "copy" /\ pass'[c].pc = "fetch"
        /\ pass'[c].todo \subseteq clients /\ pass'[c].got = pass[c].got
        BY <1>0, <1>5 DEF CopyClients, PassType
  <2>2. UNCHANGED <<registered, clients, joining, nodes, scheduler, choice>>
        BY <1>5 DEF CopyClients
  <2>3. TypeOK'
        BY <1>0, <2>1, <2>2 DEF TypeOK, PassType
  <2>4. AsksConnected'
        <3>1. pass[c].got \in Seq(clients)
              BY DEF AsksConnected
        <3> QED BY <2>1, <2>2, <3>1, PassStep
  <2> QED BY <2>2, <2>3, <2>4 DEF ListsConnected, PicksConnected
<1>6. ASSUME NEW c \in Caller, NEW w \in Worker, FetchNodeStats(c, w) \/ FetchFails(c, w)
      PROVE  IInv'
  <2>1. /\ pass' = [pass EXCEPT ![c] = pass'[c]]
        /\ pass'[c].pc = pass[c].pc /\ pass'[c].ids = pass[c].ids
        /\ pass'[c].todo = pass[c].todo \ {w} /\ w \in pass[c].todo
        /\ pass'[c].got \in {pass[c].got, Append(pass[c].got, w)}
        /\ pass'[c] = [pc |-> pass'[c].pc, ids |-> pass'[c].ids,
                       todo |-> pass'[c].todo, got |-> pass'[c].got]
        BY <1>0, <1>6 DEF FetchNodeStats, FetchFails, PassType
  <2>2. UNCHANGED <<registered, clients, joining, nodes, scheduler, choice>>
        BY <1>6 DEF FetchNodeStats, FetchFails
  <2>3. w \in clients /\ pass[c].got \in Seq(clients) /\ pass[c] \in PassType
        BY <1>0, <2>1 DEF AsksConnected
  <2>4. pass'[c].got \in Seq(clients) /\ pass'[c].got \in Seq(Worker)
        <3>1. pass[c].got \in Seq(clients) /\ pass[c].got \in Seq(Worker)
              BY <2>3 DEF PassType
        <3>2. /\ Append(pass[c].got, w) \in Seq(clients)
              /\ Append(pass[c].got, w) \in Seq(Worker)
              BY <2>3, <3>1
        <3> QED BY <2>1, <3>1, <3>2
  <2>5. pass'[c] \in PassType
        BY <2>1, <2>3, <2>4 DEF PassType
  <2>6. pass' \in [Caller -> PassType] /\ \A d \in Caller \ {c} : pass'[d] = pass[d]
        BY <1>0, <2>1, <2>5
  <2>7. TypeOK'
        <3>1. Join \in Caller
              BY DEF Caller
        <3>2. TypeAside'
              BY <2>1, <2>2, <2>6, <3>1, TypeParts DEF TypeAside, Rest
        <3> QED BY <2>6, <3>2 DEF TypeOK, PassType, TypeAside, Rest
  <2>8. AsksConnected'
        <3>1. pass'[c].todo \subseteq clients
              BY <2>1 DEF AsksConnected
        <3> QED BY <2>2, <2>4, <2>6, <3>1, PassStep
  <2> QED BY <2>2, <2>7, <2>8 DEF ListsConnected, PicksConnected
<1>7. ASSUME NEW c \in Caller, ReplaceNodes(c) PROVE IInv'
  <2>1. /\ pass' \in [Caller -> PassType]
        /\ \A d \in Caller \ {c} : pass'[d] = pass[d]
        /\ pass'[c].pc = IF c = Send THEN "read" ELSE "idle"
        /\ pass'[c].todo = {} /\ pass'[c].got = <<>>
        <3> DEFINE new == IF c = Send THEN [NoPass EXCEPT !.pc = "read"] ELSE NoPass
        <3>1. new \in PassType /\ new.pc = (IF c = Send THEN "read" ELSE "idle")
                /\ new.todo = {} /\ new.got = <<>>
              BY NoPassType DEF PassType
        <3>2. pass' = [pass EXCEPT ![c] = new]
              BY <1>7 DEF ReplaceNodes, Return
        <3> HIDE DEF new
        <3> QED BY <1>0, <3>1, <3>2
  <2>2. nodes' \in Seq(Worker) /\ nodes' \in Seq(clients)
        BY <1>0, <1>7 DEF ReplaceNodes, PassType, AsksConnected
  <2>3. /\ joining' = IF c = Join THEN Waiting ELSE joining
        /\ UNCHANGED <<registered, clients, scheduler, choice>>
        BY <1>7 DEF ReplaceNodes, Return
  <2>4. TypeOK'
    <3>1. \A d \in Caller : pass'[d].pc = "read" => d = Send
          BY <2>1 DEF TypeOK
    <3>2. pass'[Join].pc # "idle" <=> joining'.pc = "updating"
      <4>1. CASE c = Join
            BY <1>0, <2>1, <2>3, <4>1 DEF Waiting
      <4>2. CASE c # Join
            BY <1>0, <2>1, <2>3, <4>2 DEF TypeOK
      <4> QED BY <4>1, <4>2
    <3>3. joining' \in [pc : {"registered", "added", "updating"}, worker : registered'] \cup {Waiting}
          BY <2>3 DEF TypeOK
    <3> QED BY <2>1, <2>2, <2>3, <3>1, <3>2, <3>3 DEF TypeOK, PassType
  <2>5. AsksConnected'
        <3>1. <<>> \in Seq(clients)
              OBVIOUS
        <3> QED BY <2>1, <2>3, <3>1, PassStep
  <2> QED BY <2>2, <2>3, <2>4, <2>5 DEF ListsConnected, PicksConnected
<1>8. CASE PickNode
  <2>1. /\ pass' \in [Caller -> PassType]
        /\ \A d \in Caller \ {Send} : pass'[d] = pass[d]
        /\ pass'[Send].pc = "idle" /\ pass'[Send].todo = {} /\ pass'[Send].got = <<>>
        <3>1. pass' = [pass EXCEPT ![Send] = NoPass]
              BY <1>8 DEF PickNode, NoCandidate, PickEpvm, PickRoundRobin
        <3> QED BY <1>0, <3>1, NoPassType
  <2>2. nodes \in Seq(Worker) /\ nodes \in Seq(clients) /\ clients \subseteq registered
        BY DEF TypeOK, ListsConnected
  <2>3. Rest' /\ (choice'.worker # NoWorker => choice'.worker \in registered \cap clients)
    <3>1. /\ choice' = NoChoice \/ \E i \in DOMAIN nodes : choice' = [worker |-> nodes[i], from |-> nodes]
          /\ scheduler' \in [policy : {"epvm", "roundrobin"}, last : Int] /\ scheduler'.last + 1 \in Nat
          BY <1>8, PickNodeSelects
    <3>2. CASE choice' = NoChoice
      <4>1. choice'.worker = NoWorker /\ choice' \in [worker : Worker \cup {NoWorker}, from : Seq(Worker)]
            BY <3>2 DEF NoChoice
      <4> QED BY <3>1, <4>1 DEF Rest
    <3>3. CASE \E i \in DOMAIN nodes : choice' = [worker |-> nodes[i], from |-> nodes]
      <4>1. PICK i \in DOMAIN nodes : choice' = [worker |-> nodes[i], from |-> nodes]
            BY <3>3
      <4>2. nodes[i] \in Worker /\ nodes[i] \in registered \cap clients
            BY <2>2
      <4>3. choice'.worker = nodes[i] /\ choice' \in [worker : Worker \cup {NoWorker}, from : Seq(Worker)]
            BY <2>2, <4>1, <4>2
      <4> QED BY <3>1, <4>2, <4>3 DEF Rest
    <3> QED BY <3>1, <3>2, <3>3
  <2>4. UNCHANGED <<registered, clients, joining, nodes>>
        BY <1>8 DEF PickNode, NoCandidate, PickEpvm, PickRoundRobin
  <2>5. TypeOK'
        BY <1>0, <2>1, <2>3, <2>4 DEF TypeOK, PassType, Rest
  <2>6. AsksConnected'
        <3>1. <<>> \in Seq(clients)
              OBVIOUS
        <3> QED BY <1>0, <2>1, <2>4, <3>1, PassStep
  <2> QED BY <2>3, <2>4, <2>5, <2>6 DEF ListsConnected, PicksConnected
<1>9. CASE UNCHANGED clusterVars
      BY <1>9 DEF clusterVars, TypeOK, AsksConnected, ListsConnected, PicksConnected
<1> QED BY <1>1, <1>2, <1>3, <1>4, <1>5, <1>6, <1>7, <1>8, <1>9
        DEF Next, UpdateWorkerNodes, GetNodesHandler, SelectWorker

(* IInv holds in every state. *)
THEOREM Inductive == Spec => []IInv
BY InitIInv, NextIInv, PTL DEF Spec

(* The types hold: in particular waitForWorkersForever is in a pass of its *)
(* own exactly while it says so, and clients belong to registered workers. *)
THEOREM TypeCorrect == Spec => []TypeOK
BY Inductive, PTL DEF IInv

(* SelectWorker never returns a worker that SendTask has no client for,    *)
(* with either scheduler.                                                  *)
THEOREM PicksAreConnected == Spec => []PicksConnected
BY Inductive, PTL DEF IInv
-----------------------------------------------------------------------------
(* Round robin compares positions, RoundRobinMovesOn workers: they agree as *)
(* long as no list names a worker twice.                                   *)

Distinct(list) == \A i, j \in DOMAIN list : list[i] = list[j] => i = j

(* A pass asks each worker once. *)
AsksOnce ==
  \A c \in Caller :
    /\ Distinct(pass[c].got)
    /\ \A i \in DOMAIN pass[c].got : pass[c].got[i] \notin pass[c].todo
    /\ pass[c].pc # "fetch" => pass[c].got = <<>> /\ pass[c].todo = {}

(* Round robin's index says where in its list the last choice was. *)
LastIsChoice ==
  scheduler.policy = "roundrobin" /\ choice.from # <<>> =>
    /\ scheduler.last + 1 \in DOMAIN choice.from
    /\ choice.worker = choice.from[scheduler.last + 1]

TurnInv == AsksOnce /\ Distinct(nodes) /\ LastIsChoice

(* Round robin picks the node at its index. *)
LEMMA RoundRobinPicks ==
  ASSUME NEW list \in Seq(Worker), NEW idx \in Nat, idx + 1 \in DOMAIN list
  PROVE  Pick(RoundRobinScore(idx, list, Worker), list, DOMAIN list) = list[idx + 1]
<1> DEFINE scores == RoundRobinScore(idx, list, Worker)
<1>1. /\ scores \in [Worker -> Nat]
      /\ \A w \in Worker : scores[w] = 1 \/ scores[w] = 10
      /\ \A w \in Worker : scores[w] = 1 <=> w = list[idx + 1]
      BY DEF RoundRobinScore
<1> HIDE DEF scores
<1>2. PICK i \in DOMAIN list : /\ Pick(scores, list, DOMAIN list) = list[i]
                               /\ \A j \in DOMAIN list : scores[list[i]] <= scores[list[j]]
      BY <1>1, PickIsCandidate
<1>3. list[i] \in Worker /\ list[idx + 1] \in Worker
      OBVIOUS
<1>4. scores[list[i]] <= scores[list[idx + 1]]
      BY <1>2
<1>5. list[i] = list[idx + 1]
      BY <1>1, <1>3, <1>4
<1> QED BY <1>2, <1>5 DEF scores

(* The next index is another one, within the list. *)
LEMMA NextIndex ==
  ASSUME NEW n \in Nat \ {0}, NEW last \in Int, last + 1 \in Nat
  PROVE  /\ (last + 1) % n \in 0 .. n - 1
         /\ n > 1 /\ last < n => (last + 1) % n # last
<1>1. (last + 1) % n \in 0 .. n - 1
      OBVIOUS
<1>2. CASE last + 1 < n
  <2>1. (last + 1) % n = last + 1
        BY <1>2
  <2> QED BY <1>1, <2>1
<1>3. CASE last + 1 = n
  <2>1. (last + 1) % n = 0
        BY <1>3
  <2> QED BY <1>1, <1>3, <2>1
<1>4. CASE last + 1 > n
      BY <1>1, <1>4
<1> QED BY <1>2, <1>3, <1>4

LEMMA PickRoundRobinTurn ==
  ASSUME TypeOK, PickRoundRobin
  PROVE  /\ nodes \in Seq(Worker) /\ Len(nodes) \in Nat \ {0}
         /\ scheduler' = [scheduler EXCEPT !.last = (scheduler.last + 1) % Len(nodes)]
         /\ choice' = [worker |-> nodes[scheduler'.last + 1], from |-> nodes]
         /\ scheduler'.last + 1 \in DOMAIN nodes
<1> DEFINE idx == NewWorkerIdx(scheduler.last, nodes)
<1>1. /\ nodes # <<>> /\ scheduler' = [scheduler EXCEPT !.last = idx]
      /\ choice' = [worker |-> Pick(RoundRobinScore(idx, nodes, Worker), nodes, DOMAIN nodes),
                    from |-> nodes]
      BY DEF PickRoundRobin, RoundRobinCandidates
<1>2. /\ nodes \in Seq(Worker) /\ Len(nodes) \in Nat \ {0} /\ DOMAIN nodes = 1 .. Len(nodes)
      /\ scheduler \in [policy : {"epvm", "roundrobin"}, last : Int] /\ scheduler.last + 1 \in Nat
      BY <1>1 DEF TypeOK
<1>3. idx = (scheduler.last + 1) % Len(nodes)
      BY DEF NewWorkerIdx
<1>4. idx \in 0 .. Len(nodes) - 1
      BY <1>2, <1>3, NextIndex
<1> HIDE DEF idx
<1>5. idx \in Nat /\ idx + 1 \in DOMAIN nodes
      BY <1>2, <1>4
<1>6. scheduler'.last = idx
      BY <1>1, <1>2
<1> QED BY <1>1, <1>2, <1>3, <1>5, <1>6, RoundRobinPicks
(* What a caller's step must leave of its own pass. *)
PassOnce(p) ==
  /\ Distinct(p.got)
  /\ \A i \in DOMAIN p.got : p.got[i] \notin p.todo
  /\ p.pc # "fetch" => p.got = <<>> /\ p.todo = {}

LEMMA PassStepOnce ==
  ASSUME NEW c \in Caller, AsksOnce,
         \A d \in Caller \ {c} : pass'[d] = pass[d], PassOnce(pass'[c])
  PROVE  AsksOnce'
<1> SUFFICES ASSUME NEW d \in Caller PROVE PassOnce(pass'[d])
    BY DEF AsksOnce, PassOnce
<1>1. CASE d = c
      BY <1>1
<1>2. CASE d # c
      BY <1>2 DEF AsksOnce, PassOnce
<1> QED BY <1>1, <1>2

LEMMA NewPassOnce ==
  ASSUME NEW p, p.got = <<>>, p.pc = "fetch" \/ p.todo = {}
  PROVE  PassOnce(p)
BY DEF PassOnce, Distinct

LEMMA NextTurnInv == IInv /\ TurnInv /\ [Next]_clusterVars => TurnInv'
<1> SUFFICES ASSUME IInv, TurnInv, [Next]_clusterVars PROVE TurnInv'
    OBVIOUS
<1> USE DEF IInv, TurnInv
<1>0. pass \in [Caller -> PassType] /\ {Send, Join} \subseteq Caller
      BY CallerAssumption DEF TypeOK, PassType, Caller
<1>1. ASSUME UNCHANGED <<nodes, pass, scheduler, choice>> PROVE TurnInv'
      BY <1>1 DEF AsksOnce, Distinct, LastIsChoice
<1>2. ASSUME NEW c \in Caller, AsksOnce', UNCHANGED <<nodes, scheduler, choice>> PROVE TurnInv'
      BY <1>2 DEF Distinct, LastIsChoice
<1>3. ASSUME NEW w \in Worker, RegisterWorker(w) PROVE TurnInv'
      BY <1>1, <1>3 DEF RegisterWorker
<1>4. CASE AddClient
      BY <1>1, <1>4 DEF AddClient
<1>5. ASSUME NEW c \in Caller, Begin(c), UNCHANGED <<nodes, scheduler, choice>> PROVE TurnInv'
  <2>1. /\ \A d \in Caller \ {c} : pass'[d] = pass[d]
        /\ pass'[c].got = <<>> /\ pass'[c].todo = {}
        BY <1>5, BeginPass
  <2> QED BY <1>2, <1>5, <2>1, NewPassOnce, PassStepOnce
<1>6. ASSUME NEW c \in Caller, CopyClients(c) PROVE TurnInv'
  <2>1. /\ \A d \in Caller \ {c} : pass'[d] = pass[d]
        /\ pass[c].pc = "copy" /\ pass'[c].pc = "fetch" /\ pass'[c].got = pass[c].got
        /\ UNCHANGED <<nodes, scheduler, choice>>
        BY <1>0, <1>6 DEF CopyClients, PassType
  <2>2. pass'[c].got = <<>>
        BY <2>1 DEF AsksOnce
  <2> QED BY <1>2, <2>1, <2>2, NewPassOnce, PassStepOnce
<1>7. ASSUME NEW c \in Caller, NEW w \in Worker, FetchNodeStats(c, w) \/ FetchFails(c, w)
      PROVE  TurnInv'
  <2>0. PassOnce(pass[c])
        BY DEF AsksOnce, PassOnce
  <2>1. /\ \A d \in Caller \ {c} : pass'[d] = pass[d]
        /\ pass'[c].pc = pass[c].pc
        /\ w \in pass[c].todo /\ pass'[c].todo = pass[c].todo \ {w}
        /\ \/ pass'[c].got = pass[c].got
           \/ pass'[c].got = Append(pass[c].got, w) /\ pass[c].pc = "fetch"
        /\ UNCHANGED <<nodes, scheduler, choice>>
    <3>1. pass[c] \in PassType
          BY <1>0
    <3>2. CASE FetchNodeStats(c, w)
          BY <1>0, <2>0, <3>2 DEF FetchNodeStats, PassType, PassOnce
    <3>3. CASE FetchFails(c, w)
          BY <1>0, <3>3 DEF FetchFails, PassType
    <3> QED BY <1>7, <3>2, <3>3
  <2>2. PassOnce(pass[c])
        BY DEF AsksOnce, PassOnce
  <2>3. pass[c].got \in Seq(Worker)
        BY <1>0 DEF PassType
  <2>4. CASE pass'[c].got = pass[c].got
        BY <1>2, <2>1, <2>2, <2>4, PassStepOnce DEF PassOnce
  <2>5. CASE pass'[c].got = Append(pass[c].got, w) /\ pass[c].pc = "fetch"
    <3> DEFINE got == pass[c].got
    <3>1. /\ Len(got) \in Nat /\ DOMAIN got = 1 .. Len(got)
          /\ DOMAIN Append(got, w) = 1 .. Len(got) + 1
          /\ Append(got, w)[Len(got) + 1] = w
          /\ \A i \in 1 .. Len(got) : Append(got, w)[i] = got[i] /\ got[i] # w
          BY <2>1, <2>2, <2>3 DEF PassOnce
    <3>2. \A i \in DOMAIN Append(got, w) : i \in 1 .. Len(got) \/ i = Len(got) + 1
          BY <3>1
    <3>3. Distinct(Append(got, w))
          BY <2>2, <3>1, <3>2 DEF PassOnce, Distinct
    <3>4. \A i \in DOMAIN Append(got, w) : Append(got, w)[i] \notin pass[c].todo \ {w}
          BY <2>2, <3>1, <3>2 DEF PassOnce
    <3>5. PassOnce(pass'[c])
          BY <2>1, <2>5, <3>3, <3>4 DEF PassOnce
    <3> QED BY <1>2, <2>1, <3>5, PassStepOnce
  <2> QED BY <2>1, <2>4, <2>5
<1>8. ASSUME NEW c \in Caller, ReplaceNodes(c) PROVE TurnInv'
  <2>1. /\ \A d \in Caller \ {c} : pass'[d] = pass[d]
        /\ pass'[c].got = <<>> /\ pass'[c].todo = {}
    <3> DEFINE new == IF c = Send THEN [NoPass EXCEPT !.pc = "read"] ELSE NoPass
    <3>1. new.got = <<>> /\ new.todo = {}
          BY NoPassType DEF PassType
    <3>2. pass' = [pass EXCEPT ![c] = new]
          BY <1>8 DEF ReplaceNodes, Return
    <3> HIDE DEF new
    <3> QED BY <1>0, <3>1, <3>2
  <2>2. nodes' = pass[c].got /\ UNCHANGED <<scheduler, choice>>
        BY <1>8 DEF ReplaceNodes
  <2>3. AsksOnce'
        BY <2>1, NewPassOnce, PassStepOnce
  <2> QED BY <2>2, <2>3 DEF AsksOnce, Distinct, LastIsChoice
<1>9. CASE PickNode
  <2>1. /\ \A d \in Caller \ {Send} : pass'[d] = pass[d]
        /\ pass'[Send].got = <<>> /\ pass'[Send].todo = {} /\ nodes' = nodes
    <3>1. pass' = [pass EXCEPT ![Send] = NoPass]
          BY <1>9 DEF PickNode, NoCandidate, PickEpvm, PickRoundRobin
    <3>2. nodes' = nodes
          BY <1>9 DEF PickNode, NoCandidate, PickEpvm, PickRoundRobin
    <3> QED BY <1>0, <3>1, <3>2, NoPassType
  <2>2. AsksOnce'
        BY <1>0, <2>1, NewPassOnce, PassStepOnce
  <2>3. Distinct(nodes)'
        BY <2>1 DEF Distinct
  <2>4. LastIsChoice'
    <3>1. CASE NoCandidate
      <4>1. choice'.from = <<>>
            BY <3>1 DEF NoCandidate, NoChoice
      <4> QED BY <4>1 DEF LastIsChoice
    <3>2. CASE PickEpvm
      <4>1. scheduler'.policy = "epvm"
            BY <3>2 DEF PickEpvm
      <4> QED BY <4>1 DEF LastIsChoice
    <3>3. CASE PickRoundRobin
      <4>1. /\ choice' = [worker |-> nodes[scheduler'.last + 1], from |-> nodes]
            /\ scheduler'.last + 1 \in DOMAIN nodes
            BY <3>3, PickRoundRobinTurn
      <4>2. choice'.from = nodes /\ choice'.worker = nodes[scheduler'.last + 1]
            BY <4>1
      <4> QED BY <4>1, <4>2 DEF LastIsChoice
    <3> QED BY <1>9, <3>1, <3>2, <3>3 DEF PickNode
  <2> QED BY <2>2, <2>3, <2>4
<1>10. CASE UNCHANGED clusterVars
       BY <1>1, <1>10 DEF clusterVars
<1>11. CASE JoinUpdates
       BY <1>0, <1>5, <1>11 DEF JoinUpdates
<1>12. ASSUME NEW r \in Request, GetNodesHandler(r) PROVE TurnInv'
       BY <1>5, <1>12 DEF GetNodesHandler, Caller
<1>13. CASE SelectWorker
       BY <1>0, <1>5, <1>13 DEF SelectWorker
<1> QED BY <1>3, <1>4, <1>6, <1>7, <1>8, <1>9, <1>10, <1>11, <1>12, <1>13
        DEF Next, UpdateWorkerNodes

LEMMA TurnForEver == Spec => []TurnInv
<1>1. Init => TurnInv
  <2> SUFFICES ASSUME Init PROVE TurnInv
      OBVIOUS
  <2>1. \A c \in Caller : pass[c].got = <<>> /\ pass[c].todo = {}
        BY NoPassType DEF Init
  <2>2. AsksOnce
        BY <2>1, NewPassOnce DEF AsksOnce, PassOnce
  <2>3. Distinct(nodes)
        BY DEF Init, Distinct
  <2>4. choice.from = <<>>
        BY DEF Init, NoChoice
  <2> QED BY <2>2, <2>3, <2>4 DEF TurnInv, LastIsChoice
<1> QED BY Inductive, NextTurnInv, <1>1, PTL DEF Spec

(* Two selections in a row that read the same list of two or more nodes     *)
(* pick different workers: no pass lists a worker twice, and the index     *)
(* moves (roundrobin.go).                                                  *)
THEOREM RoundRobinAdvances == Spec => RoundRobinMovesOn
<1> DEFINE MovesOn == PickNode /\ scheduler.policy = "roundrobin"
                        /\ choice.from = nodes /\ Len(nodes) > 1
                      => choice'.worker # choice.worker
<1>1. IInv /\ TurnInv => MovesOn
  <2> SUFFICES ASSUME IInv, TurnInv, PickNode, scheduler.policy = "roundrobin",
                      choice.from = nodes, Len(nodes) > 1
               PROVE  choice'.worker # choice.worker
      OBVIOUS
  <2>1. TypeOK /\ nodes # <<>>
        BY DEF IInv
  <2>2. PickRoundRobin
        BY <2>1 DEF PickNode, NoCandidate, PickEpvm
  <2>3. /\ nodes \in Seq(Worker) /\ Len(nodes) \in Nat \ {0}
        /\ scheduler' = [scheduler EXCEPT !.last = (scheduler.last + 1) % Len(nodes)]
        /\ choice' = [worker |-> nodes[scheduler'.last + 1], from |-> nodes]
        /\ scheduler'.last + 1 \in DOMAIN nodes
        BY <2>1, <2>2, PickRoundRobinTurn
  <2>4. /\ scheduler \in [policy : {"epvm", "roundrobin"}, last : Int] /\ scheduler.last + 1 \in Nat
        /\ scheduler.last + 1 \in 1 .. Len(nodes) /\ choice.worker = nodes[scheduler.last + 1]
        BY <2>1, <2>3 DEF TypeOK, TurnInv, LastIsChoice
  <2>5. scheduler'.last = (scheduler.last + 1) % Len(nodes) /\ scheduler.last \in Int
        BY <2>3, <2>4
  <2>6. scheduler'.last # scheduler.last /\ scheduler'.last \in Int
        BY <2>3, <2>4, <2>5, NextIndex
  <2>7. scheduler'.last + 1 # scheduler.last + 1
        BY <2>5, <2>6
  <2>8. choice'.worker = nodes[scheduler'.last + 1]
        BY <2>3
  <2> QED BY <2>3, <2>4, <2>7, <2>8 DEF TurnInv, Distinct
<1>2. IInv /\ TurnInv => [MovesOn]_clusterVars
      BY <1>1
<1> QED BY Inductive, TurnForEver, <1>2, PTL DEF RoundRobinMovesOn
-----------------------------------------------------------------------------
(* A worker that all passes know stays on the list.  Clients are never     *)
(* taken away, so a pass that begins later knows it as well, and only the  *)
(* requests of flaky workers fail.                                         *)

LEMMA ListedAppend ==
  ASSUME NEW S, NEW seq \in Seq(S), NEW e \in S
  PROVE  Listed(Append(seq, e)) = Listed(seq) \cup {e}
<1> DEFINE n == Len(seq)
<1>1. /\ n \in Nat /\ DOMAIN seq = 1 .. n /\ DOMAIN Append(seq, e) = 1 .. n + 1
      /\ Append(seq, e)[n + 1] = e /\ \A i \in 1 .. n : Append(seq, e)[i] = seq[i]
      OBVIOUS
<1> HIDE DEF n
<1>2. \A i \in 1 .. n + 1 : i \in 1 .. n \/ i = n + 1
      BY <1>1
<1>3. n + 1 \in 1 .. n + 1 /\ \A i \in 1 .. n : i \in 1 .. n + 1
      BY <1>1
<1> QED BY <1>1, <1>2, <1>3 DEF Listed

(* One pass takes a step, the list stays as it is. *)
LEMMA SettledStays ==
  ASSUME NEW w, NEW c \in Caller, Settled(w), nodes' = nodes, clients \subseteq clients',
         \A d \in Caller \ {c} : pass'[d] = pass[d],
         Knows(pass'[c], w)
  PROVE  Settled(w)'
BY DEF Settled, Listed, Knows

LEMMA NextSettled ==
  ASSUME IInv, [Next]_clusterVars, NEW w \in Worker \ Flaky, Settled(w)
  PROVE  Settled(w)'
<1> USE DEF IInv
<1>0. pass \in [Caller -> PassType] /\ {Send, Join} \subseteq Caller /\ w \in registered
      BY DEF TypeOK, PassType, Caller, Settled
<1>1. ASSUME UNCHANGED <<nodes, pass>>, clients \subseteq clients' PROVE Settled(w)'
      BY <1>1 DEF Settled, Listed, Knows
<1>2. ASSUME NEW v \in Worker, RegisterWorker(v) PROVE Settled(w)'
      BY <1>1, <1>2 DEF RegisterWorker
<1>3. CASE AddClient
      BY <1>1, <1>3 DEF AddClient
<1>4. ASSUME NEW c \in Caller, Begin(c), UNCHANGED <<nodes, clients>> PROVE Settled(w)'
  <2>1. pass'[c] = [NoPass EXCEPT !.pc = "copy", !.ids = registered]
        BY <1>0, <1>4 DEF Begin
  <2>2. Knows(pass'[c], w)
        BY <1>0, <2>1 DEF Knows, NoPass
  <2> QED BY <1>4, <2>2, BeginPass, SettledStays
<1>5. CASE JoinUpdates
      BY <1>0, <1>4, <1>5 DEF JoinUpdates
<1>6. ASSUME NEW r \in Request, GetNodesHandler(r) PROVE Settled(w)'
      BY <1>4, <1>6 DEF GetNodesHandler, Caller
<1>7. CASE SelectWorker
      BY <1>0, <1>4, <1>7 DEF SelectWorker
<1>8. ASSUME NEW c \in Caller, CopyClients(c) PROVE Settled(w)'
  <2>1. /\ \A d \in Caller \ {c} : pass'[d] = pass[d]
        /\ pass[c].pc = "copy" /\ pass'[c].pc = "fetch"
        /\ pass'[c].todo = pass[c].ids \cap clients
        /\ UNCHANGED <<nodes, clients>>
        BY <1>0, <1>8 DEF CopyClients, PassType
  <2>2. w \in pass[c].ids \cap clients
        BY <2>1 DEF Settled, Knows
  <2> QED BY <2>1, <2>2, SettledStays DEF Knows
<1>9. ASSUME NEW c \in Caller, NEW v \in Worker, FetchNodeStats(c, v) PROVE Settled(w)'
  <2>1. /\ \A d \in Caller \ {c} : pass'[d] = pass[d]
        /\ pass'[c].pc = pass[c].pc /\ pass'[c].ids = pass[c].ids
        /\ pass'[c].todo = pass[c].todo \ {v} /\ pass'[c].got = Append(pass[c].got, v)
        /\ UNCHANGED <<nodes, clients>>
        BY <1>0, <1>9 DEF FetchNodeStats, PassType
  <2>2. Listed(pass'[c].got) = Listed(pass[c].got) \cup {v}
        BY <1>0, <2>1, ListedAppend DEF PassType
  <2>3. Knows(pass[c], w)
        BY DEF Settled
  <2> QED BY <2>1, <2>2, <2>3, SettledStays DEF Knows
<1>10. ASSUME NEW c \in Caller, NEW v \in Worker, FetchFails(c, v) PROVE Settled(w)'
  <2>1. /\ \A d \in Caller \ {c} : pass'[d] = pass[d]
        /\ pass'[c].pc = pass[c].pc /\ pass'[c].ids = pass[c].ids
        /\ pass'[c].todo = pass[c].todo \ {v} /\ pass'[c].got = pass[c].got
        /\ UNCHANGED <<nodes, clients>> /\ v # w
        BY <1>0, <1>10 DEF FetchFails, PassType
  <2>2. Knows(pass[c], w)
        BY DEF Settled
  <2> QED BY <2>1, <2>2, SettledStays DEF Knows
<1>11. ASSUME NEW c \in Caller, ReplaceNodes(c) PROVE Settled(w)'
  <2>1. /\ \A d \in Caller \ {c} : pass'[d] = pass[d]
        /\ pass'[c].pc \in {"idle", "read"}
    <3> DEFINE new == IF c = Send THEN [NoPass EXCEPT !.pc = "read"] ELSE NoPass
    <3>1. new.pc \in {"idle", "read"}
          BY NoPassType DEF PassType
    <3>2. pass' = [pass EXCEPT ![c] = new]
          BY <1>11 DEF ReplaceNodes, Return
    <3> HIDE DEF new
    <3> QED BY <1>0, <3>1, <3>2
  <2>2. nodes' = pass[c].got /\ clients' = clients
        BY <1>11 DEF ReplaceNodes
  <2>3. w \in Listed(pass[c].got)
        BY <1>11 DEF ReplaceNodes, Fetched, Settled, Knows
  <2> QED BY <2>1, <2>2, <2>3 DEF Settled, Listed, Knows
<1>12. CASE PickNode
  <2>1. pass' = [pass EXCEPT ![Send] = NoPass] /\ UNCHANGED <<nodes, clients>>
        BY <1>12 DEF PickNode, NoCandidate, PickEpvm, PickRoundRobin
  <2>2. Knows(pass'[Send], w) /\ \A d \in Caller \ {Send} : pass'[d] = pass[d]
        BY <1>0, <2>1, NoPassType DEF Knows
  <2> QED BY <1>0, <2>1, <2>2, SettledStays
<1>13. CASE UNCHANGED clusterVars
       BY <1>1, <1>13 DEF clusterVars
<1> QED BY <1>2, <1>3, <1>5, <1>6, <1>7, <1>8, <1>9, <1>10, <1>11, <1>12, <1>13
        DEF Next, UpdateWorkerNodes

(* Once every pass under way knows a worker whose requests do not fail, no  *)
(* pass that begins later takes it off the list, whichever of the callers  *)
(* write the list in which order (UpdateWorkerNodes).                      *)
THEOREM NotUnlisted == Spec => StaysListed
<1>1. IInv /\ [Next]_clusterVars =>
        [\A w \in Worker \ Flaky : Settled(w) => Settled(w)']_clusterVars
      BY NextSettled
<1> QED BY Inductive, <1>1, PTL DEF Spec, StaysListed
=============================================================================
