----------------------------- MODULE MCManager ------------------------------
(* Checking Manager: as in MCManagerState, no step takes a count out of    *)
(* -MaxDrift .. MaxDrift.                                                  *)
EXTENDS Manager, TLC

CONSTANT MaxDrift

WithinDrift == \A w \in Worker : workerActiveTaskCountMap[w] \in -MaxDrift .. MaxDrift

MCSpec == Init /\ [][Next /\ WithinDrift']_managerVars

Symmetry == Permutations(Worker) \cup Permutations(Task)
=============================================================================
