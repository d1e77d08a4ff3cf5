-------------------------- MODULE MCManagerState ----------------------------
(* Bounds for checking ManagerState: the counts drift without limit, so a  *)
(* step may not take one outside of -MaxDrift .. MaxDrift.                 *)
EXTENDS ManagerState, TLC

CONSTANT MaxDrift

WithinDrift == \A w \in Worker : workerActiveTaskCountMap[w] \in -MaxDrift .. MaxDrift

MCSpec == Init /\ [][Next /\ WithinDrift']_stateVars

Symmetry == Permutations(Task) \cup Permutations(Worker)
=============================================================================
