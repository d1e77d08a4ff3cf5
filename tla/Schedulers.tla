----------------------------- MODULE Schedulers -----------------------------
(***************************************************************************)
(* The two schedulers: which nodes may run a task (SelectCandidateNodes),  *)
(* what they score, and which one is picked.  A list of nodes is a         *)
(* sequence of workers; candidates are kept as positions in it, as both    *)
(* schedulers keep the order of the list.  Scores are natural numbers:     *)
(* only how they compare matters to Pick, and NaN, which E-PVM computes of *)
(* a node that reports no cores or no memory, is left out.                 *)
(***************************************************************************)
EXTENDS Integers, Sequences

(* E-PVM: the nodes in fits have disk enough for the task. *)
EpvmCandidates(nodes, fits) == {i \in DOMAIN nodes : nodes[i] \in fits}

(* Round robin takes them all. *)
RoundRobinCandidates(nodes) == DOMAIN nodes

(* Round robin before its first choice: -1. *)
Unset == 0 - 1

(* Its next index counts from 0, in a list that may have any other length  *)
(* than the one before.                                                    *)
NewWorkerIdx(last, nodes) == (last + 1) % Len(nodes)

(* 0.1 for the node that is next, 1.0 for all the others, in tenths. *)
RoundRobinScore(idx, nodes, workers) ==
  [w \in workers |-> IF w = nodes[idx + 1] THEN 1 ELSE 10]

(* Both take the first of the candidates with the lowest score. *)
Pick(scores, nodes, candidates) ==
  nodes[CHOOSE i \in candidates : \A j \in candidates :
          \/ scores[nodes[i]] < scores[nodes[j]]
          \/ scores[nodes[i]] = scores[nodes[j]] /\ i <= j]
=============================================================================
