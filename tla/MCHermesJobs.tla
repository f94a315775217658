----------------------------- MODULE MCHermesJobs -----------------------------
(* Small instances of HermesJobs. *)
EXTENDS HermesInv, TLC

CONSTANTS j1, j2, j3, p1, p2

Renaming == Permutations(Jobs) \cup Permutations(Providers)

\* Search space of the race between two applies: every job does well, no more
\* than two processes exist at once.
Smooth ==
  /\ \A j \in Jobs :
       /\ jobs[j].status \notin {"failed", "rejected", "no_changes", "installed", "pushed"}
       /\ \A p \in Providers : jobs[j].reviews[p] \in {"none", "running", "approved"}
  /\ Cardinality({i \in Pids : Alive(i)}) <= 2
=============================================================================
