------------------------------ MODULE HermesInv ------------------------------
(***************************************************************************)
(* The inductive strengthening of the safety properties of HermesJobs.     *)
(* The idea: before a job has its worker nobody but its creator is on it,  *)
(* and while a job is being applied nobody but the process that applies it *)
(* can change its record, except that trimming may take it away.           *)
(***************************************************************************)
EXTENDS HermesJobs

Creating == {"admit", "write"}
Applying == {"base", "fetch", "pick", "record"}

\* One create at a time is past the admission lock, with an id nobody has.
CreateInv ==
  \A i \in Pids : proc[i].at \in Creating => admission = i /\ proc[i].job \notin used

UsedInv ==
  /\ Present \subseteq used
  /\ \A i \in Pids : Alive(i) /\ proc[i].at \notin Creating => proc[i].job \in used

\* Until the worker is started its creator is alone, so a list lets it be and
\* a failure to start it hurts nobody.
LaunchInv ==
  \A i \in Pids : proc[i].at = "spawn" =>
    LET r == jobs[proc[i].job] IN
    /\ r.status \in {"queued", "rejected", "absent"}
    /\ r.status = "queued" => r.pid = 0 /\ r.launcher = i
    /\ \A k \in Pids \ {i} : Alive(k) => proc[k].job # proc[i].job

\* An apply is alone on its job; the record is the one it read, or is gone.
ApplyInv ==
  \A i \in Pids : proc[i].at \in Applying =>
    LET j == proc[i].job  c == proc[i].copy IN
    /\ jobs[j].status \in {"reviewed", "absent"}
    /\ jobs[j].status = "reviewed" => lock[j] = i
    /\ \A k \in Pids \ {i} : proc[k].at \in Applying => proc[k].job # j
    /\ j \in approved
    /\ \A p \in Providers : c.reviews[p] # "none" => p # c.by
    /\ \A p \in Providers : c.reviews[p] = "approved" => j \in approved

\* Reviews are by others than the author, and an approval is in the history.
ReviewInv ==
  \A j \in Jobs, p \in Providers :
    /\ jobs[j].reviews[p] # "none" => p # jobs[j].by
    /\ jobs[j].reviews[p] = "approved" => j \in approved

CommitInv == fetched \cup Picked \subseteq approved

\* Jobs that have a worker, or are about to; reviews do not count.
Busy == {j \in Jobs : jobs[j].status \in {"queued", "preparing", "running"}}
Writers == {i \in Pids : proc[i].at = "write"}

\* Who is past the count has his place.
AdmissionInv ==
  /\ Writers = {} => Cardinality(Busy) <= MaxRunning
  /\ Writers # {} => Cardinality(Busy) < MaxRunning

\* The inductive invariant.
IInv ==
  /\ CreateInv
  /\ UsedInv
  /\ LaunchInv
  /\ ApplyInv
  /\ ReviewInv
  /\ CommitInv
  /\ WorkerOwnsJob
  /\ AdmissionInv
=============================================================================
