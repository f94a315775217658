----------------------------- MODULE AgentJobs ------------------------------
(***************************************************************************)
(* Assistant jobs: agent/jobs.rs (the calls of the backend), agent/        *)
(* worker.rs (the detached process that runs the assistant) and agent/     *)
(* storage.rs.  A call holds the store's lock from its first read to its   *)
(* end, so a call is one step; a worker holds it for each of its sections, *)
(* and either process may stop between two files it writes.                *)
(***************************************************************************)
EXTENDS Integers, FiniteSets, FiniteSetsExt

CONSTANTS JobIds,      \* the random ids new_job can draw
          MaxActive,   \* 4 jobs queued or running
          MaxKept,     \* 32 directories
          Upgrades     \* the program file may be replaced under a running backend

ASSUME JobsAssumption == MaxActive \in Nat \ {0} /\ MaxKept \in Nat /\ MaxKept > MaxActive /\ IsFiniteSet(JobIds) /\ Upgrades \in BOOLEAN

Settled == {"done", "failed", "cancelled"}
\* "absent": no directory; "bare": a directory with no job.json.
JobStates == {"absent", "bare", "queued", "running"} \cup Settled

VARIABLES files,     \* id -> its directory: job.json's state, whether it is 30 s old, what display.json shows
          workers,   \* id -> the detached process
          replaced,  \* current_exe() no longer names the file the workers run
          doubted,   \* jobs whose worker ran when the file was replaced
          upgrades
jobVars == <<files, workers, replaced, doubted, upgrades>>

NoJob == [job |-> "absent", old |-> FALSE, display |-> "partial"]
NoWorker == [at |-> "none", term |-> FALSE, outcome |-> "none", display |-> "partial"]

JobsInit == /\ files = [j \in JobIds |-> NoJob] /\ workers = [j \in JobIds |-> NoWorker]
            /\ replaced = FALSE /\ doubted = {} /\ upgrades = 0

Directories(f) == {j \in JobIds : f[j].job # "absent"}
ActiveJobs(f) == {j \in JobIds : f[j].job \in {"queued", "running"}}
Claudes == {j \in JobIds : workers[j].at \in {"running", "ending"}}

\* process_handle: the pid of a running job names a process with this program's path and the job's id.
Seen(j) == j \in Claudes /\ ~replaced
LooksLate(j) == files[j].job = "queued" /\ files[j].old
\* refresh
LooksDead(j) == \/ files[j].job = "queued" /\ files[j].old
                \/ files[j].job = "running" /\ ~Seen(j)
AgentRefreshed(j) == IF LooksDead(j) THEN [files[j] EXCEPT !.job = "failed"] ELSE files[j]

------------------------------------
\* list refreshes every job, and gives up at one it cannot read.
Listable == \A j \in JobIds : files[j].job # "bare"
AllRefreshed == [j \in JobIds |-> IF files[j].job = "absent" THEN files[j] ELSE AgentRefreshed(j)]
JobsList == /\ Listable /\ files' = AllRefreshed
            /\ UNCHANGED <<workers, replaced, doubted, upgrades>>

\* agent.jobShow
JobShow(j) == /\ files[j].job \notin {"absent", "bare"}
              /\ files' = [files EXCEPT ![j] = AgentRefreshed(j)]
              /\ UNCHANGED <<workers, replaced, doubted, upgrades>>

RoomToStartOrEqual(f) == Cardinality(ActiveJobs(f)) <= MaxActive
RoomToStart(f) == Cardinality(ActiveJobs(f)) < MaxActive
\* The retention loop leaves MaxKept - 1 directories for the new one to join, active ones kept.
Excess(f) == Max({0, Cardinality(Directories(f)) - MaxKept + 1})
(* The oldest jobs that are not active go; ids say nothing of age, so any of them may be the oldest. *)
Retained(f) == LET idle == Directories(f) \ ActiveJobs(f)
                   gone == IF Cardinality(idle) < Excess(f) THEN {idle} ELSE kSubset(Excess(f), idle)
               IN {[k \in JobIds |-> IF k \in g THEN NoJob ELSE f[k]] : g \in gone}

(* new_job; a follow-up, which forks the session of a job that is ready, starts in the same way.  The backend can
   stop, or a write fail, after the directory is made and after job.json is written; a spawn that fails is recorded. *)
NewAgentJob(j) ==
  /\ files[j].job = "absent" /\ workers[j].at = "none"
  /\ Listable /\ RoomToStart(AllRefreshed)
  /\ \E kept \in Retained(AllRefreshed),
        end \in {"bare", "queued", "unspawned"} \cup (IF replaced THEN {} ELSE {"spawned"}) :
       /\ files' = [kept EXCEPT ![j] = [job |-> CASE end = "bare" -> "bare" [] end = "unspawned" -> "failed"
                                                  [] OTHER -> "queued",
                                        old |-> FALSE, display |-> "partial"]]
       /\ workers' = IF end = "spawned" THEN [workers EXCEPT ![j] = [NoWorker EXCEPT !.at = "starting"]] ELSE workers
  /\ doubted' = doubted \ {j}
  /\ UNCHANGED <<replaced, upgrades>>

(* agent.jobCancel: a worker that is seen is signalled, and answers for the job itself; a job without one is
   cancelled on the spot. *)
JobCancel(j) ==
  /\ files[j].job \in {"queued", "running"}
  /\ LET f == AgentRefreshed(j) IN
     IF f.job \notin {"queued", "running"} THEN files' = [files EXCEPT ![j] = f] /\ UNCHANGED workers
     ELSE IF f.job = "running" /\ Seen(j)
          THEN workers' = [workers EXCEPT ![j].term = TRUE] /\ files' = [files EXCEPT ![j] = f]
          ELSE files' = [files EXCEPT ![j].job = "cancelled"] /\ UNCHANGED workers
  /\ UNCHANGED <<replaced, doubted, upgrades>>

\* agent.jobForget.  remove deletes the files one by one, then the directory.
JobForget(j) ==
  /\ files[j].job \notin {"absent", "bare"} /\ AgentRefreshed(j).job \in Settled
  /\ \E left \in {"absent", "bare"} : files' = [files EXCEPT ![j] = [NoJob EXCEPT !.job = left]]
  /\ UNCHANGED <<workers, replaced, doubted, upgrades>>

GrowsOld(j) == /\ files[j].job = "queued" /\ ~files[j].old
               /\ files' = [files EXCEPT ![j].old = TRUE]
               /\ UNCHANGED <<workers, replaced, doubted, upgrades>>

------------------------------------
StillThere(j) == files[j].job \notin {"absent", "bare"}
StillQueued(j) == files[j].job = "queued"
\* run up to the section that records the process: a worker whose job is no longer queued leaves.
WorkerBegins(j) ==
  /\ workers[j].at = "starting"
  /\ IF StillQueued(j)
     THEN /\ files' = [files EXCEPT ![j].job = "running"]
          /\ workers' = [workers EXCEPT ![j].at = "running", ![j].display = "partial"]
     ELSE workers' = [workers EXCEPT ![j] = NoWorker] /\ UNCHANGED files
  /\ UNCHANGED <<replaced, doubted, upgrades>>

(* ClaudeStream: the answer is complete when the result event says success; the persist callback writes display
   and then job.json from the worker's own copy of the job. *)
Exists(j) == files[j].job # "absent"
WorkerSnapshot(j) ==
  /\ workers[j].at = "running" /\ Exists(j)
  /\ \E shown \in {"partial", "answer"} :
       /\ workers[j].display = "answer" => shown = "answer"
       /\ files' = [files EXCEPT ![j].job = "running", ![j].display = shown]
       /\ workers' = [workers EXCEPT ![j].display = shown]
  /\ UNCHANGED <<replaced, doubted, upgrades>>

(* execute ends: with a complete answer and exit code 0, by a signal, or with a failure (the one-hour limit, a
   limit of the stream, a snapshot that could not be written, an exit code).  The group is dead afterwards. *)
WorkerEnds(j) ==
  /\ workers[j].at = "running"
  /\ \E outcome \in {"done", "failed"} \cup (IF workers[j].term THEN {"cancelled"} ELSE {}) :
       workers' = [workers EXCEPT ![j].at = "ending", ![j].outcome = outcome,
                                  ![j].display = IF outcome = "done" THEN "answer" ELSE @]
  /\ UNCHANGED <<files, replaced, doubted, upgrades>>

\* The last writes of a worker, and how far it gets: the store may be busy for five seconds, or a write fail.
FinalWrites(j) == {{}, {"display"}, {"display", "job"}}
WorkerSaves(j) ==
  /\ workers[j].at = "ending"
  /\ \E written \in IF Exists(j) THEN FinalWrites(j) ELSE {{}} :
       files' = [files EXCEPT ![j].display = IF "display" \in written THEN workers[j].display ELSE @,
                              ![j].job = IF "job" \in written THEN workers[j].outcome ELSE @]
  /\ workers' = [workers EXCEPT ![j] = NoWorker]
  /\ UNCHANGED <<replaced, doubted, upgrades>>

\* The worker is killed, or could not take the lock to begin.
WorkerDies(j) == /\ workers[j].at # "none"
                 /\ workers' = [workers EXCEPT ![j] = NoWorker]
                 /\ UNCHANGED <<files, replaced, doubted, upgrades>>

(* An update replaces the program under a running backend, whose current_exe() then names a deleted file, until
   the backend starts anew. *)
ProgramReplaced == /\ Upgrades /\ ~replaced /\ upgrades < 1
                   /\ replaced' = TRUE /\ upgrades' = upgrades + 1
                   /\ doubted' = doubted \cup {j \in JobIds : workers[j].at # "none"}
                   /\ UNCHANGED <<files, workers>>
BackendRestarts == /\ replaced /\ replaced' = FALSE
                   /\ UNCHANGED <<files, workers, doubted, upgrades>>

JobsNext == \/ JobsList \/ ProgramReplaced \/ BackendRestarts
            \/ \E j \in JobIds : \/ JobShow(j) \/ NewAgentJob(j) \/ JobCancel(j) \/ JobForget(j) \/ GrowsOld(j)
                                 \/ WorkerBegins(j) \/ WorkerSnapshot(j) \/ WorkerEnds(j) \/ WorkerSaves(j)
                                 \/ WorkerDies(j)

(* The interface polls the list; time passes; a worker, while it lives, gets to its end within the hour. *)
JobsFairness == /\ WF_jobVars(JobsList)
                /\ \A j \in JobIds : /\ WF_jobVars(GrowsOld(j)) /\ WF_jobVars(WorkerBegins(j))
                                     /\ WF_jobVars(WorkerEnds(j)) /\ WF_jobVars(WorkerSaves(j))
JobsSafety == JobsInit /\ [][JobsNext]_jobVars
JobsSpec == JobsSafety /\ JobsFairness

------------------------------------
Displays == {"partial", "answer"}
JobsTypeOK ==
  /\ files \in [JobIds -> [job : JobStates, old : BOOLEAN, display : Displays]]
  /\ workers \in [JobIds -> [at : {"none", "starting", "running", "ending"}, term : BOOLEAN,
                             outcome : {"none"} \cup Settled, display : Displays]]
  /\ replaced \in BOOLEAN /\ doubted \subseteq JobIds /\ upgrades \in 0..1

(* AGENT.md:126, at most four requests run: also while workers start late, are cancelled or thought dead.  A job
   whose program was replaced under it is not counted: see the README. *)
AtMostActive == Cardinality(Claudes \ doubted) <= MaxActive

(* AGENT.md:126, 32 turns are retained: starting, crashing and forgetting never leave more directories. *)
KeptBound == Cardinality(Directories(files)) <= MaxKept

(* A job that was settled, by its worker, a cancellation or because it looked dead, stays so until it is forgotten:
   no worker comes back to run it. *)
SettledStays == [][\A j \in JobIds \ doubted : files[j].job \in Settled => files'[j].job \in {files[j].job, "absent", "bare"}]_jobVars

(* Wherever a worker stops, a job recorded as done shows its complete answer. *)
DoneIsAnswered == \A j \in JobIds : files[j].job = "done" => files[j].display = "answer"

(* Every request the interface shows as active settles, whoever dies, as long as the jobs can be listed. *)
AgentJobsSettle == \A j \in JobIds : (files[j].job \in {"queued", "running"}) ~> (files[j].job \notin {"queued", "running"} \/ ~Listable)
=============================================================================
