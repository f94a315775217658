------------------------------ MODULE HermesJobs ------------------------------
(***************************************************************************)
(* Transaction jobs of the Hermes pilot (resources/hermes-jobs/manager.py).*)
(*                                                                         *)
(* Nothing runs permanently: every command, worker and reviewer is a       *)
(* process of its own, and they meet in job records under a lock per job.  *)
(* A section that holds the lock is one action, except apply, which holds  *)
(* it across several git commands on the user's repository.  Processes may *)
(* die between two actions; the list command notices and repairs.          *)
(***************************************************************************)
EXTENDS Naturals, Sequences, FiniteSets

CONSTANTS
  Jobs,        \* job ids; each is given to one job only
  Providers,   \* codex, claude, gemini
  MaxRunning,  \* MAX_CONCURRENT_JOBS
  MaxJobs,     \* MAX_JOBS: directories kept before finished jobs are trimmed
  MaxProcs,    \* bound: processes started
  MaxKills     \* bound: processes that die early

ASSUME HermesAssumption ==
  /\ IsFiniteSet(Jobs) /\ Jobs # {}
  /\ IsFiniteSet(Providers) /\ Providers # {}
  /\ MaxRunning \in Nat /\ MaxJobs \in Nat
  /\ MaxProcs \in Nat /\ MaxKills \in Nat

Active   == {"queued", "preparing", "running", "reviewing"}
Released == {"applied", "installed", "pushed"}
Final    == {"ready", "reviewed", "rejected", "failed", "no_changes"} \cup Released

Statuses == Active \cup Final \cup {"absent"}

Pids == 1..MaxProcs
Rows == {"none", "running", "approved", "revise", "failed"}

\* job.json.  `reviews` holds the latest row of each provider; pid 0 is nobody.
Record == [status: Statuses, by: Providers, base: Nat,
           pid: 0..MaxProcs, launcher: 0..MaxProcs, reviews: [Providers -> Rows]]

\* Where a process is; the name of its next step.
Places == {"unused", "dead",
           "admit", "write", "spawn", "register",       \* create
           "boot", "prepare", "agent",                  \* worker
           "spawnReview", "registerReview",             \* review
           "bootReview", "review",                      \* review-worker
           "base", "fetch", "pick", "record"}           \* apply

Process == [at: Places, job: Jobs, provider: Providers, child: 0..MaxProcs,
            copy: Record]

VARIABLES
  jobs,      \* the job records
  used,      \* ids given out
  litter,    \* directories without a record
  lock,      \* process that holds the lock file of a job across steps, or 0
  admission, \* process that holds the admission lock, or 0
  proc,      \* processes
  spawned,   \* how many were started
  head,      \* commits of jobs on the source branch, oldest first
  fetched,   \* jobs whose commit FETCH_HEAD names: none or one
  kills,
  approved   \* history: jobs that a provider other than their author approved

vars == <<jobs, used, litter, lock, admission, proc, spawned, head, fetched,
          kills, approved>>
repo == <<head, fetched>>

NoRecord == [status |-> "absent", by |-> CHOOSE p \in Providers : TRUE, base |-> 0,
             pid |-> 0, launcher |-> 0, reviews |-> [p \in Providers |-> "none"]]
NoProcess == [at |-> "unused", job |-> CHOOSE j \in Jobs : TRUE,
              provider |-> CHOOSE p \in Providers : TRUE, child |-> 0,
              copy |-> NoRecord]

Present == {j \in Jobs : jobs[j].status # "absent"}
Picked  == {head[n] : n \in 1..Len(head)}

------------------------------------
(* Processes *)

Alive(i) == i \in Pids /\ proc[i].at \notin {"unused", "dead"}

Next1 == spawned + 1

\* A new process; its pid is the next number.
Started(at, j, p, copy) ==
  [proc EXCEPT ![Next1] = [at |-> at, job |-> j, provider |-> p, child |-> 0,
                          copy |-> copy]]

Start(at, j, p) ==
  /\ spawned < MaxProcs
  /\ spawned' = Next1
  /\ proc' = Started(at, j, p, NoRecord)

Goes(i, at) == proc' = [proc EXCEPT ![i].at = at]
Ends(i)     == Goes(i, "dead")

\* Step of a process that needs its job's lock and finds a record there.
At(i, at) ==
  /\ proc[i].at = at
  /\ lock[proc[i].job] = 0
  /\ jobs[proc[i].job].status # "absent"

Update(j, r) == jobs' = [jobs EXCEPT ![j] = r]

------------------------------------
(* list_jobs: whatever belongs to a dead process is closed *)

Owner(r) == IF r.pid # 0 THEN r.pid ELSE r.launcher

Orphaned(r) == r.status \in Active /\ ~Alive(Owner(r))

Refreshed(r) ==
  IF ~Orphaned(r) THEN r
  ELSE [r EXCEPT !.pid = 0, !.launcher = 0,
          !.status  = IF @ = "reviewing" THEN "ready" ELSE "failed",
          !.reviews = [p \in Providers |->
                        IF @[p] = "running" THEN "failed" ELSE @[p]]]

\* One record of a list.
Refresh(j) ==
  /\ lock[j] = 0
  /\ Orphaned(jobs[j])
  /\ Update(j, Refreshed(jobs[j]))
  /\ UNCHANGED <<used, litter, lock, admission, proc, spawned, repo, kills, approved>>

\* A directory without a record ends a list where it stands: only when there is
\* none is every record reached.
ListReaches(j) == litter = {} /\ Refresh(j)

\* Any command on an id without a record, mistyped or trimmed: taking the lock
\* makes the directory, reading the record fails.
Look(j) ==
  /\ j \notin Present
  /\ \A i \in Pids : Alive(i) /\ proc[i].job = j => j \in used
  /\ litter' = litter \cup {j}
  /\ used' = used \cup {j}
  /\ UNCHANGED <<jobs, lock, admission, proc, spawned, repo, kills, approved>>

------------------------------------
(* create *)

\* The base revision was read before the wait for the admission lock.
CreateBegin(j, p) ==
  /\ j \notin used
  /\ admission = 0
  /\ spawned < MaxProcs
  /\ spawned' = Next1
  /\ \E base \in 0..Len(head) :
       proc' = Started("admit", j, p, [NoRecord EXCEPT !.base = base])
  /\ admission' = Next1
  /\ UNCHANGED <<jobs, used, litter, lock, repo, kills, approved>>

\* Mutant of Admit: the lock covers the count only.
CountUnderLock(i) ==
  LET now == [j \in Jobs |-> Refreshed(jobs[j])] IN
  /\ proc[i].at = "admit"
  /\ litter = {}
  /\ \A j \in Present : lock[j] = 0
  /\ jobs' = now
  /\ IF Cardinality({j \in Jobs : now[j].status \in Active}) < MaxRunning
       THEN Goes(i, "write")
       ELSE Ends(i)
  /\ admission' = 0
  /\ UNCHANGED <<used, litter, lock, spawned, repo, kills, approved>>

\* Every record is refreshed and what is active counted.
Admit(i) ==
  LET now == [j \in Jobs |-> Refreshed(jobs[j])] IN
  /\ proc[i].at = "admit"
  /\ litter = {}
  /\ \A j \in Present : lock[j] = 0
  /\ jobs' = now
  /\ IF Cardinality({j \in Jobs : now[j].status \in Active}) < MaxRunning
       THEN /\ Goes(i, "write")
            /\ UNCHANGED admission
       ELSE /\ Ends(i)
            /\ admission' = 0
  /\ UNCHANGED <<used, litter, lock, spawned, repo, kills, approved>>

\* The list ends at a directory without a record.
AdmitFails(i) ==
  /\ proc[i].at = "admit"
  /\ litter # {}
  /\ \E reached \in SUBSET Present :
       /\ \A j \in reached : lock[j] = 0
       /\ jobs' = [j \in Jobs |-> IF j \in reached THEN Refreshed(jobs[j])
                                                  ELSE jobs[j]]
  /\ Ends(i)
  /\ admission' = 0
  /\ UNCHANGED <<used, litter, lock, spawned, repo, kills, approved>>

NewJob(i) ==
  [NoRecord EXCEPT !.status = "queued", !.by = proc[i].provider,
                   !.base = proc[i].copy.base, !.launcher = i]

\* The record is written and the directories beyond the limit are looked at,
\* oldest first; those with a finished job go, locked or not.
CreateWrite(i) ==
  LET j     == proc[i].job
      dirs  == Present \cup litter
  IN
  /\ proc[i].at = "write"
  /\ used' = used \cup {j}
  /\ \E old \in SUBSET dirs :
       LET gone == {k \in old : jobs[k].status \in Final} IN
       /\ Cardinality(old) = IF Cardinality(dirs) < MaxJobs THEN 0
                             ELSE Cardinality(dirs) + 1 - MaxJobs
       /\ jobs' = [k \in Jobs |-> IF k = j THEN NewJob(i)
                                 ELSE IF k \in gone THEN NoRecord ELSE jobs[k]]
       /\ lock' = [k \in Jobs |-> IF k \in gone THEN 0 ELSE lock[k]]
  /\ admission' = 0
  /\ Goes(i, "spawn")
  /\ UNCHANGED <<litter, spawned, repo, kills, approved>>

Spawn(i) ==
  /\ proc[i].at = "spawn"
  /\ proc[i].job \in Present \cup litter
  /\ spawned < MaxProcs
  /\ spawned' = Next1
  /\ proc' = [Started("boot", proc[i].job, proc[i].provider, NoRecord)
               EXCEPT ![i].at = "register", ![i].child = Next1]
  /\ UNCHANGED <<jobs, used, litter, lock, admission, repo, kills, approved>>

\* The job was trimmed meanwhile: its log cannot be opened, or its lock makes a
\* directory without a record.
Lost(i) ==
  LET j == proc[i].job IN
  /\ j \notin Present
  /\ lock[j] = 0
  /\ \/ /\ proc[i].at \in {"spawn", "spawnReview"}
        /\ j \notin litter
        /\ UNCHANGED litter
     \/ /\ proc[i].at \in {"register", "boot", "prepare", "agent",
                          "registerReview", "bootReview", "review"}
        /\ litter' = litter \cup {j}
  /\ Ends(i)
  /\ UNCHANGED <<jobs, used, lock, admission, spawned, repo, kills, approved>>

\* The worker cannot be started: the job fails, whatever became of it.
SpawnFails(i) ==
  /\ At(i, "spawn")
  /\ Update(proc[i].job, [jobs[proc[i].job] EXCEPT !.status = "failed"])
  /\ Ends(i)
  /\ UNCHANGED <<used, litter, lock, admission, spawned, repo, kills, approved>>

Register(i) ==
  LET j == proc[i].job IN
  /\ At(i, "register")
  /\ IF jobs[j].status = "queued"
       THEN Update(j, [jobs[j] EXCEPT !.pid = proc[i].child, !.launcher = 0])
       ELSE UNCHANGED jobs
  /\ Ends(i)
  /\ UNCHANGED <<used, litter, lock, admission, spawned, repo, kills, approved>>

------------------------------------
(* worker *)

WorkerBoot(i) ==
  LET j == proc[i].job IN
  /\ At(i, "boot")
  /\ IF jobs[j].status = "queued"
       THEN /\ Update(j, [jobs[j] EXCEPT !.status = "preparing", !.pid = i,
                                         !.launcher = 0])
            /\ Goes(i, "prepare")
       ELSE Ends(i) /\ UNCHANGED jobs
  /\ UNCHANGED <<used, litter, lock, admission, spawned, repo, kills, approved>>

\* The clone is made.
WorkerRuns(i) ==
  LET j == proc[i].job IN
  /\ At(i, "prepare")
  /\ IF jobs[j].status = "preparing"
       THEN Update(j, [jobs[j] EXCEPT !.status = "running"]) /\ Goes(i, "agent")
       ELSE Ends(i) /\ UNCHANGED jobs
  /\ UNCHANGED <<used, litter, lock, admission, spawned, repo, kills, approved>>

\* The agent is done, with changes or without.
WorkerDone(i) ==
  LET j == proc[i].job IN
  /\ At(i, "agent")
  /\ IF jobs[j].status = "running"
       THEN \E result \in {"ready", "no_changes"} :
              Update(j, [jobs[j] EXCEPT !.status = result, !.pid = 0])
       ELSE UNCHANGED jobs
  /\ Ends(i)
  /\ UNCHANGED <<used, litter, lock, admission, spawned, repo, kills, approved>>

\* Cloning or the agent fails or takes too long.
WorkerFails(i) ==
  LET j == proc[i].job IN
  /\ At(i, "prepare") \/ At(i, "agent")
  /\ IF jobs[j].status \in {"queued", "preparing", "running"}
       THEN Update(j, [jobs[j] EXCEPT !.status = "failed", !.pid = 0])
       ELSE UNCHANGED jobs
  /\ Ends(i)
  /\ UNCHANGED <<used, litter, lock, admission, spawned, repo, kills, approved>>

------------------------------------
(* review *)

\* Mutant of ReviewBegin: an author may review.
ReviewByAnyone(j, p) ==
  /\ lock[j] = 0
  /\ jobs[j].status \in {"ready", "reviewed"}
  /\ jobs[j].reviews[p] \notin {"running", "approved"}
  /\ Start("spawnReview", j, p)
  /\ Update(j, [jobs[j] EXCEPT !.status = "reviewing", !.pid = 0,
                  !.launcher = Next1, !.reviews[p] = "running"])
  /\ UNCHANGED <<used, litter, lock, admission, repo, kills, approved>>

ReviewBegin(j, p) ==
  /\ lock[j] = 0
  /\ jobs[j].status \in {"ready", "reviewed"}
  /\ p # jobs[j].by
  /\ jobs[j].reviews[p] \notin {"running", "approved"}
  /\ Start("spawnReview", j, p)
  /\ Update(j, [jobs[j] EXCEPT !.status = "reviewing", !.pid = 0,
                  !.launcher = Next1, !.reviews[p] = "running"])
  /\ UNCHANGED <<used, litter, lock, admission, repo, kills, approved>>

SpawnReview(i) ==
  /\ proc[i].at = "spawnReview"
  /\ proc[i].job \in Present \cup litter
  /\ spawned < MaxProcs
  /\ spawned' = Next1
  /\ proc' = [Started("bootReview", proc[i].job, proc[i].provider, NoRecord)
               EXCEPT ![i].at = "registerReview", ![i].child = Next1]
  /\ UNCHANGED <<jobs, used, litter, lock, admission, repo, kills, approved>>

SpawnReviewFails(i) ==
  LET j == proc[i].job  p == proc[i].provider IN
  /\ At(i, "spawnReview")
  /\ IF jobs[j].status = "reviewing"
       THEN Update(j, [jobs[j] EXCEPT !.status = "ready",
                         !.reviews[p] = IF @ = "running" THEN "failed" ELSE @])
       ELSE UNCHANGED jobs
  /\ Ends(i)
  /\ UNCHANGED <<used, litter, lock, admission, spawned, repo, kills, approved>>

Reviewing(j, p) == jobs[j].status = "reviewing" /\ jobs[j].reviews[p] = "running"

RegisterReview(i) ==
  LET j == proc[i].job IN
  /\ At(i, "registerReview")
  /\ IF Reviewing(j, proc[i].provider)
       THEN Update(j, [jobs[j] EXCEPT !.pid = proc[i].child, !.launcher = 0])
       ELSE UNCHANGED jobs
  /\ Ends(i)
  /\ UNCHANGED <<used, litter, lock, admission, spawned, repo, kills, approved>>

ReviewerBoot(i) ==
  LET j == proc[i].job IN
  /\ At(i, "bootReview")
  /\ IF Reviewing(j, proc[i].provider)
       THEN /\ Update(j, [jobs[j] EXCEPT !.pid = i, !.launcher = 0])
            /\ Goes(i, "review")
       ELSE Ends(i) /\ UNCHANGED jobs
  /\ UNCHANGED <<used, litter, lock, admission, spawned, repo, kills, approved>>

\* The reviewer answers, or fails: an answer counts while its row is open.
Verdict(i, verdict) ==
  LET j == proc[i].job  p == proc[i].provider IN
  /\ At(i, "review")
  /\ IF Reviewing(j, p)
       THEN /\ Update(j, [jobs[j] EXCEPT !.reviews[p] = verdict, !.pid = 0,
                            !.status = IF verdict = "approved" THEN "reviewed"
                                                               ELSE "ready"])
            /\ approved' = IF verdict = "approved" /\ p # jobs[j].by
                             THEN approved \cup {j} ELSE approved
       ELSE UNCHANGED <<jobs, approved>>
  /\ Ends(i)
  /\ UNCHANGED <<used, litter, lock, admission, spawned, repo, kills>>

------------------------------------
(* apply, install, push, reject *)

ApplyBegin(j) ==
  /\ lock[j] = 0
  /\ jobs[j].status = "reviewed"
  /\ \E p \in Providers : jobs[j].reviews[p] = "approved"
  /\ spawned < MaxProcs
  /\ spawned' = Next1
  /\ proc' = Started("base", j, jobs[j].by, jobs[j])
  /\ lock' = [lock EXCEPT ![j] = Next1]
  /\ UNCHANGED <<jobs, used, litter, admission, repo, kills, approved>>

\* The lock file may have been trimmed away under its holder.
Unlock(i) == lock' = [j \in Jobs |-> IF lock[j] = i THEN 0 ELSE lock[j]]

\* A check or a git command fails; a failed cherry-pick is aborted.
ApplyFails(i) ==
  /\ proc[i].at \in {"base", "fetch", "pick"}
  /\ Ends(i)
  /\ Unlock(i)
  /\ UNCHANGED <<jobs, used, litter, admission, spawned, repo, kills, approved>>

CheckBase(i) ==
  /\ proc[i].at = "base"
  /\ Len(head) = proc[i].copy.base
  /\ Goes(i, "fetch")
  /\ UNCHANGED <<jobs, used, litter, lock, admission, spawned, repo, kills, approved>>

\* The commit is imported from the job's clone; FETCH_HEAD belongs to the
\* repository.
Fetch(i) ==
  /\ proc[i].at = "fetch"
  /\ proc[i].job \in Present
  /\ fetched' = {proc[i].job}
  /\ Goes(i, "pick")
  /\ UNCHANGED <<jobs, used, litter, lock, admission, spawned, head, kills, approved>>

\* A commit that is there already changes nothing, which cherry-pick refuses.
Pick(i) ==
  /\ proc[i].at = "pick"
  /\ \E j \in fetched \ Picked : head' = Append(head, j)
  /\ Goes(i, "record")
  /\ UNCHANGED <<jobs, used, litter, lock, admission, spawned, fetched, kills, approved>>

ApplyRecord(i) ==
  LET j == proc[i].job IN
  /\ proc[i].at = "record"
  /\ Update(j, [proc[i].copy EXCEPT !.status = "applied"])
  /\ litter' = litter \ {j}
  /\ Ends(i)
  /\ Unlock(i)
  /\ UNCHANGED <<used, admission, spawned, repo, kills, approved>>

\* install.sh, or git push, and the record of it.
Release(j, status) ==
  /\ lock[j] = 0
  /\ jobs[j].status \in {"applied", "installed"}
  /\ Update(j, [jobs[j] EXCEPT !.status = status])
  /\ UNCHANGED <<used, litter, lock, admission, proc, spawned, repo, kills, approved>>

\* Mutant of Reject: applied jobs can be rejected.
RejectAnything(j) ==
  /\ lock[j] = 0
  /\ j \in Present
  /\ Update(j, [jobs[j] EXCEPT !.status = "rejected", !.pid = 0])
  /\ proc' = [i \in Pids |-> IF i = jobs[j].pid /\ Alive(i)
                               THEN [proc[i] EXCEPT !.at = "dead"] ELSE proc[i]]
  /\ UNCHANGED <<used, litter, lock, admission, spawned, repo, kills, approved>>

\* Mutant of Reject: the process goes on.
RejectRecordOnly(j) ==
  /\ lock[j] = 0
  /\ j \in Present
  /\ jobs[j].status \notin Released
  /\ Update(j, [jobs[j] EXCEPT !.status = "rejected", !.pid = 0])
  /\ UNCHANGED <<used, litter, lock, admission, proc, spawned, repo, kills, approved>>

\* The registered process is terminated with its group.
Reject(j) ==
  /\ lock[j] = 0
  /\ j \in Present
  /\ jobs[j].status \notin Released
  /\ Update(j, [jobs[j] EXCEPT !.status = "rejected", !.pid = 0])
  /\ proc' = [i \in Pids |-> IF i = jobs[j].pid /\ Alive(i)
                               THEN [proc[i] EXCEPT !.at = "dead"] ELSE proc[i]]
  /\ UNCHANGED <<used, litter, lock, admission, spawned, repo, kills, approved>>

\* A process dies; its locks go with it.  A record that was being made for the
\* first time may leave its directory behind.
Kill(i) ==
  /\ Alive(i)
  /\ kills < MaxKills
  /\ kills' = kills + 1
  /\ Ends(i)
  /\ Unlock(i)
  /\ admission' = IF admission = i THEN 0 ELSE admission
  /\ \/ UNCHANGED <<used, litter>>
     \/ /\ proc[i].at = "write"
        /\ used' = used \cup {proc[i].job}
        /\ litter' = litter \cup {proc[i].job}
  /\ UNCHANGED <<jobs, spawned, repo, approved>>

------------------------------------
(* Specification *)

Init ==
  /\ jobs = [j \in Jobs |-> NoRecord]
  /\ used = {}
  /\ litter = {}
  /\ lock = [j \in Jobs |-> 0]
  /\ admission = 0
  /\ proc = [i \in Pids |-> NoProcess]
  /\ spawned = 0
  /\ head = <<>>
  /\ fetched = {}
  /\ kills = 0
  /\ approved = {}

User ==
  \/ \E j \in Jobs, p \in Providers : CreateBegin(j, p) \/ ReviewBegin(j, p)
  \/ \E j \in Jobs :
       \/ Look(j) \/ ApplyBegin(j) \/ Reject(j)
       \/ \E status \in {"installed", "pushed"} : Release(j, status)

Step(i) ==
  \/ Admit(i) \/ AdmitFails(i) \/ CreateWrite(i)
  \/ Spawn(i) \/ SpawnFails(i) \/ Register(i) \/ Lost(i)
  \/ WorkerBoot(i) \/ WorkerRuns(i) \/ WorkerDone(i) \/ WorkerFails(i)
  \/ SpawnReview(i) \/ SpawnReviewFails(i) \/ RegisterReview(i) \/ ReviewerBoot(i)
  \/ \E verdict \in {"approved", "revise", "failed"} : Verdict(i, verdict)
  \/ ApplyFails(i) \/ CheckBase(i) \/ Fetch(i) \/ Pick(i) \/ ApplyRecord(i)

Next ==
  \/ User
  \/ \E j \in Jobs : Refresh(j)
  \/ \E i \in Pids : Step(i) \/ Kill(i)

Spec == Init /\ [][Next]_vars

\* Every command, agent and git call has a time limit, and the Agent Center
\* lists the jobs again and again.
Fairness ==
  /\ \A i \in Pids : WF_vars(Step(i))
  /\ \A j \in Jobs : WF_vars(ListReaches(j))

FairSpec == Spec /\ Fairness

------------------------------------
(* Properties *)

TypeOK ==
  /\ jobs \in [Jobs -> Record]
  /\ used \subseteq Jobs
  /\ litter \subseteq Jobs
  /\ lock \in [Jobs -> 0..MaxProcs]
  /\ admission \in 0..MaxProcs
  /\ proc \in [Pids -> Process]
  /\ spawned \in 0..MaxProcs
  /\ head \in Seq(Jobs)
  /\ fetched \subseteq Jobs
  /\ kills \in 0..MaxKills
  /\ approved \subseteq Jobs

Working == {i \in Pids : proc[i].at \in {"prepare", "agent"}}

\* A worker that is at work is the registered process of its job, and the
\* record says so, whoever died, listed or rejected in between.
WorkerOwnsJob ==
  \A i \in Working :
    /\ jobs[proc[i].job].pid = i
    /\ jobs[proc[i].job].status =
         IF proc[i].at = "prepare" THEN "preparing" ELSE "running"

\* At most MAX_CONCURRENT_JOBS workers are at work, whatever died in between.
WorkersBounded == Cardinality(Working) <= MaxRunning

\* A commit reaches the source branch only after a provider that did not write
\* it has approved it; two applies at once do not change that.
OnlyApproved == Picked \subseteq approved

\* What was applied stays applied until the record is trimmed: no late worker,
\* reviewer, list or reject takes it back.
AppliedStays ==
  [][\A j \in Jobs : jobs[j].status \in Released
       => jobs'[j].status \in Released \cup {"absent"}]_vars

\* A commit is picked onto the very revision its job started from.
FailsClosed ==
  \A n \in 1..Len(head) :
    head[n] \in Present => jobs[head[n]].base = n - 1

\* A job that is active comes to a result, or is found to have lost its process.
JobsSettle ==
  \A j \in Jobs : jobs[j].status \in Active ~> jobs[j].status \notin Active
=============================================================================
