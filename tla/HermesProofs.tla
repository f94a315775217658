----------------------------- MODULE HermesProofs -----------------------------
(***************************************************************************)
(* Proofs about transaction jobs, for any jobs, providers and bounds.      *)
(***************************************************************************)
EXTENDS HermesInv, FiniteSetTheorems, TLAPS

------------------------------------
(* Types *)

LEMMA Constants ==
  /\ MaxProcs \in Nat
  /\ 0 \in 0..MaxProcs
  /\ (CHOOSE p \in Providers : TRUE) \in Providers
  /\ (CHOOSE j \in Jobs : TRUE) \in Jobs
<1>1. MaxProcs \in Nat /\ Jobs # {} /\ Providers # {}  BY HermesAssumption
<1>2. \E p \in Providers : TRUE  BY <1>1
<1>3. \E j \in Jobs : TRUE  BY <1>1
<1>4. (CHOOSE p \in Providers : TRUE) \in Providers  BY <1>2, Zenon
<1>5. (CHOOSE j \in Jobs : TRUE) \in Jobs  BY <1>3, Zenon
<1>. QED  BY <1>1, <1>4, <1>5

LEMMA NoRecordType == NoRecord \in Record /\ NoProcess \in Process
<1>1. NoRecord \in Record  BY Constants DEF NoRecord, Record, Statuses, Rows
<1>. QED  BY <1>1, Constants DEF NoProcess, Process, Places

LEMMA StatusType ==
  ASSUME NEW r \in Record, NEW s \in Statuses, NEW pid \in 0..MaxProcs,
         NEW launcher \in 0..MaxProcs
  PROVE  /\ [r EXCEPT !.status = s] \in Record
         /\ [r EXCEPT !.status = s, !.pid = pid] \in Record
         /\ [r EXCEPT !.pid = pid, !.launcher = launcher] \in Record
         /\ [r EXCEPT !.status = s, !.pid = pid, !.launcher = launcher] \in Record
BY DEF Record

LEMMA RefreshedType ==
  ASSUME NEW r \in Record
  PROVE  Refreshed(r) \in Record
<1>. DEFINE s == IF r.status = "reviewing" THEN "ready" ELSE "failed"
            rows == [p \in Providers |->
                      IF r.reviews[p] = "running" THEN "failed" ELSE r.reviews[p]]
<1>1. s \in Statuses  BY DEF Statuses, Final
<1>2. rows \in [Providers -> Rows]  BY DEF Record, Rows
<1>3. [r EXCEPT !.pid = 0, !.launcher = 0, !.status = s, !.reviews = rows] \in Record  BY <1>1, <1>2, Constants DEF Record
<1>. QED  BY <1>3 DEF Refreshed

LEMMA StartedType ==
  ASSUME TypeOK, spawned < MaxProcs, NEW at \in Places, NEW j \in Jobs,
         NEW p \in Providers, NEW c \in Record
  PROVE  /\ Started(at, j, p, c) \in [Pids -> Process]
         /\ Next1 \in Pids
         /\ Next1 \in 0..MaxProcs
BY HermesAssumption DEF TypeOK, Started, Next1, Pids, Process

LEMMA GoesType ==
  ASSUME TypeOK, NEW i \in Pids, NEW at \in Places, Goes(i, at)
  PROVE  proc' \in [Pids -> Process]
BY DEF TypeOK, Goes, Process

LEMMA UpdateType ==
  ASSUME TypeOK, NEW j \in Jobs, NEW r \in Record, Update(j, r)
  PROVE  jobs' \in [Jobs -> Record]
BY DEF TypeOK, Update

LEMMA UserType ==
  ASSUME TypeOK, User
  PROVE  TypeOK'
<1>. USE HermesAssumption
<1>1. ASSUME NEW j \in Jobs, NEW p \in Providers, CreateBegin(j, p) PROVE TypeOK'
  <2>1. PICK base \in 0..Len(head) :
          proc' = Started("admit", j, p, [NoRecord EXCEPT !.base = base])
    BY <1>1 DEF CreateBegin
  <2>2. [NoRecord EXCEPT !.base = base] \in Record
    <3>1. base \in Nat  BY DEF TypeOK
    <3>. QED  BY <3>1, NoRecordType DEF Record
  <2>3. proc' \in [Pids -> Process] /\ Next1 \in Pids /\ Next1 \in 0..MaxProcs
    BY <1>1, <2>1, <2>2, StartedType DEF Places, CreateBegin
  <2>. QED  BY <1>1, <2>3 DEF CreateBegin, TypeOK, repo
<1>2. ASSUME NEW j \in Jobs, NEW p \in Providers, ReviewBegin(j, p) PROVE TypeOK'
  <2>1. proc' \in [Pids -> Process] /\ Next1 \in Pids /\ Next1 \in 0..MaxProcs
    BY <1>2, NoRecordType, StartedType DEF Places, ReviewBegin, Start
  <2>2. [jobs[j] EXCEPT !.status = "reviewing", !.pid = 0,
                  !.launcher = Next1, !.reviews[p] = "running"] \in Record
    BY <2>1, Constants DEF TypeOK, Record, Statuses, Active, Rows
  <2>3. jobs' \in [Jobs -> Record]  BY <2>2, <1>2, UpdateType DEF ReviewBegin
  <2>. QED  BY <1>2, <2>1, <2>3 DEF ReviewBegin, Start, TypeOK, repo
<1>3. ASSUME NEW j \in Jobs, Look(j) PROVE TypeOK'  BY <1>3 DEF Look, TypeOK, repo
<1>4. ASSUME NEW j \in Jobs, ApplyBegin(j) PROVE TypeOK'
  <2>1. jobs[j] \in Record /\ jobs[j].by \in Providers  BY DEF TypeOK, Record
  <2>2. proc' \in [Pids -> Process] /\ Next1 \in Pids /\ Next1 \in 0..MaxProcs  BY <1>4, <2>1, StartedType DEF Places, ApplyBegin
  <2>. QED  BY <1>4, <2>2 DEF ApplyBegin, TypeOK, repo
<1>5. ASSUME NEW j \in Jobs, Reject(j) PROVE TypeOK'
  <2>1. [jobs[j] EXCEPT !.status = "rejected", !.pid = 0] \in Record  BY StatusType, Constants DEF TypeOK, Statuses, Final
  <2>2. jobs' \in [Jobs -> Record]  BY <2>1, <1>5, UpdateType DEF Reject
  <2>3. proc' \in [Pids -> Process]
    <3>1. ASSUME NEW i \in Pids PROVE [proc[i] EXCEPT !.at = "dead"] \in Process  BY DEF TypeOK, Process, Places
    <3>. QED  BY <3>1, <1>5 DEF Reject, TypeOK
  <2>. QED  BY <1>5, <2>2, <2>3 DEF Reject, TypeOK, repo
<1>6. ASSUME NEW j \in Jobs, NEW s \in {"installed", "pushed"}, Release(j, s) PROVE TypeOK'
  <2>1. [jobs[j] EXCEPT !.status = s] \in Record  BY StatusType, Constants DEF TypeOK, Statuses, Final, Released
  <2>2. jobs' \in [Jobs -> Record]  BY <2>1, <1>6, UpdateType DEF Release
  <2>. QED  BY <1>6, <2>2 DEF Release, TypeOK, repo
<1>. QED  BY <1>1, <1>2, <1>3, <1>4, <1>5, <1>6 DEF User

LEMMA ProcessType ==
  ASSUME TypeOK, NEW i \in Pids
  PROVE  /\ proc[i].job \in Jobs
         /\ proc[i].provider \in Providers
         /\ proc[i].child \in 0..MaxProcs
         /\ proc[i].copy \in Record
         /\ jobs[proc[i].job] \in Record
         /\ i \in 0..MaxProcs
BY Constants DEF TypeOK, Process, Pids

LEMMA EndsType ==
  ASSUME TypeOK, NEW i \in Pids, Ends(i)
  PROVE  proc' \in [Pids -> Process]
BY GoesType DEF Ends, Places

LEMMA UnlockType ==
  ASSUME TypeOK, NEW i \in Pids, Unlock(i)
  PROVE  lock' \in [Jobs -> 0..MaxProcs]
BY Constants DEF TypeOK, Unlock

\* A started child is a process, and its parent goes on.
LEMMA ChildType ==
  ASSUME TypeOK, spawned < MaxProcs, NEW i \in Pids, NEW at \in Places, NEW to \in Places,
         proc' = [Started(at, proc[i].job, proc[i].provider, NoRecord)
                    EXCEPT ![i].at = to, ![i].child = Next1]
  PROVE  proc' \in [Pids -> Process] /\ Next1 \in 0..MaxProcs
<1>1. /\ Started(at, proc[i].job, proc[i].provider, NoRecord) \in [Pids -> Process]
      /\ Next1 \in 0..MaxProcs
  BY ProcessType, NoRecordType, StartedType
<1>. QED  BY <1>1 DEF Process

LEMMA CreateType ==
  ASSUME TypeOK, NEW i \in Pids,
         \/ Admit(i) \/ AdmitFails(i) \/ CreateWrite(i) \/ Spawn(i)
         \/ SpawnFails(i) \/ Register(i) \/ Lost(i)
  PROVE  TypeOK'
<1>. USE Constants
<1>1. CASE Admit(i)
  <2>1. jobs' \in [Jobs -> Record]  BY <1>1, RefreshedType DEF Admit, TypeOK
  <2>2. proc' \in [Pids -> Process] /\ admission' \in 0..MaxProcs  BY <1>1, GoesType, EndsType DEF Admit, Places, TypeOK
  <2>. QED  BY <1>1, <2>1, <2>2 DEF Admit, TypeOK, repo
<1>2. CASE AdmitFails(i)
  <2>1. jobs' \in [Jobs -> Record]  BY <1>2, RefreshedType DEF AdmitFails, TypeOK
  <2>. QED  BY <1>2, <2>1, EndsType DEF AdmitFails, TypeOK, repo
<1>3. CASE CreateWrite(i)
  <2>1. NewJob(i) \in Record
    <3>1. proc[i].provider \in Providers /\ proc[i].copy.base \in Nat /\ i \in 0..MaxProcs  BY ProcessType DEF Record
    <3>2. "queued" \in Statuses  BY DEF Statuses, Active
    <3>. QED  BY <3>1, <3>2, NoRecordType DEF NewJob, Record
  <2>2. jobs' \in [Jobs -> Record] /\ lock' \in [Jobs -> 0..MaxProcs]  BY <1>3, <2>1, NoRecordType DEF CreateWrite, TypeOK
  <2>3. proc' \in [Pids -> Process]  BY <1>3, GoesType DEF CreateWrite, Places
  <2>4. used' \subseteq Jobs  BY <1>3, ProcessType DEF CreateWrite, TypeOK
  <2>. QED  BY <1>3, <2>2, <2>3, <2>4 DEF CreateWrite, TypeOK, repo
<1>4. CASE Spawn(i)
  <2>1. proc' \in [Pids -> Process] /\ Next1 \in 0..MaxProcs  BY <1>4, ChildType DEF Spawn, Places
  <2>. QED  BY <1>4, <2>1 DEF Spawn, TypeOK, repo
<1>5. CASE SpawnFails(i)
  <2>1. jobs' \in [Jobs -> Record]  BY <1>5, ProcessType, StatusType, UpdateType DEF SpawnFails, Statuses, Final
  <2>. QED  BY <1>5, <2>1, EndsType DEF SpawnFails, TypeOK, repo
<1>6. CASE Register(i)
  <2>1. jobs' \in [Jobs -> Record]  BY <1>6, ProcessType, StatusType, UpdateType DEF Register, TypeOK, Statuses, Active
  <2>. QED  BY <1>6, <2>1, EndsType DEF Register, TypeOK, repo
<1>7. CASE Lost(i)
  <2>1. proc' \in [Pids -> Process] /\ litter' \subseteq Jobs  BY <1>7, EndsType, ProcessType DEF Lost, TypeOK
  <2>. QED  BY <1>7, <2>1 DEF Lost, TypeOK, repo
<1>. QED  BY <1>1, <1>2, <1>3, <1>4, <1>5, <1>6, <1>7

LEMMA WorkerType ==
  ASSUME TypeOK, NEW i \in Pids,
         WorkerBoot(i) \/ WorkerRuns(i) \/ WorkerDone(i) \/ WorkerFails(i)
  PROVE  TypeOK'
<1>. USE Constants
<1>1. CASE WorkerBoot(i)
  <2>1. jobs' \in [Jobs -> Record] /\ proc' \in [Pids -> Process]
    BY <1>1, ProcessType, StatusType, UpdateType, GoesType, EndsType
    DEF WorkerBoot, TypeOK, Statuses, Active, Places
  <2>. QED  BY <1>1, <2>1 DEF WorkerBoot, TypeOK, repo
<1>2. CASE WorkerRuns(i)
  <2>1. jobs' \in [Jobs -> Record] /\ proc' \in [Pids -> Process]
    BY <1>2, ProcessType, StatusType, UpdateType, GoesType, EndsType
    DEF WorkerRuns, TypeOK, Statuses, Active, Places
  <2>. QED  BY <1>2, <2>1 DEF WorkerRuns, TypeOK, repo
<1>3. CASE WorkerDone(i)
  <2>1. jobs' \in [Jobs -> Record] /\ proc' \in [Pids -> Process]
    BY <1>3, ProcessType, StatusType, UpdateType, EndsType
    DEF WorkerDone, TypeOK, Statuses, Final
  <2>. QED  BY <1>3, <2>1 DEF WorkerDone, TypeOK, repo
<1>4. CASE WorkerFails(i)
  <2>1. jobs' \in [Jobs -> Record] /\ proc' \in [Pids -> Process]
    BY <1>4, ProcessType, StatusType, UpdateType, EndsType
    DEF WorkerFails, TypeOK, Statuses, Final
  <2>. QED  BY <1>4, <2>1 DEF WorkerFails, TypeOK, repo
<1>. QED  BY <1>1, <1>2, <1>3, <1>4

LEMMA ReviewerType ==
  ASSUME TypeOK, NEW i \in Pids,
         \/ SpawnReview(i) \/ SpawnReviewFails(i) \/ RegisterReview(i) \/ ReviewerBoot(i)
         \/ \E verdict \in {"approved", "revise", "failed"} : Verdict(i, verdict)
  PROVE  TypeOK'
<1>. USE Constants
<1>1. CASE SpawnReview(i)
  <2>1. proc' \in [Pids -> Process] /\ Next1 \in 0..MaxProcs  BY <1>1, ChildType DEF SpawnReview, Places
  <2>. QED  BY <1>1, <2>1 DEF SpawnReview, TypeOK, repo
<1>2. CASE SpawnReviewFails(i)
  <2>. DEFINE j == proc[i].job
              p == proc[i].provider
              row == IF jobs[j].reviews[p] = "running" THEN "failed" ELSE jobs[j].reviews[p]
  <2>1. row \in Rows  BY ProcessType DEF Record, Rows
  <2>2. [jobs[j] EXCEPT !.status = "ready", !.reviews[p] = row] \in Record  BY <2>1, ProcessType DEF Record, Statuses, Final
  <2>3. jobs' \in [Jobs -> Record]  BY <1>2, <2>2, ProcessType, UpdateType DEF SpawnReviewFails, TypeOK
  <2>. QED  BY <1>2, <2>3, EndsType DEF SpawnReviewFails, TypeOK, repo
<1>3. CASE RegisterReview(i)
  <2>1. jobs' \in [Jobs -> Record]  BY <1>3, ProcessType, StatusType, UpdateType DEF RegisterReview, TypeOK, Statuses, Active
  <2>. QED  BY <1>3, <2>1, EndsType DEF RegisterReview, TypeOK, repo
<1>4. CASE ReviewerBoot(i)
  <2>1. jobs' \in [Jobs -> Record] /\ proc' \in [Pids -> Process]
    BY <1>4, ProcessType, StatusType, UpdateType, GoesType, EndsType
    DEF ReviewerBoot, TypeOK, Statuses, Active, Places
  <2>. QED  BY <1>4, <2>1 DEF ReviewerBoot, TypeOK, repo
<1>5. ASSUME NEW verdict \in {"approved", "revise", "failed"}, Verdict(i, verdict)
      PROVE  TypeOK'
  <2>. DEFINE j == proc[i].job
              p == proc[i].provider
  <2>1. [jobs[j] EXCEPT !.reviews[p] = verdict, !.pid = 0,
                 !.status = IF verdict = "approved" THEN "reviewed" ELSE "ready"] \in Record
    BY ProcessType DEF Record, Statuses, Final, Rows
  <2>2. jobs' \in [Jobs -> Record] /\ approved' \subseteq Jobs  BY <1>5, <2>1, ProcessType, UpdateType DEF Verdict, TypeOK
  <2>. QED  BY <1>5, <2>2, EndsType DEF Verdict, TypeOK, repo
<1>. QED  BY <1>1, <1>2, <1>3, <1>4, <1>5

LEMMA ApplierType ==
  ASSUME TypeOK, NEW i \in Pids,
         ApplyFails(i) \/ CheckBase(i) \/ Fetch(i) \/ Pick(i) \/ ApplyRecord(i)
  PROVE  TypeOK'
<1>. USE Constants
<1>1. CASE ApplyFails(i)  BY <1>1, EndsType, UnlockType DEF ApplyFails, TypeOK, repo
<1>2. CASE CheckBase(i)  BY <1>2, GoesType DEF CheckBase, TypeOK, repo, Places
<1>3. CASE Fetch(i)  BY <1>3, GoesType, ProcessType DEF Fetch, TypeOK, Places
<1>4. CASE Pick(i)
  <2>1. PICK j \in fetched : head' = Append(head, j)  BY <1>4 DEF Pick
  <2>2. head' \in Seq(Jobs)  BY <2>1 DEF TypeOK
  <2>. QED  BY <1>4, <2>2, GoesType DEF Pick, TypeOK, Places
<1>5. CASE ApplyRecord(i)
  <2>1. jobs' \in [Jobs -> Record]  BY <1>5, ProcessType, StatusType, UpdateType DEF ApplyRecord, Statuses, Final, Released
  <2>. QED  BY <1>5, <2>1, EndsType, UnlockType DEF ApplyRecord, TypeOK, repo
<1>. QED  BY <1>1, <1>2, <1>3, <1>4, <1>5

LEMMA KillType ==
  ASSUME TypeOK, NEW i \in Pids, Kill(i)
  PROVE  TypeOK'
<1>1. kills' \in 0..MaxKills  BY HermesAssumption DEF Kill, TypeOK
<1>2. used' \subseteq Jobs /\ litter' \subseteq Jobs  BY ProcessType DEF Kill, TypeOK
<1>3. admission' \in 0..MaxProcs  BY Constants DEF Kill, TypeOK
<1>. QED  BY <1>1, <1>2, <1>3, EndsType, UnlockType DEF Kill, TypeOK, repo

LEMMA RefreshType ==
  ASSUME TypeOK, NEW j \in Jobs, Refresh(j)
  PROVE  TypeOK'
<1>1. jobs' \in [Jobs -> Record]  BY RefreshedType, UpdateType DEF Refresh, TypeOK
<1>. QED  BY <1>1 DEF Refresh, TypeOK, repo

LEMMA InitType == Init => TypeOK
<1>1. <<>> \in Seq(Jobs)  OBVIOUS
<1>2. 0 \in 0..MaxKills  BY HermesAssumption
<1>. QED  BY <1>1, <1>2, NoRecordType, Constants DEF Init, TypeOK

\* Every variable keeps its type.
THEOREM TypeCorrect == Spec => []TypeOK
<1>1. TypeOK /\ [Next]_vars => TypeOK'
  <2>. SUFFICES ASSUME TypeOK, [Next]_vars PROVE TypeOK'  OBVIOUS
  <2>1. CASE User  BY <2>1, UserType
  <2>2. ASSUME NEW j \in Jobs, Refresh(j) PROVE TypeOK'  BY <2>2, RefreshType
  <2>3. ASSUME NEW i \in Pids, Step(i) PROVE TypeOK'  BY <2>3, CreateType, WorkerType, ReviewerType, ApplierType DEF Step
  <2>4. ASSUME NEW i \in Pids, Kill(i) PROVE TypeOK'  BY <2>4, KillType
  <2>5. CASE UNCHANGED vars  BY <2>5 DEF vars, TypeOK
  <2>. QED  BY <2>1, <2>2, <2>3, <2>4, <2>5 DEF Next
<1>. QED  BY <1>1, InitType, PTL DEF Spec
------------------------------------
(* Steps on one job *)

LEMMA Moved ==
  ASSUME TypeOK, NEW i \in Pids, NEW at, Goes(i, at), NEW k \in Pids
  PROVE  /\ proc'[k].at = IF k = i THEN at ELSE proc[k].at
         /\ proc'[k].job = proc[k].job
         /\ proc'[k].copy = proc[k].copy
BY DEF TypeOK, Goes, Process

LEMMA Updated ==
  ASSUME TypeOK, NEW j \in Jobs, NEW r, Update(j, r)
  PROVE  /\ jobs'[j] = r
         /\ \A k \in Jobs \ {j} : jobs'[k] = jobs[k]
BY DEF TypeOK, Update

LEMMA StartedAt ==
  ASSUME TypeOK, spawned < MaxProcs, NEW at, NEW j, NEW p, NEW c,
         proc' = Started(at, j, p, c)
  PROVE  /\ Next1 \in Pids
         /\ proc'[Next1].at = at /\ proc'[Next1].job = j /\ proc'[Next1].copy = c
         /\ \A k \in Pids \ {Next1} : proc'[k] = proc[k]
BY Constants DEF TypeOK, Started, Next1, Pids

\* The places that LaunchInv, ApplyInv and CreateInv speak of.
Special == Creating \cup Applying \cup {"spawn"}

\* Processes of job j move, or start, at other places.
Movers(j) ==
  \A k \in Pids :
    \/ /\ proc'[k].at = proc[k].at
       /\ proc'[k].job = proc[k].job
       /\ proc'[k].copy = proc[k].copy
    \/ /\ proc'[k].at \notin Special
       /\ proc'[k].at \notin {"unused", "dead"} => proc'[k].job = j

\* Of the rest only the record of j changes.
Frame(j) ==
  /\ UNCHANGED <<used, lock, admission, head, fetched>>
  /\ approved \subseteq approved'
  /\ \A k \in Jobs \ {j} : jobs'[k] = jobs[k]

BusyStatus == {"queued", "preparing", "running"}

\* The new record of j counts no more than the old, and its reviews are right.
Sane(j) ==
  /\ jobs'[j].status = "absent" <=> jobs[j].status = "absent"
  /\ jobs'[j].status \in BusyStatus => jobs[j].status \in BusyStatus
  /\ \A p \in Providers :
       /\ jobs'[j].reviews[p] # "none" => p # jobs'[j].by
       /\ jobs'[j].reviews[p] = "approved" => j \in approved'

\* A worker on job j is the one its record names.
Owned(j) ==
  \A k \in Pids : proc'[k].at \in {"prepare", "agent"} /\ proc'[k].job = j =>
    /\ jobs'[j].pid = k
    /\ jobs'[j].status = IF proc'[k].at = "prepare" THEN "preparing" ELSE "running"

LEMMA Fewer ==
  ASSUME IInv, Busy' \subseteq Busy, Writers' \subseteq Writers
  PROVE  AdmissionInv'
<1>1. IsFiniteSet(Busy)  BY HermesAssumption, FS_Subset DEF Busy
<1>2. /\ Cardinality(Busy) \in Nat /\ Cardinality(Busy') \in Nat
      /\ Cardinality(Busy') <= Cardinality(Busy)
  BY <1>1, FS_Subset, FS_CardinalityType
<1>3. MaxRunning \in Nat  BY HermesAssumption
<1>. QED  BY <1>2, <1>3 DEF IInv, AdmissionInv

LEMMA LocalInv ==
  ASSUME TypeOK, IInv, NEW j \in used, j \in Jobs,
         Movers(j), Frame(j), Sane(j), Owned(j),
         \A k \in Pids : proc'[k].at = "spawn" => proc[k].job # j,
         \/ jobs'[j] = jobs[j]
         \/ \A k \in Pids : proc'[k].at \in Applying => proc[k].job # j
  PROVE  IInv'
<1>. USE ProcessType
<1>1. CreateInv'  BY DEF IInv, CreateInv, Movers, Frame, Special
<1>2. UsedInv'
  <2>1. Present' = Present  BY DEF Present, Frame, Sane
  <2>. QED  BY <2>1 DEF IInv, UsedInv, Movers, Frame, Special, Alive
<1>3. LaunchInv'
  <2>. SUFFICES ASSUME NEW i \in Pids, proc'[i].at = "spawn"
       PROVE  /\ jobs'[proc'[i].job].status \in {"queued", "rejected", "absent"}
              /\ jobs'[proc'[i].job].status = "queued" =>
                   jobs'[proc'[i].job].pid = 0 /\ jobs'[proc'[i].job].launcher = i
              /\ \A k \in Pids \ {i} : Alive(k)' => proc'[k].job # proc'[i].job
    BY DEF LaunchInv
  <2>1. proc[i].at = "spawn" /\ proc'[i].job = proc[i].job /\ proc[i].job # j  BY DEF Movers, Special
  <2>2. jobs'[proc[i].job] = jobs[proc[i].job]  BY <2>1 DEF Frame
  <2>3. ASSUME NEW k \in Pids \ {i}, Alive(k)' PROVE proc'[k].job # proc[i].job  BY <2>1, <2>3 DEF IInv, LaunchInv, Movers, Alive
  <2>. QED  BY <2>1, <2>2, <2>3 DEF IInv, LaunchInv
<1>4. ApplyInv'
  <2>. SUFFICES ASSUME NEW i \in Pids, proc'[i].at \in Applying
       PROVE  /\ jobs'[proc'[i].job].status \in {"reviewed", "absent"}
              /\ jobs'[proc'[i].job].status = "reviewed" => lock'[proc'[i].job] = i
              /\ \A k \in Pids \ {i} : proc'[k].at \in Applying => proc'[k].job # proc'[i].job
              /\ proc'[i].job \in approved'
              /\ \A p \in Providers :
                   proc'[i].copy.reviews[p] # "none" => p # proc'[i].copy.by
              /\ \A p \in Providers :
                   proc'[i].copy.reviews[p] = "approved" => proc'[i].job \in approved'
    BY DEF ApplyInv
  <2>1. /\ proc[i].at \in Applying /\ proc'[i].job = proc[i].job
        /\ proc'[i].copy = proc[i].copy
    BY DEF Movers, Special
  <2>2. jobs'[proc[i].job] = jobs[proc[i].job]  BY <2>1 DEF Frame
  <2>3. \A k \in Pids \ {i} : proc'[k].at \in Applying => proc'[k].job # proc[i].job  BY <2>1 DEF IInv, ApplyInv, Movers, Special
  <2>. QED  BY <2>1, <2>2, <2>3 DEF IInv, ApplyInv, Frame
<1>5. ReviewInv'  BY DEF IInv, ReviewInv, Frame, Sane
<1>6. CommitInv'  BY DEF IInv, CommitInv, Frame, Picked
<1>7. WorkerOwnsJob'  BY DEF IInv, WorkerOwnsJob, Working, Movers, Frame, Owned
<1>8. AdmissionInv'
  <2>1. Busy' \subseteq Busy  BY DEF Busy, Frame, Sane, BusyStatus
  <2>2. Writers' \subseteq Writers  BY DEF Writers, Movers, Special, Creating
  <2>. QED  BY <2>1, <2>2, Fewer
<1>. QED  BY <1>1, <1>2, <1>3, <1>4, <1>5, <1>6, <1>7, <1>8 DEF IInv

\* Nobody is about to start a job that has a process already.
LEMMA Alone ==
  ASSUME TypeOK, IInv, NEW i \in Pids, Alive(i), proc[i].at \notin Creating
  PROVE  /\ proc[i].job \in used
         /\ \A k \in Pids \ {i} : proc[k].at = "spawn" => proc[k].job # proc[i].job
BY DEF IInv, UsedInv, LaunchInv

\* A record that a section under the lock may change is not being applied.
LEMMA NotApplied ==
  ASSUME TypeOK, IInv, NEW j \in Jobs, jobs[j].status # "absent",
         jobs[j].status # "reviewed" \/ lock[j] = 0
  PROVE  \A k \in Pids : proc[k].at \in Applying => proc[k].job # j
BY DEF IInv, ApplyInv, Pids

\* What a section of process i, which goes to `at`, may make of record r.
Allowed(i, at, r, s) ==
  /\ s.status # "absent"
  /\ s.status \in BusyStatus => r.status \in BusyStatus
  /\ s.by = r.by
  /\ \A p \in Providers :
       /\ s.reviews[p] # "none" => r.reviews[p] # "none"
       /\ s.reviews[p] = "approved" =>
            r.reviews[p] = "approved" \/ proc[i].job \in approved'
  /\ at \in {"prepare", "agent"} =>
       s.pid = i /\ s.status = IF at = "prepare" THEN "preparing" ELSE "running"
  /\ \/ r.status \notin {"preparing", "running"}
     \/ r.pid = i

\* A section under the lock of a job, by a process of the job.
LEMMA SectionInv ==
  ASSUME TypeOK, IInv, NEW i \in Pids, Alive(i),
         proc[i].at \notin Creating \cup Applying, NEW at, at \notin Special, Goes(i, at),
         Frame(proc[i].job),
         \/ jobs'[proc[i].job] = jobs[proc[i].job] /\ at \notin {"prepare", "agent"}
         \/ /\ lock[proc[i].job] = 0
            /\ jobs[proc[i].job].status # "absent"
            /\ Allowed(i, at, jobs[proc[i].job], jobs'[proc[i].job])
  PROVE  IInv'
<1>. DEFINE j == proc[i].job
<1>1. j \in Jobs /\ j \in used  BY ProcessType, Alone
<1>2. Movers(j)  BY Moved DEF Movers
<1>3. \A k \in Pids : proc'[k].at = "spawn" => proc[k].job # j  BY Moved, Alone DEF Special
<1>4. \/ jobs'[j] = jobs[j]
      \/ \A k \in Pids : proc'[k].at \in Applying => proc[k].job # j
  BY <1>1, Moved, NotApplied DEF Special
<1>5. Sane(j)  BY <1>1 DEF Sane, Allowed, IInv, ReviewInv, Frame
<1>6. Owned(j)
  <2>. SUFFICES ASSUME NEW k \in Pids, proc'[k].at \in {"prepare", "agent"},
                       proc'[k].job = j
       PROVE  /\ jobs'[j].pid = k
              /\ jobs'[j].status = IF proc'[k].at = "prepare" THEN "preparing" ELSE "running"
    BY DEF Owned
  <2>1. CASE k = i  BY <2>1, Moved DEF Allowed
  <2>2. CASE k # i
    <3>1. proc'[k].at = proc[k].at /\ proc[k].job = j  BY <2>2, Moved
    <3>2. /\ jobs[j].pid = k
          /\ jobs[j].status = IF proc[k].at = "prepare" THEN "preparing" ELSE "running"
      BY <3>1 DEF IInv, WorkerOwnsJob, Working
    <3>3. jobs'[j] = jobs[j]  BY <2>2, <3>2 DEF Allowed
    <3>. QED  BY <3>1, <3>2, <3>3
  <2>. QED  BY <2>1, <2>2
<1>. QED  BY <1>1, <1>2, <1>3, <1>4, <1>5, <1>6, LocalInv

\* Records are records: what an update leaves alone.
LEMMA Fields ==
  ASSUME NEW r \in Record, NEW s, NEW x, NEW y, NEW p \in Providers, NEW row
  PROVE  /\ LET n == [r EXCEPT !.status = s] IN
              n.status = s /\ n.by = r.by /\ n.reviews = r.reviews /\ n.pid = r.pid
         /\ LET n == [r EXCEPT !.status = s, !.pid = x] IN
              n.status = s /\ n.by = r.by /\ n.reviews = r.reviews /\ n.pid = x
         /\ LET n == [r EXCEPT !.pid = x, !.launcher = y] IN
              n.status = r.status /\ n.by = r.by /\ n.reviews = r.reviews /\ n.pid = x
         /\ LET n == [r EXCEPT !.status = s, !.pid = x, !.launcher = y] IN
              n.status = s /\ n.by = r.by /\ n.reviews = r.reviews /\ n.pid = x
BY DEF Record

LEMMA RegisterInv ==
  ASSUME TypeOK, IInv, NEW i \in Pids, Register(i)
  PROVE  IInv'
<1>. DEFINE j == proc[i].job
<1>1. Frame(j) /\ Goes(i, "dead") /\ Alive(i) /\ proc[i].at \notin Creating \cup Applying
  BY ProcessType, Updated DEF Register, Frame, repo, Ends, At, Alive, Creating, Applying
<1>2. CASE jobs'[j] = jobs[j]  BY <1>1, <1>2, SectionInv DEF Special, Creating, Applying
<1>3. CASE jobs'[j] # jobs[j]
  <2>1. /\ jobs[j].status = "queued" /\ lock[j] = 0
        /\ jobs'[j] = [jobs[j] EXCEPT !.pid = proc[i].child, !.launcher = 0]
    BY <1>3, ProcessType, Updated DEF Register, At
  <2>2. Allowed(i, "dead", jobs[j], jobs'[j])  BY <2>1, ProcessType, Fields DEF Allowed
  <2>. QED  BY <1>1, <2>1, <2>2, SectionInv DEF Special, Creating, Applying
<1>. QED  BY <1>2, <1>3

LEMMA BootInv ==
  ASSUME TypeOK, IInv, NEW i \in Pids, WorkerBoot(i)
  PROVE  IInv'
<1>. DEFINE j == proc[i].job
<1>1. Frame(j) /\ Alive(i) /\ proc[i].at \notin Creating \cup Applying
  BY ProcessType, Updated DEF WorkerBoot, Frame, repo, At, Alive, Creating, Applying
<1>2. CASE jobs[j].status # "queued"  BY <1>1, <1>2, SectionInv DEF WorkerBoot, Ends, Special, Creating, Applying
<1>3. CASE jobs[j].status = "queued"
  <2>1. /\ lock[j] = 0 /\ Goes(i, "prepare")
        /\ jobs'[j] = [jobs[j] EXCEPT !.status = "preparing", !.pid = i, !.launcher = 0]
    BY <1>3, ProcessType, Updated DEF WorkerBoot, At
  <2>2. Allowed(i, "prepare", jobs[j], jobs'[j])  BY <1>3, <2>1, ProcessType, Fields DEF Allowed, BusyStatus
  <2>. QED  BY <1>1, <1>3, <2>1, <2>2, SectionInv DEF Special, Creating, Applying
<1>. QED  BY <1>2, <1>3

LEMMA RunsInv ==
  ASSUME TypeOK, IInv, NEW i \in Pids, WorkerRuns(i)
  PROVE  IInv'
<1>. DEFINE j == proc[i].job
<1>1. Frame(j) /\ Alive(i) /\ proc[i].at \notin Creating \cup Applying
  BY ProcessType, Updated DEF WorkerRuns, Frame, repo, At, Alive, Creating, Applying
<1>2. jobs[j].status = "preparing" /\ jobs[j].pid = i  BY DEF WorkerRuns, At, IInv, WorkerOwnsJob, Working
<1>3. /\ lock[j] = 0 /\ Goes(i, "agent")
      /\ jobs'[j] = [jobs[j] EXCEPT !.status = "running"]
  BY <1>2, ProcessType, Updated DEF WorkerRuns, At
<1>4. Allowed(i, "agent", jobs[j], jobs'[j])  BY <1>2, <1>3, ProcessType, Fields DEF Allowed, BusyStatus
<1>. QED  BY <1>1, <1>2, <1>3, <1>4, SectionInv DEF Special, Creating, Applying

LEMMA WorkerEndInv ==
  ASSUME TypeOK, IInv, NEW i \in Pids, WorkerDone(i) \/ WorkerFails(i)
  PROVE  IInv'
<1>. DEFINE j == proc[i].job
<1>1. /\ Frame(j) /\ Alive(i) /\ proc[i].at \notin Creating \cup Applying
      /\ Goes(i, "dead")
  BY ProcessType, Updated
  DEF WorkerDone, WorkerFails, Ends, Frame, repo, At, Alive, Creating, Applying
<1>2. jobs[j].status \in {"preparing", "running"} /\ jobs[j].pid = i /\ lock[j] = 0
  BY DEF WorkerDone, WorkerFails, At, IInv, WorkerOwnsJob, Working
<1>3. PICK s \in {"ready", "no_changes", "failed"} :
        jobs'[j] = [jobs[j] EXCEPT !.status = s, !.pid = 0]
  <2>1. CASE WorkerDone(i)
    <3>1. jobs[j].status = "running"  BY <2>1 DEF WorkerDone, At, IInv, WorkerOwnsJob, Working
    <3>2. PICK s \in {"ready", "no_changes"} :
            Update(j, [jobs[j] EXCEPT !.status = s, !.pid = 0])
      BY <2>1, <3>1 DEF WorkerDone
    <3>. QED  BY <3>2, ProcessType, Updated
  <2>2. CASE WorkerFails(i)  BY <1>2, <2>2, ProcessType, Updated DEF WorkerFails
  <2>. QED  BY <2>1, <2>2
<1>4. Allowed(i, "dead", jobs[j], jobs'[j])  BY <1>2, <1>3, ProcessType, Fields DEF Allowed, BusyStatus
<1>. QED  BY <1>1, <1>2, <1>4, SectionInv DEF Special, Creating, Applying

LEMMA SpawnFailsInv ==
  ASSUME TypeOK, IInv, NEW i \in Pids, SpawnFails(i)
  PROVE  IInv'
<1>. DEFINE j == proc[i].job
<1>1. /\ Frame(j) /\ Alive(i) /\ proc[i].at \notin Creating \cup Applying
      /\ Goes(i, "dead")
  BY ProcessType, Updated DEF SpawnFails, Ends, Frame, repo, At, Alive, Creating, Applying
<1>2. jobs[j].status \in {"queued", "rejected"} /\ lock[j] = 0  BY DEF SpawnFails, At, IInv, LaunchInv
<1>3. jobs'[j] = [jobs[j] EXCEPT !.status = "failed"]  BY ProcessType, Updated DEF SpawnFails
<1>4. Allowed(i, "dead", jobs[j], jobs'[j])  BY <1>2, <1>3, ProcessType, Fields DEF Allowed, BusyStatus
<1>. QED  BY <1>1, <1>2, <1>4, SectionInv DEF Special, Creating, Applying

LEMMA LostInv ==
  ASSUME TypeOK, IInv, NEW i \in Pids, Lost(i)
  PROVE  IInv'
<1>1. /\ Frame(proc[i].job) /\ Alive(i) /\ proc[i].at \notin Creating \cup Applying
      /\ Goes(i, "dead")
      /\ jobs'[proc[i].job] = jobs[proc[i].job]
  BY DEF Lost, Ends, Frame, repo, Alive, Creating, Applying
<1>. QED  BY <1>1, SectionInv DEF Special, Creating, Applying

LEMMA ReviewerInv ==
  ASSUME TypeOK, IInv, NEW i \in Pids,
         SpawnReviewFails(i) \/ RegisterReview(i) \/ ReviewerBoot(i)
  PROVE  IInv'
<1>. DEFINE j == proc[i].job
            p == proc[i].provider
<1>1. /\ Frame(j) /\ Alive(i) /\ proc[i].at \notin Creating \cup Applying /\ lock[j] = 0
      /\ \E at \in {"dead", "review"} : Goes(i, at)
  BY ProcessType, Updated DEF SpawnReviewFails, RegisterReview, ReviewerBoot, Ends, Frame,
     repo, At, Alive, Creating, Applying
<1>2. CASE jobs'[j] = jobs[j]  BY <1>1, <1>2, SectionInv DEF Special, Creating, Applying
<1>3. CASE jobs'[j] # jobs[j]
  <2>1. jobs[j].status = "reviewing"  BY <1>3 DEF SpawnReviewFails, RegisterReview, ReviewerBoot, Reviewing
  <2>2. /\ jobs'[j].status \in {"reviewing", "ready"}
        /\ jobs'[j].by = jobs[j].by
        /\ \A q \in Providers :
             \/ jobs'[j].reviews[q] = jobs[j].reviews[q]
             \/ jobs[j].reviews[q] = "running" /\ jobs'[j].reviews[q] = "failed"
    <3>1. CASE SpawnReviewFails(i)
      <4>. DEFINE row == IF jobs[j].reviews[p] = "running" THEN "failed"
                                                           ELSE jobs[j].reviews[p]
      <4>1. jobs'[j] = [jobs[j] EXCEPT !.status = "ready", !.reviews[p] = row]
        BY <2>1, <3>1, ProcessType, Updated DEF SpawnReviewFails
      <4>2. /\ jobs'[j].status = "ready" /\ jobs'[j].by = jobs[j].by
            /\ jobs'[j].reviews = [jobs[j].reviews EXCEPT ![p] = row]
        BY <4>1, ProcessType DEF Record
      <4>3. jobs[j].reviews \in [Providers -> Rows]  BY ProcessType DEF Record
      <4>. QED  BY <4>2, <4>3
    <3>2. CASE RegisterReview(i)
      <4>1. jobs'[j] = [jobs[j] EXCEPT !.pid = proc[i].child, !.launcher = 0]
        BY <1>3, <3>2, ProcessType, Updated DEF RegisterReview
      <4>. QED  BY <2>1, <4>1, ProcessType, Fields
    <3>3. CASE ReviewerBoot(i)
      <4>1. jobs'[j] = [jobs[j] EXCEPT !.pid = i, !.launcher = 0]  BY <1>3, <3>3, ProcessType, Updated DEF ReviewerBoot
      <4>. QED  BY <2>1, <4>1, ProcessType, Fields
    <3>. QED  BY <3>1, <3>2, <3>3
  <2>3. \A at \in {"dead", "review"} : Allowed(i, at, jobs[j], jobs'[j])  BY <2>1, <2>2 DEF Allowed, BusyStatus
  <2>. QED  BY <1>1, <2>1, <2>3, SectionInv DEF Special, Creating, Applying
<1>. QED  BY <1>2, <1>3

LEMMA VerdictInv ==
  ASSUME TypeOK, IInv, NEW i \in Pids, NEW verdict \in {"approved", "revise", "failed"},
         Verdict(i, verdict)
  PROVE  IInv'
<1>. DEFINE j == proc[i].job
            p == proc[i].provider
<1>1. /\ Frame(j) /\ Alive(i) /\ proc[i].at \notin Creating \cup Applying /\ lock[j] = 0
      /\ Goes(i, "dead")
  BY ProcessType, Updated DEF Verdict, Ends, Frame, repo, At, Alive, Creating, Applying
<1>2. CASE ~Reviewing(j, p)  BY <1>1, <1>2, SectionInv DEF Verdict, Special, Creating, Applying
<1>3. CASE Reviewing(j, p)
  <2>1. jobs[j].status = "reviewing" /\ p # jobs[j].by /\ p \in Providers  BY <1>3, ProcessType DEF Reviewing, IInv, ReviewInv
  <2>2. /\ jobs'[j].status \in {"reviewed", "ready"}
        /\ jobs'[j].by = jobs[j].by
        /\ \A q \in Providers \ {p} : jobs'[j].reviews[q] = jobs[j].reviews[q]
        /\ jobs'[j].reviews[p] = verdict
    <3>1. jobs'[j] = [jobs[j] EXCEPT !.reviews[p] = verdict, !.pid = 0,
                        !.status = IF verdict = "approved" THEN "reviewed" ELSE "ready"]
      BY <1>3, ProcessType, Updated DEF Verdict
    <3>. QED  BY <3>1, ProcessType DEF Record
  <2>3. verdict = "approved" => j \in approved'  BY <1>3, <2>1 DEF Verdict
  <2>4. Allowed(i, "dead", jobs[j], jobs'[j])  BY <1>3, <2>1, <2>2, <2>3 DEF Allowed, BusyStatus, Reviewing
  <2>. QED  BY <1>1, <2>1, <2>4, SectionInv DEF Special, Creating, Applying
<1>. QED  BY <1>2, <1>3

LEMMA SpawnInv ==
  ASSUME TypeOK, IInv, NEW i \in Pids, Spawn(i) \/ SpawnReview(i)
  PROVE  IInv'
<1>. DEFINE j == proc[i].job
<1>1. Alive(i) /\ proc[i].at \notin Creating \cup Applying  BY DEF Spawn, SpawnReview, Alive, Creating, Applying
<1>2. j \in Jobs /\ j \in used  BY <1>1, ProcessType, Alone
<1>3. /\ proc'[i].at # "spawn"
      /\ \A k \in Pids :
           \/ proc'[k] = proc[k]
           \/ /\ proc'[k].at \in {"register", "registerReview", "boot", "bootReview"}
              /\ proc'[k].job = j
  <2>1. Next1 \in Pids  BY Constants DEF Spawn, SpawnReview, TypeOK, Next1, Pids
  <2>2. PICK to \in {"register", "registerReview"}, at \in {"boot", "bootReview"} :
          proc' = [Started(at, j, proc[i].provider, NoRecord)
                    EXCEPT ![i].at = to, ![i].child = Next1]
    BY DEF Spawn, SpawnReview
  <2>3. ASSUME NEW k \in Pids, k # i, k # Next1 PROVE proc'[k] = proc[k]  BY <2>1, <2>2, <2>3 DEF Started, TypeOK
  <2>4. proc'[i].at = to /\ proc'[i].job = j  BY <2>1, <2>2 DEF Started, TypeOK, Process
  <2>5. CASE Next1 # i
    <3>1. proc'[Next1].at = at /\ proc'[Next1].job = j  BY <2>1, <2>2, <2>5 DEF Started, TypeOK
    <3>. QED  BY <2>3, <2>4, <3>1
  <2>6. CASE Next1 = i  BY <2>3, <2>4, <2>6
  <2>. QED  BY <2>5, <2>6
<1>4. Movers(j)  BY <1>3 DEF Movers, Special, Creating, Applying
<1>5. Frame(j) /\ jobs'[j] = jobs[j]  BY DEF Spawn, SpawnReview, Frame, repo
<1>6. \A k \in Pids : proc'[k].at = "spawn" => proc[k].job # j  BY <1>1, <1>3, Alone
<1>7. Sane(j)  BY <1>2, <1>5 DEF Sane, Frame, IInv, ReviewInv
<1>8. Owned(j)  BY <1>3, <1>5 DEF Owned, IInv, WorkerOwnsJob, Working
<1>. QED  BY <1>2, <1>4, <1>5, <1>6, <1>7, <1>8, LocalInv

LEMMA ReviewBeginInv ==
  ASSUME TypeOK, IInv, NEW j \in Jobs, NEW p \in Providers, ReviewBegin(j, p)
  PROVE  IInv'
<1>1. /\ jobs[j].status \in {"ready", "reviewed"} /\ lock[j] = 0 /\ p # jobs[j].by
      /\ j \in used
  BY DEF ReviewBegin, IInv, UsedInv, Present
<1>2. /\ Next1 \in Pids
      /\ proc'[Next1].at = "spawnReview" /\ proc'[Next1].job = j
      /\ \A k \in Pids \ {Next1} : proc'[k] = proc[k]
  BY StartedAt DEF ReviewBegin, Start
<1>3. Movers(j)  BY <1>2 DEF Movers, Special, Creating, Applying
<1>4. Frame(j)  BY Updated DEF ReviewBegin, Frame, repo
<1>5. /\ jobs'[j].status = "reviewing" /\ jobs'[j].by = jobs[j].by
      /\ \A q \in Providers \ {p} : jobs'[j].reviews[q] = jobs[j].reviews[q]
      /\ jobs'[j].reviews[p] = "running"
  <2>1. jobs'[j] = [jobs[j] EXCEPT !.status = "reviewing", !.pid = 0,
                      !.launcher = Next1, !.reviews[p] = "running"]
    BY Updated DEF ReviewBegin
  <2>2. jobs[j] \in Record  BY DEF TypeOK
  <2>. QED  BY <2>1, <2>2 DEF Record
<1>6. \A k \in Pids : proc'[k].at = "spawn" => proc[k].job # j  BY <1>1, <1>2 DEF IInv, LaunchInv
<1>7. \A k \in Pids : proc'[k].at \in Applying => proc[k].job # j  BY <1>1, <1>2, NotApplied DEF Applying
<1>8. Sane(j)  BY <1>1, <1>4, <1>5 DEF Sane, Frame, IInv, ReviewInv, BusyStatus
<1>9. Owned(j)  BY <1>1, <1>2 DEF Owned, IInv, WorkerOwnsJob, Working
<1>. QED  BY <1>1, <1>3, <1>4, <1>6, <1>7, <1>8, <1>9, LocalInv

LEMMA ReleaseInv ==
  ASSUME TypeOK, IInv, NEW j \in Jobs, NEW s \in {"installed", "pushed"}, Release(j, s)
  PROVE  IInv'
<1>1. /\ jobs[j].status \in {"applied", "installed"} /\ lock[j] = 0 /\ j \in used
      /\ jobs[j] \in Record
  BY DEF Release, IInv, UsedInv, Present, TypeOK
<1>2. Frame(j) /\ jobs'[j] = [jobs[j] EXCEPT !.status = s] /\ proc' = proc  BY Updated DEF Release, Frame, repo
<1>3. jobs'[j].status = s /\ jobs'[j].by = jobs[j].by /\ jobs'[j].reviews = jobs[j].reviews  BY <1>1, <1>2, Fields
<1>4. Movers(j)  BY <1>2 DEF Movers
<1>5. \A k \in Pids : proc'[k].at = "spawn" => proc[k].job # j  BY <1>1, <1>2 DEF IInv, LaunchInv
<1>6. \A k \in Pids : proc'[k].at \in Applying => proc[k].job # j  BY <1>1, <1>2, NotApplied
<1>7. Sane(j)  BY <1>1, <1>2, <1>3 DEF Sane, Frame, IInv, ReviewInv, BusyStatus
<1>8. Owned(j)  BY <1>1, <1>2 DEF Owned, IInv, WorkerOwnsJob, Working
<1>. QED  BY <1>1, <1>2, <1>4, <1>5, <1>6, <1>7, <1>8, LocalInv

LEMMA RejectInv ==
  ASSUME TypeOK, IInv, NEW j \in Jobs, Reject(j)
  PROVE  IInv'
<1>1. /\ jobs[j].status \notin {"absent"} /\ lock[j] = 0 /\ j \in used
      /\ jobs[j] \in Record
  BY DEF Reject, IInv, UsedInv, Present, TypeOK
<1>2. /\ UNCHANGED <<used, lock, admission, head, fetched, approved>>
      /\ jobs'[j] = [jobs[j] EXCEPT !.status = "rejected", !.pid = 0]
      /\ \A k \in Jobs \ {j} : jobs'[k] = jobs[k]
  BY Updated DEF Reject, repo
<1>3. /\ jobs'[j].status = "rejected" /\ jobs'[j].by = jobs[j].by
      /\ jobs'[j].reviews = jobs[j].reviews
  BY <1>1, <1>2, Fields
<1>4. \A k \in Pids : /\ proc'[k].job = proc[k].job /\ proc'[k].copy = proc[k].copy
                      /\ proc'[k].at = proc[k].at \/ proc'[k].at = "dead"
                      /\ k = jobs[j].pid /\ Alive(k) => proc'[k].at = "dead"
  BY DEF Reject, TypeOK, Process
<1>. USE ProcessType
<1>5. CreateInv'  BY <1>2, <1>4 DEF IInv, CreateInv, Creating
<1>6. UsedInv'
  <2>1. Present' = Present  BY <1>1, <1>2, <1>3 DEF Present
  <2>. QED  BY <1>2, <1>4, <2>1 DEF IInv, UsedInv, Alive
<1>7. LaunchInv'
  <2>. SUFFICES ASSUME NEW i \in Pids, proc'[i].at = "spawn"
       PROVE  /\ jobs'[proc'[i].job].status \in {"queued", "rejected", "absent"}
              /\ jobs'[proc'[i].job].status = "queued" =>
                   jobs'[proc'[i].job].pid = 0 /\ jobs'[proc'[i].job].launcher = i
              /\ \A k \in Pids \ {i} : Alive(k)' => proc'[k].job # proc'[i].job
    BY DEF LaunchInv
  <2>1. proc[i].at = "spawn" /\ proc'[i].job = proc[i].job  BY <1>4
  <2>2. jobs'[proc[i].job].status = "rejected" \/ jobs'[proc[i].job] = jobs[proc[i].job]  BY <1>2, <1>3
  <2>3. \A k \in Pids \ {i} : Alive(k)' => proc'[k].job # proc[i].job  BY <1>4, <2>1 DEF IInv, LaunchInv, Alive
  <2>. QED  BY <2>1, <2>2, <2>3 DEF IInv, LaunchInv
<1>8. ApplyInv'
  <2>1. \A k \in Pids : proc'[k].at \in Applying => proc[k].job # j  BY <1>1, <1>4, NotApplied DEF Applying
  <2>. QED  BY <1>2, <1>4, <2>1 DEF IInv, ApplyInv, Applying
<1>9. ReviewInv'
  <2>1. \A k \in Jobs : jobs'[k].by = jobs[k].by /\ jobs'[k].reviews = jobs[k].reviews  BY <1>2, <1>3
  <2>. QED  BY <1>2, <2>1 DEF IInv, ReviewInv
<1>10. CommitInv'  BY <1>2 DEF IInv, CommitInv, Picked
<1>11. WorkerOwnsJob'
  <2>. SUFFICES ASSUME NEW k \in Working'
       PROVE  /\ jobs'[proc'[k].job].pid = k
              /\ jobs'[proc'[k].job].status =
                   IF proc'[k].at = "prepare" THEN "preparing" ELSE "running"
    BY DEF WorkerOwnsJob
  <2>1. k \in Pids /\ proc'[k].at = proc[k].at /\ k \in Working /\ Alive(k)  BY <1>4 DEF Working, Alive
  <2>2. proc[k].job # j  BY <1>4, <2>1 DEF IInv, WorkerOwnsJob, Working
  <2>. QED  BY <1>2, <1>4, <2>1, <2>2 DEF IInv, WorkerOwnsJob
<1>12. AdmissionInv'
  <2>1. Busy' \subseteq Busy  BY <1>2, <1>3 DEF Busy
  <2>2. Writers' \subseteq Writers  BY <1>4 DEF Writers
  <2>. QED  BY <2>1, <2>2, Fewer
<1>. QED  BY <1>5, <1>6, <1>7, <1>8, <1>9, <1>10, <1>11, <1>12 DEF IInv

------------------------------------
(* Creating, listing *)

\* A list closes jobs of dead processes and does nothing else to them.
Listed(k) ==
  \/ jobs'[k] = jobs[k]
  \/ Orphaned(jobs[k]) /\ jobs'[k] = Refreshed(jobs[k])

LEMMA ListedFields ==
  ASSUME TypeOK, NEW k \in Jobs, Listed(k)
  PROVE  /\ jobs'[k].by = jobs[k].by
         /\ \A p \in Providers :
              \/ jobs'[k].reviews[p] = jobs[k].reviews[p]
              \/ jobs[k].reviews[p] # "none" /\ jobs'[k].reviews[p] = "failed"
         /\ \/ jobs'[k] = jobs[k]
            \/ /\ jobs[k].status \in Active /\ ~Alive(Owner(jobs[k]))
               /\ jobs'[k].status \in {"ready", "failed"}
<1>1. CASE jobs'[k] = jobs[k]  BY <1>1
<1>2. CASE Orphaned(jobs[k]) /\ jobs'[k] = Refreshed(jobs[k])
  <2>. DEFINE r == jobs[k]
              s == IF r.status = "reviewing" THEN "ready" ELSE "failed"
              rows == [p \in Providers |->
                        IF r.reviews[p] = "running" THEN "failed" ELSE r.reviews[p]]
  <2>1. r \in Record  BY DEF TypeOK
  <2>2. jobs'[k] = [r EXCEPT !.pid = 0, !.launcher = 0, !.status = s, !.reviews = rows]  BY <1>2 DEF Refreshed
  <2>3. jobs'[k].by = r.by /\ jobs'[k].status = s /\ jobs'[k].reviews = rows  BY <2>1, <2>2 DEF Record
  <2>. QED  BY <1>2, <2>3 DEF Orphaned
<1>. QED  BY <1>1, <1>2 DEF Listed

\* What a list leaves true, whatever its process does meanwhile.
LEMMA ListInv ==
  ASSUME TypeOK, IInv, \A k \in Jobs : Listed(k),
         UNCHANGED <<used, lock, head, fetched, approved>>,
         \A k \in Pids :
           /\ proc'[k].job = proc[k].job /\ proc'[k].copy = proc[k].copy
           /\ \/ proc'[k].at = proc[k].at
              \/ proc[k].at = "admit" /\ proc'[k].at \in {"write", "dead"}
  PROVE  /\ UsedInv' /\ LaunchInv' /\ ApplyInv' /\ ReviewInv' /\ CommitInv' /\ WorkerOwnsJob'
         /\ Busy' \subseteq Busy
<1>. USE ProcessType
<1>1. \A k \in Jobs :
        /\ jobs'[k].by = jobs[k].by
        /\ \A p \in Providers :
              \/ jobs'[k].reviews[p] = jobs[k].reviews[p]
              \/ jobs[k].reviews[p] # "none" /\ jobs'[k].reviews[p] = "failed"
        /\ \/ jobs'[k] = jobs[k]
           \/ /\ jobs[k].status \in Active /\ ~Alive(Owner(jobs[k]))
              /\ jobs'[k].status \in {"ready", "failed"}
  BY ListedFields
<1>2. UsedInv'
  <2>1. Present' = Present  BY <1>1 DEF Present, Active
  <2>. QED  BY <2>1 DEF IInv, UsedInv, Alive, Creating
<1>3. LaunchInv'
  <2>. SUFFICES ASSUME NEW i \in Pids, proc'[i].at = "spawn"
       PROVE  /\ jobs'[proc'[i].job].status \in {"queued", "rejected", "absent"}
              /\ jobs'[proc'[i].job].status = "queued" =>
                   jobs'[proc'[i].job].pid = 0 /\ jobs'[proc'[i].job].launcher = i
              /\ \A k \in Pids \ {i} : Alive(k)' => proc'[k].job # proc'[i].job
    BY DEF LaunchInv
  <2>1. proc[i].at = "spawn" /\ proc'[i].job = proc[i].job /\ Alive(i)  BY DEF Alive
  <2>2. jobs'[proc[i].job] = jobs[proc[i].job]  BY <1>1, <2>1 DEF IInv, LaunchInv, Owner, Active
  <2>3. \A k \in Pids \ {i} : Alive(k)' => proc'[k].job # proc[i].job  BY <2>1 DEF IInv, LaunchInv, Alive
  <2>. QED  BY <2>1, <2>2, <2>3 DEF IInv, LaunchInv
<1>4. ApplyInv'
  <2>1. \A k \in Pids : proc'[k].at \in Applying =>
           proc[k].at \in Applying /\ jobs'[proc[k].job] = jobs[proc[k].job]
    BY <1>1 DEF IInv, ApplyInv, Applying, Active
  <2>. QED  BY <2>1 DEF IInv, ApplyInv
<1>5. ReviewInv'  BY <1>1 DEF IInv, ReviewInv
<1>6. CommitInv'  BY DEF IInv, CommitInv, Picked
<1>7. WorkerOwnsJob'
  <2>. SUFFICES ASSUME NEW k \in Working'
       PROVE  /\ jobs'[proc'[k].job].pid = k
              /\ jobs'[proc'[k].job].status =
                   IF proc'[k].at = "prepare" THEN "preparing" ELSE "running"
    BY DEF WorkerOwnsJob
  <2>1. k \in Pids /\ proc'[k].at = proc[k].at /\ k \in Working /\ Alive(k)  BY DEF Working, Alive
  <2>2. jobs[proc[k].job].pid = k /\ k # 0  BY <2>1 DEF IInv, WorkerOwnsJob, Pids
  <2>3. jobs'[proc[k].job] = jobs[proc[k].job]  BY <1>1, <2>1, <2>2 DEF Owner
  <2>. QED  BY <2>1, <2>3 DEF IInv, WorkerOwnsJob
<1>8. Busy' \subseteq Busy  BY <1>1 DEF Busy
<1>. QED  BY <1>2, <1>3, <1>4, <1>5, <1>6, <1>7, <1>8

LEMMA RefreshInv ==
  ASSUME TypeOK, IInv, NEW j \in Jobs, Refresh(j)
  PROVE  IInv'
<1>1. \A k \in Jobs : Listed(k)  BY Updated DEF Refresh, Listed
<1>2. UNCHANGED <<used, lock, admission, head, fetched, approved, proc>>  BY DEF Refresh, repo
<1>3. /\ UsedInv' /\ LaunchInv' /\ ApplyInv' /\ ReviewInv' /\ CommitInv' /\ WorkerOwnsJob'
      /\ Busy' \subseteq Busy
  BY <1>1, <1>2, ListInv
<1>4. AdmissionInv'  BY <1>2, <1>3, Fewer DEF Writers
<1>5. CreateInv'  BY <1>2 DEF IInv, CreateInv
<1>. QED  BY <1>3, <1>4, <1>5 DEF IInv

LEMMA AdmitFailsInv ==
  ASSUME TypeOK, IInv, NEW i \in Pids, AdmitFails(i)
  PROVE  IInv'
<1>1. \A k \in Jobs : Listed(k)  BY DEF AdmitFails, Listed, Refreshed
<1>2. /\ UNCHANGED <<used, lock, head, fetched, approved>>
      /\ admission' = 0 /\ proc[i].at = "admit"
      /\ \A k \in Pids : /\ proc'[k].job = proc[k].job /\ proc'[k].copy = proc[k].copy
                         /\ proc'[k].at = IF k = i THEN "dead" ELSE proc[k].at
  BY Moved DEF AdmitFails, Ends, repo
<1>3. /\ UsedInv' /\ LaunchInv' /\ ApplyInv' /\ ReviewInv' /\ CommitInv' /\ WorkerOwnsJob'
      /\ Busy' \subseteq Busy
  BY <1>1, <1>2, ListInv
<1>4. AdmissionInv'  BY <1>2, <1>3, Fewer DEF Writers
<1>5. CreateInv'  BY <1>2 DEF IInv, CreateInv, Creating
<1>. QED  BY <1>3, <1>4, <1>5 DEF IInv

LEMMA AdmitInv ==
  ASSUME TypeOK, IInv, NEW i \in Pids, Admit(i)
  PROVE  IInv'
<1>1. \A k \in Jobs : Listed(k)  BY DEF Admit, Listed, Refreshed
<1>2. /\ UNCHANGED <<used, lock, head, fetched, approved>>
      /\ proc[i].at = "admit" /\ i # 0
      /\ \A k \in Pids : proc'[k].job = proc[k].job /\ proc'[k].copy = proc[k].copy
      /\ \A k \in Pids \ {i} : proc'[k].at = proc[k].at
      /\ \/ proc'[i].at = "dead" /\ admission' = 0
         \/ proc'[i].at = "write" /\ admission' = admission
  BY Moved DEF Admit, Ends, repo, Pids
<1>3. /\ UsedInv' /\ LaunchInv' /\ ApplyInv' /\ ReviewInv' /\ CommitInv' /\ WorkerOwnsJob'
      /\ Busy' \subseteq Busy
  BY <1>1, <1>2, ListInv
<1>4. AdmissionInv'
  <2>1. CASE proc'[i].at = "dead"  BY <1>2, <1>3, <2>1, Fewer DEF Writers
  <2>2. CASE proc'[i].at = "write"
    <3>. DEFINE active == {j \in Jobs : Refreshed(jobs[j]).status \in Active}
    <3>1. Cardinality(active) < MaxRunning
      <4>. DEFINE now == [j \in Jobs |-> Refreshed(jobs[j])]
      <4>1. {j \in Jobs : now[j].status \in Active} = active  OBVIOUS
      <4>2. ~Ends(i)  BY <2>2, Moved DEF Ends
      <4>3. Cardinality({j \in Jobs : now[j].status \in Active}) < MaxRunning  BY <4>2, Zenon DEF Admit
      <4>. QED  BY <4>1, <4>3
    <3>2. Busy' \subseteq active  BY DEF Admit, Busy, Active
    <3>3. IsFiniteSet(active)  BY HermesAssumption, FS_Subset
    <3>4. /\ Cardinality(Busy') \in Nat /\ Cardinality(active) \in Nat
          /\ Cardinality(Busy') <= Cardinality(active)
      BY <3>2, <3>3, FS_Subset, FS_CardinalityType
    <3>5. MaxRunning \in Nat  BY HermesAssumption
    <3>. QED  BY <3>1, <3>4, <3>5 DEF AdmissionInv
  <2>. QED  BY <1>2, <2>1, <2>2
<1>5. CreateInv'  BY <1>2 DEF IInv, CreateInv, Creating
<1>. QED  BY <1>3, <1>4, <1>5 DEF IInv

LEMMA CreateBeginInv ==
  ASSUME TypeOK, IInv, NEW j \in Jobs, NEW p \in Providers, CreateBegin(j, p)
  PROVE  IInv'
<1>1. /\ UNCHANGED <<jobs, used, lock, head, fetched, approved>>
      /\ j \notin used /\ admission = 0 /\ admission' = Next1
      /\ Next1 \in Pids
      /\ proc'[Next1].at = "admit" /\ proc'[Next1].job = j
      /\ \A k \in Pids \ {Next1} : proc'[k] = proc[k]
  BY StartedAt DEF CreateBegin, repo
<1>. USE ProcessType
<1>2. CreateInv'  BY <1>1 DEF IInv, CreateInv, Creating, Pids
<1>3. UsedInv'  BY <1>1 DEF IInv, UsedInv, Alive, Creating, Present
<1>4. LaunchInv'
  <2>1. \A k \in Pids : proc[k].at = "spawn" => proc[k].job \in used  BY DEF IInv, UsedInv, Alive, Creating
  <2>. QED  BY <1>1, <2>1 DEF IInv, LaunchInv, Alive
<1>5. ApplyInv'  BY <1>1 DEF IInv, ApplyInv, Applying
<1>6. ReviewInv' /\ CommitInv'  BY <1>1 DEF IInv, ReviewInv, CommitInv, Picked
<1>7. WorkerOwnsJob'  BY <1>1 DEF IInv, WorkerOwnsJob, Working
<1>8. AdmissionInv'
  <2>1. Busy' = Busy /\ Writers' \subseteq Writers  BY <1>1 DEF Busy, Writers
  <2>. QED  BY <2>1, Fewer
<1>. QED  BY <1>2, <1>3, <1>4, <1>5, <1>6, <1>7, <1>8 DEF IInv

LEMMA WriteInv ==
  ASSUME TypeOK, IInv, NEW i \in Pids, CreateWrite(i)
  PROVE  IInv'
<1>. DEFINE j == proc[i].job
<1>. USE ProcessType
<1>1. /\ UNCHANGED <<head, fetched, approved>>
      /\ used' = used \cup {j} /\ admission' = 0
      /\ proc[i].at = "write" /\ admission = i /\ j \notin used /\ i # 0
      /\ \A k \in Pids : /\ proc'[k].at = IF k = i THEN "spawn" ELSE proc[k].at
                         /\ proc'[k].job = proc[k].job /\ proc'[k].copy = proc[k].copy
  BY Moved DEF CreateWrite, repo, IInv, CreateInv, Creating, Pids
<1>2. /\ jobs'[j] = NewJob(i)
      /\ \A k \in Jobs \ {j} :
           \/ jobs'[k] = jobs[k] /\ lock'[k] = lock[k]
           \/ jobs'[k] = NoRecord /\ jobs[k].status \in Final
  <2>1. PICK old \in SUBSET (Present \cup litter) :
          LET gone == {k \in old : jobs[k].status \in Final} IN
          /\ jobs' = [k \in Jobs |-> IF k = j THEN NewJob(i)
                                    ELSE IF k \in gone THEN NoRecord ELSE jobs[k]]
          /\ lock' = [k \in Jobs |-> IF k \in gone THEN 0 ELSE lock[k]]
    BY DEF CreateWrite
  <2>. QED  BY <2>1
<1>3. /\ NewJob(i).status = "queued" /\ NewJob(i).pid = 0 /\ NewJob(i).launcher = i
      /\ \A p \in Providers : NewJob(i).reviews[p] = "none"
      /\ NoRecord.status = "absent"
      /\ \A p \in Providers : NoRecord.reviews[p] = "none"
  BY DEF NewJob, NoRecord
<1>4. \A k \in Pids : Alive(k) /\ k # i => proc[k].job \in used  BY <1>1 DEF IInv, UsedInv, CreateInv
<1>5. CreateInv'  BY <1>1 DEF IInv, CreateInv, Creating
<1>6. UsedInv'
  <2>1. Present' \subseteq used'  BY <1>1, <1>2, <1>3 DEF IInv, UsedInv, Present
  <2>. QED  BY <1>1, <1>4, <2>1 DEF IInv, UsedInv, Alive
<1>7. LaunchInv'
  <2>. SUFFICES ASSUME NEW m \in Pids, proc'[m].at = "spawn"
       PROVE  /\ jobs'[proc'[m].job].status \in {"queued", "rejected", "absent"}
              /\ jobs'[proc'[m].job].status = "queued" =>
                   jobs'[proc'[m].job].pid = 0 /\ jobs'[proc'[m].job].launcher = m
              /\ \A k \in Pids \ {m} : Alive(k)' => proc'[k].job # proc'[m].job
    BY DEF LaunchInv
  <2>1. CASE m = i  BY <1>1, <1>2, <1>3, <1>4, <2>1 DEF Alive
  <2>2. CASE m # i
    <3>1. proc[m].at = "spawn" /\ proc[m].job # j /\ proc'[m].job = proc[m].job  BY <1>1, <1>4, <2>2 DEF Alive
    <3>2. jobs'[proc[m].job] = jobs[proc[m].job] \/ jobs'[proc[m].job].status = "absent"  BY <1>2, <1>3, <3>1
    <3>3. \A k \in Pids \ {m} : Alive(k)' => proc'[k].job # proc[m].job  BY <1>1, <3>1 DEF IInv, LaunchInv, Alive
    <3>. QED  BY <3>1, <3>2, <3>3 DEF IInv, LaunchInv
  <2>. QED  BY <2>1, <2>2
<1>8. ApplyInv'
  <2>1. \A k \in Pids : proc'[k].at \in Applying =>
          /\ proc[k].at \in Applying /\ proc[k].job # j
          /\ \/ /\ jobs'[proc[k].job] = jobs[proc[k].job]
                /\ lock'[proc[k].job] = lock[proc[k].job]
             \/ jobs'[proc[k].job].status = "absent"
    BY <1>1, <1>2, <1>3, <1>4 DEF Applying, Alive
  <2>. QED  BY <1>1, <2>1 DEF IInv, ApplyInv
<1>9. ReviewInv'  BY <1>1, <1>2, <1>3 DEF IInv, ReviewInv
<1>10. CommitInv'  BY <1>1 DEF IInv, CommitInv, Picked
<1>11. WorkerOwnsJob'
  <2>. SUFFICES ASSUME NEW k \in Working'
       PROVE  /\ jobs'[proc'[k].job].pid = k
              /\ jobs'[proc'[k].job].status =
                   IF proc'[k].at = "prepare" THEN "preparing" ELSE "running"
    BY DEF WorkerOwnsJob
  <2>1. k \in Pids /\ proc'[k].at = proc[k].at /\ k \in Working /\ Alive(k) /\ k # i  BY <1>1 DEF Working, Alive
  <2>2. proc[k].job # j /\ jobs[proc[k].job].status \in {"preparing", "running"}  BY <1>1, <1>4, <2>1 DEF IInv, WorkerOwnsJob
  <2>3. jobs'[proc[k].job] = jobs[proc[k].job]  BY <1>2, <2>1, <2>2 DEF Final, Released
  <2>. QED  BY <1>1, <2>1, <2>3 DEF IInv, WorkerOwnsJob
<1>12. AdmissionInv'
  <2>1. Writers' = {}  BY <1>1 DEF Writers, IInv, CreateInv, Creating
  <2>2. Cardinality(Busy) < MaxRunning  BY <1>1 DEF IInv, AdmissionInv, Writers
  <2>3. Busy' \subseteq Busy \cup {j}  BY <1>2, <1>3 DEF Busy
  <2>4. IsFiniteSet(Busy)  BY HermesAssumption, FS_Subset DEF Busy
  <2>5. /\ IsFiniteSet(Busy \cup {j}) /\ Cardinality(Busy) \in Nat
        /\ Cardinality(Busy \cup {j}) <= Cardinality(Busy) + 1
    <3>1. Cardinality(Busy) \in Nat  BY <2>4, FS_CardinalityType
    <3>2. /\ IsFiniteSet(Busy \cup {j})
          /\ Cardinality(Busy \cup {j}) = IF j \in Busy THEN Cardinality(Busy)
                                          ELSE Cardinality(Busy) + 1
      BY <2>4, FS_AddElement
    <3>. QED  BY <3>1, <3>2
  <2>6. /\ Cardinality(Busy') \in Nat /\ Cardinality(Busy \cup {j}) \in Nat
        /\ Cardinality(Busy') <= Cardinality(Busy \cup {j})
    BY <2>3, <2>5, FS_Subset, FS_CardinalityType
  <2>7. MaxRunning \in Nat  BY HermesAssumption
  <2>. QED  BY <2>1, <2>2, <2>5, <2>6, <2>7 DEF AdmissionInv
<1>. QED  BY <1>5, <1>6, <1>7, <1>8, <1>9, <1>10, <1>11, <1>12 DEF IInv

LEMMA LookInv ==
  ASSUME TypeOK, IInv, NEW j \in Jobs, Look(j)
  PROVE  IInv'
<1>1. /\ UNCHANGED <<jobs, lock, admission, proc, head, fetched, approved>>
      /\ used' = used \cup {j}
      /\ \A i \in Pids : Alive(i) /\ proc[i].job = j => j \in used
  BY DEF Look, repo
<1>2. CreateInv'  BY <1>1 DEF IInv, CreateInv, Creating, Alive
<1>3. UsedInv'  BY <1>1 DEF IInv, UsedInv, Present, Alive
<1>4. LaunchInv' /\ WorkerOwnsJob'  BY <1>1 DEF IInv, LaunchInv, WorkerOwnsJob, Working, Alive
<1>5. ApplyInv' /\ ReviewInv' /\ CommitInv'  BY <1>1 DEF IInv, ApplyInv, ReviewInv, CommitInv, Picked
<1>6. AdmissionInv'
  <2>1. Busy' = Busy /\ Writers' = Writers  BY <1>1 DEF Busy, Writers
  <2>. QED  BY <2>1, Fewer
<1>. QED  BY <1>2, <1>3, <1>4, <1>5, <1>6 DEF IInv

------------------------------------
(* Applying; deaths *)

LEMMA ApplyBeginInv ==
  ASSUME TypeOK, IInv, NEW j \in Jobs, ApplyBegin(j)
  PROVE  IInv'
<1>1. /\ UNCHANGED <<jobs, used, admission, head, fetched, approved>>
      /\ jobs[j].status = "reviewed" /\ lock[j] = 0 /\ j \in used /\ j \in approved
      /\ Next1 \in Pids
      /\ proc'[Next1].at = "base" /\ proc'[Next1].job = j /\ proc'[Next1].copy = jobs[j]
      /\ \A k \in Pids \ {Next1} : proc'[k] = proc[k]
      /\ lock'[j] = Next1
      /\ \A k \in Jobs \ {j} : lock'[k] = lock[k]
  BY StartedAt DEF ApplyBegin, repo, TypeOK, IInv, UsedInv, ReviewInv, Present
<1>. USE ProcessType
<1>2. CreateInv'  BY <1>1 DEF IInv, CreateInv, Creating
<1>3. UsedInv'  BY <1>1 DEF IInv, UsedInv, Alive, Creating, Present
<1>4. LaunchInv'  BY <1>1 DEF IInv, LaunchInv, Alive
<1>5. ApplyInv'
  <2>1. \A k \in Pids : proc[k].at \in Applying => proc[k].job # j  BY <1>1, NotApplied
  <2>2. \A p \in Providers : /\ jobs[j].reviews[p] # "none" => p # jobs[j].by
                             /\ jobs[j].reviews[p] = "approved" => j \in approved
    BY DEF IInv, ReviewInv
  <2>. QED  BY <1>1, <2>1, <2>2 DEF IInv, ApplyInv
<1>6. ReviewInv' /\ CommitInv'  BY <1>1 DEF IInv, ReviewInv, CommitInv, Picked
<1>7. WorkerOwnsJob'  BY <1>1 DEF IInv, WorkerOwnsJob, Working
<1>8. AdmissionInv'
  <2>1. Busy' = Busy /\ Writers' \subseteq Writers  BY <1>1 DEF Busy, Writers
  <2>. QED  BY <2>1, Fewer
<1>. QED  BY <1>2, <1>3, <1>4, <1>5, <1>6, <1>7, <1>8 DEF IInv

\* A process goes on applying, or ends, with the record untouched.
LEMMA ApplierInv ==
  ASSUME TypeOK, IInv, NEW i \in Pids, ApplyFails(i) \/ CheckBase(i) \/ Fetch(i) \/ Pick(i)
  PROVE  IInv'
<1>. USE ProcessType
<1>1. /\ UNCHANGED <<jobs, used, admission, approved>>
      /\ proc[i].at \in Applying
      /\ \A k \in Pids : proc'[k].job = proc[k].job /\ proc'[k].copy = proc[k].copy
      /\ \A k \in Pids \ {i} : proc'[k].at = proc[k].at
      /\ proc'[i].at \in Applying \cup {"dead"}
  BY Moved DEF ApplyFails, CheckBase, Fetch, Pick, Ends, Applying, repo
<1>2. \A k \in Jobs : \/ lock'[k] = lock[k]
                      \/ lock[k] = i /\ proc'[i].at = "dead"
  BY Moved DEF ApplyFails, CheckBase, Fetch, Pick, Unlock, Ends, TypeOK
<1>3. CreateInv'  BY <1>1 DEF IInv, CreateInv, Creating, Applying
<1>4. UsedInv'  BY <1>1 DEF IInv, UsedInv, Alive, Creating, Present, Applying
<1>5. LaunchInv'  BY <1>1 DEF IInv, LaunchInv, Alive, Applying
<1>6. ApplyInv'
  <2>1. \A k \in Pids : proc'[k].at \in Applying =>
          /\ proc[k].at \in Applying
          /\ lock[proc[k].job] = k => lock'[proc[k].job] = k
    BY <1>1, <1>2 DEF Applying
  <2>. QED  BY <1>1, <2>1 DEF IInv, ApplyInv
<1>7. ReviewInv'  BY <1>1 DEF IInv, ReviewInv
<1>8. CommitInv'
  <2>1. CASE ApplyFails(i) \/ CheckBase(i)  BY <1>1, <2>1 DEF ApplyFails, CheckBase, repo, IInv, CommitInv, Picked
  <2>2. CASE Fetch(i)
    <3>1. proc[i].job \in approved  BY <1>1 DEF IInv, ApplyInv
    <3>. QED  BY <1>1, <2>2, <3>1 DEF Fetch, IInv, CommitInv, Picked
  <2>3. CASE Pick(i)
    <3>1. PICK j \in fetched : head' = Append(head, j)  BY <2>3 DEF Pick
    <3>2. head \in Seq(Jobs) /\ j \in Jobs /\ j \in approved  BY DEF TypeOK, IInv, CommitInv
    <3>3. \A n \in 1..Len(head') : head'[n] = j \/ \E m \in 1..Len(head) : head'[n] = head[m]  BY <3>1, <3>2
    <3>. QED  BY <1>1, <2>3, <3>2, <3>3 DEF Pick, IInv, CommitInv, Picked
  <2>. QED  BY <2>1, <2>2, <2>3
<1>9. WorkerOwnsJob'  BY <1>1 DEF IInv, WorkerOwnsJob, Working, Applying
<1>10. AdmissionInv'
  <2>1. Busy' = Busy /\ Writers' \subseteq Writers  BY <1>1 DEF Busy, Writers, Applying
  <2>. QED  BY <2>1, Fewer
<1>. QED  BY <1>3, <1>4, <1>5, <1>6, <1>7, <1>8, <1>9, <1>10 DEF IInv

LEMMA ApplyRecordInv ==
  ASSUME TypeOK, IInv, NEW i \in Pids, ApplyRecord(i)
  PROVE  IInv'
<1>. DEFINE j == proc[i].job
            c == proc[i].copy
<1>. USE ProcessType
<1>1. /\ UNCHANGED <<used, admission, head, fetched, approved>>
      /\ proc[i].at = "record" /\ Alive(i)
      /\ \A k \in Pids : /\ proc'[k].job = proc[k].job /\ proc'[k].copy = proc[k].copy
                         /\ proc'[k].at = IF k = i THEN "dead" ELSE proc[k].at
      /\ \A k \in Jobs \ {j} : jobs'[k] = jobs[k]
      /\ \A k \in Jobs : lock[k] # i => lock'[k] = lock[k]
  BY Moved, Updated DEF ApplyRecord, Ends, Unlock, repo, Alive, TypeOK
<1>2. /\ jobs'[j].status = "applied" /\ jobs'[j].by = c.by /\ jobs'[j].reviews = c.reviews
  <2>1. jobs'[j] = [c EXCEPT !.status = "applied"]  BY Updated DEF ApplyRecord
  <2>. QED  BY <2>1, Fields
<1>3. /\ jobs[j].status \in {"reviewed", "absent"}
      /\ \A k \in Pids \ {i} : proc[k].at \in Applying => proc[k].job # j
      /\ \A p \in Providers : c.reviews[p] # "none" => p # c.by
      /\ \A p \in Providers : c.reviews[p] = "approved" => j \in approved
      /\ j \in used
  BY <1>1, Alone DEF IInv, ApplyInv, Applying, Creating
<1>4. CreateInv'  BY <1>1 DEF IInv, CreateInv, Creating
<1>5. UsedInv'
  <2>1. Present' \subseteq Present \cup {j}  BY <1>1 DEF Present
  <2>. QED  BY <1>1, <1>3, <2>1 DEF IInv, UsedInv, Alive
<1>6. LaunchInv'
  <2>. SUFFICES ASSUME NEW m \in Pids, proc'[m].at = "spawn"
       PROVE  /\ jobs'[proc'[m].job].status \in {"queued", "rejected", "absent"}
              /\ jobs'[proc'[m].job].status = "queued" =>
                   jobs'[proc'[m].job].pid = 0 /\ jobs'[proc'[m].job].launcher = m
              /\ \A k \in Pids \ {m} : Alive(k)' => proc'[k].job # proc'[m].job
    BY DEF LaunchInv
  <2>1. proc[m].at = "spawn" /\ m # i /\ proc'[m].job = proc[m].job  BY <1>1
  <2>2. proc[m].job # j  BY <1>1, <2>1 DEF IInv, LaunchInv
  <2>3. \A k \in Pids \ {m} : Alive(k)' => proc'[k].job # proc[m].job  BY <1>1, <2>1 DEF IInv, LaunchInv, Alive
  <2>. QED  BY <1>1, <2>1, <2>2, <2>3 DEF IInv, LaunchInv
<1>7. ApplyInv'
  <2>1. \A k \in Pids : proc'[k].at \in Applying =>
          /\ proc[k].at \in Applying
          /\ jobs'[proc[k].job] = jobs[proc[k].job]
          /\ lock[proc[k].job] = k => lock'[proc[k].job] = k
    BY <1>1, <1>3 DEF Applying
  <2>. QED  BY <1>1, <2>1 DEF IInv, ApplyInv
<1>8. ReviewInv'  BY <1>1, <1>2, <1>3 DEF IInv, ReviewInv
<1>9. CommitInv'  BY <1>1 DEF IInv, CommitInv, Picked
<1>10. WorkerOwnsJob'
  <2>1. \A k \in Working : proc[k].job # j  BY <1>3 DEF IInv, WorkerOwnsJob
  <2>. QED  BY <1>1, <2>1 DEF IInv, WorkerOwnsJob, Working
<1>11. AdmissionInv'
  <2>1. Busy' \subseteq Busy /\ Writers' \subseteq Writers  BY <1>1, <1>2 DEF Busy, Writers
  <2>. QED  BY <2>1, Fewer
<1>. QED  BY <1>4, <1>5, <1>6, <1>7, <1>8, <1>9, <1>10, <1>11 DEF IInv

LEMMA KillInv ==
  ASSUME TypeOK, IInv, NEW i \in Pids, Kill(i)
  PROVE  IInv'
<1>. USE ProcessType
<1>1. /\ UNCHANGED <<jobs, head, fetched, approved>>
      /\ \A k \in Pids : /\ proc'[k].job = proc[k].job /\ proc'[k].copy = proc[k].copy
                         /\ proc'[k].at = IF k = i THEN "dead" ELSE proc[k].at
      /\ \A k \in Jobs : lock[k] # i => lock'[k] = lock[k]
      /\ admission # i => admission' = admission
      /\ \/ used' = used
         \/ proc[i].at = "write" /\ used' = used \cup {proc[i].job}
  BY Moved DEF Kill, Ends, Unlock, repo, TypeOK
<1>2. CreateInv'  BY <1>1 DEF IInv, CreateInv, Creating
<1>3. UsedInv'  BY <1>1 DEF IInv, UsedInv, Present, Alive
<1>4. LaunchInv'  BY <1>1 DEF IInv, LaunchInv, Alive
<1>5. ApplyInv'  BY <1>1 DEF IInv, ApplyInv, Applying
<1>6. ReviewInv' /\ CommitInv'  BY <1>1 DEF IInv, ReviewInv, CommitInv, Picked
<1>7. WorkerOwnsJob'  BY <1>1 DEF IInv, WorkerOwnsJob, Working
<1>8. AdmissionInv'
  <2>1. Busy' = Busy /\ Writers' \subseteq Writers  BY <1>1 DEF Busy, Writers
  <2>. QED  BY <2>1, Fewer
<1>. QED  BY <1>2, <1>3, <1>4, <1>5, <1>6, <1>7, <1>8 DEF IInv

------------------------------------
(* The theorems *)

LEMMA InitInv == Init => IInv
<1>. SUFFICES ASSUME Init PROVE IInv  OBVIOUS
<1>1. /\ \A j \in Jobs : jobs[j].status = "absent"
      /\ \A j \in Jobs, p \in Providers : jobs[j].reviews[p] = "none"
      /\ \A i \in Pids : proc[i].at = "unused"
      /\ head = <<>> /\ fetched = {}
  BY DEF Init, NoRecord, NoProcess
<1>2. CreateInv /\ UsedInv /\ LaunchInv /\ ApplyInv
  BY <1>1 DEF CreateInv, UsedInv, LaunchInv, ApplyInv, Creating, Applying, Alive, Present
<1>3. ReviewInv /\ CommitInv /\ WorkerOwnsJob  BY <1>1 DEF ReviewInv, CommitInv, WorkerOwnsJob, Working, Picked
<1>4. AdmissionInv
  <2>1. Busy = {} /\ Writers = {}  BY <1>1 DEF Busy, Writers
  <2>. QED  BY <2>1, FS_EmptySet, HermesAssumption DEF AdmissionInv
<1>. QED  BY <1>2, <1>3, <1>4 DEF IInv

LEMMA NextInv == TypeOK /\ IInv /\ [Next]_vars => IInv'
<1>. SUFFICES ASSUME TypeOK, IInv, [Next]_vars PROVE IInv'  OBVIOUS
<1>1. CASE User
  BY <1>1, CreateBeginInv, ReviewBeginInv, LookInv, ApplyBeginInv, RejectInv, ReleaseInv
  DEF User
<1>2. ASSUME NEW j \in Jobs, Refresh(j) PROVE IInv'  BY <1>2, RefreshInv
<1>3. ASSUME NEW i \in Pids, Step(i) PROVE IInv'
  BY <1>3, AdmitInv, AdmitFailsInv, WriteInv, SpawnInv, SpawnFailsInv, RegisterInv, LostInv,
     BootInv, RunsInv, WorkerEndInv, ReviewerInv, VerdictInv, ApplierInv, ApplyRecordInv
  DEF Step
<1>4. ASSUME NEW i \in Pids, Kill(i) PROVE IInv'  BY <1>4, KillInv
<1>5. CASE UNCHANGED vars
  BY <1>5 DEF vars, IInv, CreateInv, UsedInv, LaunchInv, ApplyInv, ReviewInv, CommitInv,
     WorkerOwnsJob, Working, AdmissionInv, Busy, Writers, Present, Picked, Alive
<1>. QED  BY <1>1, <1>2, <1>3, <1>4, <1>5 DEF Next

\* The invariant that ties records to the processes that may change them.
THEOREM Inductive == Spec => []IInv
BY TypeCorrect, InitInv, NextInv, PTL DEF Spec

\* A worker at work is the one that its job's record names.
THEOREM WorkersOwn == Spec => []WorkerOwnsJob
<1>1. IInv => WorkerOwnsJob  BY DEF IInv
<1>. QED  BY <1>1, Inductive, PTL

\* Only a commit that somebody else approved is on the branch.
THEOREM ApprovedOnly == Spec => []OnlyApproved
<1>1. IInv => OnlyApproved  BY DEF IInv, CommitInv, OnlyApproved
<1>. QED  BY <1>1, Inductive, PTL

\* There are never more workers at work than admission allows.
THEOREM Bounded == Spec => []WorkersBounded
<1>1. TypeOK /\ IInv => WorkersBounded
  <2>. SUFFICES ASSUME TypeOK, IInv PROVE Cardinality(Working) <= MaxRunning  BY DEF WorkersBounded
  <2>. DEFINE f == [i \in Working |-> proc[i].job]
  <2>1. IsFiniteSet(Busy) /\ Cardinality(Busy) \in Nat  BY HermesAssumption, FS_Subset, FS_CardinalityType DEF Busy
  <2>2. f \in Injection(Working, Busy)
    <3>1. \A i \in Working : f[i] \in Busy /\ jobs[f[i]].pid = i  BY ProcessType DEF Working, Busy, IInv, WorkerOwnsJob
    <3>. QED  BY <3>1 DEF Injection, IsInjective
  <2>3. IsFiniteSet(Working) /\ Cardinality(Working) <= Cardinality(Busy)  BY <2>1, <2>2, FS_Injection
  <2>4. Cardinality(Working) \in Nat /\ MaxRunning \in Nat  BY <2>3, FS_CardinalityType, HermesAssumption
  <2>5. Cardinality(Busy) <= MaxRunning  BY <2>1, <2>4 DEF IInv, AdmissionInv
  <2>. QED  BY <2>1, <2>3, <2>4, <2>5
<1>. QED  BY <1>1, TypeCorrect, Inductive, PTL

------------------------------------
(* What was applied stays applied *)


LEMMA Stays ==
  ASSUME TypeOK, IInv, Next, NEW j \in Jobs, jobs[j].status \in Released
  PROVE  jobs'[j].status \in Released \cup {"absent"}
<1>. DEFINE Kept == jobs'[j].status \in Released \cup {"absent"}
<1>. USE ProcessType
<1>1. \A k \in Jobs : jobs[k].status \in Active => k # j  BY DEF Active, Released
<1>2. CASE User
  <2>1. ASSUME NEW k \in Jobs, NEW p \in Providers, CreateBegin(k, p) \/ ReviewBegin(k, p)
        PROVE Kept
    BY <2>1, Updated DEF CreateBegin, ReviewBegin, Released
  <2>2. ASSUME NEW k \in Jobs, Look(k) \/ ApplyBegin(k) \/ Reject(k) PROVE Kept  BY <2>2, Updated DEF Look, ApplyBegin, Reject
  <2>3. ASSUME NEW k \in Jobs, NEW status \in {"installed", "pushed"}, Release(k, status)
        PROVE Kept
    <3>1. jobs[k] \in Record /\ jobs'[k] = [jobs[k] EXCEPT !.status = status]  BY <2>3, Updated DEF Release, TypeOK
    <3>2. jobs'[k].status = status  BY <3>1, Fields
    <3>. QED  BY <2>3, <3>2, Updated DEF Release, Released
  <2>. QED  BY <1>2, <2>1, <2>2, <2>3 DEF User
<1>3. ASSUME NEW k \in Jobs, Refresh(k) PROVE Kept  BY <1>1, <1>3, Updated DEF Refresh, Orphaned
<1>4. ASSUME NEW i \in Pids, Admit(i) \/ AdmitFails(i) PROVE Kept
  <2>1. jobs'[j] = Refreshed(jobs[j]) \/ jobs'[j] = jobs[j]  BY <1>4 DEF Admit, AdmitFails
  <2>. QED  BY <1>1, <2>1 DEF Refreshed, Orphaned
<1>5. ASSUME NEW i \in Pids, CreateWrite(i) PROVE Kept
  <2>1. proc[i].job # j  BY <1>5 DEF CreateWrite, IInv, CreateInv, UsedInv, Creating, Present, Released
  <2>2. PICK gone : jobs' = [k \in Jobs |-> IF k = proc[i].job THEN NewJob(i)
                                 ELSE IF k \in gone THEN NoRecord ELSE jobs[k]]
    BY <1>5 DEF CreateWrite
  <2>. QED  BY <2>1, <2>2 DEF NoRecord
<1>6. ASSUME NEW i \in Pids, SpawnFails(i) PROVE Kept  BY <1>6, Updated DEF SpawnFails, At, IInv, LaunchInv, Released
<1>7. ASSUME NEW i \in Pids,
             Register(i) \/ WorkerBoot(i) \/ WorkerRuns(i) \/ WorkerDone(i) \/ WorkerFails(i)
      PROVE  Kept
  BY <1>7, Updated
  DEF Register, WorkerBoot, WorkerRuns, WorkerDone, WorkerFails, Released
<1>8. ASSUME NEW i \in Pids,
             \/ SpawnReviewFails(i) \/ RegisterReview(i) \/ ReviewerBoot(i)
             \/ \E verdict \in {"approved", "revise", "failed"} : Verdict(i, verdict)
      PROVE  Kept
  BY <1>8, Updated
  DEF SpawnReviewFails, RegisterReview, ReviewerBoot, Verdict, Reviewing, Released
<1>9. ASSUME NEW i \in Pids, ApplyRecord(i) PROVE Kept
  <2>1. jobs'[proc[i].job] = [proc[i].copy EXCEPT !.status = "applied"]  BY <1>9, Updated DEF ApplyRecord
  <2>2. jobs'[proc[i].job].status = "applied"  BY <2>1, Fields
  <2>. QED  BY <1>9, <2>2, Updated DEF ApplyRecord, Released
<1>10. ASSUME NEW i \in Pids,
              \/ Spawn(i) \/ Lost(i) \/ SpawnReview(i) \/ Kill(i)
              \/ ApplyFails(i) \/ CheckBase(i) \/ Fetch(i) \/ Pick(i)
       PROVE  Kept
  BY <1>10 DEF Spawn, Lost, SpawnReview, Kill, ApplyFails, CheckBase, Fetch, Pick
<1>. QED  BY <1>2, <1>3, <1>4, <1>5, <1>6, <1>7, <1>8, <1>9, <1>10 DEF Next, Step

\* No late worker, reviewer, list or reject takes back what was applied.
THEOREM Applied == Spec => AppliedStays
<1>1. TypeOK /\ IInv /\ [Next]_vars =>
        [\A j \in Jobs : jobs[j].status \in Released
           => jobs'[j].status \in Released \cup {"absent"}]_vars
  BY Stays
<1>. QED  BY <1>1, TypeCorrect, Inductive, PTL DEF Spec, AppliedStays
=============================================================================
