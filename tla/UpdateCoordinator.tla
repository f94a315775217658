------------------------- MODULE UpdateCoordinator -------------------------
(***************************************************************************)
(* shell/scripts/update-coordinator.py: one update workflow at a time,     *)
(* serialized by a lock on a file, with a record of every step that        *)
(* outlives the coordinator.  A step is a worker the coordinator starts    *)
(* and that inherits the lock; the worker may start an installer through   *)
(* sudo, which does not inherit it and may outlive its worker.  The        *)
(* coordinator adopts such orphans and waits for them.  It may be asked to *)
(* stop, its saves may fail, and it may be killed at any point.            *)
(*                                                                         *)
(* Left out: the inhibitor and the checks of space before the first save   *)
(* (a refusal there changes nothing), messages, `status`, which changes    *)
(* nothing, and a power failure.                                           *)
(***************************************************************************)
EXTENDS Naturals, Sequences, FiniteSets

CONSTANTS MaxUpRuns,   \* workflows started
          MaxUpKills   \* coordinators killed

VARIABLES upRec,         \* the record in the state directory
          upData,        \* the coordinator's own copy of it
          upPc, upAt,    \* where the coordinator is, and at which row
          upStopped,     \* it was asked to stop
          upCode,        \* how the worker of the row ended
          upBad,         \* an adopted installer failed
          upInstallers,  \* workers and installers that run
          upFlatpak,     \* flatpak is installed
          upRun, upKilled, upDirty, upKept, upLate   \* history: workflows so far, those killed, steps of this transaction that failed in part, steps it recorded as completed, steps begun after a stop
upVars == <<upRec, upData, upPc, upAt, upStopped, upCode, upBad, upInstallers, upFlatpak, upRun, upKilled, upDirty, upKept, upLate>>
upHistory == <<upRun, upKilled, upDirty, upKept, upLate>>

\* MODES
Workflows == [shell |-> <<"shell">>, compositor |-> <<"compositor">>,
              desktop |-> <<"shell", "compositor">>, system |-> <<"packages", "flatpak">>]
StepsOf(mode) == {Workflows[mode][i] : i \in DOMAIN Workflows[mode]}
NoRecord == [mode |-> "none"]
UpdateSteps == {"shell", "compositor", "packages", "flatpak"}

\* An open description of the lock is held by the coordinator and by the workers it passed it to.
UpdateLocked == upPc # "off" \/ \E p \in upInstallers : p.holds
Mine == {p \in upInstallers : p.run = upRun}
RowNow == Workflows[upData.mode][upAt]
RowsLeft == upAt <= Len(Workflows[upData.mode])
RowBecomes(state) == [upData EXCEPT !.rows[RowNow] = state]

UpdateInit ==
    /\ upRec = NoRecord /\ upData = NoRecord /\ upPc = "off" /\ upAt = 0 /\ upStopped = FALSE
    /\ upCode = 0 /\ upBad = FALSE /\ upInstallers = {} /\ upFlatpak \in BOOLEAN
    /\ upRun = 0 /\ upKilled = {} /\ upDirty = {} /\ upKept = {} /\ upLate = 0

------------------------------------
(* run *)

\* A workflow begins from nothing, or repeats the last one with what it completed.
Completed(record) == {s \in DOMAIN record.rows : record.rows[s] = "completed"}
Retried == Completed(upRec)
WorkflowBegins(mode, done, fresh) ==
    /\ ~UpdateLocked /\ upRun < MaxUpRuns
    /\ done # StepsOf(mode)
    /\ upData' = [mode |-> mode, status |-> "running",
                  rows |-> [s \in StepsOf(mode) |-> IF s \in done THEN "completed" ELSE "pending"]]
    /\ upPc' = IF fresh THEN "anew" ELSE "begin"
    /\ upAt' = 1 /\ upStopped' = FALSE /\ upCode' = 0 /\ upBad' = FALSE
    /\ upRun' = upRun + 1 /\ upLate' = 0
    /\ UNCHANGED <<upRec, upInstallers, upFlatpak, upKilled, upDirty, upKept>>
StartUpdate == \E mode \in DOMAIN Workflows : WorkflowBegins(mode, {}, TRUE)
RetryUpdate == upRec # NoRecord /\ WorkflowBegins(upRec.mode, Retried, FALSE)

------------------------------------
(* save: the file is replaced whole, or an error ends the workflow *)
SavedThen(next) ==
    /\ \/ upRec' = upData /\ upPc' = next
          /\ upKept' = (IF upPc = "anew" THEN {} ELSE upKept) \cup Completed(upData)
          /\ upDirty' = IF upPc = "anew" THEN {} ELSE upDirty
       \/ upPc' = "unwind" /\ UNCHANGED <<upRec, upKept, upDirty>>
    /\ UNCHANGED <<upData, upStopped, upCode, upBad, upInstallers, upFlatpak, upRun, upKilled, upLate>>
FirstSave == upPc \in {"begin", "anew"} /\ SavedThen("next") /\ UNCHANGED upAt

------------------------------------
(* execute *)
SkipRow == /\ upPc = "next" /\ RowsLeft /\ upData.rows[RowNow] = "completed"
           /\ upAt' = upAt + 1
           /\ UNCHANGED <<upRec, upData, upPc, upStopped, upCode, upBad, upInstallers, upFlatpak, upHistory>>
MayBegin == ~upStopped
\* The row is marked, and saved as running before anything of it runs.
TakeRow == /\ upPc = "next" /\ RowsLeft /\ upData.rows[RowNow] # "completed" /\ MayBegin
           /\ IF RowNow = "flatpak" /\ ~upFlatpak
              THEN upData' = RowBecomes("completed") /\ upPc' = "record"
              ELSE upData' = RowBecomes("running") /\ upPc' = "mark"
           /\ UNCHANGED <<upRec, upAt, upStopped, upCode, upBad, upInstallers, upFlatpak, upHistory>>
MarkRow == upPc = "mark" /\ SavedThen("spawn") /\ UNCHANGED upAt
Spawn == /\ upPc = "spawn"
         /\ upInstallers' = upInstallers \cup {[run |-> upRun, step |-> RowNow, worker |-> TRUE, holds |-> TRUE]}
         /\ upPc' = "wait" /\ upDirty' = upDirty \ {RowNow}
         /\ upLate' = upLate + (IF upStopped THEN 1 ELSE 0)
         /\ UNCHANGED <<upRec, upData, upAt, upStopped, upCode, upBad, upFlatpak, upRun, upKilled, upKept>>
\* Too little space, or a worker that cannot be started.
SpawnFails == /\ upPc = "spawn" /\ upCode' = 1 /\ upPc' = "drain"
              /\ UNCHANGED <<upRec, upData, upAt, upStopped, upBad, upInstallers, upFlatpak, upHistory>>
\* Mutant of NoneLeft: only the worker is waited for.
WorkerGone == ~\E p \in Mine : p.worker
\* drain_children: the row is judged when the worker and all it left behind have ended.
NoneLeft == Mine = {}
Verdict == IF upCode = 0 /\ ~upBad THEN "completed" ELSE IF upCode = 125 THEN "cancelled" ELSE "failed"
JudgeRow == /\ upPc = "drain" /\ NoneLeft
            /\ upData' = RowBecomes(Verdict) /\ upPc' = "record" /\ upBad' = FALSE
            /\ UNCHANGED <<upRec, upAt, upStopped, upCode, upInstallers, upFlatpak, upHistory>>
\* A failed step of the desktop is not followed by another.
RecordRow == /\ upPc = "record"
             /\ SavedThen(IF upData.rows[RowNow] # "completed" /\ upData.mode # "system" THEN "close" ELSE "next")
             /\ upAt' = upAt + 1
\* The rows are at their end, or a stop was seen between two of them.
RowsOver == /\ upPc = "next"
            /\ RowsLeft => upData.rows[RowNow] # "completed" /\ ~MayBegin
            /\ upPc' = "close"
            /\ UNCHANGED <<upRec, upData, upAt, upStopped, upCode, upBad, upInstallers, upFlatpak, upHistory>>
Conclusion == LET done == Completed(upData) IN
              IF done = StepsOf(upData.mode) THEN "completed"
              ELSE IF upStopped THEN "interrupted" ELSE IF done # {} THEN "partial" ELSE "failed"
Close == /\ upPc = "close" /\ upData' = [upData EXCEPT !.status = Conclusion] /\ upPc' = "final"
         /\ UNCHANGED <<upRec, upAt, upStopped, upCode, upBad, upInstallers, upFlatpak, upHistory>>
FinalSave == upPc = "final" /\ SavedThen("unwind") /\ UNCHANGED upAt
\* The lock goes when nothing of the workflow runs any more.
Unwind == /\ upPc = "unwind" /\ NoneLeft /\ upPc' = "off" /\ upData' = NoRecord /\ upAt' = 0
          /\ UNCHANGED <<upRec, upStopped, upCode, upBad, upInstallers, upFlatpak, upHistory>>
StopAsked == /\ upPc \notin {"off", "begin", "anew"} /\ ~upStopped /\ upStopped' = TRUE
             /\ UNCHANGED <<upRec, upData, upPc, upAt, upCode, upBad, upInstallers, upFlatpak, upHistory>>

------------------------------------
(* The worker and its installer, and the kill of the coordinator *)
GoesThroughSudo(p) ==
    /\ p \in upInstallers /\ p.worker
    /\ upInstallers' = upInstallers \cup {[run |-> p.run, step |-> p.step, worker |-> FALSE, holds |-> FALSE]}
    /\ UNCHANGED <<upRec, upData, upPc, upAt, upStopped, upCode, upBad, upFlatpak, upHistory>>
Failure(p, failed) == upDirty' = IF failed /\ p.run = upRun THEN upDirty \cup {p.step} ELSE upDirty
WorkerEndsWith(p, code) ==
    /\ p \in upInstallers /\ p.worker
    /\ upInstallers' = upInstallers \ {p} /\ Failure(p, code # 0)
    /\ IF p.run = upRun /\ upPc = "wait" THEN upCode' = code /\ upPc' = "drain" ELSE UNCHANGED <<upCode, upPc>>
    /\ UNCHANGED <<upRec, upData, upAt, upStopped, upBad, upFlatpak, upRun, upKilled, upKept, upLate>>
\* While its worker lives, the end of an installer is for the worker to judge.
Adopted(p) == ~\E w \in upInstallers : w.worker /\ w.run = p.run
InstallerEnds(p, failed) ==
    /\ p \in upInstallers /\ ~p.worker
    /\ upInstallers' = upInstallers \ {p}
    /\ IF Adopted(p) /\ p.run = upRun /\ upPc # "off"
       THEN Failure(p, failed) /\ upBad' = (upBad \/ failed)
       ELSE UNCHANGED <<upDirty, upBad>>
    /\ UNCHANGED <<upRec, upData, upPc, upAt, upStopped, upCode, upFlatpak, upRun, upKilled, upKept, upLate>>
CoordinatorKilled ==
    /\ upPc # "off" /\ Cardinality(upKilled) < MaxUpKills
    /\ upPc' = "off" /\ upData' = NoRecord /\ upAt' = 0 /\ upKilled' = upKilled \cup {upRun}
    /\ UNCHANGED <<upRec, upStopped, upCode, upBad, upInstallers, upFlatpak, upRun, upDirty, upKept, upLate>>

UpdateNext ==
    \/ StartUpdate \/ RetryUpdate \/ FirstSave \/ SkipRow \/ TakeRow \/ MarkRow \/ Spawn \/ SpawnFails
    \/ JudgeRow \/ RecordRow \/ RowsOver \/ Close \/ FinalSave \/ Unwind \/ StopAsked \/ CoordinatorKilled
    \/ \E p \in upInstallers : \/ GoesThroughSudo(p)
                               \/ \E code \in {0, 1, 125} : WorkerEndsWith(p, code)
                               \/ \E failed \in BOOLEAN : InstallerEnds(p, failed)
UpdateSpec == UpdateInit /\ [][UpdateNext]_upVars

------------------------------------
\* The record is true of a whole step: what it calls completed ended well, down
\* to the last orphan, and none of it runs on.
RecordIsTrue ==
    upRec # NoRecord => \A s \in Completed(upRec) :
        (s = "flatpak" /\ ~upFlatpak) \/ (s \notin upDirty /\ \A p \in upInstallers : p.step = s => p.run \in upKilled)

\* Two steps never install at once: what else runs is an installer without the
\* lock that a killed coordinator left behind.
OneInstaller ==
    /\ \A p, q \in upInstallers : p.run = q.run => p.step = q.step
    /\ \A p \in upInstallers : p.run # upRun => p.run \in upKilled /\ ~p.holds

\* The compositor of a desktop update follows a shell that is recorded as completed.
ShellBeforeCompositor ==
    upPc = "wait" /\ RowNow = "compositor" /\ upData.mode = "desktop" => "shell" \in Completed(upRec)

\* Through kills, failed saves and retries a transaction forgets nothing it recorded as completed.
CompletedKept == upKept = IF upRec = NoRecord THEN {} ELSE Completed(upRec)

\* After a request to stop at most the step that was on its way still runs.
StopHeeded == upLate <= 1

UpdatesHold == RecordIsTrue /\ OneInstaller /\ ShellBeforeCompositor /\ CompletedKept /\ StopHeeded
=============================================================================
