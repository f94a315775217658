--------------------------- MODULE InstallSwitch ---------------------------
(***************************************************************************)
(* install.sh and bin/nbshell-install-recover: one installation at a time  *)
(* replaces the runtime of the shell and the files beside it, recorded in  *)
(* a transaction directory.  An installer that fails takes everything back *)
(* itself; for one that is killed a timer runs the recovery script, unless *)
(* the next installer comes first and runs it itself.  A mark in the       *)
(* transaction says that the installation is committed.                    *)
(*                                                                         *)
(* The runtime goes through three names: the one that is used, the staged  *)
(* tree and the rollback tree.  All contents are relative to the current   *)
(* transaction: "old" is what was installed when it began (and the inode   *)
(* it was), "copy" is the same in another inode, "new" is the release that *)
(* is being installed.  `isPayload` stands for all the recorded files, and *)
(* `isConfig` for the first configuration and its ledger.                  *)
(*                                                                         *)
(* Left out: the units of systemd and their states, other than whether the *)
(* new shell stays active; partial copies, which are always followed by    *)
(* the step that completes or removes them; the migration of a             *)
(* configuration that exists, which is ConfigStore's and is not taken      *)
(* back; and failures of the cleaning after the mark, which the trap goes  *)
(* on with.                                                                *)
(***************************************************************************)
EXTENDS Naturals, FiniteSets

CONSTANTS MaxInstalls,        \* installers started
          MaxInstallKills,    \* kills and reboots
          MaxInstallTroubles  \* failing steps of a recovery

VARIABLES isLive, isStaged, isRoll,   \* the three names of the runtime
          isPayload, isConfig,        \* the other files that are installed
          isTxDir, isTx, isRecorded,  \* the transaction directory, the files in it, and the paths its manifest records
          isMode, isTimer, isDoes,    \* what a recovery is to do about the service: as recorded, by the timer, by the one that runs
          isActor, isPc, isFailed,    \* who holds the lock, where it is, and whether a step of its recovery failed
          isRetry,                    \* the recovery is for an installer that then goes on
          isFirst, isCommitted,         \* history: nothing was installed before, the mark was set and not taken back,
          isTorn, isUnhealthy,          \* a transaction was left half deleted or half taken back in spite of its mark, the
                                        \* new shell did not stay active,
          isInstalls, isKills, isTroubles   \* and what the bounds count
switchVars == <<isLive, isStaged, isRoll, isPayload, isConfig, isTxDir, isTx, isRecorded, isMode, isTimer, isDoes, isActor, isPc, isFailed,
                isRetry, isFirst, isCommitted, isTorn, isUnhealthy, isInstalls, isKills, isTroubles>>
isRuntime == <<isLive, isStaged, isRoll>>
isFiles == <<isPayload, isConfig>>
isTransaction == <<isTxDir, isTx, isRecorded>>
isWatch == <<isMode, isTimer, isDoes>>
isHistory == <<isFirst, isCommitted, isTorn, isUnhealthy, isInstalls, isKills, isTroubles>>

SwitchInit ==
    /\ isLive \in {"none", "old"} /\ isStaged = "none" /\ isRoll = "none"
    /\ isPayload = "old" /\ isConfig \in {"none", "old"} /\ (isLive = "none" => isConfig = "none")
    /\ isTxDir = FALSE /\ isTx = {} /\ isRecorded = {} /\ isMode = "inactive" /\ isTimer = "off" /\ isDoes = "inactive"
    /\ isActor = "none" /\ isPc = "off" /\ isFailed = FALSE /\ isRetry = FALSE
    /\ isFirst = (isLive = "none") /\ isCommitted = FALSE /\ isTorn = FALSE /\ isUnhealthy = FALSE
    /\ isInstalls = 0 /\ isKills = 0 /\ isTroubles = 0

Installing(pc) == isActor = "install" /\ isPc = pc
\* The trap of the installer and the recovery script take the same steps.
Undoing(pc) == isActor # "none" /\ isPc = pc
LockReleased == isActor' = "none" /\ isPc' = "off" /\ isRetry' = FALSE

------------------------------------
(* The transaction of the installer before this one *)
Complete == {"recover", "metadata"} \subseteq isTx
\* Without the mark of a mutation there is nothing to take back.
BeginClean ==
    /\ isActor = "none" /\ isInstalls < MaxInstalls /\ (isTxDir => "started" \notin isTx)
    /\ isActor' = "install" /\ isPc' = "reserve" /\ isInstalls' = isInstalls + 1
    /\ isTxDir' = FALSE /\ isTx' = {} /\ isRecorded' = {} /\ isStaged' = "none"
    /\ isRoll' = (IF isTxDir /\ isRoll = "empty" THEN "none" ELSE isRoll)
    /\ isTimer' = "off"   \* it finds no script
    /\ UNCHANGED <<isLive, isFiles, isMode, isDoes, isFailed, isRetry, isFirst, isCommitted, isTorn, isUnhealthy, isKills, isTroubles>>
BeginRecovering ==
    /\ isActor = "none" /\ isInstalls < MaxInstalls /\ isTxDir /\ "started" \in isTx /\ Complete
    /\ isActor' = "recover" /\ isPc' = "look" /\ isRetry' = TRUE /\ isFailed' = FALSE /\ isTimer' = "off" /\ isDoes' = isMode
    /\ isInstalls' = isInstalls + 1
    /\ UNCHANGED <<isRuntime, isFiles, isTransaction, isMode, isFirst, isCommitted, isTorn, isUnhealthy, isKills, isTroubles>>
\* An installer that runs inside the service it would have to restart leaves the recovery to a timer.
BeginQueues ==
    /\ isActor = "none" /\ isInstalls < MaxInstalls /\ isTxDir /\ "started" \in isTx /\ Complete
    /\ isTimer' = "restart" /\ isInstalls' = isInstalls + 1
    /\ UNCHANGED <<isRuntime, isFiles, isTransaction, isMode, isDoes, isActor, isPc, isFailed, isRetry, isFirst, isCommitted, isTorn, isUnhealthy, isKills, isTroubles>>

------------------------------------
(* install.sh *)

\* What is installed now is the old of this transaction.
Reserve ==
    /\ Installing("reserve") /\ isPc' = "stage"
    /\ isTxDir' = TRUE /\ isTx' = {} /\ isRecorded' = {} /\ isStaged' = "empty" /\ isRoll' = "empty"
    /\ isLive' = (IF isLive = "none" THEN "none" ELSE "old") /\ isPayload' = "old"
    /\ isConfig' = (IF isConfig = "none" THEN "none" ELSE "old")
    /\ isFirst' = (isLive = "none") /\ isCommitted' = FALSE /\ isUnhealthy' = FALSE /\ isTorn' = FALSE
    /\ UNCHANGED <<isWatch, isActor, isFailed, isRetry, isInstalls, isKills, isTroubles>>
\* The whole runtime is built, checked and described before anything that is installed changes.
Stage ==
    /\ Installing("stage") /\ isPc' = "arm"
    /\ isStaged' = "new"
    /\ isTx' = {"paths", "recover", "metadata"} \cup (IF isLive # "none" THEN {"present", "identity"} ELSE {})
    /\ UNCHANGED <<isLive, isRoll, isFiles, isTxDir, isRecorded, isWatch, isActor, isFailed, isRetry, isHistory>>
Arm ==
    /\ Installing("arm") /\ isPc' = "snapshot"
    /\ isMode' \in {"inactive", "restart", "deferred"} /\ isTimer' = isMode'
    /\ UNCHANGED <<isRuntime, isFiles, isTransaction, isDoes, isActor, isFailed, isRetry, isHistory>>
SnapshotPayload ==
    /\ Installing("snapshot") /\ isPc' = "payload"
    /\ isRecorded' = {"payload"} /\ isTx' = isTx \cup {"backups", "started"}
    /\ UNCHANGED <<isRuntime, isFiles, isTxDir, isWatch, isActor, isFailed, isRetry, isHistory>>
InstallPayload ==
    /\ Installing("payload") /\ isPc' = "rename" /\ isPayload' = "part"
    /\ UNCHANGED <<isRuntime, isConfig, isTransaction, isWatch, isActor, isFailed, isRetry, isHistory>>
\* A first runtime is renamed into place; later ones wait under the rollback name for the exchange.
RenameStaged ==
    /\ Installing("rename") /\ isStaged' = "none"
    /\ IF isLive = "none" THEN isLive' = isStaged /\ isPc' = "config" /\ UNCHANGED isRoll
       ELSE isRoll' = isStaged /\ isPc' = "exchange names" /\ UNCHANGED isLive
    /\ UNCHANGED <<isFiles, isTransaction, isWatch, isActor, isFailed, isRetry, isHistory>>
ExchangeNames ==
    /\ Installing("exchange names") /\ isPc' = "config" /\ isLive' = isRoll /\ isRoll' = isLive
    /\ UNCHANGED <<isStaged, isFiles, isTransaction, isWatch, isActor, isFailed, isRetry, isHistory>>
RecordConfig ==
    /\ Installing("config")
    /\ IF isConfig = "none" THEN isRecorded' = isRecorded \cup {"config"} /\ isPc' = "write config"
       ELSE isPc' = "finish" /\ UNCHANGED isRecorded
    /\ UNCHANGED <<isRuntime, isFiles, isTxDir, isTx, isWatch, isActor, isFailed, isRetry, isHistory>>
WriteConfig ==
    /\ Installing("write config") /\ isPc' = "finish" /\ isConfig' = "new"
    /\ UNCHANGED <<isRuntime, isPayload, isTransaction, isWatch, isActor, isFailed, isRetry, isHistory>>
FinishPayload ==
    /\ Installing("finish") /\ isPc' = "commit" /\ isPayload' = "new"
    /\ UNCHANGED <<isRuntime, isConfig, isTransaction, isWatch, isActor, isFailed, isRetry, isHistory>>
Commit ==
    /\ Installing("commit") /\ isPc' = "ready" /\ isTx' = isTx \cup {"committed"} /\ isCommitted' = TRUE
    /\ UNCHANGED <<isRuntime, isFiles, isTxDir, isRecorded, isWatch, isActor, isFailed, isRetry, isFirst, isTorn, isUnhealthy, isInstalls, isKills, isTroubles>>
\* install_ready=1: from here on the trap only cleans.  A deferred installation leaves the rest to the timer.
Ready ==
    /\ Installing("ready")
    /\ IF isMode = "deferred" THEN LockReleased ELSE isPc' = "delete done" /\ UNCHANGED <<isActor, isRetry>>
    /\ UNCHANGED <<isRuntime, isFiles, isTransaction, isWatch, isFailed, isHistory>>

\* rm -rf of the transaction: file by file, in the order of the directory.
Deleting == {"delete done", "delete undone", "delete cleaned", "delete committed"}
Delete(pc, next) ==
    /\ Undoing(pc)
    /\ IF isTx # {} THEN \E f \in isTx : isTx' = isTx \ {f} /\ UNCHANGED <<isTxDir, isPc>>
       ELSE isTxDir' = FALSE /\ isPc' = next /\ UNCHANGED isTx
    /\ UNCHANGED <<isRuntime, isFiles, isRecorded, isWatch, isActor, isFailed, isRetry, isHistory>>
DropOld ==
    /\ Installing("drop old") /\ isRoll' = "none" /\ isPc' = "disarm"
    /\ UNCHANGED <<isLive, isStaged, isFiles, isTransaction, isWatch, isActor, isFailed, isRetry, isHistory>>
Disarm ==
    /\ Installing("disarm") /\ isTimer' = "off" /\ LockReleased
    /\ UNCHANGED <<isRuntime, isFiles, isTransaction, isMode, isDoes, isFailed, isHistory>>

\* Any step before the mark may fail, and the trap takes over; a shell that does not stay active is one such failure,
\* a signal another.  One that comes between the mark and install_ready=1 has the trap take a marked release back.
InstallFails ==
    /\ isActor = "install"
    /\ isPc \in {"stage", "arm", "snapshot", "payload", "rename", "exchange names", "config", "write config", "finish", "commit", "ready"}
    /\ isPc' = "paths" /\ isFailed' = FALSE /\ isCommitted' = FALSE
    /\ UNCHANGED <<isRuntime, isFiles, isTransaction, isWatch, isActor, isRetry, isFirst, isTorn, isUnhealthy, isInstalls, isKills, isTroubles>>

------------------------------------
(* Recovery: the timer, and the steps of the script and of the trap *)
TimerFires ==
    /\ isTimer # "off" /\ isActor = "none" /\ isTimer' = "off" /\ isDoes' = isTimer
    /\ IF isTxDir /\ "recover" \in isTx THEN isActor' = "recover" /\ isPc' = "look" /\ isFailed' = FALSE
       ELSE UNCHANGED <<isActor, isPc, isFailed>>
    /\ UNCHANGED <<isRuntime, isFiles, isTransaction, isMode, isRetry, isHistory>>
\* Mutant of Marked: nobody asks for the mark.
MarkUnread == FALSE
\* After the mark there is only cleaning to do.
Marked == "committed" \in isTx
Look ==
    /\ Undoing("look") /\ isStaged' = "none"
    /\ isPc' = IF ~Marked THEN "paths" ELSE IF isDoes # "restart" /\ isLive # "none" THEN "clean old" ELSE "delete committed"
    /\ UNCHANGED <<isLive, isRoll, isFiles, isTransaction, isWatch, isActor, isFailed, isRetry, isHistory>>
\* The script knows the path of a configuration, but not that of its ledger, which is recorded with it.
KnownPaths == IF isActor = "install" THEN isRecorded ELSE isRecorded \ {"config"}
UndoPaths ==
    /\ Undoing("paths") /\ isPc' = "runtime"
    /\ LET listed == IF isActor = "install" \/ "paths" \in isTx THEN isRecorded ELSE {}
           undone == {k \in listed \cap KnownPaths : k = "config" \/ "backups" \in isTx} IN
       /\ isPayload' = (IF "payload" \in undone THEN "old" ELSE isPayload)
       /\ isConfig' = (IF "config" \in undone THEN "none" ELSE isConfig)
       /\ isFailed' = (isFailed \/ undone # listed)
    /\ UNCHANGED <<isRuntime, isTransaction, isWatch, isActor, isRetry, isHistory>>
\* Which tree is the original is told by its inode; without one, what was put in place is removed.
Original(tree) == "identity" \in isTx /\ tree = "old"
KeptRuntime == isRoll \notin {"none", "empty"}
HadRuntime == IF isActor = "install" THEN ~isFirst ELSE "present" \in isTx
UndoRuntime ==
    /\ Undoing("runtime")
    /\ IF ~HadRuntime THEN isLive' = "none" /\ isPc' = "tidy" /\ UNCHANGED <<isStaged, isFailed>>
       ELSE IF Original(isLive) THEN isPc' = "tidy" /\ UNCHANGED <<isLive, isStaged, isFailed>>
       ELSE IF Original(isRoll) \/ ("identity" \notin isTx /\ KeptRuntime)
            THEN isStaged' = (IF isRoll = "old" THEN "copy" ELSE isRoll) /\ isPc' = "exchange" /\ UNCHANGED <<isLive, isFailed>>
       ELSE isFailed' = (isActor = "recover" \/ isFailed) /\ isPc' = "tidy" /\ UNCHANGED <<isLive, isStaged>>
    /\ UNCHANGED <<isRoll, isFiles, isTransaction, isWatch, isActor, isRetry, isHistory>>
ExchangeBack ==
    /\ Undoing("exchange") /\ isPc' = "tidy" /\ isLive' = isStaged /\ isStaged' = isLive
    /\ UNCHANGED <<isRoll, isFiles, isTransaction, isWatch, isActor, isFailed, isRetry, isHistory>>
\* A recovery that failed in part keeps its backups; an installer that waited for it gives up.
Tidy ==
    /\ Undoing("tidy") /\ isStaged' = "none"
    /\ IF isFailed THEN LockReleased ELSE isPc' = "drop saved" /\ UNCHANGED <<isActor, isRetry>>
    /\ UNCHANGED <<isLive, isRoll, isFiles, isTransaction, isWatch, isFailed, isHistory>>
DropSaved ==
    /\ Undoing("drop saved") /\ isRoll' = "none" /\ isPc' = "delete undone"
    /\ isTimer' = (IF isActor = "install" THEN "off" ELSE isTimer)
    /\ UNCHANGED <<isLive, isStaged, isFiles, isTransaction, isMode, isDoes, isActor, isFailed, isRetry, isHistory>>
CleanOld ==
    /\ Undoing("clean old") /\ isRoll' = "none" /\ isPc' = "delete cleaned"
    /\ UNCHANGED <<isLive, isStaged, isFiles, isTransaction, isWatch, isActor, isFailed, isRetry, isHistory>>
\* The end of a recovery; an installer that waited for it goes on.
Resolved ==
    /\ isActor # "none" /\ isPc = "resolved"
    /\ IF isRetry THEN isActor' = "install" /\ isPc' = "reserve" /\ isRetry' = FALSE ELSE LockReleased
    /\ UNCHANGED <<isRuntime, isFiles, isTransaction, isWatch, isFailed, isHistory>>
\* A committed runtime that does not stay active is replaced by the one before it.
CheckHealth ==
    /\ Undoing("health")
    /\ \/ isDoes = "restart" /\ isRoll' = "none" /\ isPc' = "resolved" /\ UNCHANGED <<isLive, isUnhealthy, isActor, isRetry>>
       \/ /\ isDoes = "restart" /\ isUnhealthy' = TRUE /\ UNCHANGED isRoll
          /\ IF KeptRuntime THEN isLive' = "none" /\ isPc' = "fall back" /\ UNCHANGED <<isActor, isRetry>>
             ELSE LockReleased /\ UNCHANGED isLive
       \/ /\ isDoes # "restart" /\ UNCHANGED <<isLive, isUnhealthy, isActor, isRetry>>
          /\ isPc' = (IF isLive = "none" /\ KeptRuntime THEN "fall back" ELSE "resolved")
          /\ isRoll' = (IF KeptRuntime THEN isRoll ELSE "none")
    /\ UNCHANGED <<isStaged, isFiles, isTransaction, isWatch, isFailed, isFirst, isCommitted, isTorn, isInstalls, isKills, isTroubles>>
FallBack ==
    /\ Undoing("fall back") /\ isLive' = isRoll /\ isRoll' = "none" /\ isPc' = "resolved"
    /\ UNCHANGED <<isStaged, isFiles, isTransaction, isWatch, isActor, isFailed, isRetry, isHistory>>

\* One step of a recovery fails, and the next one is tried all the same.  With a mark in what is left, nobody takes the
\* rest back.
UndoFails ==
    /\ isActor # "none" /\ isPc \in {"paths", "runtime", "exchange"} /\ isTroubles < MaxInstallTroubles
    /\ isFailed' = TRUE /\ isTroubles' = isTroubles + 1 /\ isTorn' = (isTorn \/ "committed" \in isTx)
    /\ isPc' = IF isPc = "paths" THEN "runtime" ELSE "tidy"
    /\ UNCHANGED <<isRuntime, isFiles, isTransaction, isWatch, isActor, isRetry, isFirst, isCommitted, isUnhealthy, isInstalls, isKills>>
TakingBack == isPc \in {"paths", "runtime", "exchange", "tidy", "drop saved"}
\* A kill, or a reboot, which ends the timer, too.  An installer that is killed while it waits for a recovery leaves
\* it running, with the lock.
Killed ==
    /\ isActor # "none" /\ isKills < MaxInstallKills /\ isKills' = isKills + 1
    /\ isTimer' \in {isTimer, "off"} /\ isTorn' = (isTorn \/ (isPc \in Deleting /\ isTxDir) \/ (TakingBack /\ "committed" \in isTx))
    /\ \/ LockReleased
       \/ isRetry /\ isRetry' = FALSE /\ isTimer' = isTimer /\ UNCHANGED <<isActor, isPc>>
    /\ UNCHANGED <<isRuntime, isFiles, isTransaction, isMode, isDoes, isFailed, isFirst, isCommitted, isUnhealthy, isInstalls, isTroubles>>

SwitchNext ==
    \/ BeginClean \/ BeginRecovering \/ BeginQueues \/ Reserve \/ Stage \/ Arm \/ SnapshotPayload \/ InstallPayload
    \/ RenameStaged \/ ExchangeNames \/ RecordConfig \/ WriteConfig \/ FinishPayload \/ Commit \/ Ready \/ DropOld \/ Disarm \/ InstallFails
    \/ Delete("delete done", "drop old") \/ Delete("delete undone", "resolved") \/ Delete("delete cleaned", "resolved")
    \/ Delete("delete committed", "health")
    \/ TimerFires \/ Look \/ UndoPaths \/ UndoRuntime \/ ExchangeBack \/ Tidy \/ DropSaved \/ CleanOld \/ Resolved
    \/ CheckHealth \/ FallBack \/ UndoFails \/ Killed
SwitchSpec == SwitchInit /\ [][SwitchNext]_switchVars

------------------------------------
\* An installation that is not committed can be taken back: the runtime it found
\* is complete under one of the names, or a complete copy of it is in use.
OriginalSafe == ~isFirst /\ ~isCommitted => isLive \in {"old", "copy"} \/ isRoll = "old"

\* The runtime in use is never missing, not even between two steps, once there
\* is one; an unhealthy one is replaced in two steps.
RuntimeStays == ~isFirst /\ ~isUnhealthy => isLive # "none"

\* When nobody works and no transaction is left, all of the new release is
\* installed or all of the old one, whoever was killed where.
SettledWhole ==
    isActor = "none" /\ ~isTxDir /\ ~isUnhealthy =>
        IF isCommitted THEN isLive = "new" /\ isPayload = "new" /\ isConfig # "none"
        ELSE isPayload = "old" /\ isConfig # "new" /\ isLive \in (IF isFirst THEN {"none"} ELSE {"old", "copy"})

\* What is committed stays, unless the new shell does not stay active.
CommittedStays == isCommitted /\ ~isUnhealthy => isLive = "new"

\* A recovery fails only when one of its steps does, or when the ledger of a
\* first configuration is recorded, which the script does not know.
RecoveryWorks == isActor = "recover" /\ isPc = "tidy" /\ isFailed => isTroubles > 0 \/ "config" \in isRecorded

\* The deletion of a transaction is not atomic.  What a kill in the middle of it
\* leaves may look like a transaction that has to be taken back, to a script
\* that can no longer do so.  And a release that the trap takes back in spite of
\* its mark looks like one to be kept, when a kill or a failing step leaves the
\* trap's work half done.  Those two cases apart, all of this holds.
InstallHolds == isTorn \/ (OriginalSafe /\ RuntimeStays /\ SettledWhole /\ CommittedStays /\ RecoveryWorks)
=============================================================================
