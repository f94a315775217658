------------------------------ MODULE ConfigStore ------------------------------
(***************************************************************************)
(* The shell configuration and its migration history                       *)
(* (shell/scripts/config-migrations.py, config-write.py, config-repair.py).*)
(*                                                                         *)
(* One advisory lock serialises every cooperating writer, so at most one   *)
(* transaction is under way and `tx` is all the volatile state there is.   *)
(* A transaction is planned from what it reads and then carried out file   *)
(* by file.  An atomic write is two steps: the rename, which every reader  *)
(* sees at once, and the directory fsync, which makes it survive a power   *)
(* loss.  `onDisk` is what a power loss is sure to leave.                  *)
(***************************************************************************)
EXTENDS Naturals, Sequences, FiniteSets

CONSTANTS
  Values,          \* what the settings may hold
  SchemaVersion,   \* SCHEMA_VERSION; schema 0 is the unversioned document
  Missing, Broken, \* no file, and a file that is not a JSON object
  NoPlan,          \* no repair
  FirstConfigs,    \* configurations the program may find
  TransformFaults, \* whether a migration may fail
  MaxCalls,        \* bound: transactions and previews
  MaxKills,        \* bound: processes killed, or failed by an fsync error
  MaxLosses,       \* bound: power losses
  MaxEditorWrites  \* bound: changes by editors that ignore the lock

Config == [schema: 0..SchemaVersion, data: Values]
File   == Config \cup {Missing, Broken}
Steps  == 1..SchemaVersion

ASSUME ConfigAssumption ==
  /\ SchemaVersion \in Nat \ {0}
  /\ Missing \notin Config /\ Broken \notin Config /\ Missing # Broken
  /\ FirstConfigs \subseteq File
  /\ TransformFaults \in BOOLEAN
  /\ MaxCalls \in Nat /\ MaxKills \in Nat /\ MaxLosses \in Nat /\ MaxEditorWrites \in Nat
  /\ Values # {}

\* A ledger entry; `repair` marks history rebuilt by a repair.
StepEntry == [status: {"none", "pending", "applied", "failed"}, backup: File,
               repair: BOOLEAN]
StepLedger == [Steps -> StepEntry]
Plan   == [before: File, history: StepLedger, after: Config]
Backup == [step: Steps, config: Config]

ASSUME NoPlanAssumption == NoPlan \notin Plan

VARIABLES
  config,   \* config.json as readers see it
  ledger,   \* config-migrations.json; a missing file is an empty history
  journal,  \* repair-pending.json
  backups,  \* migration-backups/
  plans,    \* config-repairs/: plans whose token was handed out
  onDisk,   \* the part of this that is known to survive a power loss
  tx,       \* the transaction that holds the lock
  calls, kills, losses, editCount,
  acked,    \* history: the configuration last answered for, until replaced
  restored, \* history: the repair whose restoration is the latest change
  migrated, \* history: the documents migrations have replaced
  raced,    \* history: an edit came between the last check and the rename
  presumed  \* history: the last answer was that of a repair applied before, for a document that nobody had synced

counters == <<calls, kills, losses, editCount>>
history  == <<acked, restored, migrated, raced, presumed>>
vars == <<config, ledger, journal, backups, plans, onDisk, tx,
          calls, kills, losses, editCount, acked, restored, migrated, raced, presumed>>

------------------------------------
(* Documents and histories *)

NoEntry   == [status |-> "none", backup |-> Missing, repair |-> FALSE]
NoHistory == [i \in Steps |-> NoEntry]

Baseline(repair) == [status |-> "applied", backup |-> Missing, repair |-> repair]
FreshHistory     == [i \in Steps |-> Baseline(FALSE)]
RepairHistory    == [i \in Steps |-> Baseline(TRUE)]

Readable == config \in Config

\* The transform of a step, and of every step a candidate still needs.
Upgraded(c, i) == [c EXCEPT !.schema = i]

FreshConfig == [schema |-> SchemaVersion, data |-> CHOOSE v \in Values : TRUE]

------------------------------------
(* Transactions *)

Renames == {"backup", "pending", "applied", "failed", "baseline", "fresh", "config",
            "journal", "restore", "history", "unlink"}
Tasks   == Renames \cup {"check", "syncConfig"}
Tx      == [op: {"idle", "migrate", "patch", "repair"}, todo: Seq(Tasks),
            renamed: BOOLEAN, step: 0..SchemaVersion + 1, source: File, next: File,
            plan: Plan \cup {NoPlan}]

Idle == [op |-> "idle", todo |-> <<>>, renamed |-> FALSE, step |-> 0,
         source |-> Missing, next |-> Missing, plan |-> NoPlan]

\* A transaction takes the lock; what the code refuses changes nothing.
StoreLocked ==
  /\ tx.op = "idle"
  /\ calls < MaxCalls
  /\ calls' = calls + 1
  /\ UNCHANGED <<config, ledger, journal, backups, onDisk>>
  /\ UNCHANGED <<kills, losses, editCount>>
Begin == StoreLocked /\ UNCHANGED history

Doing(todo, next) ==
  [tx EXCEPT !.todo = todo, !.source = config, !.next = next]

\* apply_migrations: a missing configuration without history is created.
MigrateBegin ==
  /\ Begin
  /\ journal = NoPlan
  /\ UNCHANGED plans
  /\ \/ /\ config = Missing
        /\ ledger = NoHistory
        /\ tx' = [Doing(<<"config", "fresh">>, FreshConfig)
                    EXCEPT !.op = "migrate", !.step = 1]
     \/ /\ config # Missing
        /\ tx' = [Idle EXCEPT !.op = "migrate", !.step = 1]

\* _apply_step for a step whose entry is `e`, at a configuration of schema `s`.
\* The entry says applied: the step is done if the document agrees.
AlreadyApplied(e, s) ==
  /\ e.status = "applied" /\ s >= tx.step
  /\ tx' = [Idle EXCEPT !.op = "migrate", !.step = tx.step + 1]

KeptStep(e) == [step |-> tx.step, config |-> e.backup] \in backups

\* Mutant of Resumed: recorded without syncing the replacement.
ResumedUnsynced(e, s) ==
  /\ e.status = "pending" /\ KeptStep(e) /\ s >= tx.step
  /\ config = Upgraded(e.backup, tx.step)
  /\ tx' = Doing(<<"applied">>, config)

\* Pending and already replaced: believed only if the document is what the
\* transform makes of the backup.
Resumed(e, s) ==
  /\ e.status = "pending" /\ KeptStep(e) /\ s >= tx.step
  /\ config = Upgraded(e.backup, tx.step)
  /\ tx' = Doing(<<"syncConfig", "applied">>, config)

AtBaseline(e, s) ==
  /\ e.status = "none" /\ s >= tx.step
  /\ tx' = Doing(<<"baseline">>, config)

\* What is left once the pending entry is on disk.
LastTasks == {<<"check", "config", "applied">>}
          \cup (IF TransformFaults THEN {<<"failed">>} ELSE {})

RetriedStep(e, s) ==
  /\ e.status = "pending" /\ KeptStep(e) /\ s = tx.step - 1
  /\ e.backup = config
  /\ \E rest \in LastTasks : tx' = Doing(rest, Upgraded(config, tx.step))

\* A backup with this content is not written again.
Started(e, s) ==
  /\ e.status = "none" /\ s = tx.step - 1
  /\ \E rest \in LastTasks :
       LET first == IF [step |-> tx.step, config |-> config] \in backups
                      THEN <<"pending">> ELSE <<"backup", "pending">>
       IN tx' = Doing(first \o rest, Upgraded(config, tx.step))

StepTaken ==
  /\ tx.step <= SchemaVersion /\ Readable
  /\ LET e == ledger[tx.step]  s == config.schema IN
       \/ AlreadyApplied(e, s) \/ Resumed(e, s) \/ AtBaseline(e, s)
       \/ RetriedStep(e, s) \/ Started(e, s)

\* All steps done, or one that cannot be taken: the run ends.
StepRefused ==
  /\ \/ tx.step > SchemaVersion
     \/ ~Readable
     \/ tx.step <= SchemaVersion /\ Readable /\
        LET e == ledger[tx.step]  s == config.schema IN
          \/ e.status = "failed"
          \/ e.status = "applied" /\ s < tx.step
          \/ e.status = "pending" /\
               \/ ~KeptStep(e)
               \/ s >= tx.step /\ config # Upgraded(e.backup, tx.step)
               \/ s < tx.step /\ (s # tx.step - 1 \/ e.backup # config)
          \/ e.status = "none" /\ s < tx.step - 1
  /\ tx' = Idle

MigrateStep ==
  /\ tx.op = "migrate" /\ tx.todo = <<>>
  /\ StepTaken \/ StepRefused
  /\ UNCHANGED <<config, ledger, journal, backups, plans, onDisk>>
  /\ UNCHANGED <<counters, history>>

\* Mutant of Patch: a pending repair is ignored.
PatchDuringRepair(before, value) ==
  /\ Begin
  /\ UNCHANGED plans
  /\ Readable /\ config.schema = SchemaVersion
  /\ config.data \in {before, value}
  /\ tx' = [Doing(<<"check", "config">>, [config EXCEPT !.data = value])
              EXCEPT !.op = "patch"]

\* apply_patch: each setting must hold the value the client saw, or already the
\* new one; a replay that changes nothing still syncs.
Patch(before, value) ==
  /\ Begin
  /\ journal = NoPlan
  /\ UNCHANGED plans
  /\ Readable /\ config.schema = SchemaVersion
  /\ config.data \in {before, value}
  /\ LET next == [config EXCEPT !.data = value]
         todo == IF next = config THEN <<"check", "syncConfig">>
                                  ELSE <<"check", "config">>
     IN tx' = [Doing(todo, next) EXCEPT !.op = "patch"]

\* preview: a candidate is brought to the current schema and recorded together
\* with both originals; the user gets a token for the record.
Preview(candidate) ==
  /\ Begin
  /\ journal = NoPlan
  /\ plans' = plans \cup {[before |-> config, history |-> ledger,
                          after |-> Upgraded(candidate, SchemaVersion)]}
  /\ UNCHANGED tx

\* apply of a token whose result is there already: answered at once, and
\* nothing is synced.
RepairThere(plan) == journal = NoPlan /\ config = plan.after /\ ledger = RepairHistory
RepairAgain(plan) ==
  /\ StoreLocked
  /\ RepairThere(plan)
  /\ acked' = config
  /\ presumed' = (config # onDisk.config)
  /\ UNCHANGED <<plans, tx, restored, migrated, raced>>

\* apply of a token: before the journal exists both files must be what was
\* reviewed; afterwards each may be the original or the replacement.
RepairBegin(plan) ==
  /\ Begin
  /\ UNCHANGED plans
  /\ journal \in {NoPlan, plan}
  /\ ~RepairThere(plan)
  /\ config = plan.before \/ (journal = plan /\ config = plan.after)
  /\ ledger = plan.history \/ (journal = plan /\ ledger = RepairHistory)
  /\ tx' = [Idle EXCEPT !.op = "repair", !.plan = plan, !.next = plan.after,
             !.todo = <<"journal", "check", "restore", "history", "unlink">>]

------------------------------------
(* Carrying a transaction out *)

Task  == Head(tx.todo)
Onto  == [tx EXCEPT !.todo = Tail(@), !.renamed = FALSE]
Doable(tasks) == tx.todo # <<>> /\ ~tx.renamed /\ Task \in tasks

\* Mutant of Untouched: no last look.
NotLooked == TRUE

\* The last look at the file before it is replaced.
Untouched ==
  IF tx.op = "repair" THEN config \in {tx.plan.before, tx.plan.after}
                      ELSE config = tx.source

CheckSource ==
  /\ Doable({"check"})
  /\ tx' = IF Untouched THEN Onto ELSE Idle
  /\ UNCHANGED <<config, ledger, journal, backups, plans, onDisk>>
  /\ UNCHANGED <<counters, history>>

RenameConfig ==
  /\ Doable({"config", "restore"})
  /\ config' = tx.next
  /\ tx' = [tx EXCEPT !.renamed = TRUE]
  /\ acked' = Missing
  /\ restored' = IF Task = "restore" THEN tx.plan ELSE NoPlan
  /\ migrated' = IF tx.op = "migrate" /\ Readable
                   THEN migrated \cup {[step |-> tx.step, config |-> config]}
                   ELSE migrated
  /\ raced' = FALSE /\ presumed' = FALSE
  /\ UNCHANGED <<ledger, journal, backups, plans, onDisk, counters>>

Recorded(task) ==
  CASE task = "pending"  -> [ledger EXCEPT ![tx.step] =
                               [status |-> "pending", backup |-> tx.source,
                                repair |-> FALSE]]
    [] task = "baseline" -> [ledger EXCEPT ![tx.step] = Baseline(FALSE)]
    [] task = "fresh"    -> FreshHistory
    [] task = "history"  -> RepairHistory
    [] OTHER             -> [ledger EXCEPT ![tx.step].status = task]

RenameLedger ==
  /\ Doable({"pending", "applied", "failed", "baseline", "fresh", "history"})
  /\ ledger' = Recorded(Task)
  /\ tx' = [tx EXCEPT !.renamed = TRUE]
  /\ restored' = IF Task = "history" THEN restored ELSE NoPlan
  /\ UNCHANGED <<config, journal, backups, plans, onDisk, counters>>
  /\ UNCHANGED <<acked, migrated, raced, presumed>>

RenameJournal ==
  /\ Doable({"journal", "unlink"})
  /\ journal' = IF Task = "journal" THEN tx.plan ELSE NoPlan
  /\ tx' = [tx EXCEPT !.renamed = TRUE]
  /\ UNCHANGED <<config, ledger, backups, plans, onDisk, counters, history>>

RenameBackup ==
  /\ Doable({"backup"})
  /\ backups' = backups \cup {[step |-> tx.step, config |-> tx.source]}
  /\ tx' = [tx EXCEPT !.renamed = TRUE]
  /\ UNCHANGED <<config, ledger, journal, plans, onDisk, counters, history>>

\* Mutant of Sync: the directory of the backups is not synced.
SyncWithoutBackups ==
  /\ tx.todo # <<>>
  /\ tx.renamed \/ Task = "syncConfig"
  /\ onDisk' =
       CASE Task \in {"config", "restore", "syncConfig"} ->
              [onDisk EXCEPT !.config = config]
         [] Task = "backup" -> onDisk
         [] OTHER -> [onDisk EXCEPT !.ledger = ledger, !.journal = journal]
  /\ tx' = Onto
  /\ UNCHANGED <<config, ledger, journal, backups, plans, counters, history>>

\* fsync of the directory: whatever was renamed in it is there to stay.
Sync ==
  /\ tx.todo # <<>>
  /\ tx.renamed \/ Task = "syncConfig"
  /\ onDisk' =
       CASE Task \in {"config", "restore", "syncConfig"} ->
              [onDisk EXCEPT !.config = config]
         [] Task = "backup" -> [onDisk EXCEPT !.backups = backups]
         [] OTHER -> [onDisk EXCEPT !.ledger = ledger, !.journal = journal]
  /\ tx' = Onto
  /\ UNCHANGED <<config, ledger, journal, backups, plans, counters, history>>

\* The client of a write or a repair is answered.
FinishTx ==
  /\ tx.op \in {"patch", "repair"} /\ tx.todo = <<>>
  /\ tx' = Idle
  /\ acked' = config /\ presumed' = FALSE
  /\ UNCHANGED <<config, ledger, journal, backups, plans, onDisk, counters>>
  /\ UNCHANGED <<restored, migrated, raced>>

------------------------------------
(* Interruptions, editors and the specification *)

\* The process ends between two steps, or gives up because a file operation
\* failed.  The lock goes with it.
Kill ==
  /\ tx.op # "idle"
  /\ kills < MaxKills
  /\ kills' = kills + 1
  /\ tx' = Idle
  /\ UNCHANGED <<config, ledger, journal, backups, plans, onDisk>>
  /\ UNCHANGED <<calls, losses, editCount, history>>

\* The machine stops.  Of each rename that was not synced it is open whether
\* it survives.
PowerLoss ==
  /\ losses < MaxLosses
  /\ losses' = losses + 1
  /\ tx' = Idle
  /\ config' \in {config, onDisk.config}
  /\ ledger' \in {ledger, onDisk.ledger}
  /\ journal' \in {journal, onDisk.journal}
  /\ backups' \in {backups, onDisk.backups}
  /\ onDisk' = [config |-> config', ledger |-> ledger', journal |-> journal',
                backups |-> backups']
  /\ UNCHANGED <<plans, calls, kills, editCount, history>>

\* An editor that ignores the lock.
Edit(c) ==
  /\ editCount < MaxEditorWrites
  /\ editCount' = editCount + 1
  /\ c # config
  /\ config' = c
  /\ acked' = Missing /\ presumed' = FALSE
  /\ restored' = NoPlan
  /\ raced' = (tx.op # "idle" /\ Doable({"config", "restore"}))
  /\ UNCHANGED <<ledger, journal, backups, plans, onDisk, tx>>
  /\ UNCHANGED <<calls, kills, losses, migrated>>

Init ==
  /\ config \in FirstConfigs
  /\ ledger = NoHistory
  /\ journal = NoPlan
  /\ backups = {}
  /\ plans = {}
  /\ onDisk = [config |-> config, ledger |-> ledger, journal |-> journal,
               backups |-> backups]
  /\ tx = Idle
  /\ calls = 0 /\ kills = 0 /\ losses = 0 /\ editCount = 0
  /\ acked = Missing
  /\ restored = NoPlan
  /\ migrated = {}
  /\ raced = FALSE
  /\ presumed = FALSE

Plans ==
  \/ MigrateBegin
  \/ \E before, value \in Values : Patch(before, value)
  \/ \E candidate \in FirstConfigs \cap Config : Preview(candidate)
  \/ \E plan \in plans : RepairBegin(plan)
  \/ \E plan \in plans : RepairAgain(plan)

Carry ==
  MigrateStep \/ CheckSource \/ RenameConfig \/ RenameLedger \/ RenameJournal
    \/ RenameBackup \/ Sync \/ FinishTx

Next ==
  \/ Plans
  \/ Carry
  \/ Kill
  \/ PowerLoss
  \/ \E c \in FirstConfigs : Edit(c)

Spec == Init /\ [][Next]_vars

------------------------------------
(* Properties *)

TypeOK ==
  /\ config \in File
  /\ ledger \in StepLedger
  /\ journal \in Plan \cup {NoPlan}
  /\ backups \subseteq Backup
  /\ plans \subseteq Plan
  /\ onDisk \in [config: File, ledger: StepLedger, journal: Plan \cup {NoPlan},
                 backups: SUBSET Backup]
  /\ tx \in Tx
  /\ calls \in 0..MaxCalls /\ kills \in 0..MaxKills
  /\ losses \in 0..MaxLosses /\ editCount \in 0..MaxEditorWrites
  /\ acked \in File
  /\ restored \in Plan \cup {NoPlan}
  /\ migrated \subseteq Backup
  /\ raced \in BOOLEAN
  /\ presumed \in BOOLEAN

\* A step that the history records as applied is applied: no interruption and
\* no power loss leaves a record ahead of the configuration.  (An editor that
\* ignores the lock can write what it likes.)
AppliedIsReal ==
  editCount = 0 =>
    \A i \in Steps :
      ledger[i].status = "applied" => config \in Config /\ config.schema >= i

\* A document that a migration replaced is still the configuration (the power
\* failed) or is in its backup: whatever the power does, in processes that are
\* not killed and without an editor that ignores the lock.
OriginalKept == kills = 0 /\ editCount = 0 => \A b \in migrated : b \in backups \/ config = b.config

\* A configuration that was answered for survives every power loss until
\* somebody replaces it; a replay of a change counts as an answer.  The one
\* answer that may be lost is that of a repair which was applied before, when a
\* killed process left its result unsynced.
AckedIsDurable == editCount = 0 /\ acked # Missing /\ ~(presumed /\ kills > 0) => config = acked

\* A repair replaces configuration and history together: while its restoration
\* is the latest change and no journal says that it is under way, the history
\* is the rebuilt one.
NoHalfRepair ==
  restored # NoPlan /\ journal = NoPlan /\ config = restored.after
    => config = restored.before \/ ledger = RepairHistory

\* A repair interrupted by a power failure can always be resumed with its token.
RepairResumable ==
  kills = 0 /\ editCount = 0 /\ journal # NoPlan =>
    /\ journal \in plans
    /\ config \in {journal.before, journal.after}
    /\ ledger \in {journal.history, RepairHistory}

\* A repair is done as a whole, or can be: what a power failure interrupts is
\* resumed, and what says that it is done has both files.
RepairWhole == RepairResumable /\ NoHalfRepair

\* What somebody was told has happened: the record of an applied migration is
\* never ahead of the configuration, an answered change is there to stay, but for
\* the answer that AckedIsDurable names.
ToldIsReal == AppliedIsReal /\ AckedIsDurable

\* An interrupted migration can be resumed: the document is still the one that
\* was backed up, or what the step makes of it.
PendingResumes ==
  tx.op = "idle" =>
    \A i \in Steps : ledger[i].status = "pending" =>
      config \in {ledger[i].backup, Upgraded(ledger[i].backup, i)}

\* An edit is overwritten only if it came after the last look at the file.
EditsAreSeen ==
  [][RenameConfig /\ tx.source # Missing /\ ~raced => config = tx.source]_vars
=============================================================================
