# A formal model of nbshell

nbshell is a desktop shell for a Wayland compositor: a Quickshell/QML user interface, a command line
tool, a mail backend (omamail, in Rust), and a set of Python and shell helpers that change things that
must not be lost: the configuration, the installed system, the session lock, commits written by agents.
Much of the repository is presentation. This directory models the parts where concurrency, failure and
ordering decide whether the program is correct, in TLA+, checked with TLC on small instances and, for
most of them, proved with TLAPS for every instance.

Paths below are relative to the repository; `omamail/` stands for `plugins/omamail/src/`.

## 1. The system: components, state, interaction

### The shell and its helpers

| Component | Source | State it keeps | Operations | Hard behaviour |
| --- | --- | --- | --- | --- |
| configuration store | `shell/scripts/config-{migrations,write,repair}.py` | `config.json`, migration ledger, repair journal, backups, repair plans | migrate, patch, preview, repair | killed between two of several file replacements, power loss before a directory sync, replayed writes, editors that ignore the lock |
| Hermes transaction jobs | `resources/hermes-jobs/manager.py` | a record and a lock per job, worker and reviewer processes, the source repository | create, work, review, list, apply, install, push, reject, trim | many short-lived processes meeting only in files, processes dying between two lock sections, records read as stale, two jobs on one repository |
| update coordinator | `shell/scripts/update-coordinator.py` | lock file, transaction record, the worker that runs | run, retry, stop | killed coordinators, failing saves, installers that outlive their parent without the lock |
| tree installation | `shell/scripts/install-tree-transaction.py` | files under a prefix, a temporary backup | replace leaf by leaf, roll back | an interrupt between a move and its note, a rollback that fails |
| installer and recovery | `install.sh`, `bin/nbshell-install-recover` | staged, live and rollback runtime, transaction directory, timer | install, commit, trap, recover | kills and reboots between any two steps, three actors that may recover |
| lock before sleep | `shell/scripts/{sleep_lock_inhibitor,lockscreen}.py`, `systemd/nbshell-lock.service`, `shell/lock/shell.qml` | delay inhibitor, unit of the locker, marker of a confirmed lock | prepare, lock, resume, suspend | unit and marker read one after the other while lockers come and go |
| Hermes broker and teams | `resources/hermes-jobs/` | tokens, team records | authorise, chain jobs | not modelled |
| update workers | `shell/scripts/{nbshell-update,umbriel-update}.py`, `updates.sh` | staged builds | install | seen by the coordinator as an exit code |
| phone authentication | `auth/nbshell_phone_auth.py` | pairings, one PAM conversation | pair, ask, answer | not modelled |
| user interface | `shell/` (QML) | presentation state | | not modelled |

### omamail

| Component | Source | State it keeps | Hard behaviour |
| --- | --- | --- | --- |
| outbox | `omamail/outbox/` | queue in memory and in `outbox.json`, write sequence numbers, workers, lease | calls dropped in the middle of a save, orphaned blocking writes that land late, crash between claim and outcome, shutdown racing workers |
| backend session | `omamail/backend/{protocol,rpc,stdio,upload}.rs` | frames, queues, requests under way, uploads | reader, dispatcher and writer over small queues while the input ends or the peer goes; locks held across awaits |
| mail watches | `omamail/sync/` | table of watches, their loops, warm jobs, event queue | watch, unwatch, check, registry poll and shutdown on one table across awaits |
| caches | `omamail/cache/` | query stores with debounced saves, body and resource files under one budget, rendered messages | blocking writes that cancellation does not stop, eviction beside changes, crashes inside a replacement |
| message reader | `omamail/backend/{reader,content}.rs` | open messages, tombstones of cancelled opens | a cancelled future whose thread goes on |
| assistant | `omamail/agent/` | job table, worker processes, context reads, event stream | workers that die or are older than the program, cancellations that come first |
| accounts | `omamail/account/` | registry file, optimistic actions, unified list, conversations | concurrent saves of one revision, actions settling in any order |
| actions, listings, sending | `omamail/mail/`, `omamail/backend/mail.rs` | chunks of an action, pages, a message on its way to the lease owner | replies lost after the provider acted, attachments that change, the owner of the lease changes |
| Gmail | `omamail/providers/gmail*.rs` | session, grant, queue of writes, token bucket | logout, a refused grant and the drainer at once; debt of cancelled callers |
| JMAP | `omamail/providers/jmap/` | contexts, three caches, event stream, credential policy | a change cut off between two chunks, a session document that names other origins |
| IMAP | `omamail/providers/imap/` | connection pool, folder cache, cancelled reads | cancelled at any await with an answer under way; chains of commands cut off |
| HEY | `omamail/providers/hey*.rs`, `process/async_run.rs` | signed-in user, flags given up | who is signed in changes between two calls; pipes that fill |
| sign-in | `omamail/auth/`, `omamail/credentials/` | lanes of token exchange, keyring, browser flows | a rotation that is stored after a sign-out |
| parsing, platform, Outlook, CLI | `omamail/{message,compose,calendar,contacts,platform,...}` | none, or files of the platform | not modelled |

### How they interact

The interface talks to the backend in frames (`BackendSession`). A request reaches the watches, the
caches, the reader, the assistant, the accounts or the outbox, and through them a provider's client.
The services of the backend share three locks across awaits with its shutdown, which is why
`BackendSession` models them as one lock that a request may hold; beyond that each keeps its own state,
and each is modelled alone with everything that others may do to it as actions of its environment.
`MailSend` joins the sender with the outbox through the lease, and `Outbox` implements the abstract
`MailQueue`. The configuration store is used by the shell, the plugin helpers, the command line and the
installer under one advisory lock. The update coordinator starts workers that use the tree transaction
or the installer. Hermes jobs are started by the Agent Center and the broker and meet the user's
repository through git. The lock before sleep is shared by a daemon, a command, systemd and the
compositor, which meet in the state of a unit and in a marker file.

### What makes each correct

* *Outbox and sending*: a message is handed to the provider at most once, whatever fails; what is said
  of a message is true; what was acknowledged stays; nothing starts sending after a restart.
* *Configuration*: history never runs ahead of the document; an original is never lost; an answered
  change survives; two files are replaced together or not at all.
* *Hermes jobs and assistant jobs*: only approved work reaches the repository; the record says what
  happened; a dead process never holds a job or a place for ever; limits hold.
* *Updates and installation*: one installer at a time; a record that is true; what was cut off is whole
  or can be taken back, and what was committed stays.
* *Lock*: "secure" is said of a locked session; a sleep waits for the decision.
* *Backend services*: nobody checks an account twice; nothing late shows; nothing changed is lost; every
  store keeps to its limit; every accepted request is answered once.
* *Providers*: what is reported happened; no credential goes to another origin; a session that was
  replaced or left does not come back.

## 2. Modules

Each module models one component: state, one action per operation or step of one, the next-state
relation, the properties. Its header names the sources and what is left out, and the comments of its
properties the behaviour they are about. Operators called "Mutant of X" stand next to the definition X
they distort: each is a plausible mistake in that piece of code, kept to show that a property notices
it; no action uses them. PROJECT.json lists one of them for each property a run checks.

| Module | What it is |
| --- | --- |
| `Outbox`, `OutboxInv`, `OutboxProofs` | the outbox of one owner; its inductive invariant in named parts; its theorems |
| `MailQueue` | abstract specification of the outbox (per account a line of messages: join at the end, leave from anywhere, deliver from the front, once); the refinement mapping is in `OutboxInv` |
| `ConfigStore` | configuration, history, journal and backups with their writers |
| `HermesJobs`, `HermesInv`, `HermesProofs` | job records, the processes that meet in them, and the repository; invariant; theorems |
| `UpdateCoordinator`, `InstallTree`, `InstallSwitch`, `SleepLock`, `ShellProofs` | the helpers of the shell and their invariants; theorems of these four and of `ConfigStore` |
| `BackendSession`, `Uploads` | the process of the backend; large parameters |
| `MailSync`, `QueryCache`, `CacheFiles`, `MailReader` | watches, query stores, files and rendered messages, open messages |
| `AgentJobs`, `AnswerStream` | jobs of the assistant; its context reads, its event stream, and the view of the jobs |
| `AccountViews` | `accounts.json`; optimistic actions, the unified list, conversations |
| `MailActions`, `MailSend` | actions in chunks and listings; from composing to the owner of the lease |
| `GmailQueue`, `GmailRequests` | session and queue of one account; retries, draft search and the quota |
| `JmapMail`, `JmapCompose`, `JmapPush`, `JmapSession` | reads, changes and pages; drafts and sends; push; sign-in state and where a credential goes |
| `ImapConnections`, `ImapPages`, `ImapChanges` | pool, folders and cancelled reads; pages and summaries; chains of changes |
| `HeyMail` | the HEY program: who is signed in, calls, lists, and a run with its pipes |
| `SignIn` | token lanes, keyring and browser flows |
| `MailProofs` | theorems of watches, query cache, session, uploads, assistant and IMAP connections, each of its own specification |
| `Ranks` | a set of numbers from the highest or the lowest, the places picked from a list, what is left of it without its oldest, the sum of amounts: definitions by counting, with the lemmas about them |
| `StoreProofs` | theorems of what keeps lists and files: changes and pages of IMAP, the files and rendered messages, the reader, the registry, the assistant's rows, the unified list, optimistic actions |
| `ServiceProofs` | the promises of all services side by side, as the run `services` checks them |
| `ProviderProofs` | theorems of sign-in, sending, JMAP, Gmail, actions and listings, HEY and its runs, and of all clients side by side |
| `MCOutbox`, `MCConfigStore`, `MCHermesJobs` | small instances |
| `MCServices`, `MCProviders`, `MCServicesLive` | small instances of many components side by side |

The last three check components that share no state. The variable `part`, fixed from the start, says
which component a behaviour is about; the others stay where they began (`Rest`), and in one of their
initial states only (`OneStart`); the optimistic lists begin with all mail unread but, at most, the other
member of the conversation, and their theorems are of every start. A property there is a conjunction of the properties of the components
it names, and TLC explores the sum, not the product, of their states. The proofs do not use `part`: the
theorems about all of them are of `ServicesSpec` and `ProvidersSpec`, where every component moves freely.

### Outbox

The mutex around `State` (`mod.rs:33`) is held across every save, and a save is a blocking task that
goes on when the future that started it is dropped. The model therefore splits an operation that
saves into three steps: it takes the lock and hands its copy of the queue to a write (`Save`), the
write runs (`WriterCommit`, `WriterSkip`, `WriterFail`), the operation sees the result and lets go
(`LoadDone`, `SnapshotDone`, `CommitSaved`, `CommitFailed`, `ClaimSaved`, `ClaimFailed`,
`SettleDone`, `StopDone`). `CallDropped` (the five-second limit of `ipc.rs:28`, or the listener going
away) and `AbortWorker` (shutdown) let go of the lock without the result and leave the write behind
in `writes`; it may run at any later time, in any order with others, and only the sequence check in
`storage.rs:77` keeps it from overwriting newer state. `WriterFail(w, TRUE)` is the replacement that
succeeded although the directory sync failed.

An entry keeps what the properties tell apart: its state, the digest of its body, whether the payload
is still there, whether it was acknowledged, whether its undo delay is on, and its place in the list.
`pos` is an index into the vector, which only ever grows at its end. The provider is the variable
`wire`: it may accept or refuse a submission at any time after it was made, also after the executor
or the whole process is gone. `Restart` is a crash or an exit at any point; what is in memory is lost,
writes that have not run are lost, the file stays.

Departures from the code, each a superset of its behaviour unless said otherwise: loading is a call
of its own and not the first part of another call; undo takes any queued entry of the account and
not only the newest; dropping the outbox without a shutdown is a crash; revisions, change events, the
cap on finished entries (`MAX_ENTRIES`) and account validation are left out. A power loss that undoes
an already successful rename is not modelled for the outbox.

### ConfigStore

All cooperating writers take one `flock` for the whole transaction, so there is at most one
transaction, `tx`, and it is the only volatile state. It is planned from what it reads
(`MigrateBegin`/`MigrateStep`, `Patch`, `Preview`, `RepairBegin`, with the guards of the code's early
returns; `RepairAgain` is the apply of a token that finds its result there and answers at once) and then carried out as the list of file operations that the code performs, in its order:
`todo` is that list. An atomic write (`config-migrations.py:91`) is two steps. The rename is what
readers see; the directory sync is what survives a power loss, and `onDisk` is the part known to
survive. `Kill` ends the transaction anywhere; `PowerLoss` ends it and decides for each file
separately whether a rename that was not synced survives; `Edit` is an editor that ignores the lock,
at any time. The tasks `"check"` are the re-reads before a replacement, `"syncConfig"` is the sync
without a replacement of a replayed change or a resumed migration.

Documents are a schema number and one abstract setting; a migration changes the schema and keeps the
setting. The ledger keeps status, backup and the repair mark of each step; times and checksums are
left out, as are damaged backups, digest collisions and hand-edited ledgers. The plugin helpers'
writes are patches whose expected value is the present one. `update_config(create=True)` is a
migration followed by a patch. A repair plan is durable before its token is handed out, so plans
are never lost. `status` and `inspect` only read.

### HermesJobs

Nothing runs permanently. Each command (`create`, `review`, `apply`, ...) and each background process
(`worker`, `review-worker`) is one element of `proc`; `at` is the name of its next step and `job` the
record it works on. A section under a job's lock is one action (`Register`, `WorkerBoot`,
`WorkerRuns`, `WorkerDone`, `Verdict`, ...), because nobody else can see its middle; the work between
two sections, which takes minutes, is the gap between two actions, and everything may happen there:
a list, a reject, a trim, the death of the process (`Kill`). Two commands hold a lock over several
steps that others can observe: `create` holds the admission lock while it refreshes and counts
(`Admit`) and then writes the record and trims (`CreateWrite`), and `apply` holds the job's lock while
it works on the user's repository (`CheckBase`, `Fetch`, `Pick`, `ApplyRecord`), where a second apply
of another job can interleave. `head` is what applies have put on the branch, `fetched` is
`FETCH_HEAD`.

A record keeps its status, author, base revision, the process registered for it (`pid`, or the
launching command before that) and the latest review row of each provider. A pid is never reused:
the code compares start times, which is what makes that sound. `litter` is the set of directories
without a record, which taking the lock of an unknown id leaves behind (`Look`, `Lost`) and at which
every later list ends.

Departures: install and push hold the lock while an external command runs, and are one action
(`Release`); commits that the user makes are left out (they can only make `CheckBase` fail); the
content of the review, the diff and the logs is left out; `worker`'s check of a foreign pid in the
record cannot fail, since only the launcher registers a pid, and has no action.

### The helpers of the shell

*UpdateCoordinator.* The coordinator is a program counter over the rows of its record. A save either
replaces the record or ends the workflow; a worker inherits the lock, an installer it starts through
sudo does not (`holds`), and the coordinator waits for all of its run before it judges a row. `upDirty`,
`upKept` and `upLate` are history. *InstallTree.* The leaves one after the other, each moved to the
backup, noted and replaced; an error or an interrupt may come between any two of these, and in the
rollback. *InstallSwitch.* The runtime goes through three names, and its content is told relative to
the transaction: "old", "copy" of it in another inode, "new". Three actors may take an interrupted
installation back: the installer's trap, the timer and the next installer. The mark and `install_ready=1`
are two steps; a signal between them has the trap take a marked release back. *SleepLock.* Whoever looks
reads the unit, then the marker, and acts on both; `slSeen` says whether the session was locked at any
time since it began to look. logind, systemd and the compositor are modelled as they are used: no
inhibitor is given while a sleep is on its way, a sleep waits for the inhibitor but not for ever, a
session stays locked when its locker dies.

### The services and providers of omamail

What the modules share: a future that may be dropped at any await is a step per await with a drop
beside it; a blocking write that a dropped future leaves behind is an element of a set of its own, which
lands at any later time; a network call is two steps, or one that is applied, refused, or applied with
its answer lost; contents are version or serial numbers, and a size where a budget is about it. Servers
and other programs change between any two steps.

## 3. What is checked

Every passing run finishes in about two minutes on two workers. `CHECK_DEADLOCK FALSE` is set where
every counter has a bound (calls, faults, restarts, transactions, processes): the model stops when they
are used up, as a user stops calling.

| Run | Instance | Properties |
| --- | --- | --- |
| `outbox_faults` | 1 account, 2 sends, 1 body; failing saves, a directory sync that fails after the rename, orphaned writes, 1 restart | `IInv` (type correctness included), `AttemptedOnce`, `OutcomesAreTrue`, `NoResume`, `FinishedStays`, the refinement `ImplementsMailQueue` |
| `outbox_accounts` | 2 accounts, 1 send each, with and without an undo delay, 2 bodies for one id, room for 1 recoverable payload, faults, 1 restart | `PromiseKept`, `ToldIsDurable`, `PoolHolds` (the limit, and one worker per account with work) |
| `config_safe` | 5 transactions, 2 migration steps that may fail, 2 kills, 1 power loss, 1 uncooperative edit | `OriginalKept`, `RepairWhole`, `ToldIsReal`, `EditsAreSeen` |
| `hermes_safe` | 2 jobs, 2 providers, 6 processes, 1 early death, cap 1, room for 1 | `IInv` (with the admission limit), `WorkerOwnsJob`, `OnlyApproved`, `AppliedStays` |
| `services` | 22 instances of the backend's services, the IMAP client and the helpers of the shell | see below |
| `providers` | 14 instances of the other clients and sign-in | see below |
| `services_live` | outbox, Hermes jobs, watches, session, assistant jobs and Gmail queue, each as fair as its module says | `OutboxDrains`, `CallsReturn`, `EveryJobSettles`, `TicketsSettle` |
| `config_pending`, `hermes_race`, `hermes_stuck`, `install_killed`, `signout_races` | the paths that matter | one violated property each: section 6 |

The properties of `services`:

* `LoopsOwned` - one loop checks an account, and none goes on unowned.
* `NoLostChange` - what a window changed in the query cache is in memory or on disk as long as the owner
  of the store is, through evictions, prefetches and failing saves.
* `StoresBounded`, `StoresKeep` - limits hold through evictions, refusals and crashes; an old file stays
  until its replacement is there, the oldest go first, a save of the registry takes no account of
  another process with it.
* `NothingLate` - results never go back, a cancelled warm job writes no page, nothing follows the answer
  to a quit.
* `RequestsWhole` - every frame is answered once, on the whole of what was uploaded for it.
* `AssistantKept`, `AgentHistory` - limits of the jobs, "done" has its answer, a cancelled read stays so,
  a job that ended stays as it ended, earlier turns are not rewritten.
* `RowsAreTrue`, `RowsForward` - optimistic rows come to what the server says, a refusal changes its own
  rows only, scrolling appends.
* `ImapConnected`, `ImapTrue` - an answer is that of its own command, folders are no older than an
  answered change, pages lose and repeat no message, a chain of changes that is cut off loses no mail.
* `HelpersHold` - `UpdatesHold`, `TreeHolds`, `SleepLockHolds`.
* `InstallHolds` - an installation that ended left all of the new release or exactly the old one, and one
  that was cut off can be recovered.

The properties of `providers`: `GmailOrdered` (order, one refresh per lost grant, the quota, the time of
a call), `MailReported` (what an action reports happened, also through HEY's program), `SendOnce`,
`JmapTrue` (changes, drafts, pages, push, credentials), `SessionsOver`.

Exceptions are part of the properties where the code makes them, and each says so at its definition: the
kill or editor that `OriginalKept` and `ToldIsReal` do not survive (section 6), an interrupt in the gap of
`InstallTree` and a rollback that fails in turn, installers of killed coordinators, a transaction half
deleted, or half taken back in spite of its mark, and an unreadable ledger in `InstallSwitch`, a locker that has just let the user in, a dropped caller's
late write in `SignIn`.

Why the bounds are enough to mean something:

* *Two sends of one account* are what order, a stranded queue and a late save need; *two accounts* are
  what workers that share one lock need; the two are in separate runs because their product is not
  small. One restart separates a first process from a second that has only the file; a third starts from
  a file like the second's.
* *Two kills and a power loss* let one interruption hit the recovery from another. Five transactions are
  a migration, an interruption, its resumption and two more writers; with five, a repair applied before
  is found again unsynced (section 6). A missing first configuration is
  left out of this instance: a kill and a power loss that undoes the creation leave a record ahead of
  nothing, which loses nothing.
* *Six processes* are a create, its worker, a review, its reviewer, an apply and one more. A cap and a
  room of one make admission and trimming happen at once. `hermes_race` needs ten processes; the
  constraint `Smooth` keeps its search to the paths on which every job succeeds, which only narrows the
  search for a counterexample. Jobs and providers are interchangeable in the safety run, which therefore
  uses symmetry; liveness does not.
* In the suites every queue, pool and budget has room for one or two and at least one candidate more, so
  that it is full, refused and emptied; every cancellable operation has a second one beside it; a
  counter (generations, revisions, signals) goes two or three up, so that something old is still there.
  Upgrades of the program under a running assistant job are in `services_live` only, an IMAP server that
  sends garbage in neither: it ends the connection, as a refusal does.
* Sign-in is checked with the changes of the keyring made under the lane (`LaneNext`), as `auth.store` and
  `auth.clear` do; the road around it, which the interface takes, is `signout_races`.

For every property there is a mutant of a definition with which TLC finds the property violated.

### Fairness

*Outbox*: tokio's mutex is first come, first served, so a step that waits for it is strongly fair in
`FairSpec`; in `services_live` calls are bounded and weak fairness says the same; a blocking write that
was started ends; a clock tick ends an undo delay; the sixty-second limit ends a submission; storage
works, since with a failing save the property does not hold (section 6). *HermesJobs*: every git, agent
and launch step has a time limit in the code and its process exists, so each process goes on
(`Step`); the Agent Center lists the jobs again and again, and a list that no directory without a record
ends reaches each of them (`ListReaches`). *MailSync*: the poll, the delivery of events, the end of an
operation and each loop's next step, which are timers and ready tasks of one runtime. *BackendSession*:
the session's own tasks (`SessionProgress`), not the peer: `SessionEnds` asks for an end only while the
peer reads or has closed. *AgentJobs*: the worker's steps, each under the limit of its process, and the
interface's repeated listing. *GmailQueue*: readers, the drainer and the sweep; a request has its time
limit. No fairness is assumed of users, servers, failures or restarts. *ConfigStore* and the helpers of
the shell have no liveness property: nothing there runs unless called.

## 4. What is proved

Each theorem is for every value of the constants that the named assumption of its module allows, and for
behaviours of any length. Every invariant was checked by TLC before it was proved.

### Outbox (`OutboxProofs`)

`TypeCorrect` is the type invariant. `Inductive` is `Spec => []IInv`, with `IInv` from `OutboxInv`. None
of the safety properties is inductive alone, because a write that its caller gave up may still replace the
file much later. `IInv` is `CoreInv`, `CopiesInv`, `LineInv` and `OneWorker`. The idea of `CoreInv` is to
call a copy of the queue *live* while it may still become what the outbox or a successor believes: memory,
the file, and every write whose sequence is above the last committed one. Every live copy must fit what
really happened to each send (`Fits`, `LiveInv`), agree with memory (`AgreeInv`), and a write stops being
live only by being overtaken by a newer one that is on disk (`WriterInv`); `LockInv` says what the copy in
flight is relative to memory, `WorkerInv` that a worker that delivers holds the one entry it claimed. The
proof has one lemma per operation (`CallInv`, `WorkInv`, `StopInv`, `ReturnInv`, `WriterStep`,
`EnvironmentInv`), on top of lemmas that say what each rewriting of the queue preserves (`SoundFlushed`,
`SoundAbandoned`, `RecoverClosed`, ...). `CopiesInv` adds the limits, and not only of memory and the file:
a write that was given up can become the file too, so every copy on its way keeps to them. `LineInv` adds
the order: a call that saves takes messages out of the line or puts one at its end, and a claim is of the
first of its account, which is what the steps of `MailQueue` are. From `IInv` follow:

| Theorem | Statement |
| --- | --- |
| `DeliveredAtMostOnce` | `Spec => []AttemptedOnce` |
| `OutcomesHonest` | `Spec => []OutcomesAreTrue` |
| `AcceptedIsKept` | `Spec => []PromiseKept` |
| `AnswerIsDurable` | `Spec => []ToldIsDurable` |
| `NothingResumes` | `Spec => NoResume` |
| `FinishedIsFinal` | `Spec => FinishedStays` |
| `LimitsHold` | `Spec => []PoolHolds` |
| `Refines` | `Spec => ImplementsMailQueue`: every step is a step of `MailQueue` or leaves its line as it is |

### HermesJobs (`HermesProofs`)

`TypeCorrect` is the type invariant. `Inductive` is `Spec => []IInv`, with `IInv` from `HermesInv`. The
properties need it because almost every section rereads a record that others may have changed since,
or that is gone. What makes the late ones harmless is who can still be on a job:

* until the worker is started, its creator is alone on the job (`CreateInv`, `LaunchInv`), so the
  write of a "failed" without looking at the status (`manager.py`, the error path of `create`) hurts
  nobody;
* while a job is applied, its record is the reviewed one that was read or has been trimmed away
  (`ApplyInv`), so writing the copy back overwrites nothing;
* reviews in a record are never by its author, and an approval in it is in the history (`ReviewInv`),
  also in the copy that apply holds; with it, what `FETCH_HEAD` and the branch hold is approved
  (`CommitInv`);
* a process between the count and the write has a free place (`AdmissionInv`); a worker at work is
  the one its record names (`WorkerOwnsJob`), so counting records counts workers.

The proof has one lemma per action. Sections under a job's lock share `SectionInv`, which says what
such a section may make of the record (`Allowed`), and that rests on `LocalInv`, about steps that
touch one job; lists, alone or inside an admission, share `ListInv`.

| Theorem | Statement |
| --- | --- |
| `WorkersOwn` | `Spec => []WorkerOwnsJob` |
| `Bounded` | `Spec => []WorkersBounded` |
| `ApprovedOnly` | `Spec => []OnlyApproved` |
| `Applied` | `Spec => AppliedStays` |

### ConfigStore (`ShellProofs`)

`TypeCorrect`, and `Inductive` for `StoreInv`. The store is hard to prove about because the file that
readers see, the part of it that survives a power loss and the list of what the open transaction still
has to do are three accounts of one history. `StoreInv` ties them: `TxInv`, `MigrateInv`, `PatchInv` and
`RepairInv` say, for each kind of transaction, what the rest of its list still does; `SyncInv` that
whatever is not yet durable is about to be synced or belongs to a killed transaction; `BackupInv` and
`ResumeInv` that a backup precedes the replacement it is for; `SeenInv` that a replacement is preceded by
a look, unless an editor came in between; `AckInv` that a change is answered only after the directory
sync, or, a repair applied before, after a kill; `HalfInv` that while a restoration is the latest thing in a history, the rebuilt history or the
journal is on disk. `ToldTruly` needs two more, `RecordInv` and `FoundInv`: a step is recorded as applied only
when the configuration on disk reaches it, because a pending entry or a journal explains any lag.

| Theorem | Statement |
| --- | --- |
| `Originals` | `Spec => []OriginalKept` |
| `Repairs` | `Spec => []RepairWhole` |
| `Answers` | an answered change survives, without uncooperative edits, but for a repair applied before and found unsynced after a kill |
| `EditsSeen` | `Spec => EditsAreSeen` |
| `ToldTruly` | `Spec => []ToldIsReal`, where there was a configuration to begin with |

### The helpers of the shell (`ShellProofs`)

`SleepIsSafe == SleepSpec => []SleepLockHolds`. The invariant says what each place of the daemon and of
the command may still conclude: as long as no lock was seen there is none, and once the unit was found
active without one there is no marker either, because systemd removes the marker before it starts a
locker (`DaemonInv`, `CommandInv`, `MarkerInv`); the last signal on its way says what the machine does
(`SignalInv`); and a sleep that waits for the daemon goes through three stages (`GuardInv`).

`TreeIsSafe == TreeSpec => []TreeHolds`, for any number of leaves and errors. The list of notes is the
leaves in their order (`NotesInv`); on the way forward everything before the present leaf is new and
saved (`ForwardInv`), on the way back everything after the notes is as it was (`BackwardInv`).

`UpdatesAreSafe == UpdateSpec => []UpdatesHold`. What runs belongs to the present row or to a killed
coordinator (`PeopleInv`); the coordinator's copy runs ahead of the record only between a change and its
save, and never forgets a completed row (`CopyInv`); a partial failure of the present row is known to its
judge (`TruthInv`); a stop is seen before the next row (`OrderInv`).

`InstallIsSafe == SwitchSpec => []InstallHolds`, for any number of installations, kills and troubles. Each
part of `SwitchInv` is about one stage: without a transaction all is old or all is new (`ClearInv`); before
the mark of the commit everything that was replaced is recorded, and the old runtime is in use or kept
(`OpenInv`); what the installer has done (`DoingInv`) and what an undo has restored (`UndoneInv`) is told by
where they are; after the mark all is new, and the mark is the last to go (`DoneInv`). `isTorn` is the
exceptions of section 6: a deletion, or the undo of a marked release, that was cut off.

### The services of omamail (`MailProofs`, `StoreProofs`, `ServiceProofs`)

`MailProofs` proves each component on its own, from its own specification.

| Theorem | Statement | Why it holds |
| --- | --- | --- |
| `LoopsAreOwned` | `SyncSafety => []LoopsOwned` | generations are given once (`NewestInv`); while a call waits for the loops it replaces, their accounts have no watch (`AwaitedInv`), and the watch it will insert comes after all of them (`InsertInv`) |
| `ShownGoesForward`, `HeldJobWrites` | results never go back; only a warm job the watch holds writes | results wait in the order of their checks, and all are newer than what is shown (`EventsInv`) |
| `NoChangeIsLost`, `NewestWindowChanges` | `QuerySpec => []NoLostChange`, `QuerySpec => NewestWindowOnly` | each copy of a store is the last change or an older one, and for every place of a prefetch and a save it is told which copies hold the last (`Safe`, `NoneNewer`); the generation in force is that of the window that restored last (`NewestHeld`) |
| `FramesAnsweredOnce`, `QuitIsTheLast` | `SessionSafety => []AnsweredOnce`, nothing follows the answer to a quit | a frame is in one place at a time (`OnePlace`), and the ends of the threads come in one order (`EndsInOrder`) |
| `UploadsAreWhole` | `UploadSpec => []UploadWhole` | a running upload is gone from the table (`UploadsInv`) |
| `JobsAreKept`, `JobsStaySettled` | limits, answers and settled jobs of the assistant | what a directory and a worker may have to do with each other (`JobFits`), also of workers that boot late |
| `AnswersAreWhole`, `HistoryIsKept` | the entry under way holds the whole output | `StreamInv` |
| `ContextsKeep` | a cancelled read stays cancelled | `ContextInv` |
| `WiresAreOwned` | an IMAP answer is that of its own command, folders are fresh | a connection is idle, or of one request, or given up, and the first two have nothing unread (`WiresInv`); no listing of the present epoch is older than an answered change (`FoldersInv`) |
| `CancelledStay` | a cancelled IMAP read is over | the entry of a token outlives the reads that may still look it up (`TokenInv`) |

`StoreProofs` does the same for what keeps lists and files. The two components of the IMAP client that
talk to a folder:

* `ImapChangesHold == ImapChangesSpec => []ImapChangesAreSafe`, for any messages and number of changes. The
  invariant `ImInv` says of a request at work what its commands still to come will find: the rest of a chain
  comes in its order (`InTurn`), an expunge is left without its copy only when every message has a copy outside
  the group that is not marked (`CopiedFirst`), and of a folder that was completed all that was asked is done (`GroupFits`,
  `ReportFits`). `ChainFits` is what a group may count on before each command, and one lemma per command
  (`SelectGoes`, `FlagsGo`, `CopyGoes`, `MoveGoes`, `ExpungeGoes`) shows that it leaves as much to the next,
  whether its answer arrives or is lost. UIDs are given once (`UidsGiven`), which is why a message moved by
  another client meanwhile cannot be taken for one of the group.
* `ImapPagesHold == ImapPagesSpec => []ImapPagesWhole`, for any window, page, batch and folder. While a scan
  is under way the rows shown are those of what was found above the ceiling, and every match that was there all
  along is found or still left to scan (`ListingFits`); what is found later is older, so the rows shown stay
  first (`RowsBegin`). A batch takes up where the last ended, and its rows are ids of its own places
  (`ReadFits`). The page, the chunk and the batch are stated by rank (`Falling` and `Rising`
  of `Ranks`).

The messages of an account are assumed to be finitely many (`ChangeAssumption`).

The stores:

| Theorem | Statement | Why it holds |
| --- | --- | --- |
| `SyncIsTyped`, `SessionIsTyped`, `QueriesWithin`, `UploadsWithinBudget` (`MailProofs`) | queues, tables, stores and uploads keep to their limits | what waits and what is under way are counted together (`RoomInv`, `SessionRoom`, `ShapeInv`, `BudgetInv`): a place is taken before the work that fills it begins |
| `DiskIsWithin`, `FilesAreWithin` | bodies and resources keep to the one budget, through cancelled writes and crashes | while a write is under way, the files there and its own fit together (`WriteHasRoom`); the temporary files that crashes leave count like the others |
| `OldCopyStays`, `OldestMakeRoom` | a file stays until its replacement is there; no file makes room while an older one is kept | the reservation takes the oldest of all but the protected file |
| `RenderIsWithin` | the rendered messages keep to bytes, number and share, and the counter is their sum | the evictions pass through the lists without their oldest, and the longest of these that leaves room exists |
| `ReaderIsWithin`, `CutOffStaysOff` | the same of opened messages, of opens and of tombstones; a reader that was cut off writes nothing and is not answered "opened" | `ReaderInv` |
| `AccountsStay` | no account is lost by a save from an older copy of the registry | the revision is compared and the file replaced by the holder of the lock (`RegistryInv`) |
| `MessagesShowBest`, `RowsDoAgree` | a message shows a job that runs, else the newest; never a worse one than the panel of a selection | the fold over the rows keeps the best so far (`BestAt`) |
| `NoHole`, `RowsOnlyFollow`, `MembersStayKnown` | no message newer than the floor is missing from the unified list; another page moves nothing above the floor; members of the open conversation stay known | the list is what was loaded and is not older than the floor (`ListInv`); with every account begun, the floor only falls |
| `RowsConverge`, `RefusalsAreLocal` | when no edit is open the labels are those of the server; a settlement changes the labels of what was refused only | see below |

The unified list supposes that each account hands over its mail newest first, as the providers' lists do
(`ViewBounds`); of messages of the very time of the floor, more may still join.

*Optimistic actions.* A context keeps the view before its oldest edit, and makes all edits again, but for
what was refused, whenever one settles or is joined to another. `IntentInv` says that the ledger is what the
server was asked, in the same order and with the same refusals (the model keeps the two apart, so that a
settlement could mark an item in one and not in the other), that the base has the labels of the server, and
that the view has those of the server with the edits of the ledger made over them on their recorded targets
(`Sent`). That an edit made again has the effect it had is shown item by item (`Again`, `Made`); that a
refusal changes only its own labels, from what an item that is left out never touched. Both theorems leave
out a replay that finds another row for an edit than the one recorded (`drifted`, section 6).

*Ranks.* What a sort, an eviction loop or a sum by recursion comes to cannot be proved by induction over
data. `Ranks` defines them by counting: `Falling` and `Rising` order a set by how many are beyond each,
`Picked` takes places of a list, `WithoutOldest` is the set of lists that an eviction loop passes through and
`Longest` the one at which it stops, `Total` the number of units of all amounts. Where code folds over a
list, the recursive function stays, and a property of its last value is shown by a climb along its arguments
(`ClimbTo`: a set of numbers that has 0, and with each number below n the next one, has n; it is induction
over numbers without an operator as its parameter).

`ServiceProofs` shows that a behaviour of all services is one of each (`Moves...`: the others leave its
variables alone) and concludes what the run checks: `ServicesOwnLoops`, `ServicesShowNothingLate`,
`ServicesLoseNothing`, `ServicesAnswer`, `ServicesKeepAssistant`, `ServicesKeepHistory`,
`ServicesKeepHelpers`, `ServicesInstall`, `ServicesConnect`, `ImapIsTrue`, `ServicesStores`, `ServicesKeep`,
`ServicesShowRows` and `ServicesRowsForward`.

`WiresAreOwned`, `CancelledStay` and `ServicesConnect` have hypotheses. The server keeps to the protocol: one that sends more than it was asked
for may put it where the next command looks for its own answer. And the reads of one token that overlap in
a row, with what is still queued behind them, are together shorter than the minute after which an entry is
swept (`LongerRow` counts them): an aborted entry that was swept while a read of its token is still to
begin would be made anew. A read has 22 seconds, so two in a row fit, and a third that is not queued long;
the interface takes a fresh token for each request (`ui/providers/ImapClient.qml:67`, `:131`, `:169`), so
longer rows do not come up.

### The clients (`ProviderProofs`)

Sign-in (`SignIn`):

| Theorem | Statement |
| --- | --- |
| `SignOutIsKept` | with the keyring changed under the lane, no exchange that was under way stores a token after a sign-out |
| `NoOldAccess` | an access token handed out within the lane stems from the refresh token in the keyring |
| `GrantsAreOwn` | a browser flow stores the grant of its own tab, for the mailbox it turned out to be |

`LaneInv` says what the holder of a lane read and what it may still write; `FlowInv` that a flow's state is
told by its own port and nonce. The code's exception, a dropped caller's blocking write that lands late,
is `siLate`, a disjunct of `SignOutHolds`.

The other clients, and sending:

| Theorem | Statement | Why it holds |
| --- | --- | --- |
| `SentOnce` | `SendSpec => []SendOnce` | what was delivered follows the entry's fate (`FateInv`), and whoever was told "ok" finds it in the queue (`ToldInv`) |
| `RetiredStaysQuiet` | `JmapSessionSpec => RetiredIsQuiet` | a context that was retired or rejected stays so, and a query, change or upload looks at its own right before it sends (`ContextsGrow`, `CallsGo`); downloads and repairs do not look, a removal only for "replaced" |
| `CredentialsStayHome` | `DiscoverySpec => []CredentialStaysHome` | a policy, remembered or being made, names only what a document of its own credential named (`PolicyInv`) |
| `JmapChangesAreTrue` | `JmapMailSpec => []JmapChangeIsTrue` | what was reported done is not undone: at the server, in the cache, or by a listing that began since (`ChangeInv`) |
| `ComposedIsSafe` | `ComposeSpec => []ComposeIsSafe` | there is a copy of the message that no destroy is after, and it is not the one under way until that is safe (`CopyInv`) |
| `PagesStayWhole` | `PagesSpec => []PagesAreWhole` | the rows seen go down to the anchor and miss nothing on the way (`SeenInv`) |
| `UntaughtIsReached` | `PushSpec => []PushReachesUntaught` | what the server holds is listed or on its way to the panel (`NewsInv`) |
| `RefreshesCoalesce` | `GmailSpec => []OneRefreshPerLoss` | every grant is the cached one or was lost, and who holds the lock of a refresh holds a lost grant (`GrantsInv`) |
| `GmailKeepsOrder` | `GmailSpec => []GmailSentInOrder` | what was carried out stands at increasing places of the order of booking, and the drainer's entry strictly behind all of it until it is sent (`OrderInv`) |
| `RequestsAreBounded` | `RequestSpec => []RequestIsBounded` | a page is asked for once for each token seen, and a mutation is carried out only in the step that ends the request (`RequestInv`) |
| `QuotaHolds` | `BucketSpec => []NeverOverQuota` | what was spent moves the bucket on by as much, and only the cap on the refill moves it further (`BucketInv`, with the history `bSpent` of what was let through) |
| `ReportsAreTrue`, `ListsAreWhole` | `MailSpec => []ReportIsTrue`, `MailSpec => []ListIsWhole` | no target stands twice in a plan, so that a chunk names nothing an earlier one named (`ActInv`); a page is answered only when its rows are its ids (`MailListInv`) |
| `HeyCallsAreSafe` | a logout holds against a browser that was signing in, a mutation is made at most once, what succeeded was made | `HeyCallInv` |
| `HeyListsAreWhole` | `HeySpec => []HeyListIsWhole` | what was listed so far is what the box lists up to where the walk is (`WalkOk`) |
| `RunsLeaveNothing`, `RunsNeverStick` | an answer was read to its end and no process of the program's group is left (one with a session of its own may outlive the run, `process/mod.rs:76`); the program and the run that feeds and reads it never wait on each other | what was said is read or in the pipe (`RunInv`), and an answer needs the end of both pipes; a program that waits for room has filled a pipe, which is read whether or not input is still to be written |

`NeverBothWaiting` is stated by what each side waits for (`ProgramWaits`, `InputWaits`) and what may be read
(`MayRead`), which are the guards of the steps, and not by ENABLED.

`ProvidersSendOnce`, `ProvidersJmapTrue`, `ProvidersEndSessions`, `ProvidersGmailOrdered` and
`ProvidersReport` are the same promises under `ProvidersSpec`, the third from sign-in's theorems as well.

## 5. What is only model-checked, and what is not modelled

Every invariant and action property of a passing run is stated by a theorem. Liveness (`OutboxDrains`,
`CallsReturn`, `EveryJobSettles`, `TicketsSettle`) is out of the prover's reach and stays with TLC: it needs
fairness, and fairness is about what is enabled. Three theorems have hypotheses that section 4 names:
`ServicesConnect`, `ToldTruly` and `Answers`. That the properties are not empty, and that the interesting
cases are reached, is for the runs and the mutants to show.

Not modelled:

* *User interface, update workers, platform code, the command line*: presentation and I/O; other
  components see an exit code or a call.
* *Parsing and composing* (MIME, HTML, calendars, contacts, addresses, prompts): pure functions over
  text, which the tests of the repository exercise and a bounded model would only repeat.
* *Outlook's client*: requests to Microsoft Graph; its tokens are `SignIn`, its reports `MailActions`.
* *Hermes broker and teams, phone authentication*: next in the plan.
* Of modelled components: the grammar of IMAP and JMAP answers, blobs and identities, attachments, the
  blocking variant of `process::run`, windows and screens after a resume, units of systemd other than
  whether they are active. The clients of Gmail, JMAP, IMAP and HEY, the reader, the actions and the
  account views are "partly" modelled for this reason: what they decide is there, what they parse is not.

Hazards known and not covered by a property: a Hermes apply that dies between the cherry-pick and its
record (`manager.py:538`: the commit is on the branch, the job still says reviewed); UIDVALIDITY, which
the IMAP client does not check; a server without UIDPLUS, where an EXPUNGE after a copy takes other
deleted mail with it; two tenants of one Outlook account, which have two lanes; a power loss during the
outbox's rename; a HEY search that ends at the first page the program cuts short.

Some properties of the modules are kept although they do not hold, as a record of what the code does
not give: `GmailQueue!WireSettlesTruly`, `JmapPush!PushReachesList`, `AccountViews!CoalesceKeepsView`,
`Outbox!ShownIsDurable`, `QueryCache!FlushDurable`, `JmapSession!GoodSignInKept`. No run checks them.

## 6. Where code and words differ

With a run that shows it:

* **A pending migration overtaken** (`config_pending`). `config-migrations.py:380-382` calls the pending
  entry resumable; `config-write.py:27` lets a settings write through once the document has the current
  schema, after which the resumption refuses for good.
* **Two applies at once** (`hermes_race`). `docs/ai-agents.md:83-84` says that apply fails closed when the
  source branch moved; the check (`manager.py:531`) and the cherry-pick are under a lock of the job, not
  of the repository, so a second apply can come between them.
* **A list that ends early** (`hermes_stuck`). `_locked` makes the directory of any well-formed id, `_read`
  raises `SystemExit` for it, and `list_jobs` catches other exceptions only (`manager.py:645`). From then
  on jobs behind that directory are never reconciled and no job is admitted.
* **A committed release taken back** (`install_killed`). `install.sh:1052` deletes a committed transaction
  with its mark in the order of the directory; a kill after the mark and before the rest leaves what
  looks like an interrupted installation, and the timer restores the old release.
  `nbshell-install-recover:310` calls the mark the durable boundary.
* **A sign-out undone** (`signout_races`). The interface clears Outlook's refresh token with
  `credentials.delete`, past the lane of `auth/credentials.rs`; an exchange under way then stores its
  rotation.

Met while modelling:

* JMAP's downloads and repairs wait for a slot and go out without another look at the sign-in
  (`jmap/read.rs:280`), the removal of a draft looks only for "replaced" (`mutation.rs:447`), and reading
  the session document looks for nothing. `RetiredIsQuiet` is about the rest.
* A run of HEY's program kills its process group; a descendant with a session of its own outlives it
  (`process/mod.rs:76`). `MailReported` says of it only that it no longer holds the pipes when an answer is given.
  A flag may be given up because the mail on the output quotes the program's error (`hey.rs:350-354`).
* A worker of the outbox whose claim cannot be saved returns without looking at the rest of its account's
  queue (`outbox/mod.rs:550-557`), which waits for the next call; `mod.rs:1` promises an attempt for every
  delivery. A replayed `outbox.enqueue` (`mod.rs:408`) answers from memory without the save that
  `outbox.snapshot` makes first.
* A killed process can leave a backup that is not durable and that the next one takes for durable
  (`config-migrations.py:215`), and a document already at the right version is recorded without a sync
  (`:333`); `OriginalKept` is therefore about histories without kills. A repair whose result is there
  already is answered with nothing synced (`config-repair.py:102-103`): after a settings write back to
  that result that was killed before its directory sync, a power loss takes the answered state away.
  `AckedIsDurable` excepts that answer (`presumed`), and only after a kill.
* A recovery of a killed first installation fails: `install.sh:764` records the key `config-migrations.json`,
  which `nbshell-install-recover` does not know, and later installations refuse while it is there, against
  `docs/recovery-matrix.md`. A kill between dropping the rollback tree and the transaction leaves a copy
  whose inode is unknown, with the same effect. A partly deleted transaction without metadata makes the
  next installation refuse; one without `original-runtime-present` makes the recovery delete the live
  runtime. A signal between `touch committed` (`install.sh:1044`) and `install_ready=1` (`:1045`) has the
  trap take the marked release back; cut off in turn, it leaves a mixed installation that the recovery
  (`nbshell-install-recover:312`) only cleans up after.
* The lock daemon takes its inhibitor (`sleep_lock_inhibitor.py:184`) before it listens to signals (`:197`);
  a sleep announced in between passes unnoticed. `unlock()` opens the session before the locker ends
  (`lock/shell.qml:63-64`), so a sleep in that window is let through as secure. `lockscreen.py:459` may
  remove the marker of a locker the daemon has just started; suspend then refuses until the next unlock,
  which fails closed. After a failure of the daemon there is no inhibitor until systemd has restarted it.
* `update-coordinator.py` reads the record (`:154`) before it tests the lock, so `status` may call a run
  interrupted that has just completed.
* Optimistic actions: `account/intents.rs:1` says that a late refusal removes only its own effects. A
  replay (`:244`) looks for the row of each edit again. When an edit took a conversation's row off the list
  and a later one was made, in the open reader, on the message that stood for it, that one is of the message
  alone; if the first is refused the row is back, and the replay makes the second over the whole
  conversation. In the same way a row that an earlier, refused edit had kept on the list is gone, and a
  later edit of it with it. The model notes it (`drifted`), the instance of `services` reaches it, and the
  properties speak of the other replays.
* Gmail: a send on the wire at logout settles with the end of its session, not with its real answer
  (`gmail.rs:195`, against `gmail_queue.rs:123-124`). JMAP: push reaches the panel, but a listing may answer
  from a cache that a dropped event would have cleared (`stream.rs:174-207`, against
  `docs/MAILBOXES.md:57`). Accounts: the interface coalesces an action with its opposite and its repetition
  (`ui/account/Model.js:343-344`), which the backend's intents do not. Session: after a lost peer the loop
  may leave requests that hold what the shutdown waits for (`protocol.rs:95-121`). Caches: a flush answers
  before its files are synced (`docs/BACKEND.md:274`). Watches: a change of the registry is not announced
  when the event queue overflows, or when it comes before the first poll.

## 7. Plan

Done: the outbox with its abstract queue and the refinement; the configuration store; Hermes jobs; the
services and providers of omamail; the updates, the installation and the lock of the shell; the proofs of
section 4. What remains, in this order:

1. The broker and the teams of Hermes over `HermesJobs`, and the recovery of an apply cut off between the
   pick and the record.
2. Phone authentication: one conversation, late and repeated answers, time limits.
3. A replay of optimistic actions that keeps the row an edit was made on, as a specification to compare the
   present one with.
