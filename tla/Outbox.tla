-------------------------------- MODULE Outbox --------------------------------
(***************************************************************************)
(* The durable outbox of omamail (plugins/omamail/src/outbox).  One        *)
(* process at a time owns the lease; it keeps the queue in memory, saves a *)
(* whole new copy before every change it acknowledges, and runs one        *)
(* delivery worker per account.                                            *)
(*                                                                         *)
(* The mutex around State is held across every save, so a save is three    *)
(* steps: the operation takes the lock and hands its copy to a blocking    *)
(* writer; the writer replaces the file; the operation sees the outcome    *)
(* and lets go of the lock.  A caller that is dropped in between (a client *)
(* that timed out, a worker aborted by shutdown) leaves the lock at once   *)
(* while its write goes on as an orphan.                                   *)
(***************************************************************************)
EXTENDS Integers, FiniteSets

CONSTANTS
  Accounts,        \* mail accounts
  Sends,           \* send ids
  AccountOf,       \* the account each send id belongs to
  Bodies,          \* payload digests a client may submit
  Delays,          \* {TRUE}: with an undo delay, {FALSE}: due at once, or both
  MaxRecoverable,  \* MAX_RECOVERABLE: entries that may hold a payload
  MaxCalls,        \* bound: client calls that write, over a behaviour
  MaxRestarts,     \* bound: crashes and restarts
  StorageFaults    \* whether a write may fail

ASSUME OutboxAssumption ==
  /\ AccountOf \in [Sends -> Accounts]
  /\ IsFiniteSet(Sends)
  /\ Delays \subseteq BOOLEAN
  /\ MaxRecoverable \in Nat
  /\ MaxCalls \in Nat
  /\ MaxRestarts \in Nat
  /\ StorageFaults \in BOOLEAN
  /\ Accounts # {} /\ Sends # {} /\ Bodies # {}

VARIABLES
  mem,       \* State.entries: the owner's copy of the queue
  loaded,    \* State.loaded
  disk,      \* outbox.json
  issued,    \* Writer.issued: sequence of the newest save
  committed, \* Writer.committed: newest sequence known to be on disk
  writes,    \* blocking writes not yet run, orphans included
  lock,      \* who holds the State mutex across a save, and for what
  workers,   \* State.workers: accounts that have a worker
  pc,        \* where each account's worker is
  cur,       \* the send a worker is delivering
  stage,     \* "up", "stopping" (shutdown has begun), "down"
  doomed,    \* workers whose job handles shutdown took and will abort
  ripe,      \* sends whose undo delay has passed on the clock
  calls,     \* client calls made so far
  restarts,  \* process restarts so far
  wire,      \* what became of the one submission to the provider
  attempts,  \* history: how often the executor was started for a send
  fresh,     \* history: sends accepted since the process started
  promised,  \* history: bodies whose enqueue was answered with success
  told,      \* history: terminal state answered by outbox.snapshot
  shown      \* history: terminal states shown by a replayed enqueue

ownerVars    == <<mem, loaded, lock>>
storageVars  == <<disk, issued, committed, writes>>
workerVars   == <<workers, pc, cur>>
stopVars     == <<stage, doomed>>
envVars      == <<ripe, calls, restarts, wire>>
historyVars  == <<attempts, fresh, promised, told, shown>>
vars == <<mem, loaded, disk, issued, committed, writes, lock, workers, pc, cur,
          stage, doomed, ripe, calls, restarts, wire,
          attempts, fresh, promised, told, shown>>

------------------------------------
(* Entries and copies of the queue *)

Terminal == {"sent", "failed", "unknown", "cancelled"}
States   == {"absent", "queued", "sending"} \cup Terminal

\* An entry; `pos` is its place in the list, which only grows at its end.
Entry == [state: States, body: Bodies, payload: BOOLEAN, ack: BOOLEAN,
          delayed: BOOLEAN, pos: Nat]
Snapshot == [Sends -> Entry]

NoEntry == [state |-> "absent", body |-> CHOOSE b \in Bodies : TRUE,
            payload |-> FALSE, ack |-> FALSE, delayed |-> FALSE, pos |-> 0]
Empty == [m \in Sends |-> NoEntry]

Present(v)   == {m \in Sends : v[m].state # "absent"}
Queued(v, a) == {m \in Sends : AccountOf[m] = a /\ v[m].state = "queued"}

\* Mutant of IsHead: the youngest queued entry.
NewestFirst(v, a, m) ==
  /\ m \in Queued(v, a)
  /\ \A n \in Queued(v, a) : v[m].pos >= v[n].pos

\* The entry the worker of `a` takes: the first queued one in list order.
IsHead(v, a, m) ==
  /\ m \in Queued(v, a)
  /\ \A n \in Queued(v, a) : v[m].pos <= v[n].pos

\* Mutants of Interrupted: what was being sent is tried again; what was queued
\* stays queued.
RetryInterrupted(state) == IF state = "sending" THEN "queued" ELSE state
KeepQueued(state)       == IF state = "sending" THEN "unknown" ELSE state

\* What becomes of an entry that a process can no longer carry on.
Interrupted(state) ==
  CASE state = "queued"  -> "cancelled"
    [] state = "sending" -> "unknown"
    [] OTHER             -> state

\* What load makes of the file: nothing queued or sending survives a restart.
Recover(v) ==
  [m \in Sends |-> [v[m] EXCEPT !.state = Interrupted(@),
                               !.payload = @ /\ v[m].state # "sent"]]

\* What shutdown makes of memory.
Quiesce(v) == [m \in Sends |-> [v[m] EXCEPT !.state = Interrupted(@)]]

\* Mutant of Abandoned: everything of the account is cancelled.
AbandonAll(v, a) ==
  [m \in Sends |-> IF AccountOf[m] = a /\ v[m].state # "absent"
                     THEN [v[m] EXCEPT !.state = "cancelled"] ELSE v[m]]

\* Every queued entry of an account made due, or cancelled.
Flushed(v, a) ==
  [m \in Sends |-> [v[m] EXCEPT !.delayed = @ /\ m \notin Queued(v, a)]]
Abandoned(v, a) ==
  [m \in Sends |-> IF m \in Queued(v, a)
                     THEN [v[m] EXCEPT !.state = "cancelled"] ELSE v[m]]

------------------------------------
(* The lock and the writer *)

Ops == {"free", "load", "snapshot", "commit", "claim", "settle", "stop"}

\* `next` is the copy being saved, `promise` the body an enqueue accepts.
Lock == [op: Ops, account: Accounts, send: Sends, promise: SUBSET Bodies,
         result: {"writing", "saved", "error"}, next: Snapshot]
Free == [op |-> "free", account |-> CHOOSE a \in Accounts : TRUE,
         send |-> CHOOSE m \in Sends : TRUE, promise |-> {},
         result |-> "writing", next |-> Empty]

Write == [seq: Nat, value: Snapshot]

\* save(): reserve a sequence, hand the copy to a blocking write, wait.
Save(op, a, m, promise, next) ==
  /\ lock.op = "free"
  /\ lock' = [op |-> op, account |-> a, send |-> m, promise |-> promise,
              result |-> "writing", next |-> next]
  /\ issued' = issued + 1
  /\ writes' = writes \cup {[seq |-> issued + 1, value |-> next]}
  /\ UNCHANGED <<disk, committed>>

\* The caller learns of its own write only: the newest one, while it waits.
Report(w, outcome) ==
  lock' = IF w.seq = issued /\ lock.op # "free"
            THEN [lock EXCEPT !.result = outcome] ELSE lock

\* Writer::write: a sequence that is not newer than the last committed one is
\* dropped and reported as written.
WriterSkip(w) ==
  /\ w \in writes
  /\ w.seq <= committed
  /\ writes' = writes \ {w}
  /\ Report(w, "saved")
  /\ UNCHANGED <<disk, issued, committed>>

\* Mutant of WriterCommit: sequences are not compared.
CommitAnyOrder(w) ==
  /\ w \in writes
  /\ writes' = writes \ {w}
  /\ disk' = w.value
  /\ committed' = w.seq
  /\ Report(w, "saved")
  /\ UNCHANGED issued

WriterCommit(w) ==
  /\ w \in writes
  /\ w.seq > committed
  /\ writes' = writes \ {w}
  /\ disk' = w.value
  /\ committed' = w.seq
  /\ Report(w, "saved")
  /\ UNCHANGED issued

\* atomic_replace fails before the rename, or after it, when the directory
\* cannot be synced: then the file has changed and the caller sees an error.
WriterFail(w, renamed) ==
  /\ StorageFaults
  /\ w \in writes
  /\ w.seq > committed
  /\ writes' = writes \ {w}
  /\ disk' = IF renamed THEN w.value ELSE disk
  /\ Report(w, "error")
  /\ UNCHANGED <<issued, committed>>

Writer(w) ==
  /\ \/ WriterSkip(w)
     \/ WriterCommit(w)
     \/ \E renamed \in BOOLEAN : WriterFail(w, renamed)
  /\ UNCHANGED <<mem, loaded>>
  /\ UNCHANGED <<workerVars, stopVars, envVars, historyVars>>

Release == lock' = Free

------------------------------------
(* Loading, and the calls of clients *)

\* A call needs the lock; every call a client makes is counted.
Calling ==
  /\ lock.op = "free"
  /\ calls < MaxCalls
  /\ calls' = calls + 1
  /\ UNCHANGED <<ripe, restarts, wire>>

\* The first call of a process reads the file and saves what it recovered.
Load ==
  /\ Calling
  /\ ~loaded
  /\ Save("load", Free.account, Free.send, {}, Recover(disk))
  /\ UNCHANGED <<mem, loaded>>
  /\ UNCHANGED <<workerVars, stopVars, historyVars>>

\* The entries are taken over before the socket is opened: when that fails the
\* outbox stays unloaded and the next call starts again.
LoadDone ==
  /\ lock.op = "load"
  /\ \/ /\ lock.result = "saved"
        /\ mem' = lock.next
        /\ loaded' \in BOOLEAN
     \/ /\ lock.result = "error"
        /\ UNCHANGED <<mem, loaded>>
  /\ Release
  /\ UNCHANGED <<storageVars, workerVars, stopVars, envVars, historyVars>>

\* outbox.snapshot with a send id: a terminal state is saved again before it
\* is answered.
AskSnapshot(m) ==
  /\ Calling
  /\ loaded
  /\ mem[m].state \in Terminal
  /\ Save("snapshot", AccountOf[m], m, {}, mem)
  /\ UNCHANGED <<mem, loaded>>
  /\ UNCHANGED <<workerVars, stopVars, historyVars>>

\* Mutant of SnapshotDone: answered although the save failed.
AnswerAnyway ==
  /\ lock.op = "snapshot"
  /\ lock.result # "writing"
  /\ told' = [told EXCEPT ![lock.send] = mem[lock.send].state]
  /\ Release
  /\ UNCHANGED <<mem, loaded, attempts, fresh, promised, shown>>
  /\ UNCHANGED <<storageVars, workerVars, stopVars, envVars>>

SnapshotDone ==
  /\ lock.op = "snapshot"
  /\ \/ /\ lock.result = "saved"
        /\ told' = [told EXCEPT ![lock.send] = mem[lock.send].state]
     \/ /\ lock.result = "error"
        /\ UNCHANGED told
  /\ Release
  /\ UNCHANGED <<mem, loaded, attempts, fresh, promised, shown>>
  /\ UNCHANGED <<storageVars, workerVars, stopVars, envVars>>

\* A call that changes the queue saves its copy `next` first.
Mutate(a, m, promise, next) ==
  /\ Calling
  /\ loaded
  /\ stage = "up"
  /\ Save("commit", a, m, promise, next)
  /\ UNCHANGED <<mem, loaded>>
  /\ UNCHANGED <<workerVars, stopVars, historyVars>>

\* Mutant of Room: one entry too many.
RoomForOneMore(v) == Cardinality({m \in Sends : v[m].payload}) <= MaxRecoverable

Room(v) == Cardinality({m \in Sends : v[m].payload}) < MaxRecoverable

NewEntry(b, delayed) ==
  [state |-> "queued", body |-> b, payload |-> TRUE, ack |-> FALSE,
   delayed |-> delayed, pos |-> Cardinality(Present(mem))]

Enqueue(m, b, delayed) ==
  /\ mem[m].state = "absent"
  /\ Room(mem)
  /\ Mutate(AccountOf[m], m, {b}, [mem EXCEPT ![m] = NewEntry(b, delayed)])

\* Mutant of EnqueueReplay: the digest is not compared.
ReplayAny(m, b) ==
  /\ Calling
  /\ loaded
  /\ stage = "up"
  /\ mem[m].state # "absent"
  /\ promised' = [promised EXCEPT ![m] = @ \cup {b}]
  /\ shown' = [shown EXCEPT ![m] = @ \cup ({mem[m].state} \cap Terminal)]
  /\ UNCHANGED <<ownerVars, storageVars, workerVars, stopVars>>
  /\ UNCHANGED <<attempts, fresh, told>>

\* The same id with the same digest: answered as accepted, nothing is saved.
\* (Another digest is refused with outbox_send_id_conflict.)
EnqueueReplay(m, b) ==
  /\ Calling
  /\ loaded
  /\ stage = "up"
  /\ mem[m].state # "absent"
  /\ mem[m].body = b
  /\ promised' = [promised EXCEPT ![m] = @ \cup {b}]
  /\ shown' = [shown EXCEPT ![m] = @ \cup ({mem[m].state} \cap Terminal)]
  /\ UNCHANGED <<ownerVars, storageVars, workerVars, stopVars>>
  /\ UNCHANGED <<attempts, fresh, told>>

\* undo of a named send, or of the newest queued one of the account.
Undo(m) ==
  /\ mem[m].state = "queued"
  /\ Mutate(AccountOf[m], m, {}, [mem EXCEPT ![m].state = "cancelled"])

Flush(a) == Mutate(a, Free.send, {}, Flushed(mem, a))

AbandonAccount(a) == Mutate(a, Free.send, {}, Abandoned(mem, a))

Forgotten(e) == [e EXCEPT !.payload = FALSE, !.ack = TRUE]

Forget(m) ==
  /\ mem[m].state \in Terminal
  /\ Mutate(AccountOf[m], m, {}, [mem EXCEPT ![m] = Forgotten(@)])

\* The save succeeded: memory follows, and an account with something queued
\* gets a worker unless it has one.
CommitSaved ==
  /\ lock.op = "commit"
  /\ lock.result = "saved"
  /\ mem' = lock.next
  /\ promised' = [promised EXCEPT ![lock.send] = @ \cup lock.promise]
  /\ fresh' = IF lock.promise = {} THEN fresh ELSE fresh \cup {lock.send}
  /\ IF Queued(lock.next, lock.account) # {} /\ lock.account \notin workers
       THEN /\ workers' = workers \cup {lock.account}
            /\ pc' = [pc EXCEPT ![lock.account] = "ready"]
       ELSE UNCHANGED <<workers, pc>>
  /\ Release
  /\ UNCHANGED <<loaded, cur, attempts, told, shown>>
  /\ UNCHANGED <<storageVars, stopVars, envVars>>

CommitFailed ==
  /\ lock.op = "commit"
  /\ lock.result = "error"
  /\ Release
  /\ UNCHANGED <<mem, loaded>>
  /\ UNCHANGED <<storageVars, workerVars, stopVars, envVars, historyVars>>

\* The future of a call is dropped (the owner's five-second limit on a request
\* of another process, or the listener aborted): the write becomes an orphan.
CallDropped ==
  /\ lock.op \in {"load", "snapshot", "commit"}
  /\ Release
  /\ UNCHANGED <<mem, loaded>>
  /\ UNCHANGED <<storageVars, workerVars, stopVars, envVars, historyVars>>

------------------------------------
(* The delivery worker of an account *)

Due(m) == ~mem[m].delayed \/ m \in ripe

\* Mutant of WorkerExit: the account is still held to have a worker.
ExitUnnoticed(a) ==
  /\ lock.op = "free"
  /\ pc[a] = "ready"
  /\ stage # "up" \/ Queued(mem, a) = {}
  /\ pc' = [pc EXCEPT ![a] = "idle"]
  /\ doomed' = doomed \ {a}
  /\ UNCHANGED <<workers, cur, stage>>
  /\ UNCHANGED <<ownerVars, storageVars, envVars, historyVars>>

WorkerExit(a) ==
  /\ lock.op = "free"
  /\ pc[a] = "ready"
  /\ stage # "up" \/ Queued(mem, a) = {}
  /\ workers' = workers \ {a}
  /\ pc' = [pc EXCEPT ![a] = "idle"]
  /\ doomed' = doomed \ {a}
  /\ UNCHANGED <<cur, stage>>
  /\ UNCHANGED <<ownerVars, storageVars, envVars, historyVars>>

\* The delivery is recorded before it starts.
Claim(a, m) ==
  /\ pc[a] = "ready"
  /\ stage = "up"
  /\ IsHead(mem, a, m)
  /\ Due(m)
  /\ Save("claim", a, m, {}, [mem EXCEPT ![m].state = "sending"])
  /\ UNCHANGED <<mem, loaded>>
  /\ UNCHANGED <<workerVars, stopVars, envVars, historyVars>>

\* The record is on disk: memory follows and the executor starts.
ClaimSaved ==
  LET a == lock.account
      m == lock.send IN
  /\ lock.op = "claim"
  /\ lock.result = "saved"
  /\ mem' = lock.next
  /\ pc' = [pc EXCEPT ![a] = "sending"]
  /\ cur' = [cur EXCEPT ![a] = m]
  /\ attempts' = [attempts EXCEPT ![m] = @ + 1]
  /\ wire' = [wire EXCEPT ![m] = "inflight"]
  /\ Release
  /\ UNCHANGED <<loaded, workers, ripe, calls, restarts>>
  /\ UNCHANGED <<fresh, promised, told, shown>>
  /\ UNCHANGED <<storageVars, stopVars>>

\* It could not be recorded: the entry fails, in memory only, and the worker
\* leaves, whatever else the account has queued.
ClaimFailed ==
  LET a == lock.account IN
  /\ lock.op = "claim"
  /\ lock.result = "error"
  /\ mem' = [mem EXCEPT ![lock.send].state = "failed"]
  /\ workers' = workers \ {a}
  /\ pc' = [pc EXCEPT ![a] = "idle"]
  /\ doomed' = doomed \ {a}
  /\ Release
  /\ UNCHANGED <<loaded, cur, stage>>
  /\ UNCHANGED <<storageVars, envVars, historyVars>>

\* What the executor may answer, given what became of the submission: lost is
\* an unclear error, a panic or the sixty-second limit, possible at any time.
Answers(m) ==
  {"lost"} \cup (CASE wire[m] = "accepted" -> {"sent"}
                    [] wire[m] = "refused"  -> {"failed"}
                    [] OTHER                -> {})

\* Mutant of Outcome: every error counts as a refusal.
ErrorsAreRefusals(answer) == IF answer = "lost" THEN "failed" ELSE answer

Outcome(answer) == IF answer = "lost" THEN "unknown" ELSE answer

Settled(e, answer) ==
  [e EXCEPT !.state = Outcome(answer), !.payload = @ /\ answer # "sent"]

Settle(a, answer) ==
  LET m    == cur[a]
      next == [mem EXCEPT ![m] = Settled(@, answer)] IN
  /\ pc[a] = "sending"
  /\ answer \in Answers(m)
  /\ mem' = next
  /\ Save("settle", a, m, {}, next)
  /\ UNCHANGED loaded
  /\ UNCHANGED <<workerVars, stopVars, envVars, historyVars>>

\* The outcome of this save is ignored.
SettleDone ==
  /\ lock.op = "settle"
  /\ lock.result # "writing"
  /\ pc' = [pc EXCEPT ![lock.account] = "ready"]
  /\ cur' = [cur EXCEPT ![lock.account] = Free.send]
  /\ Release
  /\ UNCHANGED <<mem, loaded, workers>>
  /\ UNCHANGED <<storageVars, stopVars, envVars, historyVars>>

------------------------------------
(* Shutdown, restart, clock and provider *)

Running == {a \in Accounts : pc[a] # "idle"}

StopBegin ==
  /\ stage = "up"
  /\ stage' = "stopping"
  /\ doomed' = Running
  /\ UNCHANGED <<ownerVars, storageVars, workerVars, envVars, historyVars>>

\* An aborted worker leaves its account in `workers` and drops the lock.
AbortWorker(a) ==
  /\ a \in doomed
  /\ doomed' = doomed \ {a}
  /\ pc' = [pc EXCEPT ![a] = "idle"]
  /\ cur' = [cur EXCEPT ![a] = Free.send]
  /\ lock' = IF lock.op \in {"claim", "settle"} /\ lock.account = a
               THEN Free ELSE lock
  /\ UNCHANGED <<mem, loaded, workers, stage>>
  /\ UNCHANGED <<storageVars, envVars, historyVars>>

\* The jobs are gone: close what is open in memory and save it.
StopDrain ==
  /\ stage = "stopping"
  /\ doomed = {}
  /\ loaded
  /\ mem' = Quiesce(mem)
  /\ Save("stop", Free.account, Free.send, {}, Quiesce(mem))
  /\ UNCHANGED loaded
  /\ UNCHANGED <<workerVars, stopVars, envVars, historyVars>>

StopUnloaded ==
  /\ stage = "stopping"
  /\ doomed = {}
  /\ lock.op = "free"
  /\ ~loaded
  /\ stage' = "down"
  /\ UNCHANGED doomed
  /\ UNCHANGED <<ownerVars, storageVars, workerVars, envVars, historyVars>>

StopDone ==
  /\ lock.op = "stop"
  /\ lock.result # "writing"
  /\ stage' = "down"
  /\ Release
  /\ UNCHANGED <<mem, loaded, doomed>>
  /\ UNCHANGED <<storageVars, workerVars, envVars, historyVars>>

\* The process ends, at any point, and a new one takes the lease.
Restart ==
  /\ restarts < MaxRestarts
  /\ restarts' = restarts + 1
  /\ mem' = Empty
  /\ loaded' = FALSE
  /\ lock' = Free
  /\ issued' = 0
  /\ committed' = 0
  /\ writes' = {}
  /\ workers' = {}
  /\ pc' = [a \in Accounts |-> "idle"]
  /\ cur' = [a \in Accounts |-> Free.send]
  /\ stage' = "up"
  /\ doomed' = {}
  /\ ripe' = {}
  /\ fresh' = {}
  /\ UNCHANGED <<disk, calls, wire, attempts, promised, told, shown>>

Elapse(m) ==
  /\ mem[m].state = "queued"
  /\ m \notin ripe
  /\ mem[m].delayed
  /\ ripe' = ripe \cup {m}
  /\ UNCHANGED <<calls, restarts, wire>>
  /\ UNCHANGED <<ownerVars, storageVars, workerVars, stopVars, historyVars>>

\* The provider takes the message or refuses it, even after the executor or
\* the process that submitted it is gone.
Provider(m) ==
  /\ wire[m] = "inflight"
  /\ \E verdict \in {"accepted", "refused"} : wire' = [wire EXCEPT ![m] = verdict]
  /\ UNCHANGED <<ripe, calls, restarts>>
  /\ UNCHANGED <<ownerVars, storageVars, workerVars, stopVars, historyVars>>

------------------------------------
(* Specification *)

Init ==
  /\ mem = Empty
  /\ loaded = FALSE
  /\ disk = Empty
  /\ issued = 0
  /\ committed = 0
  /\ writes = {}
  /\ lock = Free
  /\ workers = {}
  /\ pc = [a \in Accounts |-> "idle"]
  /\ cur = [a \in Accounts |-> Free.send]
  /\ stage = "up"
  /\ doomed = {}
  /\ ripe = {}
  /\ calls = 0
  /\ restarts = 0
  /\ wire = [m \in Sends |-> "none"]
  /\ attempts = [m \in Sends |-> 0]
  /\ fresh = {}
  /\ promised = [m \in Sends |-> {}]
  /\ told = [m \in Sends |-> "none"]
  /\ shown = [m \in Sends |-> {}]

Call ==
  \/ Load
  \/ CallDropped
  \/ \E m \in Sends : AskSnapshot(m) \/ Undo(m) \/ Forget(m)
  \/ \E m \in Sends, b \in Bodies :
       EnqueueReplay(m, b) \/ \E delayed \in Delays : Enqueue(m, b, delayed)
  \/ \E a \in Accounts : Flush(a) \/ AbandonAccount(a)

Return ==
  LoadDone \/ SnapshotDone \/ CommitSaved \/ CommitFailed
           \/ ClaimSaved \/ ClaimFailed \/ SettleDone \/ StopDone

Work(a) ==
  \/ WorkerExit(a)
  \/ \E m \in Sends : Claim(a, m)
  \/ \E answer \in {"sent", "failed", "lost"} : Settle(a, answer)

Stop == StopBegin \/ StopDrain \/ StopUnloaded \/ \E a \in Accounts : AbortWorker(a)

Next ==
  \/ Call
  \/ Return
  \/ \E a \in Accounts : Work(a)
  \/ \E w \in writes : Writer(w)
  \/ Stop
  \/ Restart
  \/ \E m \in Sends : Elapse(m) \/ Provider(m)

Spec == Init /\ [][Next]_vars

\* The clock runs, blocking writes end, a finished save is noticed, aborted
\* tasks end; the tokio mutex is first come first served, so whoever waits for
\* it gets it however often others take it first (strong fairness).
Fairness ==
  /\ \A m \in Sends : WF_vars(Elapse(m))
  /\ WF_vars(\E w \in writes : Writer(w))
  /\ WF_vars(Return)
  /\ \A a \in Accounts : SF_vars(Work(a)) /\ WF_vars(AbortWorker(a))
  /\ SF_vars(StopDrain) /\ SF_vars(StopUnloaded)

FairSpec == Spec /\ Fairness

------------------------------------
(* Properties *)

TypeOK ==
  /\ mem \in Snapshot
  /\ loaded \in BOOLEAN
  /\ disk \in Snapshot
  /\ issued \in Nat
  /\ committed \in Nat
  /\ writes \subseteq Write
  /\ lock \in Lock
  /\ workers \subseteq Accounts
  /\ pc \in [Accounts -> {"idle", "ready", "sending"}]
  /\ cur \in [Accounts -> Sends]
  /\ stage \in {"up", "stopping", "down"}
  /\ doomed \subseteq Accounts
  /\ ripe \subseteq Sends
  /\ calls \in 0..MaxCalls
  /\ restarts \in 0..MaxRestarts
  /\ wire \in [Sends -> {"none", "inflight", "accepted", "refused"}]
  /\ attempts \in [Sends -> Nat]
  /\ fresh \subseteq Sends
  /\ promised \in [Sends -> SUBSET Bodies]
  /\ told \in [Sends -> States \cup {"none"}]
  /\ shown \in [Sends -> SUBSET Terminal]

\* No send is ever handed to the provider twice: not by a restart, a lost
\* write, a dropped call that comes back, or a second worker.
AttemptedOnce == \A m \in Sends : attempts[m] <= 1

\* What the queue says of a message, in memory or in the file, is true of the
\* provider: "cancelled" was never submitted, "failed" never accepted, "sent"
\* was accepted.
Honest(v) ==
  \A m \in Sends :
    /\ v[m].state = "cancelled" => wire[m] = "none"
    /\ v[m].state = "failed"    => wire[m] \in {"none", "refused"}
    /\ v[m].state = "sent"      => wire[m] = "accepted"

OutcomesAreTrue == Honest(disk) /\ Honest(mem)

\* An enqueue that was answered with success stays in the file, whatever
\* crashes or is dropped later: with the body it was accepted with, and with
\* the payload needed to recover it until it is sent or forgotten.
PromiseKept ==
  \A m \in Sends : \A b \in promised[m] :
    /\ disk[m].state # "absent"
    /\ disk[m].body = b
    /\ disk[m].payload \/ disk[m].state = "sent" \/ disk[m].ack

\* A terminal state answered by outbox.snapshot for one send is what the file
\* says from then on, so every later process answers the same.
ToldIsDurable == \A m \in Sends : told[m] # "none" => disk[m].state = told[m]

\* The same of the state that a replayed enqueue shows.
ShownIsDurable ==
  \A m \in Sends : \A s \in shown[m] : disk[m].state = s

\* The limit on entries that keep a payload holds in memory and in the file,
\* whatever order saves and dropped calls take.
RecoverableBound ==
  \A v \in {mem, disk} : Cardinality({m \in Sends : v[m].payload}) <= MaxRecoverable

\* A running worker is on record, so that nobody starts a second one for its
\* account.
OneWorker == \A a \in Accounts : pc[a] # "idle" => a \in workers

\* What the queue draws on keeps to its size: the payloads it may have to give
\* back, and one worker for each account.
PoolHolds == RecoverableBound /\ OneWorker

\* A delivery starts only in the process that accepted the send.
NoResume ==
  [][\A m \in Sends : attempts'[m] > attempts[m] => m \in fresh]_vars

\* While a process lives, a finished send never changes state again.
FinishedStays ==
  [][\A m \in Sends :
       loaded /\ loaded' /\ mem[m].state \in Terminal
         => mem'[m].state = mem[m].state]_vars

\* What is queued leaves the queue: it is delivered once it is due, or
\* cancelled.
QueueDrains ==
  \A m \in Sends : mem[m].state = "queued" ~> mem[m].state # "queued"

\* A shutdown comes to its end (or the process dies first).
ShutdownEnds == stage = "stopping" ~> stage # "stopping"
=============================================================================
