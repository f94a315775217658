----------------------------- MODULE OutboxProofs -----------------------------
(***************************************************************************)
(* Proofs about the outbox, for any accounts, sends, bodies and bounds.    *)
(***************************************************************************)
EXTENDS OutboxInv, FiniteSetTheorems, TLAPS

------------------------------------
(* Copies of the queue are copies of the queue *)

LEMMA SnapshotExcept ==
  ASSUME NEW v \in Snapshot, NEW m \in Sends, NEW e \in Entry
  PROVE  [v EXCEPT ![m] = e] \in Snapshot
BY DEF Snapshot

LEMMA SnapshotState ==
  ASSUME NEW v \in Snapshot, NEW m \in Sends, NEW s \in States
  PROVE  [v EXCEPT ![m].state = s] \in Snapshot
BY DEF Snapshot, Entry

LEMMA EmptyType == NoEntry \in Entry /\ Empty \in Snapshot /\ Free \in Lock
<1>1. NoEntry \in Entry  BY OutboxAssumption DEF NoEntry, Entry, States
<1>2. Empty \in Snapshot  BY <1>1 DEF Empty, Snapshot
<1>. QED  BY <1>1, <1>2, OutboxAssumption DEF Free, Lock, Ops

LEMMA InterruptedType ==
  ASSUME NEW s \in States
  PROVE  Interrupted(s) \in States
BY DEF Interrupted, States, Terminal

LEMMA RecoverType ==
  ASSUME NEW v \in Snapshot
  PROVE  Recover(v) \in Snapshot
<1>1. ASSUME NEW m \in Sends PROVE Recover(v)[m] \in Entry  BY InterruptedType DEF Recover, Snapshot, Entry
<1>. QED  BY <1>1 DEF Recover, Snapshot

LEMMA QuiesceType ==
  ASSUME NEW v \in Snapshot
  PROVE  Quiesce(v) \in Snapshot
<1>1. ASSUME NEW m \in Sends PROVE Quiesce(v)[m] \in Entry  BY InterruptedType DEF Quiesce, Snapshot, Entry
<1>. QED  BY <1>1 DEF Quiesce, Snapshot

LEMMA FlushedType ==
  ASSUME NEW v \in Snapshot, NEW a
  PROVE  Flushed(v, a) \in Snapshot
<1>1. ASSUME NEW m \in Sends PROVE Flushed(v, a)[m] \in Entry  BY DEF Flushed, Snapshot, Entry
<1>. QED  BY <1>1 DEF Flushed, Snapshot

LEMMA AbandonedType ==
  ASSUME NEW v \in Snapshot, NEW a
  PROVE  Abandoned(v, a) \in Snapshot
<1>1. ASSUME NEW m \in Sends PROVE Abandoned(v, a)[m] \in Entry  BY DEF Abandoned, Snapshot, Entry, States, Terminal
<1>. QED  BY <1>1 DEF Abandoned, Snapshot

LEMMA NewEntryType ==
  ASSUME TypeOK, NEW b \in Bodies, NEW delayed \in BOOLEAN
  PROVE  NewEntry(b, delayed) \in Entry
<1>1. Cardinality(Present(mem)) \in Nat  BY OutboxAssumption, FS_Subset, FS_CardinalityType DEF Present
<1>. QED  BY <1>1 DEF NewEntry, Entry, States

LEMMA SaveType ==
  ASSUME TypeOK, NEW op \in Ops, NEW a \in Accounts, NEW m \in Sends,
         NEW promise \in SUBSET Bodies, NEW next \in Snapshot,
         Save(op, a, m, promise, next)
  PROVE  /\ lock' \in Lock
         /\ disk' \in Snapshot
         /\ issued' \in Nat
         /\ committed' \in Nat
         /\ writes' \subseteq Write
BY DEF TypeOK, Save, Lock, Write

------------------------------------
(* Types *)

LEMMA CallsType ==
  ASSUME TypeOK, Calling
  PROVE  calls' \in 0..MaxCalls
BY OutboxAssumption DEF TypeOK, Calling

LEMMA CallType ==
  ASSUME TypeOK, Call
  PROVE  TypeOK'
<1>. USE EmptyType
<1>1. CASE Load
  <2>1. Recover(disk) \in Snapshot  BY RecoverType DEF TypeOK
  <2>2. Free.account \in Accounts /\ Free.send \in Sends  BY DEF Lock
  <2>. QED  BY <1>1, <2>1, <2>2, SaveType, CallsType
            DEF Load, Calling, TypeOK, Ops, workerVars, stopVars, historyVars
<1>2. CASE CallDropped
  BY <1>2 DEF CallDropped, Release, TypeOK, storageVars, workerVars, stopVars,
              envVars, historyVars
<1>3. ASSUME NEW m \in Sends, AskSnapshot(m) PROVE TypeOK'
  BY <1>3, SaveType, CallsType, OutboxAssumption
  DEF AskSnapshot, Calling, TypeOK, Ops, workerVars, stopVars, historyVars
<1>4. ASSUME NEW a \in Accounts, NEW m \in Sends, NEW p \in SUBSET Bodies,
             NEW next \in Snapshot, Mutate(a, m, p, next)
      PROVE  TypeOK'
  BY <1>4, SaveType, CallsType DEF Mutate, Calling, TypeOK, Ops, workerVars, stopVars, historyVars
<1>5. ASSUME NEW m \in Sends, Undo(m) PROVE TypeOK'
  BY <1>5, <1>4, SnapshotState, OutboxAssumption DEF Undo, TypeOK, States, Terminal
<1>6. ASSUME NEW m \in Sends, Forget(m) PROVE TypeOK'
  <2>1. Forgotten(mem[m]) \in Entry  BY DEF Forgotten, TypeOK, Snapshot, Entry
  <2>2. [mem EXCEPT ![m] = Forgotten(@)] \in Snapshot  BY <2>1, SnapshotExcept DEF TypeOK
  <2>. QED  BY <1>6, <1>4, <2>2, OutboxAssumption DEF Forget
<1>7. ASSUME NEW m \in Sends, NEW b \in Bodies, NEW d \in BOOLEAN, Enqueue(m, b, d)
      PROVE  TypeOK'
  <2>1. [mem EXCEPT ![m] = NewEntry(b, d)] \in Snapshot  BY NewEntryType, SnapshotExcept DEF TypeOK
  <2>. QED  BY <1>7, <1>4, <2>1, OutboxAssumption DEF Enqueue
<1>8. ASSUME NEW m \in Sends, NEW b \in Bodies, EnqueueReplay(m, b) PROVE TypeOK'
  BY <1>8, CallsType DEF EnqueueReplay, Calling, TypeOK, ownerVars, storageVars, workerVars,
              stopVars
<1>9. ASSUME NEW a \in Accounts, Flush(a) PROVE TypeOK'
  <2>1. Flushed(mem, a) \in Snapshot  BY FlushedType DEF TypeOK
  <2>2. Free.send \in Sends  BY DEF Lock
  <2>. QED  BY <1>9, <1>4, <2>1, <2>2 DEF Flush
<1>10. ASSUME NEW a \in Accounts, AbandonAccount(a) PROVE TypeOK'
  <2>1. Abandoned(mem, a) \in Snapshot  BY AbandonedType DEF TypeOK
  <2>2. Free.send \in Sends  BY DEF Lock
  <2>. QED  BY <1>10, <1>4, <2>1, <2>2 DEF AbandonAccount
<1>. QED  BY <1>1, <1>2, <1>3, <1>5, <1>6, <1>7, <1>8, <1>9, <1>10, OutboxAssumption DEF Call

LEMMA ReturnType ==
  ASSUME TypeOK, Return
  PROVE  TypeOK'
<1>. USE EmptyType
     DEF storageVars, workerVars, stopVars, envVars, historyVars, Release
<1>1. CASE LoadDone  BY <1>1 DEF LoadDone, TypeOK, Lock
<1>2. CASE SnapshotDone
  <2>1. mem[lock.send].state \in States  BY DEF TypeOK, Lock, Snapshot, Entry
  <2>2. told' \in [Sends -> States \cup {"none"}]  BY <1>2, <2>1 DEF SnapshotDone, TypeOK
  <2>. QED  BY <1>2, <2>2 DEF SnapshotDone, TypeOK
<1>3. CASE CommitSaved  BY <1>3 DEF CommitSaved, TypeOK, Lock
<1>4. CASE CommitFailed  BY <1>4 DEF CommitFailed, TypeOK
<1>5. CASE ClaimSaved  BY <1>5 DEF ClaimSaved, TypeOK, Lock
<1>6. CASE ClaimFailed
  <2>1. mem' \in Snapshot  BY <1>6, SnapshotState DEF ClaimFailed, TypeOK, Lock, States, Terminal
  <2>. QED  BY <1>6, <2>1 DEF ClaimFailed, TypeOK, Lock
<1>7. CASE SettleDone  BY <1>7 DEF SettleDone, TypeOK, Lock
<1>8. CASE StopDone  BY <1>8 DEF StopDone, TypeOK
<1>. QED  BY <1>1, <1>2, <1>3, <1>4, <1>5, <1>6, <1>7, <1>8 DEF Return

LEMMA WorkType ==
  ASSUME TypeOK, NEW a \in Accounts, Work(a)
  PROVE  TypeOK'
<1>. USE EmptyType
     DEF ownerVars, storageVars, workerVars, stopVars, envVars, historyVars
<1>1. CASE WorkerExit(a)  BY <1>1 DEF WorkerExit, TypeOK
<1>2. ASSUME NEW m \in Sends, Claim(a, m) PROVE TypeOK'
  <2>1. [mem EXCEPT ![m].state = "sending"] \in Snapshot  BY SnapshotState DEF TypeOK, States
  <2>. QED  BY <1>2, <2>1, SaveType DEF Claim, TypeOK, Ops
<1>3. ASSUME NEW answer \in {"sent", "failed", "lost"}, Settle(a, answer)
      PROVE  TypeOK'
  <2>. DEFINE m    == cur[a]
              next == [mem EXCEPT ![m] = Settled(@, answer)]
  <2>1. m \in Sends /\ Outcome(answer) \in States  BY DEF TypeOK, Outcome, States, Terminal
  <2>2. Settled(mem[m], answer) \in Entry  BY <2>1 DEF TypeOK, Settled, Snapshot, Entry
  <2>a. next \in Snapshot  BY <2>1, <2>2, SnapshotExcept DEF TypeOK
  <2>3. mem' = next /\ Save("settle", a, m, {}, next)  BY <1>3 DEF Settle
  <2>. HIDE DEF next, m
  <2>. QED  BY <1>3, <2>1, <2>a, <2>3, SaveType DEF Settle, TypeOK, Ops
<1>. QED  BY <1>1, <1>2, <1>3 DEF Work

LEMMA WriterType ==
  ASSUME TypeOK, NEW w \in writes, Writer(w)
  PROVE  TypeOK'
<1>1. w.seq \in Nat /\ w.value \in Snapshot  BY DEF TypeOK, Write
<1>2. ASSUME NEW r \in {"saved", "error"}, Report(w, r) PROVE lock' \in Lock  BY <1>2 DEF Report, TypeOK, Lock
<1>. USE DEF workerVars, stopVars, envVars, historyVars
<1>3. CASE WriterSkip(w)  BY <1>1, <1>2, <1>3 DEF Writer, WriterSkip, TypeOK
<1>4. CASE WriterCommit(w)  BY <1>1, <1>2, <1>4 DEF Writer, WriterCommit, TypeOK
<1>5. ASSUME NEW renamed \in BOOLEAN, WriterFail(w, renamed) PROVE TypeOK'  BY <1>1, <1>2, <1>5 DEF Writer, WriterFail, TypeOK
<1>. QED  BY <1>3, <1>4, <1>5 DEF Writer

LEMMA StopType ==
  ASSUME TypeOK, Stop
  PROVE  TypeOK'
<1>. USE EmptyType
     DEF ownerVars, storageVars, workerVars, stopVars, envVars, historyVars
<1>0. Free.account \in Accounts /\ Free.send \in Sends  BY DEF Lock
<1>1. CASE StopBegin  BY <1>1 DEF StopBegin, Running, TypeOK
<1>2. CASE StopDrain  BY <1>0, <1>2, QuiesceType, SaveType DEF StopDrain, TypeOK, Ops
<1>3. CASE StopUnloaded  BY <1>3 DEF StopUnloaded, TypeOK
<1>4. ASSUME NEW a \in Accounts, AbortWorker(a) PROVE TypeOK'  BY <1>0, <1>4 DEF AbortWorker, TypeOK
<1>. QED  BY <1>1, <1>2, <1>3, <1>4 DEF Stop

LEMMA EnvironmentType ==
  ASSUME TypeOK, Restart \/ \E m \in Sends : Elapse(m) \/ Provider(m)
  PROVE  TypeOK'
<1>. USE EmptyType
     DEF ownerVars, storageVars, workerVars, stopVars, envVars, historyVars
<1>1. CASE Restart
  <2>1. Free.send \in Sends  BY DEF Lock
  <2>2. restarts' \in 0..MaxRestarts  BY <1>1, OutboxAssumption DEF Restart, TypeOK
  <2>. QED  BY <1>1, <2>1, <2>2 DEF Restart, TypeOK
<1>2. ASSUME NEW m \in Sends, Elapse(m) PROVE TypeOK'  BY <1>2 DEF Elapse, TypeOK
<1>3. ASSUME NEW m \in Sends, Provider(m) PROVE TypeOK'  BY <1>3 DEF Provider, TypeOK
<1>. QED  BY <1>1, <1>2, <1>3

\* Every reachable state of the outbox is well formed: entries, pending writes,
\* the lock and the workers only ever hold what their types allow.
THEOREM TypeCorrect == Spec => []TypeOK
<1>1. Init => TypeOK
  <2>1. Free.send \in Sends  BY EmptyType DEF Lock
  <2>2. /\ 0 \in 0..MaxCalls /\ 0 \in 0..MaxRestarts /\ 0 \in Nat
        /\ "none" \in States \cup {"none"}
    BY OutboxAssumption
  <2>3. Init => /\ wire \in [Sends -> {"none", "inflight", "accepted", "refused"}]
                /\ attempts \in [Sends -> Nat]
                /\ promised \in [Sends -> SUBSET Bodies]
                /\ told \in [Sends -> States \cup {"none"}]
                /\ shown \in [Sends -> SUBSET Terminal]
    BY <2>2 DEF Init
  <2>4. Init => /\ mem \in Snapshot /\ disk \in Snapshot /\ lock \in Lock
                /\ writes \subseteq Write
                /\ pc \in [Accounts -> {"idle", "ready", "sending"}]
                /\ cur \in [Accounts -> Sends]
    BY <2>1, EmptyType DEF Init
  <2>. QED  BY <2>2, <2>3, <2>4 DEF Init, TypeOK
<1>2. TypeOK /\ [Next]_vars => TypeOK'
  <2>1. ASSUME TypeOK, UNCHANGED vars PROVE TypeOK'  BY <2>1 DEF TypeOK, vars
  <2>. QED
    BY <2>1, CallType, ReturnType, WorkType, WriterType, StopType, EnvironmentType
    DEF Next
<1>. QED  BY <1>1, <1>2, PTL DEF Spec

------------------------------------
(* What each operation saves is sound if memory, or the file, was *)

LEMMA SoundInterrupted ==
  ASSUME TypeOK, WireInv, NEW v \in Snapshot, Sound(v)
  PROVE  Sound(Recover(v)) /\ Sound(Quiesce(v))
<1>. SUFFICES ASSUME NEW m \in Sends
              PROVE  Fits(Recover(v)[m], m) /\ Fits(Quiesce(v)[m], m)
  BY DEF Sound
<1>1. Fits(v[m], m) /\ v[m] \in Entry  BY DEF Sound, Snapshot
<1>2. v[m].state = "queued" => attempts[m] = 0 /\ wire[m] = "none" /\ told[m] = "none"  BY <1>1 DEF Fits, WireInv, TypeOK, Terminal
<1>3. v[m].state = "sending" => told[m] = "none"  BY <1>1 DEF Fits, TypeOK, Terminal
<1>4. /\ Recover(v)[m].state = Interrupted(v[m].state)
      /\ Recover(v)[m].body = v[m].body
      /\ Recover(v)[m].ack = v[m].ack
      /\ Recover(v)[m].payload = (v[m].payload /\ v[m].state # "sent")
  BY <1>1 DEF Recover, Entry
<1>5. /\ Quiesce(v)[m].state = Interrupted(v[m].state)
      /\ Quiesce(v)[m].body = v[m].body
      /\ Quiesce(v)[m].ack = v[m].ack
      /\ Quiesce(v)[m].payload = v[m].payload
  BY <1>1 DEF Quiesce, Entry
<1>. QED  BY <1>1, <1>2, <1>3, <1>4, <1>5 DEF Fits, Interrupted

LEMMA RecoverClosed ==
  ASSUME NEW v \in Snapshot, NEW m \in Sends
  PROVE  Recover(v)[m].state \notin {"queued", "sending"}
BY DEF Recover, Snapshot, Entry, Interrupted

\* One entry replaced by an entry that fits.
LEMMA SoundExcept ==
  ASSUME NEW v \in Snapshot, NEW m \in Sends, NEW e, Sound(v), Fits(e, m)
  PROVE  Sound([v EXCEPT ![m] = e])
BY DEF Sound, Snapshot

LEMMA SoundUndo ==
  ASSUME TypeOK, WireInv, NEW m \in Sends, Sound(mem), mem[m].state = "queued"
  PROVE  Sound([mem EXCEPT ![m].state = "cancelled"])
<1>. DEFINE e == [mem[m] EXCEPT !.state = "cancelled"]
<1>1. Fits(mem[m], m) /\ mem[m] \in Entry  BY DEF Sound, TypeOK, Snapshot
<1>2. attempts[m] = 0 /\ wire[m] = "none" /\ told[m] = "none"  BY <1>1 DEF Fits, WireInv, TypeOK, Terminal
<1>3. /\ e.state = "cancelled" /\ e.body = mem[m].body
      /\ e.ack = mem[m].ack /\ e.payload = mem[m].payload
  BY <1>1 DEF Entry
<1>4. Fits(e, m)  BY <1>1, <1>2, <1>3 DEF Fits
<1>5. [mem EXCEPT ![m].state = "cancelled"] = [mem EXCEPT ![m] = e]  BY DEF TypeOK, Snapshot
<1>. QED  BY <1>4, <1>5, SoundExcept DEF TypeOK

LEMMA SoundClaim ==
  ASSUME TypeOK, WireInv, NEW m \in Sends, Sound(mem), mem[m].state = "queued"
  PROVE  Sound([mem EXCEPT ![m].state = "sending"])
<1>. DEFINE e == [mem[m] EXCEPT !.state = "sending"]
<1>1. Fits(mem[m], m) /\ mem[m] \in Entry  BY DEF Sound, TypeOK, Snapshot
<1>2. told[m] = "none"  BY <1>1 DEF Fits, TypeOK, Terminal
<1>3. /\ e.state = "sending" /\ e.body = mem[m].body
      /\ e.ack = mem[m].ack /\ e.payload = mem[m].payload
  BY <1>1 DEF Entry
<1>4. Fits(e, m)  BY <1>1, <1>2, <1>3 DEF Fits
<1>5. [mem EXCEPT ![m].state = "sending"] = [mem EXCEPT ![m] = e]  BY DEF TypeOK, Snapshot
<1>. QED  BY <1>4, <1>5, SoundExcept DEF TypeOK

LEMMA SoundForget ==
  ASSUME TypeOK, NEW m \in Sends, Sound(mem), mem[m].state \in Terminal
  PROVE  Sound([mem EXCEPT ![m] = Forgotten(@)])
<1>1. Fits(mem[m], m) /\ mem[m] \in Entry  BY DEF Sound, TypeOK, Snapshot
<1>2. /\ Forgotten(mem[m]).state = mem[m].state
      /\ Forgotten(mem[m]).body = mem[m].body
      /\ Forgotten(mem[m]).ack
  BY <1>1 DEF Forgotten, Entry
<1>3. Fits(Forgotten(mem[m]), m)  BY <1>1, <1>2 DEF Fits
<1>. QED  BY <1>3, SoundExcept DEF TypeOK

LEMMA SoundEnqueue ==
  ASSUME TypeOK, WireInv, NEW m \in Sends, NEW b \in Bodies, NEW d \in BOOLEAN,
         Sound(mem), mem[m].state = "absent"
  PROVE  Sound([mem EXCEPT ![m] = NewEntry(b, d)])
<1>1. Fits(mem[m], m)  BY DEF Sound
<1>2. attempts[m] = 0 /\ promised[m] = {} /\ told[m] = "none"  BY <1>1 DEF Fits, TypeOK, Terminal
<1>3. Fits(NewEntry(b, d), m)  BY <1>2 DEF Fits, NewEntry
<1>. QED  BY <1>3, SoundExcept DEF TypeOK

LEMMA SoundFlushed ==
  ASSUME TypeOK, NEW a, Sound(mem)
  PROVE  Sound(Flushed(mem, a))
<1>. SUFFICES ASSUME NEW m \in Sends PROVE Fits(Flushed(mem, a)[m], m)  BY DEF Sound
<1>1. Fits(mem[m], m) /\ mem[m] \in Entry  BY DEF Sound, TypeOK, Snapshot
<1>2. /\ Flushed(mem, a)[m].state = mem[m].state
      /\ Flushed(mem, a)[m].body = mem[m].body
      /\ Flushed(mem, a)[m].ack = mem[m].ack
      /\ Flushed(mem, a)[m].payload = mem[m].payload
  BY <1>1 DEF Flushed, Entry
<1>. QED  BY <1>1, <1>2 DEF Fits

LEMMA SoundAbandoned ==
  ASSUME TypeOK, WireInv, NEW a, Sound(mem)
  PROVE  Sound(Abandoned(mem, a))
<1>. SUFFICES ASSUME NEW m \in Sends PROVE Fits(Abandoned(mem, a)[m], m)  BY DEF Sound
<1>1. Fits(mem[m], m)  BY DEF Sound
<1>2. CASE m \in Queued(mem, a)
  <2>1. Abandoned(mem, a)[m] = [mem EXCEPT ![m].state = "cancelled"][m]  BY <1>2 DEF Abandoned, TypeOK, Snapshot
  <2>. QED  BY <1>2, <2>1, SoundUndo DEF Sound, Queued
<1>3. CASE m \notin Queued(mem, a)  BY <1>1, <1>3 DEF Abandoned
<1>. QED  BY <1>2, <1>3

------------------------------------
(* The inductive invariant: saves *)

\* Every operation that only starts a save preserves the invariant when the
\* copy it saves is sound and the lock's own invariant is established.
LEMMA SaveStep ==
  ASSUME TypeOK, CoreInv,
         NEW op \in Ops \ {"free"}, NEW a \in Accounts, NEW m \in Sends,
         NEW p \in SUBSET Bodies, NEW next \in Snapshot,
         Save(op, a, m, p, next),
         UNCHANGED <<mem, loaded, workerVars, stopVars, wire, historyVars>>,
         Sound(next), loaded => Agrees(next),
         op = "claim" => stage = "up" /\ pc[a] = "ready",
         op = "settle" => pc[a] = "sending",
         LockInv'
  PROVE  CoreInv'
<1>. USE DEF workerVars, stopVars, historyVars
<1>1. WriterInv'  BY DEF TypeOK, CoreInv, WriterInv, Held, Save, Write
<1>2. WorkerInv'  BY DEF CoreInv, WorkerInv, Save, Settling, Claiming, Ops
<1>3. WireInv' /\ FreshInv' /\ Honest(mem)'  BY DEF CoreInv, WireInv, FreshInv, Honest
<1>4. ASSUME NEW w \in writes', w.seq > committed', w \notin writes PROVE w.value = next  BY <1>4 DEF Save
<1>5. LiveInv'
  <2>1. Sound(disk)' /\ (loaded => Sound(mem))'  BY DEF CoreInv, LiveInv, Sound, Fits, Save
  <2>2. ASSUME NEW w \in writes', w.seq > committed' PROVE Sound(w.value)'
    <3>1. Sound(w.value)  BY <1>4, <2>2 DEF CoreInv, LiveInv, Save
    <3>. QED  BY <3>1 DEF Sound, Fits
  <2>. QED  BY <2>1, <2>2 DEF LiveInv
<1>6. AgreeInv'
  <2>1. (loaded => Agrees(disk))'  BY DEF CoreInv, AgreeInv, Agrees, Save
  <2>2. ASSUME NEW w \in writes', w.seq > committed', loaded PROVE Agrees(w.value)'
    <3>1. Agrees(w.value)  BY <1>4, <2>2 DEF CoreInv, AgreeInv, Save
    <3>. QED  BY <3>1 DEF Agrees
  <2>. QED  BY <2>1, <2>2 DEF AgreeInv
<1>. QED  BY <1>1, <1>2, <1>3, <1>5, <1>6 DEF CoreInv

LEMMA LoadInv ==
  ASSUME TypeOK, CoreInv, Load
  PROVE  CoreInv'
<1>1. Recover(disk) \in Snapshot /\ Sound(Recover(disk))  BY RecoverType, SoundInterrupted DEF TypeOK, CoreInv, LiveInv
<1>2. Free.account \in Accounts /\ Free.send \in Sends  BY EmptyType DEF Lock
<1>3. Save("load", Free.account, Free.send, {}, Recover(disk)) /\ ~loaded  BY DEF Load
<1>4. UNCHANGED <<mem, loaded, workerVars, stopVars, wire, historyVars>>  BY DEF Load, Calling
<1>5. LockInv'  BY <1>3, <1>4, RecoverClosed DEF LockInv, Save, TypeOK
<1>. QED  BY <1>1, <1>2, <1>3, <1>4, <1>5, SaveStep DEF Ops

LEMMA SnapshotInv ==
  ASSUME TypeOK, CoreInv, NEW m \in Sends, AskSnapshot(m)
  PROVE  CoreInv'
<1>1. Sound(mem) /\ Agrees(mem) /\ mem \in Snapshot  BY DEF AskSnapshot, CoreInv, LiveInv, Agrees, TypeOK
<1>2. AccountOf[m] \in Accounts  BY OutboxAssumption
<1>3. /\ Save("snapshot", AccountOf[m], m, {}, mem) /\ loaded
      /\ mem[m].state \in Terminal
  BY DEF AskSnapshot
<1>4. UNCHANGED <<mem, loaded, workerVars, stopVars, wire, historyVars>>  BY DEF AskSnapshot, Calling
<1>5. LockInv'  BY <1>3, <1>4 DEF LockInv, Save
<1>. QED  BY <1>1, <1>2, <1>3, <1>4, <1>5, SaveStep DEF Ops

\* A call that changes the queue only has to evolve it soundly.
LEMMA MutateInv ==
  ASSUME TypeOK, CoreInv, NEW a \in Accounts, NEW m \in Sends,
         NEW p \in SUBSET Bodies, NEW next \in Snapshot,
         Mutate(a, m, p, next), Sound(next), Evolves(mem, next, m, p),
         \A b \in p : next[m].state # "absent" /\ next[m].body = b
  PROVE  CoreInv'
<1>1. Save("commit", a, m, p, next) /\ loaded  BY DEF Mutate
<1>2. UNCHANGED <<mem, loaded, workerVars, stopVars, wire, historyVars>>  BY DEF Mutate, Calling
<1>3. LockInv'  BY <1>1, <1>2 DEF LockInv, Save, Evolves
<1>4. Agrees(next)  BY DEF Agrees, Evolves
<1>. QED  BY <1>1, <1>2, <1>3, <1>4, SaveStep DEF Ops

LEMMA CallInv ==
  ASSUME TypeOK, CoreInv, Call
  PROVE  CoreInv'
<1>a. ASSUME loaded PROVE Sound(mem) /\ mem \in Snapshot /\ WireInv  BY <1>a DEF CoreInv, LiveInv, TypeOK
<1>b. Free.send \in Sends  BY EmptyType DEF Lock
<1>1. CASE Load  BY <1>1, LoadInv
<1>2. CASE CallDropped
  BY <1>2 DEF CallDropped, Release, Free, CoreInv, WriterInv, Held, LockInv, WorkerInv,
       Settling, Claiming, WireInv, LiveInv, AgreeInv, FreshInv, Honest, Sound, Fits,
       Agrees, storageVars, workerVars, stopVars, envVars, historyVars
<1>3. ASSUME NEW m \in Sends, AskSnapshot(m) PROVE CoreInv'  BY <1>3, SnapshotInv
<1>4. ASSUME NEW m \in Sends, Undo(m) PROVE CoreInv'
  <2>. DEFINE next == [mem EXCEPT ![m].state = "cancelled"]
  <2>1. /\ mem[m].state = "queued" /\ loaded
        /\ Mutate(AccountOf[m], m, {}, next)
    BY <1>4 DEF Undo, Mutate
  <2>2. next \in Snapshot /\ Sound(next)  BY <2>1, <1>a, SoundUndo, SnapshotState DEF States, Terminal
  <2>3. Evolves(mem, next, m, {})  BY <2>1, <1>a DEF Evolves, Snapshot, Entry, Terminal
  <2>. QED  BY <2>1, <2>2, <2>3, MutateInv, OutboxAssumption
<1>5. ASSUME NEW m \in Sends, Forget(m) PROVE CoreInv'
  <2>. DEFINE next == [mem EXCEPT ![m] = Forgotten(@)]
  <2>1. /\ mem[m].state \in Terminal /\ loaded
        /\ Mutate(AccountOf[m], m, {}, next)
    BY <1>5 DEF Forget, Mutate
  <2>2. /\ Forgotten(mem[m]) \in Entry
        /\ Forgotten(mem[m]).state = mem[m].state
        /\ Forgotten(mem[m]).body = mem[m].body
    <3>1. mem[m] \in Entry  BY DEF TypeOK, Snapshot
    <3>. QED  BY <3>1 DEF Forgotten, Entry
  <2>3. next \in Snapshot /\ Sound(next)  BY <2>1, <2>2, <1>a, SoundForget, SnapshotExcept
  <2>4. Evolves(mem, next, m, {})  BY <2>1, <2>2, <1>a DEF Evolves, Snapshot, Terminal
  <2>. QED  BY <2>1, <2>3, <2>4, MutateInv, OutboxAssumption
<1>6. ASSUME NEW m \in Sends, NEW b \in Bodies, NEW d \in BOOLEAN, Enqueue(m, b, d)
      PROVE  CoreInv'
  <2>. DEFINE next == [mem EXCEPT ![m] = NewEntry(b, d)]
  <2>1. /\ mem[m].state = "absent" /\ loaded
        /\ Mutate(AccountOf[m], m, {b}, next)
    BY <1>6 DEF Enqueue, Mutate
  <2>2. /\ NewEntry(b, d) \in Entry
        /\ NewEntry(b, d).state = "queued" /\ NewEntry(b, d).body = b
    BY NewEntryType DEF NewEntry
  <2>3. next \in Snapshot /\ Sound(next)  BY <2>1, <2>2, <1>a, SoundEnqueue, SnapshotExcept
  <2>4. next[m] = NewEntry(b, d) /\ \A n \in Sends : n # m => next[n] = mem[n]  BY <2>1, <1>a DEF Snapshot
  <2>. HIDE DEF next
  <2>5. Evolves(mem, next, m, {b})  BY <2>1, <2>2, <2>4 DEF Evolves, Terminal
  <2>. QED  BY <2>1, <2>2, <2>3, <2>4, <2>5, MutateInv, OutboxAssumption
<1>7. ASSUME NEW m \in Sends, NEW b \in Bodies, EnqueueReplay(m, b) PROVE CoreInv'
  <2>1. /\ UNCHANGED <<mem, loaded, lock, disk, issued, committed, writes, pc, cur,
                      stage, doomed, wire, attempts, fresh, told>>
        /\ loaded /\ mem[m].state # "absent" /\ mem[m].body = b
        /\ promised' = [promised EXCEPT ![m] = @ \cup {b}]
    BY <1>7 DEF EnqueueReplay, Calling, ownerVars, storageVars, workerVars, stopVars
  <2>2. promised'[m] = promised[m] \cup {b}
        /\ \A n \in Sends : n # m => promised'[n] = promised[n]
    BY <2>1 DEF TypeOK
  <2>3. Sound(disk) /\ Agrees(disk) /\ Sound(mem)  BY <2>1 DEF CoreInv, LiveInv, AgreeInv
  <2>4. LiveInv'
    <3>1. Sound(disk)'  BY <2>1, <2>2, <2>3 DEF Sound, Fits, Agrees
    <3>2. Sound(mem)'  BY <2>1, <2>2, <2>3 DEF Sound, Fits
    <3>3. ASSUME NEW w \in writes', w.seq > committed' PROVE Sound(w.value)'
      <4>1. Sound(w.value) /\ Agrees(w.value)  BY <2>1, <3>3 DEF CoreInv, LiveInv, AgreeInv
      <4>. QED  BY <2>1, <2>2, <4>1 DEF Sound, Fits, Agrees
    <3>. QED  BY <3>1, <3>2, <3>3 DEF LiveInv
  <2>5. /\ WriterInv' /\ LockInv' /\ WorkerInv' /\ WireInv' /\ AgreeInv'
        /\ FreshInv' /\ Honest(mem)'
    BY <2>1 DEF CoreInv, WriterInv, Held, LockInv, Evolves, WorkerInv, Settling, Claiming,
         WireInv, AgreeInv, Agrees, FreshInv, Honest
  <2>. QED  BY <2>4, <2>5 DEF CoreInv
<1>8. ASSUME NEW a \in Accounts, Flush(a) PROVE CoreInv'
  <2>1. loaded /\ Mutate(a, Free.send, {}, Flushed(mem, a))  BY <1>8 DEF Flush, Mutate
  <2>2. Flushed(mem, a) \in Snapshot /\ Sound(Flushed(mem, a))  BY <2>1, <1>a, SoundFlushed, FlushedType
  <2>3. Evolves(mem, Flushed(mem, a), Free.send, {})  BY <2>1, <1>a DEF Evolves, Flushed, Snapshot, Entry
  <2>. QED  BY <1>b, <2>1, <2>2, <2>3, MutateInv
<1>9. ASSUME NEW a \in Accounts, AbandonAccount(a) PROVE CoreInv'
  <2>1. loaded /\ Mutate(a, Free.send, {}, Abandoned(mem, a))  BY <1>9 DEF AbandonAccount, Mutate
  <2>2. Abandoned(mem, a) \in Snapshot /\ Sound(Abandoned(mem, a))  BY <2>1, <1>a, SoundAbandoned, AbandonedType
  <2>3. Evolves(mem, Abandoned(mem, a), Free.send, {})  BY <2>1, <1>a DEF Evolves, Abandoned, Queued, Snapshot, Entry, Terminal
  <2>. QED  BY <1>b, <2>1, <2>2, <2>3, MutateInv
<1>. QED  BY <1>1, <1>2, <1>3, <1>4, <1>5, <1>6, <1>7, <1>8, <1>9, OutboxAssumption DEF Call

------------------------------------
(* The inductive invariant: workers and shutdown *)

\* A save of a copy that memory already became, with nothing forgotten.
LEMMA SaveChanged ==
  ASSUME TypeOK, CoreInv, loaded,
         NEW op \in {"settle", "stop"}, NEW a \in Accounts, NEW m \in Sends,
         NEW next \in Snapshot,
         Save(op, a, m, {}, next),
         mem' = next,
         UNCHANGED <<loaded, stopVars, wire, historyVars>>,
         Sound(next), Honest(next),
         \A n \in Sends : /\ next[n].state = "absent" <=> mem[n].state = "absent"
                          /\ next[n].body = mem[n].body
                          /\ next[n].state = "queued" => mem[n].state = "queued"
  PROVE  WriterInv' /\ WireInv' /\ LiveInv' /\ AgreeInv' /\ FreshInv' /\ Honest(mem)'
<1>. USE DEF stopVars, historyVars
<1>1. WriterInv'  BY DEF TypeOK, CoreInv, WriterInv, Held, Save, Write
<1>a. /\ mem' = next /\ loaded' /\ disk' = disk /\ wire' = wire
      /\ attempts' = attempts /\ promised' = promised /\ told' = told
      /\ fresh' = fresh /\ committed' = committed
  BY DEF Save
<1>2. WireInv'  BY <1>a DEF CoreInv, WireInv
<1>b. FreshInv'  BY <1>a DEF CoreInv, FreshInv
<1>c. Honest(mem)'  BY <1>a DEF Honest
<1>3. ASSUME NEW w \in writes', w.seq > committed', w \notin writes PROVE w.value = next  BY <1>3 DEF Save
<1>4. LiveInv'
  <2>1. Sound(disk)' /\ Sound(mem)'  BY DEF CoreInv, LiveInv, Sound, Fits, Save
  <2>2. ASSUME NEW w \in writes', w.seq > committed' PROVE Sound(w.value)'
    <3>1. Sound(w.value)  BY <1>3, <2>2 DEF CoreInv, LiveInv, Save
    <3>. QED  BY <3>1 DEF Sound, Fits
  <2>. QED  BY <2>1, <2>2 DEF LiveInv
<1>5. AgreeInv'
  <2>1. Agrees(disk)'
    <3>1. Agrees(disk)  BY DEF CoreInv, AgreeInv
    <3>. QED  BY <3>1, <1>a DEF Agrees
  <2>2. ASSUME NEW w \in writes', w.seq > committed' PROVE Agrees(w.value)'
    <3>1. CASE w \in writes
      <4>1. Agrees(w.value)  BY <1>a, <2>2, <3>1 DEF CoreInv, AgreeInv
      <4>. QED  BY <4>1, <1>a DEF Agrees
    <3>2. CASE w \notin writes  BY <1>a, <1>3, <2>2, <3>2 DEF Agrees
    <3>. QED  BY <3>1, <3>2
  <2>. QED  BY <2>1, <2>2 DEF AgreeInv
<1>. QED  BY <1>1, <1>2, <1>b, <1>c, <1>4, <1>5

LEMMA WorkInv ==
  ASSUME TypeOK, CoreInv, NEW a \in Accounts, Work(a)
  PROVE  CoreInv'
<1>1. CASE WorkerExit(a)
  BY <1>1 DEF WorkerExit, CoreInv, WriterInv, Held, LockInv, WorkerInv, Settling, Claiming,
       WireInv, LiveInv, AgreeInv, FreshInv, Honest, Sound, Fits, Agrees, TypeOK,
       ownerVars, storageVars, envVars, historyVars
<1>2. ASSUME NEW m \in Sends, Claim(a, m) PROVE CoreInv'
  <2>. DEFINE next == [mem EXCEPT ![m].state = "sending"]
  <2>1. /\ Save("claim", a, m, {}, next)
        /\ pc[a] = "ready" /\ stage = "up"
        /\ mem[m].state = "queued" /\ AccountOf[m] = a
    BY <1>2 DEF Claim, IsHead, Queued
  <2>2. UNCHANGED <<mem, loaded, workerVars, stopVars, wire, historyVars>>  BY <1>2 DEF Claim, envVars
  <2>3. loaded  BY <2>1 DEF CoreInv, WorkerInv
  <2>4. next \in Snapshot /\ Sound(next)  BY <2>1, <2>3, SoundClaim, SnapshotState DEF CoreInv, LiveInv, TypeOK, States
  <2>5. Agrees(next)  BY <2>1 DEF Agrees, TypeOK, Snapshot, Entry
  <2>6. LockInv'  BY <2>1, <2>2, <2>3 DEF LockInv, Save, workerVars
  <2>. HIDE DEF next
  <2>. QED  BY <2>1, <2>2, <2>3, <2>4, <2>5, <2>6, SaveStep DEF Ops
<1>3. ASSUME NEW answer \in {"sent", "failed", "lost"}, Settle(a, answer) PROVE CoreInv'
  <2>. DEFINE m    == cur[a]
              e    == Settled(mem[m], answer)
              next == [mem EXCEPT ![m] = e]
  <2>1. /\ Save("settle", a, m, {}, next) /\ mem' = next
        /\ pc[a] = "sending" /\ answer \in Answers(m) /\ lock.op = "free"
        /\ UNCHANGED <<loaded, workerVars, stopVars, wire, historyVars>>
    BY <1>3 DEF Settle, Save, envVars
  <2>2. m \in Sends /\ AccountOf[m] = a /\ mem[m].state = "sending" /\ loaded  BY <2>1 DEF CoreInv, WorkerInv, Settling, TypeOK
  <2>3. mem[m] \in Entry /\ Fits(mem[m], m) /\ Sound(mem)  BY <2>2 DEF CoreInv, LiveInv, Sound, TypeOK, Snapshot
  <2>4. /\ e.state = Outcome(answer) /\ e.body = mem[m].body /\ e.ack = mem[m].ack
        /\ e.payload = (mem[m].payload /\ answer # "sent")
        /\ Outcome(answer) \in {"sent", "failed", "unknown"}
    BY <2>3 DEF Settled, Entry, Outcome
  <2>5. /\ e.state = "sent" => wire[m] = "accepted"
        /\ e.state = "failed" => wire[m] = "refused"
        /\ e.state = "sent" <=> answer = "sent"
    BY <2>1, <2>4 DEF Answers, Outcome
  <2>6. e \in Entry /\ next \in Snapshot  BY <2>2, <2>3, <2>4, SnapshotExcept DEF Settled, Entry, States, Terminal, TypeOK
  <2>7. Fits(e, m)  BY <2>2, <2>3, <2>4, <2>5 DEF Fits, Terminal
  <2>8. Sound(next)  BY <2>2, <2>3, <2>7, SoundExcept DEF TypeOK
  <2>9. next[m] = e /\ \A n \in Sends : n # m => next[n] = mem[n]  BY <2>2 DEF TypeOK, Snapshot
  <2>. HIDE DEF next, e, m
  <2>10. Honest(next)  BY <2>4, <2>5, <2>9 DEF CoreInv, Honest
  <2>11. \A n \in Sends : /\ next[n].state = "absent" <=> mem[n].state = "absent"
                          /\ next[n].body = mem[n].body
                          /\ next[n].state = "queued" => mem[n].state = "queued"
    BY <2>2, <2>4, <2>9
  <2>12. LockInv'  BY <2>1, <2>2 DEF LockInv, Save, workerVars
  <2>13. WorkerInv'
    <3>1. ASSUME NEW c \in Accounts, pc[c] = "sending", c # a
          PROVE  mem'[cur[c]] = mem[cur[c]]
      BY <2>1, <2>2, <2>9, <3>1 DEF CoreInv, WorkerInv, TypeOK
    <3>. QED  BY <2>1, <2>2, <3>1
              DEF CoreInv, WorkerInv, Settling, Claiming, Save, workerVars, stopVars
  <2>. QED  BY <2>1, <2>2, <2>6, <2>8, <2>10, <2>11, <2>12, <2>13, SaveChanged DEF CoreInv
<1>. QED  BY <1>1, <1>2, <1>3 DEF Work

LEMMA StopInv ==
  ASSUME TypeOK, CoreInv, Stop
  PROVE  CoreInv'
<1>1. CASE StopBegin
  BY <1>1 DEF StopBegin, Running, CoreInv, WriterInv, Held, LockInv, WorkerInv, Settling,
       Claiming, WireInv, LiveInv, AgreeInv, FreshInv, Honest, Sound, Fits, Agrees,
       TypeOK, Lock, ownerVars, storageVars, workerVars, envVars, historyVars, Evolves
<1>2. CASE StopDrain
  <2>1. /\ Save("stop", Free.account, Free.send, {}, Quiesce(mem))
        /\ mem' = Quiesce(mem) /\ loaded /\ stage = "stopping" /\ doomed = {}
        /\ UNCHANGED <<loaded, workerVars, stopVars, wire, historyVars>>
        /\ Free.account \in Accounts /\ Free.send \in Sends
    BY <1>2, EmptyType DEF StopDrain, envVars, Lock
  <2>2. Quiesce(mem) \in Snapshot /\ Sound(Quiesce(mem))  BY <2>1, QuiesceType, SoundInterrupted DEF CoreInv, LiveInv, TypeOK
  <2>3. \A n \in Sends : /\ Quiesce(mem)[n].state = Interrupted(mem[n].state)
                         /\ Quiesce(mem)[n].body = mem[n].body
    BY DEF Quiesce, TypeOK, Snapshot, Entry
  <2>4. \A n \in Sends : mem[n].state = "queued" => wire[n] = "none"  BY <2>1 DEF CoreInv, LiveInv, Sound, Fits, WireInv, TypeOK
  <2>5. Honest(Quiesce(mem))  BY <2>3, <2>4 DEF CoreInv, Honest, Interrupted
  <2>6. LockInv' /\ WorkerInv'  BY <2>1 DEF LockInv, WorkerInv, CoreInv, Save, Settling, Claiming, workerVars, stopVars
  <2>. QED  BY <2>1, <2>2, <2>3, <2>5, <2>6, SaveChanged DEF CoreInv, Interrupted
<1>3. CASE StopUnloaded
  BY <1>3 DEF StopUnloaded, CoreInv, WriterInv, Held, LockInv, WorkerInv, Settling,
       Claiming, WireInv, LiveInv, AgreeInv, FreshInv, Honest, Sound, Fits, Agrees,
       ownerVars, storageVars, workerVars, envVars, historyVars, Evolves
<1>4. ASSUME NEW a \in Accounts, AbortWorker(a) PROVE CoreInv'
  <2>1. /\ UNCHANGED <<mem, loaded, stage, disk, issued, committed, writes, wire,
                      attempts, fresh, promised, told>>
        /\ \/ lock' = Free /\ (Claiming(a) \/ Settling(a))
           \/ lock' = lock /\ ~Claiming(a) /\ ~Settling(a)
        /\ pc' = [pc EXCEPT ![a] = "idle"]
        /\ doomed' = doomed \ {a}
        /\ cur' = [cur EXCEPT ![a] = Free.send]
        /\ Free.op = "free"
    BY <1>4 DEF AbortWorker, Claiming, Settling, storageVars, envVars, historyVars, Free
  <2>2. LockInv'  BY <2>1 DEF CoreInv, LockInv, Claiming, Settling, TypeOK, Lock, Evolves
  <2>3. WorkerInv'  BY <2>1 DEF CoreInv, WorkerInv, Claiming, Settling, TypeOK, Lock
  <2>. QED
    BY <2>1, <2>2, <2>3 DEF CoreInv, WriterInv, Held, WireInv, LiveInv, AgreeInv, FreshInv,
         Honest, Sound, Fits, Agrees
<1>. QED  BY <1>1, <1>2, <1>3, <1>4 DEF Stop

------------------------------------
(* The inductive invariant: the outcome of a save *)

LEMMA FreeOp == Free.op = "free"
  BY DEF Free

\* A save that succeeded is the newest and is what the file holds; no write
\* left behind can follow it.
LEMMA SavedIsLast ==
  ASSUME TypeOK, CoreInv, lock.op # "free", lock.result = "saved"
  PROVE  /\ disk = lock.next /\ committed = issued
         /\ \A w \in writes : ~(w.seq > committed)
         /\ Sound(lock.next) /\ lock.next \in Snapshot
<1>1. disk = lock.next /\ committed = issued  BY DEF CoreInv, WriterInv, Held
<1>2. \A w \in writes : w.seq \in Nat /\ w.seq <= issued  BY DEF TypeOK, Write, CoreInv, WriterInv
<1>. QED  BY <1>1, <1>2 DEF TypeOK, CoreInv, LiveInv

LEMMA LoadDoneInv ==
  ASSUME TypeOK, CoreInv, LoadDone
  PROVE  CoreInv'
<1>1. /\ lock.op = "load" /\ ~loaded /\ lock' = Free
      /\ UNCHANGED <<storageVars, workerVars, stopVars, envVars, historyVars>>
  BY DEF LoadDone, Release, CoreInv, LockInv
<1>. USE <1>1, FreeOp DEF storageVars, workerVars, stopVars, envVars, historyVars
<1>2. \A a \in Accounts : pc[a] = "idle"  BY DEF CoreInv, WorkerInv, TypeOK
<1>3. /\ WriterInv' /\ LockInv' /\ WorkerInv' /\ WireInv'
  BY <1>2 DEF CoreInv, WriterInv, Held, LockInv, WorkerInv, Settling, Claiming, WireInv
<1>4. CASE lock.result = "saved" /\ mem' = lock.next
  <2>1. /\ disk = mem' /\ Sound(lock.next)
        /\ \A w \in writes : ~(w.seq > committed)
    BY <1>4, SavedIsLast
  <2>2. Honest(mem)'  BY <1>4, <2>1 DEF Honest, Sound, Fits, CoreInv, WireInv, LockInv, TypeOK
  <2>3. LiveInv' /\ AgreeInv'  BY <1>4, <2>1 DEF LiveInv, AgreeInv, CoreInv, Sound, Fits, Agrees
  <2>4. FreshInv'  BY <1>4 DEF FreshInv, CoreInv, LockInv
  <2>. QED  BY <1>3, <2>2, <2>3, <2>4 DEF CoreInv
<1>5. CASE UNCHANGED <<mem, loaded>>  BY <1>3, <1>5 DEF CoreInv, LiveInv, AgreeInv, FreshInv, Honest, Sound, Fits, Agrees
<1>. QED  BY <1>4, <1>5 DEF LoadDone

LEMMA SnapshotDoneInv ==
  ASSUME TypeOK, CoreInv, SnapshotDone
  PROVE  CoreInv'
<1>. DEFINE m == lock.send
<1>1. /\ lock.op = "snapshot" /\ loaded /\ lock' = Free /\ m \in Sends
      /\ lock.next = mem /\ mem[m].state \in Terminal
      /\ UNCHANGED <<mem, loaded, attempts, fresh, promised, shown,
                    storageVars, workerVars, stopVars, envVars>>
  BY DEF SnapshotDone, Release, CoreInv, LockInv, TypeOK, Lock
<1>. USE <1>1, FreeOp DEF storageVars, workerVars, stopVars, envVars
<1>2. /\ WriterInv' /\ LockInv' /\ WorkerInv' /\ WireInv' /\ AgreeInv' /\ FreshInv'
      /\ Honest(mem)'
  BY DEF CoreInv, WriterInv, Held, LockInv, WorkerInv, Settling, Claiming, WireInv,
         AgreeInv, Agrees, FreshInv, Honest
<1>3. CASE lock.result = "saved" /\ told' = [told EXCEPT ![m] = mem[m].state]
  <2>1. /\ disk = mem /\ Sound(mem)
        /\ \A w \in writes : ~(w.seq > committed)
    BY <1>3, SavedIsLast
  <2>2. Sound(mem)'  BY <1>3, <2>1 DEF Sound, Fits, TypeOK
  <2>. QED  BY <1>2, <2>1, <2>2 DEF CoreInv, LiveInv
<1>4. CASE UNCHANGED told  BY <1>2, <1>4 DEF CoreInv, LiveInv, Sound, Fits
<1>. QED  BY <1>3, <1>4 DEF SnapshotDone

LEMMA CommitSavedInv ==
  ASSUME TypeOK, CoreInv, CommitSaved
  PROVE  CoreInv'
<1>. DEFINE m == lock.send
<1>1. /\ lock.op = "commit" /\ lock.result = "saved" /\ loaded /\ lock' = Free
      /\ mem' = lock.next /\ m \in Sends /\ lock.next \in Snapshot
      /\ Evolves(mem, lock.next, m, lock.promise)
      /\ \A b \in lock.promise : lock.next[m].state # "absent" /\ lock.next[m].body = b
      /\ promised' = [promised EXCEPT ![m] = @ \cup lock.promise]
      /\ fresh' = IF lock.promise = {} THEN fresh ELSE fresh \cup {m}
      /\ UNCHANGED <<loaded, cur, attempts, told, storageVars, stopVars, envVars>>
  BY DEF CommitSaved, Release, CoreInv, LockInv, TypeOK, Lock
<1>2. /\ disk = lock.next /\ Sound(lock.next)
      /\ \A w \in writes : ~(w.seq > committed)
  BY <1>1, SavedIsLast
<1>3. \A a \in Accounts : pc'[a] = pc[a] \/ pc'[a] = "ready"  BY DEF CommitSaved, TypeOK
<1>. USE <1>1, FreeOp DEF storageVars, stopVars, envVars
<1>4. WriterInv' /\ LockInv' /\ WireInv'  BY DEF CoreInv, WriterInv, Held, LockInv, WireInv
<1>5. WorkerInv'  BY <1>3 DEF CoreInv, WorkerInv, Settling, Claiming, Evolves, TypeOK
<1>6. FreshInv'  BY DEF CoreInv, FreshInv, Evolves
<1>7. Sound(mem)'  BY <1>2 DEF Sound, Fits, TypeOK
<1>8. LiveInv' /\ AgreeInv'  BY <1>2, <1>7 DEF LiveInv, AgreeInv, Agrees
<1>9. Honest(mem)'  BY <1>2 DEF Honest, Sound, Fits, CoreInv, WireInv, TypeOK
<1>. QED  BY <1>4, <1>5, <1>6, <1>8, <1>9 DEF CoreInv

LEMMA ClaimSavedInv ==
  ASSUME TypeOK, CoreInv, ClaimSaved
  PROVE  CoreInv'
<1>. DEFINE a == lock.account
            m == lock.send
<1>1. /\ lock.op = "claim" /\ lock.result = "saved" /\ loaded /\ lock' = Free
      /\ a \in Accounts /\ m \in Sends /\ AccountOf[m] = a /\ pc[a] = "ready"
      /\ mem' = lock.next /\ lock.next = [mem EXCEPT ![m].state = "sending"]
      /\ mem[m].state = "queued"
      /\ pc' = [pc EXCEPT ![a] = "sending"] /\ cur' = [cur EXCEPT ![a] = m]
      /\ attempts' = [attempts EXCEPT ![m] = @ + 1]
      /\ wire' = [wire EXCEPT ![m] = "inflight"]
      /\ UNCHANGED <<loaded, workers, storageVars, stopVars, fresh, promised, told>>
  BY DEF ClaimSaved, Release, CoreInv, LockInv, TypeOK, Lock
<1>2. /\ disk = lock.next /\ Sound(lock.next)
      /\ \A w \in writes : ~(w.seq > committed)
  BY <1>1, SavedIsLast
<1>3. Sound(mem) /\ mem[m].state = "queued"  BY <1>1 DEF CoreInv, LiveInv
<1>4. attempts[m] = 0 /\ wire[m] = "none"  BY <1>1, <1>3 DEF Sound, Fits, CoreInv, WireInv, TypeOK
<1>5. /\ mem'[m].state = "sending"
      /\ \A n \in Sends : n # m => mem'[n] = mem[n] /\ wire'[n] = wire[n]
                                                 /\ attempts'[n] = attempts[n]
      /\ wire'[m] = "inflight" /\ attempts'[m] = 1
  BY <1>1, <1>4 DEF TypeOK, Snapshot, Entry
<1>6. mem' = lock.next /\ promised' = promised /\ told' = told  BY <1>1
<1>7. Sound(mem)'
  <2>1. Fits(lock.next[m], m) /\ lock.next[m].state = "sending"  BY <1>1, <1>2, <1>5 DEF Sound
  <2>2. ASSUME NEW n \in Sends, n = m PROVE Fits(mem[n], n)'  BY <1>6, <2>1, <2>2 DEF Fits
  <2>3. ASSUME NEW n \in Sends, n # m PROVE Fits(mem[n], n)'  BY <1>2, <1>5, <1>6, <2>3 DEF Sound, Fits
  <2>. QED  BY <2>2, <2>3 DEF Sound
<1>. USE <1>1, FreeOp DEF storageVars, stopVars
<1>8. WriterInv' /\ LockInv'  BY DEF CoreInv, WriterInv, Held, LockInv
<1>9. WorkerInv'
  <2>1. \A c \in Accounts : c # a /\ pc[c] = "sending" => cur[c] # m  BY DEF CoreInv, WorkerInv
  <2>. QED  BY <1>5, <2>1 DEF CoreInv, WorkerInv, Settling, Claiming, TypeOK
<1>10. WireInv'  BY <1>4, <1>5 DEF CoreInv, WireInv, TypeOK
<1>11. LiveInv' /\ AgreeInv'  BY <1>2, <1>7 DEF LiveInv, AgreeInv, Agrees
<1>12. FreshInv'  BY <1>5 DEF CoreInv, FreshInv
<1>13. Honest(mem)'  BY <1>5 DEF CoreInv, Honest
<1>. QED  BY <1>8, <1>9, <1>10, <1>11, <1>12, <1>13 DEF CoreInv

LEMMA ClaimFailedInv ==
  ASSUME TypeOK, CoreInv, ClaimFailed
  PROVE  CoreInv'
<1>. DEFINE a == lock.account
            m == lock.send
<1>1. /\ lock.op = "claim" /\ loaded /\ lock' = Free
      /\ a \in Accounts /\ m \in Sends /\ AccountOf[m] = a /\ pc[a] = "ready"
      /\ mem' = [mem EXCEPT ![m].state = "failed"] /\ mem[m].state = "queued"
      /\ pc' = [pc EXCEPT ![a] = "idle"] /\ doomed' = doomed \ {a}
      /\ UNCHANGED <<loaded, cur, stage, storageVars, envVars, historyVars>>
  BY DEF ClaimFailed, Release, CoreInv, LockInv, TypeOK, Lock
<1>2. /\ mem'[m].state = "failed"
      /\ \A n \in Sends : n # m => mem'[n] = mem[n]
      /\ mem'[m] = [mem[m] EXCEPT !.state = "failed"]
  BY <1>1 DEF TypeOK, Snapshot, Entry
<1>3. Sound(mem) /\ mem[m] \in Entry /\ Fits(mem[m], m)  BY <1>1 DEF CoreInv, LiveInv, Sound, TypeOK, Snapshot
<1>. USE <1>1, FreeOp DEF storageVars, envVars, historyVars
<1>4. WriterInv' /\ LockInv' /\ WireInv'  BY DEF CoreInv, WriterInv, Held, LockInv, WireInv
<1>5. WorkerInv'
  <2>1. \A c \in Accounts : c # a /\ pc[c] = "sending" => cur[c] # m  BY DEF CoreInv, WorkerInv
  <2>. QED  BY <1>2, <2>1 DEF CoreInv, WorkerInv, Settling, Claiming, TypeOK
<1>6. attempts[m] = 0 /\ wire[m] = "none" /\ told[m] = "none"  BY <1>3 DEF Fits, CoreInv, WireInv, TypeOK, Terminal
<1>7. Fits(mem'[m], m)  BY <1>2, <1>3, <1>6 DEF Fits, Entry
<1>8. Sound(mem)'  BY <1>2, <1>3, <1>7 DEF Sound, Fits
<1>9. LiveInv'  BY <1>8 DEF CoreInv, LiveInv, Sound, Fits
<1>10. AgreeInv'  BY <1>2, <1>3 DEF CoreInv, AgreeInv, Agrees, Entry
<1>11. FreshInv'  BY <1>2 DEF CoreInv, FreshInv
<1>12. Honest(mem)'  BY <1>2, <1>6 DEF CoreInv, Honest
<1>. QED  BY <1>4, <1>5, <1>9, <1>10, <1>11, <1>12 DEF CoreInv

\* The returns that only let go of the lock, or move a worker on.
LEMMA ReleaseInv ==
  ASSUME TypeOK, CoreInv, CommitFailed \/ SettleDone \/ StopDone
  PROVE  CoreInv'
<1>1. /\ lock' = Free
      /\ UNCHANGED <<mem, loaded, workers, storageVars, envVars, historyVars>>
  BY DEF CommitFailed, SettleDone, StopDone, Release, workerVars
<1>. USE <1>1, FreeOp DEF storageVars, envVars, historyVars
<1>2. /\ WriterInv' /\ LockInv' /\ WireInv' /\ LiveInv' /\ AgreeInv' /\ FreshInv'
      /\ Honest(mem)'
  BY DEF CoreInv, WriterInv, Held, LockInv, WireInv, LiveInv, AgreeInv, FreshInv, Honest,
         Sound, Fits, Agrees
<1>3. ASSUME CommitFailed PROVE WorkerInv'
  <2>1. /\ lock.op = "commit"
        /\ UNCHANGED <<pc, cur, stage, doomed>>
    BY <1>3 DEF CommitFailed, workerVars, stopVars
  <2>. QED  BY <2>1 DEF CoreInv, WorkerInv, Settling, Claiming
<1>4. ASSUME SettleDone PROVE WorkerInv'
  BY <1>4 DEF SettleDone, CoreInv, WorkerInv, Settling, Claiming, LockInv, TypeOK, Lock,
              stopVars
<1>5. ASSUME StopDone PROVE WorkerInv'
  <2>1. /\ lock.op = "stop" /\ stage # "up"
        /\ UNCHANGED <<pc, cur, doomed>>
    BY <1>5 DEF StopDone, CoreInv, LockInv, workerVars
  <2>. QED  BY <2>1 DEF CoreInv, WorkerInv, Settling, Claiming
<1>6. WorkerInv'  BY <1>3, <1>4, <1>5
<1>. QED  BY <1>2, <1>6 DEF CoreInv

LEMMA ReturnInv ==
  ASSUME TypeOK, CoreInv, Return
  PROVE  CoreInv'
BY LoadDoneInv, SnapshotDoneInv, CommitSavedInv, ClaimSavedInv, ClaimFailedInv,
   ReleaseInv DEF Return

------------------------------------
(* The inductive invariant: the writer and the environment *)

\* Whatever order writes run in, a write that is not newer than the file is
\* dropped and a newer one leaves only newer ones alive.
LEMMA WriterStep ==
  ASSUME TypeOK, CoreInv, NEW w \in writes, Writer(w)
  PROVE  CoreInv'
<1>1. /\ UNCHANGED <<mem, loaded, workerVars, stopVars, envVars, historyVars>>
      /\ writes' = writes \ {w} /\ issued' = issued
      /\ w.seq \in Nat /\ w.seq <= issued /\ issued \in Nat /\ committed \in Nat
      /\ \A x \in writes : x.seq \in Nat
  BY DEF Writer, WriterSkip, WriterCommit, WriterFail, TypeOK, Write, CoreInv, WriterInv
<1>2. /\ lock'.op = lock.op /\ lock'.account = lock.account /\ lock'.send = lock.send
      /\ lock'.promise = lock.promise /\ lock'.next = lock.next
  BY DEF Writer, WriterSkip, WriterCommit, WriterFail, Report, TypeOK, Lock
<1>3. /\ disk' = disk \/ (w.seq > committed /\ disk' = w.value)
      /\ committed' = committed \/ (w.seq > committed /\ committed' = w.seq)
  BY DEF Writer, WriterSkip, WriterCommit, WriterFail
<1>. USE <1>1 DEF workerVars, stopVars, envVars, historyVars
<1>4. WireInv' /\ FreshInv' /\ Honest(mem)'  BY DEF CoreInv, WireInv, FreshInv, Honest
<1>5. LockInv' /\ WorkerInv'  BY <1>2 DEF CoreInv, LockInv, Evolves, WorkerInv, Settling, Claiming
<1>6. Sound(disk) /\ (w.seq > committed => Sound(w.value))
      /\ (loaded => Agrees(disk) /\ (w.seq > committed => Agrees(w.value)))
  BY DEF CoreInv, LiveInv, AgreeInv
<1>7. \A x \in writes' : x.seq > committed' => x \in writes /\ x.seq > committed  BY <1>3
<1>8. LiveInv'
  <2>1. Sound(disk')  BY <1>3, <1>6
  <2>2. \A x \in writes' : x.seq > committed' => Sound(x.value)  BY <1>7 DEF CoreInv, LiveInv
  <2>. QED  BY <2>1, <2>2 DEF CoreInv, LiveInv, Sound, Fits
<1>9. AgreeInv'
  <2>1. loaded => Agrees(disk')  BY <1>3, <1>6
  <2>2. \A x \in writes' : loaded /\ x.seq > committed' => Agrees(x.value)  BY <1>7 DEF CoreInv, AgreeInv
  <2>. QED  BY <2>1, <2>2 DEF AgreeInv, Agrees
<1>10. WriterInv'
  <2>1. WriterInv  BY DEF CoreInv
  <2>2. CASE lock.op = "free"  BY <1>2, <1>3, <2>1, <2>2 DEF WriterInv, Held
  <2>3. CASE lock.op # "free" /\ lock.result = "writing" /\ w.seq = issued
    <3>1. w = [seq |-> issued, value |-> lock.next] /\ committed < issued  BY <2>1, <2>3 DEF WriterInv, Held
    <3>2. \/ lock'.result = "saved" /\ committed' = issued /\ disk' = lock.next
          \/ lock'.result = "error"
      BY <2>3, <3>1 DEF Writer, WriterSkip, WriterCommit, WriterFail, Report, TypeOK, Lock
    <3>3. \A x \in writes' : x.seq # issued  BY <2>1, <2>3 DEF WriterInv
    <3>. QED  BY <1>2, <1>3, <2>1, <3>2, <3>3 DEF WriterInv, Held
  <2>4. CASE lock.op # "free" /\ lock.result = "writing" /\ w.seq # issued
    <3>1. lock' = lock  BY <2>4 DEF Writer, WriterSkip, WriterCommit, WriterFail, Report
    <3>. QED  BY <1>3, <2>1, <2>4, <3>1 DEF WriterInv, Held
  <2>5. CASE lock.op # "free" /\ lock.result = "saved"
    <3>1. committed = issued /\ ~(w.seq > committed)  BY <2>1, <2>5 DEF WriterInv, Held
    <3>2. lock'.result = "saved" /\ disk' = disk /\ committed' = committed
      BY <2>5, <3>1 DEF Writer, WriterSkip, WriterCommit, WriterFail, Report, TypeOK, Lock
    <3>. QED  BY <1>2, <2>1, <2>5, <3>1, <3>2 DEF WriterInv, Held
  <2>6. CASE lock.op # "free" /\ lock.result = "error"
    <3>1. lock' = lock /\ \A x \in writes : x.seq # issued
      BY <2>1, <2>6 DEF Writer, WriterSkip, WriterCommit, WriterFail, Report, WriterInv,
                        Held
    <3>. QED  BY <1>3, <2>1, <2>6, <3>1 DEF WriterInv, Held
  <2>. QED  BY <2>2, <2>3, <2>4, <2>5, <2>6 DEF TypeOK, Lock
<1>. QED  BY <1>4, <1>5, <1>8, <1>9, <1>10 DEF CoreInv

LEMMA EnvironmentInv ==
  ASSUME TypeOK, CoreInv, Restart \/ \E m \in Sends : Elapse(m) \/ Provider(m)
  PROVE  CoreInv'
<1>1. CASE Restart
  <2>1. /\ lock'.op = "free" /\ ~loaded' /\ disk' = disk /\ writes' = {}
        /\ issued' = 0 /\ committed' = 0 /\ mem' = Empty /\ stage' = "up"
        /\ \A a \in Accounts : pc'[a] = "idle"
        /\ UNCHANGED <<wire, attempts, promised, told>>
    BY <1>1, FreeOp DEF Restart
  <2>2. Sound(disk)'  BY <2>1 DEF CoreInv, LiveInv, Sound, Fits
  <2>3. Honest(mem)'  BY <2>1 DEF Honest, Empty, NoEntry
  <2>. QED
    BY <2>1, <2>2, <2>3 DEF CoreInv, WriterInv, Held, LockInv, WorkerInv, WireInv, LiveInv,
         AgreeInv, FreshInv
<1>2. ASSUME NEW m \in Sends, Elapse(m) PROVE CoreInv'
  BY <1>2 DEF Elapse, CoreInv, WriterInv, Held, LockInv, Evolves, WorkerInv, Settling,
       Claiming, WireInv, LiveInv, AgreeInv, FreshInv, Honest, Sound, Fits, Agrees,
       ownerVars, storageVars, workerVars, stopVars, historyVars
<1>3. ASSUME NEW m \in Sends, Provider(m) PROVE CoreInv'
  <2>1. /\ UNCHANGED <<ownerVars, storageVars, workerVars, stopVars, historyVars>>
        /\ wire[m] = "inflight" /\ wire'[m] \in {"accepted", "refused"}
        /\ \A n \in Sends : n # m => wire'[n] = wire[n]
    BY <1>3 DEF Provider, TypeOK
  <2>. USE <2>1 DEF ownerVars, storageVars, workerVars, stopVars, historyVars
  <2>2. \A v : Sound(v) =>
          \A n \in Sends : /\ v[n].state = "sent" => n # m
                           /\ v[n].state = "failed" => n # m
    BY DEF Sound, Fits
  <2>3. ASSUME NEW v, Sound(v)
        PROVE  \A n \in Sends : /\ attempts[n] > 0 =>
                                    v[n].state \notin {"absent", "queued", "cancelled"}
                                /\ v[n].state = "failed" => wire'[n] \in {"none", "refused"}
                                /\ v[n].state = "sent" => wire'[n] = "accepted"
    BY <2>2, <2>3 DEF Sound, Fits
  <2>4. Sound(disk)'  BY <2>3 DEF CoreInv, LiveInv, Sound, Fits
  <2>5. loaded => Sound(mem)'  BY <2>3 DEF CoreInv, LiveInv, Sound, Fits
  <2>6. ASSUME NEW w \in writes', w.seq > committed' PROVE Sound(w.value)'
    <3>1. Sound(w.value)  BY <2>6 DEF CoreInv, LiveInv
    <3>. QED  BY <2>3, <3>1 DEF Sound, Fits
  <2>7. LiveInv'  BY <2>4, <2>5, <2>6 DEF LiveInv
  <2>8. Honest(mem)'  BY DEF CoreInv, Honest
  <2>9. WriterInv' /\ LockInv' /\ WorkerInv' /\ AgreeInv' /\ FreshInv' /\ WireInv'
    BY DEF CoreInv, WriterInv, Held, LockInv, Evolves, WorkerInv, Settling, Claiming,
       AgreeInv, Agrees, FreshInv, WireInv
  <2>. QED  BY <2>7, <2>8, <2>9 DEF CoreInv
<1>. QED  BY <1>1, <1>2, <1>3

------------------------------------
(* The theorems *)

LEMMA InitInv == Init => CoreInv
<1>. SUFFICES ASSUME Init PROVE CoreInv  OBVIOUS
<1>1. Sound(Empty) /\ Honest(Empty)  BY DEF Init, Sound, Fits, Honest, Empty, NoEntry
<1>. QED
  BY <1>1, FreeOp DEF Init, CoreInv, WriterInv, Held, LockInv, WorkerInv, WireInv, LiveInv,
       AgreeInv, FreshInv

LEMMA NextInv ==
  ASSUME TypeOK, CoreInv, [Next]_vars
  PROVE  CoreInv'
<1>1. CASE UNCHANGED vars
  BY <1>1 DEF vars, CoreInv, WriterInv, Held, LockInv, Evolves, WorkerInv, Settling,
       Claiming, WireInv, LiveInv, AgreeInv, FreshInv, Honest, Sound, Fits, Agrees
<1>. QED  BY <1>1, CallInv, ReturnInv, WorkInv, WriterStep, StopInv, EnvironmentInv DEF Next

\* The inductive invariant holds in every state of every instance.
THEOREM CoreInductive == Spec => []CoreInv
<1>1. TypeOK /\ TypeOK' /\ CoreInv /\ [Next]_vars => CoreInv'  BY NextInv
<1>. QED  BY <1>1, InitInv, TypeCorrect, PTL DEF Spec

\* No send is submitted to its provider twice (outbox/mod.rs, worker and load).
THEOREM DeliveredAtMostOnce == Spec => []AttemptedOnce
<1>1. CoreInv => AttemptedOnce  BY DEF CoreInv, WireInv, AttemptedOnce
<1>. QED  BY <1>1, CoreInductive, PTL

\* Memory and file never claim an outcome that did not happen.
THEOREM OutcomesHonest == Spec => []OutcomesAreTrue
<1>1. TypeOK /\ CoreInv => OutcomesAreTrue  BY DEF CoreInv, OutcomesAreTrue, Honest, LiveInv, Sound, Fits, WireInv, TypeOK
<1>. QED  BY <1>1, TypeCorrect, CoreInductive, PTL

\* An acknowledged enqueue is in the file, with its body and what recovers it.
THEOREM AcceptedIsKept == Spec => []PromiseKept
<1>1. CoreInv => PromiseKept  BY DEF CoreInv, LiveInv, Sound, Fits, PromiseKept
<1>. QED  BY <1>1, CoreInductive, PTL

\* A terminal answer of outbox.snapshot is the file's answer for good.
THEOREM AnswerIsDurable == Spec => []ToldIsDurable
<1>1. CoreInv => ToldIsDurable  BY DEF CoreInv, LiveInv, Sound, Fits, ToldIsDurable
<1>. QED  BY <1>1, CoreInductive, PTL

\* A delivery starts only in the process that accepted the send.
THEOREM NothingResumes == Spec => NoResume
<1>1. TypeOK /\ CoreInv /\ [Next]_vars =>
        [\A m \in Sends : attempts'[m] > attempts[m] => m \in fresh]_vars
  <2>. SUFFICES ASSUME TypeOK, CoreInv, Next, NEW m \in Sends, attempts'[m] > attempts[m]
                PROVE  m \in fresh
    OBVIOUS
  <2>1. attempts[m] \in Nat /\ attempts' # attempts  BY DEF TypeOK
  <2>2. ClaimSaved
    BY <2>1 DEF Next, Call, Return, Work, Stop, Load, CallDropped, AskSnapshot, Undo,
         Forget, EnqueueReplay, Enqueue, Flush, AbandonAccount, Mutate, LoadDone,
         SnapshotDone, CommitSaved, CommitFailed, ClaimFailed, SettleDone, StopDone,
         WorkerExit, Claim, Settle, Writer, StopBegin, StopDrain, StopUnloaded,
         AbortWorker, Restart, Elapse, Provider, historyVars
  <2>3. /\ attempts' = [attempts EXCEPT ![lock.send] = @ + 1]
        /\ lock.op = "claim"
    BY <2>2 DEF ClaimSaved
  <2>4. lock.send = m  BY <2>1, <2>3 DEF TypeOK
  <2>. QED  BY <2>3, <2>4 DEF CoreInv, LockInv, FreshInv
<1>. QED  BY <1>1, TypeCorrect, CoreInductive, PTL DEF Spec, NoResume

\* While a process lives, a finished send keeps the state it finished in.
THEOREM FinishedIsFinal == Spec => FinishedStays
<1>1. TypeOK /\ CoreInv /\ [Next]_vars =>
        [\A m \in Sends : loaded /\ loaded' /\ mem[m].state \in Terminal
           => mem'[m].state = mem[m].state]_vars
  <2>. SUFFICES ASSUME TypeOK, CoreInv, Next, NEW m \in Sends, loaded, loaded',
                       mem[m].state \in Terminal, mem' # mem
                PROVE  mem'[m].state = mem[m].state
    OBVIOUS
  <2>1. \/ CommitSaved \/ ClaimSaved \/ ClaimFailed \/ StopDrain
        \/ \E a \in Accounts, answer \in {"sent", "failed", "lost"} : Settle(a, answer)
    BY DEF Next, Call, Return, Work, Stop, Load, CallDropped, AskSnapshot, Undo, Forget,
         EnqueueReplay, Enqueue, Flush, AbandonAccount, Mutate, LoadDone, SnapshotDone,
         CommitFailed, SettleDone, StopDone, WorkerExit, Claim, Writer, StopBegin,
         StopUnloaded, AbortWorker, Restart, Elapse, Provider, ownerVars, CoreInv, LockInv
  <2>2. CASE CommitSaved  BY <2>2 DEF CommitSaved, CoreInv, LockInv, Evolves
  <2>3. CASE ClaimSaved  BY <2>3 DEF ClaimSaved, CoreInv, LockInv, TypeOK, Snapshot, Entry, Terminal
  <2>4. CASE ClaimFailed  BY <2>4 DEF ClaimFailed, CoreInv, LockInv, TypeOK, Snapshot, Entry, Terminal
  <2>5. CASE StopDrain  BY <2>5 DEF StopDrain, Quiesce, Interrupted, TypeOK, Snapshot, Entry, Terminal
  <2>6. ASSUME NEW a \in Accounts, NEW answer \in {"sent", "failed", "lost"},
               Settle(a, answer)
        PROVE  mem'[m].state = mem[m].state
    <3>1. pc[a] = "sending" /\ lock.op = "free"
          /\ mem' = [mem EXCEPT ![cur[a]] = Settled(@, answer)]
      BY <2>6 DEF Settle, Save
    <3>2. mem[cur[a]].state = "sending"  BY <3>1 DEF CoreInv, WorkerInv, Settling
    <3>. QED  BY <3>1, <3>2 DEF TypeOK, Snapshot, Terminal
  <2>. QED  BY <2>1, <2>2, <2>3, <2>4, <2>5, <2>6
<1>. QED  BY <1>1, TypeCorrect, CoreInductive, PTL DEF Spec, FinishedStays

------------------------------------
(* Every copy of the queue *)

Payloads(v) == {m \in Sends : v[m].payload}
Size(v) == Cardinality(Present(v))

\* The same list, with no payload more.
Follows(v, w) ==
  \A m \in Sends : /\ w[m].payload => v[m].payload
                   /\ w[m].pos = v[m].pos
                   /\ w[m].state = "absent" <=> v[m].state = "absent"

LEMMA GoodFollows ==
  ASSUME NEW v, NEW w, Good(v), Follows(v, w)
  PROVE  Good(w)
<1>1. Payloads(w) \subseteq Payloads(v) /\ Payloads(v) \subseteq Sends  BY DEF Payloads, Follows
<1>2. IsFiniteSet(Payloads(v))  BY <1>1, FS_Subset, OutboxAssumption
<1>3. /\ Cardinality(Payloads(w)) \in Nat /\ Cardinality(Payloads(v)) \in Nat
      /\ Cardinality(Payloads(w)) <= Cardinality(Payloads(v))
  BY <1>1, <1>2, FS_Subset, FS_CardinalityType
<1>4. Cardinality(Payloads(v)) <= MaxRecoverable  BY DEF Good, Payloads
<1>5. Cardinality(Payloads(w)) <= MaxRecoverable  BY <1>3, <1>4, OutboxAssumption
<1>6. Present(w) = Present(v)  BY DEF Present, Follows
<1>7. \A m \in Present(w) : w[m].pos < Cardinality(Present(w))
  <2>1. \A m \in Present(v) : m \in Sends /\ v[m].pos < Cardinality(Present(v))  BY DEF Good, Present
  <2>. QED  BY <1>6, <2>1 DEF Follows
<1>. QED  BY <1>5, <1>7 DEF Good, Payloads

LEMMA GoodEmpty == Good(Empty) /\ Good(Free.next)
<1>1. Payloads(Empty) = {} /\ Present(Empty) = {}  BY DEF Payloads, Present, Empty, NoEntry
<1>2. Cardinality({m \in Sends : Empty[m].payload}) = 0  BY <1>1, FS_EmptySet DEF Payloads
<1>. QED  BY <1>1, <1>2, OutboxAssumption DEF Good, Free

\* One element more in a set of sends.
LEMMA OneMore ==
  ASSUME NEW P, NEW m \in Sends, P \subseteq Sends
  PROVE  /\ Cardinality(P) \in Nat
         /\ Cardinality(P \cup {m}) = IF m \in P THEN Cardinality(P) ELSE Cardinality(P) + 1
<1>1. IsFiniteSet(P)  BY FS_Subset, OutboxAssumption
<1>. QED  BY <1>1, FS_AddElement, FS_CardinalityType

LEMMA GoodEnqueue ==
  ASSUME TypeOK, Good(mem), NEW m \in Sends, NEW b \in Bodies, NEW d \in BOOLEAN, Room(mem), mem[m].state = "absent"
  PROVE  Good([mem EXCEPT ![m] = NewEntry(b, d)])
<1>. DEFINE v == [mem EXCEPT ![m] = NewEntry(b, d)]
<1>0. /\ v[m].payload /\ v[m].pos = Size(mem) /\ v[m].state # "absent"
      /\ \A n \in Sends \ {m} : v[n] = mem[n]
  BY DEF TypeOK, Snapshot, NewEntry, Size
<1>1. Payloads(v) = Payloads(mem) \cup {m} /\ Present(v) = Present(mem) \cup {m}  BY <1>0 DEF Payloads, Present
<1>2. m \notin Present(mem) /\ Payloads(mem) \subseteq Sends /\ Present(mem) \subseteq Sends  BY DEF Payloads, Present
<1>3. /\ Cardinality(Payloads(mem)) \in Nat /\ Size(mem) \in Nat
      /\ Cardinality(Payloads(v)) <= Cardinality(Payloads(mem)) + 1 /\ Size(v) = Size(mem) + 1
  <2>1. /\ Cardinality(Payloads(mem)) \in Nat
        /\ Cardinality(Payloads(v)) \in {Cardinality(Payloads(mem)), Cardinality(Payloads(mem)) + 1}
    BY <1>1, <1>2, OneMore
  <2>2. Size(mem) \in Nat /\ Size(v) = Size(mem) + 1  BY <1>1, <1>2, OneMore DEF Size
  <2>. QED  BY <2>1, <2>2
<1>4. Cardinality(Payloads(mem)) < MaxRecoverable  BY DEF Room, Payloads
<1>5. Cardinality(Payloads(v)) <= MaxRecoverable
  <2>1. Cardinality(Payloads(v)) \in Nat  BY <1>1, <1>2, OneMore, <1>3
  <2>. QED  BY <1>3, <1>4, <2>1, OutboxAssumption
<1>6. \A n \in Present(v) : v[n].pos < Size(v)
  <2>1. \A n \in Present(mem) : mem[n].pos < Size(mem) /\ mem[n].pos \in Nat  BY DEF Good, Size, TypeOK, Snapshot, Entry, Present
  <2>2. \A n \in Present(mem) : v[n] = mem[n]  BY <1>0, <1>2
  <2>3. \A n \in Present(mem) : v[n].pos < Size(v)  BY <1>3, <2>1, <2>2
  <2>4. v[m].pos < Size(v)  BY <1>0, <1>3
  <2>. QED  BY <1>1, <2>3, <2>4
<1>. QED  BY <1>5, <1>6 DEF Good, Payloads, Size

\* A save adds one copy.
LEMMA SaveGood ==
  ASSUME CopiesInv, NEW op, NEW a, NEW m, NEW p, NEW next, Good(next), Save(op, a, m, p, next),
         Good(mem')
  PROVE  CopiesInv'
<1>1. lock'.next = next /\ disk' = disk /\ writes' = writes \cup {[seq |-> issued + 1, value |-> next]}  BY DEF Save
<1>2. Good(lock'.next) /\ Good(disk')  BY <1>1 DEF CopiesInv
<1>3. \A w \in writes' : Good(w.value)  BY <1>1 DEF CopiesInv
<1>. QED  BY <1>2, <1>3 DEF CopiesInv, Good, Present

LEMMA CallCopies ==
  ASSUME TypeOK, CopiesInv, Call
  PROVE  CopiesInv'
<1>1. mem' = mem /\ Good(mem) /\ Good(mem') /\ mem \in Snapshot /\ Good(disk) /\ disk \in Snapshot
  BY DEF Call, Load, CallDropped, AskSnapshot, Undo, Forget, EnqueueReplay, Enqueue, Flush, AbandonAccount, Mutate,
         ownerVars, CopiesInv, TypeOK, Good, Present
<1>2. CASE Load
  <2>1. Follows(disk, Recover(disk))  BY <1>1 DEF Recover, Snapshot, Entry, Interrupted, Follows
  <2>. QED  BY <1>1, <1>2, <2>1, GoodFollows, SaveGood DEF Load
<1>3. CASE CallDropped  BY <1>3, GoodEmpty DEF CallDropped, Release, storageVars, CopiesInv, Good, Present
<1>4. ASSUME NEW m \in Sends, AskSnapshot(m) PROVE CopiesInv'  BY <1>1, <1>4, SaveGood DEF AskSnapshot
<1>5. ASSUME NEW m \in Sends, Undo(m) PROVE CopiesInv'
  <2>1. Follows(mem, [mem EXCEPT ![m].state = "cancelled"])  BY <1>1, <1>5 DEF Undo, Snapshot, Entry, Follows
  <2>2. Good([mem EXCEPT ![m].state = "cancelled"])  BY <1>1, <2>1, GoodFollows
  <2>3. Save("commit", AccountOf[m], m, {}, [mem EXCEPT ![m].state = "cancelled"])  BY <1>5 DEF Undo, Mutate
  <2>. QED  BY <1>1, <2>2, <2>3, SaveGood
<1>6. ASSUME NEW m \in Sends, Forget(m) PROVE CopiesInv'
  <2>1. Follows(mem, [mem EXCEPT ![m] = Forgotten(@)])  BY <1>1 DEF Snapshot, Entry, Forgotten, Follows
  <2>2. Good([mem EXCEPT ![m] = Forgotten(@)])  BY <1>1, <2>1, GoodFollows
  <2>3. Save("commit", AccountOf[m], m, {}, [mem EXCEPT ![m] = Forgotten(@)])  BY <1>6 DEF Forget, Mutate
  <2>. QED  BY <1>1, <2>2, <2>3, SaveGood
<1>7. ASSUME NEW m \in Sends, NEW b \in Bodies, EnqueueReplay(m, b) PROVE CopiesInv'
  BY <1>7 DEF EnqueueReplay, ownerVars, storageVars, CopiesInv, Good, Present
<1>8. ASSUME NEW m \in Sends, NEW b \in Bodies, NEW d \in Delays, Enqueue(m, b, d) PROVE CopiesInv'
  <2>1. d \in BOOLEAN  BY OutboxAssumption
  <2>. QED  BY <1>1, <1>8, <2>1, GoodEnqueue, SaveGood DEF Enqueue, Mutate
<1>9. ASSUME NEW a \in Accounts, Flush(a) PROVE CopiesInv'
  <2>1. Follows(mem, Flushed(mem, a))  BY <1>1 DEF Flushed, Snapshot, Entry, Follows
  <2>. QED  BY <1>1, <1>9, <2>1, GoodFollows, SaveGood DEF Flush, Mutate
<1>10. ASSUME NEW a \in Accounts, AbandonAccount(a) PROVE CopiesInv'
  <2>1. Follows(mem, Abandoned(mem, a))  BY <1>1 DEF Abandoned, Queued, Snapshot, Entry, Follows
  <2>. QED  BY <1>1, <1>10, <2>1, GoodFollows, SaveGood DEF AbandonAccount, Mutate
<1>. QED  BY <1>2, <1>3, <1>4, <1>5, <1>6, <1>7, <1>8, <1>9, <1>10 DEF Call

LEMMA ReturnCopies ==
  ASSUME TypeOK, CoreInv, CopiesInv, Return
  PROVE  CopiesInv'
<1>1. Good(mem')
  <2>1. CASE ClaimFailed
    <3>1. mem[lock.send].state = "queued" /\ lock.send \in Sends /\ mem' = [mem EXCEPT ![lock.send].state = "failed"]
      BY <2>1 DEF ClaimFailed, CoreInv, LockInv, TypeOK, Lock
    <3>2. Follows(mem, mem')  BY <3>1 DEF TypeOK, Snapshot, Entry, Follows
    <3>. QED  BY <3>2, GoodFollows DEF CopiesInv
  <2>2. CASE ~ClaimFailed
    <3>1. mem' \in {mem, lock.next}
      BY <2>2 DEF Return, LoadDone, SnapshotDone, CommitSaved, CommitFailed, ClaimSaved, SettleDone, StopDone
    <3>. QED  BY <3>1 DEF CopiesInv, Good, Present
  <2>. QED  BY <2>1, <2>2
<1>2. lock' = Free /\ UNCHANGED <<disk, writes>>
  BY DEF Return, LoadDone, SnapshotDone, CommitSaved, CommitFailed, ClaimSaved, ClaimFailed, SettleDone, StopDone,
         Release, storageVars
<1>. QED  BY <1>1, <1>2, GoodEmpty DEF CopiesInv, Good, Present

LEMMA WorkCopies ==
  ASSUME TypeOK, CoreInv, CopiesInv, NEW a \in Accounts, Work(a)
  PROVE  CopiesInv'
<1>1. mem \in Snapshot /\ Good(mem)  BY DEF TypeOK, CopiesInv
<1>2. CASE WorkerExit(a)  BY <1>2 DEF WorkerExit, ownerVars, storageVars, CopiesInv, Good, Present
<1>3. ASSUME NEW m \in Sends, Claim(a, m) PROVE CopiesInv'
  <2>1. Follows(mem, [mem EXCEPT ![m].state = "sending"])  BY <1>1, <1>3 DEF Claim, IsHead, Queued, Snapshot, Entry, Follows
  <2>2. Good(mem')  BY <1>1, <1>3 DEF Claim, Good, Present
  <2>3. Good([mem EXCEPT ![m].state = "sending"])  BY <1>1, <2>1, GoodFollows
  <2>4. Save("claim", a, m, {}, [mem EXCEPT ![m].state = "sending"])  BY <1>3 DEF Claim
  <2>. QED  BY <2>2, <2>3, <2>4, SaveGood
<1>4. ASSUME NEW answer \in {"sent", "failed", "lost"}, Settle(a, answer) PROVE CopiesInv'
  <2>. DEFINE next == [mem EXCEPT ![cur[a]] = Settled(@, answer)]
  <2>1. mem[cur[a]].state = "sending" /\ cur[a] \in Sends  BY <1>4 DEF Settle, Save, CoreInv, WorkerInv, Settling, TypeOK
  <2>1a. Follows(mem, next)  BY <1>1, <2>1 DEF Snapshot, Entry, Settled, Outcome, Follows
  <2>2. Good(next) /\ mem' = next  BY <1>1, <1>4, <2>1a, GoodFollows DEF Settle
  <2>3. Good(mem')  BY <2>2 DEF Good, Present
  <2>. QED  BY <1>4, <2>2, <2>3, SaveGood DEF Settle
<1>. QED  BY <1>2, <1>3, <1>4 DEF Work

LEMMA OtherCopies ==
  ASSUME TypeOK, CopiesInv,
         \/ Stop \/ Restart \/ \E w \in writes : Writer(w)
         \/ \E m \in Sends : Elapse(m) \/ Provider(m)
  PROVE  CopiesInv'
<1>1. ASSUME NEW w \in writes, Writer(w) PROVE CopiesInv'
  <2>1. /\ UNCHANGED mem /\ disk' \in {disk, w.value} /\ writes' \subseteq writes /\ lock'.next = lock.next
    BY <1>1 DEF Writer, WriterSkip, WriterCommit, WriterFail, Report, TypeOK, Lock
  <2>. QED  BY <2>1 DEF CopiesInv, Good, Present
<1>2. CASE Restart  BY <1>2, GoodEmpty DEF Restart, CopiesInv, Good, Present
<1>3. ASSUME NEW m \in Sends, Elapse(m) \/ Provider(m) PROVE CopiesInv'
  BY <1>3 DEF Elapse, Provider, ownerVars, storageVars, CopiesInv, Good, Present
<1>4. CASE StopDrain
  <2>1. Follows(mem, Quiesce(mem))  BY DEF Quiesce, TypeOK, Snapshot, Entry, Interrupted, Follows
  <2>2. Good(Quiesce(mem)) /\ mem' = Quiesce(mem)  BY <1>4, <2>1, GoodFollows DEF StopDrain, CopiesInv
  <2>3. Good(mem')  BY <2>2 DEF Good, Present
  <2>. QED  BY <1>4, <2>2, <2>3, SaveGood DEF StopDrain
<1>5. CASE StopBegin \/ StopUnloaded  BY <1>5 DEF StopBegin, StopUnloaded, ownerVars, storageVars, CopiesInv, Good, Present
<1>6. ASSUME NEW a \in Accounts, AbortWorker(a) PROVE CopiesInv'
  <2>1. lock' \in {lock, Free} /\ UNCHANGED <<mem, disk, writes>>  BY <1>6 DEF AbortWorker, storageVars
  <2>. QED  BY <2>1, GoodEmpty DEF CopiesInv, Good, Present
<1>. QED  BY <1>1, <1>2, <1>3, <1>4, <1>5, <1>6 DEF Stop

\* A worker that begins to run is on record when it begins, and stays so until it is idle or the process ends.
LEMMA WorkersHold ==
  ASSUME TypeOK, CoreInv, OneWorker, [Next]_vars
  PROVE  OneWorker'
<1>1. /\ lock.op = "claim" => pc[lock.account] = "ready"
      /\ lock.op = "settle" => pc[lock.account] = "sending"
      /\ lock.account \in Accounts
  BY DEF CoreInv, LockInv, TypeOK, Lock
<1>2. CASE CommitSaved \/ ClaimSaved \/ ClaimFailed \/ SettleDone
  BY <1>1, <1>2 DEF CommitSaved, ClaimSaved, ClaimFailed, SettleDone, OneWorker, TypeOK, workerVars
<1>3. ASSUME NEW a \in Accounts, WorkerExit(a) \/ AbortWorker(a) PROVE OneWorker'
  BY <1>3 DEF WorkerExit, AbortWorker, OneWorker, TypeOK
<1>4. CASE Restart  BY <1>4 DEF Restart, OneWorker
<1>5. CASE UNCHANGED <<pc, workers>>  BY <1>5 DEF OneWorker
<1>. QED
  BY <1>2, <1>3, <1>4, <1>5
     DEF Next, Call, Return, Work, Stop, Load, CallDropped, AskSnapshot, Undo, Forget, EnqueueReplay, Enqueue,
         Flush, AbandonAccount, Mutate, LoadDone, SnapshotDone, CommitFailed, StopDone, Claim, Settle, Writer,
         StopBegin, StopDrain, StopUnloaded, Elapse, Provider, workerVars, vars


------------------------------------
(* The line of messages *)

\* A call leaves the list as it was, but for what leaves the line or joins it.
LEMMA CommitJoins ==
  ASSUME TypeOK, CoreInv, LineInv, Call, lock'.op = "commit"
  PROVE  Withdraws(mem', lock'.next) \/ Joins(mem', lock'.next, lock'.send)
<1>0. mem \in Snapshot  BY DEF TypeOK
<1>1. CASE Load \/ CallDropped \/ \E m \in Sends : AskSnapshot(m)  BY <1>1, FreeOp DEF Load, CallDropped, AskSnapshot, Save, Release
<1>2. ASSUME NEW m \in Sends, Undo(m) PROVE Withdraws(mem', lock'.next)
  <2>1. mem' = mem /\ lock'.next = [mem EXCEPT ![m].state = "cancelled"] /\ mem[m].state = "queued"  BY <1>2 DEF Undo, Mutate, Save
  <2>. QED  BY <1>0, <2>1 DEF Withdraws, Snapshot, Entry
<1>3. ASSUME NEW m \in Sends, Forget(m) PROVE Withdraws(mem', lock'.next)
  <2>1. mem' = mem /\ lock'.next = [mem EXCEPT ![m] = Forgotten(@)]  BY <1>3 DEF Forget, Mutate, Save
  <2>. QED  BY <1>0, <2>1 DEF Withdraws, Forgotten, Snapshot, Entry
<1>4. ASSUME NEW a \in Accounts, Flush(a) PROVE Withdraws(mem', lock'.next)
  <2>1. mem' = mem /\ lock'.next = Flushed(mem, a)  BY <1>4 DEF Flush, Mutate, Save
  <2>. QED  BY <1>0, <2>1 DEF Withdraws, Flushed, Snapshot, Entry
<1>5. ASSUME NEW a \in Accounts, AbandonAccount(a) PROVE Withdraws(mem', lock'.next)
  <2>1. mem' = mem /\ lock'.next = Abandoned(mem, a)  BY <1>5 DEF AbandonAccount, Mutate, Save
  <2>. QED  BY <1>0, <2>1 DEF Withdraws, Abandoned, Queued, Snapshot, Entry
<1>6. ASSUME NEW m \in Sends, NEW b \in Bodies, NEW d \in Delays, Enqueue(m, b, d)
      PROVE  Joins(mem', lock'.next, lock'.send)
  <2>1. /\ mem' = mem /\ lock'.next = [mem EXCEPT ![m] = NewEntry(b, d)] /\ mem[m].state = "absent"
        /\ lock'.send = m
    BY <1>6 DEF Enqueue, Mutate, Save
  <2>. QED  BY <1>0, <2>1 DEF Joins, NewEntry, Snapshot
<1>7. ASSUME NEW m \in Sends, NEW b \in Bodies, EnqueueReplay(m, b) PROVE FALSE  BY <1>7 DEF EnqueueReplay, Calling, ownerVars
<1>. QED  BY <1>1, <1>2, <1>3, <1>4, <1>5, <1>6, <1>7 DEF Call

\* While a save is under way memory stays, and so does what is saved.
LEMMA HolderKeeps ==
  ASSUME TypeOK, CoreInv, Return \/ Stop \/ Restart \/ (\E w \in writes : Writer(w))
                          \/ \E m \in Sends : Elapse(m) \/ Provider(m)
  PROVE  \/ lock'.op \in {"free", "stop"}
         \/ /\ lock'.op = lock.op /\ lock'.account = lock.account /\ lock'.send = lock.send
            /\ lock'.next = lock.next /\ mem' = mem
<1>1. CASE Return
  BY <1>1, FreeOp DEF Return, LoadDone, SnapshotDone, CommitSaved, CommitFailed, ClaimSaved, ClaimFailed, SettleDone,
       StopDone, Release
<1>2. CASE Stop  BY <1>2, FreeOp DEF Stop, StopBegin, StopDrain, StopUnloaded, AbortWorker, Save, ownerVars
<1>3. CASE Restart  BY <1>3, FreeOp DEF Restart
<1>4. ASSUME NEW w \in writes, Writer(w)
      PROVE  /\ lock'.op = lock.op /\ lock'.account = lock.account /\ lock'.send = lock.send
             /\ lock'.next = lock.next /\ mem' = mem
  <2>1. lock' = lock \/ \E r \in {"saved", "error"} : lock' = [lock EXCEPT !.result = r]
    BY <1>4 DEF Writer, WriterSkip, WriterCommit, WriterFail, Report
  <2>. QED  BY <1>4, <2>1 DEF Writer, TypeOK, Lock
<1>5. ASSUME NEW m \in Sends, Elapse(m) \/ Provider(m) PROVE lock' = lock /\ mem' = mem  BY <1>5 DEF Elapse, Provider, ownerVars
<1>. QED  BY <1>1, <1>2, <1>3, <1>4, <1>5

\* What an unloaded process finds and writes is the same list.
LEMMA LoadingKeeps ==
  ASSUME TypeOK, CoreInv, LineInv, [Next]_vars, ~loaded'
  PROVE  \A w \in writes' : Present(w.value) = Present(disk')
<1>1. CASE Restart  BY <1>1 DEF Restart
<1>2. CASE ~Restart /\ loaded
  BY <1>2 DEF Next, Call, Return, Work, Stop, Load, CallDropped, AskSnapshot, Undo, Forget, EnqueueReplay, Enqueue,
       Flush, AbandonAccount, Mutate, LoadDone, SnapshotDone, CommitSaved, CommitFailed, ClaimSaved, ClaimFailed,
       SettleDone, StopDone, WorkerExit, Claim, Settle, Writer, StopBegin, StopDrain, StopUnloaded, AbortWorker,
       Elapse, Provider, ownerVars, vars, CoreInv, LockInv
<1>3. CASE ~Restart /\ ~loaded
  <2>0. /\ \A a \in Accounts : pc[a] = "idle" /\ lock.op \in {"free", "load"}
        /\ \A w \in writes : Present(w.value) = Present(disk)
    BY <1>3 DEF CoreInv, WorkerInv, LockInv, LineInv
  <2>1. CASE Load
    <3>1. Present(Recover(disk)) = Present(disk)
      <4>1. Follows(disk, Recover(disk))
        <5>1. disk \in Snapshot  BY DEF TypeOK
        <5>. QED  BY <5>1 DEF Recover, Snapshot, Entry, Interrupted, Follows
      <4>. QED  BY <4>1 DEF Follows, Present
    <3>2. disk' = disk /\ writes' = writes \cup {[seq |-> issued + 1, value |-> Recover(disk)]}  BY <2>1 DEF Load, Save
    <3>. QED  BY <2>0, <3>1, <3>2
  <2>2. ASSUME NEW w \in writes, Writer(w) PROVE \A x \in writes' : Present(x.value) = Present(disk')
    <3>1. writes' \subseteq writes /\ disk' \in {disk, w.value}  BY <2>2 DEF Writer, WriterSkip, WriterCommit, WriterFail
    <3>. QED  BY <2>0, <3>1
  <2>3. CASE UNCHANGED <<disk, writes>>  BY <2>0, <2>3
  <2>. QED
    BY <1>3, <2>0, <2>1, <2>2, <2>3
       DEF Next, Call, Return, Work, Stop, CallDropped, AskSnapshot, Undo, Forget, EnqueueReplay, Enqueue,
       Flush, AbandonAccount, Mutate, LoadDone, SnapshotDone, CommitSaved, CommitFailed, ClaimSaved, ClaimFailed,
       SettleDone, StopDone, WorkerExit, Claim, Settle, StopBegin, StopDrain, StopUnloaded, AbortWorker,
       Elapse, Provider, storageVars, vars
<1>. QED  BY <1>1, <1>2, <1>3

LEMMA LineStays ==
  ASSUME TypeOK, CoreInv, LineInv, [Next]_vars
  PROVE  LineInv'
<1>1. lock'.op = "commit" => Withdraws(mem', lock'.next) \/ Joins(mem', lock'.next, lock'.send)
  <2>1. CASE UNCHANGED vars  BY <2>1 DEF vars, LineInv
  <2>2. CASE \E a \in Accounts : Work(a)
    <3>1. \/ lock'.op # "commit"
          \/ lock' = lock /\ mem' = mem
      BY <2>2 DEF Work, WorkerExit, Claim, Settle, Save, ownerVars
    <3>. QED  BY <3>1 DEF LineInv
  <2>3. CASE Call  BY <2>3, CommitJoins
  <2>4. CASE \/ Return \/ Stop \/ Restart \/ (\E w \in writes : Writer(w))
             \/ \E m \in Sends : Elapse(m) \/ Provider(m)
    BY <2>4, HolderKeeps DEF LineInv
  <2>. QED  BY <2>1, <2>2, <2>3, <2>4 DEF Next
<1>2. lock'.op = "claim" => IsHead(mem', lock'.account, lock'.send)
  <2>1. CASE UNCHANGED vars  BY <2>1 DEF vars, LineInv
  <2>2. ASSUME NEW a \in Accounts, Work(a) PROVE lock'.op = "claim" => IsHead(mem', lock'.account, lock'.send)
    <3>1. ASSUME NEW m \in Sends, Claim(a, m) PROVE IsHead(mem', lock'.account, lock'.send)  BY <3>1 DEF Claim, Save
    <3>2. CASE WorkerExit(a)  BY <3>2 DEF WorkerExit, ownerVars, LineInv
    <3>3. ASSUME NEW answer \in {"sent", "failed", "lost"}, Settle(a, answer) PROVE lock'.op # "claim"  BY <3>3 DEF Settle, Save
    <3>. QED  BY <2>2, <3>1, <3>2, <3>3 DEF Work
  <2>3. CASE Call
    BY <2>3, FreeOp DEF Call, Load, CallDropped, AskSnapshot, Undo, Forget, EnqueueReplay, Enqueue, Flush, AbandonAccount,
         Mutate, Save, Release, Calling, ownerVars
  <2>4. CASE \/ Return \/ Stop \/ Restart \/ (\E w \in writes : Writer(w))
             \/ \E m \in Sends : Elapse(m) \/ Provider(m)
    BY <2>4, HolderKeeps DEF LineInv
  <2>. QED  BY <2>1, <2>2, <2>3, <2>4 DEF Next
<1>. QED  BY <1>1, <1>2, LoadingKeeps DEF LineInv

\* What memory loses from the line is withdrawn in the abstract queue.
LEMMA LeavesLine ==
  ASSUME TypeOK, loaded, loaded', UNCHANGED attempts,
         \A n \in Sends : /\ mem'[n].pos = mem[n].pos
                          /\ mem'[n].state = "absent" <=> mem[n].state = "absent"
                          /\ mem'[n].state = "queued" => mem[n].state = "queued"
  PROVE  [Line!Next]_(Line!queueVars)
<1>. DEFINE ms == Waiting \ Waiting'
<1>1. ms \in SUBSET Sends /\ ms \cap Closed = {}  BY DEF Waiting, Closed
<1>2. Waiting' = Waiting \ ms /\ Closed' = Closed \cup ms  BY DEF Waiting, Closed
<1>3. Ahead' = {p \in Ahead : p[1] \notin ms /\ p[2] \notin ms}  BY DEF Waiting, Ahead
<1>4. {m \in Sends : attempts[m] > 0}' = {m \in Sends : attempts[m] > 0}  OBVIOUS
<1>5. CASE ms = {}  BY <1>2, <1>3, <1>4, <1>5 DEF Line!queueVars
<1>6. CASE ms # {}
  <2>1. Line!Withdraw(ms)  BY <1>1, <1>2, <1>3, <1>4, <1>6 DEF Line!Withdraw, Line!Leave
  <2>. QED  BY <1>1, <2>1 DEF Line!Next
<1>. QED  BY <1>5, <1>6

\* Nothing the queue shows has changed.
LEMMA NothingShown ==
  ASSUME UNCHANGED <<mem, loaded, attempts>>, loaded \/ Present(disk') = Present(disk)
  PROVE  UNCHANGED (Line!queueVars)
<1>1. Waiting' = Waiting /\ Closed' = Closed  BY DEF Waiting, Closed
<1>2. Ahead' = Ahead  BY <1>1 DEF Ahead
<1>. QED  BY <1>1, <1>2 DEF Line!queueVars

LEMMA CommitShown ==
  ASSUME TypeOK, CoreInv, CopiesInv, LineInv, CommitSaved
  PROVE  [Line!Next]_(Line!queueVars)
<1>. DEFINE m == lock.send
<1>1. /\ loaded /\ loaded' /\ UNCHANGED attempts /\ mem' = lock.next /\ m \in Sends
      /\ lock.op = "commit"
  BY DEF CommitSaved, CoreInv, LockInv, TypeOK, Lock
<1>2. CASE Withdraws(mem, lock.next)
  <2>1. \A n \in Sends : /\ mem'[n].pos = mem[n].pos
                         /\ mem'[n].state = "absent" <=> mem[n].state = "absent"
                         /\ mem'[n].state = "queued" => mem[n].state = "queued"
    BY <1>1, <1>2 DEF Withdraws
  <2>. QED  BY <1>1, <2>1, LeavesLine
<1>3. CASE Joins(mem, lock.next, m)
  <2>1. /\ mem[m].state = "absent" /\ mem'[m].state = "queued" /\ mem'[m].pos = Size(mem)
        /\ \A n \in Sends \ {m} : mem'[n] = mem[n]
    BY <1>1, <1>3 DEF Joins, Size
  <2>2. m \notin Closed \cup Waiting /\ Waiting' = Waiting \cup {m} /\ Closed' = Closed  BY <1>1, <2>1 DEF Waiting, Closed
  <2>3. \A n \in Waiting : mem[n].pos < Size(mem) /\ n # m /\ mem'[n] = mem[n] /\ n \in Sends /\ mem[n].pos \in Nat
    BY <1>1, <2>1 DEF Waiting, CopiesInv, Good, Present, Size, TypeOK, Snapshot, Entry
  <2>4. Ahead' = Ahead \cup (Line!InLine(m) \X {m})
    <3>1. \A n \in Waiting : mem'[n].pos < mem'[m].pos /\ ~(mem'[m].pos < mem'[n].pos)
      <4>1. Size(mem) \in Nat  BY FS_Subset, FS_CardinalityType, OutboxAssumption DEF Size, Present
      <4>. QED  BY <2>1, <2>3, <4>1
    <3>2. ~(mem'[m].pos < mem'[m].pos)  BY <2>1, FS_Subset, FS_CardinalityType, OutboxAssumption DEF Size, Present
    <3>3. \A n, k \in Waiting' : <<n, k>> \in Ahead' <=> /\ AccountOf[n] = AccountOf[k]
                                                       /\ mem'[n].pos < mem'[k].pos
      BY DEF Ahead
    <3>4. \A n, k \in Waiting : <<n, k>> \in Ahead <=> /\ AccountOf[n] = AccountOf[k]
                                                       /\ mem[n].pos < mem[k].pos
      BY DEF Ahead
    <3>5. \A n, k \in Waiting' : <<n, k>> \in Ahead' <=> <<n, k>> \in Ahead \cup (Line!InLine(m) \X {m})
      <4>. SUFFICES ASSUME NEW n \in Waiting', NEW k \in Waiting'
                    PROVE  <<n, k>> \in Ahead' <=> <<n, k>> \in Ahead \cup (Line!InLine(m) \X {m})
        OBVIOUS
      <4>1. CASE n \in Waiting /\ k \in Waiting
        <5>1. <<n, k>> \in Ahead' <=> <<n, k>> \in Ahead  BY <2>3, <3>3, <3>4, <4>1
        <5>. QED  BY <2>3, <4>1, <5>1
      <4>2. CASE n \in Waiting /\ k = m
        <5>1. <<n, k>> \in Ahead' <=> AccountOf[n] = AccountOf[m]  BY <3>1, <3>3, <4>2
        <5>2. <<n, k>> \notin Ahead  BY <2>2, <4>2 DEF Ahead
        <5>. QED  BY <4>2, <5>1, <5>2 DEF Line!InLine
      <4>3. CASE n = m
        <5>1. <<n, k>> \notin Ahead'  BY <2>2, <3>1, <3>2, <3>3, <4>3
        <5>2. <<n, k>> \notin Ahead  BY <2>2, <4>3 DEF Ahead
        <5>3. n \notin Line!InLine(m)  BY <2>2, <4>3 DEF Line!InLine
        <5>. QED  BY <5>1, <5>2, <5>3
      <4>. QED  BY <2>2, <4>1, <4>2, <4>3
    <3>6. Ahead' \subseteq Waiting' \X Waiting' /\ Ahead \cup (Line!InLine(m) \X {m}) \subseteq Waiting' \X Waiting'
      BY <2>2 DEF Ahead, Line!InLine
    <3>. QED  BY <3>5, <3>6
  <2>5. {n \in Sends : attempts[n] > 0}' = {n \in Sends : attempts[n] > 0}  BY <1>1
  <2>6. Line!Accept(m)  BY <2>2, <2>4, <2>5 DEF Line!Accept
  <2>. QED  BY <1>1, <2>6 DEF Line!Next
<1>. QED  BY <1>1, <1>2, <1>3 DEF LineInv

LEMMA ClaimShown ==
  ASSUME TypeOK, CoreInv, LineInv, ClaimSaved
  PROVE  Line!Next
<1>0. PICK m \in Sends : m = lock.send  BY DEF TypeOK, Lock
<1>1. /\ loaded /\ loaded' /\ m \in Sends /\ mem' = [mem EXCEPT ![m].state = "sending"]
      /\ attempts' = [attempts EXCEPT ![m] = @ + 1] /\ IsHead(mem, lock.account, m)
  BY <1>0 DEF ClaimSaved, CoreInv, LockInv, LineInv
<1>2. /\ mem[m].state = "queued" /\ AccountOf[m] = lock.account /\ mem'[m].state = "sending"
      /\ \A n \in Sends \ {m} : mem'[n] = mem[n]
  BY <1>1 DEF IsHead, Queued, TypeOK, Snapshot, Entry
<1>3. m \in Waiting /\ Waiting' = Waiting \ {m} /\ Closed' = Closed \cup {m}  BY <1>1, <1>2 DEF Waiting, Closed
<1>4. Ahead' = {p \in Ahead : p[1] \notin {m} /\ p[2] \notin {m}}  BY <1>2, <1>3 DEF Ahead, Waiting
<1>5. \A n \in Waiting : <<n, m>> \notin Ahead
  <2>. SUFFICES ASSUME NEW n \in Waiting, <<n, m>> \in Ahead PROVE FALSE  OBVIOUS
  <2>1. AccountOf[n] = AccountOf[m] /\ mem[n].pos < mem[m].pos /\ n \in Queued(mem, lock.account)
    BY <1>1, <1>2 DEF Ahead, Waiting, Queued
  <2>2. mem[m].pos <= mem[n].pos /\ mem[m].pos \in Nat /\ mem[n].pos \in Nat
    BY <1>1, <2>1 DEF IsHead, Queued, TypeOK, Snapshot, Entry
  <2>. QED  BY <2>1, <2>2
<1>6. {n \in Sends : attempts[n] > 0}' = {n \in Sends : attempts[n] > 0} \cup {m}  BY <1>1 DEF TypeOK
<1>7. Line!Attempt(m)  BY <1>3, <1>4, <1>5, <1>6 DEF Line!Attempt, Line!Leave
<1>. QED  BY <1>7 DEF Line!Next

LEMMA RestartShown ==
  ASSUME TypeOK, CoreInv, LineInv, Restart
  PROVE  [Line!Next]_(Line!queueVars)
<1>1. Waiting' = {} /\ Ahead' = {} /\ Closed' = Present(disk) /\ attempts' = attempts
  BY DEF Restart, Waiting, Ahead, Closed, Present
<1>2. CASE ~loaded
  <2>1. Waiting = {} /\ Ahead = {} /\ Closed = Present(disk)  BY <1>2 DEF Waiting, Ahead, Closed
  <2>. QED  BY <1>1, <2>1 DEF Line!queueVars
<1>3. CASE loaded
  <2>. DEFINE ms == Present(disk) \ Closed
  <2>1. Agrees(disk)  BY <1>3 DEF CoreInv, AgreeInv
  <2>2. Closed \subseteq Present(disk) /\ Waiting \subseteq Present(disk) /\ Waiting \cap Closed = {}
    BY <1>3, <2>1 DEF Agrees, Closed, Waiting, Present
  <2>3. Waiting' = Waiting \ ms /\ Closed' = Closed \cup ms  BY <1>1, <2>2
  <2>4. Ahead' = {p \in Ahead : p[1] \notin ms /\ p[2] \notin ms}  BY <1>1, <2>2 DEF Ahead
  <2>5. {m \in Sends : attempts[m] > 0}' = {m \in Sends : attempts[m] > 0}  BY <1>1
  <2>6. CASE ms = {}
    <3>1. Waiting = {} /\ Ahead = {}  BY <2>2, <2>6 DEF Ahead
    <3>. QED  BY <1>1, <2>3, <2>5, <2>6, <3>1 DEF Line!queueVars
  <2>7. CASE ms # {}
    <3>1. Line!Withdraw(ms) /\ ms \in SUBSET Sends  BY <2>3, <2>4, <2>5, <2>7 DEF Line!Withdraw, Line!Leave, Present
    <3>. QED  BY <3>1 DEF Line!Next
  <2>. QED  BY <2>6, <2>7
<1>. QED  BY <1>2, <1>3

LEMMA StepShown ==
  ASSUME TypeOK, CoreInv, CopiesInv, LineInv, [Next]_vars
  PROVE  [Line!Next]_(Line!queueVars)
<1>1. CASE UNCHANGED vars  BY <1>1, NothingShown DEF vars
<1>2. CASE LoadDone
  <2>1. CASE UNCHANGED <<mem, loaded>>  BY <1>2, <2>1, NothingShown DEF LoadDone, storageVars, historyVars
  <2>2. CASE lock.result = "saved" /\ mem' = lock.next
    <3>1. /\ ~loaded /\ disk = lock.next /\ disk' = disk /\ attempts' = attempts
          /\ \A m \in Sends : lock.next[m].state \notin {"queued", "sending"}
      BY <1>2, <2>2 DEF LoadDone, CoreInv, LockInv, WriterInv, Held, storageVars, historyVars
    <3>2. Waiting = {} /\ Waiting' = {} /\ Closed' = Closed  BY <2>2, <3>1 DEF Waiting, Closed, Present
    <3>3. Ahead' = Ahead  BY <3>2 DEF Ahead
    <3>. QED  BY <3>1, <3>2, <3>3 DEF Line!queueVars
  <2>. QED  BY <1>2, <2>1, <2>2 DEF LoadDone
<1>3. CASE ClaimFailed
  <2>1. /\ mem' = [mem EXCEPT ![lock.send].state = "failed"] /\ mem[lock.send].state = "queued"
        /\ loaded /\ loaded' /\ attempts' = attempts /\ lock.send \in Sends
    BY <1>3 DEF ClaimFailed, CoreInv, LockInv, historyVars, TypeOK, Lock
  <2>2. \A n \in Sends : /\ mem'[n].pos = mem[n].pos
                         /\ mem'[n].state = "absent" <=> mem[n].state = "absent"
                         /\ mem'[n].state = "queued" => mem[n].state = "queued"
    BY <2>1 DEF TypeOK, Snapshot, Entry
  <2>. QED  BY <2>1, <2>2, LeavesLine
<1>4. CASE StopDrain
  <2>1. mem' = Quiesce(mem) /\ loaded /\ loaded' /\ attempts' = attempts  BY <1>4 DEF StopDrain, historyVars
  <2>2. \A n \in Sends : /\ mem'[n].pos = mem[n].pos
                         /\ mem'[n].state = "absent" <=> mem[n].state = "absent"
                         /\ mem'[n].state = "queued" => mem[n].state = "queued"
    BY <2>1 DEF Quiesce, Interrupted, TypeOK, Snapshot, Entry
  <2>. QED  BY <2>1, <2>2, LeavesLine
<1>5. ASSUME NEW a \in Accounts, NEW answer \in {"sent", "failed", "lost"}, Settle(a, answer)
      PROVE  [Line!Next]_(Line!queueVars)
  <2>1. /\ mem' = [mem EXCEPT ![cur[a]] = Settled(@, answer)] /\ mem[cur[a]].state = "sending"
        /\ loaded /\ loaded' /\ attempts' = attempts /\ cur[a] \in Sends
    BY <1>5 DEF Settle, Save, CoreInv, WorkerInv, Settling, historyVars, TypeOK
  <2>2. \A n \in Sends : /\ mem'[n].pos = mem[n].pos
                         /\ mem'[n].state = "absent" <=> mem[n].state = "absent"
                         /\ mem'[n].state = "queued" => mem[n].state = "queued"
    BY <2>1 DEF Settled, Outcome, TypeOK, Snapshot, Entry
  <2>. QED  BY <2>1, <2>2, LeavesLine
<1>6. ASSUME NEW w \in writes, Writer(w) PROVE UNCHANGED (Line!queueVars)
  <2>1. UNCHANGED <<mem, loaded, attempts>> /\ disk' \in {disk, w.value}
    BY <1>6 DEF Writer, WriterSkip, WriterCommit, WriterFail, historyVars
  <2>. QED  BY <2>1, NothingShown DEF LineInv
<1>7. CASE UNCHANGED <<mem, loaded, attempts, disk>>  BY <1>7, NothingShown
<1>. QED
  BY <1>1, <1>2, <1>3, <1>4, <1>5, <1>6, <1>7, CommitShown, ClaimShown, RestartShown
     DEF Next, Call, Return, Work, Stop, Load, CallDropped, AskSnapshot, Undo, Forget, EnqueueReplay, Enqueue,
       Flush, AbandonAccount, Mutate, Save, SnapshotDone, CommitFailed, SettleDone, StopDone, WorkerExit, Claim,
       StopBegin, StopUnloaded, AbortWorker, Elapse, Provider, ownerVars, storageVars, historyVars

\* The inductive invariant, with what the copies and the line keep to.
THEOREM Inductive == Spec => []IInv
<1>1. Init => CopiesInv /\ LineInv /\ OneWorker  BY GoodEmpty, FreeOp DEF Init, CopiesInv, LineInv, OneWorker
<1>2. TypeOK /\ CoreInv /\ CopiesInv /\ [Next]_vars => CopiesInv'
  <2>1. CopiesInv /\ UNCHANGED vars => CopiesInv'  BY DEF vars, CopiesInv, Good, Present
  <2>. QED  BY <2>1, CallCopies, ReturnCopies, WorkCopies, OtherCopies DEF Next
<1>. QED  BY <1>1, <1>2, LineStays, WorkersHold, TypeCorrect, CoreInductive, PTL DEF Spec, IInv

\* The limits hold: no more payloads than the limit in any copy of the queue, and every running worker on record.
THEOREM LimitsHold == Spec => []PoolHolds
<1>1. IInv => PoolHolds  BY DEF IInv, CopiesInv, Good, PoolHolds, RecoverableBound
<1>. QED  BY <1>1, Inductive, PTL

\* The outbox implements the line of messages: every step is a step of MailQueue or shows nothing.
THEOREM Refines == Spec => ImplementsMailQueue
<1>1. Init => Line!Init  BY DEF Init, Line!Init, Waiting, Ahead, Closed, Present, Empty, NoEntry
<1>2. TypeOK /\ IInv /\ [Next]_vars => [Line!Next]_(Line!queueVars)  BY StepShown DEF IInv
<1>. QED  BY <1>1, <1>2, TypeCorrect, Inductive, PTL DEF Spec, ImplementsMailQueue, Line!Spec
=============================================================================
