--------------------------- MODULE MCServicesLive ---------------------------
(***************************************************************************)
(* What must eventually happen, in one small instance of each component    *)
(* that promises something of the kind.  They share no state: `part` says  *)
(* which of them a behaviour is about, and each is scheduled as fairly as  *)
(* its own module says, in the behaviours that are about it.               *)
(***************************************************************************)
EXTENDS HermesJobs, MailSync, BackendSession, AgentJobs, GmailQueue, TLC

CONSTANTS Sends, Bodies, Delays, MaxRecoverable, MaxCalls, MaxRestarts, StorageFaults   \* of Outbox, whose names HermesJobs has too

VARIABLES obMem, obLoaded, obDisk, obIssued, obCommitted, obWrites, obLock, obWorkers, obPc, obCur, obStage, obDoomed,
          obRipe, obCalls, obRestarts, obWire, obAttempts, obFresh, obPromised, obTold, obShown,
          part   \* the component that runs

AccountOf == [m \in Sends |-> CHOOSE a \in Accounts : TRUE]
O == INSTANCE Outbox WITH mem <- obMem, loaded <- obLoaded, disk <- obDisk, issued <- obIssued, committed <- obCommitted,
       writes <- obWrites, lock <- obLock, workers <- obWorkers, pc <- obPc, cur <- obCur, stage <- obStage,
       doomed <- obDoomed, ripe <- obRipe, calls <- obCalls, restarts <- obRestarts, wire <- obWire,
       attempts <- obAttempts, fresh <- obFresh, promised <- obPromised, told <- obTold, shown <- obShown
outboxVars == <<obMem, obLoaded, obDisk, obIssued, obCommitted, obWrites, obLock, obWorkers, obPc, obCur, obStage, obDoomed,
                obRipe, obCalls, obRestarts, obWire, obAttempts, obFresh, obPromised, obTold, obShown>>

\* The other components stay where they began.
Rest(p) == /\ p # "sync" => UNCHANGED syncVars
           /\ p # "session" => UNCHANGED sessionVars
           /\ p # "jobs" => UNCHANGED jobVars
           /\ p # "gmail" => UNCHANGED gmailVars
           /\ p # "hermes" => UNCHANGED vars
           /\ p # "outbox" => UNCHANGED outboxVars
LiveInit == /\ SyncInit /\ SessionInit /\ JobsInit /\ GmailInit /\ Init /\ O!Init
            /\ part \in {"sync", "session", "jobs", "gmail", "hermes", "outbox"}
LiveNext == /\ UNCHANGED part /\ Rest(part)
            /\ \/ part = "sync" /\ SyncNext
               \/ part = "session" /\ SessionNext
               \/ part = "jobs" /\ JobsNext
               \/ part = "gmail" /\ GmailNext
               \/ part = "hermes" /\ Next
               \/ part = "outbox" /\ O!Next
liveVars == <<part, syncVars, sessionVars, jobVars, gmailVars, vars, outboxVars>>

\* The fairness of each module, in the behaviours about it.
SyncFair == /\ WF_syncVars(part = "sync" /\ OperationEnds) /\ WF_syncVars(part = "sync" /\ Deliver)
            /\ WF_syncVars(part = "sync" /\ RegistryPoll)
            /\ \A g \in 1..MaxGen : WF_syncVars(part = "sync" /\ LoopStep(g))
JobsFair == /\ WF_jobVars(part = "jobs" /\ JobsList)
            /\ \A j \in JobIds : /\ WF_jobVars(part = "jobs" /\ GrowsOld(j)) /\ WF_jobVars(part = "jobs" /\ WorkerBegins(j))
                                 /\ WF_jobVars(part = "jobs" /\ WorkerEnds(j)) /\ WF_jobVars(part = "jobs" /\ WorkerSaves(j))
GmailFair == /\ \A a \in GmailActors : WF_gmailVars(part = "gmail" /\ CallStep(a))
             /\ \A t \in Tickets, s \in SessionIds : WF_gmailVars(part = "gmail" /\ Join([t |-> t, s |-> s]))
             /\ WF_gmailVars(part = "gmail" /\ TakeNext) /\ WF_gmailVars(part = "gmail" /\ SweepQueue)
HermesFair == /\ \A i \in Pids : WF_vars(part = "hermes" /\ Step(i))
              /\ \A j \in Jobs : WF_vars(part = "hermes" /\ ListReaches(j))
\* Calls are bounded here, so nobody takes the lock from a waiting worker or shutdown for ever: weak fairness will do.
OutboxFair == /\ \A m \in Sends : WF_outboxVars(part = "outbox" /\ O!Elapse(m))
              /\ WF_outboxVars(part = "outbox" /\ \E w \in obWrites : O!Writer(w)) /\ WF_outboxVars(part = "outbox" /\ O!Return)
              /\ \A a \in Accounts : /\ WF_outboxVars(part = "outbox" /\ O!Work(a))
                                    /\ WF_outboxVars(part = "outbox" /\ O!AbortWorker(a))
              /\ WF_outboxVars(part = "outbox" /\ O!StopDrain) /\ WF_outboxVars(part = "outbox" /\ O!StopUnloaded)
LiveSpec == /\ LiveInit /\ [][LiveNext]_liveVars
            /\ SyncFair /\ WF_sessionVars(part = "session" /\ SessionProgress)
            /\ JobsFair /\ GmailFair /\ HermesFair /\ OutboxFair

(* What the interface waits for comes: the answer to a watch or an unwatch, the result of a check that was accepted,
   and the end of a session whose input ended. *)
CallsReturn == OperationReturns /\ CheckHappens /\ SessionEnds
(* With storage that works every queued message leaves the queue, and every shutdown of the outbox ends. *)
OutboxDrains == O!QueueDrains /\ O!ShutdownEnds
(* Jobs of both kinds of assistant come to a result or are found to be dead. *)
EveryJobSettles == JobsSettle /\ AgentJobsSettle
=============================================================================
