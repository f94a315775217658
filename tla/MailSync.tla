------------------------------ MODULE MailSync ------------------------------
(***************************************************************************)
(* The watches of omamail: sync/mod.rs and sync/preload.rs.  A watch is a  *)
(* loop that checks one account; mail.watch, mail.unwatch, mail.check and  *)
(* the shutdown of the session work on the table of watches while the      *)
(* loops run, results travel to the interface through a bounded broadcast  *)
(* queue, and each good result may start a job that warms the caches.      *)
(*                                                                         *)
(* A loop is named by its generation and a warm job by the sequence number *)
(* of the result that started it.  The text of a query, the interval and   *)
(* the page size are one member of Configs; a mailbox is a version number. *)
(***************************************************************************)
EXTENDS Integers, Sequences, FiniteSets

CONSTANTS Accounts, Configs,
          WatchLimit,   \* watches.len() >= 32
          QueueCap,     \* broadcast::channel(128)
          MaxGen,       \* bound on the watches ever made
          MaxSeq,       \* bound on the checks ever made
          MaxMail,      \* bound on the versions of the mailboxes
          MaxRev        \* bound on the revisions of accounts.json

ASSUME SyncAssumption == /\ {WatchLimit, QueueCap, MaxGen, MaxSeq, MaxMail, MaxRev} \subseteq Nat \ {0}
                         /\ IsFiniteSet(Accounts) /\ Accounts # {} /\ Configs # {}

VARIABLES watches,     \* account -> the Watch in the table; gen = 0: there is none
          generation, sequence,
          operation,   \* the call that holds `operations`, and the loop it waits for
          loops,       \* generation -> the task of a watch
          events,      \* the broadcast queue
          shown,       \* account -> the last result the interface received
          mail,        \* the version of the mailboxes on the servers
          warmJobs,        \* sequence number -> the warm job started with that result
          page,        \* account -> the cached first page and the job that wrote it
          registry     \* accounts.json, its watcher and what the interface was told

syncVars == <<watches, generation, sequence, operation, loops, events, shown, mail, warmJobs, page, registry>>
tableVars == <<generation, operation, registry>>

Error == 0
NoWatch == [gen |-> 0, config |-> CHOOSE c \in Configs : TRUE, checking |-> FALSE, permit |-> FALSE,
            seq |-> 0, print |-> 0, error |-> FALSE, job |-> 0]
NoOperation == [kind |-> "none", account |-> CHOOSE a \in Accounts : TRUE, config |-> NoWatch.config, old |-> {}]
NoLoop == [account |-> NoOperation.account, config |-> NoWatch.config, at |-> "ended", aborted |-> FALSE, result |-> Error]
NoWarmJob == [account |-> NoOperation.account, print |-> 0, live |-> FALSE, task |-> "done", complete |-> FALSE,
          read |-> 0, closure |-> FALSE]

Watched == {a \in Accounts : watches[a].gen # 0}
Current(g) == watches[loops[g].account].gen = g
Running(g) == loops[g].at # "ended"

\* The bound on checks: those under way, asked for, or about to start count too.
MayCheck == sequence + Cardinality({g \in 1..MaxGen : loops[g].at \notin {"sleep", "ended"}})
                     + Cardinality({a \in Watched : watches[a].permit})
                     + (IF operation.kind = "watch" THEN 1 ELSE 0) < MaxSeq

SyncInit == /\ watches = [a \in Accounts |-> NoWatch]
            /\ generation = 0 /\ sequence = 0 /\ operation = NoOperation /\ mail = 1
            /\ loops = [g \in 1..MaxGen |-> NoLoop]
            /\ events = <<>>
            /\ shown = [a \in Accounts |-> [gen |-> 0, seq |-> 0, print |-> 0, error |-> FALSE]]
            /\ warmJobs = [s \in 1..MaxSeq |-> NoWarmJob]
            /\ page = [a \in Accounts |-> [print |-> 0, job |-> 0]]
            /\ registry = [file |-> 1, seen |-> 0, told |-> 0, alive |-> TRUE]

\* Dropping a watch drops its job: the live flag falls before the task is aborted.
DroppedJobs(set) == [s \in 1..MaxSeq |-> IF s \in set THEN [warmJobs[s] EXCEPT !.live = FALSE] ELSE warmJobs[s]]

NotAborted(loop) == loop
Aborted(loop) == [loop EXCEPT !.aborted = TRUE]
\* Removes the watches of a set of accounts and aborts their loops; the caller awaits them.
RemoveWatches(accounts) ==
  /\ watches' = [a \in Accounts |-> IF a \in accounts THEN NoWatch ELSE watches[a]]
  /\ warmJobs' = DroppedJobs({watches[a].job : a \in accounts})
  /\ loops' = [g \in 1..MaxGen |-> IF Running(g) /\ Current(g) /\ loops[g].account \in accounts
                                   THEN Aborted(loops[g]) ELSE loops[g]]

OldLoops(accounts) == {g \in 1..MaxGen : Running(g) /\ Current(g) /\ loops[g].account \in accounts}

(* mail.watch takes the lock: the same configuration is answered at once, a new account past the limit
   is refused, and an old watch of the account is taken out before its loop is awaited. *)
WatchBegin(a, c) ==
  /\ operation = NoOperation /\ registry.alive /\ generation < MaxGen /\ MayCheck
  /\ IF a \in Watched THEN watches[a].config # c ELSE Cardinality(Watched) < WatchLimit
  /\ operation' = [kind |-> "watch", account |-> a, config |-> c, old |-> OldLoops({a})]
  /\ RemoveWatches({a})
  /\ UNCHANGED <<generation, sequence, events, shown, mail, page, registry>>

NotAwaited == TRUE
Awaited == \A g \in operation.old : ~Running(g)

WatchInsert ==
  /\ operation.kind = "watch" /\ Awaited
  /\ generation' = generation + 1
  /\ watches' = [watches EXCEPT ![operation.account] =
                   [NoWatch EXCEPT !.gen = generation + 1, !.config = operation.config,
                                   !.checking = TRUE, !.seq = sequence]]
  /\ loops' = [loops EXCEPT ![generation + 1] =
                 [NoLoop EXCEPT !.account = operation.account, !.config = operation.config, !.at = "start"]]
  /\ operation' = NoOperation
  /\ UNCHANGED <<sequence, events, shown, mail, warmJobs, page, registry>>

Unwatch(a) ==
  /\ operation = NoOperation /\ registry.alive /\ a \in Watched
  /\ operation' = [NoOperation EXCEPT !.kind = "unwatch", !.account = a, !.old = OldLoops({a})]
  /\ RemoveWatches({a})
  /\ UNCHANGED <<generation, sequence, events, shown, mail, page, registry>>

UnwatchEnd ==
  /\ operation.kind = "unwatch" /\ Awaited
  /\ operation' = NoOperation
  /\ UNCHANGED <<watches, generation, sequence, loops, events, shown, mail, warmJobs, page, registry>>

(* mail.check stores one permit, unless a check is under way. *)
Check(a) ==
  /\ a \in Watched /\ ~watches[a].checking /\ ~watches[a].permit /\ registry.alive /\ MayCheck
  /\ watches' = [watches EXCEPT ![a].permit = TRUE]
  /\ UNCHANGED <<sequence, loops, events, shown, mail, warmJobs, page, tableVars>>

(* The session ends: the registry task first, then every watch under the lock. *)
Shutdown ==
  /\ registry.alive /\ operation = NoOperation
  /\ registry' = [registry EXCEPT !.alive = FALSE]
  /\ operation' = [NoOperation EXCEPT !.kind = "shutdown", !.old = OldLoops(Accounts)]
  /\ RemoveWatches(Accounts)
  /\ UNCHANGED <<generation, sequence, events, shown, mail, page>>

------------------------------------
(* The loop of a watch.  An aborted loop may finish the step it is in, so an abort is one more action. *)
LoopAt(g, at) == Running(g) /\ loops[g].at = at
LoopEnds(g) == loops' = [loops EXCEPT ![g] = NoLoop]

LoopStart(g) ==
  /\ LoopAt(g, "start")
  /\ IF Current(g) THEN /\ watches' = [watches EXCEPT ![loops[g].account].checking = TRUE]
                        /\ loops' = [loops EXCEPT ![g].at = "check"]
                   ELSE LoopEnds(g) /\ UNCHANGED watches
  /\ UNCHANGED <<sequence, events, shown, mail, warmJobs, page, tableVars>>

\* The provider answers, fails, or 25 seconds pass.
LoopReads(g) ==
  /\ LoopAt(g, "check")
  /\ \E result \in {mail, Error} : loops' = [loops EXCEPT ![g].at = "result", ![g].result = result]
  /\ UNCHANGED <<watches, sequence, events, shown, mail, warmJobs, page, tableVars>>

Send(e) == events' = IF Len(events) < QueueCap THEN Append(events, e) ELSE Append(Tail(events), e)

\* Whether the warm job of a watch is replaced after a result; `due`: the interval has passed.
Restart(job, print, due) == \/ job = 0
                            \/ warmJobs[job].print # print
                            \/ warmJobs[job].task = "done" /\ (due \/ ~warmJobs[job].complete)

PublishResult(a, g, snapshot) ==
  /\ sequence' = sequence + 1
  /\ Send([account |-> a, gen |-> g, seq |-> sequence + 1, print |-> snapshot.print, error |-> snapshot.error])

(* The section after a check: the result of an older generation is dropped; a failure keeps the last data. *)
LoopDone(g) ==
  /\ LoopAt(g, "result")
  /\ LET a == loops[g].account
         w == [watches[a] EXCEPT !.checking = FALSE, !.seq = sequence + 1]
         result == loops[g].result
     IN IF ~Current(g)
        THEN LoopEnds(g) /\ UNCHANGED <<watches, sequence, events, warmJobs>>
        ELSE /\ loops' = [loops EXCEPT ![g].at = "sleep", ![g].result = Error]
             /\ IF result = Error
                THEN /\ watches' = [watches EXCEPT ![a] = [w EXCEPT !.error = TRUE]]
                     /\ PublishResult(a, g, [w EXCEPT !.error = TRUE])
                     /\ UNCHANGED warmJobs
                ELSE \E due \in BOOLEAN :
                       LET ok == [w EXCEPT !.print = result, !.error = FALSE]
                           restart == Restart(w.job, result, due)
                       IN /\ watches' = [watches EXCEPT ![a] = IF restart THEN [ok EXCEPT !.job = sequence + 1] ELSE ok]
                          /\ warmJobs' = IF restart
                                     THEN [DroppedJobs({w.job}) EXCEPT ![sequence + 1] =
                                             [NoWarmJob EXCEPT !.account = a, !.print = result, !.live = TRUE, !.task = "run"]]
                                     ELSE warmJobs
                          /\ PublishResult(a, g, ok)
  /\ UNCHANGED <<shown, mail, page, tableVars>>

\* The select! at the end of the loop: a stored permit wakes it, or the interval passes (bounded by MaxSeq).
LoopNotified(g) ==
  /\ LoopAt(g, "sleep") /\ Current(g) /\ watches[loops[g].account].permit
  /\ watches' = [watches EXCEPT ![loops[g].account].permit = FALSE]
  /\ loops' = [loops EXCEPT ![g].at = "start"]
  /\ UNCHANGED <<sequence, events, shown, mail, warmJobs, page, tableVars>>

LoopTimer(g) ==
  /\ LoopAt(g, "sleep") /\ MayCheck
  /\ loops' = [loops EXCEPT ![g].at = "start"]
  /\ UNCHANGED <<watches, sequence, events, shown, mail, warmJobs, page, tableVars>>

LoopAborted(g) ==
  /\ Running(g) /\ loops[g].aborted /\ LoopEnds(g)
  /\ UNCHANGED <<watches, sequence, events, shown, mail, warmJobs, page, tableVars>>

------------------------------------
(* The dispatcher takes the oldest event: a stale generation is not sent on.  An event of the registry
   has no account and goes out while its task lives. *)
IsLive(e) == IF e.gen = 0 THEN registry.alive ELSE e.account \in Watched
IsCurrent(e) == IF e.gen = 0 THEN registry.alive ELSE watches[e.account].gen = e.gen

Deliver ==
  /\ events # <<>>
  /\ events' = Tail(events)
  /\ LET e == Head(events) IN
     IF ~IsCurrent(e) THEN UNCHANGED <<shown, registry>>
     ELSE IF e.gen = 0 THEN registry' = [registry EXCEPT !.told = e.print] /\ UNCHANGED shown
     ELSE /\ shown' = [shown EXCEPT ![e.account] = [gen |-> e.gen, seq |-> e.seq, print |-> e.print, error |-> e.error]]
          /\ UNCHANGED registry
  /\ UNCHANGED <<watches, generation, sequence, operation, loops, mail, warmJobs, page>>

(* The registry task compares the file with the last revision it read. *)
RegistryPoll ==
  /\ registry.alive /\ registry.seen # registry.file
  /\ registry' = [registry EXCEPT !.seen = registry.file]
  /\ IF registry.seen = 0 THEN UNCHANGED events
     ELSE Send([account |-> NoOperation.account, gen |-> 0, seq |-> 0, print |-> registry.file, error |-> FALSE])
  /\ UNCHANGED <<watches, generation, sequence, operation, loops, shown, mail, warmJobs, page>>

------------------------------------
(* A warm job reads the first page and writes it in a blocking closure, which an abort does not stop;
   the closure holds the live flag around the write. *)
JobReads(s) ==
  /\ warmJobs[s].task = "run"
  /\ warmJobs' = [warmJobs EXCEPT ![s] = IF @.live THEN [@ EXCEPT !.task = "write", !.read = mail, !.closure = TRUE]
                                 ELSE [@ EXCEPT !.task = "done"]]
  /\ UNCHANGED <<watches, sequence, loops, events, shown, mail, page, tableVars>>

JobCommits(s) ==
  /\ warmJobs[s].closure
  /\ warmJobs' = [warmJobs EXCEPT ![s].closure = FALSE, ![s].complete = warmJobs[s].live /\ warmJobs[s].task = "write",
                          ![s].task = "done", ![s].read = 0]
  /\ page' = IF warmJobs[s].live THEN [page EXCEPT ![warmJobs[s].account] = [print |-> warmJobs[s].read, job |-> s]] ELSE page
  /\ UNCHANGED <<watches, sequence, loops, events, shown, mail, tableVars>>

\* A request fails, 180 seconds pass, or an abort arrives.
JobFails(s) ==
  /\ warmJobs[s].task # "done"
  /\ warmJobs' = [warmJobs EXCEPT ![s].task = "done", ![s].live = FALSE]
  /\ UNCHANGED <<watches, sequence, loops, events, shown, mail, page, tableVars>>

NewMail ==
  /\ mail < MaxMail /\ mail' = mail + 1
  /\ UNCHANGED <<watches, sequence, loops, events, shown, warmJobs, page, tableVars>>

RegistryChanges ==
  /\ registry.file < MaxRev /\ registry' = [registry EXCEPT !.file = @ + 1]
  /\ UNCHANGED <<watches, generation, sequence, operation, loops, events, shown, mail, warmJobs, page>>

SyncCall == \/ \E a \in Accounts, c \in Configs : WatchBegin(a, c)
            \/ \E a \in Accounts : Unwatch(a) \/ Check(a)
            \/ Shutdown
LoopStep(g) == LoopStart(g) \/ LoopReads(g) \/ LoopDone(g) \/ LoopNotified(g) \/ LoopAborted(g)
OperationEnds == WatchInsert \/ UnwatchEnd
JobStep(s) == JobReads(s) \/ JobCommits(s) \/ JobFails(s)

SyncNext == \/ SyncCall \/ OperationEnds \/ Deliver \/ RegistryPoll \/ NewMail \/ RegistryChanges
            \/ \E g \in 1..MaxGen : LoopStep(g) \/ LoopTimer(g)
            \/ \E s \in 1..MaxSeq : JobStep(s)

(* Every task that can run is polled, and a check ends by itself after 25 seconds.  Nothing is assumed of the
   timers, of new mail or of the calls. *)
SyncSafety == SyncInit /\ [][SyncNext]_syncVars
SyncSpec == /\ SyncSafety
            /\ WF_syncVars(OperationEnds) /\ WF_syncVars(Deliver) /\ WF_syncVars(RegistryPoll)
            /\ \A g \in 1..MaxGen : WF_syncVars(LoopStep(g))

------------------------------------
(* Types.  The table, the tasks and the jobs name each other by generation and sequence number. *)
SyncTypeOK ==
  /\ generation \in 0..MaxGen /\ sequence \in 0..MaxSeq /\ mail \in 1..MaxMail
  /\ watches \in [Accounts -> [gen : 0..MaxGen, config : Configs, checking : BOOLEAN, permit : BOOLEAN,
                               seq : 0..MaxSeq, print : 0..MaxMail, error : BOOLEAN, job : 0..MaxSeq]]
  /\ operation \in [kind : {"none", "watch", "unwatch", "shutdown"}, account : Accounts, config : Configs, old : SUBSET (1..MaxGen)]
  /\ loops \in [1..MaxGen -> [account : Accounts, config : Configs, aborted : BOOLEAN, result : 0..MaxMail,
                              at : {"start", "check", "result", "sleep", "ended"}]]
  /\ Len(events) <= QueueCap
  /\ warmJobs \in [1..MaxSeq -> [account : Accounts, print : 0..MaxMail, live : BOOLEAN, complete : BOOLEAN,
                             task : {"run", "write", "done"}, read : 0..MaxMail, closure : BOOLEAN]]

(* BACKEND.md: each account has one cancellable check loop.  Replacing a watch awaits the old loop, so two
   checks of one account never run side by side, whatever the interleaving of calls and loops. *)
OneChecker == \A g, h \in 1..MaxGen : Running(g) /\ Running(h) /\ loops[g].account = loops[h].account => g = h

(* After the last call returned, every loop that still runs belongs to a watch in the table: nothing that was
   replaced, removed or shut down goes on checking in the background. *)
NoOrphanLoop == \A g \in 1..MaxGen : Running(g) => Current(g) \/ g \in operation.old

(* Watches: one loop checks an account, whatever calls and loops interleave, and none goes on unowned. *)
LoopsOwned == OneChecker /\ NoOrphanLoop

(* What the interface receives belongs to the watch in force, and the results of an account never go back:
   neither a replaced query nor a slow old check shows after a newer one. *)
ShownForward == [][\A a \in Accounts : shown'[a] # shown[a] =>
                     shown'[a].gen = watches[a].gen /\ shown'[a].seq > shown[a].seq]_syncVars

(* preload.rs: no old generation writes a cache file after its cancellation returns.  A page is only written
   by the job its watch still holds. *)
OnlyHeldJobWrites == [][\A a \in Accounts : page'[a] # page[a] => page'[a].job = watches[a].job]_syncVars

(* A check that mail.check accepted happens: the account comes to a result at least as new as the mailbox was,
   or to an error, unless the watch is replaced first.  Needs no timer. *)
CheckHappens == \A a \in Accounts, v \in 1..MaxMail, g \in 1..MaxGen :
  (watches[a].gen = g /\ watches[a].permit /\ mail >= v)
     ~> (watches[a].gen # g \/ (~watches[a].permit /\ (watches[a].print >= v \/ watches[a].error)))

(* A call that replaces or removes a watch returns, also while the old loop is in the middle of a check. *)
OperationReturns == operation.kind \in {"watch", "unwatch"} ~> operation = NoOperation
=============================================================================
