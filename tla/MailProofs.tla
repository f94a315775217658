----------------------------- MODULE MailProofs -----------------------------
(***************************************************************************)
(* Proofs about the services of the omamail backend: the watches and the   *)
(* warm job (MailSync), the query cache (QueryCache), the frames of a      *)
(* session (BackendSession) and the uploads of the assistant (Uploads),    *)
(* its jobs (AgentJobs), its event stream and its context reads            *)
(* (AnswerStream), and what the requests of an IMAP account share          *)
(* (ImapConnections).                                                      *)
(***************************************************************************)
EXTENDS MailSync, QueryCache, BackendSession, Uploads, AgentJobs, AnswerStream, ImapConnections, FiniteSetTheorems, TLAPS

------------------------------------
(* The watches of mail and the warm job. *)

WatchRecord == [gen : Nat, config : Configs \cup {NoWatch.config}, checking : BOOLEAN, permit : BOOLEAN,
                seq : Nat, print : Nat, error : BOOLEAN, job : Nat]
LoopRecord == [account : Accounts \cup {NoOperation.account}, config : Configs \cup {NoWatch.config},
               aborted : BOOLEAN, result : Nat, at : {"start", "check", "result", "sleep", "ended"}]
OperationRecord == [kind : {"none", "watch", "unwatch", "shutdown"}, account : Accounts \cup {NoOperation.account},
                    config : Configs \cup {NoWatch.config}, old : SUBSET (1..MaxGen)]
TableType == /\ generation \in Nat /\ sequence \in Nat /\ mail \in Nat
             /\ watches \in [Accounts -> WatchRecord]
             /\ loops \in [1..MaxGen -> LoopRecord]
             /\ operation \in OperationRecord
\* Generations are given once, in their order.
NewestInv == /\ \A a \in Accounts : watches[a].gen <= generation
             /\ \A g \in 1..MaxGen : Running(g) => g <= generation
             /\ \A g \in 1..MaxGen : Running(g) => loops[g].account \in Accounts
\* The loops a call waits for: their accounts have no watch meanwhile, and each has one of them at most.
AwaitedInv == /\ \A g \in operation.old : Running(g) => watches[loops[g].account].gen = 0
              /\ \A g, h \in operation.old : Running(g) /\ Running(h) /\ loops[g].account = loops[h].account => g = h
\* The call that will insert a watch has taken the old one out and may still take a generation.
InsertInv == operation.kind = "watch" => /\ operation.account \in Accounts
                                         /\ watches[operation.account].gen = 0
                                         /\ generation < MaxGen
LoopInv == TableType /\ NewestInv /\ NoOrphanLoop /\ AwaitedInv /\ InsertInv

LEMMA NoneOwned == /\ NoWatch \in WatchRecord /\ NoWatch.gen = 0
                   /\ NoLoop \in LoopRecord /\ NoLoop.at = "ended"
                   /\ NoOperation \in OperationRecord /\ NoOperation.kind = "none" /\ NoOperation.old = {}
BY DEF NoWatch, WatchRecord, NoLoop, LoopRecord, NoOperation, OperationRecord, Error

\* Two loops of one account are one: each is that of its watch, or both are awaited, or the account has no watch.
LEMMA OwnedIsOne == ASSUME LoopInv PROVE LoopsOwned
<1> SUFFICES ASSUME NEW g \in 1..MaxGen, NEW h \in 1..MaxGen, Running(g), Running(h), loops[g].account = loops[h].account
             PROVE  g = h
  BY DEF LoopsOwned, OneChecker, LoopInv
<1> DEFINE a == loops[g].account
<1>1. a \in Accounts  BY DEF LoopInv, NewestInv
<1>2. \A x \in {g, h} : watches[a].gen = x \/ x \in operation.old  BY DEF LoopInv, NoOrphanLoop, Current
<1>3. \A x \in {g, h} : x \in operation.old => watches[a].gen = 0  BY DEF LoopInv, AwaitedInv
<1> QED BY <1>2, <1>3 DEF LoopInv, AwaitedInv

\* A step that leaves the table of watches alone, as far as their generations go, and starts no loop.
Quiet == /\ \A a \in Accounts : watches'[a].gen = watches[a].gen
         /\ \A g \in 1..MaxGen : Running(g)' => Running(g)
         /\ \A g \in 1..MaxGen : Running(g)' => loops'[g].account = loops[g].account
         /\ generation' = generation

LEMMA QuietKeeps ==
    ASSUME LoopInv, TableType', Quiet, operation' = operation
    PROVE  LoopInv'
<1>1. NewestInv'  BY DEF LoopInv, NewestInv, Quiet
<1>2. NoOrphanLoop'  BY DEF LoopInv, NoOrphanLoop, Current, Quiet, NewestInv
<1>3. AwaitedInv'
  <2>1. operation.old \subseteq 1..MaxGen  BY DEF LoopInv, TableType, OperationRecord
  <2> QED BY <2>1 DEF LoopInv, AwaitedInv, Quiet, NewestInv
<1>4. InsertInv'  BY DEF LoopInv, InsertInv, Quiet
<1> QED BY <1>1, <1>2, <1>3, <1>4 DEF LoopInv

LEMMA ResultType == \A r \in {mail, Error} : mail \in Nat => r \in Nat
BY DEF Error

LEMMA LoopSteps ==
    ASSUME LoopInv, NEW g \in 1..MaxGen, LoopStep(g) \/ LoopTimer(g)
    PROVE  LoopInv'
<1> USE DEF LoopInv, TableType
<1>1. loops[g] \in LoopRecord  OBVIOUS
<1>2. ASSUME loops' = [loops EXCEPT ![g] = NoLoop], UNCHANGED <<watches, generation, sequence, mail, operation>>
      PROVE  LoopInv'
  <2>1. loops' \in [1..MaxGen -> LoopRecord] /\ loops'[g].at = "ended" /\ \A h \in 1..MaxGen \ {g} : loops'[h] = loops[h]
    BY <1>2, NoneOwned
  <2>2. Quiet  BY <1>2, <2>1 DEF Quiet, Running
  <2> QED BY <1>2, <2>1, <2>2, QuietKeeps
<1>3. CASE LoopStart(g)
  <2>1. CASE ~Current(g)  BY <1>2, <1>3, <2>1 DEF LoopStart, LoopEnds, tableVars
  <2>2. CASE Current(g)
    <3>1. loops'[g] = [loops[g] EXCEPT !.at = "check"] /\ loops' = [loops EXCEPT ![g] = loops'[g]]  BY <1>3, <2>2 DEF LoopStart
    <3>2. loops'[g] \in LoopRecord /\ loops'[g].account = loops[g].account /\ Running(g)
      BY <1>1, <1>3, <3>1 DEF LoopRecord, LoopStart, LoopAt
    <3>3. watches' = [watches EXCEPT ![loops[g].account].checking = TRUE]  BY <1>3, <2>2 DEF LoopStart
    <3>4. watches' \in [Accounts -> WatchRecord] /\ \A a \in Accounts : watches'[a].gen = watches[a].gen  BY <3>3 DEF WatchRecord
    <3>5. UNCHANGED <<generation, sequence, mail, operation>>  BY <1>3 DEF LoopStart, tableVars
    <3>6. Quiet  BY <3>1, <3>2, <3>4, <3>5 DEF Quiet, Running
    <3> QED BY <3>1, <3>2, <3>4, <3>5, <3>6, QuietKeeps
  <2> QED BY <2>1, <2>2
<1>4. CASE LoopReads(g)
  <2>1. PICK r \in Nat : loops' = [loops EXCEPT ![g].at = "result", ![g].result = r]  BY <1>4, ResultType DEF LoopReads
  <2>2. loops'[g] = [loops[g] EXCEPT !.at = "result", !.result = r] /\ \A h \in 1..MaxGen \ {g} : loops'[h] = loops[h]  BY <2>1
  <2>3. loops'[g] \in LoopRecord /\ loops'[g].account = loops[g].account /\ Running(g)
    BY <1>1, <1>4, <2>2 DEF LoopRecord, LoopReads, LoopAt
  <2>4. UNCHANGED <<watches, generation, sequence, mail, operation>>  BY <1>4 DEF LoopReads, tableVars
  <2>5. Quiet  BY <2>2, <2>3, <2>4 DEF Quiet, Running
  <2> QED BY <2>1, <2>2, <2>3, <2>4, <2>5, QuietKeeps
<1>5. CASE LoopDone(g)
  <2>1. CASE ~Current(g)  BY <1>2, <1>5, <2>1 DEF LoopDone, LoopEnds, tableVars
  <2>2. CASE Current(g)
    <3>1. loops' = [loops EXCEPT ![g].at = "sleep", ![g].result = Error]  BY <1>5, <2>2 DEF LoopDone
    <3>2. loops'[g] = [loops[g] EXCEPT !.at = "sleep", !.result = Error] /\ \A h \in 1..MaxGen \ {g} : loops'[h] = loops[h]  BY <3>1
    <3>3a. loops'[g] \in LoopRecord /\ loops'[g].account = loops[g].account
      <4>1. Error \in Nat  BY DEF Error
      <4> QED BY <1>1, <3>2, <4>1 DEF LoopRecord
    <3>3b. Running(g)  BY <1>5 DEF LoopDone, LoopAt
    <3>3c. loops' \in [1..MaxGen -> LoopRecord]  BY <3>1, <3>2, <3>3a
    <3>3. loops'[g].account = loops[g].account /\ Running(g) /\ loops' \in [1..MaxGen -> LoopRecord]  BY <3>3a, <3>3b, <3>3c
    <3> DEFINE a == loops[g].account
               w == [watches[a] EXCEPT !.checking = FALSE, !.seq = sequence + 1]
    <3>4. sequence' = sequence + 1 /\ UNCHANGED <<generation, mail, operation>>
      BY <1>5, <2>2 DEF LoopDone, PublishResult, tableVars
    <3>5. a \in Accounts /\ watches[a] \in WatchRecord  BY <3>3 DEF NewestInv
    <3>6. \/ watches' = [watches EXCEPT ![a] = [w EXCEPT !.error = TRUE]]
          \/ watches' = [watches EXCEPT ![a] = [w EXCEPT !.print = loops[g].result, !.error = FALSE]]
          \/ watches' = [watches EXCEPT ![a] = [[w EXCEPT !.print = loops[g].result, !.error = FALSE] EXCEPT !.job = sequence + 1]]
      BY <1>5, <2>2 DEF LoopDone
    <3>7. loops[g].result \in Nat /\ sequence + 1 \in Nat  BY <1>1 DEF LoopRecord
    <3>7a. w \in WatchRecord /\ w.gen = watches[a].gen  BY <3>5, <3>7 DEF WatchRecord
    <3> HIDE DEF w
    <3>7b. \/ watches'[a] = [w EXCEPT !.error = TRUE]
           \/ watches'[a] = [w EXCEPT !.print = loops[g].result, !.error = FALSE]
           \/ watches'[a] = [[w EXCEPT !.print = loops[g].result, !.error = FALSE] EXCEPT !.job = sequence + 1]
      BY <3>5, <3>6
    <3>7c. [w EXCEPT !.print = loops[g].result, !.error = FALSE] \in WatchRecord  BY <3>7, <3>7a DEF WatchRecord
    <3>7d. watches'[a] \in WatchRecord  BY <3>7, <3>7a, <3>7b, <3>7c DEF WatchRecord
    <3>7e. watches'[a].gen = w.gen  BY <3>7a, <3>7b DEF WatchRecord
    <3>8. watches'[a] \in WatchRecord /\ watches'[a].gen = w.gen  BY <3>7d, <3>7e
    <3>9. watches' \in [Accounts -> WatchRecord] /\ \A b \in Accounts : watches'[b].gen = watches[b].gen  BY <3>5, <3>6, <3>7a, <3>8
    <3>10. Quiet  BY <3>2, <3>3, <3>4, <3>9 DEF Quiet, Running
    <3> QED BY <3>1, <3>3, <3>4, <3>9, <3>10, QuietKeeps
  <2> QED BY <2>1, <2>2
<1>6. ASSUME UNCHANGED <<generation, sequence, mail, operation>>, LoopAt(g, "sleep"),
             loops' = [loops EXCEPT ![g].at = "start"],
             \/ watches' = watches
             \/ watches' = [watches EXCEPT ![loops[g].account].permit = FALSE]
      PROVE  LoopInv'
  <2>2. loops'[g] = [loops[g] EXCEPT !.at = "start"] /\ \A h \in 1..MaxGen \ {g} : loops'[h] = loops[h]  BY <1>6
  <2>3. loops'[g] \in LoopRecord /\ loops'[g].account = loops[g].account /\ Running(g)  BY <1>1, <1>6, <2>2 DEF LoopRecord, LoopAt
  <2>a. loops[g].account \in Accounts /\ watches[loops[g].account] \in WatchRecord  BY <2>3 DEF NewestInv
  <2>b. [watches[loops[g].account] EXCEPT !.permit = FALSE] \in WatchRecord  BY <2>a DEF WatchRecord
  <2>c. [watches[loops[g].account] EXCEPT !.permit = FALSE].gen = watches[loops[g].account].gen  BY <2>a DEF WatchRecord
  <2>d. \/ watches' = watches
        \/ watches' = [watches EXCEPT ![loops[g].account] = [watches[loops[g].account] EXCEPT !.permit = FALSE]]
    BY <1>6
  <2>4. watches' \in [Accounts -> WatchRecord] /\ \A b \in Accounts : watches'[b].gen = watches[b].gen  BY <2>a, <2>b, <2>c, <2>d
  <2>5. Quiet  BY <1>6, <2>2, <2>3, <2>4 DEF Quiet, Running
  <2> QED BY <1>6, <2>2, <2>3, <2>4, <2>5, QuietKeeps
<1>7. CASE LoopNotified(g)  BY <1>6, <1>7 DEF LoopNotified, tableVars
<1>8. CASE LoopTimer(g)  BY <1>6, <1>8 DEF LoopTimer, tableVars
<1>9. CASE LoopAborted(g)  BY <1>2, <1>9 DEF LoopAborted, LoopEnds, tableVars
<1> QED BY <1>3, <1>4, <1>5, <1>7, <1>8, <1>9 DEF LoopStep

\* A call that takes watches out of the table waits for their loops.
LEMMA RemovalSteps ==
    ASSUME LoopInv, NEW removed \in SUBSET Accounts, operation = NoOperation, RemoveWatches(removed),
           operation'.kind \in {"watch", "unwatch", "shutdown"}, operation' \in OperationRecord,
           operation'.old = OldLoops(removed),
           operation'.kind = "watch" => operation'.account \in removed /\ generation < MaxGen,
           UNCHANGED <<generation, sequence, mail>>
    PROVE  LoopInv'
<1> USE DEF LoopInv, TableType
<1>1. watches' \in [Accounts -> WatchRecord]  BY NoneOwned DEF RemoveWatches
<1>2. \A a \in Accounts : watches'[a].gen = IF a \in removed THEN 0 ELSE watches[a].gen  BY NoneOwned DEF RemoveWatches
<1>3. \A g \in 1..MaxGen : loops'[g] = [loops[g] EXCEPT !.aborted = TRUE] \/ loops'[g] = loops[g]  BY DEF RemoveWatches, Aborted
<1>4. \A g \in 1..MaxGen : loops'[g] \in LoopRecord /\ loops'[g].at = loops[g].at /\ loops'[g].account = loops[g].account
  BY <1>3 DEF LoopRecord
<1>5. loops' \in [1..MaxGen -> LoopRecord]  BY <1>4 DEF RemoveWatches
<1>6. TableType'  BY <1>1, <1>5
<1>7. \A g \in 1..MaxGen : Running(g)' <=> Running(g)  BY <1>4 DEF Running
<1>8. NewestInv'  BY <1>2, <1>4, <1>7 DEF NewestInv
<1>9. \A g \in 1..MaxGen : Running(g) => watches[loops[g].account].gen = g  BY NoneOwned DEF NoOrphanLoop, Current
<1>10. NoOrphanLoop'
  <2> SUFFICES ASSUME NEW g \in 1..MaxGen, Running(g), g \notin OldLoops(removed)
               PROVE  watches'[loops'[g].account].gen = g
    BY <1>7 DEF NoOrphanLoop, Current
  <2>1. loops[g].account \in Accounts \ removed  BY <1>9 DEF OldLoops, Current, NewestInv
  <2> QED BY <1>2, <1>4, <1>9, <2>1
<1>11. AwaitedInv'
  <2>1. \A g \in operation'.old : g \in 1..MaxGen /\ loops[g].account \in removed  BY DEF OldLoops
  <2>2. \A g \in operation'.old : watches'[loops'[g].account].gen = 0  BY <1>2, <1>4, <2>1
  <2>3. \A g \in operation'.old : watches[loops[g].account].gen = g  BY DEF OldLoops, Current
  <2> QED BY <1>4, <2>1, <2>2, <2>3 DEF AwaitedInv
<1>12. InsertInv'  BY <1>2 DEF InsertInv
<1> QED BY <1>6, <1>8, <1>10, <1>11, <1>12

LEMMA CallSteps ==
    ASSUME LoopInv, SyncCall
    PROVE  LoopInv'
<1> USE DEF LoopInv, TableType
<1>0. \A s : OldLoops(s) \in SUBSET (1..MaxGen)  BY DEF OldLoops
<1>1. ASSUME NEW a \in Accounts, NEW c \in Configs, WatchBegin(a, c)
      PROVE  LoopInv'
  <2>1. operation' = [kind |-> "watch", account |-> a, config |-> c, old |-> OldLoops({a})]  BY <1>1 DEF WatchBegin
  <2>2. operation' \in OperationRecord  BY <1>0, <2>1 DEF OperationRecord
  <2>3. PICK r \in SUBSET Accounts : r = {a}  OBVIOUS
  <2>4. RemoveWatches(r) /\ operation = NoOperation /\ generation < MaxGen /\ UNCHANGED <<generation, sequence, mail>>
    BY <1>1, <2>3 DEF WatchBegin
  <2>5. operation'.kind = "watch" /\ operation'.account \in r /\ operation'.old = OldLoops(r)  BY <2>1, <2>3
  <2> HIDE DEF LoopInv
  <2> QED BY <2>2, <2>4, <2>5, RemovalSteps
<1>2. ASSUME NEW a \in Accounts, Unwatch(a)
      PROVE  LoopInv'
  <2>1. operation' = [NoOperation EXCEPT !.kind = "unwatch", !.account = a, !.old = OldLoops({a})]  BY <1>2 DEF Unwatch
  <2>2. operation' \in OperationRecord /\ operation'.kind = "unwatch" /\ operation'.old = OldLoops({a})
    BY <1>0, <2>1, NoneOwned DEF OperationRecord
  <2> QED BY <1>2, <2>2, RemovalSteps DEF Unwatch
<1>3. ASSUME NEW a \in Accounts, Check(a)
      PROVE  LoopInv'
  <2>1. watches' \in [Accounts -> WatchRecord] /\ \A b \in Accounts : watches'[b].gen = watches[b].gen
    BY <1>3 DEF Check, WatchRecord
  <2>2. Quiet  BY <1>3, <2>1 DEF Quiet, Check, tableVars, Running
  <2> QED BY <1>3, <2>1, <2>2, QuietKeeps DEF Check, tableVars
<1>4. ASSUME Shutdown
      PROVE  LoopInv'
  <2>1. operation' = [NoOperation EXCEPT !.kind = "shutdown", !.old = OldLoops(Accounts)]  BY <1>4 DEF Shutdown
  <2>2. operation' \in OperationRecord /\ operation'.kind = "shutdown" /\ operation'.old = OldLoops(Accounts)
    BY <1>0, <2>1, NoneOwned DEF OperationRecord
  <2>3. PICK r \in SUBSET Accounts : r = Accounts  OBVIOUS
  <2>4. RemoveWatches(r) /\ operation'.old = OldLoops(r) /\ operation = NoOperation /\ UNCHANGED <<generation, sequence, mail>>
    BY <1>4, <2>2, <2>3 DEF Shutdown
  <2> QED BY <2>2, <2>4, RemovalSteps
<1> QED BY <1>1, <1>2, <1>3, <1>4 DEF SyncCall

LEMMA EndSteps ==
    ASSUME LoopInv, OperationEnds
    PROVE  LoopInv'
<1> USE DEF LoopInv, TableType
<1>1. operation' = NoOperation /\ NoOperation \in OperationRecord /\ NoOperation.kind = "none" /\ NoOperation.old = {}
  BY NoneOwned DEF OperationEnds, WatchInsert, UnwatchEnd
<1>2. \A g \in 1..MaxGen : Running(g) => watches[loops[g].account].gen = g
  BY DEF OperationEnds, WatchInsert, UnwatchEnd, Awaited, NoOrphanLoop, Current
<1>3. AwaitedInv' /\ InsertInv'  BY <1>1 DEF AwaitedInv, InsertInv
<1>4. CASE UnwatchEnd
  <2>1. NewestInv' /\ NoOrphanLoop'  BY <1>2, <1>4 DEF UnwatchEnd, NewestInv, NoOrphanLoop, Current, Running
  <2> QED BY <1>1, <1>3, <1>4, <2>1 DEF UnwatchEnd
<1>5. CASE WatchInsert
  <2> DEFINE b == operation.account
             n == generation + 1
  <2>0. operation.kind = "watch" /\ operation \in OperationRecord /\ MaxGen \in Nat  BY <1>5, SyncAssumption DEF WatchInsert
  <2>1. b \in Accounts /\ watches[b].gen = 0 /\ generation < MaxGen  BY <2>0 DEF InsertInv
  <2>1a. n \in 1..MaxGen  BY <2>0, <2>1
  <2>1b. operation.config \in Configs \cup {NoWatch.config}  BY <2>0 DEF OperationRecord
  <2>2. watches' = [watches EXCEPT ![b] = [NoWatch EXCEPT !.gen = n, !.config = operation.config, !.checking = TRUE, !.seq = sequence]]
    BY <1>5 DEF WatchInsert
  <2>3. watches'[b] \in WatchRecord /\ watches'[b].gen = n
    <3>1. watches'[b] = [NoWatch EXCEPT !.gen = n, !.config = operation.config, !.checking = TRUE, !.seq = sequence]  BY <2>1, <2>2
    <3> HIDE DEF n
    <3>2. n \in Nat  BY <2>1a, <2>0
    <3> QED BY <3>1, <3>2, <2>1b, NoneOwned DEF WatchRecord
  <2>4. \A a \in Accounts \ {b} : watches'[a] = watches[a]  BY <2>2
  <2>5. loops' = [loops EXCEPT ![n] = [NoLoop EXCEPT !.account = b, !.config = operation.config, !.at = "start"]]
    BY <1>5 DEF WatchInsert
  <2>6. loops'[n] \in LoopRecord /\ loops'[n].account = b  BY <2>1, <2>1a, <2>1b, <2>5, NoneOwned DEF LoopRecord
  <2>7. \A g \in 1..MaxGen \ {n} : loops'[g] = loops[g]  BY <2>5
  <2>8. generation' = n /\ UNCHANGED <<sequence, mail>>  BY <1>5 DEF WatchInsert
  <2>9. TableType'  BY <1>1, <2>1, <2>1a, <2>2, <2>3, <2>5, <2>6, <2>8
  <2>10. \A g \in 1..MaxGen \ {n} : Running(g)' => Running(g) /\ loops'[g].account = loops[g].account /\ loops[g].account # b
    BY <1>2, <2>1, <2>7 DEF Running
  <2>11. NewestInv'
    <3>1. \A a \in Accounts : watches'[a].gen <= generation'  BY <2>0, <2>1, <2>3, <2>4, <2>8 DEF NewestInv, WatchRecord
    <3>2. \A g \in 1..MaxGen : Running(g)' => g <= generation'  BY <2>0, <2>1, <2>8, <2>10 DEF NewestInv
    <3>3. \A g \in 1..MaxGen : Running(g)' => loops'[g].account \in Accounts  BY <2>1, <2>6, <2>10 DEF NewestInv
    <3> QED BY <3>1, <3>2, <3>3 DEF NewestInv
  <2>12. NoOrphanLoop'
    <3> SUFFICES ASSUME NEW g \in 1..MaxGen, Running(g)' PROVE Current(g)'  BY DEF NoOrphanLoop
    <3>1. CASE g = n  BY <2>3, <2>6, <3>1 DEF Current
    <3>2. CASE g # n  BY <1>2, <2>4, <2>10, <3>2 DEF Current, NewestInv
    <3> QED BY <3>1, <3>2
  <2> QED BY <1>3, <2>9, <2>11, <2>12
<1> QED BY <1>4, <1>5 DEF OperationEnds

LEMMA LoopStarts == SyncInit => LoopInv
<1> SUFFICES ASSUME SyncInit PROVE LoopInv  OBVIOUS
<1>1. \A g \in 1..MaxGen : ~Running(g)  BY NoneOwned DEF SyncInit, Running
<1>2. TableType  BY NoneOwned DEF SyncInit, TableType
<1> QED BY <1>1, <1>2, NoneOwned DEF SyncInit, LoopInv, NewestInv, NoOrphanLoop, AwaitedInv, InsertInv

LEMMA LoopStays == LoopInv /\ [SyncNext]_syncVars => LoopInv'
<1> SUFFICES ASSUME LoopInv, [SyncNext]_syncVars PROVE LoopInv'  OBVIOUS
<1>1. ASSUME UNCHANGED <<watches, generation, sequence, operation, loops>>, mail' \in Nat
      PROVE  LoopInv'
  <2>1. Quiet /\ TableType'  BY <1>1 DEF Quiet, Running, LoopInv, TableType
  <2> QED BY <1>1, <2>1, QuietKeeps
<1>2. mail \in Nat  BY DEF LoopInv, TableType
<1>3. CASE Deliver \/ RegistryPoll \/ RegistryChanges \/ NewMail
  BY <1>1, <1>2, <1>3 DEF Deliver, RegistryPoll, RegistryChanges, NewMail, tableVars
<1>4. ASSUME NEW s \in 1..MaxSeq, JobStep(s)
      PROVE  LoopInv'
  BY <1>1, <1>2, <1>4 DEF JobStep, JobReads, JobCommits, JobFails, tableVars
<1>5. CASE UNCHANGED syncVars  BY <1>1, <1>2, <1>5 DEF syncVars
<1> QED BY <1>3, <1>4, <1>5, CallSteps, EndSteps, LoopSteps DEF SyncNext

(* One loop checks an account, and every loop is that of a watch or is waited for. *)
THEOREM LoopsAreOwned == SyncSafety => []LoopsOwned
BY LoopStarts, LoopStays, OwnedIsOne, PTL DEF SyncSafety

------------------------------------
EventRecord == [account : Accounts \cup {NoOperation.account}, gen : Nat, seq : Nat, print : Nat, error : BOOLEAN]
ShownRecord == [gen : Nat, seq : Nat, print : Nat, error : BOOLEAN]
OfWatch(e) == e.gen # 0
\* The results wait in the order of their checks, and all of them are newer than what the interface shows.
InCheckOrder(q, newest) ==
  /\ q \in Seq(EventRecord)
  /\ \A n \in 1..Len(q) : OfWatch(q[n]) => q[n].seq <= newest
  /\ \A n \in 1..Len(q), a \in Accounts : OfWatch(q[n]) => shown[a].seq < q[n].seq
  /\ \A m, n \in 1..Len(q) : m < n /\ OfWatch(q[m]) /\ OfWatch(q[n]) => q[m].seq < q[n].seq
EventsInv == /\ shown \in [Accounts -> ShownRecord] /\ registry \in [file : Nat, seen : Nat, told : Nat, alive : BOOLEAN]
             /\ \A a \in Accounts : shown[a].seq <= sequence
             /\ InCheckOrder(events, sequence)

LEMMA TailInOrder ==
    ASSUME NEW q, NEW newest \in Nat, InCheckOrder(q, newest), q # <<>>
    PROVE  InCheckOrder(Tail(q), newest)
<1>1. q \in Seq(EventRecord) /\ Len(q) \in Nat /\ Len(q) > 0  BY DEF InCheckOrder
<1>2. Tail(q) \in Seq(EventRecord) /\ Len(Tail(q)) = Len(q) - 1 /\ \A n \in 1..(Len(q) - 1) : Tail(q)[n] = q[n + 1]  BY <1>1
<1>3. \A n \in 1..(Len(q) - 1) : n \in Nat /\ n + 1 \in 1..Len(q)  BY <1>1
<1>4. \A n \in 1..Len(Tail(q)) : OfWatch(Tail(q)[n]) => Tail(q)[n].seq <= newest  BY <1>2, <1>3 DEF InCheckOrder
<1>5. \A n \in 1..Len(Tail(q)), a \in Accounts : OfWatch(Tail(q)[n]) => shown[a].seq < Tail(q)[n].seq
  BY <1>2, <1>3 DEF InCheckOrder
<1>6. ASSUME NEW m \in 1..Len(Tail(q)), NEW n \in 1..Len(Tail(q)), m < n, OfWatch(Tail(q)[m]), OfWatch(Tail(q)[n])
      PROVE  Tail(q)[m].seq < Tail(q)[n].seq
  <2>1. m + 1 \in 1..Len(q) /\ n + 1 \in 1..Len(q) /\ m + 1 < n + 1 /\ Tail(q)[m] = q[m + 1] /\ Tail(q)[n] = q[n + 1]
    BY <1>2, <1>3, <1>6
  <2> QED BY <1>6, <2>1 DEF InCheckOrder
<1> QED BY <1>2, <1>4, <1>5, <1>6 DEF InCheckOrder

LEMMA AppendInOrder ==
    ASSUME NEW q, NEW old \in Nat, NEW newest \in Nat, InCheckOrder(q, old), old <= newest, NEW e \in EventRecord,
           OfWatch(e) => e.seq = newest /\ old < newest /\ \A a \in Accounts : shown[a].seq <= old,
           \A a \in Accounts : shown[a].seq \in Nat
    PROVE  InCheckOrder(Append(q, e), newest)
<1> DEFINE p == Append(q, e)
<1>1. q \in Seq(EventRecord) /\ Len(q) \in Nat  BY DEF InCheckOrder
<1>2. p \in Seq(EventRecord) /\ Len(p) = Len(q) + 1 /\ p[Len(q) + 1] = e /\ \A n \in 1..Len(q) : p[n] = q[n]  BY <1>1
<1>3. \A n \in 1..Len(q) : q[n].seq \in Nat
  <2>1. \A n \in 1..Len(q) : q[n] \in EventRecord  BY <1>1
  <2> QED BY <2>1 DEF EventRecord
<1> HIDE DEF p
<1>4. ASSUME NEW n \in 1..Len(p), OfWatch(p[n]) PROVE p[n].seq <= newest /\ \A a \in Accounts : shown[a].seq < p[n].seq
  <2>1. CASE n \in 1..Len(q)
    <3>1. p[n] = q[n] /\ q[n].seq <= old /\ q[n].seq \in Nat  BY <1>2, <1>3, <1>4, <2>1 DEF InCheckOrder
    <3>2. \A a \in Accounts : shown[a].seq < q[n].seq  BY <1>4, <2>1, <3>1 DEF InCheckOrder
    <3> QED BY <3>1, <3>2
  <2>2. CASE n = Len(q) + 1  BY <1>2, <1>4, <2>2
  <2> QED BY <1>1, <1>2, <2>1, <2>2
<1>5. ASSUME NEW m \in 1..Len(p), NEW n \in 1..Len(p), m < n, OfWatch(p[m]), OfWatch(p[n])
      PROVE  p[m].seq < p[n].seq
  <2>0. m \in 1..Len(q) /\ p[m] = q[m] /\ q[m].seq <= old /\ q[m].seq \in Nat
    <3>1. m \in 1..Len(q)  BY <1>1, <1>2, <1>5
    <3> QED BY <1>2, <1>3, <1>5, <3>1 DEF InCheckOrder
  <2>1. CASE n \in 1..Len(q)  BY <1>2, <1>5, <2>0, <2>1 DEF InCheckOrder
  <2>2. CASE n = Len(q) + 1  BY <1>2, <1>5, <2>0, <2>2
  <2> QED BY <1>1, <1>2, <2>1, <2>2
<1>6. InCheckOrder(p, newest)  BY <1>2, <1>4, <1>5 DEF InCheckOrder
<1> QED BY <1>6 DEF p

\* A new event takes the place of the oldest one when the queue is full.
LEMMA SendInOrder ==
    ASSUME LoopInv, EventsInv, NEW e \in EventRecord, Send(e), shown' = shown, sequence' \in Nat, sequence <= sequence',
           OfWatch(e) => e.seq = sequence' /\ sequence < sequence'
    PROVE  InCheckOrder(events', sequence')
<1>1. sequence \in Nat /\ QueueCap \in Nat \ {0} /\ events \in Seq(EventRecord)
  BY SyncAssumption DEF LoopInv, TableType, EventsInv, InCheckOrder
<1>2. \A a \in Accounts : shown[a].seq \in Nat  BY DEF EventsInv, ShownRecord
<1>3. CASE events' = Append(events, e)  BY <1>1, <1>2, <1>3, AppendInOrder DEF EventsInv
<1>4. CASE events' = Append(Tail(events), e) /\ Len(events) >= QueueCap
  <2>1. events # <<>>  BY <1>1, <1>4
  <2>2. InCheckOrder(Tail(events), sequence)  BY <1>1, <2>1, TailInOrder DEF EventsInv
  <2> QED BY <1>1, <1>2, <1>4, <2>2, AppendInOrder DEF EventsInv
<1> QED BY <1>1, <1>3, <1>4 DEF Send

LEMMA EventSteps ==
    ASSUME LoopInv, EventsInv, [SyncNext]_syncVars
    PROVE  EventsInv'
<1>0. /\ shown \in [Accounts -> ShownRecord] /\ registry \in [file : Nat, seen : Nat, told : Nat, alive : BOOLEAN] /\ sequence \in Nat
      /\ events \in Seq(EventRecord)
  BY DEF EventsInv, LoopInv, TableType, InCheckOrder
<1>1. ASSUME UNCHANGED <<events, shown, sequence>>, registry' \in [file : Nat, seen : Nat, told : Nat, alive : BOOLEAN]
      PROVE  EventsInv'
  BY <1>1 DEF EventsInv, InCheckOrder
<1>2. ASSUME UNCHANGED <<events, shown, sequence, registry>> PROVE EventsInv'  BY <1>0, <1>1, <1>2
<1>3. ASSUME NEW e \in EventRecord, Send(e), UNCHANGED <<shown, registry>>, sequence' \in Nat, sequence <= sequence',
             OfWatch(e) => e.seq = sequence' /\ sequence < sequence'
      PROVE  EventsInv'
  <2>1. InCheckOrder(events', sequence')  BY <1>3, SendInOrder
  <2>2. \A a \in Accounts : shown[a].seq <= sequence'  BY <1>0, <1>3 DEF EventsInv, ShownRecord
  <2> QED BY <1>0, <1>3, <2>1, <2>2 DEF EventsInv, InCheckOrder
<1>4. CASE Deliver
  <2> DEFINE e == Head(events)
  <2>1. events # <<>> /\ events' = Tail(events) /\ sequence' = sequence  BY <1>4 DEF Deliver
  <2>2. e = events[1] /\ e \in EventRecord /\ 1 \in 1..Len(events)  BY <1>0, <2>1
  <2>3. InCheckOrder(events', sequence')  BY <1>0, <2>1, TailInOrder DEF EventsInv
  <2>4. CASE shown' = shown /\ registry' = registry  BY <1>0, <2>1, <2>3, <2>4 DEF EventsInv, InCheckOrder
  <2>5. CASE shown' = shown /\ registry' = [registry EXCEPT !.told = e.print]
    <3>1. e.print \in Nat  BY <2>2 DEF EventRecord
    <3>2. registry' \in [file : Nat, seen : Nat, told : Nat, alive : BOOLEAN]  BY <1>0, <2>5, <3>1
    <3> QED BY <1>0, <2>1, <2>3, <2>5, <3>2 DEF EventsInv, InCheckOrder
  <2>6. CASE /\ shown' = [shown EXCEPT ![e.account] = [gen |-> e.gen, seq |-> e.seq, print |-> e.print, error |-> e.error]]
             /\ registry' = registry /\ OfWatch(e)
    <3>1. [gen |-> e.gen, seq |-> e.seq, print |-> e.print, error |-> e.error] \in ShownRecord  BY <2>2 DEF EventRecord, ShownRecord
    <3>2. shown' \in [Accounts -> ShownRecord]  BY <1>0, <2>6, <3>1
    <3>3. \A a \in Accounts : shown'[a] = shown[a] \/ shown'[a].seq = e.seq  BY <1>0, <2>6
    <3>4. e.seq <= sequence  BY <2>2, <2>6 DEF EventsInv, InCheckOrder
    <3>5. \A a \in Accounts : shown'[a].seq <= sequence  BY <3>3, <3>4 DEF EventsInv
    <3>6. \A n \in 1..Len(events') : OfWatch(events'[n]) => e.seq < events'[n].seq
      <4>1. Len(events) \in Nat /\ Len(events') = Len(events) - 1 /\ \A n \in 1..(Len(events) - 1) : events'[n] = events[n + 1]
        BY <1>0, <2>1
      <4>2. \A n \in 1..(Len(events) - 1) : n + 1 \in 1..Len(events) /\ 1 < n + 1  BY <4>1
      <4> QED BY <2>2, <2>6, <4>1, <4>2 DEF EventsInv, InCheckOrder
    <3>7. \A n \in 1..Len(events'), a \in Accounts : OfWatch(events'[n]) => shown'[a].seq < events'[n].seq
      BY <2>3, <3>3, <3>6 DEF InCheckOrder
    <3>8. InCheckOrder(events, sequence)'  BY <2>3, <3>7 DEF InCheckOrder
    <3> QED BY <1>0, <2>1, <2>6, <3>2, <3>5, <3>8 DEF EventsInv
  <2> QED BY <1>4, <2>4, <2>5, <2>6 DEF Deliver, OfWatch
<1>5. CASE RegistryPoll
  <2>1. /\ registry' = [registry EXCEPT !.seen = registry.file] /\ UNCHANGED <<shown, sequence>>
        /\ UNCHANGED events \/ Send([account |-> NoOperation.account, gen |-> 0, seq |-> 0, print |-> registry.file, error |-> FALSE])
    BY <1>5 DEF RegistryPoll
  <2>2. registry' \in [file : Nat, seen : Nat, told : Nat, alive : BOOLEAN] /\ registry.file \in Nat  BY <1>0, <2>1
  <2>3. PICK e \in EventRecord : e = [account |-> NoOperation.account, gen |-> 0, seq |-> 0, print |-> registry.file, error |-> FALSE]
    BY <2>2 DEF EventRecord
  <2>4. CASE Send(e)
    <3>1. InCheckOrder(events', sequence')  BY <1>0, <2>1, <2>3, <2>4, SendInOrder DEF OfWatch
    <3> QED BY <1>0, <2>1, <2>2, <3>1 DEF EventsInv, InCheckOrder
  <2> QED BY <1>1, <2>1, <2>2, <2>3, <2>4
<1>6. ASSUME NEW g \in 1..MaxGen, LoopDone(g), Current(g) PROVE EventsInv'
  <2> DEFINE a == loops[g].account
             w == [watches[a] EXCEPT !.checking = FALSE, !.seq = sequence + 1]
  <2>1. a \in Accounts /\ watches[a] \in WatchRecord /\ loops[g] \in LoopRecord
    BY <1>6 DEF LoopDone, LoopAt, LoopInv, NewestInv, TableType
  <2>2. loops[g].result \in Nat /\ sequence + 1 \in Nat /\ watches[a].print \in Nat  BY <1>0, <2>1 DEF LoopRecord, WatchRecord
  <2>3. \/ PublishResult(a, g, [w EXCEPT !.error = TRUE])
        \/ PublishResult(a, g, [w EXCEPT !.print = loops[g].result, !.error = FALSE])
    BY <1>6 DEF LoopDone
  <2>4. w \in WatchRecord  BY <2>1, <2>2 DEF WatchRecord
  <2> HIDE DEF w
  <2>5. PICK v \in WatchRecord : PublishResult(a, g, v)
    <3>1. [w EXCEPT !.error = TRUE] \in WatchRecord  BY <2>4 DEF WatchRecord
    <3>2. [w EXCEPT !.print = loops[g].result, !.error = FALSE] \in WatchRecord  BY <2>2, <2>4 DEF WatchRecord
    <3> QED BY <2>3, <3>1, <3>2
  <2>6. v.print \in Nat /\ v.error \in BOOLEAN /\ g \in Nat  BY <2>5 DEF WatchRecord
  <2>7. [account |-> a, gen |-> g, seq |-> sequence + 1, print |-> v.print, error |-> v.error] \in EventRecord
    BY <2>1, <2>2, <2>6 DEF EventRecord
  <2>8. PICK e \in EventRecord : e = [account |-> a, gen |-> g, seq |-> sequence + 1, print |-> v.print, error |-> v.error]  BY <2>7
  <2>9. Send(e) /\ sequence' = sequence + 1 /\ e.seq = sequence'  BY <2>5, <2>8 DEF PublishResult
  <2>10. UNCHANGED <<shown, registry>>  BY <1>6 DEF LoopDone, tableVars
  <2> QED BY <1>0, <1>3, <2>9, <2>10
<1>7. CASE Shutdown
  <2>1. registry' = [registry EXCEPT !.alive = FALSE] /\ UNCHANGED <<events, shown, sequence>>  BY <1>7 DEF Shutdown
  <2> QED BY <1>0, <1>1, <2>1
<1>8. CASE RegistryChanges
  <2>1. registry' = [registry EXCEPT !.file = registry.file + 1] /\ UNCHANGED <<events, shown, sequence>>
    BY <1>8 DEF RegistryChanges
  <2>2. registry.file + 1 \in Nat  BY <1>0
  <2> QED BY <1>0, <1>1, <2>1, <2>2
<1>9. ASSUME NEW a \in Accounts, Unwatch(a) \/ Check(a) \/ \E c \in Configs : WatchBegin(a, c) PROVE EventsInv'
  BY <1>2, <1>9 DEF Unwatch, Check, WatchBegin, tableVars
<1>10. CASE OperationEnds \/ NewMail \/ UNCHANGED syncVars
  BY <1>2, <1>10 DEF OperationEnds, WatchInsert, UnwatchEnd, NewMail, syncVars, tableVars
<1>11. ASSUME NEW g \in 1..MaxGen, LoopStart(g) \/ LoopReads(g) \/ LoopNotified(g) \/ LoopAborted(g) \/ LoopTimer(g) \/ (LoopDone(g) /\ ~Current(g))
       PROVE  EventsInv'
  BY <1>2, <1>11 DEF LoopStart, LoopReads, LoopNotified, LoopAborted, LoopTimer, LoopDone, tableVars
<1>12. ASSUME NEW s \in 1..MaxSeq, JobStep(s) PROVE EventsInv'
  BY <1>2, <1>12 DEF JobStep, JobReads, JobCommits, JobFails, tableVars
<1> QED BY <1>4, <1>5, <1>6, <1>7, <1>8, <1>9, <1>10, <1>11, <1>12 DEF SyncNext, SyncCall, LoopStep

\* Only the dispatcher changes what the interface shows, and the event it takes is newer.
LEMMA ShownSteps ==
    ASSUME LoopInv, EventsInv, [SyncNext]_syncVars, NEW a \in Accounts, shown'[a] # shown[a]
    PROVE  shown'[a].gen = watches[a].gen /\ shown'[a].seq > shown[a].seq
<1>1. Deliver
  BY DEF SyncNext, SyncCall, LoopStep, OperationEnds, JobStep, syncVars, tableVars, WatchBegin, Unwatch, Check, Shutdown, WatchInsert,
         UnwatchEnd, RegistryPoll, NewMail, RegistryChanges, LoopStart, LoopReads, LoopDone, LoopNotified, LoopAborted, LoopTimer,
         JobReads, JobCommits, JobFails
<1> DEFINE e == Head(events)
<1>2. events \in Seq(EventRecord) /\ events # <<>> /\ shown \in [Accounts -> ShownRecord]
  BY <1>1 DEF Deliver, EventsInv, InCheckOrder
<1>3. e = events[1] /\ e \in EventRecord /\ 1 \in 1..Len(events)  BY <1>2
<1>4. /\ shown' = [shown EXCEPT ![e.account] = [gen |-> e.gen, seq |-> e.seq, print |-> e.print, error |-> e.error]]
      /\ e.gen # 0 /\ IsCurrent(e)
  BY <1>1 DEF Deliver
<1>5. e.account = a /\ shown'[a] = [gen |-> e.gen, seq |-> e.seq, print |-> e.print, error |-> e.error]  BY <1>2, <1>4
<1>6. shown[a].seq < e.seq /\ shown[a].seq \in Nat /\ e.seq \in Nat
  BY <1>2, <1>3, <1>4 DEF EventsInv, InCheckOrder, OfWatch, EventRecord, ShownRecord
<1> QED BY <1>4, <1>5, <1>6 DEF IsCurrent

------------------------------------
JobRecord == [account : Accounts \cup {NoOperation.account}, print : Nat, live : BOOLEAN, task : {"run", "write", "done"},
              complete : BOOLEAN, read : Nat, closure : BOOLEAN]
\* The job that may write is the one its watch holds.
HeldJobs == /\ warmJobs \in [1..MaxSeq -> JobRecord]
            /\ \A a \in Accounts : watches[a].gen = 0 => watches[a].job = 0
            /\ \A s \in 1..MaxSeq : warmJobs[s].live => warmJobs[s].account \in Accounts
            /\ \A s \in 1..MaxSeq : warmJobs[s].live => watches[warmJobs[s].account].job = s

LEMMA NoJobType == NoWarmJob \in JobRecord /\ ~NoWarmJob.live /\ NoWatch.job = 0
BY DEF NoWarmJob, JobRecord, NoWatch

\* A step that gives no watch another job, and makes no job live.
LEMMA JobsQuiet ==
    ASSUME HeldJobs, warmJobs' \in [1..MaxSeq -> JobRecord],
           \A a \in Accounts : watches'[a].gen = watches[a].gen /\ watches'[a].job = watches[a].job,
           \A s \in 1..MaxSeq : warmJobs'[s].live => warmJobs[s].live /\ warmJobs'[s].account = warmJobs[s].account
    PROVE  HeldJobs'
BY DEF HeldJobs

LEMMA DroppedType ==
    ASSUME HeldJobs, NEW set
    PROVE  /\ DroppedJobs(set) \in [1..MaxSeq -> JobRecord]
           /\ \A s \in 1..MaxSeq : DroppedJobs(set)[s].live => warmJobs[s].live
           /\ \A s \in 1..MaxSeq : DroppedJobs(set)[s].live => s \notin set
           /\ \A s \in 1..MaxSeq : DroppedJobs(set)[s].account = warmJobs[s].account
<1>1. ASSUME NEW s \in 1..MaxSeq
      PROVE  /\ [warmJobs[s] EXCEPT !.live = FALSE] \in JobRecord /\ ~[warmJobs[s] EXCEPT !.live = FALSE].live
             /\ [warmJobs[s] EXCEPT !.live = FALSE].account = warmJobs[s].account
  <2>1. warmJobs[s] \in JobRecord  BY DEF HeldJobs
  <2> QED BY <2>1 DEF JobRecord
<1>2. \A s \in 1..MaxSeq : DroppedJobs(set)[s] = IF s \in set THEN [warmJobs[s] EXCEPT !.live = FALSE] ELSE warmJobs[s]
  BY DEF DroppedJobs
<1>3. \A s \in 1..MaxSeq : DroppedJobs(set)[s] \in JobRecord  BY <1>1, <1>2 DEF HeldJobs
<1>4. DroppedJobs(set) \in [1..MaxSeq -> JobRecord]  BY <1>3 DEF DroppedJobs
<1>5. ASSUME NEW s \in 1..MaxSeq
      PROVE  /\ DroppedJobs(set)[s].live => warmJobs[s].live
             /\ DroppedJobs(set)[s].live => s \notin set
             /\ DroppedJobs(set)[s].account = warmJobs[s].account
  BY <1>1, <1>2
<1> QED BY <1>4, <1>5

LEMMA RemovalHolds ==
    ASSUME LoopInv, HeldJobs, NEW removed \in SUBSET Accounts, RemoveWatches(removed)
    PROVE  HeldJobs'
<1> DEFINE set == {watches[a].job : a \in removed}
<1>1. warmJobs' = DroppedJobs(set)  BY DEF RemoveWatches
<1>2. /\ warmJobs' \in [1..MaxSeq -> JobRecord]
      /\ \A s \in 1..MaxSeq : warmJobs'[s].live => warmJobs[s].live
      /\ \A s \in 1..MaxSeq : warmJobs'[s].live => s \notin set
      /\ \A s \in 1..MaxSeq : warmJobs'[s].account = warmJobs[s].account
  BY <1>1, DroppedType
<1>3. \A a \in Accounts : watches'[a] = IF a \in removed THEN NoWatch ELSE watches[a]  BY DEF RemoveWatches
<1>4. \A a \in Accounts : watches'[a].gen = 0 => watches'[a].job = 0  BY <1>3, NoJobType DEF HeldJobs
<1>5. ASSUME NEW s \in 1..MaxSeq, warmJobs'[s].live
      PROVE  warmJobs'[s].account \in Accounts /\ watches'[warmJobs'[s].account].job = s
  <2>1. warmJobs[s].account \in Accounts /\ watches[warmJobs[s].account].job = s /\ warmJobs'[s].account = warmJobs[s].account
    BY <1>2, <1>5 DEF HeldJobs
  <2>2. warmJobs[s].account \notin removed  BY <1>2, <1>5, <2>1
  <2> QED BY <1>3, <2>1, <2>2
<1> QED BY <1>2, <1>4, <1>5 DEF HeldJobs

LEMMA DoneHolds ==
    ASSUME LoopInv, HeldJobs, NEW g \in 1..MaxGen, LoopDone(g)
    PROVE  HeldJobs'
<1>1. CASE ~Current(g)  BY <1>1, JobsQuiet DEF LoopDone, HeldJobs
<1>2. CASE Current(g)
  <2> DEFINE a == loops[g].account
             w == [watches[a] EXCEPT !.checking = FALSE, !.seq = sequence + 1]
             ok == [w EXCEPT !.print = loops[g].result, !.error = FALSE]
             job == [NoWarmJob EXCEPT !.account = a, !.print = loops[g].result, !.live = TRUE, !.task = "run"]
  <2>1. a \in Accounts /\ watches[a] \in WatchRecord /\ loops[g] \in LoopRecord /\ sequence \in Nat /\ watches \in [Accounts -> WatchRecord]
    BY DEF LoopDone, LoopAt, LoopInv, NewestInv, TableType
  <2>2. loops[g].result \in Nat /\ sequence + 1 \in Nat  BY <2>1 DEF LoopRecord
  <2>3. w \in WatchRecord /\ w.gen = watches[a].gen /\ w.job = watches[a].job  BY <2>1, <2>2 DEF WatchRecord
  <2>4. job \in JobRecord /\ job.account = a  BY <2>1, <2>2, NoJobType DEF JobRecord
  <2>5. \/ watches' = [watches EXCEPT ![a] = [w EXCEPT !.error = TRUE]] /\ warmJobs' = warmJobs
        \/ watches' = [watches EXCEPT ![a] = ok] /\ warmJobs' = warmJobs
        \/ /\ watches' = [watches EXCEPT ![a] = [ok EXCEPT !.job = sequence + 1]]
           /\ warmJobs' = [DroppedJobs({w.job}) EXCEPT ![sequence + 1] = job]
    BY <1>2 DEF LoopDone
  <2> HIDE DEF w, job
  <2>6. ok \in WatchRecord /\ ok.gen = watches[a].gen /\ ok.job = watches[a].job  BY <2>2, <2>3 DEF WatchRecord
  <2>7. [w EXCEPT !.error = TRUE].gen = watches[a].gen /\ [w EXCEPT !.error = TRUE].job = watches[a].job  BY <2>3 DEF WatchRecord
  <2> HIDE DEF ok
  <2>8. CASE watches' = [watches EXCEPT ![a] = [w EXCEPT !.error = TRUE]] /\ warmJobs' = warmJobs
    <3>1. \A b \in Accounts : watches'[b].gen = watches[b].gen /\ watches'[b].job = watches[b].job  BY <2>1, <2>7, <2>8
    <3> QED BY <2>8, <3>1, JobsQuiet DEF HeldJobs
  <2>9. CASE watches' = [watches EXCEPT ![a] = ok] /\ warmJobs' = warmJobs
    <3>1. \A b \in Accounts : watches'[b].gen = watches[b].gen /\ watches'[b].job = watches[b].job  BY <2>1, <2>6, <2>9
    <3> QED BY <2>9, <3>1, JobsQuiet DEF HeldJobs
  <2>10. CASE /\ watches' = [watches EXCEPT ![a] = [ok EXCEPT !.job = sequence + 1]]
              /\ warmJobs' = [DroppedJobs({w.job}) EXCEPT ![sequence + 1] = job]
    <3> DEFINE n == sequence + 1
    <3>1. [ok EXCEPT !.job = n].job = n /\ [ok EXCEPT !.job = n].gen = watches[a].gen  BY <2>2, <2>6 DEF WatchRecord
    <3>2. watches'[a].job = n /\ watches'[a].gen = watches[a].gen /\ \A b \in Accounts \ {a} : watches'[b] = watches[b]
      BY <2>1, <2>10, <3>1
    <3>3. watches[a].gen # 0  BY <1>2 DEF Current
    <3>4. /\ DroppedJobs({w.job}) \in [1..MaxSeq -> JobRecord]
          /\ \A s \in 1..MaxSeq : DroppedJobs({w.job})[s].live => warmJobs[s].live
          /\ \A s \in 1..MaxSeq : DroppedJobs({w.job})[s].live => s \notin {w.job}
          /\ \A s \in 1..MaxSeq : DroppedJobs({w.job})[s].account = warmJobs[s].account
      BY DroppedType
    <3>5. warmJobs' \in [1..MaxSeq -> JobRecord] /\ \A s \in 1..MaxSeq : warmJobs'[s] = IF s = n THEN job ELSE DroppedJobs({w.job})[s]
      BY <2>4, <2>10, <3>4
    <3>6. ASSUME NEW s \in 1..MaxSeq, warmJobs'[s].live
          PROVE  warmJobs'[s].account \in Accounts /\ watches'[warmJobs'[s].account].job = s
      <4>1. CASE s = n  BY <2>1, <2>4, <3>2, <3>5, <4>1
      <4>2. CASE s # n
        <5>1. /\ warmJobs[s].live /\ s # w.job /\ warmJobs'[s].account = warmJobs[s].account  BY <3>4, <3>5, <3>6, <4>2
        <5>2. warmJobs[s].account \in Accounts /\ watches[warmJobs[s].account].job = s  BY <5>1 DEF HeldJobs
        <5>3. warmJobs[s].account # a  BY <2>3, <5>1, <5>2
        <5> QED BY <3>2, <5>1, <5>2, <5>3
      <4> QED BY <4>1, <4>2
    <3>7. \A b \in Accounts : watches'[b].gen = 0 => watches'[b].job = 0  BY <3>2, <3>3 DEF HeldJobs
    <3> QED BY <3>5, <3>6, <3>7 DEF HeldJobs
  <2> QED BY <2>5, <2>8, <2>9, <2>10
<1> QED BY <1>1, <1>2

LEMMA JobsHold ==
    ASSUME LoopInv, HeldJobs, [SyncNext]_syncVars
    PROVE  HeldJobs'
<1>0. watches \in [Accounts -> WatchRecord] /\ warmJobs \in [1..MaxSeq -> JobRecord] /\ mail \in Nat
  BY DEF LoopInv, TableType, HeldJobs
<1>1. ASSUME UNCHANGED <<watches, warmJobs>> PROVE HeldJobs'  BY <1>1 DEF HeldJobs
<1>2. ASSUME NEW a \in Accounts, NEW w \in WatchRecord, watches' = [watches EXCEPT ![a] = w], w.gen = watches[a].gen,
             w.job = watches[a].job, warmJobs' = warmJobs
      PROVE  HeldJobs'
  <2>1. \A b \in Accounts : watches'[b].gen = watches[b].gen /\ watches'[b].job = watches[b].job  BY <1>0, <1>2
  <2> QED BY <1>0, <1>2, <2>1, JobsQuiet
<1>3. ASSUME NEW a \in Accounts, Unwatch(a) \/ \E c \in Configs : WatchBegin(a, c) PROVE HeldJobs'
  <2>1. PICK r \in SUBSET Accounts : r = {a}  OBVIOUS
  <2>2. RemoveWatches(r)  BY <1>3, <2>1 DEF Unwatch, WatchBegin
  <2> QED BY <2>2, RemovalHolds
<1>4. CASE Shutdown
  <2>1. PICK r \in SUBSET Accounts : r = Accounts  OBVIOUS
  <2>2. RemoveWatches(r)  BY <1>4, <2>1 DEF Shutdown
  <2> QED BY <2>2, RemovalHolds
<1>5. ASSUME NEW a \in Accounts, Check(a) PROVE HeldJobs'
  <2>1. watches' = [watches EXCEPT ![a] = [watches[a] EXCEPT !.permit = TRUE]] /\ warmJobs' = warmJobs  BY <1>5 DEF Check
  <2>2. /\ [watches[a] EXCEPT !.permit = TRUE] \in WatchRecord /\ [watches[a] EXCEPT !.permit = TRUE].gen = watches[a].gen
        /\ [watches[a] EXCEPT !.permit = TRUE].job = watches[a].job
    BY <1>0 DEF WatchRecord
  <2>3. PICK w \in WatchRecord : w = [watches[a] EXCEPT !.permit = TRUE]  BY <2>2
  <2> QED BY <1>2, <2>1, <2>2, <2>3
<1>6. CASE WatchInsert
  <2> DEFINE b == operation.account
             new == [NoWatch EXCEPT !.gen = generation + 1, !.config = operation.config, !.checking = TRUE, !.seq = sequence]
  <2>1. b \in Accounts /\ watches[b].gen = 0 /\ watches' = [watches EXCEPT ![b] = new] /\ warmJobs' = warmJobs
    BY <1>6 DEF WatchInsert, LoopInv, InsertInv
  <2>2. new.job = 0  BY NoneOwned, NoJobType DEF WatchRecord
  <2> HIDE DEF new
  <2>3. watches'[b].job = 0 /\ watches[b].job = 0 /\ \A a \in Accounts \ {b} : watches'[a] = watches[a]
    BY <1>0, <2>1, <2>2 DEF HeldJobs
  <2>4. ASSUME NEW s \in 1..MaxSeq, warmJobs[s].live PROVE warmJobs[s].account \in Accounts \ {b}  BY <2>3, <2>4 DEF HeldJobs
  <2> QED BY <2>1, <2>3, <2>4 DEF HeldJobs
<1>7. ASSUME NEW g \in 1..MaxGen, LoopStart(g) \/ LoopNotified(g) PROVE HeldJobs'
  <2> DEFINE a == loops[g].account
  <2>0. a \in Accounts /\ watches[a] \in WatchRecord  BY <1>7 DEF LoopStart, LoopNotified, LoopAt, LoopInv, NewestInv, TableType
  <2>1. /\ warmJobs' = warmJobs
        /\ \/ watches' = watches
           \/ watches' = [watches EXCEPT ![a] = [watches[a] EXCEPT !.checking = TRUE]]
           \/ watches' = [watches EXCEPT ![a] = [watches[a] EXCEPT !.permit = FALSE]]
    BY <1>7 DEF LoopStart, LoopNotified
  <2>2. ASSUME NEW w, w = [watches[a] EXCEPT !.checking = TRUE] \/ w = [watches[a] EXCEPT !.permit = FALSE]
        PROVE  w \in WatchRecord /\ w.gen = watches[a].gen /\ w.job = watches[a].job
    BY <2>0, <2>2 DEF WatchRecord
  <2>3. watches' = watches \/ \E w \in WatchRecord : watches' = [watches EXCEPT ![a] = w] /\ w.gen = watches[a].gen /\ w.job = watches[a].job
    BY <2>1, <2>2
  <2> QED BY <1>1, <1>2, <2>0, <2>1, <2>3
<1>8. ASSUME NEW s \in 1..MaxSeq, NEW j \in JobRecord, warmJobs' = [warmJobs EXCEPT ![s] = j], j.account = warmJobs[s].account,
             j.live => warmJobs[s].live, watches' = watches
      PROVE  HeldJobs'
  BY <1>0, <1>8, JobsQuiet
<1>9. ASSUME NEW s \in 1..MaxSeq, JobStep(s) PROVE HeldJobs'
  <2>0. warmJobs[s] \in JobRecord /\ watches' = watches  BY <1>0, <1>9 DEF JobStep, JobReads, JobCommits, JobFails
  <2>1. PICK c \in BOOLEAN : c = (warmJobs[s].live /\ warmJobs[s].task = "write")  BY Zenon
  <2>2. \/ warmJobs' = [warmJobs EXCEPT ![s] = [warmJobs[s] EXCEPT !.task = "write", !.read = mail, !.closure = TRUE]]
        \/ warmJobs' = [warmJobs EXCEPT ![s] = [warmJobs[s] EXCEPT !.task = "done"]]
        \/ warmJobs' = [warmJobs EXCEPT ![s] = [warmJobs[s] EXCEPT !.closure = FALSE, !.complete = c, !.task = "done", !.read = 0]]
        \/ warmJobs' = [warmJobs EXCEPT ![s] = [warmJobs[s] EXCEPT !.task = "done", !.live = FALSE]]
    BY <1>9, <2>1 DEF JobStep, JobReads, JobCommits, JobFails
  <2>3. ASSUME NEW j, \/ j = [warmJobs[s] EXCEPT !.task = "write", !.read = mail, !.closure = TRUE]
                      \/ j = [warmJobs[s] EXCEPT !.task = "done"]
                      \/ j = [warmJobs[s] EXCEPT !.task = "done", !.live = FALSE]
        PROVE  j \in JobRecord /\ j.account = warmJobs[s].account /\ (j.live => warmJobs[s].live)
    BY <1>0, <2>0, <2>3 DEF JobRecord
  <2>4. ASSUME NEW j, j = [warmJobs[s] EXCEPT !.closure = FALSE, !.complete = c, !.task = "done", !.read = 0]
        PROVE  j \in JobRecord /\ j.account = warmJobs[s].account /\ (j.live => warmJobs[s].live)
    BY <2>0, <2>1, <2>4 DEF JobRecord
  <2>5. \E j \in JobRecord : warmJobs' = [warmJobs EXCEPT ![s] = j] /\ j.account = warmJobs[s].account /\ (j.live => warmJobs[s].live)
    BY <2>2, <2>3, <2>4
  <2> QED BY <1>8, <2>0, <2>5
<1>10. ASSUME NEW g \in 1..MaxGen, LoopReads(g) \/ LoopAborted(g) \/ LoopTimer(g) PROVE HeldJobs'
  BY <1>1, <1>10 DEF LoopReads, LoopAborted, LoopTimer
<1>11. CASE UnwatchEnd \/ Deliver \/ RegistryPoll \/ NewMail \/ RegistryChanges \/ UNCHANGED syncVars
  BY <1>1, <1>11 DEF UnwatchEnd, Deliver, RegistryPoll, NewMail, RegistryChanges, syncVars
<1> QED BY <1>3, <1>4, <1>5, <1>6, <1>7, <1>9, <1>10, <1>11, DoneHolds DEF SyncNext, SyncCall, LoopStep, OperationEnds

LEMMA PageSteps ==
    ASSUME HeldJobs, page \in [Accounts -> [print : Nat, job : Nat]], [SyncNext]_syncVars, NEW a \in Accounts, page'[a] # page[a]
    PROVE  page'[a].job = watches[a].job
<1>1. PICK s \in 1..MaxSeq : JobCommits(s)
  BY DEF SyncNext, SyncCall, LoopStep, OperationEnds, JobStep, syncVars, tableVars, WatchBegin, Unwatch, Check, Shutdown, WatchInsert,
         UnwatchEnd, RegistryPoll, NewMail, RegistryChanges, LoopStart, LoopReads, LoopDone, LoopNotified, LoopAborted, LoopTimer,
         JobReads, JobFails, Deliver
<1>2. warmJobs[s].live /\ page' = [page EXCEPT ![warmJobs[s].account] = [print |-> warmJobs[s].read, job |-> s]]
  BY <1>1 DEF JobCommits
<1>3. warmJobs[s].account = a /\ page'[a].job = s  BY <1>2
<1> QED BY <1>2, <1>3 DEF HeldJobs

PageType == page \in [Accounts -> [print : Nat, job : Nat]]
LEMMA PageStays ==
    ASSUME HeldJobs, PageType, [SyncNext]_syncVars
    PROVE  PageType'
<1>1. CASE UNCHANGED page  BY <1>1 DEF PageType
<1>2. ASSUME NEW s \in 1..MaxSeq, JobCommits(s) PROVE PageType'
  <2>1. warmJobs[s].read \in Nat /\ s \in Nat  BY DEF HeldJobs, JobRecord
  <2> QED BY <1>2, <2>1 DEF PageType, JobCommits
<1> QED BY <1>1, <1>2 DEF SyncNext, SyncCall, LoopStep, OperationEnds, JobStep, syncVars, tableVars, WatchBegin, Unwatch, Check, Shutdown,
         WatchInsert, UnwatchEnd, RegistryPoll, NewMail, RegistryChanges, LoopStart, LoopReads, LoopDone, LoopNotified, LoopAborted,
         LoopTimer, JobReads, JobFails, Deliver

LEMMA LateStarts == SyncInit => EventsInv /\ HeldJobs /\ PageType
<1> SUFFICES ASSUME SyncInit PROVE EventsInv /\ HeldJobs /\ PageType  OBVIOUS
<1>1. EventsInv  BY DEF SyncInit, EventsInv, InCheckOrder, ShownRecord
<1>2. HeldJobs  BY NoJobType DEF SyncInit, HeldJobs
<1>3. PageType  BY DEF SyncInit, PageType
<1> QED BY <1>1, <1>2, <1>3

(* The results of an account never go back. *)
THEOREM ShownGoesForward == SyncSafety => ShownForward
<1>1. LoopInv /\ EventsInv /\ [SyncNext]_syncVars =>
        [\A a \in Accounts : shown'[a] # shown[a] => shown'[a].gen = watches[a].gen /\ shown'[a].seq > shown[a].seq]_syncVars
  BY ShownSteps
<1> QED BY <1>1, LoopStarts, LoopStays, LateStarts, EventSteps, PTL DEF SyncSafety, ShownForward

(* A page is only written by the job its watch still holds. *)
THEOREM HeldJobWrites == SyncSafety => OnlyHeldJobWrites
<1>1. HeldJobs /\ PageType /\ [SyncNext]_syncVars => [\A a \in Accounts : page'[a] # page[a] => page'[a].job = watches[a].job]_syncVars
  BY PageSteps DEF PageType
<1> QED BY <1>1, LoopStarts, LoopStays, LateStarts, JobsHold, PageStays, PTL DEF SyncSafety, OnlyHeldJobWrites


\* Checks under way, asked for, or about to start have a place below the bound on them.
Checking == {g \in 1..MaxGen : loops[g].at \notin {"sleep", "ended"}}
AskedFor == {a \in Watched : watches[a].permit}
Called == IF operation.kind = "watch" THEN 1 ELSE 0
RoomInv == sequence + Cardinality(Checking) + Cardinality(AskedFor) + Called <= MaxSeq

LEMMA NoMore == ASSUME NEW S, IsFiniteSet(S), NEW T, T \subseteq S
                PROVE  Cardinality(S) \in Nat /\ Cardinality(T) \in Nat /\ Cardinality(T) <= Cardinality(S)
BY FS_Subset, FS_CardinalityType
LEMMA OneMoreAtMost == ASSUME NEW S, IsFiniteSet(S), NEW x, NEW T, T \subseteq S \cup {x}
                       PROVE  Cardinality(S) \in Nat /\ Cardinality(T) \in Nat /\ Cardinality(T) <= Cardinality(S) + 1
<1>1. IsFiniteSet(S \cup {x}) /\ Cardinality(S) \in Nat /\ Cardinality(S \cup {x}) <= Cardinality(S) + 1
  <2>1. IsFiniteSet(S \cup {x}) /\ Cardinality(S \cup {x}) = IF x \in S THEN Cardinality(S) ELSE Cardinality(S) + 1
    BY FS_AddElement
  <2>2. Cardinality(S) \in Nat  BY FS_CardinalityType
  <2> QED BY <2>1, <2>2
<1>2. Cardinality(T) \in Nat /\ Cardinality(T) <= Cardinality(S \cup {x}) /\ Cardinality(S \cup {x}) \in Nat  BY <1>1, NoMore
<1> QED BY <1>1, <1>2
LEMMA OneFewer == ASSUME NEW S, IsFiniteSet(S), NEW x \in S, NEW T, T \subseteq S \ {x}
                  PROVE  Cardinality(S) \in Nat /\ Cardinality(T) \in Nat /\ Cardinality(T) + 1 <= Cardinality(S)
<1>1. IsFiniteSet(S \ {x}) /\ Cardinality(S) \in Nat /\ Cardinality(S \ {x}) = Cardinality(S) - 1
  BY FS_RemoveElement, FS_CardinalityType
<1>2. Cardinality(T) \in Nat /\ Cardinality(T) <= Cardinality(S \ {x})  BY <1>1, NoMore
<1> QED BY <1>1, <1>2

LEMMA RoomSizes == /\ IsFiniteSet(Checking) /\ IsFiniteSet(AskedFor)
                   /\ Cardinality(Checking) \in Nat /\ Cardinality(AskedFor) \in Nat /\ Called \in {0, 1} /\ MaxSeq \in Nat
<1>1. 1 \in Int /\ MaxGen \in Int /\ IsFiniteSet(Accounts) /\ MaxSeq \in Nat  BY SyncAssumption
<1>2. IsFiniteSet(1..MaxGen)  BY <1>1, FS_Interval
<1>3. IsFiniteSet(Checking) /\ IsFiniteSet(AskedFor)  BY <1>1, <1>2, FS_Subset DEF Checking, AskedFor, Watched
<1> QED BY <1>1, <1>3, FS_CardinalityType DEF Called

LEMMA RoomCalls == ASSUME LoopInv, RoomInv, SyncCall PROVE RoomInv'
<1>0. watches \in [Accounts -> WatchRecord] /\ loops \in [1..MaxGen -> LoopRecord] /\ sequence \in Nat  BY DEF LoopInv, TableType
<1>1. ASSUME NEW removed \in SUBSET Accounts, RemoveWatches(removed) PROVE Checking' \subseteq Checking /\ AskedFor' \subseteq AskedFor
  <2>1. \A g \in 1..MaxGen : loops'[g] = [loops[g] EXCEPT !.aborted = TRUE] \/ loops'[g] = loops[g]
    BY <1>1 DEF RemoveWatches, Aborted
  <2>2. \A g \in 1..MaxGen : loops'[g].at = loops[g].at  BY <1>0, <2>1 DEF LoopRecord
  <2>3. \A a \in Accounts : watches'[a] = NoWatch \/ watches'[a] = watches[a]  BY <1>1 DEF RemoveWatches
  <2> QED BY <2>2, <2>3, NoneOwned DEF Checking, AskedFor, Watched
<1>2. ASSUME NEW removed \in SUBSET Accounts, RemoveWatches(removed), sequence' = sequence, operation.kind # "watch",
             operation'.kind = "watch" => MayCheck
      PROVE  RoomInv'
  <2>1. /\ Cardinality(Checking') \in Nat /\ Cardinality(Checking') <= Cardinality(Checking)
        /\ Cardinality(AskedFor') \in Nat /\ Cardinality(AskedFor') <= Cardinality(AskedFor)
    BY <1>1, <1>2, RoomSizes, NoMore
  <2>2. Called = 0 /\ Called' \in {0, 1} /\ (Called' = 1 => MayCheck)  BY <1>2 DEF Called
  <2>3. MayCheck => sequence + Cardinality(Checking) + Cardinality(AskedFor) + Called < MaxSeq
    BY DEF MayCheck, Checking, AskedFor, Called
  <2> QED BY <1>0, <1>2, <2>1, <2>2, <2>3, RoomSizes DEF RoomInv
<1>3. ASSUME NEW a \in Accounts, Unwatch(a) \/ \E c \in Configs : WatchBegin(a, c) PROVE RoomInv'
  <2>1. PICK r \in SUBSET Accounts : r = {a}  OBVIOUS
  <2>2. RemoveWatches(r) /\ sequence' = sequence /\ operation.kind # "watch"  BY <1>3, <2>1, NoneOwned DEF Unwatch, WatchBegin
  <2>3. operation'.kind = "watch" => MayCheck  BY <1>3, NoneOwned DEF Unwatch, WatchBegin, OperationRecord
  <2> QED BY <1>2, <2>2, <2>3
<1>4. CASE Shutdown
  <2>1. PICK r \in SUBSET Accounts : r = Accounts  OBVIOUS
  <2>2. RemoveWatches(r) /\ sequence' = sequence /\ operation.kind # "watch" /\ operation'.kind # "watch"
    BY <1>4, <2>1, NoneOwned DEF Shutdown, OperationRecord
  <2> QED BY <1>2, <2>2
<1>5. ASSUME NEW a \in Accounts, Check(a) PROVE RoomInv'
  <2>1. watches' = [watches EXCEPT ![a].permit = TRUE] /\ Checking' = Checking /\ Called' = Called /\ sequence' = sequence /\ MayCheck
    BY <1>5 DEF Check, tableVars, Checking, Called
  <2>2. \A b \in Accounts : watches'[b].gen = watches[b].gen /\ (b # a => watches'[b] = watches[b])  BY <1>0, <2>1 DEF WatchRecord
  <2>3. AskedFor' \subseteq AskedFor \cup {a}  BY <2>2 DEF AskedFor, Watched
  <2>4. Cardinality(AskedFor') \in Nat /\ Cardinality(AskedFor') <= Cardinality(AskedFor) + 1  BY <2>3, RoomSizes, OneMoreAtMost
  <2>5. sequence + Cardinality(Checking) + Cardinality(AskedFor) + Called < MaxSeq  BY <2>1 DEF MayCheck, Checking, AskedFor, Called
  <2> QED BY <1>0, <2>1, <2>4, <2>5, RoomSizes DEF RoomInv
<1> QED BY <1>3, <1>4, <1>5 DEF SyncCall

LEMMA RoomEnds == ASSUME LoopInv, RoomInv, OperationEnds PROVE RoomInv'
<1>0. watches \in [Accounts -> WatchRecord] /\ loops \in [1..MaxGen -> LoopRecord] /\ sequence \in Nat  BY DEF LoopInv, TableType
<1>1. sequence' = sequence /\ Called' = 0  BY NoneOwned DEF OperationEnds, WatchInsert, UnwatchEnd, Called
<1>2. CASE UnwatchEnd
  <2>1. Checking' = Checking /\ AskedFor' = AskedFor /\ Called = 0  BY <1>2 DEF UnwatchEnd, Checking, AskedFor, Watched, Called
  <2> QED BY <1>1, <2>1 DEF RoomInv
<1>3. CASE WatchInsert
  <2> DEFINE b == operation.account
             new == [NoWatch EXCEPT !.gen = generation + 1, !.config = operation.config, !.checking = TRUE, !.seq = sequence]
  <2>1. b \in Accounts /\ watches' = [watches EXCEPT ![b] = new] /\ Called = 1  BY <1>3 DEF WatchInsert, LoopInv, InsertInv, Called
  <2>2. ~new.permit  BY NoneOwned DEF NoWatch
  <2> HIDE DEF new
  <2>3. ~watches'[b].permit /\ \A a \in Accounts \ {b} : watches'[a] = watches[a]  BY <1>0, <2>1, <2>2
  <2>4. AskedFor' \subseteq AskedFor  BY <2>1, <2>3 DEF AskedFor, Watched
  <2>5. \A g \in 1..MaxGen : g # generation + 1 => loops'[g] = loops[g]  BY <1>0, <1>3 DEF WatchInsert
  <2>6. Checking' \subseteq Checking \cup {generation + 1}  BY <2>5 DEF Checking
  <2>7. /\ Cardinality(AskedFor') \in Nat /\ Cardinality(AskedFor') <= Cardinality(AskedFor)
        /\ Cardinality(Checking') \in Nat /\ Cardinality(Checking') <= Cardinality(Checking) + 1
    BY <2>4, <2>6, RoomSizes, NoMore, OneMoreAtMost
  <2> QED BY <1>0, <1>1, <2>1, <2>7, RoomSizes DEF RoomInv
<1> QED BY <1>2, <1>3 DEF OperationEnds

LEMMA RoomLoops == ASSUME LoopInv, RoomInv, NEW g \in 1..MaxGen, LoopStep(g) \/ LoopTimer(g) PROVE RoomInv'
<1>0. /\ watches \in [Accounts -> WatchRecord] /\ loops \in [1..MaxGen -> LoopRecord] /\ sequence \in Nat
      /\ loops[g].account \in Accounts /\ loops[g].at # "ended"
  <2>1. Running(g)  BY DEF LoopStep, LoopStart, LoopReads, LoopDone, LoopNotified, LoopAborted, LoopTimer, LoopAt
  <2> QED BY <2>1 DEF LoopInv, TableType, NewestInv, Running
<1> DEFINE a == loops[g].account
<1>1. Called' = Called  BY DEF LoopStep, LoopStart, LoopReads, LoopDone, LoopNotified, LoopAborted, LoopTimer, tableVars, Called
<1>2. \A h \in 1..MaxGen \ {g} : loops'[h] = loops[h]
  BY <1>0 DEF LoopStep, LoopStart, LoopReads, LoopDone, LoopNotified, LoopAborted, LoopTimer, LoopEnds
<1>3. ASSUME sequence' = sequence, AskedFor' \subseteq AskedFor, Checking' \subseteq Checking PROVE RoomInv'
  <2>1. /\ Cardinality(AskedFor') \in Nat /\ Cardinality(AskedFor') <= Cardinality(AskedFor)
        /\ Cardinality(Checking') \in Nat /\ Cardinality(Checking') <= Cardinality(Checking)
    BY <1>3, RoomSizes, NoMore
  <2> QED BY <1>0, <1>1, <1>3, <2>1, RoomSizes DEF RoomInv
<1>4. ASSUME loops[g].at # "sleep" PROVE Checking' \subseteq Checking  BY <1>0, <1>2, <1>4 DEF Checking
<1>5. ASSUME LoopEnds(g) PROVE Checking' \subseteq Checking \ {g}  BY <1>0, <1>2, <1>5, NoneOwned DEF Checking, LoopEnds
<1>6. Checking' \subseteq Checking \cup {g}  BY <1>2 DEF Checking
<1>7. CASE LoopStart(g)
  <2>0. [watches[a] EXCEPT !.checking = TRUE].gen = watches[a].gen /\ [watches[a] EXCEPT !.checking = TRUE].permit = watches[a].permit
    BY <1>0 DEF WatchRecord
  <2>1. watches' = watches \/ watches' = [watches EXCEPT ![a] = [watches[a] EXCEPT !.checking = TRUE]]  BY <1>7 DEF LoopStart
  <2>2. \A b \in Accounts : watches'[b].gen = watches[b].gen /\ watches'[b].permit = watches[b].permit  BY <1>0, <2>0, <2>1
  <2>3. AskedFor' \subseteq AskedFor /\ sequence' = sequence /\ loops[g].at # "sleep"
    BY <1>7, <2>2 DEF AskedFor, Watched, LoopStart, LoopAt
  <2> QED BY <1>3, <1>4, <2>3
<1>8. CASE LoopReads(g)  BY <1>3, <1>4, <1>8 DEF LoopReads, LoopAt, AskedFor, Watched
<1>9. CASE LoopAborted(g)  BY <1>3, <1>5, <1>9 DEF LoopAborted, AskedFor, Watched
<1>10. CASE LoopTimer(g)
  <2>1. AskedFor' = AskedFor /\ sequence' = sequence /\ MayCheck  BY <1>10 DEF LoopTimer, AskedFor, Watched
  <2>2. sequence + Cardinality(Checking) + Cardinality(AskedFor) + Called < MaxSeq  BY <2>1 DEF MayCheck, Checking, AskedFor, Called
  <2>3. Cardinality(Checking') \in Nat /\ Cardinality(Checking') <= Cardinality(Checking) + 1  BY <1>6, RoomSizes, OneMoreAtMost
  <2> QED BY <1>0, <1>1, <2>1, <2>2, <2>3, RoomSizes DEF RoomInv
<1>11. CASE LoopNotified(g)
  <2>1. sequence' = sequence /\ watches[a].gen # 0 /\ watches[a].permit /\ watches' = [watches EXCEPT ![a].permit = FALSE]
    BY <1>0, <1>11 DEF LoopNotified, Current
  <2>2. ~watches'[a].permit /\ \A b \in Accounts \ {a} : watches'[b] = watches[b]  BY <1>0, <2>1 DEF WatchRecord
  <2>3. a \in AskedFor /\ AskedFor' \subseteq AskedFor \ {a}  BY <1>0, <2>1, <2>2 DEF AskedFor, Watched
  <2>4. /\ Cardinality(Checking') \in Nat /\ Cardinality(Checking') <= Cardinality(Checking) + 1
        /\ Cardinality(AskedFor') \in Nat /\ Cardinality(AskedFor') + 1 <= Cardinality(AskedFor)
    BY <1>6, <2>3, RoomSizes, OneMoreAtMost, OneFewer
  <2> QED BY <1>0, <1>1, <2>1, <2>4, RoomSizes DEF RoomInv
<1>12. CASE LoopDone(g) /\ ~Current(g)  BY <1>3, <1>4, <1>12 DEF LoopDone, LoopAt, AskedFor, Watched
<1>13. CASE LoopDone(g) /\ Current(g)
  <2> DEFINE w == [watches[a] EXCEPT !.checking = FALSE, !.seq = sequence + 1]
  <2>1. sequence' = sequence + 1 /\ loops' = [loops EXCEPT ![g].at = "sleep", ![g].result = Error] /\ loops[g].at = "result"
    BY <1>13 DEF LoopDone, PublishResult, LoopAt
  <2>2. loops'[g].at = "sleep"  BY <1>0, <2>1 DEF LoopRecord
  <2>3. g \in Checking /\ Checking' \subseteq Checking \ {g}  BY <1>2, <2>1, <2>2 DEF Checking
  <2>4. \/ watches' = [watches EXCEPT ![a] = [w EXCEPT !.error = TRUE]]
        \/ watches' = [watches EXCEPT ![a] = [w EXCEPT !.print = loops[g].result, !.error = FALSE]]
        \/ watches' = [watches EXCEPT ![a] = [[w EXCEPT !.print = loops[g].result, !.error = FALSE] EXCEPT !.job = sequence + 1]]
    BY <1>13 DEF LoopDone
  <2>5. PICK x : watches' = [watches EXCEPT ![a] = x] /\ x.gen = watches[a].gen /\ x.permit = watches[a].permit
    <3>1. watches[a] \in WatchRecord /\ sequence + 1 \in Nat  BY <1>0
    <3>2. w \in WatchRecord /\ w.gen = watches[a].gen /\ w.permit = watches[a].permit  BY <3>1 DEF WatchRecord
    <3> HIDE DEF w
    <3>3. ASSUME NEW x, \/ x = [w EXCEPT !.error = TRUE]
                        \/ x = [w EXCEPT !.print = loops[g].result, !.error = FALSE]
                        \/ x = [[w EXCEPT !.print = loops[g].result, !.error = FALSE] EXCEPT !.job = sequence + 1]
          PROVE  x.gen = watches[a].gen /\ x.permit = watches[a].permit
      BY <3>2, <3>3 DEF WatchRecord
    <3> QED BY <2>4, <3>3
  <2>6. \A b \in Accounts : watches'[b].gen = watches[b].gen /\ watches'[b].permit = watches[b].permit  BY <1>0, <2>5
  <2>7. AskedFor' \subseteq AskedFor  BY <2>6 DEF AskedFor, Watched
  <2>8. /\ Cardinality(Checking') \in Nat /\ Cardinality(Checking') + 1 <= Cardinality(Checking)
        /\ Cardinality(AskedFor') \in Nat /\ Cardinality(AskedFor') <= Cardinality(AskedFor)
    BY <2>3, <2>7, RoomSizes, NoMore, OneFewer
  <2> QED BY <1>0, <1>1, <2>1, <2>8, RoomSizes DEF RoomInv
<1> QED BY <1>7, <1>8, <1>9, <1>10, <1>11, <1>12, <1>13 DEF LoopStep

LEMMA RoomStays == ASSUME LoopInv, RoomInv, [SyncNext]_syncVars PROVE RoomInv'
<1>1. ASSUME UNCHANGED <<watches, loops, sequence, operation>> PROVE RoomInv'
  BY <1>1 DEF RoomInv, Checking, AskedFor, Watched, Called
<1>2. CASE Deliver \/ RegistryPoll \/ NewMail \/ RegistryChanges \/ UNCHANGED syncVars
  BY <1>1, <1>2 DEF Deliver, RegistryPoll, NewMail, RegistryChanges, syncVars, tableVars
<1>3. ASSUME NEW s \in 1..MaxSeq, JobStep(s) PROVE RoomInv'  BY <1>1, <1>3 DEF JobStep, JobReads, JobCommits, JobFails, tableVars
<1> QED BY <1>2, <1>3, RoomCalls, RoomEnds, RoomLoops DEF SyncNext

\* What a step writes into the table, the tasks and the jobs was there before, or is the newest check or mailbox.
Results == {0} \cup {loops[g].result : g \in 1..MaxGen}
WatchWrites == \A a \in Accounts : /\ watches'[a].seq \in {0, watches[a].seq, sequence, sequence'}
                                   /\ watches'[a].print \in Results \cup {watches[a].print}
                                   /\ watches'[a].job \in {0, watches[a].job, sequence'}
LoopWrites == \A g \in 1..MaxGen : loops'[g].result \in {0, mail, loops[g].result}
JobWrites == \A s \in 1..MaxSeq : /\ warmJobs'[s].print \in Results \cup {warmJobs[s].print}
                                  /\ warmJobs'[s].read \in {0, mail, warmJobs[s].read}
NumbersInv == /\ generation <= MaxGen /\ mail > 0 /\ mail <= MaxMail
              /\ \A a \in Accounts : watches[a].seq <= sequence /\ watches[a].print <= mail /\ watches[a].job <= sequence
              /\ \A g \in 1..MaxGen : loops[g].result <= mail
              /\ \A s \in 1..MaxSeq : warmJobs[s].print <= mail /\ warmJobs[s].read <= mail
              /\ Len(events) <= QueueCap

LEMMA NoneWritten == /\ NoWatch.seq = 0 /\ NoWatch.print = 0 /\ NoWatch.job = 0 /\ NoLoop.result = 0 /\ Error = 0
                     /\ NoWarmJob.print = 0 /\ NoWarmJob.read = 0
BY DEF NoWatch, NoLoop, Error, NoWarmJob

LEMMA RemovalWrites == ASSUME LoopInv, HeldJobs, NEW removed \in SUBSET Accounts, RemoveWatches(removed)
                       PROVE  WatchWrites /\ LoopWrites /\ JobWrites
<1>1. WatchWrites
  <2>1. \A a \in Accounts : watches'[a] = NoWatch \/ watches'[a] = watches[a]  BY DEF RemoveWatches
  <2> QED BY <2>1, NoneWritten DEF WatchWrites, Results
<1>2. LoopWrites
  <2>1. \A g \in 1..MaxGen : loops'[g] = [loops[g] EXCEPT !.aborted = TRUE] \/ loops'[g] = loops[g]  BY DEF RemoveWatches, Aborted
  <2>2. \A g \in 1..MaxGen : loops[g] \in LoopRecord  BY DEF LoopInv, TableType
  <2>3. \A g \in 1..MaxGen : loops'[g].result = loops[g].result  BY <2>1, <2>2 DEF LoopRecord
  <2> QED BY <2>3 DEF LoopWrites
<1>3. JobWrites
  <2>1. \A s \in 1..MaxSeq : warmJobs'[s] = [warmJobs[s] EXCEPT !.live = FALSE] \/ warmJobs'[s] = warmJobs[s]
    BY DEF RemoveWatches, DroppedJobs
  <2>2. \A s \in 1..MaxSeq : warmJobs[s] \in JobRecord  BY DEF HeldJobs
  <2>3. \A s \in 1..MaxSeq : warmJobs'[s].print = warmJobs[s].print /\ warmJobs'[s].read = warmJobs[s].read
    BY <2>1, <2>2 DEF JobRecord
  <2> QED BY <2>3 DEF JobWrites
<1> QED BY <1>1, <1>2, <1>3

LEMMA DoneWrites == ASSUME LoopInv, HeldJobs, NEW g \in 1..MaxGen, LoopDone(g) PROVE WatchWrites /\ LoopWrites /\ JobWrites
<1>0. /\ watches \in [Accounts -> WatchRecord] /\ loops \in [1..MaxGen -> LoopRecord] /\ sequence \in Nat
      /\ loops[g].account \in Accounts /\ warmJobs \in [1..MaxSeq -> JobRecord] /\ loops[g].result \in Nat
  BY DEF LoopDone, LoopAt, LoopInv, TableType, NewestInv, HeldJobs, LoopRecord
<1>1. CASE ~Current(g)
  <2>1. watches' = watches /\ warmJobs' = warmJobs /\ loops' = [loops EXCEPT ![g] = NoLoop]  BY <1>1 DEF LoopDone, LoopEnds
  <2>2. \A h \in 1..MaxGen : loops'[h] = NoLoop \/ loops'[h] = loops[h]  BY <1>0, <2>1
  <2> QED BY <2>1, <2>2, NoneWritten DEF WatchWrites, LoopWrites, JobWrites, Results
<1>2. CASE Current(g)
  <2> DEFINE a == loops[g].account
             w == [watches[a] EXCEPT !.checking = FALSE, !.seq = sequence + 1]
             ok == [w EXCEPT !.print = loops[g].result, !.error = FALSE]
             job == [NoWarmJob EXCEPT !.account = a, !.print = loops[g].result, !.live = TRUE, !.task = "run"]
  <2>1. LoopWrites
    <3>1. loops' = [loops EXCEPT ![g] = [loops[g] EXCEPT !.at = "sleep", !.result = Error]]  BY <1>2 DEF LoopDone
    <3>2. [loops[g] EXCEPT !.at = "sleep", !.result = Error].result = 0  BY <1>0, NoneWritten DEF LoopRecord
    <3> QED BY <1>0, <3>1, <3>2 DEF LoopWrites
  <2>1a. watches[a] \in WatchRecord /\ sequence + 1 \in Nat  BY <1>0
  <2>2. w \in WatchRecord /\ w.seq = sequence + 1 /\ w.print = watches[a].print /\ w.job = watches[a].job  BY <2>1a DEF WatchRecord
  <2>3. /\ \/ watches' = [watches EXCEPT ![a] = [w EXCEPT !.error = TRUE]]
           \/ watches' = [watches EXCEPT ![a] = ok]
           \/ watches' = [watches EXCEPT ![a] = [ok EXCEPT !.job = sequence + 1]]
        /\ sequence' = sequence + 1
    BY <1>2 DEF LoopDone, PublishResult
  <2>4. warmJobs' = warmJobs \/ warmJobs' = [DroppedJobs({w.job}) EXCEPT ![sequence + 1] = job]  BY <1>2 DEF LoopDone
  <2>5. WatchWrites
    <3> HIDE DEF w
    <3>1. ASSUME NEW x, x = [w EXCEPT !.error = TRUE] \/ x = ok \/ x = [ok EXCEPT !.job = sequence + 1]
          PROVE  x.seq = sequence + 1 /\ x.print \in {watches[a].print, loops[g].result} /\ x.job \in {watches[a].job, sequence + 1}
      BY <2>2, <3>1 DEF WatchRecord
    <3> HIDE DEF ok
    <3>2. PICK x : watches' = [watches EXCEPT ![a] = x] /\ (x = [w EXCEPT !.error = TRUE] \/ x = ok \/ x = [ok EXCEPT !.job = sequence + 1])
      BY <2>3
    <3>3. x.seq = sequence' /\ x.print \in {watches[a].print, loops[g].result} /\ x.job \in {watches[a].job, sequence'}
      BY <2>3, <3>1, <3>2
    <3>4. \A b \in Accounts : watches'[b] = IF b = a THEN x ELSE watches[b]  BY <1>0, <3>2
    <3> QED BY <3>3, <3>4 DEF WatchWrites, Results
  <2>6. JobWrites
    <3> DEFINE set == {w.job}
    <3>1. job.print = loops[g].result /\ job.read = 0  BY NoJobType, NoneWritten DEF NoWarmJob
    <3> HIDE DEF job
    <3>2. \A s \in 1..MaxSeq : warmJobs'[s] = job \/ warmJobs'[s] = DroppedJobs(set)[s] \/ warmJobs'[s] = warmJobs[s]
      BY <1>0, <2>4 DEF DroppedJobs
    <3>3. \A s \in 1..MaxSeq : DroppedJobs(set)[s] = [warmJobs[s] EXCEPT !.live = FALSE] \/ DroppedJobs(set)[s] = warmJobs[s]
      BY DEF DroppedJobs
    <3>4. \A s \in 1..MaxSeq : [warmJobs[s] EXCEPT !.live = FALSE].print = warmJobs[s].print /\ [warmJobs[s] EXCEPT !.live = FALSE].read = warmJobs[s].read
      BY <1>0 DEF JobRecord
    <3>5. ASSUME NEW s \in 1..MaxSeq
          PROVE  \/ warmJobs'[s].print = loops[g].result /\ warmJobs'[s].read = 0
                 \/ warmJobs'[s].print = warmJobs[s].print /\ warmJobs'[s].read = warmJobs[s].read
      BY <3>1, <3>2, <3>3, <3>4
    <3>6. loops[g].result \in Results  BY DEF Results
    <3> QED BY <3>5, <3>6 DEF JobWrites
  <2> QED BY <2>1, <2>5, <2>6
<1> QED BY <1>1, <1>2

LEMMA StepWrites == ASSUME LoopInv, HeldJobs, [SyncNext]_syncVars PROVE WatchWrites /\ LoopWrites /\ JobWrites
<1>0. /\ watches \in [Accounts -> WatchRecord] /\ loops \in [1..MaxGen -> LoopRecord] /\ warmJobs \in [1..MaxSeq -> JobRecord]
  BY DEF LoopInv, TableType, HeldJobs
<1>1. watches' = watches => WatchWrites  BY DEF WatchWrites, Results
<1>2. loops' = loops => LoopWrites  BY DEF LoopWrites
<1>3. warmJobs' = warmJobs => JobWrites  BY DEF JobWrites, Results
<1>4. ASSUME NEW a \in Accounts, NEW w, watches' = [watches EXCEPT ![a] = w], w.seq = watches[a].seq, w.print = watches[a].print, w.job = watches[a].job
      PROVE  WatchWrites
  <2>1. \A b \in Accounts : watches'[b].seq = watches[b].seq /\ watches'[b].print = watches[b].print /\ watches'[b].job = watches[b].job
    BY <1>0, <1>4
  <2> QED BY <2>1 DEF WatchWrites, Results
<1>5. ASSUME NEW a \in Accounts, Unwatch(a) \/ (\E c \in Configs : WatchBegin(a, c)) \/ Shutdown PROVE WatchWrites /\ LoopWrites /\ JobWrites
  <2>1. PICK r \in SUBSET Accounts, q \in SUBSET Accounts : r = {a} /\ q = Accounts  OBVIOUS
  <2>2. RemoveWatches(r) \/ RemoveWatches(q)  BY <1>5, <2>1 DEF Unwatch, WatchBegin, Shutdown
  <2> QED BY <2>2, RemovalWrites
<1>6. ASSUME NEW a \in Accounts, Check(a) PROVE WatchWrites /\ LoopWrites /\ JobWrites
  <2>1. watches' = [watches EXCEPT ![a] = [watches[a] EXCEPT !.permit = TRUE]] /\ warmJobs' = warmJobs /\ loops' = loops
    BY <1>6 DEF Check
  <2>2. PICK w : w = [watches[a] EXCEPT !.permit = TRUE]  OBVIOUS
  <2>3. w.seq = watches[a].seq /\ w.print = watches[a].print /\ w.job = watches[a].job  BY <1>0, <2>2 DEF WatchRecord
  <2> QED BY <1>2, <1>3, <1>4, <2>1, <2>2, <2>3
<1>7. CASE WatchInsert
  <2> DEFINE new == [NoWatch EXCEPT !.gen = generation + 1, !.config = operation.config, !.checking = TRUE, !.seq = sequence]
             loop == [NoLoop EXCEPT !.account = operation.account, !.config = operation.config, !.at = "start"]
  <2>1. /\ watches' = [watches EXCEPT ![operation.account] = new] /\ warmJobs' = warmJobs
        /\ loops' = [loops EXCEPT ![generation + 1] = loop]
    BY <1>7 DEF WatchInsert
  <2>2. new.seq = sequence /\ new.print = 0 /\ new.job = 0 /\ loop.result = 0  BY NoneOwned, NoneWritten DEF WatchRecord, LoopRecord
  <2> HIDE DEF new, loop
  <2>3. \A a \in Accounts : watches'[a] = new \/ watches'[a] = watches[a]  BY <1>0, <2>1
  <2>4. \A g \in 1..MaxGen : loops'[g] = loop \/ loops'[g] = loops[g]  BY <1>0, <2>1
  <2>5. WatchWrites  BY <2>2, <2>3 DEF WatchWrites, Results
  <2> QED BY <1>3, <2>1, <2>2, <2>4, <2>5 DEF LoopWrites
<1>8. ASSUME NEW g \in 1..MaxGen, LoopStart(g) \/ LoopNotified(g) \/ LoopReads(g) \/ LoopAborted(g) \/ LoopTimer(g)
      PROVE  WatchWrites /\ LoopWrites /\ JobWrites
  <2> DEFINE a == loops[g].account
  <2>0. a \in Accounts /\ watches[a] \in WatchRecord /\ loops[g] \in LoopRecord /\ warmJobs' = warmJobs
    <3>1. Running(g) /\ warmJobs' = warmJobs  BY <1>8 DEF LoopStart, LoopNotified, LoopReads, LoopAborted, LoopTimer, LoopAt
    <3> QED BY <3>1 DEF LoopInv, NewestInv, TableType
  <2>1. \/ watches' = watches
        \/ watches' = [watches EXCEPT ![a] = [watches[a] EXCEPT !.checking = TRUE]]
        \/ watches' = [watches EXCEPT ![a] = [watches[a] EXCEPT !.permit = FALSE]]
    BY <1>8 DEF LoopStart, LoopNotified, LoopReads, LoopAborted, LoopTimer
  <2>2. ASSUME NEW w, w = [watches[a] EXCEPT !.checking = TRUE] \/ w = [watches[a] EXCEPT !.permit = FALSE]
        PROVE  w.seq = watches[a].seq /\ w.print = watches[a].print /\ w.job = watches[a].job
    BY <2>0, <2>2 DEF WatchRecord
  <2>3. watches' = watches \/ \E w : watches' = [watches EXCEPT ![a] = w] /\ w.seq = watches[a].seq /\ w.print = watches[a].print /\ w.job = watches[a].job
    BY <2>1, <2>2
  <2>4. WatchWrites  BY <1>1, <1>4, <2>0, <2>3
  <2>5. \/ loops' = [loops EXCEPT ![g] = NoLoop]
        \/ loops' = [loops EXCEPT ![g] = [loops[g] EXCEPT !.at = "check"]]
        \/ loops' = [loops EXCEPT ![g] = [loops[g] EXCEPT !.at = "start"]]
        \/ \E r \in {mail, Error} : loops' = [loops EXCEPT ![g] = [loops[g] EXCEPT !.at = "result", !.result = r]]
    BY <1>8 DEF LoopStart, LoopNotified, LoopReads, LoopAborted, LoopTimer, LoopEnds
  <2>6. ASSUME NEW l, \/ l = NoLoop \/ l = [loops[g] EXCEPT !.at = "check"] \/ l = [loops[g] EXCEPT !.at = "start"]
                      \/ \E r \in {mail, Error} : l = [loops[g] EXCEPT !.at = "result", !.result = r]
        PROVE  l.result \in {0, mail, loops[g].result}
    BY <2>0, <2>6, NoneWritten DEF LoopRecord
  <2>7. PICK l : loops' = [loops EXCEPT ![g] = l] /\ l.result \in {0, mail, loops[g].result}  BY <2>5, <2>6
  <2>8. LoopWrites  BY <1>0, <2>7 DEF LoopWrites
  <2> QED BY <1>3, <2>0, <2>4, <2>8
<1>9. ASSUME NEW s \in 1..MaxSeq, JobStep(s) PROVE WatchWrites /\ LoopWrites /\ JobWrites
  <2>0. warmJobs[s] \in JobRecord /\ watches' = watches /\ loops' = loops  BY <1>0, <1>9 DEF JobStep, JobReads, JobCommits, JobFails
  <2>1. PICK c \in BOOLEAN : c = (warmJobs[s].live /\ warmJobs[s].task = "write")  BY Zenon
  <2>2. \/ warmJobs' = [warmJobs EXCEPT ![s] = [warmJobs[s] EXCEPT !.task = "write", !.read = mail, !.closure = TRUE]]
        \/ warmJobs' = [warmJobs EXCEPT ![s] = [warmJobs[s] EXCEPT !.task = "done"]]
        \/ warmJobs' = [warmJobs EXCEPT ![s] = [warmJobs[s] EXCEPT !.closure = FALSE, !.complete = c, !.task = "done", !.read = 0]]
        \/ warmJobs' = [warmJobs EXCEPT ![s] = [warmJobs[s] EXCEPT !.task = "done", !.live = FALSE]]
    BY <1>9, <2>1 DEF JobStep, JobReads, JobCommits, JobFails
  <2>3. ASSUME NEW j, \/ j = [warmJobs[s] EXCEPT !.task = "write", !.read = mail, !.closure = TRUE]
                      \/ j = [warmJobs[s] EXCEPT !.task = "done"]
                      \/ j = [warmJobs[s] EXCEPT !.task = "done", !.live = FALSE]
                      \/ j = [warmJobs[s] EXCEPT !.closure = FALSE, !.complete = c, !.task = "done", !.read = 0]
        PROVE  j.print = warmJobs[s].print /\ j.read \in {0, mail, warmJobs[s].read}
    BY <2>0, <2>3 DEF JobRecord
  <2>5. PICK j : warmJobs' = [warmJobs EXCEPT ![s] = j] /\ j.print = warmJobs[s].print /\ j.read \in {0, mail, warmJobs[s].read}
    BY <2>2, <2>3
  <2>6. JobWrites  BY <1>0, <2>5 DEF JobWrites, Results
  <2> QED BY <1>1, <1>2, <2>0, <2>6
<1>10. CASE UnwatchEnd \/ Deliver \/ RegistryPoll \/ NewMail \/ RegistryChanges \/ UNCHANGED syncVars
  BY <1>1, <1>2, <1>3, <1>10 DEF UnwatchEnd, Deliver, RegistryPoll, NewMail, RegistryChanges, syncVars, tableVars
<1>11. Accounts # {}  BY SyncAssumption
<1> QED BY <1>5, <1>6, <1>7, <1>8, <1>9, <1>10, <1>11, DoneWrites DEF SyncNext, SyncCall, LoopStep, OperationEnds

LEMMA NumbersStay == ASSUME LoopInv, HeldJobs, EventsInv, NumbersInv, LoopInv', HeldJobs', [SyncNext]_syncVars PROVE NumbersInv'
<1>0. /\ generation \in Nat /\ generation' \in Nat /\ mail \in Nat /\ mail' \in Nat /\ sequence \in Nat /\ sequence' \in Nat
      /\ {MaxGen, MaxSeq, MaxMail, QueueCap} \subseteq Nat /\ QueueCap > 0
  BY SyncAssumption DEF LoopInv, TableType
<1>1. /\ sequence <= sequence' /\ mail <= mail' /\ mail' <= MaxMail /\ generation' <= MaxGen
  <2>1. sequence' \in {sequence, sequence + 1}
    BY DEF SyncNext, SyncCall, LoopStep, OperationEnds, JobStep, syncVars, tableVars, WatchBegin, Unwatch, Check, Shutdown,
           WatchInsert, UnwatchEnd, RegistryPoll, NewMail, RegistryChanges, LoopStart, LoopReads, LoopDone, LoopNotified, LoopAborted,
           LoopTimer, JobReads, JobCommits, JobFails, Deliver, PublishResult
  <2>2. mail' = mail \/ (mail' = mail + 1 /\ mail < MaxMail)
    BY DEF SyncNext, SyncCall, LoopStep, OperationEnds, JobStep, syncVars, tableVars, WatchBegin, Unwatch, Check, Shutdown,
           WatchInsert, UnwatchEnd, RegistryPoll, NewMail, RegistryChanges, LoopStart, LoopReads, LoopDone, LoopNotified, LoopAborted,
           LoopTimer, JobReads, JobCommits, JobFails, Deliver, PublishResult
  <2>3. generation' = generation \/ (generation' = generation + 1 /\ generation < MaxGen)
    BY DEF LoopInv, InsertInv, SyncNext, SyncCall, LoopStep, OperationEnds, JobStep, syncVars, tableVars, WatchBegin, Unwatch, Check, Shutdown,
           WatchInsert, UnwatchEnd, RegistryPoll, NewMail, RegistryChanges, LoopStart, LoopReads, LoopDone, LoopNotified, LoopAborted,
           LoopTimer, JobReads, JobCommits, JobFails, Deliver, PublishResult
  <2> QED BY <1>0, <2>1, <2>2, <2>3 DEF NumbersInv
<1>2. WatchWrites /\ LoopWrites /\ JobWrites  BY StepWrites
<1>3. /\ \A a \in Accounts : watches[a] \in WatchRecord /\ watches'[a] \in WatchRecord
      /\ \A g \in 1..MaxGen : loops[g] \in LoopRecord /\ loops'[g] \in LoopRecord
      /\ \A s \in 1..MaxSeq : warmJobs[s] \in JobRecord /\ warmJobs'[s] \in JobRecord
  BY DEF LoopInv, TableType, HeldJobs
<1>4. \A n \in Results : n \in Nat /\ n <= mail
  <2>1. \A g \in 1..MaxGen : loops[g].result \in Nat  BY <1>3 DEF LoopRecord
  <2>2. \A g \in 1..MaxGen : loops[g].result <= mail  BY DEF NumbersInv
  <2> QED BY <1>0, <2>1, <2>2 DEF Results
<1>5. ASSUME NEW a \in Accounts PROVE watches'[a].seq <= sequence' /\ watches'[a].print <= mail' /\ watches'[a].job <= sequence'
  <2>1. /\ watches[a].seq \in Nat /\ watches[a].print \in Nat /\ watches[a].job \in Nat
        /\ watches'[a].seq \in Nat /\ watches'[a].print \in Nat /\ watches'[a].job \in Nat
    BY <1>3 DEF WatchRecord
  <2>2. watches[a].seq <= sequence /\ watches[a].print <= mail /\ watches[a].job <= sequence  BY DEF NumbersInv
  <2>3. watches'[a].seq <= sequence' /\ watches'[a].job <= sequence'  BY <1>0, <1>1, <1>2, <2>1, <2>2 DEF WatchWrites
  <2>4. watches'[a].print <= mail  BY <1>0, <1>2, <1>4, <2>1, <2>2 DEF WatchWrites
  <2> QED BY <1>0, <1>1, <2>1, <2>3, <2>4
<1>6. ASSUME NEW g \in 1..MaxGen PROVE loops'[g].result <= mail'
  <2>1. loops[g].result \in Nat /\ loops'[g].result \in Nat /\ loops[g].result <= mail /\ loops'[g].result \in {0, mail, loops[g].result}
    BY <1>2, <1>3 DEF LoopRecord, LoopWrites, NumbersInv
  <2> QED BY <1>0, <1>1, <2>1
<1>7. ASSUME NEW s \in 1..MaxSeq PROVE warmJobs'[s].print <= mail' /\ warmJobs'[s].read <= mail'
  <2>1. warmJobs[s].print \in Nat /\ warmJobs'[s].print \in Nat /\ warmJobs[s].read \in Nat /\ warmJobs'[s].read \in Nat
    BY <1>3 DEF JobRecord
  <2>2. warmJobs[s].print <= mail /\ warmJobs[s].read <= mail  BY DEF NumbersInv
  <2>3. warmJobs'[s].print <= mail /\ warmJobs'[s].read <= mail  BY <1>0, <1>2, <1>4, <2>1, <2>2 DEF JobWrites
  <2> QED BY <1>0, <1>1, <2>1, <2>3
<1>8. Len(events') <= QueueCap
  <2>1. events' = events \/ (events # <<>> /\ events' = Tail(events)) \/ \E e : Send(e)
    BY DEF SyncNext, SyncCall, LoopStep, OperationEnds, JobStep, syncVars, tableVars, WatchBegin, Unwatch, Check, Shutdown,
           WatchInsert, UnwatchEnd, RegistryPoll, NewMail, RegistryChanges, LoopStart, LoopReads, LoopDone, LoopNotified, LoopAborted,
           LoopTimer, JobReads, JobCommits, JobFails, Deliver, PublishResult
  <2>2. events \in Seq(EventRecord) /\ Len(events) <= QueueCap  BY DEF EventsInv, InCheckOrder, NumbersInv
  <2>3. ASSUME NEW e, Send(e) PROVE Len(events') <= QueueCap
    <3>1. CASE Len(events) < QueueCap
      <4>1. events' = Append(events, e)  BY <2>3, <3>1 DEF Send
      <4>2. events \in Seq(EventRecord \cup {e})  BY <2>2
      <4>3. Len(Append(events, e)) = Len(events) + 1  BY <4>2
      <4> QED BY <1>0, <2>2, <3>1, <4>1, <4>3
    <3>2. CASE ~(Len(events) < QueueCap)
      <4>1. events' = Append(Tail(events), e) /\ events # <<>>  BY <1>0, <2>2, <2>3, <3>2 DEF Send
      <4>2. Tail(events) \in Seq(EventRecord) /\ Len(Tail(events)) = Len(events) - 1  BY <2>2, <4>1
      <4>3. Tail(events) \in Seq(EventRecord \cup {e})  BY <4>2
      <4>4. Len(Append(Tail(events), e)) = Len(Tail(events)) + 1  BY <4>3
      <4> QED BY <1>0, <2>2, <4>1, <4>2, <4>4
    <3> QED BY <3>1, <3>2
  <2>4. CASE events # <<>> /\ events' = Tail(events)  BY <1>0, <2>2, <2>4
  <2> QED BY <2>1, <2>2, <2>3, <2>4
<1> QED BY <1>0, <1>1, <1>5, <1>6, <1>7, <1>8 DEF NumbersInv

\* The types of the watches, whatever is watched, replaced, cancelled and reported: no queue and no number leaves its range.
THEOREM SyncIsTyped == SyncSafety => []SyncTypeOK
<1> DEFINE Inv == LoopInv /\ HeldJobs /\ EventsInv /\ RoomInv /\ NumbersInv
<1>1. SyncInit => RoomInv /\ NumbersInv
  <2> SUFFICES ASSUME SyncInit PROVE RoomInv /\ NumbersInv  OBVIOUS
  <2>0. MaxSeq \in Nat /\ MaxGen \in Nat /\ MaxMail \in Nat /\ QueueCap \in Nat /\ MaxMail > 0  BY SyncAssumption
  <2>1. Checking = {} /\ AskedFor = {} /\ Called = 0 /\ sequence = 0  BY NoneOwned DEF SyncInit, Checking, AskedFor, Watched, Called
  <2>2. RoomInv  BY <2>0, <2>1, FS_EmptySet DEF RoomInv
  <2>3. NumbersInv  BY <2>0, NoneWritten DEF SyncInit, NumbersInv
  <2> QED BY <2>2, <2>3
<1>2. LoopInv /\ LoopInv' /\ HeldJobs /\ HeldJobs' /\ EventsInv /\ RoomInv /\ NumbersInv /\ [SyncNext]_syncVars => RoomInv' /\ NumbersInv'
  BY RoomStays, NumbersStay
<1>3. LoopInv /\ HeldJobs /\ EventsInv /\ RoomInv /\ NumbersInv => SyncTypeOK
  <2> SUFFICES ASSUME LoopInv, HeldJobs, EventsInv, RoomInv, NumbersInv PROVE SyncTypeOK  OBVIOUS
  <2>0. /\ generation \in Nat /\ sequence \in Nat /\ mail \in Nat /\ {MaxGen, MaxSeq, MaxMail, QueueCap} \subseteq Nat
        /\ watches \in [Accounts -> WatchRecord] /\ loops \in [1..MaxGen -> LoopRecord] /\ operation \in OperationRecord
        /\ warmJobs \in [1..MaxSeq -> JobRecord]
    BY SyncAssumption DEF LoopInv, TableType, HeldJobs
  <2>1. NoWatch.config \in Configs /\ NoOperation.account \in Accounts  BY SyncAssumption DEF NoWatch, NoOperation
  <2>2. sequence <= MaxSeq  BY <2>0, RoomSizes DEF RoomInv
  <2>3. generation \in 0..MaxGen /\ sequence \in 0..MaxSeq /\ mail \in 1..MaxMail /\ Len(events) <= QueueCap
    BY <2>0, <2>2 DEF NumbersInv
  <2>4. ASSUME NEW a \in Accounts
        PROVE  watches[a] \in [gen : 0..MaxGen, config : Configs, checking : BOOLEAN, permit : BOOLEAN,
                               seq : 0..MaxSeq, print : 0..MaxMail, error : BOOLEAN, job : 0..MaxSeq]
    <3>1. watches[a] \in WatchRecord /\ watches[a].gen <= generation /\ watches[a].seq <= sequence /\ watches[a].print <= mail /\ watches[a].job <= sequence
      BY <2>0 DEF LoopInv, NewestInv, NumbersInv
    <3>2. watches[a].gen \in Nat /\ watches[a].seq \in Nat /\ watches[a].print \in Nat /\ watches[a].job \in Nat
      BY <3>1 DEF WatchRecord
    <3>3. watches[a].gen \in 0..MaxGen /\ watches[a].seq \in 0..MaxSeq /\ watches[a].print \in 0..MaxMail /\ watches[a].job \in 0..MaxSeq
      BY <2>3, <2>0, <3>1, <3>2
    <3>4. watches[a].config \in Configs  BY <2>1, <3>1 DEF WatchRecord
    <3> QED BY <3>1, <3>3, <3>4 DEF WatchRecord
  <2>5. ASSUME NEW g \in 1..MaxGen
        PROVE  loops[g] \in [account : Accounts, config : Configs, aborted : BOOLEAN, result : 0..MaxMail,
                              at : {"start", "check", "result", "sleep", "ended"}]
    <3>1. loops[g] \in LoopRecord /\ loops[g].result <= mail  BY <2>0 DEF NumbersInv
    <3>2. loops[g].result \in Nat  BY <3>1 DEF LoopRecord
    <3>3. loops[g].result \in 0..MaxMail  BY <2>3, <2>0, <3>1, <3>2
    <3> QED BY <2>1, <3>1, <3>3 DEF LoopRecord
  <2>6. ASSUME NEW s \in 1..MaxSeq
        PROVE  warmJobs[s] \in [account : Accounts, print : 0..MaxMail, live : BOOLEAN, complete : BOOLEAN,
                             task : {"run", "write", "done"}, read : 0..MaxMail, closure : BOOLEAN]
    <3>1. warmJobs[s] \in JobRecord /\ warmJobs[s].print <= mail /\ warmJobs[s].read <= mail  BY <2>0 DEF NumbersInv
    <3>2. warmJobs[s].print \in Nat /\ warmJobs[s].read \in Nat  BY <3>1 DEF JobRecord
    <3>3. warmJobs[s].print \in 0..MaxMail /\ warmJobs[s].read \in 0..MaxMail  BY <2>3, <2>0, <3>1, <3>2
    <3> QED BY <2>1, <3>1, <3>3 DEF JobRecord
  <2>7. operation \in [kind : {"none", "watch", "unwatch", "shutdown"}, account : Accounts, config : Configs, old : SUBSET (1..MaxGen)]
    BY <2>0, <2>1 DEF OperationRecord
  <2> QED BY <2>0, <2>3, <2>4, <2>5, <2>6, <2>7 DEF SyncTypeOK
<1> QED BY <1>1, <1>2, <1>3, LoopStarts, LoopStays, LateStarts, JobsHold, EventSteps, PTL DEF SyncSafety

------------------------------------
(* The query cache. *)

StoreRecord == [owner : Owners \cup {NoOwner}, pages : [Keys -> Nat], ui : Nat]
StateRecord == [in : BOOLEAN, store : StoreRecord, gen : Nat, loaded : BOOLEAN, dirty : BOOLEAN, saving : BOOLEAN]
FetchRecord == [at : {"none", "write", "written", "orphan"}, next : StoreRecord]
LastRecord == [ui : Nat, window : Windows \cup {NoOwner}, restored : Windows \cup {NoOwner}]
CacheType == /\ serial \in Nat /\ changes \in Nat
             /\ mem \in [QAccounts -> StateRecord] /\ disk \in [QAccounts -> StoreRecord]
             /\ fetch \in [QAccounts -> FetchRecord] /\ last \in [QAccounts -> LastRecord]
             /\ held \in [Windows -> [QAccounts -> Nat]]
\* No copy of a store is newer than the last change that was accepted.
NoneNewer(a) == /\ disk[a].ui <= last[a].ui /\ mem[a].store.ui <= last[a].ui /\ last[a].ui <= changes
                /\ fetch[a].at # "none" => fetch[a].next.ui <= last[a].ui
\* What a store in memory is, and what the prefetch that holds its lock took from it.
Safe(a) == /\ mem[a].loaded => mem[a].in
           /\ mem[a].dirty => mem[a].loaded
           /\ a \notin overtaken =>
                /\ IF mem[a].loaded THEN mem[a].store.ui = last[a].ui /\ (mem[a].dirty \/ disk[a].ui = last[a].ui)
                                    ELSE disk[a].ui = last[a].ui
                /\ Locked(a) => mem[a].loaded /\ fetch[a].next.ui = last[a].ui
                /\ fetch[a].at = "written" => disk[a].ui = last[a].ui
\* A generation is given once, and the one in force to the window that restored the account last.
NewestHeld(a) == /\ mem[a].gen <= serial
                 /\ \A w \in Windows : /\ held[w][a] <= serial
                                       /\ held[w][a] # 0 /\ held[w][a] = mem[a].gen => last[a].restored = w
AccountInv(a) == NoneNewer(a) /\ Safe(a) /\ NewestHeld(a)
QueryInv == CacheType /\ \A a \in QAccounts : AccountInv(a)

LEMMA EmptyType == /\ EmptyStore \in StoreRecord /\ EmptyStore.ui = 0
                   /\ Absent \in StateRecord /\ Absent.store.ui = 0 /\ Absent.gen = 0 /\ ~Absent.loaded /\ ~Absent.dirty
                   /\ NoFetch \in FetchRecord /\ NoFetch.at = "none"
BY DEF EmptyStore, StoreRecord, Absent, StateRecord, NoFetch, FetchRecord

LEMMA NormalizedKeeps == ASSUME NEW s \in StoreRecord PROVE Normalized(s) \in StoreRecord /\ Normalized(s).ui = s.ui
<1> DEFINE f == [k \in Keys |-> IF Cardinality({j \in Keys : s.pages[j] > s.pages[k]}) < MaxPages THEN s.pages[k] ELSE 0]
<1>1. s.pages \in [Keys -> Nat]  BY DEF StoreRecord
<1>2. f \in [Keys -> Nat]  BY <1>1
<1>3. Normalized(s) = [s EXCEPT !.pages = f]  BY DEF Normalized
<1> HIDE DEF f
<1> QED BY <1>2, <1>3 DEF StoreRecord

LEMMA PutKeeps == ASSUME NEW s \in StoreRecord, NEW k \in Keys, NEW n \in Nat
                  PROVE  Put(s, k, n) \in StoreRecord /\ Put(s, k, n).ui = s.ui
<1>1. Put(s, k, n) = [s EXCEPT !.pages = [s.pages EXCEPT ![k] = n]]  BY DEF Put, StoreRecord
<1>2. s.pages \in [Keys -> Nat]  BY DEF StoreRecord
<1>3. [s.pages EXCEPT ![k] = n] \in [Keys -> Nat]  BY <1>2
<1> QED BY <1>1, <1>3 DEF StoreRecord

LEMMA EditsType == ASSUME NEW s \in StoreRecord, NEW n \in Nat, NEW t \in StoreEdits(s, n) PROVE t \in StoreRecord
<1>1. CASE \E k \in Keys : t = Put(s, k, n)  BY <1>1, PutKeeps
<1>2. ASSUME NEW o \in Owners, t = [s EXCEPT !.owner = o] PROVE t \in StoreRecord  BY <1>2 DEF StoreRecord
<1>3. ASSUME NEW o \in Owners, t = Bound(s, o) PROVE t \in StoreRecord
  <2>1. CASE t = [s EXCEPT !.owner = o]  BY <1>2, <2>1
  <2>2. CASE t = [EmptyStore EXCEPT !.owner = o]  BY <2>2, EmptyType DEF StoreRecord
  <2> QED BY <1>3, <2>1, <2>2 DEF Bound
<1>4. ASSUME NEW ks \in SUBSET Keys, t = Invalidated(s, ks) PROVE t \in StoreRecord
  <2> DEFINE f == [k \in Keys |-> IF ks = {} \/ k \in ks THEN 0 ELSE s.pages[k]]
  <2>1. s.pages \in [Keys -> Nat]  BY DEF StoreRecord
  <2>2. f \in [Keys -> Nat]  BY <2>1
  <2>3. t = [s EXCEPT !.pages = f]  BY <1>4 DEF Invalidated
  <2> HIDE DEF f
  <2> QED BY <2>2, <2>3 DEF StoreRecord
<1> QED BY <1>1, <1>2, <1>3, <1>4, EmptyType DEF StoreEdits

LEMMA LoadedType == ASSUME QueryInv, NEW a \in QAccounts
                    PROVE  /\ Loaded(a) \in StoreRecord
                           /\ Loaded(a).ui = IF mem[a].loaded THEN mem[a].store.ui ELSE disk[a].ui
<1>1. mem[a] \in StateRecord /\ disk[a] \in StoreRecord  BY DEF QueryInv, CacheType
<1>2. mem[a].store \in StoreRecord /\ disk[a].ui \in Nat  BY <1>1 DEF StateRecord, StoreRecord
<1>3. CASE mem[a].loaded  BY <1>2, <1>3 DEF Loaded
<1>4. CASE ~mem[a].loaded /\ Foreign(a, disk[a])
  <2>1. Loaded(a) = [EmptyStore EXCEPT !.ui = disk[a].ui]  BY <1>4 DEF Loaded
  <2> QED BY <1>2, <1>4, <2>1, EmptyType DEF StoreRecord
<1>5. CASE ~mem[a].loaded /\ ~Foreign(a, disk[a])  BY <1>1, <1>5 DEF Loaded
<1> QED BY <1>3, <1>4, <1>5

LEMMA EnteredMaps ==
    ASSUME QueryInv, NEW a \in QAccounts, NEW map \in Entered(a)
    PROVE  /\ map \in [QAccounts -> StateRecord]
           /\ map[a] = mem[a] \/ (~mem[a].in /\ map[a] = [Absent EXCEPT !.in = TRUE])
           /\ map[a].in
           /\ \A b \in QAccounts \ {a} : map[b] = mem[b] \/ (Evictable(b) /\ map[b] = Absent)
<1>0. mem \in [QAccounts -> StateRecord]  BY DEF QueryInv, CacheType
<1>1. CASE mem[a].in  BY <1>0, <1>1 DEF Entered
<1>2. CASE ~mem[a].in
  <2> DEFINE e == [Absent EXCEPT !.in = TRUE]
             new == [mem EXCEPT ![a] = e]
  <2>1. e \in StateRecord /\ e.in  BY EmptyType DEF StateRecord
  <2> HIDE DEF e
  <2>2. new \in [QAccounts -> StateRecord] /\ new[a] = e /\ \A b \in QAccounts \ {a} : new[b] = mem[b]  BY <1>0, <2>1
  <2>3. map = new \/ \E b \in QAccounts : Evictable(b) /\ map = [new EXCEPT ![b] = Absent]  BY <1>2 DEF Entered, e
  <2> HIDE DEF new
  <2>4. CASE map = new  BY <1>2, <2>1, <2>2, <2>4 DEF e
  <2>5. ASSUME NEW b \in QAccounts, Evictable(b), map = [new EXCEPT ![b] = Absent]
        PROVE  /\ map \in [QAccounts -> StateRecord]
               /\ ~mem[a].in /\ map[a] = e /\ map[a].in
               /\ \A c \in QAccounts \ {a} : map[c] = mem[c] \/ (Evictable(c) /\ map[c] = Absent)
    <3>1. b # a  BY <1>2, <2>5 DEF Evictable
    <3>2. map \in [QAccounts -> StateRecord]  BY <2>2, <2>5, EmptyType
    <3>3. map[a] = e  BY <2>2, <2>5, <3>1
    <3>4. \A c \in QAccounts \ {a} : map[c] = mem[c] \/ (Evictable(c) /\ map[c] = Absent)  BY <2>2, <2>5, <3>1
    <3> QED BY <1>2, <2>1, <3>2, <3>3, <3>4
  <2> QED BY <2>3, <2>4, <2>5 DEF e
<1> QED BY <1>1, <1>2

\* An account that a step leaves alone, or takes out of memory because it is idle and saved.
LEMMA OthersKeep ==
    ASSUME QueryInv, NEW b \in QAccounts, mem'[b] = mem[b] \/ (Evictable(b) /\ mem'[b] = Absent),
           disk'[b] = disk[b], fetch'[b] = fetch[b], last'[b] = last[b], b \in overtaken => b \in overtaken',
           \A w \in Windows : held'[w][b] = held[w][b],
           changes' \in Nat, changes <= changes', serial' \in Nat, serial <= serial'
    PROVE  AccountInv(b)'
<1>0. AccountInv(b)  BY DEF QueryInv
<1>1. mem[b] \in StateRecord /\ disk[b] \in StoreRecord /\ last[b] \in LastRecord /\ changes \in Nat /\ serial \in Nat
  BY DEF QueryInv, CacheType
<1>2. last[b].ui \in Nat /\ mem[b].gen \in Nat /\ disk[b].ui \in Nat  BY <1>1 DEF LastRecord, StateRecord, StoreRecord
<1>3. \A w \in Windows : held[w][b] \in Nat  BY DEF QueryInv, CacheType
<1>4. NoneNewer(b)'  BY <1>0, <1>1, <1>2, EmptyType DEF AccountInv, NoneNewer
<1>5. Safe(b)'  BY <1>0, EmptyType DEF AccountInv, Safe, Evictable, Locked
<1>6. NewestHeld(b)'  BY <1>0, <1>1, <1>2, <1>3, EmptyType DEF AccountInv, NewestHeld
<1> QED BY <1>4, <1>5, <1>6 DEF AccountInv

LEMMA RestoreKeeps ==
    ASSUME QueryInv, NEW w \in Windows, NEW a \in QAccounts, QueryRestore(w, a)
    PROVE  QueryInv'
<1>1. PICK map \in Entered(a) : mem' = [map EXCEPT ![a].store = Loaded(a), ![a].loaded = TRUE, ![a].gen = serial + 1]
  BY DEF QueryRestore
<1>2. /\ map \in [QAccounts -> StateRecord]
      /\ map[a] = mem[a] \/ (~mem[a].in /\ map[a] = [Absent EXCEPT !.in = TRUE])
      /\ map[a].in
      /\ \A b \in QAccounts \ {a} : map[b] = mem[b] \/ (Evictable(b) /\ map[b] = Absent)
  BY EnteredMaps
<1>3. /\ Loaded(a) \in StoreRecord
      /\ Loaded(a).ui = IF mem[a].loaded THEN mem[a].store.ui ELSE disk[a].ui
  BY LoadedType
<1>4. serial \in Nat /\ changes \in Nat /\ held \in [Windows -> [QAccounts -> Nat]] /\ last \in [QAccounts -> LastRecord]
  BY DEF QueryInv, CacheType
<1>5. mem'[a] = [map[a] EXCEPT !.store = Loaded(a), !.loaded = TRUE, !.gen = serial + 1] /\ map[a] \in StateRecord  BY <1>1, <1>2
<1>6. mem'[a] \in StateRecord
  <2>1. PICK t \in StoreRecord : t = Loaded(a)  BY <1>3
  <2>2. PICK n \in Nat : n = serial + 1  BY <1>4
  <2>3. mem'[a] = [map[a] EXCEPT !.store = t, !.loaded = TRUE, !.gen = n] /\ map[a] \in StateRecord  BY <1>5, <2>1, <2>2
  <2> QED BY <2>3 DEF StateRecord
<1>7. mem'[a].store = Loaded(a) /\ mem'[a].loaded /\ mem'[a].gen = serial + 1 /\ mem'[a].in = map[a].in /\ mem'[a].dirty = map[a].dirty
  BY <1>5 DEF StateRecord
<1>8. mem' \in [QAccounts -> StateRecord] /\ \A b \in QAccounts \ {a} : mem'[b] = mem[b] \/ (Evictable(b) /\ mem'[b] = Absent)
  BY <1>1, <1>2, <1>6
<1>9. /\ held' \in [Windows -> [QAccounts -> Nat]] /\ held'[w][a] = serial + 1
      /\ \A v \in Windows, b \in QAccounts : (v # w \/ b # a) => held'[v][b] = held[v][b]
  BY <1>4 DEF QueryRestore
<1>10. last'[a] = [last[a] EXCEPT !.restored = w] /\ \A b \in QAccounts \ {a} : last'[b] = last[b]  BY <1>4 DEF QueryRestore
<1>11. last'[a] \in LastRecord /\ last'[a].ui = last[a].ui /\ last'[a].restored = w /\ last[a].ui \in Nat
  BY <1>4, <1>10 DEF LastRecord
<1>12. last' \in [QAccounts -> LastRecord]  BY <1>4, <1>11 DEF QueryRestore
<1>13. CacheType'  BY <1>4, <1>8, <1>9, <1>12 DEF QueryRestore, QueryInv, CacheType
<1>14. ASSUME NEW b \in QAccounts \ {a} PROVE AccountInv(b)'  BY <1>4, <1>8, <1>9, <1>10, OthersKeep DEF QueryRestore
<1>15. AccountInv(a)'
  <2>0. AccountInv(a)  BY DEF QueryInv
  <2>1. NoneNewer(a)'  BY <2>0, <1>3, <1>7, <1>11 DEF AccountInv, NoneNewer, QueryRestore
  <2>2. mem[a].dirty => map[a] = mem[a]  BY <1>2, <2>0 DEF AccountInv, Safe
  <2>3. Safe(a)'  BY <2>0, <2>2, <1>2, <1>3, <1>7, <1>11 DEF AccountInv, Safe, Locked, QueryRestore
  <2>4. NewestHeld(a)'
    <3>1. \A v \in Windows : held[v][a] \in Nat /\ held[v][a] <= serial  BY <2>0, <1>4 DEF AccountInv, NewestHeld
    <3>2. serial' = serial + 1  BY DEF QueryRestore
    <3> QED BY <3>1, <3>2, <1>4, <1>7, <1>9, <1>11 DEF NewestHeld
  <2> QED BY <2>1, <2>3, <2>4 DEF AccountInv
<1> QED BY <1>13, <1>14, <1>15 DEF QueryInv

LEMMA RefusedKeeps ==
    ASSUME QueryInv, NEW w \in Windows, NEW a \in QAccounts, Refused(w, a)
    PROVE  QueryInv'
<1>1. /\ mem' \in [QAccounts -> StateRecord]
      /\ ~mem[a].in /\ (mem'[a] = mem[a] \/ mem'[a] = [Absent EXCEPT !.in = TRUE])
      /\ \A b \in QAccounts \ {a} : mem'[b] = mem[b] \/ (Evictable(b) /\ mem'[b] = Absent)
  BY EnteredMaps DEF Refused
<1>2. UNCHANGED <<disk, serial, changes, held, fetch, last, overtaken>>  BY DEF Refused
<1>3. CacheType /\ CacheType'  BY <1>1, <1>2 DEF QueryInv, CacheType
<1>4. ASSUME NEW b \in QAccounts \ {a} PROVE AccountInv(b)'
  <2>1. changes \in Nat /\ serial \in Nat  BY <1>3 DEF CacheType
  <2> QED BY <1>1, <1>2, <2>1, OthersKeep
<1>5. CASE mem'[a] = mem[a]  BY <1>2, <1>3, <1>4, <1>5 DEF QueryInv, AccountInv, NoneNewer, Safe, NewestHeld, Locked
<1>6. CASE mem'[a] = [Absent EXCEPT !.in = TRUE]
  <2>1. mem'[a].store.ui = 0 /\ mem'[a].gen = 0 /\ ~mem'[a].loaded /\ ~mem'[a].dirty  BY <1>6, EmptyType DEF StateRecord
  <2>2. AccountInv(a) /\ last[a] \in LastRecord /\ held \in [Windows -> [QAccounts -> Nat]] /\ serial \in Nat
    BY <1>3 DEF QueryInv, CacheType
  <2>3. NoneNewer(a)'  BY <1>2, <2>1, <2>2 DEF AccountInv, NoneNewer, LastRecord
  <2>4. Safe(a)'  BY <1>1, <1>2, <2>1, <2>2 DEF AccountInv, Safe, Locked
  <2>5. NewestHeld(a)'  BY <1>2, <2>1, <2>2 DEF AccountInv, NewestHeld
  <2> QED BY <1>3, <1>4, <2>3, <2>4, <2>5 DEF QueryInv, AccountInv
<1> QED BY <1>1, <1>5, <1>6

LEMMA ChangeKeeps ==
    ASSUME QueryInv, NEW w \in Windows, NEW a \in QAccounts, QueryChange(w, a)
    PROVE  QueryInv'
<1>1. CacheType /\ AccountInv(a)  BY DEF QueryInv
<1>2. mem[a] \in StateRecord /\ mem[a].store \in StoreRecord /\ changes + 1 \in Nat  BY <1>1 DEF CacheType, StateRecord
<1>3. PICK e \in StoreEdits(mem[a].store, changes + 1) :
        mem' = [mem EXCEPT ![a].store = [Normalized(e) EXCEPT !.ui = changes + 1], ![a].dirty = TRUE, ![a].saving = TRUE]
  BY DEF QueryChange
<1>4. Normalized(e) \in StoreRecord  BY <1>2, <1>3, EditsType, NormalizedKeeps
<1>5. [Normalized(e) EXCEPT !.ui = changes + 1] \in StoreRecord /\ [Normalized(e) EXCEPT !.ui = changes + 1].ui = changes + 1
  BY <1>2, <1>4 DEF StoreRecord
<1>6. PICK t \in StoreRecord : t.ui = changes + 1 /\ mem' = [mem EXCEPT ![a].store = t, ![a].dirty = TRUE, ![a].saving = TRUE]
  BY <1>3, <1>5
<1>7. mem'[a] = [mem[a] EXCEPT !.store = t, !.dirty = TRUE, !.saving = TRUE] /\ \A b \in QAccounts \ {a} : mem'[b] = mem[b]
  BY <1>1, <1>6 DEF CacheType
<1>8. mem'[a] \in StateRecord  BY <1>2, <1>7 DEF StateRecord
<1>9. mem'[a].store = t /\ mem'[a].dirty /\ mem'[a].loaded = mem[a].loaded /\ mem'[a].in = mem[a].in /\ mem'[a].gen = mem[a].gen
  BY <1>2, <1>7 DEF StateRecord
<1>10. last' = [last EXCEPT ![a] = [last[a] EXCEPT !.ui = changes + 1, !.window = w]]  BY DEF QueryChange
<1>11. last'[a] = [last[a] EXCEPT !.ui = changes + 1, !.window = w] /\ last[a] \in LastRecord /\ \A b \in QAccounts \ {a} : last'[b] = last[b]
  BY <1>1, <1>10 DEF CacheType
<1>12. last'[a] \in LastRecord /\ last'[a].ui = changes + 1 /\ last'[a].restored = last[a].restored  BY <1>2, <1>11 DEF LastRecord
<1>13. UNCHANGED <<disk, serial, held, fetch, overtaken>> /\ changes' = changes + 1  BY DEF QueryChange
<1>14. mem' \in [QAccounts -> StateRecord] /\ last' \in [QAccounts -> LastRecord]  BY <1>1, <1>6, <1>8, <1>10, <1>12 DEF CacheType
<1>15. CacheType'  BY <1>1, <1>2, <1>13, <1>14 DEF CacheType
<1>16. ASSUME NEW b \in QAccounts \ {a} PROVE AccountInv(b)'  BY <1>1, <1>2, <1>7, <1>11, <1>13, OthersKeep DEF CacheType
<1>17. ~Locked(a) /\ mem[a].loaded  BY DEF QueryChange, Accepts
<1>18. NoneNewer(a)'
  <2>1. disk[a].ui \in Nat /\ fetch[a].next.ui \in Nat /\ changes \in Nat /\ last[a].ui \in Nat
    BY <1>1 DEF CacheType, FetchRecord, StoreRecord, LastRecord
  <2> QED BY <1>1, <1>2, <1>6, <1>9, <1>12, <1>13, <2>1 DEF AccountInv, NoneNewer
<1>19. Safe(a)'  BY <1>1, <1>6, <1>9, <1>12, <1>13, <1>17 DEF AccountInv, Safe, Locked
<1>20. NewestHeld(a)'  BY <1>1, <1>9, <1>12, <1>13 DEF AccountInv, NewestHeld
<1> QED BY <1>15, <1>16, <1>18, <1>19, <1>20 DEF QueryInv, AccountInv

LEMMA SavedType == ASSUME NEW r \in StateRecord, NEW d \in BOOLEAN, NEW k \in BOOLEAN
                   PROVE  /\ [r EXCEPT !.dirty = d, !.saving = k] \in StateRecord
                          /\ [r EXCEPT !.dirty = d, !.saving = k].dirty = d
BY Zenon DEF StateRecord

\* The saver and the flush: one account's file comes to its store, or the write fails and the store stays dirty.
LEMMA PersistKeeps ==
    ASSUME QueryInv, NEW a \in QAccounts, ~Locked(a), NEW ok \in BOOLEAN, Persist(a, ok), NEW keep \in BOOLEAN,
           mem' = [mem EXCEPT ![a] = [mem[a] EXCEPT !.dirty = Saved(a, ok), !.saving = keep]],
           UNCHANGED <<serial, changes, held, fetch, last, overtaken>>
    PROVE  QueryInv'
<1>1. CacheType /\ AccountInv(a)  BY DEF QueryInv
<1>2. mem[a] \in StateRecord /\ mem[a].store \in StoreRecord  BY <1>1 DEF CacheType, StateRecord
<1>3. PICK d \in BOOLEAN : d = Saved(a, ok)  BY <1>2 DEF Saved, StateRecord
<1>4. mem'[a] = [mem[a] EXCEPT !.dirty = d, !.saving = keep] /\ \A b \in QAccounts \ {a} : mem'[b] = mem[b]
  BY <1>1, <1>3 DEF CacheType
<1>5a. mem'[a] \in StateRecord /\ mem'[a].dirty = d
  <2>1. [mem[a] EXCEPT !.dirty = d, !.saving = keep] \in StateRecord /\ [mem[a] EXCEPT !.dirty = d, !.saving = keep].dirty = d
    BY <1>2, SavedType, Zenon
  <2> QED BY <1>4, <2>1, Zenon
<1>5. /\ mem'[a] \in StateRecord /\ mem'[a].dirty = d
      /\ mem'[a].store = mem[a].store /\ mem'[a].loaded = mem[a].loaded /\ mem'[a].in = mem[a].in /\ mem'[a].gen = mem[a].gen
  BY <1>2, <1>4, <1>5a DEF StateRecord
<1>6. mem' \in [QAccounts -> StateRecord]  BY <1>1, <1>5 DEF CacheType
<1>7. disk' \in [QAccounts -> StoreRecord] /\ \A b \in QAccounts \ {a} : disk'[b] = disk[b]  BY <1>1, <1>2 DEF CacheType, Persist
<1>8. IF mem[a].dirty /\ ok THEN disk'[a] = mem[a].store /\ ~d ELSE disk'[a] = disk[a] /\ d = mem[a].dirty
  BY <1>1, <1>2, <1>3 DEF CacheType, Persist, Saved, StateRecord
<1>9. CacheType'  BY <1>1, <1>6, <1>7 DEF CacheType
<1>10. ASSUME NEW b \in QAccounts \ {a} PROVE AccountInv(b)'  BY <1>1, <1>4, <1>7, OthersKeep DEF CacheType
<1>11. NoneNewer(a)'  BY <1>1, <1>5, <1>8 DEF AccountInv, NoneNewer
<1>12. Safe(a)'  BY <1>1, <1>5, <1>8 DEF AccountInv, Safe, Locked
<1>13. NewestHeld(a)'  BY <1>1, <1>5 DEF AccountInv, NewestHeld
<1> QED BY <1>9, <1>10, <1>11, <1>12, <1>13 DEF QueryInv, AccountInv

LEMMA SaveSteps ==
    ASSUME QueryInv, NEW a \in QAccounts, SaverRuns(a) \/ \E w \in Windows : QueryFlush(w, a)
    PROVE  QueryInv'
<1>1. CASE SaverRuns(a)
  <2>1. PICK ok \in BOOLEAN : Persist(a, ok) /\ mem' = [mem EXCEPT ![a].dirty = Saved(a, ok), ![a].saving = FALSE]
    BY <1>1 DEF SaverRuns
  <2>2. ~Locked(a) /\ UNCHANGED <<serial, changes, held, fetch, last, overtaken>>  BY <1>1 DEF SaverRuns
  <2>3. PICK k \in BOOLEAN : k = FALSE  OBVIOUS
  <2>4. mem' = [mem EXCEPT ![a] = [mem[a] EXCEPT !.dirty = Saved(a, ok), !.saving = k]]  BY <2>1, <2>3
  <2> QED BY <2>1, <2>2, <2>4, PersistKeeps
<1>2. CASE \E w \in Windows : QueryFlush(w, a)
  <2>1. PICK w \in Windows : QueryFlush(w, a)  BY <1>2
  <2>2. PICK ok \in BOOLEAN : Persist(a, ok) /\ mem' = [mem EXCEPT ![a].dirty = Saved(a, ok)]  BY <2>1 DEF QueryFlush
  <2>3. ~Locked(a) /\ UNCHANGED <<serial, changes, held, fetch, last, overtaken>>  BY <2>1 DEF QueryFlush
  <2>4. mem[a] \in StateRecord  BY DEF QueryInv, CacheType
  <2>5. PICK k \in BOOLEAN : k = mem[a].saving  BY <2>4 DEF StateRecord
  <2>6. [mem[a] EXCEPT !.dirty = Saved(a, ok), !.saving = mem[a].saving] = [mem[a] EXCEPT !.dirty = Saved(a, ok)]
    BY <2>4 DEF StateRecord
  <2>7. mem' = [mem EXCEPT ![a] = [mem[a] EXCEPT !.dirty = Saved(a, ok), !.saving = k]]  BY <2>2, <2>5, <2>6
  <2> QED BY <2>2, <2>3, <2>7, PersistKeeps
<1> QED BY <1>1, <1>2

LEMMA FetchType == ASSUME NEW r \in FetchRecord, NEW at \in {"none", "write", "written", "orphan"}
                   PROVE  /\ [r EXCEPT !.at = at] \in FetchRecord
                          /\ [r EXCEPT !.at = at].at = at /\ [r EXCEPT !.at = at].next = r.next
BY DEF FetchRecord

LEMMA PrefetchBeginKeeps ==
    ASSUME QueryInv, NEW a \in QAccounts, PrefetchBegin(a)
    PROVE  QueryInv'
<1>1. PICK map \in Entered(a), k \in Keys :
        /\ mem' = [map EXCEPT ![a].store = Loaded(a), ![a].loaded = TRUE]
        /\ fetch' = [fetch EXCEPT ![a] = [at |-> "write", next |-> Normalized(Put(Loaded(a), k, changes + 1))]]
  BY DEF PrefetchBegin
<1>2. /\ map \in [QAccounts -> StateRecord]
      /\ map[a] = mem[a] \/ (~mem[a].in /\ map[a] = [Absent EXCEPT !.in = TRUE])
      /\ map[a].in
      /\ \A b \in QAccounts \ {a} : map[b] = mem[b] \/ (Evictable(b) /\ map[b] = Absent)
  BY EnteredMaps
<1>3. PICK t \in StoreRecord : t = Loaded(a) /\ t.ui = IF mem[a].loaded THEN mem[a].store.ui ELSE disk[a].ui  BY LoadedType
<1>4. CacheType /\ AccountInv(a)  BY DEF QueryInv
<1>4a. changes \in Nat /\ serial \in Nat /\ changes + 1 \in Nat  BY <1>4 DEF CacheType
<1>5. mem'[a] = [map[a] EXCEPT !.store = t, !.loaded = TRUE] /\ map[a] \in StateRecord  BY <1>1, <1>2, <1>3
<1>6. mem'[a] \in StateRecord  BY <1>5 DEF StateRecord
<1>7. mem'[a].store = t /\ mem'[a].loaded /\ mem'[a].gen = map[a].gen /\ mem'[a].in = map[a].in /\ mem'[a].dirty = map[a].dirty
  BY <1>5 DEF StateRecord
<1>8. mem' \in [QAccounts -> StateRecord] /\ \A b \in QAccounts \ {a} : mem'[b] = mem[b] \/ (Evictable(b) /\ mem'[b] = Absent)
  BY <1>1, <1>2, <1>6
<1>9. PICK n \in StoreRecord : n = Normalized(Put(Loaded(a), k, changes + 1)) /\ n.ui = t.ui
  BY <1>3, <1>4a, PutKeeps, NormalizedKeeps
<1>10. fetch'[a] = [at |-> "write", next |-> n] /\ \A b \in QAccounts \ {a} : fetch'[b] = fetch[b]
  BY <1>1, <1>4, <1>9 DEF CacheType
<1>11. fetch' \in [QAccounts -> FetchRecord]  BY <1>1, <1>4, <1>9, <1>10 DEF CacheType, FetchRecord
<1>12. UNCHANGED <<disk, serial, held, last, overtaken>> /\ changes' = changes + 1 /\ fetch[a].at = "none"  BY DEF PrefetchBegin
<1>13. CacheType'  BY <1>4, <1>4a, <1>8, <1>11, <1>12 DEF CacheType
<1>14. ASSUME NEW b \in QAccounts \ {a} PROVE AccountInv(b)'  BY <1>4a, <1>8, <1>10, <1>12, OthersKeep
<1>15. NoneNewer(a)'
  <2>1. last[a].ui \in Nat  BY <1>4 DEF CacheType, LastRecord
  <2> QED BY <1>3, <1>4, <1>4a, <1>7, <1>9, <1>10, <1>12, <2>1 DEF AccountInv, NoneNewer
<1>16. Safe(a)'
  <2>1. mem[a].dirty => map[a] = mem[a]  BY <1>2, <1>4 DEF AccountInv, Safe
  <2> QED BY <1>2, <1>3, <1>4, <1>7, <1>9, <1>10, <1>12, <2>1 DEF AccountInv, Safe
<1>17. NewestHeld(a)'
  <2>1. mem'[a].gen = mem[a].gen \/ mem'[a].gen = 0  BY <1>2, <1>7, EmptyType DEF StateRecord
  <2> QED BY <1>4, <1>4a, <1>12, <2>1 DEF AccountInv, NewestHeld
<1> QED BY <1>13, <1>14, <1>15, <1>16, <1>17 DEF QueryInv, AccountInv

LEMMA PrefetchSteps ==
    ASSUME QueryInv, NEW a \in QAccounts,
           \/ PrefetchWrites(a) \/ PrefetchPublishes(a) \/ PrefetchCancelled(a) \/ PrefetchTimesOut(a) \/ FlagFalls(a)
    PROVE  QueryInv'
<1>1. CacheType /\ AccountInv(a) /\ fetch[a] \in FetchRecord /\ fetch[a].next \in StoreRecord /\ mem[a] \in StateRecord
  BY DEF QueryInv, CacheType, FetchRecord
<1>1a. /\ changes \in Nat /\ serial \in Nat /\ last[a].ui \in Nat /\ disk[a].ui \in Nat /\ fetch[a].next.ui \in Nat
       /\ mem[a].store.ui \in Nat
  BY <1>1 DEF CacheType, StateRecord, StoreRecord, LastRecord
<1>2. UNCHANGED <<serial, changes, held, last>>
  BY DEF PrefetchWrites, PrefetchPublishes, PrefetchCancelled, PrefetchTimesOut, FlagFalls
<1>3. ASSUME NEW at \in {"none", "write", "written", "orphan"}, NEW n \in StoreRecord,
             fetch' = [fetch EXCEPT ![a] = [at |-> at, next |-> n]]
      PROVE  /\ fetch' \in [QAccounts -> FetchRecord] /\ fetch'[a].at = at /\ fetch'[a].next = n
             /\ \A b \in QAccounts \ {a} : fetch'[b] = fetch[b]
  BY <1>1, <1>3 DEF CacheType, FetchRecord
<1>4. CASE PrefetchWrites(a)
  <2>1. disk' = [disk EXCEPT ![a] = fetch[a].next] /\ mem' = mem  BY <1>4 DEF PrefetchWrites
  <2>2. disk' \in [QAccounts -> StoreRecord] /\ disk'[a] = fetch[a].next /\ \A b \in QAccounts \ {a} : disk'[b] = disk[b]
    BY <1>1, <2>1 DEF CacheType
  <2>3. /\ fetch' \in [QAccounts -> FetchRecord]
        /\ \/ fetch[a].at = "write" /\ fetch'[a].at = "written" /\ fetch'[a].next = fetch[a].next
           \/ fetch[a].at = "orphan" /\ fetch'[a].at = "none"
        /\ \A b \in QAccounts \ {a} : fetch'[b] = fetch[b]
    <3>1. CASE fetch[a].at = "write"
      <4>1. fetch' = [fetch EXCEPT ![a] = [fetch[a] EXCEPT !.at = "written"]]  BY <1>4, <3>1 DEF PrefetchWrites
      <4> QED BY <1>1, <3>1, <4>1, FetchType DEF CacheType
    <3>2. CASE fetch[a].at = "orphan"
      <4>1. fetch' = [fetch EXCEPT ![a] = NoFetch]  BY <1>4, <3>2 DEF PrefetchWrites
      <4> QED BY <1>1, <3>2, <4>1, EmptyType DEF CacheType
    <3> QED BY <1>4, <3>1, <3>2 DEF PrefetchWrites
  <2>4. overtaken \subseteq overtaken' /\ (a \notin overtaken' => disk[a].ui <= fetch[a].next.ui)  BY <1>1a, <1>4 DEF PrefetchWrites
  <2>5. CacheType'  BY <1>1, <1>2, <2>1, <2>2, <2>3 DEF CacheType
  <2>6. ASSUME NEW b \in QAccounts \ {a} PROVE AccountInv(b)'  BY <1>1a, <1>2, <2>1, <2>2, <2>3, <2>4, OthersKeep
  <2>7. NoneNewer(a)'  BY <1>1, <1>1a, <1>2, <2>1, <2>2, <2>3 DEF AccountInv, NoneNewer
  <2>8. Safe(a)'  BY <1>1, <1>1a, <1>2, <2>1, <2>2, <2>3, <2>4 DEF AccountInv, Safe, NoneNewer, Locked
  <2>9. NewestHeld(a)'  BY <1>1, <1>2, <2>1 DEF AccountInv, NewestHeld
  <2> QED BY <2>5, <2>6, <2>7, <2>8, <2>9 DEF QueryInv, AccountInv
<1>5. ASSUME fetch' = [fetch EXCEPT ![a] = NoFetch], UNCHANGED <<mem, disk, overtaken>> PROVE QueryInv'
  <2>1. fetch' \in [QAccounts -> FetchRecord] /\ fetch'[a].at = "none" /\ \A b \in QAccounts \ {a} : fetch'[b] = fetch[b]
    BY <1>1, <1>5, EmptyType DEF CacheType
  <2>2. CacheType'  BY <1>1, <1>2, <1>5, <2>1 DEF CacheType
  <2>3. ASSUME NEW b \in QAccounts \ {a} PROVE AccountInv(b)'  BY <1>1a, <1>2, <1>5, <2>1, OthersKeep
  <2>4. AccountInv(a)'  BY <1>1, <1>2, <1>5, <2>1 DEF AccountInv, NoneNewer, Safe, NewestHeld, Locked
  <2> QED BY <2>2, <2>3, <2>4 DEF QueryInv
<1>6. CASE PrefetchCancelled(a) \/ FlagFalls(a)  BY <1>5, <1>6 DEF PrefetchCancelled, FlagFalls
<1>7. CASE PrefetchTimesOut(a)
  <2>1. fetch' = [fetch EXCEPT ![a] = [fetch[a] EXCEPT !.at = "orphan"]] /\ UNCHANGED <<mem, disk, overtaken>> /\ fetch[a].at = "write"
    BY <1>7 DEF PrefetchTimesOut
  <2>2. /\ fetch' \in [QAccounts -> FetchRecord] /\ fetch'[a].at = "orphan" /\ fetch'[a].next = fetch[a].next
        /\ \A b \in QAccounts \ {a} : fetch'[b] = fetch[b]
    BY <1>1, <2>1, FetchType DEF CacheType
  <2>3. CacheType'  BY <1>1, <1>2, <2>1, <2>2 DEF CacheType
  <2>4. ASSUME NEW b \in QAccounts \ {a} PROVE AccountInv(b)'  BY <1>1a, <1>2, <2>1, <2>2, OthersKeep
  <2>5. AccountInv(a)'  BY <1>1, <1>2, <2>1, <2>2 DEF AccountInv, NoneNewer, Safe, NewestHeld, Locked
  <2> QED BY <2>3, <2>4, <2>5 DEF QueryInv
<1>8. CASE PrefetchPublishes(a)
  <2>1. PICK n \in StoreRecord : n = fetch[a].next  BY <1>1
  <2>2. mem' = [mem EXCEPT ![a] = [mem[a] EXCEPT !.store = n, !.dirty = FALSE]]  BY <1>8, <2>1 DEF PrefetchPublishes
  <2>3. mem'[a] = [mem[a] EXCEPT !.store = n, !.dirty = FALSE] /\ \A b \in QAccounts \ {a} : mem'[b] = mem[b]
    BY <1>1, <2>2 DEF CacheType
  <2>4. mem'[a] \in StateRecord  BY <1>1, <2>3 DEF StateRecord
  <2>5. /\ mem'[a].store = n /\ ~mem'[a].dirty /\ mem'[a].loaded = mem[a].loaded /\ mem'[a].in = mem[a].in
        /\ mem'[a].gen = mem[a].gen
    BY <1>1, <2>3 DEF StateRecord
  <2>6. fetch' = [fetch EXCEPT ![a] = NoFetch] /\ UNCHANGED <<disk, overtaken>> /\ fetch[a].at = "written"
    BY <1>8 DEF PrefetchPublishes
  <2>7. fetch' \in [QAccounts -> FetchRecord] /\ fetch'[a].at = "none" /\ \A b \in QAccounts \ {a} : fetch'[b] = fetch[b]
    BY <1>1, <2>6, EmptyType DEF CacheType
  <2>8. CacheType'  BY <1>1, <1>2, <2>2, <2>4, <2>6, <2>7 DEF CacheType
  <2>9. ASSUME NEW b \in QAccounts \ {a} PROVE AccountInv(b)'  BY <1>1a, <1>2, <2>3, <2>6, <2>7, OthersKeep
  <2>10. NoneNewer(a)'  BY <1>1, <1>2, <2>1, <2>5, <2>6, <2>7 DEF AccountInv, NoneNewer
  <2>11. Safe(a)'  BY <1>1, <1>2, <2>1, <2>5, <2>6, <2>7 DEF AccountInv, Safe, Locked
  <2>12. NewestHeld(a)'  BY <1>1, <1>2, <2>5 DEF AccountInv, NewestHeld
  <2> QED BY <2>8, <2>9, <2>10, <2>11, <2>12 DEF QueryInv, AccountInv
<1> QED BY <1>4, <1>6, <1>7, <1>8

LEMMA ShutdownKeeps ==
    ASSUME QueryInv, QueryShutdown
    PROVE  QueryInv'
<1>1. CacheType  BY DEF QueryInv
<1>2. PICK bad \in SUBSET {a \in QAccounts : mem[a].dirty} :
        /\ disk' = [a \in QAccounts |-> IF mem[a].dirty /\ a \notin bad THEN mem[a].store ELSE disk[a]]
        /\ last' = [a \in QAccounts |-> [last[a] EXCEPT !.ui = IF a \in bad THEN disk[a].ui ELSE @, !.restored = NoOwner]]
  BY DEF QueryShutdown
<1>3. /\ mem' = [a \in QAccounts |-> Absent] /\ held' = [w \in Windows |-> [a \in QAccounts |-> 0]]
      /\ UNCHANGED <<serial, changes, fetch, overtaken>> /\ \A a \in QAccounts : fetch[a].at = "none"
  BY DEF QueryShutdown
<1>4. ASSUME NEW a \in QAccounts
      PROVE  /\ disk'[a] \in StoreRecord /\ last'[a] \in LastRecord
             /\ AccountInv(a)'
  <2>1. AccountInv(a) /\ mem[a] \in StateRecord /\ disk[a] \in StoreRecord /\ last[a] \in LastRecord
    BY <1>1 DEF QueryInv, CacheType
  <2>2. /\ mem[a].store \in StoreRecord /\ disk[a].ui \in Nat /\ last[a].ui \in Nat /\ mem[a].store.ui \in Nat
        /\ changes \in Nat /\ serial \in Nat
    BY <1>1, <2>1 DEF StateRecord, StoreRecord, LastRecord, CacheType
  <2>3. disk'[a] = IF mem[a].dirty /\ a \notin bad THEN mem[a].store ELSE disk[a]  BY <1>2
  <2>4. PICK u \in Nat : u = IF a \in bad THEN disk[a].ui ELSE last[a].ui  BY <2>2
  <2>5. last'[a] = [last[a] EXCEPT !.ui = u, !.restored = NoOwner]  BY <1>2, <2>4
  <2>6. last'[a] \in LastRecord /\ last'[a].ui = u  BY <2>1, <2>5 DEF LastRecord
  <2>7. mem'[a] = Absent  BY <1>3
  <2>8. NoneNewer(a)'  BY <1>3, <2>1, <2>2, <2>3, <2>4, <2>6, <2>7, EmptyType DEF AccountInv, NoneNewer
  <2>9. a \in bad => mem[a].dirty  BY <1>2
  <2>10. Safe(a)'  BY <1>3, <2>1, <2>3, <2>4, <2>6, <2>7, <2>9, EmptyType DEF AccountInv, Safe, Locked
  <2>11. NewestHeld(a)'  BY <1>3, <2>2, <2>7, EmptyType DEF NewestHeld
  <2> QED BY <2>2, <2>1, <2>3, <2>6, <2>8, <2>10, <2>11 DEF AccountInv
<1>5. CacheType'  BY <1>1, <1>2, <1>3, <1>4, EmptyType DEF CacheType
<1> QED BY <1>4, <1>5 DEF QueryInv

LEMMA QueryStarts == QueryInit => QueryInv
<1> SUFFICES ASSUME QueryInit PROVE QueryInv  OBVIOUS
<1>1. CacheType  BY EmptyType DEF QueryInit, CacheType, LastRecord
<1>2. ASSUME NEW a \in QAccounts PROVE AccountInv(a)  BY EmptyType DEF QueryInit, AccountInv, NoneNewer, Safe, NewestHeld, Locked
<1> QED BY <1>1, <1>2 DEF QueryInv

LEMMA QuerySteps == QueryInv /\ [QueryNext]_queryVars => QueryInv'
<1> SUFFICES ASSUME QueryInv, [QueryNext]_queryVars PROVE QueryInv'  OBVIOUS
<1>1. CASE UNCHANGED queryVars  BY <1>1 DEF queryVars, QueryInv, CacheType, AccountInv, NoneNewer, Safe, NewestHeld, Locked
<1>2. ASSUME NEW w \in Windows, NEW a \in QAccounts,
             QueryRestore(w, a) \/ Refused(w, a) \/ QueryChange(w, a) \/ QueryFlush(w, a)
      PROVE  QueryInv'
  BY <1>2, RestoreKeeps, RefusedKeeps, ChangeKeeps, SaveSteps
<1>3. ASSUME NEW a \in QAccounts,
             \/ SaverRuns(a) \/ PrefetchBegin(a) \/ PrefetchWrites(a) \/ PrefetchPublishes(a)
             \/ PrefetchCancelled(a) \/ PrefetchTimesOut(a) \/ FlagFalls(a)
      PROVE  QueryInv'
  BY <1>3, SaveSteps, PrefetchBeginKeeps, PrefetchSteps
<1> QED BY <1>1, <1>2, <1>3, ShutdownKeeps DEF QueryNext

(* A change that was accepted is in memory or on disk, through evictions, failing writes and other windows. *)
THEOREM NoChangeIsLost == QuerySpec => []NoLostChange
<1>1. QueryInv => NoLostChange  BY DEF QueryInv, AccountInv, Safe, NoLostChange
<1> QED BY <1>1, QueryStarts, QuerySteps, PTL DEF QuerySpec

LEMMA HolderChanges ==
    ASSUME QueryInv, [QueryNext]_queryVars, NEW a \in QAccounts, last'[a].ui > last[a].ui
    PROVE  last'[a].window = last[a].restored
<1>1. last[a] \in LastRecord /\ last[a].ui \in Nat /\ disk[a].ui \in Nat /\ AccountInv(a) /\ last \in [QAccounts -> LastRecord]
  BY DEF QueryInv, CacheType, LastRecord, StoreRecord
<1>2. PICK w \in Windows, b \in QAccounts : QueryChange(w, b)
  <2>1. CASE UNCHANGED last  BY <1>1, <2>1
  <2>2. CASE QueryShutdown
    <3>1. last'[a].ui \in {last[a].ui, disk[a].ui}
      <4>1. PICK bad : last' = [c \in QAccounts |-> [last[c] EXCEPT !.ui = IF c \in bad THEN disk[c].ui ELSE @, !.restored = NoOwner]]
        BY <2>2 DEF QueryShutdown
      <4>2. PICK u \in Nat : u = IF a \in bad THEN disk[a].ui ELSE last[a].ui  BY <1>1
      <4>3. last'[a] = [last[a] EXCEPT !.ui = u, !.restored = NoOwner]  BY <4>1, <4>2
      <4> QED BY <1>1, <4>2, <4>3 DEF LastRecord
    <3> QED BY <1>1, <3>1 DEF AccountInv, NoneNewer
  <2>3. ASSUME NEW w \in Windows, NEW b \in QAccounts, QueryRestore(w, b) PROVE FALSE
    <3>1. last' = [last EXCEPT ![b] = [last[b] EXCEPT !.restored = w]] /\ last[b] \in LastRecord  BY <1>1, <2>3 DEF QueryRestore
    <3>2. last'[a] = last[a] \/ last'[a] = [last[a] EXCEPT !.restored = w]  BY <1>1, <3>1
    <3>3. last'[a].ui = last[a].ui  BY <1>1, <3>2 DEF LastRecord
    <3> QED BY <1>1, <3>3
  <2> QED BY <2>1, <2>2, <2>3 DEF QueryNext, queryVars, Refused, QueryFlush, SaverRuns, PrefetchBegin, PrefetchWrites,
             PrefetchPublishes, PrefetchCancelled, PrefetchTimesOut, FlagFalls
<1>3. last' = [last EXCEPT ![b] = [last[b] EXCEPT !.ui = changes + 1, !.window = w]] /\ last[b] \in LastRecord
  BY <1>1, <1>2 DEF QueryChange
<1>4. a = b  BY <1>1, <1>3
<1>5. last'[a].window = w  BY <1>1, <1>3, <1>4 DEF LastRecord
<1>6. held[w][a] # 0 /\ held[w][a] = mem[a].gen  BY <1>2, <1>4 DEF QueryChange, Accepts
<1> QED BY <1>1, <1>5, <1>6 DEF AccountInv, NewestHeld

(* Only the window that restored the newest copy changes it. *)
THEOREM NewestWindowChanges == QuerySpec => NewestWindowOnly
<1>1. QueryInv /\ [QueryNext]_queryVars => [\A a \in QAccounts : last'[a].ui > last[a].ui => last'[a].window = last[a].restored]_queryVars
  BY HolderChanges
<1> QED BY <1>1, QueryStarts, QuerySteps, PTL DEF QuerySpec, NewestWindowOnly


\* A store whose pages were written by different changes, none of them later than the n-th, and no more than MaxPages.
FewPages(s) == Cardinality(Pages(s)) <= MaxPages
Written(s, n) == /\ \A k \in Keys : s.pages[k] <= n
                 /\ \A j, k \in Keys : s.pages[j] = s.pages[k] /\ s.pages[k] # 0 => j = k
GoodStore(s, n) == s \in StoreRecord /\ s.ui <= n /\ Written(s, n) /\ FewPages(s)
InMemory == {a \in QAccounts : mem[a].in}
ShapeInv == /\ changes <= MaxChanges /\ serial <= MaxChanges
            /\ \A a \in QAccounts : GoodStore(mem[a].store, changes) /\ GoodStore(disk[a], changes) /\ GoodStore(fetch[a].next, changes)
            /\ IsFiniteSet(InMemory) /\ Cardinality(InMemory) <= MaxAccounts

LEMMA EmptyGood == ASSUME NEW n \in Nat, NEW s \in StoreRecord, s.pages = [k \in Keys |-> 0], s.ui <= n PROVE GoodStore(s, n)
<1>1. Pages(s) = {}  BY DEF Pages
<1>2. Cardinality(Pages(s)) = 0 /\ MaxPages \in Nat  BY <1>1, FS_EmptySet, QueryAssumption
<1>3. \A k \in Keys : s.pages[k] = 0  OBVIOUS
<1> QED BY <1>2, <1>3 DEF GoodStore, Written, FewPages

\* The newest MaxPages pages, when no two are of the same change.
LEMMA NormalizedFew == ASSUME NEW n \in Nat, NEW s \in StoreRecord, Written(s, n), s.ui <= n PROVE GoodStore(Normalized(s), n)
<1> DEFINE t == Normalized(s)
           P == Pages(t)
           Newer(k) == {j \in Keys : s.pages[j] > s.pages[k]}
<1>1. t \in StoreRecord /\ t.ui = s.ui  BY NormalizedKeeps
<1>2. \A k \in Keys : s.pages[k] \in Nat /\ t.pages[k] = IF Cardinality(Newer(k)) < MaxPages THEN s.pages[k] ELSE 0
  BY DEF StoreRecord, Normalized
<1>3. MaxPages \in Nat /\ MaxPages > 0 /\ IsFiniteSet(Keys)  BY QueryAssumption
<1>4. P \subseteq Keys /\ \A k \in P : s.pages[k] # 0 /\ Cardinality(Newer(k)) < MaxPages  BY <1>2 DEF Pages
<1> HIDE DEF t
<1>5. Written(t, n)
  <2>1. \A k \in Keys : t.pages[k] = s.pages[k] \/ t.pages[k] = 0  BY <1>2
  <2> QED BY <1>2, <2>1 DEF Written
<1>6. Cardinality(P) <= MaxPages
  <2>0. IsFiniteSet(P)  BY <1>3, <1>4, FS_Subset
  <2>1. CASE P = {}  BY <1>3, <2>1, FS_EmptySet
  <2>2. CASE P # {}
    <3> DEFINE V == {s.pages[k] : k \in P}
    <3>1. V \subseteq Nat /\ V # {}  BY <1>2, <1>4, <2>2
    <3>2. IsFiniteSet(V)
      <4>1. 0 \in Int /\ n \in Int  OBVIOUS
      <4>2. IsFiniteSet(0..n)  BY <4>1, FS_Interval
      <4>3. ASSUME NEW k \in P PROVE s.pages[k] \in 0..n
        <5>1. k \in Keys  BY <1>4
        <5>2. s.pages[k] \in Nat /\ s.pages[k] <= n  BY <1>2, <5>1 DEF Written
        <5> QED BY <5>2
      <4>4. V \subseteq 0..n  BY <4>3
      <4> QED BY <4>2, <4>4, FS_Subset
    <3>3. Min(V) \in V /\ \A v \in V : Min(V) <= v  BY <3>1, <3>2, EndsAre
    <3>4. PICK k \in P : \A j \in P : s.pages[k] <= s.pages[j]  BY <3>3
    <3>5. ASSUME NEW j \in P \ {k} PROVE s.pages[j] > s.pages[k]
      <4>1. j \in Keys /\ k \in Keys /\ s.pages[j] \in Nat /\ s.pages[k] \in Nat /\ s.pages[k] # 0  BY <1>2, <1>4
      <4>2. s.pages[j] # s.pages[k]  BY <4>1 DEF Written
      <4> QED BY <3>4, <4>1, <4>2
    <3>6. P \ {k} \subseteq Newer(k)  BY <1>4, <3>5
    <3>7. IsFiniteSet(Newer(k))  BY <1>3, FS_Subset
    <3>8. Cardinality(Newer(k)) \in Nat /\ Cardinality(Newer(k)) < MaxPages  BY <1>4, <3>7, FS_CardinalityType
    <3> HIDE DEF Newer
    <3>9. Cardinality(P \ {k}) \in Nat /\ Cardinality(P \ {k}) <= Cardinality(Newer(k))  BY <3>6, <3>7, NoMore
    <3>10. Cardinality(P \ {k}) = Cardinality(P) - 1 /\ Cardinality(P) \in Nat  BY <2>0, FS_RemoveElement, FS_CardinalityType
    <3> QED BY <1>3, <3>8, <3>9, <3>10
  <2> QED BY <2>1, <2>2
<1> QED BY <1>1, <1>5, <1>6 DEF GoodStore, FewPages, t

LEMMA LaterGood == ASSUME NEW m \in Nat, NEW n \in Nat, m <= n, NEW s, GoodStore(s, m) PROVE GoodStore(s, n)
<1>1. s.ui \in Nat /\ \A k \in Keys : s.pages[k] \in Nat  BY DEF GoodStore, StoreRecord
<1> QED BY <1>1 DEF GoodStore, Written

LEMMA PutWritten == ASSUME NEW n \in Nat, NEW s, GoodStore(s, n), NEW k \in Keys
                    PROVE  Put(s, k, n + 1) \in StoreRecord /\ Written(Put(s, k, n + 1), n + 1) /\ Put(s, k, n + 1).ui <= n + 1
<1>1. s \in StoreRecord /\ s.ui \in Nat /\ s.ui <= n /\ s.pages \in [Keys -> Nat]  BY DEF GoodStore, StoreRecord
<1>2. Put(s, k, n + 1) \in StoreRecord /\ Put(s, k, n + 1).ui = s.ui  BY <1>1, PutKeeps
<1>3. \A j \in Keys : Put(s, k, n + 1).pages[j] = IF j = k THEN n + 1 ELSE s.pages[j]  BY <1>1 DEF Put, StoreRecord
<1>4. \A j \in Keys : s.pages[j] \in Nat /\ s.pages[j] <= n  BY <1>1 DEF GoodStore, Written
<1>5. Written(Put(s, k, n + 1), n + 1)  BY <1>3, <1>4 DEF Written, GoodStore
<1> QED BY <1>1, <1>2, <1>5

\* Whatever a window changes in a good store, the pages it leaves were written by different changes.
LEMMA EditWritten == ASSUME NEW n \in Nat, NEW s, GoodStore(s, n), NEW t \in StoreEdits(s, n + 1)
                     PROVE  t \in StoreRecord /\ Written(t, n + 1)
<1>0. s \in StoreRecord /\ s.pages \in [Keys -> Nat] /\ n + 1 \in Nat  BY DEF GoodStore, StoreRecord
<1>1. t \in StoreRecord  BY <1>0, EditsType
<1>2. ASSUME NEW u, u.pages = s.pages PROVE Written(u, n + 1)
  <2>1. \A k \in Keys : s.pages[k] \in Nat /\ s.pages[k] <= n  BY <1>0 DEF GoodStore, Written
  <2> QED BY <1>2, <2>1 DEF GoodStore, Written
<1>3. ASSUME NEW u, \A k \in Keys : u.pages[k] = s.pages[k] \/ u.pages[k] = 0 PROVE Written(u, n + 1)
  <2>1. \A k \in Keys : s.pages[k] \in Nat /\ s.pages[k] <= n  BY <1>0 DEF GoodStore, Written
  <2> QED BY <1>3, <2>1 DEF GoodStore, Written
<1>4. CASE \E k \in Keys : t = Put(s, k, n + 1)  BY <1>4, PutWritten
<1>5. ASSUME NEW o \in Owners, t = [s EXCEPT !.owner = o] PROVE Written(t, n + 1)
  <2>1. t.pages = s.pages  BY <1>0, <1>5 DEF StoreRecord
  <2> QED BY <1>2, <2>1
<1>6. \A k \in Keys : EmptyStore.pages[k] = 0  BY DEF EmptyStore
<1>7. ASSUME NEW o \in Owners, t = Bound(s, o) PROVE Written(t, n + 1)
  <2>1. CASE t = [s EXCEPT !.owner = o]  BY <1>5, <2>1
  <2>2. CASE t = [EmptyStore EXCEPT !.owner = o]
    <3>1. t.pages = EmptyStore.pages  BY <2>2, EmptyType DEF StoreRecord
    <3> QED BY <1>3, <1>6, <3>1
  <2> QED BY <1>7, <2>1, <2>2 DEF Bound
<1>8. ASSUME NEW ks \in SUBSET Keys, t = Invalidated(s, ks) PROVE Written(t, n + 1)
  <2>1. \A k \in Keys : t.pages[k] = s.pages[k] \/ t.pages[k] = 0  BY <1>0, <1>8 DEF Invalidated, StoreRecord
  <2> QED BY <1>3, <2>1
<1>9. CASE t = EmptyStore  BY <1>1, <1>3, <1>6, <1>9
<1>10. \/ \E k \in Keys : t = Put(s, k, n + 1)
       \/ \E o \in Owners : t = [s EXCEPT !.owner = o]
       \/ \E o \in Owners : t = Bound(s, o)
       \/ t = EmptyStore
       \/ \E ks \in SUBSET Keys : t = Invalidated(s, ks)
  BY DEF StoreEdits
<1>11. CASE \E o \in Owners : t = [s EXCEPT !.owner = o]  BY <1>1, <1>5, <1>11
<1>12. CASE \E o \in Owners : t = Bound(s, o)  BY <1>1, <1>7, <1>12
<1>13. CASE \E ks \in SUBSET Keys : t = Invalidated(s, ks)  BY <1>1, <1>8, <1>13
<1> QED BY <1>1, <1>4, <1>9, <1>10, <1>11, <1>12, <1>13

LEMMA EmptyStoreGood == ASSUME NEW n \in Nat PROVE GoodStore(EmptyStore, n)
<1>1. EmptyStore.pages = [k \in Keys |-> 0]  BY DEF EmptyStore
<1> QED BY <1>1, EmptyType, EmptyGood

LEMMA LoadedGood == ASSUME QueryInv, ShapeInv, NEW a \in QAccounts PROVE GoodStore(Loaded(a), changes)
<1>0. changes \in Nat /\ GoodStore(mem[a].store, changes) /\ GoodStore(disk[a], changes)  BY DEF QueryInv, CacheType, ShapeInv
<1>1. CASE ~mem[a].loaded /\ Foreign(a, disk[a])
  <2>1. Loaded(a) = [EmptyStore EXCEPT !.ui = disk[a].ui] /\ Loaded(a) \in StoreRecord  BY <1>1, LoadedType DEF Loaded
  <2>2. disk[a].ui <= changes /\ disk[a].ui \in Nat  BY <1>0 DEF GoodStore, StoreRecord
  <2>3. Loaded(a).pages = [k \in Keys |-> 0] /\ Loaded(a).ui = disk[a].ui  BY <2>1 DEF EmptyStore
  <2> QED BY <1>0, <2>1, <2>2, <2>3, EmptyGood
<1>2. CASE ~(~mem[a].loaded /\ Foreign(a, disk[a]))  BY <1>0, <1>2 DEF Loaded
<1> QED BY <1>1, <1>2

\* Entering an account takes another out of memory when it is full.
LEMMA EnteredFew == ASSUME QueryInv, ShapeInv, NEW a \in QAccounts, NEW map \in Entered(a), NEW S, S = {b \in QAccounts : map[b].in}
                    PROVE  IsFiniteSet(S) /\ Cardinality(S) <= MaxAccounts
<1>0. mem \in [QAccounts -> StateRecord] /\ MaxAccounts \in Nat /\ IsFiniteSet(InMemory) /\ Cardinality(InMemory) <= MaxAccounts
      /\ Cardinality(InMemory) \in Nat
  BY QueryAssumption, FS_CardinalityType DEF QueryInv, CacheType, ShapeInv
<1>1. CASE mem[a].in  BY <1>0, <1>1 DEF Entered, InMemory
<1>2. CASE ~mem[a].in
  <2> DEFINE e == [Absent EXCEPT !.in = TRUE]
             new == [mem EXCEPT ![a] = e]
  <2>1. e \in StateRecord  BY EmptyType DEF StateRecord
  <2>2. (map = new /\ Cardinality(InMemory) < MaxAccounts) \/ \E b \in InMemory : map = [new EXCEPT ![b] = Absent]
    BY <1>2 DEF Entered, Evictable, InMemory
  <2> HIDE DEF e
  <2>3. new \in [QAccounts -> StateRecord] /\ \A b \in QAccounts \ {a} : new[b] = mem[b]  BY <1>0, <2>1
  <2> HIDE DEF new
  <2>4. CASE map = new /\ Cardinality(InMemory) < MaxAccounts
    <3>1. S \subseteq InMemory \cup {a}  BY <2>3, <2>4 DEF InMemory
    <3>2. Cardinality(S) \in Nat /\ Cardinality(S) <= Cardinality(InMemory) + 1  BY <1>0, <3>1, OneMoreAtMost
    <3>3. IsFiniteSet(S)  BY <1>0, <3>1, FS_AddElement, FS_Subset
    <3> QED BY <1>0, <2>4, <3>2, <3>3
  <2>5. ASSUME NEW b \in InMemory, map = [new EXCEPT ![b] = Absent] PROVE IsFiniteSet(S) /\ Cardinality(S) <= MaxAccounts
    <3>1. b \in QAccounts /\ ~Absent.in  BY DEF InMemory, Absent
    <3>2. S \subseteq (InMemory \ {b}) \cup {a}  BY <2>3, <2>5, <3>1 DEF InMemory
    <3>3. IsFiniteSet(InMemory \ {b}) /\ Cardinality(InMemory \ {b}) = Cardinality(InMemory) - 1  BY <1>0, FS_RemoveElement
    <3>4. Cardinality(S) \in Nat /\ Cardinality(S) <= Cardinality(InMemory \ {b}) + 1  BY <3>2, <3>3, OneMoreAtMost
    <3>5. IsFiniteSet(S)  BY <3>2, <3>3, FS_AddElement, FS_Subset
    <3> QED BY <1>0, <3>3, <3>4, <3>5
  <2> QED BY <2>2, <2>4, <2>5
<1> QED BY <1>1, <1>2

\* The stores a step leaves: those that were there, an empty one, or what it made of them.
StoresGood == \A a \in QAccounts : GoodStore(mem'[a].store, changes') /\ GoodStore(disk'[a], changes') /\ GoodStore(fetch'[a].next, changes')

LEMMA ShapeStays == ASSUME QueryInv, ShapeInv, [QueryNext]_queryVars PROVE ShapeInv'
<1>0. /\ mem \in [QAccounts -> StateRecord] /\ disk \in [QAccounts -> StoreRecord] /\ fetch \in [QAccounts -> FetchRecord]
      /\ changes \in Nat /\ serial \in Nat /\ {MaxAccounts, MaxChanges} \subseteq Nat /\ changes + 1 \in Nat
  BY QueryAssumption DEF QueryInv, CacheType
<1>a. \A a \in QAccounts : GoodStore(mem[a].store, changes) /\ GoodStore(disk[a], changes) /\ GoodStore(fetch[a].next, changes)
  BY DEF ShapeInv
<1>b. \A a \in QAccounts : GoodStore(mem[a].store, changes + 1) /\ GoodStore(disk[a], changes + 1) /\ GoodStore(fetch[a].next, changes + 1)
  <2> SUFFICES ASSUME NEW a \in QAccounts
               PROVE  GoodStore(mem[a].store, changes + 1) /\ GoodStore(disk[a], changes + 1) /\ GoodStore(fetch[a].next, changes + 1)
    OBVIOUS
  <2>1. changes <= changes + 1  BY <1>0
  <2> QED BY <1>0, <1>a, <2>1, LaterGood
<1>c. GoodStore(EmptyStore, changes) /\ GoodStore(EmptyStore, changes + 1) /\ Absent.store = EmptyStore /\ NoFetch.next = EmptyStore
  BY <1>0, EmptyStoreGood DEF Absent, NoFetch
<1>1. changes' <= MaxChanges /\ serial' <= MaxChanges
  <2>1. changes' = changes \/ (changes' = changes + 1 /\ changes < MaxChanges)
    BY DEF QueryNext, queryVars, QueryRestore, Refused, QueryChange, SaverRuns, QueryFlush, PrefetchBegin, PrefetchWrites,
           PrefetchPublishes, PrefetchCancelled, PrefetchTimesOut, FlagFalls, QueryShutdown
  <2>2. serial' = serial \/ (serial' = serial + 1 /\ serial < MaxChanges)
    BY DEF QueryNext, queryVars, QueryRestore, Refused, QueryChange, SaverRuns, QueryFlush, PrefetchBegin, PrefetchWrites,
           PrefetchPublishes, PrefetchCancelled, PrefetchTimesOut, FlagFalls, QueryShutdown
  <2> QED BY <1>0, <2>1, <2>2 DEF ShapeInv
<1>2. ASSUME InMemory' \subseteq InMemory PROVE IsFiniteSet(InMemory') /\ Cardinality(InMemory') <= MaxAccounts
  <2>1. IsFiniteSet(InMemory') /\ Cardinality(InMemory') <= Cardinality(InMemory)  BY <1>2, FS_Subset DEF ShapeInv
  <2>2. Cardinality(InMemory') \in Nat /\ Cardinality(InMemory) \in Nat  BY <2>1, FS_CardinalityType DEF ShapeInv
  <2> QED BY <1>0, <2>1, <2>2 DEF ShapeInv
<1>3. ASSUME NEW a \in QAccounts, NEW map \in Entered(a), \A b \in QAccounts : mem'[b].in = map[b].in
      PROVE  IsFiniteSet(InMemory') /\ Cardinality(InMemory') <= MaxAccounts
  <2>1. InMemory' = {b \in QAccounts : map[b].in}  BY <1>3 DEF InMemory
  <2> QED BY <2>1, EnteredFew
<1>4. ASSUME NEW a \in QAccounts, NEW map \in Entered(a)
      PROVE  map \in [QAccounts -> StateRecord] /\ \A b \in QAccounts : map[b].store = mem[b].store \/ map[b].store = EmptyStore
  <2>1. /\ map \in [QAccounts -> StateRecord]
        /\ map[a] = mem[a] \/ (~mem[a].in /\ map[a] = [Absent EXCEPT !.in = TRUE])
        /\ map[a].in
        /\ \A b \in QAccounts \ {a} : map[b] = mem[b] \/ (Evictable(b) /\ map[b] = Absent)
    BY EnteredMaps
  <2>2. [Absent EXCEPT !.in = TRUE].store = EmptyStore  BY EmptyType, <1>c DEF StateRecord
  <2> QED BY <1>c, <2>1, <2>2
<1>5. ASSUME NEW w \in Windows, NEW a \in QAccounts, QueryRestore(w, a) PROVE ShapeInv'
  <2>1. PICK map \in Entered(a) : mem' = [map EXCEPT ![a].store = Loaded(a), ![a].loaded = TRUE, ![a].gen = serial + 1]
    BY <1>5 DEF QueryRestore
  <2>2. disk' = disk /\ fetch' = fetch /\ changes' = changes  BY <1>5 DEF QueryRestore
  <2>3. mem' = [map EXCEPT ![a] = [map[a] EXCEPT !.store = Loaded(a), !.loaded = TRUE, !.gen = serial + 1]]  BY <2>1
  <2>4. mem'[a].store = Loaded(a) /\ mem'[a].in = map[a].in /\ \A b \in QAccounts \ {a} : mem'[b] = map[b]
    BY <1>4, <2>3 DEF StateRecord
  <2>5. StoresGood  BY <1>4, <1>a, <1>c, <2>2, <2>4, LoadedGood DEF StoresGood
  <2> QED BY <1>1, <1>3, <2>4, <2>5 DEF ShapeInv, StoresGood
<1>6. ASSUME NEW w \in Windows, NEW a \in QAccounts, Refused(w, a) PROVE ShapeInv'
  <2>1. mem' \in Entered(a) /\ disk' = disk /\ fetch' = fetch /\ changes' = changes  BY <1>6 DEF Refused
  <2>2. StoresGood  BY <1>4, <1>a, <1>c, <2>1 DEF StoresGood
  <2> QED BY <1>1, <1>3, <2>1, <2>2 DEF ShapeInv, StoresGood
<1>7. ASSUME NEW w \in Windows, NEW a \in QAccounts, QueryChange(w, a) PROVE ShapeInv'
  <2>1. PICK next \in StoreEdits(mem[a].store, changes + 1) :
          mem' = [mem EXCEPT ![a].store = [Normalized(next) EXCEPT !.ui = changes + 1], ![a].dirty = TRUE, ![a].saving = TRUE]
    BY <1>7 DEF QueryChange
  <2>2. disk' = disk /\ fetch' = fetch /\ changes' = changes + 1  BY <1>7 DEF QueryChange
  <2>3. next \in StoreRecord /\ Written(next, changes + 1)  BY <1>0, <1>a, EditWritten
  <2>4. PICK u \in StoreRecord : u = [next EXCEPT !.ui = 0]  BY <2>3 DEF StoreRecord
  <2>5. u.pages = next.pages /\ u.ui = 0 /\ u.owner = next.owner  BY <2>3, <2>4 DEF StoreRecord
  <2>6. Written(u, changes + 1)  BY <2>3, <2>5 DEF Written
  <2>7. GoodStore(Normalized(u), changes + 1)  BY <1>0, <2>5, <2>6, NormalizedFew
  <2> DEFINE s == [Normalized(next) EXCEPT !.ui = changes + 1]
  <2>8. Normalized(next) \in StoreRecord /\ Normalized(u) \in StoreRecord  BY <2>3, NormalizedKeeps
  <2>9. Normalized(next).pages = Normalized(u).pages  BY <2>3, <2>5 DEF Normalized, StoreRecord
  <2>10. s \in StoreRecord /\ s.pages = Normalized(u).pages /\ s.ui = changes + 1  BY <1>0, <2>8, <2>9 DEF StoreRecord
  <2> HIDE DEF s
  <2>11. GoodStore(s, changes + 1)  BY <1>0, <2>7, <2>10 DEF GoodStore, Written, FewPages, Pages
  <2>12. mem' = [mem EXCEPT ![a] = [mem[a] EXCEPT !.store = s, !.dirty = TRUE, !.saving = TRUE]]  BY <2>1 DEF s
  <2>13. mem'[a].store = s /\ mem'[a].in = mem[a].in /\ \A b \in QAccounts \ {a} : mem'[b] = mem[b]  BY <1>0, <2>12 DEF StateRecord
  <2>14. StoresGood  BY <1>b, <2>2, <2>11, <2>13 DEF StoresGood
  <2>15. InMemory' \subseteq InMemory  BY <2>13 DEF InMemory
  <2> QED BY <1>1, <1>2, <2>14, <2>15 DEF ShapeInv, StoresGood
<1>8. ASSUME NEW a \in QAccounts, SaverRuns(a) \/ (\E w \in Windows : QueryFlush(w, a)) PROVE ShapeInv'
  <2>1. PICK d \in BOOLEAN, ok \in BOOLEAN :
          /\ d = Saved(a, ok) /\ (disk' = disk \/ disk' = [disk EXCEPT ![a] = mem[a].store])
          /\ mem' = [mem EXCEPT ![a].dirty = d, ![a].saving = FALSE] \/ mem' = [mem EXCEPT ![a].dirty = d]
    <3>1. PICK ok \in BOOLEAN : /\ disk' = disk \/ disk' = [disk EXCEPT ![a] = mem[a].store]
                                /\ \/ mem' = [mem EXCEPT ![a].dirty = Saved(a, ok), ![a].saving = FALSE]
                                   \/ mem' = [mem EXCEPT ![a].dirty = Saved(a, ok)]
      BY <1>8 DEF SaverRuns, QueryFlush, Persist
    <3>2. Saved(a, ok) \in BOOLEAN  BY Zenon DEF Saved
    <3> QED BY <3>1, <3>2
  <2>2. mem' = [mem EXCEPT ![a] = [mem[a] EXCEPT !.dirty = d, !.saving = FALSE]] \/ mem' = [mem EXCEPT ![a] = [mem[a] EXCEPT !.dirty = d]]
    BY <2>1
  <2>3. \A b \in QAccounts : mem'[b].store = mem[b].store /\ mem'[b].in = mem[b].in
    <3>1. ASSUME NEW x, x = [mem[a] EXCEPT !.dirty = d, !.saving = FALSE] \/ x = [mem[a] EXCEPT !.dirty = d]
          PROVE  x.store = mem[a].store /\ x.in = mem[a].in
      <4>1. mem[a] \in StateRecord  BY <1>0
      <4> QED BY <3>1, <4>1 DEF StateRecord
    <3>2. PICK x : mem' = [mem EXCEPT ![a] = x] /\ x.store = mem[a].store /\ x.in = mem[a].in  BY <2>2, <3>1
    <3> QED BY <1>0, <3>2
  <2>4. \A b \in QAccounts : disk'[b] = disk[b] \/ disk'[b] = mem[b].store  BY <1>0, <2>1
  <2>5. fetch' = fetch /\ changes' = changes  BY <1>8 DEF SaverRuns, QueryFlush
  <2>6. StoresGood  BY <1>a, <2>3, <2>4, <2>5 DEF StoresGood
  <2>7. InMemory' \subseteq InMemory  BY <2>3 DEF InMemory
  <2> QED BY <1>1, <1>2, <2>6, <2>7 DEF ShapeInv, StoresGood
<1>9. ASSUME NEW a \in QAccounts, PrefetchBegin(a) PROVE ShapeInv'
  <2>1. PICK map \in Entered(a), k \in Keys :
          /\ mem' = [map EXCEPT ![a].store = Loaded(a), ![a].loaded = TRUE]
          /\ fetch' = [fetch EXCEPT ![a] = [at |-> "write", next |-> Normalized(Put(Loaded(a), k, changes + 1))]]
    BY <1>9 DEF PrefetchBegin
  <2>2. disk' = disk /\ changes' = changes + 1  BY <1>9 DEF PrefetchBegin
  <2>3. GoodStore(Loaded(a), changes) /\ GoodStore(Loaded(a), changes + 1)
    <3>1. GoodStore(Loaded(a), changes) /\ changes <= changes + 1  BY <1>0, LoadedGood
    <3> QED BY <1>0, <3>1, LaterGood
  <2>4. GoodStore(Normalized(Put(Loaded(a), k, changes + 1)), changes + 1)  BY <1>0, <2>3, PutWritten, NormalizedFew
  <2>5. mem'[a].store = Loaded(a) /\ mem'[a].in = map[a].in /\ \A b \in QAccounts \ {a} : mem'[b] = map[b]
    <3>1. mem' = [map EXCEPT ![a] = [map[a] EXCEPT !.store = Loaded(a), !.loaded = TRUE]]  BY <2>1
    <3> QED BY <1>4, <3>1 DEF StateRecord
  <2>6. fetch'[a].next = Normalized(Put(Loaded(a), k, changes + 1)) /\ \A b \in QAccounts \ {a} : fetch'[b] = fetch[b]
    BY <1>0, <2>1
  <2>7. StoresGood  BY <1>4, <1>b, <1>c, <2>2, <2>3, <2>4, <2>5, <2>6 DEF StoresGood
  <2> QED BY <1>1, <1>3, <2>5, <2>7 DEF ShapeInv, StoresGood
<1>10. ASSUME NEW a \in QAccounts,
              PrefetchWrites(a) \/ PrefetchPublishes(a) \/ PrefetchCancelled(a) \/ PrefetchTimesOut(a) \/ FlagFalls(a)
       PROVE  ShapeInv'
  <2>1. changes' = changes /\ (disk' = disk \/ disk' = [disk EXCEPT ![a] = fetch[a].next])
        /\ (mem' = mem \/ mem' = [mem EXCEPT ![a] = [mem[a] EXCEPT !.store = fetch[a].next, !.dirty = FALSE]])
        /\ \/ fetch' = [fetch EXCEPT ![a] = NoFetch] \/ fetch' = [fetch EXCEPT ![a] = [fetch[a] EXCEPT !.at = "written"]]
           \/ fetch' = [fetch EXCEPT ![a] = [fetch[a] EXCEPT !.at = "orphan"]]
    BY <1>10 DEF PrefetchWrites, PrefetchPublishes, PrefetchCancelled, PrefetchTimesOut, FlagFalls
  <2>2. \A b \in QAccounts : disk'[b] \in {disk[b], fetch[b].next}  BY <1>0, <2>1
  <2>3. \A b \in QAccounts : mem'[b].store \in {mem[b].store, fetch[b].next} /\ mem'[b].in = mem[b].in
    <3>1. ASSUME NEW x, x = [mem[a] EXCEPT !.store = fetch[a].next, !.dirty = FALSE]
          PROVE  x.store = fetch[a].next /\ x.in = mem[a].in
      <4>1. mem[a] \in StateRecord  BY <1>0
      <4> QED BY <3>1, <4>1 DEF StateRecord
    <3>2. mem' = mem \/ \E x : mem' = [mem EXCEPT ![a] = x] /\ x.store = fetch[a].next /\ x.in = mem[a].in  BY <2>1, <3>1
    <3> QED BY <1>0, <3>2
  <2>4. \A b \in QAccounts : fetch'[b].next \in {fetch[b].next, EmptyStore}
    <3>1. [fetch[a] EXCEPT !.at = "written"].next = fetch[a].next /\ [fetch[a] EXCEPT !.at = "orphan"].next = fetch[a].next
      BY <1>0 DEF FetchRecord
    <3> QED BY <1>0, <1>c, <2>1, <3>1
  <2>5. StoresGood  BY <1>a, <1>c, <2>1, <2>2, <2>3, <2>4 DEF StoresGood
  <2>6. InMemory' \subseteq InMemory  BY <2>3 DEF InMemory
  <2> QED BY <1>1, <1>2, <2>5, <2>6 DEF ShapeInv, StoresGood
<1>11. CASE QueryShutdown
  <2>1. \A a \in QAccounts : disk'[a] \in {disk[a], mem[a].store} /\ mem'[a] = Absent  BY <1>11 DEF QueryShutdown
  <2>2. fetch' = fetch /\ changes' = changes  BY <1>11 DEF QueryShutdown
  <2>3. StoresGood  BY <1>a, <1>c, <2>1, <2>2 DEF StoresGood
  <2>4. InMemory' \subseteq InMemory  BY <2>1 DEF InMemory, Absent
  <2> QED BY <1>1, <1>2, <2>3, <2>4 DEF ShapeInv, StoresGood
<1>12. CASE UNCHANGED queryVars  BY <1>12 DEF queryVars, ShapeInv, InMemory
<1> QED BY <1>5, <1>6, <1>7, <1>8, <1>9, <1>10, <1>11, <1>12 DEF QueryNext

(* No more accounts in memory than the limit, and no more pages in a store, whichever are restored, changed, put and taken out. *)
THEOREM QueriesWithin == QuerySpec => []QueryTypeOK
<1>1. QueryInit => ShapeInv
  <2> SUFFICES ASSUME QueryInit PROVE ShapeInv  OBVIOUS
  <2>1. InMemory = {} /\ MaxAccounts \in Nat /\ MaxChanges \in Nat /\ 0 \in Nat  BY QueryAssumption DEF QueryInit, InMemory, Absent
  <2>2. \A a \in QAccounts : mem[a].store = EmptyStore /\ disk[a] = EmptyStore /\ fetch[a].next = EmptyStore /\ changes = 0
    BY DEF QueryInit, Absent, NoFetch
  <2>3. GoodStore(EmptyStore, 0)  BY EmptyStoreGood
  <2> QED BY <2>1, <2>2, <2>3, FS_EmptySet DEF QueryInit, ShapeInv
<1>2. QueryInv /\ ShapeInv /\ [QueryNext]_queryVars => ShapeInv'  BY ShapeStays
<1>3. QueryInv /\ ShapeInv => QueryTypeOK
  <2> SUFFICES ASSUME QueryInv, ShapeInv PROVE QueryTypeOK  OBVIOUS
  <2>0. /\ mem \in [QAccounts -> StateRecord] /\ disk \in [QAccounts -> StoreRecord] /\ fetch \in [QAccounts -> FetchRecord]
        /\ changes \in Nat /\ serial \in Nat /\ MaxChanges \in Nat
    BY QueryAssumption DEF QueryInv, CacheType
  <2>1. changes \in 0..MaxChanges /\ serial \in 0..MaxChanges  BY <2>0 DEF ShapeInv
  <2>2. ASSUME NEW s, GoodStore(s, changes) PROVE s \in Stores
    <3>1. s \in StoreRecord /\ s.ui \in Nat /\ s.ui <= changes /\ s.pages \in [Keys -> Nat] /\ s.owner \in Owners \cup {NoOwner}
      BY <2>2 DEF GoodStore, StoreRecord
    <3>2. \A k \in Keys : s.pages[k] \in 0..MaxChanges
      <4>1. \A k \in Keys : s.pages[k] \in Nat /\ s.pages[k] <= changes  BY <2>2, <3>1 DEF GoodStore, Written
      <4> QED BY <2>0, <2>1, <4>1
    <3>3. s.ui \in 0..MaxChanges /\ s.pages \in [Keys -> 0..MaxChanges]  BY <2>0, <2>1, <3>1, <3>2
    <3> QED BY <3>1, <3>3 DEF StoreRecord, Stores
  <2>3. ASSUME NEW a \in QAccounts
        PROVE  /\ mem[a] \in [in : BOOLEAN, store : Stores, gen : 0..MaxChanges, loaded : BOOLEAN, dirty : BOOLEAN, saving : BOOLEAN]
               /\ disk[a] \in Stores /\ Cardinality(Pages(mem[a].store)) <= MaxPages
               /\ fetch[a] \in [at : {"none", "write", "written", "orphan"}, next : Stores]
    <3>1. mem[a].store \in Stores /\ disk[a] \in Stores /\ fetch[a].next \in Stores /\ Cardinality(Pages(mem[a].store)) <= MaxPages
      BY <2>2 DEF ShapeInv, GoodStore, FewPages
    <3>2. mem[a] \in StateRecord /\ mem[a].gen <= serial /\ fetch[a] \in FetchRecord  BY <2>0 DEF QueryInv, AccountInv, NewestHeld
    <3>3. mem[a].gen \in 0..MaxChanges
      <4>1. mem[a].gen \in Nat  BY <3>2 DEF StateRecord
      <4> QED BY <2>0, <2>1, <3>2, <4>1
    <3>4. mem[a] \in [in : BOOLEAN, store : Stores, gen : 0..MaxChanges, loaded : BOOLEAN, dirty : BOOLEAN, saving : BOOLEAN]
      BY <3>1, <3>2, <3>3 DEF StateRecord
    <3>5. fetch[a] \in [at : {"none", "write", "written", "orphan"}, next : Stores]  BY <3>1, <3>2 DEF FetchRecord
    <3> QED BY <3>1, <3>4, <3>5
  <2> QED BY <2>0, <2>1, <2>3 DEF QueryTypeOK, ShapeInv, InMemory
<1> QED BY <1>1, <1>2, <1>3, QueryStarts, QuerySteps, PTL DEF QuerySpec

------------------------------------
(* The frames of a session. *)

NamedOnce(s) == \A m, n \in DOMAIN s : s[m] = s[n] /\ s[m] # Notice => m = n
ItemsOf(s) == {s[n] : n \in DOMAIN s}

SessionType == /\ queue \in Seq(Frames) /\ responses \in Seq(Frames \cup {Notice})
               /\ written \in Seq(Frames \cup {Notice, QuitReply})
               /\ requests \in [Frames -> {"none", "new", "locked", "done", "answered", "dropped"}]
               /\ sending \in {Nothing, Notice} \cup Frames /\ submitted \in 0..MaxFrames /\ peer \in BOOLEAN
\* A frame is in one place: not read yet, in the queue, with its future, on its way out, or written.
OnePlace == /\ NamedOnce(queue) /\ NamedOnce(responses) /\ NamedOnce(written)
            /\ \A f \in ItemsOf(queue) : f <= submitted /\ requests[f] = "none"
            /\ \A f \in Frames : requests[f] # "none" => f <= submitted
            /\ \A f \in Frames : f = sending => requests[f] = "answered" /\ f \notin ItemsOf(responses) /\ f \notin ItemsOf(written)
            /\ \A f \in Frames : f \in ItemsOf(responses) => requests[f] = "answered" /\ f \notin ItemsOf(written)
            /\ \A f \in Frames : f \in ItemsOf(written) => requests[f] = "answered"
\* While the interface reads, no frame is lost on the way.
NoneLost == peer => /\ writer # "failed"
                    /\ \A f \in Frames : requests[f] # "dropped"
                    /\ \A f \in Frames : f <= submitted /\ requests[f] = "none" => f \in ItemsOf(queue)
                    /\ \A f \in Frames : requests[f] = "answered" => f = sending \/ f \in ItemsOf(responses) \/ f \in ItemsOf(written)
                    /\ dispatcher # "serving" => InputDone
\* What the end of each thread means.
EndsInOrder == /\ dispatcher # "serving" => sending = Nothing
               /\ writer = "ended" => dispatcher = "stopped" /\ responses = <<>>
               /\ QuitReply \in ItemsOf(written) => Joined /\ Last(written) = QuitReply
AnswerInv == SessionType /\ OnePlace /\ NoneLost /\ EndsInOrder

LEMMA TailValues ==
    ASSUME NEW S, NEW s \in Seq(S), s # <<>>
    PROVE  /\ Tail(s) \in Seq(S) /\ Head(s) \in S /\ Head(s) \in ItemsOf(s)
           /\ ItemsOf(Tail(s)) \subseteq ItemsOf(s)
           /\ \A v \in ItemsOf(s) : v = Head(s) \/ v \in ItemsOf(Tail(s))
           /\ NamedOnce(s) => NamedOnce(Tail(s))
           /\ NamedOnce(s) /\ Head(s) # Notice => Head(s) \notin ItemsOf(Tail(s))
<1>1. Len(s) \in Nat /\ Len(s) > 0 /\ DOMAIN s = 1..Len(s) /\ Head(s) = s[1]  OBVIOUS
<1>2. Tail(s) \in Seq(S) /\ Len(Tail(s)) = Len(s) - 1 /\ DOMAIN Tail(s) = 1..(Len(s) - 1)  OBVIOUS
<1>3. \A n \in 1..(Len(s) - 1) : Tail(s)[n] = s[n + 1] /\ n + 1 \in DOMAIN s  BY <1>1, <1>2
<1>4. Head(s) \in S /\ Head(s) \in ItemsOf(s)  BY <1>1 DEF ItemsOf
<1>5. ItemsOf(Tail(s)) \subseteq ItemsOf(s)  BY <1>2, <1>3 DEF ItemsOf
<1>6. ASSUME NEW n \in DOMAIN s PROVE s[n] = Head(s) \/ s[n] \in ItemsOf(Tail(s))
  <2>1. CASE n # 1
    <3>1. n - 1 \in 1..(Len(s) - 1) /\ Tail(s)[n - 1] = s[n]  BY <1>1, <1>2, <2>1
    <3> QED BY <1>2, <3>1 DEF ItemsOf
  <2> QED BY <1>1, <2>1
<1>7. NamedOnce(s) => NamedOnce(Tail(s))  BY <1>1, <1>2, <1>3 DEF NamedOnce
<1>8. NamedOnce(s) /\ Head(s) # Notice => Head(s) \notin ItemsOf(Tail(s))  BY <1>1, <1>2, <1>3 DEF NamedOnce, ItemsOf
<1> QED BY <1>2, <1>4, <1>5, <1>6, <1>7, <1>8 DEF ItemsOf

LEMMA AppendValues ==
    ASSUME NEW S, NEW s \in Seq(S), NEW v \in S
    PROVE  /\ Append(s, v) \in Seq(S) /\ ItemsOf(Append(s, v)) = ItemsOf(s) \cup {v}
           /\ Append(s, v) # <<>> /\ Last(Append(s, v)) = v
           /\ NamedOnce(s) /\ (v = Notice \/ v \notin ItemsOf(s)) => NamedOnce(Append(s, v))
<1>1. Len(s) \in Nat /\ DOMAIN s = 1..Len(s)  OBVIOUS
<1>2. Append(s, v) \in Seq(S) /\ Len(Append(s, v)) = Len(s) + 1 /\ DOMAIN Append(s, v) = 1..(Len(s) + 1)  OBVIOUS
<1>3. \A n \in 1..Len(s) : Append(s, v)[n] = s[n]  OBVIOUS
<1>4. Append(s, v)[Len(s) + 1] = v  OBVIOUS
<1>5. ItemsOf(Append(s, v)) = ItemsOf(s) \cup {v}  BY <1>1, <1>2, <1>3, <1>4 DEF ItemsOf
<1>6. Append(s, v) # <<>> /\ Last(Append(s, v)) = v  BY <1>1, <1>2, <1>4 DEF Last
<1>7. NamedOnce(s) /\ (v = Notice \/ v \notin ItemsOf(s)) => NamedOnce(Append(s, v))
  BY <1>1, <1>2, <1>3, <1>4 DEF NamedOnce, ItemsOf
<1> QED BY <1>2, <1>5, <1>6, <1>7

LEMMA Names == /\ MaxFrames \in Nat /\ Frames \subseteq Nat /\ Notice \notin Frames /\ Nothing \notin Frames /\ QuitReply \notin Frames
               /\ Notice # Nothing /\ QuitReply # Notice /\ QuitReply # Nothing
BY SessionAssumption DEF Frames, Notice, Nothing, QuitReply

LEMMA EmptyValues == ItemsOf(<<>>) = {} /\ NamedOnce(<<>>)
BY DEF ItemsOf, NamedOnce

LEMMA ReaderSteps ==
    ASSUME AnswerInv, ReaderSubmits \/ ReaderEnds \/ PeerGoes \/ PublishNotice
    PROVE  AnswerInv'
<1> USE DEF AnswerInv
<1>1. CASE ReaderSubmits /\ dispatcher = "serving"
  <2>1. submitted + 1 \in Frames /\ submitted \in Nat  BY <1>1, Names DEF ReaderSubmits, SessionType, Frames
  <2>2. submitted + 1 \notin ItemsOf(queue) /\ requests[submitted + 1] = "none"  BY <2>1 DEF OnePlace
  <2>3. queue' = Append(queue, submitted + 1) /\ submitted' = submitted + 1  BY <1>1 DEF ReaderSubmits
  <2>4. UNCHANGED <<peer, requests, sessionLock, dispatcher, sending, responses, writer, written, reader>>
    BY <1>1 DEF ReaderSubmits, outVars
  <2>5. queue' \in Seq(Frames) /\ ItemsOf(queue') = ItemsOf(queue) \cup {submitted'} /\ NamedOnce(queue')
    BY <2>1, <2>2, <2>3, AppendValues DEF SessionType, OnePlace
  <2>6. SessionType'
    <3>1. submitted' \in 0..MaxFrames  BY <2>1, <2>3, Names DEF Frames
    <3> QED BY <2>4, <2>5, <3>1 DEF SessionType
  <2>7. OnePlace'
    <3>1. \A f \in ItemsOf(queue') : f <= submitted' /\ requests'[f] = "none"
      <4>1. \A f \in ItemsOf(queue) : f \in Nat /\ f <= submitted
        <5>1. \A f \in ItemsOf(queue) : f \in Frames  BY DEF SessionType, ItemsOf
        <5>2. \A f \in ItemsOf(queue) : f <= submitted  BY DEF OnePlace
        <5> QED BY <5>1, <5>2, Names
      <4>2. \A f \in ItemsOf(queue) : requests[f] = "none"  BY DEF OnePlace
      <4> QED BY <2>1, <2>2, <2>3, <2>4, <2>5, <4>1, <4>2
    <3>2. \A f \in Frames : requests'[f] # "none" => f <= submitted'  BY <2>1, <2>3, <2>4, Names DEF OnePlace
    <3> QED BY <2>4, <2>5, <3>1, <3>2 DEF OnePlace
  <2>8. NoneLost'
    <3>1. \A f \in Frames : f <= submitted' => f <= submitted \/ f = submitted'  BY <2>1, <2>3, Names
    <3> QED BY <1>1, <2>4, <2>5, <3>1 DEF NoneLost
  <2>9. EndsInOrder'  BY <2>4, <1>1 DEF EndsInOrder, Joined
  <2> QED BY <2>6, <2>7, <2>8, <2>9
<1>2. CASE ReaderSubmits /\ dispatcher # "serving"
  <2>1. /\ reader = "reading" /\ reader' = "failed"
        /\ UNCHANGED <<peer, submitted, queue, requests, sessionLock, dispatcher, sending, responses, writer, written>>
    BY <1>2 DEF ReaderSubmits, outVars
  <2> QED BY <2>1 DEF SessionType, OnePlace, NoneLost, EndsInOrder, Joined, InputDone, Pending
<1>3. CASE ReaderEnds
  <2>1. /\ reader = "reading" /\ reader' # "reading"
        /\ UNCHANGED <<peer, submitted, queue, requests, sessionLock, dispatcher, sending, responses, writer, written>>
    BY <1>3 DEF ReaderEnds, outVars
  <2> QED BY <2>1 DEF SessionType, OnePlace, NoneLost, EndsInOrder, Joined, InputDone, Pending
<1>4. CASE PeerGoes
  <2>1. ~peer' /\ peer' \in BOOLEAN /\ UNCHANGED <<reader, submitted, queue, requests, sessionLock, dispatcher, sending, responses, writer, written>>
    BY <1>4 DEF PeerGoes, inputVars, outVars
  <2> QED BY <2>1 DEF SessionType, OnePlace, NoneLost, EndsInOrder, Joined
<1>5. CASE PublishNotice
  <2>1. UNCHANGED <<peer, reader, submitted, queue, requests, sessionLock, dispatcher, sending, responses, writer, written>>
    BY <1>5 DEF PublishNotice, inputVars, outVars
  <2> QED BY <2>1 DEF SessionType, OnePlace, NoneLost, EndsInOrder, Joined, InputDone, Pending
<1> QED BY <1>1, <1>2, <1>3, <1>4, <1>5

LEMMA DispatcherSteps ==
    ASSUME AnswerInv, Accept \/ (\E f \in Frames : RequestStep(f) \/ Respond(f)) \/ Notify
    PROVE  AnswerInv'
<1> USE DEF AnswerInv
<1>1. CASE Accept
  <2> DEFINE f == Head(queue)
  <2>1. queue \in Seq(Frames) /\ queue # <<>> /\ NamedOnce(queue)  BY <1>1 DEF Accept, SessionType, OnePlace
  <2>2. /\ queue' = Tail(queue) /\ queue' \in Seq(Frames) /\ f \in Frames /\ f \in ItemsOf(queue) /\ ItemsOf(queue') \subseteq ItemsOf(queue)
        /\ \A v \in ItemsOf(queue) : v = f \/ v \in ItemsOf(queue')
        /\ NamedOnce(queue') /\ f \notin ItemsOf(queue')
    BY <1>1, <2>1, TailValues, Names DEF Accept
  <2> HIDE DEF f
  <2>3. requests' = [requests EXCEPT ![f] = "new"]  BY <1>1 DEF Accept, f
  <2>4. requests'[f] = "new" /\ requests[f] = "none" /\ f <= submitted /\ \A g \in Frames \ {f} : requests'[g] = requests[g]
    BY <2>2, <2>3 DEF SessionType, OnePlace
  <2>5. UNCHANGED <<peer, reader, submitted, dispatcher, sending, responses, writer, written>>
    BY <1>1 DEF Accept, inputVars, outVars
  <2>6. SessionType'  BY <2>2, <2>3, <2>5 DEF SessionType
  <2>7. OnePlace'
    <3>1. \A g \in ItemsOf(queue') : g \in Frames  BY <2>2 DEF ItemsOf
    <3>2. \A g \in ItemsOf(queue') : g <= submitted' /\ requests'[g] = "none"  BY <2>2, <2>4, <2>5, <3>1 DEF OnePlace
    <3>3. f # sending /\ f \notin ItemsOf(responses) /\ f \notin ItemsOf(written)  BY <2>2, <2>4 DEF OnePlace
    <3> QED BY <2>2, <2>4, <2>5, <3>2, <3>3 DEF OnePlace
  <2>8. NoneLost'  BY <1>1, <2>2, <2>4, <2>5 DEF NoneLost, Accept, Serving
  <2>9. EndsInOrder'  BY <2>5 DEF EndsInOrder, Joined
  <2> QED BY <2>6, <2>7, <2>8, <2>9
<1>2. ASSUME NEW f \in Frames, RequestStep(f)
      PROVE  AnswerInv'
  <2>1. /\ requests[f] \in {"new", "locked"}
        /\ requests' = [requests EXCEPT ![f] = "locked"] \/ requests' = [requests EXCEPT ![f] = "done"]
        /\ dispatcher = "serving"
    BY <1>2 DEF RequestStep, Serving
  <2>2. /\ requests' \in [Frames -> {"none", "new", "locked", "done", "answered", "dropped"}]
        /\ requests'[f] \in {"locked", "done"} /\ \A g \in Frames \ {f} : requests'[g] = requests[g]
    BY <2>1 DEF SessionType
  <2>3. UNCHANGED <<peer, reader, submitted, queue, dispatcher, sending, responses, writer, written>>
    BY <1>2 DEF RequestStep, inputVars, outVars
  <2>4. f <= submitted /\ f # sending /\ f \notin ItemsOf(responses) /\ f \notin ItemsOf(written) /\ f \notin ItemsOf(queue)
    BY <2>1 DEF OnePlace
  <2>5. \A g \in ItemsOf(queue) : g \in Frames  BY DEF ItemsOf, SessionType
  <2>6. OnePlace'  BY <2>2, <2>3, <2>4, <2>5 DEF OnePlace
  <2>7. NoneLost'  BY <2>1, <2>2, <2>3, <2>4 DEF NoneLost
  <2>8. EndsInOrder'  BY <2>3 DEF EndsInOrder, Joined
  <2> QED BY <2>2, <2>3, <2>6, <2>7, <2>8 DEF SessionType
<1>3. ASSUME NEW f \in Frames, Respond(f)
      PROVE  AnswerInv'
  <2>1. requests[f] = "done" /\ requests' = [requests EXCEPT ![f] = "answered"] /\ dispatcher = "serving" /\ sending = Nothing /\ sending' = f
    BY <1>3 DEF Respond, Serving
  <2>2. /\ requests' \in [Frames -> {"none", "new", "locked", "done", "answered", "dropped"}]
        /\ requests'[f] = "answered" /\ \A g \in Frames \ {f} : requests'[g] = requests[g]
    BY <2>1 DEF SessionType
  <2>3. UNCHANGED <<peer, reader, submitted, queue, dispatcher, responses, writer, written>>
    BY <1>3 DEF Respond, inputVars, outVars
  <2>4. f <= submitted /\ f \notin ItemsOf(responses) /\ f \notin ItemsOf(written) /\ f \notin ItemsOf(queue)  BY <2>1 DEF OnePlace
  <2>5. \A g \in ItemsOf(queue) : g \in Frames  BY DEF ItemsOf, SessionType
  <2>6. OnePlace'  BY <2>1, <2>2, <2>3, <2>4, <2>5 DEF OnePlace
  <2>7. NoneLost'  BY <2>1, <2>2, <2>3, <2>4, Names DEF NoneLost
  <2>8. EndsInOrder'  BY <2>1, <2>3 DEF EndsInOrder, Joined
  <2> QED BY <2>1, <2>2, <2>3, <2>6, <2>7, <2>8 DEF SessionType
<1>4. CASE Notify
  <2>1. dispatcher = "serving" /\ sending = Nothing /\ sending' = Notice  BY <1>4 DEF Notify, Serving
  <2>2. UNCHANGED <<peer, reader, submitted, queue, requests, dispatcher, responses, writer, written>>
    BY <1>4 DEF Notify, inputVars, outVars
  <2>3. OnePlace'  BY <2>1, <2>2, Names DEF OnePlace
  <2>4. NoneLost'  BY <2>1, <2>2, Names DEF NoneLost
  <2>5. EndsInOrder'  BY <2>1, <2>2 DEF EndsInOrder, Joined
  <2> QED BY <2>1, <2>2, <2>3, <2>4, <2>5 DEF SessionType
<1> QED BY <1>1, <1>2, <1>3, <1>4

LEMMA OutputSteps ==
    ASSUME AnswerInv, SendDone \/ SendFails \/ Drained \/ Stop
    PROVE  AnswerInv'
<1> USE DEF AnswerInv
<1>1. CASE SendDone
  <2>1. sending \in Frames \cup {Notice} /\ writer = "writing"  BY <1>1 DEF SendDone, SessionType
  <2>2. sending = Notice \/ sending \notin ItemsOf(responses)  BY <2>1 DEF OnePlace
  <2>3. responses' = Append(responses, sending) /\ sending' = Nothing  BY <1>1 DEF SendDone
  <2>4. responses' \in Seq(Frames \cup {Notice}) /\ ItemsOf(responses') = ItemsOf(responses) \cup {sending} /\ NamedOnce(responses')
    BY <2>1, <2>2, <2>3, AppendValues DEF SessionType, OnePlace
  <2>5. UNCHANGED <<peer, reader, submitted, queue, requests, dispatcher, writer, written>>  BY <1>1 DEF SendDone, inputVars
  <2>6. OnePlace'  BY <2>1, <2>3, <2>4, <2>5, Names DEF OnePlace
  <2>7. NoneLost'  BY <2>1, <2>3, <2>4, <2>5 DEF NoneLost, InputDone, Pending
  <2>8. EndsInOrder'  BY <2>1, <2>3, <2>5, Names DEF EndsInOrder, Joined
  <2> QED BY <2>3, <2>4, <2>5, <2>6, <2>7, <2>8 DEF SessionType
<1>2. CASE SendFails
  <2>1. writer = "failed" /\ dispatcher = "serving" /\ dispatcher' = "stopping" /\ sending' = Nothing /\ ~peer
    BY <1>2 DEF SendFails, NoneLost
  <2>2. UNCHANGED <<peer, reader, submitted, queue, responses, writer, written>>  BY <1>2 DEF SendFails, inputVars, outVars
  <2>3. \A f \in Frames : requests'[f] = requests[f] \/ (requests[f] \in {"new", "locked", "done"} /\ requests'[f] = "dropped")
    BY <1>2 DEF SendFails, Pending
  <2>4. requests' \in [Frames -> {"none", "new", "locked", "done", "answered", "dropped"}]  BY <1>2 DEF SendFails, SessionType
  <2>5. \A g \in ItemsOf(queue) : g \in Frames  BY DEF ItemsOf, SessionType
  <2>6. OnePlace'
    <3>1. \A g \in ItemsOf(queue) : requests'[g] = "none"  BY <2>3, <2>5 DEF OnePlace
    <3>2. \A g \in Frames : requests[g] = "answered" => requests'[g] = "answered"  BY <2>3
    <3>3. \A g \in Frames : requests'[g] # "none" => requests[g] # "none"  BY <2>3
    <3> QED BY <2>1, <2>2, <3>1, <3>2, <3>3, Names DEF OnePlace
  <2>7. NoneLost'  BY <2>1, <2>2 DEF NoneLost
  <2>8. EndsInOrder'  BY <2>1, <2>2 DEF EndsInOrder, Joined
  <2> QED BY <2>1, <2>2, <2>4, <2>6, <2>7, <2>8 DEF SessionType
<1>3. CASE Drained
  <2>1. dispatcher = "serving" /\ dispatcher' = "stopping" /\ sending = Nothing /\ InputDone  BY <1>3 DEF Drained, Serving
  <2>2. UNCHANGED <<peer, reader, submitted, queue, requests, sending, responses, writer, written>>
    BY <1>3 DEF Drained, inputVars, outVars
  <2>3. NoneLost'  BY <2>1, <2>2 DEF NoneLost, InputDone, Pending
  <2>4. EndsInOrder'  BY <2>1, <2>2 DEF EndsInOrder, Joined
  <2> QED BY <2>2, <2>3, <2>4 DEF SessionType, OnePlace
<1>4. CASE Stop
  <2>1. dispatcher = "stopping" /\ dispatcher' = "stopped" /\ queue' = <<>>  BY <1>4 DEF Stop
  <2>2. UNCHANGED <<peer, reader, submitted, requests, sending, responses, writer, written>>  BY <1>4 DEF Stop, inputVars, outVars
  <2>3. NoneLost'  BY <2>1, <2>2, EmptyValues DEF NoneLost, InputDone, Pending
  <2>4. EndsInOrder'  BY <2>1, <2>2 DEF EndsInOrder, Joined
  <2>5. OnePlace'  BY <2>1, <2>2, EmptyValues DEF OnePlace
  <2> QED BY <2>1, <2>2, <2>3, <2>4, <2>5 DEF SessionType
<1> QED BY <1>1, <1>2, <1>3, <1>4

LEMMA WriterSteps ==
    ASSUME AnswerInv, WriterWrites \/ WriterEnds \/ FinalReply
    PROVE  AnswerInv'
<1> USE DEF AnswerInv
<1>0. UNCHANGED <<peer, reader, submitted, queue, requests, sending, dispatcher>>
  BY DEF WriterWrites, WriterEnds, FinalReply, inputVars
<1>1. CASE WriterWrites /\ peer
  <2> DEFINE v == Head(responses)
  <2>1. responses \in Seq(Frames \cup {Notice}) /\ responses # <<>> /\ NamedOnce(responses)
    BY <1>1 DEF WriterWrites, SessionType, OnePlace
  <2>2. responses' = Tail(responses) /\ written' = Append(written, v) /\ writer' = writer /\ writer = "writing"
    BY <1>1 DEF WriterWrites
  <2>3. /\ responses' \in Seq(Frames \cup {Notice}) /\ v \in Frames \cup {Notice} /\ v \in ItemsOf(responses)
        /\ ItemsOf(responses') \subseteq ItemsOf(responses)
        /\ \A u \in ItemsOf(responses) : u = v \/ u \in ItemsOf(responses')
        /\ NamedOnce(responses') /\ (v # Notice => v \notin ItemsOf(responses'))
    BY <2>1, <2>2, TailValues
  <2> HIDE DEF v
  <2>4. v = Notice \/ v \notin ItemsOf(written)  BY <2>3 DEF OnePlace
  <2>5. written' \in Seq(Frames \cup {Notice, QuitReply}) /\ ItemsOf(written') = ItemsOf(written) \cup {v} /\ NamedOnce(written')
    BY <2>2, <2>3, <2>4, AppendValues DEF SessionType, OnePlace
  <2>6. OnePlace'  BY <1>0, <2>3, <2>5, Names DEF OnePlace
  <2>7. NoneLost'  BY <1>0, <1>1, <2>2, <2>3, <2>5 DEF NoneLost, InputDone, Pending
  <2>8. QuitReply \notin ItemsOf(written')  BY <2>2, <2>3, <2>5, Names DEF EndsInOrder, Joined
  <2>9. EndsInOrder'  BY <1>0, <2>2, <2>8 DEF EndsInOrder
  <2> QED BY <1>0, <2>3, <2>5, <2>6, <2>7, <2>9 DEF SessionType
<1>2. CASE WriterWrites /\ ~peer
  <2>1. writer' = "failed" /\ writer = "writing" /\ responses' = <<>> /\ written' = written  BY <1>2 DEF WriterWrites
  <2>2. OnePlace'  BY <1>0, <2>1, EmptyValues DEF OnePlace
  <2>3. EndsInOrder'  BY <1>0, <2>1 DEF EndsInOrder, Joined
  <2> QED BY <1>0, <1>2, <2>1, <2>2, <2>3 DEF SessionType, NoneLost
<1>3. CASE WriterEnds
  <2>1. writer = "writing" /\ writer' = "ended" /\ responses = <<>> /\ dispatcher = "stopped" /\ UNCHANGED <<responses, written>>
    BY <1>3 DEF WriterEnds
  <2>2. EndsInOrder'  BY <1>0, <2>1 DEF EndsInOrder, Joined
  <2>3. OnePlace' /\ SessionType'  BY <1>0, <2>1 DEF OnePlace, SessionType
  <2>4. NoneLost'  BY <1>0, <2>1 DEF NoneLost, InputDone, Pending
  <2> QED BY <2>2, <2>3, <2>4
<1>4. CASE FinalReply
  <2>1. Joined /\ ~Exited /\ written' = Append(written, QuitReply) /\ UNCHANGED <<responses, writer>>  BY <1>4 DEF FinalReply
  <2>2. QuitReply \notin ItemsOf(written)
    <3>1. SUFFICES ASSUME QuitReply \in ItemsOf(written) PROVE FALSE  OBVIOUS
    <3>2. written # <<>> /\ Last(written) = QuitReply  BY <3>1, EmptyValues DEF EndsInOrder
    <3> QED BY <2>1, <3>2 DEF Exited
  <2>3. /\ written' \in Seq(Frames \cup {Notice, QuitReply}) /\ ItemsOf(written') = ItemsOf(written) \cup {QuitReply}
        /\ NamedOnce(written') /\ Last(written') = QuitReply
    BY <2>1, <2>2, AppendValues DEF SessionType, OnePlace
  <2>4. OnePlace'  BY <1>0, <2>1, <2>3, Names DEF OnePlace
  <2>5. NoneLost'  BY <1>0, <2>1, <2>3 DEF NoneLost, InputDone, Pending
  <2>6. EndsInOrder'  BY <1>0, <2>1, <2>3 DEF EndsInOrder, Joined
  <2> QED BY <1>0, <2>1, <2>3, <2>4, <2>5, <2>6 DEF SessionType
<1> QED BY <1>1, <1>2, <1>3, <1>4

LEMMA AnswerStarts == SessionInit => AnswerInv
<1> SUFFICES ASSUME SessionInit PROVE AnswerInv  OBVIOUS
<1> USE DEF SessionInit
<1>1. SessionType  BY Names DEF SessionType
<1>2. OnePlace  BY EmptyValues, Names DEF OnePlace
<1>3. NoneLost  BY Names DEF NoneLost, Frames
<1>4. EndsInOrder  BY EmptyValues DEF EndsInOrder
<1> QED BY <1>1, <1>2, <1>3, <1>4 DEF AnswerInv

LEMMA AnswerStays == AnswerInv /\ [SessionNext]_sessionVars => AnswerInv'
<1> SUFFICES ASSUME AnswerInv, [SessionNext]_sessionVars PROVE AnswerInv'  OBVIOUS
<1>1. CASE UNCHANGED sessionVars
  BY <1>1 DEF sessionVars, AnswerInv, SessionType, OnePlace, NoneLost, EndsInOrder, Joined, InputDone, Pending
<1> QED BY <1>1, ReaderSteps, DispatcherSteps, OutputSteps, WriterSteps DEF SessionNext

LEMMA AnswerInvIsOnce == AnswerInv => AnsweredOnce
<1> SUFFICES ASSUME AnswerInv PROVE AnsweredOnce  OBVIOUS
<1>1. \A m, n \in DOMAIN written : written[m] = written[n] /\ written[m] # Notice => m = n  BY DEF AnswerInv, OnePlace, NamedOnce
<1>2. ASSUME Exited, peer, NEW f \in 1..submitted PROVE f \in ItemsOf(written)
  <2>0. f \in Frames  BY Names DEF AnswerInv, SessionType, Frames
  <2>1. queue = <<>> /\ Pending = {} /\ sending = Nothing /\ responses = <<>>
    BY <1>2 DEF AnswerInv, NoneLost, EndsInOrder, Exited, Joined, InputDone
  <2>2. requests[f] = "answered"  BY <1>2, <2>0, <2>1, EmptyValues DEF AnswerInv, NoneLost, SessionType, Pending
  <2> QED BY <1>2, <2>0, <2>1, <2>2, EmptyValues, Names DEF AnswerInv, NoneLost
<1> QED BY <1>1, <1>2 DEF AnsweredOnce, ItemsOf

\* After the answer to a quit the writer has ended, and nothing is written any more.
LEMMA QuitEnds == ASSUME AnswerInv, [SessionNext]_sessionVars, written # <<>>, Last(written) = QuitReply
                  PROVE  written' = written
<1>1. Len(written) \in DOMAIN written  BY DEF AnswerInv, SessionType
<1>2. QuitReply \in ItemsOf(written)  BY <1>1 DEF ItemsOf, Last
<1>3. Joined  BY <1>2 DEF AnswerInv, EndsInOrder
<1>4. Exited  BY <1>3 DEF Exited
<1>5. ~WriterWrites /\ ~FinalReply  BY <1>3, <1>4 DEF WriterWrites, FinalReply, Joined
<1> QED BY <1>5 DEF SessionNext, sessionVars, ReaderSubmits, ReaderEnds, Accept, RequestStep, Respond, Notify, PublishNotice,
                    SendDone, SendFails, Drained, Stop, WriterEnds, PeerGoes, outVars

(* Every frame that was read is answered once, in the queue, the futures and the writer together. *)
THEOREM FramesAnsweredOnce == SessionSafety => []AnsweredOnce
BY AnswerStarts, AnswerStays, AnswerInvIsOnce, PTL DEF SessionSafety

(* Nothing is written after the answer to a quit. *)
THEOREM QuitIsTheLast == SessionSafety => QuitIsLast
<1>1. AnswerInv /\ [SessionNext]_sessionVars => [written # <<>> /\ Last(written) = QuitReply => written' = written]_sessionVars
  BY QuitEnds
<1> QED BY <1>1, AnswerStarts, AnswerStays, PTL DEF SessionSafety, QuitIsLast


\* What the queues, the futures and the threads of a session keep to.
SessionRoom == /\ Len(queue) <= FrameQueue /\ Len(responses) <= ResponseQueue
               /\ IsFiniteSet(Pending) /\ Cardinality(Pending) <= MaxInFlight /\ sessionLock \in 0..MaxFrames
               /\ reader \in {"reading", "eof", "bad", "quit", "failed"} /\ dispatcher \in {"serving", "stopping", "stopped"}
               /\ writer \in {"writing", "failed", "ended"}

LEMMA RoomInSession == ASSUME AnswerInv, SessionRoom, [SessionNext]_sessionVars PROVE SessionRoom'
<1>0. /\ queue \in Seq(Frames) /\ responses \in Seq(Frames \cup {Notice}) /\ sending \in {Nothing, Notice} \cup Frames
      /\ requests \in [Frames -> {"none", "new", "locked", "done", "answered", "dropped"}]
      /\ {FrameQueue, ResponseQueue, MaxInFlight, MaxFrames} \subseteq Nat /\ Cardinality(Pending) \in Nat
      /\ submitted \in 0..MaxFrames /\ Frames = 1..MaxFrames
  BY SessionAssumption, FS_CardinalityType DEF AnswerInv, SessionType, SessionRoom, Frames
<1>1. /\ reader' \in {"reading", "eof", "bad", "quit", "failed"} /\ dispatcher' \in {"serving", "stopping", "stopped"}
      /\ writer' \in {"writing", "failed", "ended"}
  BY DEF SessionRoom, SessionNext, sessionVars, ReaderSubmits, ReaderEnds, Accept, RequestStep, Respond, Notify, PublishNotice,
                    SendDone, SendFails, Drained, Stop, WriterWrites, WriterEnds, FinalReply, PeerGoes, outVars, inputVars
<1>2. sessionLock' \in 0..MaxFrames
  BY <1>0 DEF SessionRoom, SessionNext, sessionVars, ReaderSubmits, ReaderEnds, Accept, RequestStep, Respond, Notify, PublishNotice,
                    SendDone, SendFails, Drained, Stop, WriterWrites, WriterEnds, FinalReply, PeerGoes, outVars, inputVars
<1>3. Len(queue') <= FrameQueue
  <2>1. \/ queue' = queue \/ queue' = <<>> \/ (queue # <<>> /\ queue' = Tail(queue))
        \/ Len(queue) < FrameQueue /\ submitted < MaxFrames /\ queue' = Append(queue, submitted + 1)
    BY DEF SessionNext, sessionVars, ReaderSubmits, ReaderEnds, Accept, RequestStep, Respond, Notify, PublishNotice,
           SendDone, SendFails, Drained, Stop, WriterWrites, WriterEnds, FinalReply, PeerGoes, outVars, inputVars
  <2>2. Len(queue) \in Nat /\ Len(queue) <= FrameQueue  BY <1>0 DEF SessionRoom
  <2>3. CASE Len(queue) < FrameQueue /\ submitted < MaxFrames /\ queue' = Append(queue, submitted + 1)
    <3>1. submitted + 1 \in Frames  BY <1>0, <2>3
    <3>2. Len(queue') = Len(queue) + 1  BY <1>0, <2>3, <3>1
    <3> QED BY <1>0, <2>2, <2>3, <3>2
  <2>4. CASE queue # <<>> /\ queue' = Tail(queue)
    <3>1. Len(queue') = Len(queue) - 1  BY <1>0, <2>4
    <3> QED BY <1>0, <2>2, <3>1
  <2>5. CASE queue' = <<>>  BY <1>0, <2>5
  <2> QED BY <2>1, <2>2, <2>3, <2>4, <2>5
<1>4. Len(responses') <= ResponseQueue
  <2>1. \/ responses' = responses \/ responses' = <<>> \/ (responses # <<>> /\ responses' = Tail(responses))
        \/ Len(responses) < ResponseQueue /\ sending # Nothing /\ responses' = Append(responses, sending)
    BY DEF SessionNext, sessionVars, ReaderSubmits, ReaderEnds, Accept, RequestStep, Respond, Notify, PublishNotice,
           SendDone, SendFails, Drained, Stop, WriterWrites, WriterEnds, FinalReply, PeerGoes, outVars, inputVars
  <2>2. Len(responses) \in Nat /\ Len(responses) <= ResponseQueue  BY <1>0 DEF SessionRoom
  <2>3. CASE Len(responses) < ResponseQueue /\ sending # Nothing /\ responses' = Append(responses, sending)
    <3>1. Len(responses') = Len(responses) + 1  BY <1>0, <2>3
    <3> QED BY <1>0, <2>2, <2>3, <3>1
  <2>4. CASE responses # <<>> /\ responses' = Tail(responses)
    <3>1. Len(responses') = Len(responses) - 1  BY <1>0, <2>4
    <3> QED BY <1>0, <2>2, <3>1
  <2>5. CASE responses' = <<>>  BY <1>0, <2>5
  <2> QED BY <2>1, <2>2, <2>3, <2>4, <2>5
<1>5. IsFiniteSet(Pending') /\ Cardinality(Pending') <= MaxInFlight
  <2>1. ASSUME Pending' \subseteq Pending PROVE IsFiniteSet(Pending') /\ Cardinality(Pending') <= MaxInFlight
    <3>1. IsFiniteSet(Pending') /\ Cardinality(Pending') <= Cardinality(Pending)  BY <2>1, FS_Subset DEF SessionRoom
    <3>2. Cardinality(Pending') \in Nat  BY <3>1, FS_CardinalityType
    <3> QED BY <1>0, <3>1, <3>2 DEF SessionRoom
  <2>2. CASE Accept
    <3>1. Cardinality(Pending) < MaxInFlight /\ requests' = [requests EXCEPT ![Head(queue)] = "new"]  BY <2>2 DEF Accept
    <3>2. Pending' \subseteq Pending \cup {Head(queue)}  BY <1>0, <3>1 DEF Pending
    <3>3. IsFiniteSet(Pending \cup {Head(queue)})  BY FS_AddElement DEF SessionRoom
    <3>4. Cardinality(Pending') \in Nat /\ Cardinality(Pending') <= Cardinality(Pending) + 1  BY <3>2, OneMoreAtMost DEF SessionRoom
    <3>5. IsFiniteSet(Pending')  BY <3>2, <3>3, FS_Subset
    <3> QED BY <1>0, <3>1, <3>4, <3>5
  <2>3. CASE ~Accept
    <3>1. \/ requests' = requests
          \/ \E f \in Pending : requests' = [requests EXCEPT ![f] = "locked"] \/ requests' = [requests EXCEPT ![f] = "done"]
          \/ \E f \in Frames : requests' = [requests EXCEPT ![f] = "answered"]
          \/ requests' = [f \in Frames |-> IF f \in Pending THEN "dropped" ELSE requests[f]]
      BY <2>3 DEF Pending, SessionNext, sessionVars, ReaderSubmits, ReaderEnds, RequestStep, Respond, Notify, PublishNotice,
           SendDone, SendFails, Drained, Stop, WriterWrites, WriterEnds, FinalReply, PeerGoes, outVars, inputVars
    <3>2. \A f \in Frames : requests'[f] \in {"new", "locked", "done"} => f \in Pending  BY <1>0, <3>1 DEF Pending
    <3>3. Pending' \subseteq Pending  BY <3>2 DEF Pending
    <3> QED BY <2>1, <3>3
  <2> QED BY <2>2, <2>3
<1> QED BY <1>1, <1>2, <1>3, <1>4, <1>5 DEF SessionRoom

\* The queues of a session, its futures and its threads keep to their limits and states, however it ends.
THEOREM SessionIsTyped == SessionSafety => []SessionTypeOK
<1>1. SessionInit => SessionRoom
  <2> SUFFICES ASSUME SessionInit PROVE SessionRoom  OBVIOUS
  <2>1. Pending = {} /\ {FrameQueue, ResponseQueue, MaxInFlight, MaxFrames} \subseteq Nat
    BY SessionAssumption DEF SessionInit, Pending
  <2> QED BY <2>1, FS_EmptySet DEF SessionInit, SessionRoom
<1>2. AnswerInv /\ SessionRoom /\ [SessionNext]_sessionVars => SessionRoom'  BY RoomInSession
<1>3. AnswerInv /\ SessionRoom => SessionTypeOK  BY DEF AnswerInv, SessionType, SessionRoom, SessionTypeOK
<1> QED BY <1>1, <1>2, <1>3, AnswerStarts, AnswerStays, PTL DEF SessionSafety

------------------------------------
(* The uploads. *)

UploadRecord == [size : Nat, data : Seq(Nat), open : BOOLEAN]
ConsumerRecord == [at : {"idle", "permit", "running", "ended"}, upload : UploadIds \cup {0}, size : Nat, data : Seq(Nat)]
InOrder(s) == \A n \in 1..Len(s) : s[n] = n
Runs(r) == consumer[r].at = "running"
UploadsType == /\ uploads \in [UploadIds -> UploadRecord] /\ issued \in Nat
               /\ consumer \in [Consumers -> ConsumerRecord]
\* An upload has the chunks that came, in their order; one that runs is gone from the table, and no other has its name.
UploadsInv == /\ UploadsType
              /\ \A u \in UploadIds : InOrder(uploads[u].data)
              /\ \A u \in UploadIds : uploads[u].open => u <= issued
              /\ \A r \in Consumers : Runs(r) => InOrder(consumer[r].data)
              /\ \A r \in Consumers : Runs(r) => Len(consumer[r].data) = consumer[r].size
              /\ \A r \in Consumers : Runs(r) => consumer[r].upload \in UploadIds
              /\ \A r \in Consumers : Runs(r) => consumer[r].upload <= issued
              /\ \A r \in Consumers : Runs(r) => ~uploads[consumer[r].upload].open
              /\ \A r, s \in Consumers : Runs(r) /\ Runs(s) /\ consumer[r].upload = consumer[s].upload => r = s

LEMMA NoUploadType == NoUpload \in UploadRecord /\ ~NoUpload.open /\ InOrder(NoUpload.data)
BY DEF NoUpload, UploadRecord, InOrder

LEMMA InOrderAppend == ASSUME NEW s \in Seq(Nat), InOrder(s), NEW n \in Nat, n - 1 = Len(s)
                       PROVE  Append(s, n) \in Seq(Nat) /\ InOrder(Append(s, n))
BY DEF InOrder

\* A step that changes one upload, without opening it again, and no request.
LEMMA OneUpload ==
    ASSUME UploadsInv, NEW u \in UploadIds, NEW x \in UploadRecord, uploads' = [uploads EXCEPT ![u] = x], InOrder(x.data),
           NEW i \in Nat, issued' = i, issued <= i, x.open => u <= i /\ (uploads[u].open \/ u > issued), consumer' = consumer
    PROVE  UploadsInv'
<1> USE DEF UploadsInv
<1>1. uploads' \in [UploadIds -> UploadRecord] /\ uploads'[u] = x /\ \A v \in UploadIds \ {u} : uploads'[v] = uploads[v]
  BY DEF UploadsType
<1>2. UploadIds \subseteq Nat /\ issued \in Nat  BY UploadAssumption DEF UploadsType
<1>3. UploadsType'  BY <1>1 DEF UploadsType
<1>4. \A v \in UploadIds : InOrder(uploads'[v].data)  BY <1>1
<1>5. \A v \in UploadIds : uploads'[v].open => v <= issued'  BY <1>1, <1>2
<1>6. ASSUME NEW r \in Consumers, Runs(r)
      PROVE  consumer[r].upload <= issued' /\ ~uploads'[consumer[r].upload].open
  <2>1. PICK v \in UploadIds : v = consumer[r].upload /\ v <= issued /\ ~uploads[v].open  BY <1>6
  <2>2. v \in Nat /\ v <= i /\ ~(v > issued)  BY <1>2, <2>1
  <2>3. CASE v = u  BY <1>1, <2>1, <2>2, <2>3
  <2>4. CASE v # u  BY <1>1, <2>1, <2>2, <2>4
  <2> QED BY <2>1, <2>2, <2>3, <2>4
<1> QED BY <1>3, <1>4, <1>5, <1>6 DEF Runs

LEMMA UploadSteps ==
    ASSUME UploadsInv, \/ \E size \in 0..MaxUpload : UploadBegin(size)
                       \/ \E u \in UploadIds : UploadGone(u) \/ \E chunk \in 1..MaxUpload : UploadAppend(u, chunk)
    PROVE  UploadsInv'
<1>0. issued \in Nat /\ uploads \in [UploadIds -> UploadRecord] /\ MaxUpload \in Nat /\ UploadIds \subseteq Nat
  BY UploadAssumption DEF UploadsInv, UploadsType
<1>1. ASSUME NEW size \in 0..MaxUpload, UploadBegin(size) PROVE UploadsInv'
  <2>0. [size |-> size, data |-> <<>>, open |-> TRUE] \in UploadRecord
    <3>1. <<>> \in Seq(Nat) /\ size \in Nat  BY <1>0
    <3> QED BY <3>1 DEF UploadRecord
  <2>1. PICK x \in UploadRecord : x = [size |-> size, data |-> <<>>, open |-> TRUE]  BY <2>0
  <2>2. InOrder(x.data) /\ x.open  BY <2>1 DEF InOrder
  <2>3. issued + 1 \in UploadIds /\ issued' = issued + 1 /\ uploads' = [uploads EXCEPT ![issued + 1] = x] /\ consumer' = consumer
    BY <1>1, <2>1 DEF UploadBegin
  <2>4. PICK v \in UploadIds, j \in Nat : v = issued + 1 /\ j = issued + 1 /\ v > issued  BY <1>0, <2>3
  <2>5. uploads' = [uploads EXCEPT ![v] = x] /\ issued' = j /\ issued <= j /\ v <= j  BY <1>0, <2>3, <2>4
  <2> QED BY <2>2, <2>3, <2>4, <2>5, OneUpload
<1>2. ASSUME NEW u \in UploadIds, UploadGone(u) PROVE UploadsInv'
  <2>1. uploads' = [uploads EXCEPT ![u] = NoUpload] /\ issued' = issued /\ consumer' = consumer  BY <1>2 DEF UploadGone
  <2>2. PICK x \in UploadRecord : x = NoUpload /\ InOrder(x.data) /\ ~x.open  BY NoUploadType
  <2>3. uploads' = [uploads EXCEPT ![u] = x] /\ issued' = issued /\ issued <= issued  BY <1>0, <2>1, <2>2
  <2> QED BY <1>0, <2>1, <2>2, <2>3, OneUpload
<1>3. ASSUME NEW u \in UploadIds, NEW chunk \in 1..MaxUpload, UploadAppend(u, chunk) PROVE UploadsInv'
  <2>1. uploads[u] \in UploadRecord /\ uploads[u].data \in Seq(Nat) /\ InOrder(uploads[u].data) /\ chunk \in Nat
    BY <1>0 DEF UploadsInv, UploadRecord
  <2>2. uploads[u].open /\ chunk - 1 = Len(uploads[u].data) /\ issued' = issued /\ consumer' = consumer
    BY <1>3 DEF UploadAppend, Open
  <2>3. PICK d \in Seq(Nat) : d = Append(uploads[u].data, chunk) /\ InOrder(d)  BY <2>1, <2>2, InOrderAppend
  <2>4. uploads' = [uploads EXCEPT ![u] = [uploads[u] EXCEPT !.data = d]]  BY <1>3, <2>3 DEF UploadAppend
  <2>5. [uploads[u] EXCEPT !.data = d] \in UploadRecord /\ [uploads[u] EXCEPT !.data = d].data = d  BY <2>1 DEF UploadRecord
  <2>6. u <= issued /\ issued <= issued  BY <1>0, <2>2 DEF UploadsInv
  <2>7. PICK x \in UploadRecord : x = [uploads[u] EXCEPT !.data = d] /\ x.data = d  BY <2>5
  <2>8. uploads' = [uploads EXCEPT ![u] = x] /\ InOrder(x.data)  BY <2>3, <2>4, <2>7
  <2> QED BY <1>0, <2>2, <2>6, <2>7, <2>8, OneUpload
<1> QED BY <1>1, <1>2, <1>3

LEMMA ConsumerSteps ==
    ASSUME UploadsInv, NEW r \in Consumers, Take(r) \/ ConsumerEnds(r) \/ \E u \in UploadIds : Acquire(r, u)
    PROVE  UploadsInv'
<1> USE DEF UploadsInv
<1>0. /\ issued \in Nat /\ uploads \in [UploadIds -> UploadRecord] /\ consumer \in [Consumers -> ConsumerRecord]
      /\ consumer[r] \in ConsumerRecord /\ UploadIds \subseteq Nat /\ issued' = issued
  BY UploadAssumption DEF UploadsType, Take, ConsumerEnds, Acquire
<1>1. ASSUME NEW c \in ConsumerRecord, consumer' = [consumer EXCEPT ![r] = c], c.at # "running", uploads' = uploads
      PROVE  UploadsInv'
  <2>1. consumer' \in [Consumers -> ConsumerRecord] /\ consumer'[r] = c /\ \A s \in Consumers \ {r} : consumer'[s] = consumer[s]
    BY <1>0, <1>1
  <2>2. \A s \in Consumers : Runs(s)' => Runs(s) /\ consumer'[s] = consumer[s]  BY <1>1, <2>1 DEF Runs
  <2>3. UploadsType'  BY <1>0, <1>1, <2>1 DEF UploadsType
  <2> QED BY <1>0, <1>1, <2>2, <2>3
<1>2. ASSUME NEW u \in UploadIds, Acquire(r, u) PROVE UploadsInv'
  <2>0. [consumer[r] EXCEPT !.at = "permit", !.upload = u] \in ConsumerRecord /\ [consumer[r] EXCEPT !.at = "permit", !.upload = u].at = "permit"
    BY <1>0 DEF ConsumerRecord
  <2>1. PICK c \in ConsumerRecord : c = [consumer[r] EXCEPT !.at = "permit", !.upload = u] /\ c.at = "permit"  BY <2>0
  <2>2. consumer' = [consumer EXCEPT ![r] = c] /\ uploads' = uploads  BY <1>2, <2>1 DEF Acquire
  <2> QED BY <1>1, <2>1, <2>2
<1>3. ASSUME consumer' = [consumer EXCEPT ![r].at = "ended"], uploads' = uploads PROVE UploadsInv'
  <2>0. [consumer[r] EXCEPT !.at = "ended"] \in ConsumerRecord /\ [consumer[r] EXCEPT !.at = "ended"].at = "ended"
    BY <1>0 DEF ConsumerRecord
  <2>1. PICK c \in ConsumerRecord : c = [consumer[r] EXCEPT !.at = "ended"] /\ c.at = "ended"  BY <2>0
  <2> QED BY <1>1, <1>3, <2>1
<1>4. CASE ConsumerEnds(r)  BY <1>3, <1>4 DEF ConsumerEnds
<1>5. CASE Take(r)
  <2> DEFINE u == consumer[r].upload
  <2>1. CASE Taken(u) = {}  BY <1>3, <1>5, <2>1 DEF Take
  <2>2. CASE Taken(u) # {}
    <3>1. u \in UploadIds /\ uploads[u].open /\ Len(uploads[u].data) = uploads[u].size  BY <2>2 DEF Taken, Open
    <3>2. uploads[u] \in UploadRecord /\ uploads[u].size \in Nat /\ uploads[u].data \in Seq(Nat) /\ u <= issued /\ InOrder(uploads[u].data)
      BY <1>0, <3>1 DEF UploadRecord
    <3>3. PICK c \in ConsumerRecord : c = [consumer[r] EXCEPT !.at = "running", !.size = uploads[u].size, !.data = uploads[u].data]
      BY <1>0, <3>2 DEF ConsumerRecord
    <3>4. c.at = "running" /\ c.size = uploads[u].size /\ c.data = uploads[u].data /\ c.upload = u  BY <1>0, <3>3 DEF ConsumerRecord
    <3>5. consumer' = [consumer EXCEPT ![r] = c] /\ uploads' = [uploads EXCEPT ![u] = NoUpload]  BY <1>5, <2>2, <3>3 DEF Take
    <3>6. consumer' \in [Consumers -> ConsumerRecord] /\ consumer'[r] = c /\ \A s \in Consumers \ {r} : consumer'[s] = consumer[s]
      BY <1>0, <3>5
    <3>7. uploads' \in [UploadIds -> UploadRecord] /\ uploads'[u] = NoUpload /\ \A v \in UploadIds \ {u} : uploads'[v] = uploads[v]
      BY <1>0, <3>1, <3>5, NoUploadType
    <3>8. \A s \in Consumers : Runs(s) => consumer[s].upload # u  BY <3>1
    <3> HIDE DEF u
    <3>9. UploadsType' /\ \A v \in UploadIds : InOrder(uploads'[v].data) /\ (uploads'[v].open => v <= issued')
      BY <1>0, <3>6, <3>7, NoUploadType DEF UploadsType
    <3>10. \A s \in Consumers \ {r} : Runs(s)' => Runs(s) /\ consumer'[s] = consumer[s]  BY <3>6 DEF Runs
    <3>11. ASSUME NEW s \in Consumers, Runs(s)'
           PROVE  /\ InOrder(consumer'[s].data) /\ Len(consumer'[s].data) = consumer'[s].size /\ consumer'[s].upload \in UploadIds
                  /\ consumer'[s].upload <= issued' /\ ~uploads'[consumer'[s].upload].open
      <4>1. CASE s = r  BY <1>0, <3>1, <3>2, <3>4, <3>6, <3>7, <4>1, NoUploadType
      <4>2. CASE s # r
        <5>1. Runs(s) /\ consumer'[s] = consumer[s] /\ consumer[s].upload # u  BY <3>8, <3>10, <3>11, <4>2
        <5>2. consumer[s].upload \in UploadIds \ {u} /\ consumer[s].upload <= issued /\ ~uploads[consumer[s].upload].open  BY <5>1
        <5>3. InOrder(consumer[s].data) /\ Len(consumer[s].data) = consumer[s].size  BY <5>1
        <5> QED BY <1>0, <3>7, <5>1, <5>2, <5>3
      <4> QED BY <4>1, <4>2
    <3>12. ASSUME NEW s \in Consumers, NEW t \in Consumers, Runs(s)', Runs(t)', consumer'[s].upload = consumer'[t].upload
           PROVE  s = t
      BY <3>4, <3>6, <3>8, <3>10, <3>12
    <3> QED BY <3>9, <3>11, <3>12
  <2> QED BY <2>1, <2>2
<1> QED BY <1>2, <1>4, <1>5

LEMMA InOrderIs == ASSUME NEW s \in Seq(Nat), InOrder(s) PROVE s = [n \in 1..Len(s) |-> n]
<1>1. s = [n \in 1..Len(s) |-> s[n]]  OBVIOUS
<1>2. \A n \in 1..Len(s) : s[n] = n  BY DEF InOrder
<1> QED BY <1>1, <1>2, Zenon

(* A consumer that runs has every chunk of its upload, in order. *)
THEOREM UploadsAreWhole == UploadSpec => []UploadWhole
<1>1. UploadInit => UploadsInv
  <2> SUFFICES ASSUME UploadInit PROVE UploadsInv  OBVIOUS
  <2>1. UploadsType  BY NoUploadType DEF UploadInit, UploadsType, ConsumerRecord
  <2>2. \A r \in Consumers : ~Runs(r)  BY DEF UploadInit, Runs
  <2> QED BY <2>1, <2>2, NoUploadType DEF UploadInit, UploadsInv
<1>2. UploadsInv /\ [UploadNext]_uploadVars => UploadsInv'
  <2>1. UploadsInv /\ UNCHANGED uploadVars => UploadsInv'  BY DEF uploadVars, UploadsInv, UploadsType, Runs
  <2> QED BY <2>1, UploadSteps, ConsumerSteps DEF UploadNext
<1>3. UploadsInv => UploadWhole
  <2> SUFFICES ASSUME UploadsInv PROVE UploadWhole  OBVIOUS
  <2>1. ASSUME NEW r \in Consumers, Runs(r) PROVE consumer[r].data = [n \in 1..consumer[r].size |-> n]
    <3>1. consumer[r].data \in Seq(Nat)  BY DEF UploadsInv, UploadsType, ConsumerRecord
    <3>2. Len(consumer[r].data) = consumer[r].size /\ InOrder(consumer[r].data)  BY <2>1 DEF UploadsInv
    <3> QED BY <3>1, <3>2, InOrderIs
  <2>2. ASSUME NEW r \in Consumers, NEW s \in Consumers, Runs(r), Runs(s), consumer[r].upload = consumer[s].upload PROVE r = s
    BY <2>2 DEF UploadsInv
  <2> QED BY <2>1, <2>2 DEF UploadWhole, Runs
<1> QED BY <1>1, <1>2, <1>3, PTL DEF UploadSpec

\* The uploads that are open are finitely many, within the budget, and so are the requests that hold a permit.
BudgetInv == UploadsInv /\ IsFiniteSet(Open) /\ IsFiniteSet(Held) /\ UploadBudget
UploadSizes == [u \in Open |-> uploads[u].size]

LEMMA SizesCount == ASSUME UploadsInv, IsFiniteSet(Open)
                    PROVE  Counts(UploadSizes) /\ DOMAIN UploadSizes = Open /\ ReservedChunks = Total(UploadSizes) /\ Cardinality(Open) \in Nat
                           /\ Total(UploadSizes) \in Nat
<1>1. \A u \in Open : uploads[u].size \in Nat  BY DEF UploadsInv, UploadsType, UploadRecord, Open
<1>2. UploadSizes \in [Open -> Nat] /\ DOMAIN UploadSizes = Open /\ ReservedChunks = Total(UploadSizes)
  BY <1>1 DEF UploadSizes, ReservedChunks
<1>3. Counts(UploadSizes)  BY <1>1 DEF Counts, UploadSizes
<1> QED BY <1>2, <1>3, TotalIs, FS_CardinalityType

\* Uploads that go, or take a chunk, leave no more reserved.
LEMMA FewerUploads ==
    ASSUME UploadsInv, UploadsInv', IsFiniteSet(Open), Open' \subseteq Open, \A u \in Open' : uploads'[u].size = uploads[u].size
    PROVE  IsFiniteSet(Open') /\ Cardinality(Open') <= Cardinality(Open) /\ ReservedChunks' <= ReservedChunks
<1> DEFINE h == [u \in Open' |-> u]
<1>1. IsFiniteSet(Open') /\ Cardinality(Open') <= Cardinality(Open)  BY FS_Subset
<1>2. Counts(UploadSizes) /\ DOMAIN UploadSizes = Open /\ ReservedChunks = Total(UploadSizes)  BY SizesCount
<1>3. (UploadsInv /\ IsFiniteSet(Open) => Counts(UploadSizes) /\ DOMAIN UploadSizes = Open /\ ReservedChunks = Total(UploadSizes) /\ Cardinality(Open) \in Nat
                           /\ Total(UploadSizes) \in Nat)'
  BY SizesCount, PTL
<1>4. Counts(UploadSizes') /\ DOMAIN UploadSizes' = Open' /\ ReservedChunks' = Total(UploadSizes')  BY <1>1, <1>3
<1>5. h \in [DOMAIN UploadSizes' -> DOMAIN UploadSizes] /\ \A u \in DOMAIN UploadSizes' : h[u] = u /\ UploadSizes'[u] = UploadSizes[u]
  BY <1>2, <1>4 DEF UploadSizes
<1> HIDE DEF h
<1>6. GoesInto(UploadSizes', UploadSizes, h)  BY <1>2, <1>5 DEF GoesInto
<1> QED BY <1>1, <1>2, <1>4, <1>6, TotalDrawn

LEMMA BudgetUploads ==
    ASSUME BudgetInv, UploadsInv', \/ \E size \in 0..MaxUpload : UploadBegin(size)
                                   \/ \E u \in UploadIds : UploadGone(u) \/ \E chunk \in 1..MaxUpload : UploadAppend(u, chunk)
    PROVE  BudgetInv'
<1>0. /\ issued \in Nat /\ uploads \in [UploadIds -> UploadRecord] /\ MaxUpload \in Nat /\ UploadSlots \in Nat /\ UploadIds \subseteq Nat
      /\ Cardinality(Open) \in Nat /\ ReservedChunks \in Nat
  BY UploadAssumption, SizesCount DEF BudgetInv, UploadsInv, UploadsType
<1>1. Held' = Held /\ UploadsInv /\ UploadsInv' /\ IsFiniteSet(Held') /\ Cardinality(Held') <= Permits
  BY DEF BudgetInv, UploadBudget, UploadBegin, UploadGone, UploadAppend, Held
<1>2. ASSUME NEW size \in 0..MaxUpload, UploadBegin(size) PROVE BudgetInv'
  <2>1. PICK u \in UploadIds : u = issued + 1 /\ u > issued  BY <1>0, <1>2 DEF UploadBegin
  <2>2. /\ uploads' = [uploads EXCEPT ![u] = [size |-> size, data |-> <<>>, open |-> TRUE]]
        /\ size <= 2 * MaxUpload - ReservedChunks /\ Cardinality(Open) < UploadSlots
    BY <1>2, <2>1 DEF UploadBegin
  <2>3. u \notin Open  BY <1>0, <2>1 DEF BudgetInv, UploadsInv, Open
  <2>4. Open' = Open \cup {u} /\ uploads'[u].size = size /\ \A v \in Open : uploads'[v] = uploads[v]  BY <1>0, <2>2, <2>3 DEF Open
  <2>5. IsFiniteSet(Open') /\ Cardinality(Open') = Cardinality(Open) + 1  BY <2>3, <2>4, FS_AddElement DEF BudgetInv
  <2>6. Counts(UploadSizes) /\ DOMAIN UploadSizes = Open /\ ReservedChunks = Total(UploadSizes)  BY SizesCount DEF BudgetInv
  <2>7. (UploadsInv /\ IsFiniteSet(Open) => Counts(UploadSizes) /\ DOMAIN UploadSizes = Open /\ ReservedChunks = Total(UploadSizes) /\ Cardinality(Open) \in Nat
                           /\ Total(UploadSizes) \in Nat)'
    BY SizesCount, PTL
  <2>8. Counts(UploadSizes') /\ DOMAIN UploadSizes' = Open' /\ ReservedChunks' = Total(UploadSizes')  BY <1>1, <2>5, <2>7
  <2>9. UploadSizes'[u] = size /\ \A v \in Open : UploadSizes'[v] = UploadSizes[v]  BY <2>4 DEF UploadSizes
  <2>10. OneMore(UploadSizes, UploadSizes', u)  BY <2>3, <2>4, <2>5, <2>6, <2>8, <2>9 DEF OneMore
  <2>11. ReservedChunks' = ReservedChunks + size  BY <2>6, <2>8, <2>9, <2>10, TotalAdds
  <2>12. ReservedChunks' <= 2 * MaxUpload /\ Cardinality(Open') <= UploadSlots  BY <1>0, <2>2, <2>5, <2>11
  <2> QED BY <1>1, <2>5, <2>12 DEF BudgetInv, UploadBudget
<1>3. ASSUME Open' \subseteq Open, \A u \in Open' : uploads'[u].size = uploads[u].size PROVE BudgetInv'
  <2>1. IsFiniteSet(Open') /\ Cardinality(Open') <= Cardinality(Open) /\ ReservedChunks' <= ReservedChunks
    BY <1>1, <1>3, FewerUploads DEF BudgetInv
  <2>2. (UploadsInv /\ IsFiniteSet(Open) => ReservedChunks = Total(UploadSizes) /\ Cardinality(Open) \in Nat /\ Total(UploadSizes) \in Nat)'
    BY SizesCount, PTL
  <2>3. ReservedChunks' \in Nat /\ Cardinality(Open') \in Nat  BY <1>1, <2>1, <2>2
  <2>4. ReservedChunks' <= 2 * MaxUpload /\ Cardinality(Open') <= UploadSlots  BY <1>0, <2>1, <2>3 DEF BudgetInv, UploadBudget
  <2> QED BY <1>1, <2>1, <2>4 DEF BudgetInv, UploadBudget
<1>4. ASSUME NEW u \in UploadIds, UploadGone(u) PROVE BudgetInv'
  <2>1. uploads'[u] = NoUpload /\ \A v \in UploadIds \ {u} : uploads'[v] = uploads[v]  BY <1>0, <1>4 DEF UploadGone
  <2> QED BY <1>3, <2>1, NoUploadType DEF Open
<1>5. ASSUME NEW u \in UploadIds, NEW chunk \in 1..MaxUpload, UploadAppend(u, chunk) PROVE BudgetInv'
  <2>1. u \in Open /\ uploads[u].open /\ uploads' = [uploads EXCEPT ![u].data = Append(uploads[u].data, chunk)]
    BY <1>5 DEF UploadAppend, Open
  <2>2. \A v \in UploadIds : uploads'[v].size = uploads[v].size /\ uploads'[v].open = uploads[v].open
    BY <1>0, <2>1 DEF UploadRecord
  <2> QED BY <1>3, <2>2 DEF Open
<1> QED BY <1>2, <1>4, <1>5

LEMMA BudgetConsumers ==
    ASSUME BudgetInv, UploadsInv', NEW r \in Consumers, Take(r) \/ ConsumerEnds(r) \/ \E u \in UploadIds : Acquire(r, u)
    PROVE  BudgetInv'
<1>0. /\ uploads \in [UploadIds -> UploadRecord] /\ consumer \in [Consumers -> ConsumerRecord] /\ {MaxUpload, UploadSlots, Permits} \subseteq Nat
      /\ Cardinality(Open) \in Nat /\ ReservedChunks \in Nat /\ IsFiniteSet(Held) /\ Cardinality(Held) \in Nat
  BY UploadAssumption, SizesCount, FS_CardinalityType DEF BudgetInv, UploadsInv, UploadsType
<1>1. ASSUME Open' \subseteq Open, \A u \in Open' : uploads'[u].size = uploads[u].size, Held' \subseteq Held PROVE BudgetInv'
  <2>1. IsFiniteSet(Open') /\ Cardinality(Open') <= Cardinality(Open) /\ ReservedChunks' <= ReservedChunks
    BY <1>1, FewerUploads DEF BudgetInv
  <2>2. (UploadsInv /\ IsFiniteSet(Open) => ReservedChunks = Total(UploadSizes) /\ Cardinality(Open) \in Nat /\ Total(UploadSizes) \in Nat)'
    BY SizesCount, PTL
  <2>3. ReservedChunks' \in Nat /\ Cardinality(Open') \in Nat  BY <2>1, <2>2
  <2>4. IsFiniteSet(Held') /\ Cardinality(Held') <= Cardinality(Held)  BY <1>0, <1>1, FS_Subset
  <2>5. Cardinality(Held') \in Nat  BY <2>4, FS_CardinalityType
  <2>6. ReservedChunks' <= 2 * MaxUpload /\ Cardinality(Open') <= UploadSlots /\ Cardinality(Held') <= Permits
    BY <1>0, <2>1, <2>3, <2>4, <2>5 DEF BudgetInv, UploadBudget
  <2> QED BY <2>1, <2>4, <2>6 DEF BudgetInv, UploadBudget
<1>2. ASSUME NEW u \in UploadIds, Acquire(r, u) PROVE BudgetInv'
  <2>1. Open' = Open /\ ReservedChunks' = ReservedChunks /\ Cardinality(Held) < Permits /\ consumer[r].at = "idle"
    BY <1>2 DEF Acquire, Open, ReservedChunks
  <2>2. consumer' = [consumer EXCEPT ![r] = [consumer[r] EXCEPT !.at = "permit", !.upload = u]]  BY <1>2 DEF Acquire
  <2>3. consumer'[r].at = "permit" /\ \A s \in Consumers \ {r} : consumer'[s] = consumer[s]  BY <1>0, <2>2 DEF ConsumerRecord
  <2>4. Held' = Held \cup {r} /\ r \notin Held  BY <2>1, <2>3 DEF Held
  <2>5. IsFiniteSet(Held') /\ Cardinality(Held') = Cardinality(Held) + 1  BY <1>0, <2>4, FS_AddElement
  <2>6. Cardinality(Held') <= Permits  BY <1>0, <2>1, <2>5
  <2> QED BY <2>1, <2>5, <2>6 DEF BudgetInv, UploadBudget
<1>3. ASSUME consumer' = [consumer EXCEPT ![r].at = "ended"] PROVE Held' \subseteq Held
  <2>1. consumer'[r].at = "ended" /\ \A s \in Consumers \ {r} : consumer'[s] = consumer[s]  BY <1>0, <1>3 DEF ConsumerRecord
  <2> QED BY <2>1 DEF Held
<1>4. CASE ConsumerEnds(r)
  <2>1. Open' = Open /\ uploads' = uploads  BY <1>4 DEF ConsumerEnds, Open
  <2> QED BY <1>1, <1>3, <1>4, <2>1 DEF ConsumerEnds
<1>5. CASE Take(r)
  <2> DEFINE u == consumer[r].upload
  <2>1. CASE Taken(u) = {}
    <3>1. Open' = Open /\ uploads' = uploads /\ consumer' = [consumer EXCEPT ![r].at = "ended"]  BY <1>5, <2>1 DEF Take, Open
    <3> QED BY <1>1, <1>3, <3>1
  <2>2. CASE Taken(u) # {}
    <3>1. u \in UploadIds /\ consumer[r].at = "permit"  BY <1>5, <2>2 DEF Taken, Open, Take
    <3>2. uploads' = [uploads EXCEPT ![u] = NoUpload]  BY <1>5, <2>2 DEF Take
    <3>3. uploads'[u] = NoUpload /\ \A v \in UploadIds \ {u} : uploads'[v] = uploads[v]  BY <1>0, <3>1, <3>2
    <3>4. consumer' = [consumer EXCEPT ![r].at = "running", ![r].size = uploads[u].size, ![r].data = uploads[u].data]
      BY <1>5, <2>2 DEF Take
    <3>5. \A s \in Consumers \ {r} : consumer'[s] = consumer[s]  BY <1>0, <3>4
    <3> HIDE DEF u
    <3>6. Open' \subseteq Open /\ \A v \in Open' : uploads'[v].size = uploads[v].size  BY <3>1, <3>3, NoUploadType DEF Open
    <3>7. Held' \subseteq Held  BY <3>1, <3>5 DEF Held
    <3> QED BY <1>1, <3>6, <3>7
  <2> QED BY <2>1, <2>2
<1> QED BY <1>2, <1>4, <1>5

\* Uploads stay within their budget, and no more requests than permits work on theirs at once, whoever asks when.
THEOREM UploadsWithinBudget == UploadSpec => []UploadBudget
<1>1. UploadInit => BudgetInv
  <2> SUFFICES ASSUME UploadInit PROVE BudgetInv  OBVIOUS
  <2>1. UploadsInv
    <3>1. NoUpload \in UploadRecord /\ ~NoUpload.open /\ InOrder(NoUpload.data) /\ <<>> \in Seq(Nat)  BY NoUploadType
    <3> QED BY <3>1 DEF UploadInit, UploadsInv, UploadsType, ConsumerRecord, Runs
  <2>2. Open = {} /\ Held = {}  BY NoUploadType DEF UploadInit, Open, Held
  <2>3. IsFiniteSet(Open) /\ IsFiniteSet(Held) /\ Cardinality(Open) = 0 /\ Cardinality(Held) = 0  BY <2>2, FS_EmptySet
  <2>4. UploadSizes = [u \in {} |-> uploads[u].size] /\ ReservedChunks = Total(UploadSizes)  BY <2>2 DEF UploadSizes, ReservedChunks
  <2>5. Units(UploadSizes) = {}  BY <2>4 DEF Units
  <2>6. ReservedChunks = 0  BY <2>4, <2>5, FS_EmptySet DEF Total
  <2> QED BY <2>1, <2>3, <2>6, UploadAssumption DEF BudgetInv, UploadBudget
<1>2. BudgetInv /\ [UploadNext]_uploadVars => BudgetInv'
  <2> SUFFICES ASSUME BudgetInv, [UploadNext]_uploadVars PROVE BudgetInv'  OBVIOUS
  <2>1. CASE UNCHANGED uploadVars
    BY <2>1 DEF uploadVars, BudgetInv, UploadsInv, UploadsType, Runs, UploadBudget, Open, Held, ReservedChunks
  <2>2. CASE \/ \E size \in 0..MaxUpload : UploadBegin(size)
             \/ \E u \in UploadIds : UploadGone(u) \/ \E chunk \in 1..MaxUpload : UploadAppend(u, chunk)
    BY <2>2, UploadSteps, BudgetUploads DEF BudgetInv
  <2>3. ASSUME NEW r \in Consumers, Take(r) \/ ConsumerEnds(r) \/ \E u \in UploadIds : Acquire(r, u) PROVE BudgetInv'
    BY <2>3, ConsumerSteps, BudgetConsumers DEF BudgetInv
  <2> QED BY <2>1, <2>2, <2>3 DEF UploadNext
<1>3. BudgetInv => UploadBudget  BY DEF BudgetInv
<1> QED BY <1>1, <1>2, <1>3, PTL DEF UploadSpec

------------------------------------
(* Jobs *)

FileRecord == [job : JobStates, old : BOOLEAN, display : Displays]
WorkerRecord == [at : {"none", "starting", "running", "ending"}, term : BOOLEAN, outcome : {"none"} \cup Settled,
                 display : Displays]
\* What a directory f and a worker w of job j have to do with each other.
JobFits(j, f, w) ==
  /\ f.job = "done" => f.display = "answer" /\ w.at = "none"
  /\ w.at = "ending" => w.outcome \in Settled /\ (w.outcome = "done" => w.display = "answer")
  /\ w.at \in {"running", "ending"} /\ j \notin doubted => f.job = "running"
  /\ replaced /\ w.at # "none" => j \in doubted
JobsInv == /\ JobsTypeOK /\ \A j \in JobIds : JobFits(j, files[j], workers[j])
           /\ Cardinality(ActiveJobs(files) \ doubted) <= MaxActive /\ KeptBound
StaysSettled == \A j \in JobIds \ doubted : files[j].job \in Settled => files'[j].job \in {files[j].job, "absent", "bare"}

LEMMA JobFields ==
  ASSUME JobsInv, NEW j \in JobIds
  PROVE  /\ files[j] \in FileRecord /\ workers[j] \in WorkerRecord /\ JobFits(j, files[j], workers[j])
         /\ files[j].job \in JobStates /\ files[j].display \in Displays /\ files[j].old \in BOOLEAN
BY DEF JobsInv, JobsTypeOK, FileRecord, WorkerRecord

LEMMA FewerJobs ==
  ASSUME NEW S \in SUBSET JobIds, NEW T \in SUBSET S
  PROVE  IsFiniteSet(S) /\ IsFiniteSet(T) /\ Cardinality(T) <= Cardinality(S) /\ Cardinality(S) \in Nat /\ Cardinality(T) \in Nat
<1>1. IsFiniteSet(S)  BY FS_Subset, JobsAssumption
<1>2. IsFiniteSet(T) /\ Cardinality(T) <= Cardinality(S)  BY <1>1, FS_Subset
<1>. QED  BY <1>1, <1>2, FS_CardinalityType

LEMMA StillBounded ==
  ASSUME JobsInv, ActiveJobs(files') \ doubted' \in SUBSET (ActiveJobs(files) \ doubted),
         Directories(files') \in SUBSET Directories(files)
  PROVE  Cardinality(ActiveJobs(files') \ doubted') <= MaxActive /\ Cardinality(Directories(files')) <= MaxKept
<1>1. ActiveJobs(files) \ doubted \in SUBSET JobIds /\ Directories(files) \in SUBSET JobIds  BY DEF ActiveJobs, Directories
<1>2. Cardinality(ActiveJobs(files) \ doubted) <= MaxActive /\ Cardinality(Directories(files)) <= MaxKept  BY DEF JobsInv, KeptBound
<1>. QED  BY <1>1, <1>2, FewerJobs, JobsAssumption

\* A step of one job.
LEMMA OneJob ==
  ASSUME JobsInv, NEW j \in JobIds, NEW f \in FileRecord, NEW w \in WorkerRecord,
         files' = [files EXCEPT ![j] = f], workers' = [workers EXCEPT ![j] = w], UNCHANGED <<replaced, doubted, upgrades>>,
         JobFits(j, f, w), f.job # "absent" => files[j].job # "absent",
         f.job \in {"queued", "running"} => files[j].job \in {"queued", "running"} \/ j \in doubted,
         files[j].job \in Settled => f.job \in {files[j].job, "absent", "bare"} \/ j \in doubted
  PROVE  JobsInv' /\ StaysSettled
<1>1. JobsTypeOK'  BY DEF JobsInv, JobsTypeOK, FileRecord, WorkerRecord
<1>2. /\ files'[j] = f /\ workers'[j] = w
      /\ \A k \in JobIds \ {j} : files'[k] = files[k] /\ workers'[k] = workers[k]
  BY DEF JobsInv, JobsTypeOK
<1>3. \A k \in JobIds : JobFits(k, files[k], workers[k])'  BY <1>2, JobFields DEF JobFits
<1>4. ActiveJobs(files') \ doubted \in SUBSET (ActiveJobs(files) \ doubted) /\ ActiveJobs(files) \ doubted \in SUBSET JobIds
  BY <1>2 DEF ActiveJobs
<1>5. Directories(files') \in SUBSET Directories(files) /\ Directories(files) \in SUBSET JobIds  BY <1>2 DEF Directories
<1>6. doubted' = doubted  OBVIOUS
<1>7. Cardinality(ActiveJobs(files') \ doubted') <= MaxActive /\ Cardinality(Directories(files')) <= MaxKept
  BY <1>4, <1>5, <1>6, StillBounded
<1>8. StaysSettled  BY <1>2 DEF StaysSettled
<1>. QED  BY <1>1, <1>3, <1>7, <1>8 DEF JobsInv, KeptBound

\* Looking at a job changes it only to "failed", and not while its worker is seen.
LEMMA RefreshedJob ==
  ASSUME JobsInv, NEW j \in JobIds
  PROVE  /\ AgentRefreshed(j) \in FileRecord /\ AgentRefreshed(j).display = files[j].display
         /\ \/ AgentRefreshed(j) = files[j]
            \/ files[j].job \in {"queued", "running"} /\ AgentRefreshed(j).job = "failed"
         /\ JobFits(j, AgentRefreshed(j), workers[j])
<1>1. files[j] \in FileRecord /\ JobFits(j, files[j], workers[j])  BY JobFields
<1>2. CASE ~LooksDead(j)  BY <1>1, <1>2 DEF AgentRefreshed
<1>3. CASE LooksDead(j)
  <2>1. /\ AgentRefreshed(j) \in FileRecord /\ AgentRefreshed(j).display = files[j].display
        /\ AgentRefreshed(j).job = "failed"
    BY <1>1, <1>3 DEF AgentRefreshed, FileRecord, JobStates, Settled
  <2>2. files[j].job \in {"queued", "running"}  BY <1>3 DEF LooksDead
  <2>3. ~(workers[j].at \in {"running", "ending"} /\ j \notin doubted)
    <3>1. CASE replaced  BY <1>1, <3>1 DEF JobFits
    <3>2. CASE ~replaced  BY <1>1, <1>3, <3>2 DEF JobFits, LooksDead, Seen, Claudes
    <3>. QED  BY <3>1, <3>2
  <2>. QED  BY <1>1, <2>1, <2>2, <2>3 DEF JobFits
<1>. QED  BY <1>2, <1>3

LEMMA JobCallSteps ==
  ASSUME JobsInv, NEW j \in JobIds, JobShow(j) \/ JobCancel(j) \/ JobForget(j) \/ GrowsOld(j)
  PROVE  JobsInv' /\ StaysSettled
<1>1. /\ files[j] \in FileRecord /\ workers[j] \in WorkerRecord /\ JobFits(j, files[j], workers[j])
      /\ workers = [workers EXCEPT ![j] = workers[j]] /\ files = [files EXCEPT ![j] = files[j]]
  BY JobFields DEF JobsInv, JobsTypeOK
<1>2. PICK r \in FileRecord : r = AgentRefreshed(j)  BY RefreshedJob
<1>3. /\ r = files[j] \/ (files[j].job \in {"queued", "running"} /\ r.job = "failed")
      /\ JobFits(j, r, workers[j])
  BY <1>2, RefreshedJob
<1>4. ASSUME files' = [files EXCEPT ![j] = r], UNCHANGED <<workers, replaced, doubted, upgrades>>
      PROVE  JobsInv' /\ StaysSettled
  <2>1. /\ r.job # "absent" => files[j].job # "absent"
        /\ r.job \in {"queued", "running"} => files[j].job \in {"queued", "running"}
        /\ files[j].job \in Settled => r.job \in {files[j].job, "absent", "bare"}
    BY <1>3 DEF Settled
  <2>. QED  BY <1>1, <1>3, <1>4, <2>1, OneJob
<1>5. CASE JobShow(j)  BY <1>2, <1>4, <1>5 DEF JobShow
<1>6. CASE JobCancel(j)
  <2>1. CASE r.job \notin {"queued", "running"}  BY <1>2, <1>4, <1>6, <2>1 DEF JobCancel
  <2>2. CASE r.job \in {"queued", "running"}
    <3>1. r = files[j]  BY <1>3, <2>2
    <3>2. CASE r.job = "running" /\ Seen(j)
      <4>1. PICK w \in WorkerRecord : w = [workers[j] EXCEPT !.term = TRUE] /\ w.at = workers[j].at /\ w.outcome = workers[j].outcome
                                      /\ w.display = workers[j].display
        <5>1. [workers[j] EXCEPT !.term = TRUE] \in WorkerRecord  BY <1>1 DEF WorkerRecord
        <5>2. [workers[j] EXCEPT !.term = TRUE].at = workers[j].at  BY <1>1 DEF WorkerRecord
        <5>3. [workers[j] EXCEPT !.term = TRUE].outcome = workers[j].outcome  BY <1>1 DEF WorkerRecord
        <5>4. [workers[j] EXCEPT !.term = TRUE].display = workers[j].display  BY <1>1 DEF WorkerRecord
        <5>. QED  BY <5>1, <5>2, <5>3, <5>4
      <4>2. workers' = [workers EXCEPT ![j] = w] /\ files' = [files EXCEPT ![j] = r] /\ UNCHANGED <<replaced, doubted, upgrades>>
        BY <1>1, <1>2, <1>6, <2>2, <3>2, <4>1 DEF JobCancel
      <4>3. JobFits(j, r, w)  BY <1>3, <4>1 DEF JobFits
      <4>. QED  BY <3>1, <4>2, <4>3, OneJob
    <3>3. CASE ~(r.job = "running" /\ Seen(j))
      <4>1. PICK f \in FileRecord : f = [files[j] EXCEPT !.job = "cancelled"] /\ f.job = "cancelled"
        <5>1. [files[j] EXCEPT !.job = "cancelled"] \in FileRecord  BY <1>1 DEF FileRecord, JobStates, Settled
        <5>2. [files[j] EXCEPT !.job = "cancelled"].job = "cancelled"  BY <1>1 DEF FileRecord, JobStates, Settled
        <5>. QED  BY <5>1, <5>2
      <4>2. workers' = workers /\ files' = [files EXCEPT ![j] = f] /\ UNCHANGED <<replaced, doubted, upgrades>>
        BY <1>1, <1>2, <1>6, <2>2, <3>3, <4>1 DEF JobCancel
      <4>3. ~(workers[j].at \in {"running", "ending"} /\ j \notin doubted)  BY <1>1, <3>1, <3>3 DEF JobFits, Seen, Claudes
      <4>4. JobFits(j, f, workers[j])  BY <1>1, <4>1, <4>3 DEF JobFits
      <4>5. files[j].job \notin Settled \cup {"absent"}  BY <2>2, <3>1 DEF Settled
      <4>. QED  BY <1>1, <4>1, <4>2, <4>4, <4>5, OneJob
    <3>. QED  BY <3>2, <3>3
  <2>. QED  BY <2>1, <2>2
<1>7. CASE JobForget(j)
  <2>1. PICK left \in {"absent", "bare"} : files' = [files EXCEPT ![j] = [NoJob EXCEPT !.job = left]]  BY <1>7 DEF JobForget
  <2>2. PICK f \in FileRecord : f = [NoJob EXCEPT !.job = left] /\ f.job = left
    <3>1. [NoJob EXCEPT !.job = left] \in FileRecord  BY DEF FileRecord, JobStates, Displays, NoJob
    <3>2. [NoJob EXCEPT !.job = left].job = left  BY DEF FileRecord, JobStates, Displays, NoJob
    <3>. QED  BY <3>1, <3>2
  <2>3. r.job \in Settled /\ files[j].job \notin {"absent", "bare"}  BY <1>2, <1>7 DEF JobForget
  <2>4. ~(workers[j].at \in {"running", "ending"} /\ j \notin doubted)  BY <1>3, <2>3 DEF JobFits, Settled
  <2>5. JobFits(j, f, workers[j])  BY <1>1, <2>2, <2>4 DEF JobFits
  <2>6. files' = [files EXCEPT ![j] = f] /\ UNCHANGED <<workers, replaced, doubted, upgrades>>  BY <1>7, <2>1, <2>2 DEF JobForget
  <2>. QED  BY <1>1, <2>2, <2>3, <2>5, <2>6, OneJob
<1>8. CASE GrowsOld(j)
  <2>1. PICK f \in FileRecord : f = [files[j] EXCEPT !.old = TRUE] /\ f.job = files[j].job /\ f.display = files[j].display
    <3>1. [files[j] EXCEPT !.old = TRUE] \in FileRecord  BY <1>1 DEF FileRecord
    <3>2. [files[j] EXCEPT !.old = TRUE].job = files[j].job  BY <1>1 DEF FileRecord
    <3>3. [files[j] EXCEPT !.old = TRUE].display = files[j].display  BY <1>1 DEF FileRecord
    <3>. QED  BY <3>1, <3>2, <3>3
  <2>2. files' = [files EXCEPT ![j] = f] /\ UNCHANGED <<workers, replaced, doubted, upgrades>>  BY <1>1, <1>8, <2>1 DEF GrowsOld
  <2>3. JobFits(j, f, workers[j])  BY <1>1, <2>1 DEF JobFits
  <2>. QED  BY <1>1, <2>1, <2>2, <2>3, OneJob
<1>. QED  BY <1>5, <1>6, <1>7, <1>8

LEMMA WorkerSteps ==
  ASSUME JobsInv, NEW j \in JobIds,
         WorkerBegins(j) \/ WorkerSnapshot(j) \/ WorkerEnds(j) \/ WorkerSaves(j) \/ WorkerDies(j)
  PROVE  JobsInv' /\ StaysSettled
<1>1. /\ files[j] \in FileRecord /\ workers[j] \in WorkerRecord /\ JobFits(j, files[j], workers[j])
      /\ workers = [workers EXCEPT ![j] = workers[j]] /\ files = [files EXCEPT ![j] = files[j]]
      /\ files \in [JobIds -> FileRecord] /\ workers \in [JobIds -> WorkerRecord]
  BY JobFields DEF JobsInv, JobsTypeOK, FileRecord, WorkerRecord
<1>2. NoWorker \in WorkerRecord /\ NoWorker.at = "none" /\ UNCHANGED <<replaced, doubted, upgrades>>
  BY DEF NoWorker, WorkerRecord, Displays, WorkerBegins, WorkerSnapshot, WorkerEnds, WorkerSaves, WorkerDies
<1>3. ASSUME workers' = [workers EXCEPT ![j] = NoWorker], files' = files
      PROVE  JobsInv' /\ StaysSettled
  <2>1. JobFits(j, files[j], NoWorker)  BY <1>1, <1>2 DEF JobFits
  <2>. QED  BY <1>1, <1>2, <1>3, <2>1, OneJob
<1>4. CASE WorkerBegins(j)
  <2>1. CASE StillQueued(j)
    <3>1. PICK f \in FileRecord : f = [files[j] EXCEPT !.job = "running"] /\ f.job = "running"
      <4>1. [files[j] EXCEPT !.job = "running"] \in FileRecord  BY <1>1 DEF FileRecord, JobStates
      <4>2. [files[j] EXCEPT !.job = "running"].job = "running"  BY <1>1 DEF FileRecord, JobStates
      <4>. QED  BY <4>1, <4>2
    <3>2. PICK w \in WorkerRecord : w = [workers[j] EXCEPT !.at = "running", !.display = "partial"] /\ w.at = "running"
      <4>1. [workers[j] EXCEPT !.at = "running", !.display = "partial"] \in WorkerRecord  BY <1>1 DEF WorkerRecord, Displays
      <4>2. [workers[j] EXCEPT !.at = "running", !.display = "partial"].at = "running"  BY <1>1 DEF WorkerRecord, Displays
      <4>. QED  BY <4>1, <4>2
    <3>3. files' = [files EXCEPT ![j] = f] /\ workers' = [workers EXCEPT ![j] = w] /\ workers[j].at = "starting" /\ files[j].job = "queued"
      BY <1>1, <1>4, <2>1, <3>1, <3>2 DEF WorkerBegins, StillQueued
    <3>4. JobFits(j, f, w) /\ files[j].job \notin Settled  BY <1>1, <3>1, <3>2, <3>3 DEF JobFits, Settled
    <3>. QED  BY <1>2, <3>1, <3>3, <3>4, OneJob
  <2>2. CASE ~StillQueued(j)  BY <1>3, <1>4, <2>2 DEF WorkerBegins
  <2>. QED  BY <2>1, <2>2
<1>5. CASE WorkerSnapshot(j)
  <2>1. PICK display \in Displays : /\ files' = [files EXCEPT ![j].job = "running", ![j].display = display]
                                  /\ workers' = [workers EXCEPT ![j].display = display]
    BY <1>5 DEF WorkerSnapshot, Displays
  <2>2. PICK f \in FileRecord : f = [files[j] EXCEPT !.job = "running", !.display = display] /\ f.job = "running"
    <3>1. [files[j] EXCEPT !.job = "running", !.display = display] \in FileRecord  BY <1>1 DEF FileRecord, JobStates
    <3>2. [files[j] EXCEPT !.job = "running", !.display = display].job = "running"  BY <1>1 DEF FileRecord, JobStates
    <3>. QED  BY <3>1, <3>2
  <2>3. PICK w \in WorkerRecord : w = [workers[j] EXCEPT !.display = display] /\ w.at = workers[j].at
    <3>1. [workers[j] EXCEPT !.display = display] \in WorkerRecord  BY <1>1 DEF WorkerRecord
    <3>2. [workers[j] EXCEPT !.display = display].at = workers[j].at  BY <1>1 DEF WorkerRecord
    <3>. QED  BY <3>1, <3>2
  <2>4. files' = [files EXCEPT ![j] = f] /\ workers' = [workers EXCEPT ![j] = w] /\ workers[j].at = "running" /\ files[j].job # "absent"
    BY <1>1, <1>5, <2>1, <2>2, <2>3 DEF WorkerSnapshot, Exists
  <2>5. JobFits(j, f, w) /\ (files[j].job = "running" \/ j \in doubted)  BY <1>1, <2>2, <2>3, <2>4 DEF JobFits
  <2>6. files[j].job = "running" => files[j].job \notin Settled  BY DEF Settled
  <2>. QED  BY <1>2, <2>2, <2>4, <2>5, <2>6, OneJob
<1>6. CASE WorkerEnds(j)
  <2>1. PICK outcome \in Settled :
          workers' = [workers EXCEPT ![j].at = "ending", ![j].outcome = outcome,
                                     ![j].display = IF outcome = "done" THEN "answer" ELSE @]
    BY <1>6 DEF WorkerEnds, Settled
  <2>2. PICK w \in WorkerRecord : /\ w = [workers[j] EXCEPT !.at = "ending", !.outcome = outcome,
                                                            !.display = IF outcome = "done" THEN "answer" ELSE @]
                                  /\ w.at = "ending" /\ w.outcome = outcome /\ outcome = "done" => w.display = "answer"
    <3>1. [workers[j] EXCEPT !.at = "ending", !.outcome = outcome, !.display = IF outcome = "done" THEN "answer" ELSE @] \in WorkerRecord
      BY <1>1 DEF WorkerRecord, Displays
    <3>2. [workers[j] EXCEPT !.at = "ending", !.outcome = outcome, !.display = IF outcome = "done" THEN "answer" ELSE @].at = "ending" /\ [workers[j] EXCEPT !.at = "ending", !.outcome = outcome, !.display = IF outcome = "done" THEN "answer" ELSE @].outcome = outcome /\ outcome = "done" => [workers[j] EXCEPT !.at = "ending", !.outcome = outcome, !.display = IF outcome = "done" THEN "answer" ELSE @].display = "answer"
      BY <1>1 DEF WorkerRecord, Displays
    <3>. QED  BY <3>1, <3>2
  <2>3. workers' = [workers EXCEPT ![j] = w] /\ files' = files /\ workers[j].at = "running"
    BY <1>1, <1>6, <2>1, <2>2 DEF WorkerEnds
  <2>4. JobFits(j, files[j], w)  BY <1>1, <2>2, <2>3 DEF JobFits
  <2>. QED  BY <1>1, <1>2, <2>3, <2>4, OneJob
<1>7. CASE WorkerSaves(j)
  <2>1. workers[j].at = "ending" /\ workers' = [workers EXCEPT ![j] = NoWorker]  BY <1>7 DEF WorkerSaves
  <2>2. PICK saved \in {{}, {"display"}, {"display", "job"}} :
          /\ saved # {} => files[j].job # "absent"
          /\ files' = [files EXCEPT ![j].display = IF "display" \in saved THEN workers[j].display ELSE @,
                                    ![j].job = IF "job" \in saved THEN workers[j].outcome ELSE @]
    BY <1>7 DEF WorkerSaves, FinalWrites, Exists
  <2>3. workers[j].outcome \in JobStates /\ workers[j].display \in Displays /\ workers[j].outcome \in Settled
    BY <1>1, <2>1 DEF JobFits, WorkerRecord, JobStates
  <2>4. PICK f \in FileRecord : /\ f = [files[j] EXCEPT !.display = IF "display" \in saved THEN workers[j].display ELSE @,
                                                        !.job = IF "job" \in saved THEN workers[j].outcome ELSE @]
                                /\ f.display = IF "display" \in saved THEN workers[j].display ELSE files[j].display
                                /\ f.job = IF "job" \in saved THEN workers[j].outcome ELSE files[j].job
    <3>1. PICK d \in Displays : d = IF "display" \in saved THEN workers[j].display ELSE files[j].display
      BY <1>1, <2>3 DEF FileRecord
    <3>2. PICK s \in JobStates : s = IF "job" \in saved THEN workers[j].outcome ELSE files[j].job  BY <1>1, <2>3 DEF FileRecord
    <3>3. /\ [files[j] EXCEPT !.display = d, !.job = s] \in FileRecord
          /\ [files[j] EXCEPT !.display = d, !.job = s].display = d /\ [files[j] EXCEPT !.display = d, !.job = s].job = s
      BY <1>1 DEF FileRecord
    <3>. QED  BY <3>1, <3>2, <3>3
  <2>5. files' = [files EXCEPT ![j] = f]  BY <1>1, <2>2, <2>4
  <2>6. files[j].job # "done" /\ (files[j].job = "running" \/ j \in doubted)  BY <1>1, <2>1 DEF JobFits
  <2>7. JobFits(j, f, NoWorker)  BY <1>1, <1>2, <2>1, <2>3, <2>4, <2>6 DEF JobFits
  <2>8. f.job # "absent" => files[j].job # "absent"  BY <2>2, <2>4
  <2>9. /\ f.job \in {"queued", "running"} => files[j].job \in {"queued", "running"}
        /\ files[j].job \in Settled => j \in doubted
    BY <2>3, <2>4, <2>6 DEF Settled
  <2>. QED  BY <1>2, <2>1, <2>5, <2>7, <2>8, <2>9, OneJob
<1>8. CASE WorkerDies(j)  BY <1>3, <1>8 DEF WorkerDies
<1>. QED  BY <1>4, <1>5, <1>6, <1>7, <1>8

\* The listing as it is after every job was looked at.
LEMMA ListedJobs ==
  ASSUME JobsInv
  PROVE  /\ AllRefreshed \in [JobIds -> FileRecord]
         /\ \A j \in JobIds : /\ JobFits(j, AllRefreshed[j], workers[j])
                              /\ \/ AllRefreshed[j] = files[j]
                                 \/ files[j].job \in {"queued", "running"} /\ AllRefreshed[j].job = "failed"
<1>1. \A j \in JobIds : AllRefreshed[j] \in {files[j], AgentRefreshed(j)}  BY DEF AllRefreshed
<1>2. AllRefreshed = [j \in JobIds |-> AllRefreshed[j]]  BY DEF AllRefreshed
<1>3. \A j \in JobIds : AllRefreshed[j] \in FileRecord  BY <1>1, JobFields, RefreshedJob
<1>. QED  BY <1>1, <1>2, <1>3, JobFields, RefreshedJob

LEMMA ListSteps ==
  ASSUME JobsInv, JobsList
  PROVE  JobsInv' /\ StaysSettled
<1>1. files' = AllRefreshed /\ UNCHANGED <<workers, replaced, doubted, upgrades>>  BY DEF JobsList
<1>2. /\ ActiveJobs(files') \ doubted \in SUBSET (ActiveJobs(files) \ doubted) /\ ActiveJobs(files) \ doubted \in SUBSET JobIds
      /\ Directories(files') \in SUBSET Directories(files) /\ Directories(files) \in SUBSET JobIds
  BY <1>1, ListedJobs DEF ActiveJobs, Directories
<1>3. Cardinality(ActiveJobs(files') \ doubted) <= MaxActive /\ Cardinality(Directories(files')) <= MaxKept
  BY <1>2, FewerJobs, JobsAssumption DEF JobsInv, KeptBound
<1>4. JobsTypeOK'  BY <1>1, ListedJobs DEF JobsInv, JobsTypeOK, FileRecord
<1>5. \A k \in JobIds : JobFits(k, files[k], workers[k])'  BY <1>1, ListedJobs DEF JobFits
<1>6. StaysSettled  BY <1>1, ListedJobs DEF StaysSettled, Settled
<1>. QED  BY <1>1, <1>3, <1>4, <1>5, <1>6 DEF JobsInv, KeptBound

LEMMA ExcessIs ==
  ASSUME NEW f, Cardinality(Directories(f)) \in Nat
  PROVE  Excess(f) \in Nat /\ Excess(f) >= Cardinality(Directories(f)) - MaxKept + 1
<1>. DEFINE x == Cardinality(Directories(f)) - MaxKept + 1
<1>1. x \in Int  BY JobsAssumption
<1>. HIDE DEF x
<1>2. \E m \in {0, x} : \A y \in {0, x} : m >= y  BY <1>1
<1>3. PICK m \in {0, x} : m = Max({0, x}) /\ \A y \in {0, x} : m >= y  BY <1>2 DEF Max
<1>4. m \in Nat /\ m >= x  BY <1>1, <1>3
<1>. QED  BY <1>3, <1>4 DEF Excess, x

\* Retention leaves room for one more directory and takes no active one.
LEMMA RetainedLeaves ==
  ASSUME NEW f \in [JobIds -> FileRecord], Cardinality(ActiveJobs(f)) < MaxActive, NEW kept \in Retained(f)
  PROVE  /\ kept \in [JobIds -> FileRecord] /\ Cardinality(Directories(kept)) < MaxKept
         /\ \A j \in JobIds : kept[j] = f[j] \/ (kept[j] = NoJob /\ f[j].job \notin {"queued", "running"})
<1>. DEFINE d == Directories(f)
            a == ActiveJobs(f)
            idle == d \ a
<1>1. /\ d \in SUBSET JobIds /\ a \in SUBSET d /\ IsFiniteSet(d) /\ IsFiniteSet(a) /\ IsFiniteSet(idle)
      /\ Cardinality(d) \in Nat /\ Cardinality(a) \in Nat /\ Cardinality(idle) \in Nat
  <2>1. d \in SUBSET JobIds /\ a \in SUBSET d /\ idle \in SUBSET d  BY DEF Directories, ActiveJobs
  <2>. QED  BY <2>1, FewerJobs
<1>2. PICK g \in SUBSET idle : /\ kept = [k \in JobIds |-> IF k \in g THEN NoJob ELSE f[k]]
                               /\ g = idle \/ (Cardinality(g) = Excess(f))
  BY DEF Retained, kSubset
<1>3. NoJob \in FileRecord /\ NoJob.job = "absent"  BY DEF NoJob, FileRecord, JobStates, Displays
<1>4. \A j \in JobIds : kept[j] = f[j] \/ (kept[j] = NoJob /\ f[j].job \notin {"queued", "running"})
  BY <1>2 DEF ActiveJobs, Directories
<1>5. Directories(kept) = d \ g  BY <1>1, <1>2, <1>3 DEF Directories
<1>6. CASE g = idle
  <2>1. Directories(kept) = a  BY <1>1, <1>5, <1>6
  <2>. QED  BY <1>1, <1>2, <1>3, <1>4, <2>1, JobsAssumption
<1>7. CASE Cardinality(g) = Excess(f)
  <2>1. IsFiniteSet(g) /\ g \subseteq d  BY <1>1, FS_Subset
  <2>2. Cardinality(d \ g) = Cardinality(d) - Cardinality(d \cap g)  BY <1>1, FS_Difference
  <2>3. d \cap g = g  BY <2>1
  <2>4. Excess(f) \in Nat /\ Excess(f) >= Cardinality(d) - MaxKept + 1  BY <1>1, ExcessIs
  <2>. HIDE DEF d, idle
  <2>5. Cardinality(d \ g) < MaxKept
    <3>1. Cardinality(d \ g) = Cardinality(d) - Excess(f)  BY <1>7, <2>2, <2>3
    <3>2. MaxKept \in Nat /\ Cardinality(d) \in Nat  BY <1>1, JobsAssumption
    <3>. QED  BY <2>4, <3>1, <3>2
  <2>. QED  BY <1>2, <1>3, <1>4, <1>5, <2>5
<1>. QED  BY <1>2, <1>6, <1>7

LEMMA NewSteps ==
  ASSUME JobsInv, NEW j \in JobIds, NewAgentJob(j)
  PROVE  JobsInv' /\ StaysSettled
<1>1. /\ files[j].job = "absent" /\ workers[j].at = "none" /\ doubted' = doubted \ {j} /\ UNCHANGED <<replaced, upgrades>>
      /\ Cardinality(ActiveJobs(AllRefreshed)) < MaxActive
  BY DEF NewAgentJob, RoomToStart
<1>2. PICK kept \in Retained(AllRefreshed), state \in {"bare", "queued", "failed"}, spawned \in BOOLEAN :
        /\ files' = [kept EXCEPT ![j] = [job |-> state, old |-> FALSE, display |-> "partial"]]
        /\ workers' = IF spawned THEN [workers EXCEPT ![j] = [NoWorker EXCEPT !.at = "starting"]] ELSE workers
        /\ spawned => ~replaced
  <2>1. PICK kept \in Retained(AllRefreshed), end \in {"bare", "queued", "unspawned"} \cup (IF replaced THEN {} ELSE {"spawned"}) :
       /\ files' = [kept EXCEPT ![j] = [job |-> CASE end = "bare" -> "bare" [] end = "unspawned" -> "failed"
                                                  [] OTHER -> "queued",
                                        old |-> FALSE, display |-> "partial"]]
       /\ workers' = IF end = "spawned" THEN [workers EXCEPT ![j] = [NoWorker EXCEPT !.at = "starting"]] ELSE workers
    BY DEF NewAgentJob
  <2>2. PICK state \in {"bare", "queued", "failed"} :
          state = CASE end = "bare" -> "bare" [] end = "unspawned" -> "failed" [] OTHER -> "queued"
    OBVIOUS
  <2>3. PICK spawned \in BOOLEAN : spawned = (end = "spawned")  OBVIOUS
  <2>4. spawned => ~replaced  BY <2>1, <2>3
  <2>. QED  BY <2>1, <2>2, <2>3, <2>4
<1>3. /\ kept \in [JobIds -> FileRecord] /\ Cardinality(Directories(kept)) < MaxKept
      /\ \A k \in JobIds : kept[k] = AllRefreshed[k] \/ (kept[k] = NoJob /\ AllRefreshed[k].job \notin {"queued", "running"})
  BY <1>1, ListedJobs, RetainedLeaves
<1>4. PICK f \in FileRecord : f = [job |-> state, old |-> FALSE, display |-> "partial"] /\ f.job = state
  <2>1. [job |-> state, old |-> FALSE, display |-> "partial"] \in FileRecord  BY DEF FileRecord, JobStates, Settled, Displays
  <2>2. [job |-> state, old |-> FALSE, display |-> "partial"].job = state  BY DEF FileRecord, JobStates, Settled, Displays
  <2>. QED  BY <2>1, <2>2
<1>5. PICK w \in WorkerRecord : /\ workers' = [workers EXCEPT ![j] = w] /\ w.at \in {"none", "starting"}
                                /\ w.at # "none" => ~replaced
  <2>1. CASE spawned
    <3>1. [NoWorker EXCEPT !.at = "starting"] \in WorkerRecord /\ [NoWorker EXCEPT !.at = "starting"].at = "starting"
      BY DEF NoWorker, WorkerRecord, Displays
    <3>. QED  BY <1>2, <2>1, <3>1
  <2>2. CASE ~spawned
    <3>1. workers' = [workers EXCEPT ![j] = workers[j]] /\ workers[j] \in WorkerRecord
      BY <1>2, <2>2, JobFields DEF JobsInv, JobsTypeOK
    <3>. QED  BY <1>1, <3>1
  <2>. QED  BY <2>1, <2>2
<1>6. /\ files'[j] = f /\ workers'[j] = w
      /\ \A k \in JobIds \ {j} : files'[k] = kept[k] /\ workers'[k] = workers[k]
  BY <1>2, <1>3, <1>4, <1>5 DEF JobsInv, JobsTypeOK
<1>7. JobsTypeOK'
  <2>1. files' \in [JobIds -> FileRecord]  BY <1>2, <1>3, <1>4
  <2>2. workers' \in [JobIds -> WorkerRecord]  BY <1>5 DEF JobsInv, JobsTypeOK, WorkerRecord
  <2>. QED  BY <1>1, <2>1, <2>2 DEF JobsInv, JobsTypeOK, FileRecord, WorkerRecord
<1>8. \A k \in JobIds \ {j} : JobFits(k, files[k], workers[k])' /\ (files[k].job \in Settled => files'[k].job \in {files[k].job, "absent", "bare"})
  <2>1. SUFFICES ASSUME NEW k \in JobIds \ {j}
                 PROVE  JobFits(k, files[k], workers[k])' /\ (files[k].job \in Settled => files'[k].job \in {files[k].job, "absent", "bare"})
    OBVIOUS
  <2>2. /\ JobFits(k, AllRefreshed[k], workers[k]) /\ workers'[k] = workers[k] /\ replaced' = replaced /\ (k \in doubted' <=> k \in doubted)
        /\ files'[k] = AllRefreshed[k] \/ (files'[k] = NoJob /\ AllRefreshed[k].job \notin {"queued", "running"})
        /\ AllRefreshed[k] = files[k] \/ (files[k].job \in {"queued", "running"} /\ AllRefreshed[k].job = "failed")
    BY <1>1, <1>3, <1>6, ListedJobs
  <2>3. NoJob.job = "absent"  BY DEF NoJob
  <2>4. JobFits(k, files[k], workers[k])'  BY <2>2, <2>3 DEF JobFits
  <2>. QED  BY <2>2, <2>3, <2>4 DEF Settled
<1>9. JobFits(j, files[j], workers[j])'  BY <1>1, <1>4, <1>5, <1>6 DEF JobFits
<1>10. Cardinality(ActiveJobs(files') \ doubted') <= MaxActive
  <2>1. /\ ActiveJobs(files') \ doubted' \in SUBSET (ActiveJobs(AllRefreshed) \cup {j}) /\ ActiveJobs(AllRefreshed) \in SUBSET JobIds
        /\ ActiveJobs(AllRefreshed) \cup {j} \in SUBSET JobIds
    <3>1. NoJob.job = "absent"  BY DEF NoJob
    <3>. QED  BY <1>3, <1>6, <3>1 DEF ActiveJobs
  <2>2. IsFiniteSet(ActiveJobs(AllRefreshed)) /\ Cardinality(ActiveJobs(AllRefreshed)) \in Nat  BY <2>1, FewerJobs
  <2>3. Cardinality(ActiveJobs(AllRefreshed) \cup {j}) \in {Cardinality(ActiveJobs(AllRefreshed)), Cardinality(ActiveJobs(AllRefreshed)) + 1}
    BY <2>2, FS_AddElement
  <2>. QED  BY <1>1, <2>1, <2>2, <2>3, FewerJobs, JobsAssumption
<1>11. Cardinality(Directories(files')) <= MaxKept
  <2>1. Directories(files') \in SUBSET (Directories(kept) \cup {j}) /\ Directories(kept) \in SUBSET JobIds /\ Directories(kept) \cup {j} \in SUBSET JobIds
    BY <1>6 DEF Directories
  <2>2. IsFiniteSet(Directories(kept)) /\ Cardinality(Directories(kept)) \in Nat  BY <2>1, FewerJobs
  <2>3. Cardinality(Directories(kept) \cup {j}) \in {Cardinality(Directories(kept)), Cardinality(Directories(kept)) + 1}
    BY <2>2, FS_AddElement
  <2>. QED  BY <1>3, <2>1, <2>2, <2>3, FewerJobs, JobsAssumption
<1>12. StaysSettled  BY <1>1, <1>8 DEF StaysSettled, Settled
<1>. QED  BY <1>7, <1>8, <1>9, <1>10, <1>11, <1>12 DEF JobsInv, KeptBound

LEMMA JobsStep ==
  ASSUME JobsInv, JobsNext
  PROVE  JobsInv' /\ StaysSettled
<1>1. CASE ProgramReplaced
  <2>1. JobsTypeOK' /\ files' = files /\ workers' = workers  BY <1>1 DEF ProgramReplaced, JobsInv, JobsTypeOK
  <2>2. \A k \in JobIds : JobFits(k, files[k], workers[k])'  BY <1>1, <2>1, JobFields DEF ProgramReplaced, JobFits
  <2>3. ActiveJobs(files) \ doubted' \in SUBSET (ActiveJobs(files) \ doubted) /\ ActiveJobs(files) \ doubted \in SUBSET JobIds
    BY <1>1 DEF ProgramReplaced, ActiveJobs
  <2>4. Cardinality(ActiveJobs(files) \ doubted') <= MaxActive  BY <2>3, FewerJobs, JobsAssumption DEF JobsInv
  <2>. QED  BY <2>1, <2>2, <2>4 DEF JobsInv, KeptBound, StaysSettled
<1>2. CASE BackendRestarts
  <2>1. JobsTypeOK' /\ UNCHANGED <<files, workers, doubted>> /\ replaced' = FALSE  BY <1>2 DEF BackendRestarts, JobsInv, JobsTypeOK
  <2>2. \A k \in JobIds : JobFits(k, files[k], workers[k])'  BY <2>1, JobFields DEF JobFits
  <2>. QED  BY <2>1, <2>2 DEF JobsInv, KeptBound, StaysSettled
<1>. QED  BY <1>1, <1>2, ListSteps, JobCallSteps, WorkerSteps, NewSteps DEF JobsNext

LEMMA JobsAreSound == JobsSafety => []JobsInv
<1>1. JobsInit => JobsInv
  <2>. SUFFICES ASSUME JobsInit PROVE JobsInv  OBVIOUS
  <2>1. JobsTypeOK /\ \A j \in JobIds : files[j].job = "absent" /\ workers[j].at = "none"
    <3>1. NoJob \in FileRecord /\ NoJob.job = "absent"  BY DEF NoJob, FileRecord, JobStates, Displays
    <3>2. NoWorker \in WorkerRecord /\ NoWorker.at = "none"  BY DEF NoWorker, WorkerRecord, Displays
    <3>3. files \in [JobIds -> FileRecord] /\ workers \in [JobIds -> WorkerRecord]  BY <3>1, <3>2 DEF JobsInit
    <3>4. \A j \in JobIds : files[j].job = "absent" /\ workers[j].at = "none"  BY <3>1, <3>2 DEF JobsInit
    <3>5. replaced \in BOOLEAN /\ doubted \subseteq JobIds /\ upgrades \in 0..1
      <4>1. replaced = FALSE /\ doubted = {} /\ upgrades = 0  BY DEF JobsInit
      <4>2. replaced \in BOOLEAN  BY <4>1
      <4>3. doubted \subseteq JobIds /\ upgrades \in 0..1  BY <4>1
      <4>. QED  BY <4>2, <4>3
    <3>. QED  BY <3>3, <3>4, <3>5 DEF JobsTypeOK, FileRecord, WorkerRecord
  <2>2. ActiveJobs(files) \ doubted = {} /\ Directories(files) = {}  BY <2>1 DEF ActiveJobs, Directories
  <2>3. Cardinality({}) = 0  BY FS_EmptySet
  <2>4. \A j \in JobIds : JobFits(j, files[j], workers[j])  BY <2>1 DEF JobFits
  <2>. QED  BY <2>1, <2>2, <2>3, <2>4, JobsAssumption DEF JobsInv, KeptBound
<1>2. JobsInv /\ [JobsNext]_jobVars => JobsInv'
  <2>1. JobsInv /\ UNCHANGED jobVars => JobsInv'  BY DEF jobVars, JobsInv, JobsTypeOK, JobFits, KeptBound, ActiveJobs, Directories
  <2>. QED  BY <2>1, JobsStep
<1>. QED  BY <1>1, <1>2, PTL DEF JobsSafety

(* No more jobs at once and no more kept than the limits, and "done" has its answer. *)
THEOREM JobsAreKept == JobsSafety => [](AtMostActive /\ KeptBound /\ DoneIsAnswered /\ JobsTypeOK)
<1>1. JobsInv => AtMostActive /\ KeptBound /\ DoneIsAnswered /\ JobsTypeOK
  <2>. SUFFICES ASSUME JobsInv PROVE AtMostActive /\ DoneIsAnswered  BY DEF JobsInv
  <2>1. Claudes \ doubted \in SUBSET (ActiveJobs(files) \ doubted) /\ ActiveJobs(files) \ doubted \in SUBSET JobIds
    BY JobFields DEF Claudes, ActiveJobs, JobFits
  <2>2. AtMostActive  BY <2>1, FewerJobs, JobsAssumption DEF JobsInv, AtMostActive
  <2>. QED  BY <2>2, JobFields DEF DoneIsAnswered, JobFits
<1>. QED  BY <1>1, JobsAreSound, PTL

(* A job that was settled stays so until it is forgotten. *)
THEOREM JobsStaySettled == JobsSafety => SettledStays
<1>1. JobsInv /\ [JobsNext]_jobVars =>
        [\A j \in JobIds \ doubted : files[j].job \in Settled => files'[j].job \in {files[j].job, "absent", "bare"}]_jobVars
  BY JobsStep DEF StaysSettled
<1>. QED  BY <1>1, JobsAreSound, PTL DEF JobsSafety, SettledStays
------------------------------------
(* The event stream *)

StreamEntries == [role : {"user", "assistant", "status"}, size : Nat]
ParserRecord == [transcript : Seq(StreamEntries), output : Nat, session : Sessions \cup {""}, complete : BOOLEAN, current : Nat,
                 index : Nat, tools : Nat, snapshot : BOOLEAN, final : BOOLEAN]
\* The entry of the message under way comes after the closed ones, and some entry holds the output.
ParserSound(p, c) ==
  /\ p \in ParserRecord /\ c \in 0..Len(p.transcript) /\ p.current \in {NoIndex, p.index}
  /\ p.index # NoIndex => p.index \in c+1..Len(p.transcript) /\ p.transcript[p.index].role = "assistant"
  /\ p.output # 0 => \E i \in 1..Len(p.transcript) : p.transcript[i] = Entry("assistant", p.output)
StreamInv == /\ stream \in {"open", "refused", "answered", "unanswered"}
             /\ stream = "open" => ParserSound(parser, closed)
             /\ AnswerIsWhole
\* The first n entries of p are those of q.
SameHistory(p, q, n) == Len(q.transcript) >= Len(p.transcript) /\ \A i \in 1..n : q.transcript[i] = p.transcript[i]

LEMMA ParserFields ==
  ASSUME NEW p \in ParserRecord
  PROVE  /\ p.transcript \in Seq(StreamEntries) /\ Len(p.transcript) \in Nat /\ p.output \in Nat /\ p.current \in Nat /\ p.index \in Nat
         /\ p.tools \in Nat /\ p.final \in BOOLEAN /\ p.snapshot \in BOOLEAN /\ NoIndex = 0
<1>1. p.transcript \in Seq(StreamEntries)  BY DEF ParserRecord
<1>2. Len(p.transcript) \in Nat  BY <1>1
<1>3. p.output \in Nat /\ p.current \in Nat /\ p.index \in Nat /\ p.tools \in Nat  BY DEF ParserRecord
<1>4. p.final \in BOOLEAN /\ p.snapshot \in BOOLEAN  BY DEF ParserRecord
<1>. QED  BY <1>1, <1>2, <1>3, <1>4 DEF NoIndex

LEMMA SoundFields ==
  ASSUME NEW p, NEW c, ParserSound(p, c)
  PROVE  p \in ParserRecord /\ c \in 0..Len(p.transcript) /\ c \in Nat
<1>1. p \in ParserRecord /\ c \in 0..Len(p.transcript)  BY DEF ParserSound
<1>. QED  BY <1>1, ParserFields

\* Other fields of the parser say nothing of the transcript.
LEMMA OtherFields ==
  ASSUME NEW p, NEW c, ParserSound(p, c), NEW q \in ParserRecord,
         q.transcript = p.transcript, q.output = p.output, q.current \in {NoIndex, p.index}, q.index = p.index
  PROVE  ParserSound(q, c) /\ \A n \in 0..Len(p.transcript) : SameHistory(p, q, n)
<1>1. p \in ParserRecord /\ c \in 0..Len(p.transcript) /\ Len(p.transcript) \in Nat  BY SoundFields, ParserFields
<1>2. ParserSound(q, c)  BY DEF ParserSound
<1>. QED  BY <1>1, <1>2 DEF SameHistory

LEMMA StatusSound ==
  ASSUME NEW p, NEW c, ParserSound(p, c), NEW n \in Nat
  PROVE  ParserSound(Status(p, n), c) /\ \A m \in 0..Len(p.transcript) : SameHistory(p, Status(p, n), m)
<1>. DEFINE t == p.transcript
            new == [k \in 1..n |-> Entry("status", 1)]
            q == Status(p, n)
<1>1. p \in ParserRecord /\ t \in Seq(StreamEntries) /\ new \in Seq(StreamEntries) /\ Len(new) = n /\ c \in 0..Len(t)
  <2>1. Entry("status", 1) \in StreamEntries  BY DEF StreamEntries, Entry
  <2>2. new \in Seq(StreamEntries) /\ Len(new) = n  BY <2>1
  <2>. QED  BY <2>2, SoundFields, ParserFields
<1>2. CASE n = 0  BY <1>2 DEF Status, SameHistory
<1>3. CASE n # 0
  <2>1. /\ t \o new \in Seq(StreamEntries) /\ Len(t \o new) = Len(t) + n
        /\ \A i \in 1..Len(t) : (t \o new)[i] = t[i]
    BY <1>1
  <2>2. q = [p EXCEPT !.transcript = t \o new, !.current = NoIndex]  BY <1>3 DEF Status
  <2>3. q \in ParserRecord /\ q.transcript = t \o new /\ q.current = NoIndex /\ q.index = p.index /\ q.output = p.output
    <3>1. NoIndex \in Nat  BY DEF NoIndex
    <3>. QED  BY <1>1, <2>1, <2>2, <3>1 DEF ParserRecord
  <2>. HIDE DEF q, new
  <2>4. \A i \in 1..Len(t) : i \in 1..Len(q.transcript) /\ q.transcript[i] = t[i]  BY <1>1, <2>1, <2>3
  <2>5. p.output # 0 => \E i \in 1..Len(q.transcript) : q.transcript[i] = Entry("assistant", p.output)  BY <2>4 DEF ParserSound
  <2>6. p.index # NoIndex => p.index \in c+1..Len(q.transcript) /\ q.transcript[p.index].role = "assistant"
    <3>1. p.index # NoIndex => p.index \in c+1..Len(t) /\ t[p.index].role = "assistant"  BY DEF ParserSound
    <3>2. \A j \in c+1..Len(t) : j \in 1..Len(t) /\ j \in c+1..Len(q.transcript)  BY <1>1, <2>1, <2>3
    <3>. QED  BY <2>4, <3>1, <3>2
  <2>7. ParserSound(q, c)  BY <1>1, <2>1, <2>3, <2>5, <2>6 DEF ParserSound
  <2>. QED  BY <1>1, <2>1, <2>3, <2>4, <2>7 DEF SameHistory, q
<1>. QED  BY <1>2, <1>3

LEMMA AnswerSound ==
  ASSUME NEW p, NEW c, ParserSound(p, c), NEW size \in Nat, NEW replace \in BOOLEAN
  PROVE  ParserSound(WithText(Answered(p, size, replace)), c) /\ SameHistory(p, WithText(Answered(p, size, replace)), c)
<1>. DEFINE t == p.transcript
            a == Answered(p, size, replace)
            q == WithText(a)
<1>1. p \in ParserRecord /\ t \in Seq(StreamEntries) /\ p.current \in Nat /\ p.index \in Nat /\ c \in 0..Len(t)
  BY SoundFields, ParserFields
<1>2. PICK i \in c+1..Len(t)+1, o \in Nat, u \in Seq(StreamEntries) :
         /\ a = [p EXCEPT !.transcript = u, !.current = i, !.index = i, !.output = o]
         /\ i <= Len(u) /\ Len(u) >= Len(t) /\ \A j \in 1..Len(t) : u[j] = t[j]
         /\ u[i].role = "assistant"
  <2>1. CASE p.current = NoIndex
    <3>1. Entry("assistant", 0) \in StreamEntries /\ Entry("assistant", 0).role = "assistant"  BY DEF Entry, StreamEntries
    <3>2. /\ Append(t, Entry("assistant", 0)) \in Seq(StreamEntries) /\ Len(Append(t, Entry("assistant", 0))) = Len(t) + 1
          /\ \A j \in 1..Len(t) : Append(t, Entry("assistant", 0))[j] = t[j]
          /\ Append(t, Entry("assistant", 0))[Len(t) + 1] = Entry("assistant", 0)
      BY <1>1, <3>1
    <3>3. a = [p EXCEPT !.transcript = Append(t, Entry("assistant", 0)), !.current = Len(t) + 1, !.index = Len(t) + 1, !.output = size]
      <4>1. a = [p EXCEPT !.transcript = Append(p.transcript, Entry("assistant", 0)), !.current = Len(t) + 1, !.index = Len(t) + 1, !.output = 0 + size]
        BY <2>1 DEF Answered
      <4>2. 0 + size = size  OBVIOUS
      <4>. QED  BY <4>1, <4>2
    <3>4. Len(t) + 1 \in c+1..Len(t)+1 /\ Len(t) \in Nat  BY <1>1
    <3>5. PICK w \in Seq(StreamEntries) : w = Append(t, Entry("assistant", 0))  BY <3>2
    <3>6. PICK k \in c+1..Len(t)+1 : k = Len(t) + 1  BY <3>4
    <3>7. k <= Len(w) /\ Len(w) >= Len(t) /\ w[k].role = "assistant" /\ \A j \in 1..Len(t) : w[j] = t[j]
      BY <3>1, <3>2, <3>4, <3>5, <3>6
    <3>8. a = [p EXCEPT !.transcript = w, !.current = k, !.index = k, !.output = size]  BY <3>3, <3>5, <3>6
    <3>. HIDE DEF a, t
    <3>. QED  BY <3>7, <3>8
  <2>2. CASE p.current # NoIndex
    <3>1. p.current = p.index /\ p.index \in c+1..Len(t) /\ t[p.index].role = "assistant"  BY <2>2 DEF ParserSound
    <3>2. t[p.index] \in StreamEntries /\ t[p.index].size \in Nat
      <4>1. p.index \in 1..Len(t)  BY <1>1, <3>1
      <4>2. t[p.index] \in StreamEntries  BY <1>1, <4>1
      <4>. QED  BY <4>2 DEF StreamEntries
    <3>3. PICK o \in Nat : a = [p EXCEPT !.transcript = t, !.current = p.index, !.index = p.index, !.output = o]
      <4>1. PICK old \in Nat : a = [p EXCEPT !.transcript = @, !.current = p.current, !.index = @, !.output = old + size]
        BY <2>2, <3>1, <3>2 DEF Answered
      <4>2. old + size \in Nat  BY <4>1
      <4>3. a = [p EXCEPT !.transcript = t, !.current = p.index, !.index = p.index, !.output = old + size]
        BY <3>1, <4>1 DEF ParserRecord
      <4>. QED  BY <4>2, <4>3
    <3>4. p.index \in c+1..Len(t)+1 /\ p.index <= Len(t) /\ Len(t) >= Len(t)  BY <1>1, <3>1
    <3>. HIDE DEF a, t
    <3>. QED  BY <1>1, <3>1, <3>3, <3>4
  <2>. QED  BY <2>1, <2>2
<1>. DEFINE e == [u[i] EXCEPT !.size = o]
            v == [u EXCEPT ![i] = e]
<1>3. i \in 1..Len(u) /\ u[i] \in StreamEntries /\ e = Entry("assistant", o) /\ e \in StreamEntries
  <2>1. i \in 1..Len(u) /\ Len(u) \in Nat  BY <1>1, <1>2
  <2>2. u[i] \in StreamEntries  BY <2>1
  <2>3. e = Entry("assistant", o)  BY <1>2, <2>2 DEF Entry, StreamEntries
  <2>4. Entry("assistant", o) \in StreamEntries  BY DEF Entry, StreamEntries
  <2>. QED  BY <2>1, <2>2, <2>3, <2>4
<1>4. v \in Seq(StreamEntries) /\ Len(v) = Len(u) /\ v[i] = e /\ \A j \in 1..Len(u) : j # i => v[j] = u[j]  BY <1>2, <1>3
<1>5. a.current = i /\ a.output = o /\ a.transcript = u  BY <1>1, <1>2 DEF ParserRecord
<1>6. q = [p EXCEPT !.transcript = v, !.current = i, !.index = i, !.output = o]
  <2>1. q = [a EXCEPT !.transcript = v]  BY <1>5 DEF WithText
  <2>. QED  BY <1>1, <1>2, <2>1 DEF ParserRecord
<1>7. q \in ParserRecord /\ q.transcript = v /\ q.current = i /\ q.index = i /\ q.output = o
  <2>1. i \in Nat  BY <1>1, <1>2
  <2>. HIDE DEF v
  <2>. QED  BY <1>1, <1>4, <1>6, <2>1 DEF ParserRecord
<1>. HIDE DEF q, v, e, a
<1>8. v[i] = Entry("assistant", o) /\ v[i].role = "assistant"  BY <1>3, <1>4 DEF Entry
<1>9. \A j \in 1..c : v[j] = t[j]  BY <1>1, <1>2, <1>4
<1>10. ParserSound(q, c)  BY <1>1, <1>2, <1>3, <1>4, <1>7, <1>8 DEF ParserSound
<1>. QED  BY <1>1, <1>2, <1>4, <1>7, <1>9, <1>10 DEF SameHistory, q, a

LEMMA ResetSound ==
  ASSUME NEW p, NEW c, ParserSound(p, c)
  PROVE  /\ ParserSound(ResetMessage(p), Len(p.transcript)) /\ ParserSound(ResetMessage(p), c) /\ ResetMessage(p).transcript = p.transcript
         /\ ResetMessage(p).index = NoIndex
<1>1. p \in ParserRecord /\ p.transcript \in Seq(StreamEntries) /\ Len(p.transcript) \in Nat  BY SoundFields, ParserFields
<1>2. /\ ResetMessage(p) \in ParserRecord /\ ResetMessage(p).transcript = p.transcript /\ ResetMessage(p).index = NoIndex
      /\ ResetMessage(p).current = NoIndex /\ ResetMessage(p).output = p.output
  BY <1>1 DEF ResetMessage, ParserRecord, NoIndex
<1>. QED  BY <1>1, <1>2 DEF ParserSound

\* A step leads to a sound parser that kept the closed entries, or refuses the event.
StreamSteps ==
  \/ stream' = "open" /\ ParserSound(parser', closed') /\ SameHistory(parser, parser', closed)
  \/ stream' = "refused" /\ \E b \in BOOLEAN : parser' = [parser EXCEPT !.final = b]
  \/ stream' \in {"answered", "unanswered"} /\ parser' = parser /\ (stream' = "answered" => parser.output # 0)

LEMMA AcceptedSteps ==
  ASSUME stream = "open", ParserSound(parser, closed), NEW p, NEW final \in BOOLEAN, Accepted(p, final),
         ParserSound(p, closed'), SameHistory(parser, p, closed)
  PROVE  StreamSteps
<1>1. parser.final \in BOOLEAN /\ (parser.final \/ final) \in BOOLEAN  BY DEF ParserSound, ParserRecord
<1>. QED  BY <1>1 DEF Accepted, StreamSteps

LEMMA SnapshotSteps ==
  ASSUME stream = "open", ParserSound(parser, closed), NEW size \in Nat, NEW tools \in Nat, Snapshot(size, tools)
  PROVE  StreamSteps
<1>. DEFINE begun == IF parser.snapshot THEN ResetMessage(parser) ELSE parser
            text == IF size = 0 THEN begun ELSE WithText(Answered([begun EXCEPT !.current = begun.index], size, TRUE))
            new == IF tools > begun.tools THEN tools - begun.tools ELSE 0
            p == [Status(text, new) EXCEPT !.tools = tools, !.snapshot = TRUE]
<1>1. ParserSound(begun, closed') /\ begun.transcript = parser.transcript /\ closed' >= closed /\ closed \in Nat /\ closed' \in Nat
  <2>1. closed \in Nat /\ Len(parser.transcript) \in Nat /\ closed \in 0..Len(parser.transcript)  BY SoundFields, ParserFields
  <2>2. closed' = IF parser.snapshot THEN Len(parser.transcript) ELSE closed  BY DEF Snapshot
  <2>3. ParserSound(ResetMessage(parser), Len(parser.transcript)) /\ ResetMessage(parser).transcript = parser.transcript
    BY ResetSound
  <2>. QED  BY <2>1, <2>2, <2>3
<1>. HIDE DEF begun
<1>2. ParserSound(text, closed') /\ SameHistory(begun, text, closed')
  <2>1. CASE size = 0
    <3>1. Len(begun.transcript) \in Nat  BY <1>1, SoundFields, ParserFields
    <3>. QED  BY <1>1, <2>1, <3>1 DEF SameHistory
  <2>2. CASE size # 0
    <3>. DEFINE s == [begun EXCEPT !.current = begun.index]
    <3>1. begun \in ParserRecord /\ s \in ParserRecord /\ s.transcript = begun.transcript /\ s.output = begun.output
          /\ s.current = begun.index /\ s.index = begun.index
      <4>1. begun \in ParserRecord  BY <1>1, SoundFields
      <4>. QED  BY <4>1 DEF ParserRecord
    <3>2. ParserSound(s, closed')  BY <1>1, <3>1, OtherFields
    <3>3. text = WithText(Answered(s, size, TRUE))  BY <2>2
    <3>. HIDE DEF s, text
    <3>4. ParserSound(text, closed') /\ SameHistory(s, text, closed')  BY <3>2, <3>3, AnswerSound
    <3>. QED  BY <3>1, <3>4 DEF SameHistory
  <2>. QED  BY <2>1, <2>2
<1>3. new \in Nat
  <2>1. begun.tools \in Nat  BY <1>1, SoundFields, ParserFields
  <2>. QED  BY <2>1
<1>. HIDE DEF text, new
<1>4. ParserSound(Status(text, new), closed') /\ SameHistory(text, Status(text, new), closed')
  BY <1>2, <1>3, StatusSound DEF ParserSound
<1>5. /\ p \in ParserRecord /\ p.transcript = Status(text, new).transcript /\ p.output = Status(text, new).output
      /\ p.current = Status(text, new).current /\ p.index = Status(text, new).index
  <2>1. Status(text, new) \in ParserRecord  BY <1>4, SoundFields
  <2>. QED  BY <2>1 DEF ParserRecord
<1>6. ParserSound(p, closed') /\ SameHistory(Status(text, new), p, closed')  BY <1>4, <1>5, OtherFields DEF ParserSound
<1>7. SameHistory(parser, p, closed)
  <2>1. parser.transcript \in Seq(StreamEntries) /\ text.transcript \in Seq(StreamEntries) /\ Status(text, new).transcript \in Seq(StreamEntries)
        /\ p.transcript \in Seq(StreamEntries)
    BY <1>1, <1>2, <1>4, <1>6, SoundFields, ParserFields
  <2>. HIDE DEF p
  <2>. QED  BY <2>1, <1>1, <1>2, <1>4, <1>6 DEF SameHistory
<1>8. Accepted(p, FALSE)  BY DEF Snapshot, begun, text, new
<1>. HIDE DEF p
<1>. QED  BY <1>6, <1>7, <1>8, AcceptedSteps

LEMMA StreamEventSteps ==
  ASSUME StreamInv, StreamNext
  PROVE  StreamSteps
<1>1. stream = "open" /\ ParserSound(parser, closed) /\ parser \in ParserRecord /\ parser.transcript \in Seq(StreamEntries)
      /\ closed \in 0..Len(parser.transcript) /\ Len(parser.transcript) \in Nat
  <2>1. stream = "open" /\ ParserSound(parser, closed)  BY DEF StreamInv, StreamNext
  <2>. QED  BY <2>1, SoundFields, ParserFields
<1>2. \A c \in 0..Len(parser.transcript) : SameHistory(parser, parser, c)  BY <1>1 DEF SameHistory
<1>3. CASE MessageStart
  <2>1. parser' = ResetMessage(parser) /\ closed' = Len(parser.transcript) /\ stream' = "open"  BY <1>1, <1>3 DEF MessageStart
  <2>2. ParserSound(parser', closed') /\ parser'.transcript = parser.transcript  BY <1>1, <2>1, ResetSound
  <2>3. SameHistory(parser, parser', closed)  BY <1>1, <2>2 DEF SameHistory
  <2>. QED  BY <2>1, <2>2, <2>3 DEF StreamSteps
<1>4. CASE ToolStart \/ ToolFinished
  <2>1. ParserSound(Status(parser, 1), closed) /\ SameHistory(parser, Status(parser, 1), closed)  BY <1>1, StatusSound
  <2>2. CASE ToolStart
    <3>. DEFINE p == [Status(parser, 1) EXCEPT !.tools = @ + 1]
    <3>1. /\ p \in ParserRecord /\ p.transcript = Status(parser, 1).transcript /\ p.output = Status(parser, 1).output
          /\ p.current = Status(parser, 1).current /\ p.index = Status(parser, 1).index
      <4>1. Status(parser, 1) \in ParserRecord  BY <2>1, SoundFields
      <4>2. PICK q \in ParserRecord : q = Status(parser, 1)  BY <4>1
      <4>3. q.tools + 1 \in Nat  BY ParserFields
      <4>4. [q EXCEPT !.tools = @ + 1] \in ParserRecord  BY <4>3 DEF ParserRecord
      <4>. QED  BY <4>2, <4>4 DEF ParserRecord
    <3>2. Accepted(p, FALSE) /\ closed' = closed  BY <2>2 DEF ToolStart
    <3>. HIDE DEF p
    <3>3. ParserSound(p, closed) /\ SameHistory(parser, p, closed)  BY <2>1, <3>1, OtherFields DEF SameHistory, ParserSound
    <3>. QED  BY <1>1, <3>2, <3>3, AcceptedSteps
  <2>3. CASE ToolFinished  BY <1>1, <2>1, <2>3, AcceptedSteps DEF ToolFinished
  <2>. QED  BY <1>4, <2>2, <2>3
<1>5. CASE StreamEnds  BY <1>1, <1>5 DEF StreamEnds, Succeeds, StreamSteps
<1>6. ASSUME NEW s \in Sessions, SessionEvent(s)
      PROVE  StreamSteps
  <2>1. CASE parser.session \in {"", s}
    <3>1. /\ [parser EXCEPT !.session = s] \in ParserRecord /\ [parser EXCEPT !.session = s].transcript = parser.transcript
          /\ [parser EXCEPT !.session = s].output = parser.output /\ [parser EXCEPT !.session = s].current = parser.current
          /\ [parser EXCEPT !.session = s].index = parser.index
      BY <1>1 DEF ParserRecord
    <3>2. parser' = [parser EXCEPT !.session = s] /\ stream' = "open" /\ closed' = closed  BY <1>1, <1>6, <2>1 DEF SessionEvent
    <3>. QED  BY <1>1, <3>1, <3>2, OtherFields DEF StreamSteps, ParserSound
  <2>2. CASE parser.session \notin {"", s}
    <3>1. (parser.final \/ FALSE) \in BOOLEAN  BY <1>1 DEF ParserRecord
    <3>. QED  BY <1>6, <2>2, <3>1 DEF SessionEvent, Refuse, StreamSteps
  <2>. QED  BY <2>1, <2>2
<1>7. ASSUME NEW size \in 1..MaxAnswer, TextDelta(size)
      PROVE  StreamSteps
  <2>1. Accepted(WithText(Answered(parser, size, FALSE)), FALSE) /\ closed' = closed  BY <1>7 DEF TextDelta
  <2>2. size \in Nat  BY StreamAssumption
  <2>3. /\ ParserSound(WithText(Answered(parser, size, FALSE)), closed)
        /\ SameHistory(parser, WithText(Answered(parser, size, FALSE)), closed)
    BY <1>1, <2>2, AnswerSound
  <2>. QED  BY <1>1, <2>1, <2>3, AcceptedSteps
<1>8. ASSUME NEW size \in 0..MaxAnswer, NEW tools \in 0..MaxTools, Snapshot(size, tools)
      PROVE  StreamSteps
  BY <1>1, <1>8, SnapshotSteps
<1>9. ASSUME NEW ok \in BOOLEAN, NEW size \in 0..MaxAnswer, Result(ok, size)
      PROVE  StreamSteps
  <2>1. CASE ok
    <3>. DEFINE a == WithText(Answered(parser, size, TRUE))
                p == [a EXCEPT !.complete = TRUE, !.final = TRUE]
    <3>1. ParserSound(a, closed) /\ SameHistory(parser, a, closed)
      <4>1. size \in Nat  BY StreamAssumption
      <4>. QED  BY <1>1, <4>1, AnswerSound
    <3>2. Accepted(p, TRUE) /\ closed' = closed  BY <1>9, <2>1 DEF Result
    <3>. HIDE DEF a
    <3>3. p \in ParserRecord /\ p.transcript = a.transcript /\ p.output = a.output /\ p.current = a.current /\ p.index = a.index
      <4>1. a \in ParserRecord  BY <3>1, SoundFields
      <4>. QED  BY <4>1 DEF ParserRecord
    <3>. HIDE DEF p
    <3>4. ParserSound(p, closed) /\ SameHistory(parser, p, closed)  BY <3>1, <3>3, OtherFields DEF SameHistory, ParserSound
    <3>. QED  BY <1>1, <3>2, <3>4, AcceptedSteps
  <2>2. CASE ~ok
    <3>1. (parser.final \/ TRUE) \in BOOLEAN  OBVIOUS
    <3>. QED  BY <1>9, <2>2, <3>1 DEF Result, Refuse, StreamSteps
  <2>. QED  BY <2>1, <2>2
<1>. QED  BY <1>3, <1>4, <1>5, <1>6, <1>7, <1>8, <1>9 DEF StreamNext

LEMMA StreamIsSound == StreamSpec => []StreamInv
<1>1. StreamInit => StreamInv
  <2>. SUFFICES ASSUME StreamInit PROVE ParserSound(parser, closed)  BY DEF StreamInit, StreamInv, AnswerIsWhole
  <2>1. Entry("user", 1) \in StreamEntries /\ StreamHistory \in Nat  BY StreamAssumption DEF Entry, StreamEntries
  <2>2. [n \in 1..StreamHistory |-> Entry("user", 1)] \in Seq(StreamEntries) /\ Len([n \in 1..StreamHistory |-> Entry("user", 1)]) = StreamHistory
    BY <2>1
  <2>3. PICK h \in Seq(StreamEntries) : h = [n \in 1..StreamHistory |-> Entry("user", 1)] /\ Len(h) = StreamHistory  BY <2>2
  <2>4. parser = [transcript |-> h, output |-> 0, session |-> "", complete |-> FALSE, current |-> NoIndex, index |-> NoIndex,
                  tools |-> 0, snapshot |-> FALSE, final |-> FALSE]
    BY <2>3 DEF StreamInit
  <2>5. parser \in ParserRecord  BY <2>4 DEF ParserRecord, NoIndex
  <2>6. parser.transcript = h /\ parser.current = NoIndex /\ parser.index = NoIndex /\ parser.output = 0  BY <2>4
  <2>7. closed \in 0..Len(h)
    <3>1. closed = Len(h)  BY <2>3 DEF StreamInit
    <3>2. Len(h) \in Nat  OBVIOUS
    <3>. QED  BY <3>1, <3>2
  <2>. QED  BY <2>5, <2>6, <2>7 DEF ParserSound
<1>2. StreamInv /\ [StreamNext]_streamVars => StreamInv'
  <2>1. StreamInv /\ UNCHANGED streamVars => StreamInv'  BY DEF StreamInv, AnswerIsWhole, streamVars
  <2>2. ASSUME StreamInv, StreamNext
        PROVE  StreamInv'
    <3>1. ParserSound(parser, closed)  BY <2>2 DEF StreamInv, StreamNext
    <3>2. StreamSteps  BY <2>2, StreamEventSteps
    <3>. QED  BY <3>1, <3>2 DEF StreamSteps, StreamInv, AnswerIsWhole, ParserSound
  <2>. QED  BY <2>1, <2>2
<1>. QED  BY <1>1, <1>2, PTL DEF StreamSpec

(* An answer that is taken stands whole in the transcript. *)
THEOREM AnswersAreWhole == StreamSpec => []AnswerIsWhole
<1>1. StreamInv => AnswerIsWhole  BY DEF StreamInv
<1>. QED  BY <1>1, StreamIsSound, PTL

(* Earlier turns and finished messages stay as they are. *)
THEOREM HistoryIsKept == StreamSpec => HistoryKept
<1>1. StreamInv /\ [StreamNext]_streamVars => [\A i \in 1..closed : parser'.transcript[i] = parser.transcript[i]]_streamVars
  <2>. SUFFICES ASSUME StreamInv, StreamNext, NEW i \in 1..closed PROVE parser'.transcript[i] = parser.transcript[i]  OBVIOUS
  <2>1. parser \in ParserRecord  BY DEF StreamInv, StreamNext, ParserSound
  <2>2. \A b \in BOOLEAN : [parser EXCEPT !.final = b].transcript = parser.transcript  BY <2>1 DEF ParserRecord
  <2>. QED  BY <2>2, StreamEventSteps DEF StreamSteps, SameHistory
<1>. QED  BY <1>1, StreamIsSound, PTL DEF StreamSpec, HistoryKept
------------------------------------
(* Context reads *)

ReadRecord == [at : {"idle", "working", "decided", "over"}, key : ReadKeys, result : {"none", "payload", "error"}]
ContextType == /\ registered \in [ReadKeys -> Reads \cup {"none"}] /\ reads \in [Reads -> ReadRecord]
               /\ cancelled \subseteq Reads
\* A cancelled read has begun, and its entry is gone.
CancelInv == \A r \in cancelled : /\ reads[r].at # "idle"
                                  /\ \A k \in ReadKeys : registered[k] # r
ContextInv == ContextType /\ EntriesMatch /\ CancelInv /\ CancelledIsFinal

LEMMA NoneRegistered == ContextInv =>
  /\ \A k \in ReadKeys : registered[k] # "none" => /\ registered[k] \in Reads
                                                   /\ reads[registered[k]].at \in {"working", "decided"}
                                                   /\ reads[registered[k]].key = k
  /\ \A r \in Reads : reads[r] \in ReadRecord /\ reads[r].key \in ReadKeys
BY DEF ContextInv, ContextType, EntriesMatch, Registered, ReadRecord

LEMMA StartKeeps ==
  ASSUME ContextInv, NEW r \in Reads, NEW k \in ReadKeys, ContextStart(r, k)
  PROVE  ContextInv'
<1>1. /\ registered \in [ReadKeys -> Reads \cup {"none"}] /\ reads \in [Reads -> ReadRecord] /\ cancelled \subseteq Reads
      /\ reads[r].at = "idle" /\ cancelled' = cancelled /\ r # "none"
  BY ContextAssumption DEF ContextInv, ContextType, ContextStart
<1>2. PICK e \in ReadRecord : /\ reads' = [reads EXCEPT ![r] = e] /\ e.key = k /\ e.result = "none"
                              /\ e.at = IF Refusal(k) THEN "over" ELSE "working"
  <2>1. /\ [at |-> IF Refusal(k) THEN "over" ELSE "working", key |-> k, result |-> "none"] \in ReadRecord
        /\ [at |-> IF Refusal(k) THEN "over" ELSE "working", key |-> k, result |-> "none"].at = IF Refusal(k) THEN "over" ELSE "working"
    BY DEF ReadRecord
  <2>2. reads' = [reads EXCEPT ![r] = [at |-> IF Refusal(k) THEN "over" ELSE "working", key |-> k, result |-> "none"]]
    BY DEF ContextStart
  <2>. QED  BY <2>1, <2>2
<1>3. r \notin cancelled /\ \A j \in ReadKeys : registered[j] # r  BY <1>1, NoneRegistered DEF ContextInv, CancelInv
<1>4. reads'[r] = e /\ \A q \in Reads \ {r} : reads'[q] = reads[q]  BY <1>1, <1>2
<1>5. CASE Refusal(k)
  <2>1. registered' = registered /\ e.at = "over"  BY <1>2, <1>5 DEF ContextStart
  <2>2. ContextType'  BY <1>1, <1>2, <2>1 DEF ContextType
  <2>3. EntriesMatch'  BY <1>1, <1>3, <1>4, <2>1, NoneRegistered DEF ContextInv, EntriesMatch, Registered, OwnEntry
  <2>. QED  BY <1>1, <1>2, <1>3, <1>4, <2>1, <2>2, <2>3 DEF ContextInv, CancelInv, CancelledIsFinal
<1>6. CASE ~Refusal(k)
  <2>1. registered' = [registered EXCEPT ![k] = r] /\ registered[k] = "none" /\ e.at = "working"
    BY <1>2, <1>6 DEF ContextStart, Refusal
  <2>2. registered'[k] = r /\ \A j \in ReadKeys \ {k} : registered'[j] = registered[j]  BY <1>1, <2>1
  <2>3. ContextType'  BY <1>1, <1>2, <2>1 DEF ContextType
  <2>4. \A q \in Reads : reads'[q].at \in {"working", "decided"} /\ q \notin cancelled' => registered'[reads'[q].key] = q
    <3>1. ASSUME NEW q \in Reads \ {r}, reads[q].at \in {"working", "decided"}, q \notin cancelled
          PROVE  registered'[reads[q].key] = q
      <4>1. registered[reads[q].key] = q  BY <3>1 DEF ContextInv, EntriesMatch, OwnEntry
      <4>2. reads[q].key # k  BY <1>1, <2>1, <3>1, <4>1, ContextAssumption
      <4>. QED  BY <2>2, <4>1, <4>2, NoneRegistered
    <3>. QED  BY <1>1, <1>2, <1>4, <2>2, <3>1
  <2>5. \A j \in ReadKeys : registered'[j] # "none" => /\ reads'[registered'[j]].at \in {"working", "decided"}
                                                       /\ reads'[registered'[j]].key = j
    BY <1>1, <1>2, <1>3, <1>4, <2>1, <2>2, NoneRegistered
  <2>6. CancelInv' /\ CancelledIsFinal'  BY <1>1, <1>3, <1>4, <2>2 DEF ContextInv, CancelInv, CancelledIsFinal
  <2>. QED  BY <2>3, <2>4, <2>5, <2>6 DEF ContextInv, EntriesMatch, OwnEntry, Registered
<1>. QED  BY <1>5, <1>6

LEMMA CancelKeeps ==
  ASSUME ContextInv, NEW k \in ReadKeys, ContextCancel(k) \/ TombExpires(k)
  PROVE  ContextInv'
<1>0. /\ registered \in [ReadKeys -> Reads \cup {"none"}] /\ reads' = reads /\ cancelled \subseteq Reads
  BY DEF ContextInv, ContextType, ContextCancel, TombExpires
<1>1. CASE UNCHANGED <<registered, cancelled>>
  BY <1>0, <1>1 DEF ContextInv, ContextType, EntriesMatch, OwnEntry, Registered, CancelInv, CancelledIsFinal
<1>2. CASE ~UNCHANGED <<registered, cancelled>>
  <2>1. PICK r \in Reads : /\ registered[k] = r /\ r # "none" /\ cancelled' = cancelled \cup {r}
                           /\ registered' = [registered EXCEPT ![k] = "none"]
    BY <1>0, <1>2 DEF ContextCancel, TombExpires
  <2>2. registered'[k] = "none" /\ \A j \in ReadKeys \ {k} : registered'[j] = registered[j]  BY <1>0, <2>1
  <2>3. reads[r].key = k /\ reads[r].at \in {"working", "decided"}  BY <2>1, NoneRegistered
  <2>4. \A j \in ReadKeys : registered[j] = r => j = k  BY <2>1, <2>3, NoneRegistered
  <2>5. ContextType'  BY <1>0, <2>1 DEF ContextInv, ContextType
  <2>6. EntriesMatch'  BY <1>0, <2>1, <2>2, <2>3, NoneRegistered DEF ContextInv, EntriesMatch, OwnEntry, Registered
  <2>7. CancelInv'
    <3>1. \A q \in cancelled : \A j \in ReadKeys : registered'[j] # q  BY <1>0, <2>2, ContextAssumption DEF ContextInv, CancelInv
    <3>2. \A j \in ReadKeys : registered'[j] # r  BY <2>1, <2>2, <2>4
    <3>. QED  BY <1>0, <2>1, <2>3, <3>1, <3>2 DEF ContextInv, CancelInv
  <2>8. CancelledIsFinal'  BY <1>0, <2>1, <2>3 DEF ContextInv, CancelledIsFinal
  <2>. QED  BY <2>5, <2>6, <2>7, <2>8 DEF ContextInv
<1>. QED  BY <1>1, <1>2

LEMMA EndKeeps ==
  ASSUME ContextInv, NEW r \in Reads, WorkEnds(r) \/ ContextReturns(r) \/ ContextDropped(r)
  PROVE  ContextInv'
<1>0. /\ registered \in [ReadKeys -> Reads \cup {"none"}] /\ reads \in [Reads -> ReadRecord] /\ cancelled' = cancelled
      /\ reads[r].at \in {"working", "decided"} /\ reads[r].key \in ReadKeys /\ r # "none" /\ cancelled \subseteq Reads
  BY NoneRegistered, ContextAssumption DEF ContextInv, ContextType, WorkEnds, ContextReturns, ContextDropped
<1>1. CASE WorkEnds(r)
  <2>1. PICK x \in {"payload", "error"} : reads' = [reads EXCEPT ![r].at = "decided", ![r].result = x]  BY <1>1 DEF WorkEnds
  <2>2. /\ [reads[r] EXCEPT !.at = "decided", !.result = x] \in ReadRecord
        /\ [reads[r] EXCEPT !.at = "decided", !.result = x].at = "decided"
        /\ [reads[r] EXCEPT !.at = "decided", !.result = x].key = reads[r].key
    BY <1>0 DEF ReadRecord
  <2>3. PICK e \in ReadRecord : e = [reads[r] EXCEPT !.at = "decided", !.result = x]  BY <2>2
  <2>4. reads' = [reads EXCEPT ![r] = e] /\ registered' = registered /\ e.at = "decided" /\ e.key = reads[r].key
    BY <1>0, <1>1, <2>1, <2>2, <2>3 DEF WorkEnds
  <2>5. reads'[r] = e /\ \A q \in Reads \ {r} : reads'[q] = reads[q]  BY <1>0, <2>4
  <2>6. ContextType'  BY <1>0, <2>4 DEF ContextType
  <2>7. EntriesMatch'
    <3>1. \A q \in Reads : reads'[q].key = reads[q].key /\ (reads'[q].at \in {"working", "decided"} <=> reads[q].at \in {"working", "decided"})
      BY <1>0, <2>4, <2>5
    <3>. QED  BY <1>0, <2>4, <3>1, NoneRegistered DEF ContextInv, EntriesMatch, OwnEntry, Registered
  <2>. QED  BY <1>0, <2>4, <2>5, <2>6, <2>7 DEF ContextInv, CancelInv, CancelledIsFinal
<1>2. CASE ContextReturns(r) \/ ContextDropped(r)
  <2>1. PICK e \in ReadRecord : /\ reads' = [reads EXCEPT ![r] = e] /\ e.at = "over" /\ e.key = reads[r].key
                                /\ ~OwnEntry(r) => e.result = "error"
    <3>1. CASE ContextReturns(r) /\ OwnEntry(r)
      <4>1. /\ [reads[r] EXCEPT !.at = "over"] \in ReadRecord
            /\ [reads[r] EXCEPT !.at = "over"].at = "over" /\ [reads[r] EXCEPT !.at = "over"].key = reads[r].key
        BY <1>0 DEF ReadRecord
      <4>2. reads' = [reads EXCEPT ![r] = [reads[r] EXCEPT !.at = "over"]]
        BY <1>0, <3>1 DEF ContextReturns, StillRegistered, ReadRecord
      <4>. QED  BY <3>1, <4>1, <4>2
    <3>2. CASE ~(ContextReturns(r) /\ OwnEntry(r))
      <4>1. /\ [reads[r] EXCEPT !.at = "over", !.result = "error"] \in ReadRecord
            /\ [reads[r] EXCEPT !.at = "over", !.result = "error"].at = "over"
            /\ [reads[r] EXCEPT !.at = "over", !.result = "error"].key = reads[r].key
            /\ [reads[r] EXCEPT !.at = "over", !.result = "error"].result = "error"
        BY <1>0 DEF ReadRecord
      <4>2. reads' = [reads EXCEPT ![r] = [reads[r] EXCEPT !.at = "over", !.result = "error"]]
        BY <1>0, <1>2, <3>2 DEF ContextReturns, ContextDropped, StillRegistered
      <4>. QED  BY <4>1, <4>2
    <3>. QED  BY <3>1, <3>2
  <2>2. reads'[r] = e /\ \A q \in Reads \ {r} : reads'[q] = reads[q]  BY <1>0, <2>1
  <2>3. registered' \in [ReadKeys -> Reads \cup {"none"}] /\ \A k \in ReadKeys : registered'[k] # r /\ registered'[k] \in {registered[k], "none"}
    <3>1. \A k \in ReadKeys : registered[k] = r => k = reads[r].key  BY <1>0, NoneRegistered
    <3>2. registered' = Released(r)  BY <1>2 DEF ContextReturns, ContextDropped
    <3>. QED  BY <1>0, <3>1, <3>2 DEF Released, OwnEntry
  <2>4. \A k \in ReadKeys : registered[k] # r => registered'[k] = registered[k]
    BY <1>0, <1>2 DEF ContextReturns, ContextDropped, Released, OwnEntry
  <2>5. ContextType'  BY <1>0, <2>1, <2>3 DEF ContextType
  <2>6. EntriesMatch'
    <3>1. \A q \in Reads : reads'[q].at \in {"working", "decided"} /\ q \notin cancelled' => registered'[reads'[q].key] = q
      <4>1. ASSUME NEW q \in Reads \ {r}, reads[q].at \in {"working", "decided"}, q \notin cancelled
            PROVE  registered'[reads[q].key] = q
        BY <2>4, <4>1, NoneRegistered DEF ContextInv, EntriesMatch, OwnEntry
      <4>. QED  BY <1>0, <2>1, <2>2, <4>1
    <3>2. \A k \in ReadKeys : registered'[k] # "none" => /\ reads'[registered'[k]].at \in {"working", "decided"}
                                                         /\ reads'[registered'[k]].key = k
      BY <2>2, <2>3, NoneRegistered
    <3>. QED  BY <3>1, <3>2 DEF EntriesMatch, OwnEntry, Registered
  <2>7. CancelInv'  BY <1>0, <2>1, <2>2, <2>3, ContextAssumption DEF ContextInv, CancelInv
  <2>8. CancelledIsFinal'
    <3>1. r \in cancelled => e.result = "error"  BY <1>0, <2>1 DEF ContextInv, CancelInv, OwnEntry
    <3>. QED  BY <1>0, <2>2, <3>1 DEF ContextInv, CancelledIsFinal
  <2>. QED  BY <2>5, <2>6, <2>7, <2>8 DEF ContextInv
<1>. QED  BY <1>1, <1>2

(* A cancelled read returns no payload, and every read that goes on can be cancelled under its own key. *)
THEOREM ContextsKeep == ContextSpec => [](CancelledIsFinal /\ EntriesMatch)
<1>1. ContextInit => ContextInv
  <2>1. (CHOOSE x \in ReadKeys : TRUE) \in ReadKeys  BY ContextAssumption
  <2>2. ContextInit => ContextType
    <3>. SUFFICES ASSUME ContextInit, NEW r \in Reads PROVE reads[r] \in ReadRecord  BY DEF ContextInit, ContextType
    <3>. QED  BY <2>1 DEF ContextInit, ReadRecord
  <2>. QED  BY <2>2 DEF ContextInit, ContextInv, EntriesMatch, Registered, CancelInv, CancelledIsFinal
<1>2. ContextInv /\ [ContextNext]_contextVars => ContextInv'
  <2>1. ContextInv /\ UNCHANGED contextVars => ContextInv'
    BY DEF contextVars, ContextInv, ContextType, EntriesMatch, OwnEntry, Registered, CancelInv, CancelledIsFinal
  <2>. QED  BY <2>1, StartKeeps, CancelKeeps, EndKeeps DEF ContextNext
<1>3. ContextInv => CancelledIsFinal /\ EntriesMatch  BY DEF ContextInv
<1>. QED  BY <1>1, <1>2, <1>3, PTL DEF ContextSpec

------------------------------------
(* The connections of an account and the cache of its folders *)

WireRecord == [open : BOOLEAN, unread : Nat]
CallRecord == [kind : ImapKinds, at : {"idle", "look", "listing", "store", "command", "scan", "answered", "clear", "done", "over"},
               wire : Nat, epoch : Nat, boxes : Nat]
ImapType == /\ icWires \in Seq(WireRecord) /\ icPool \in SUBSET Nat /\ icCalls \in [ImapRequests -> CallRecord]
            /\ icFolders \in Nat /\ icEpoch \in Nat /\ icCache \in Seq(Nat) /\ icTold \in Nat
AtWork(r) == icCalls[r].at \notin {"idle", "over"}
\* A connection is idle, or of one request, or given up; the first two have nothing unread.
WiresInv == /\ \A w \in icPool : w \in 1..Len(icWires) /\ icWires[w].unread = 0
            /\ \A r \in ImapRequests : AtWork(r) => /\ icCalls[r].wire \in 1..Len(icWires) \ icPool
                                                    /\ icWires[icCalls[r].wire].unread = 0
            /\ \A r, q \in ImapRequests : AtWork(r) /\ AtWork(q) /\ icCalls[r].wire = icCalls[q].wire => r = q
            /\ \A r \in ImapRequests : icCalls[r].at \in {"listing", "store"} => icCalls[r].kind # "change"
            /\ ~icCrossed
\* What a change that was answered made, or is about to be told, no listing of the present epoch is older than.
FoldersInv ==
    /\ icTold <= icFolders /\ \A i \in 1..Len(icCache) : icCache[i] >= icTold
    /\ \A r \in ImapRequests : /\ icCalls[r].at \in {"answered", "clear"} => icCalls[r].boxes <= icFolders
                               /\ icCalls[r].epoch <= icEpoch
    /\ \A r \in ImapRequests : icCalls[r].at = "store" /\ icCalls[r].epoch = icEpoch =>
          /\ icCalls[r].boxes >= icTold
          /\ \A q \in ImapRequests : icCalls[q].at = "clear" => icCalls[r].boxes >= icCalls[q].boxes
ImapInv == ImapType /\ WiresInv /\ FoldersInv

LEMMA CallFields ==
  ASSUME ImapType, NEW r \in ImapRequests
  PROVE  /\ icCalls[r] \in CallRecord /\ icCalls[r].wire \in Nat /\ icCalls[r].epoch \in Nat /\ icCalls[r].boxes \in Nat
         /\ icCalls[r].kind \in ImapKinds /\ icCalls[r].at \in {"idle", "look", "listing", "store", "command", "scan", "answered", "clear", "done", "over"}
<1>1. icCalls[r] \in CallRecord  BY DEF ImapType
<1>. QED  BY <1>1 DEF CallRecord

\* A step of one request that goes on with its connection, or ends.
LEMMA OneCall ==
  ASSUME ImapType, WiresInv, NEW r \in ImapRequests, NEW c \in CallRecord, icCalls' = [icCalls EXCEPT ![r] = c],
         icCalls[r].at \notin {"idle", "over"}, c.at = "over" \/ c.wire = icCalls[r].wire,
         c.at \in {"listing", "store"} => c.kind # "change",
         icWires' \in Seq(WireRecord), Len(icWires') = Len(icWires),
         \A w \in 1..Len(icWires) : icWires'[w].unread = 0 \/ icWires'[w] = icWires[w] \/ (c.at = "over" /\ icPool' = icPool /\ w = icCalls[r].wire),
         icPool' \in {icPool, icPool \cup {icCalls[r].wire}}, c.at = "over" \/ icPool' = icPool,
         icCrossed' = icCrossed \/ icCrossed' = (icCrossed \/ icWires[icCalls[r].wire].unread > 0)
  PROVE  WiresInv'
<1>1. icCalls'[r] = c /\ \A q \in ImapRequests \ {r} : icCalls'[q] = icCalls[q]  BY DEF ImapType
<1>2. PICK v \in 1..Len(icWires) : v = icCalls[r].wire /\ icWires[v].unread = 0 /\ v \notin icPool  BY DEF WiresInv, AtWork
<1>3. ~icCrossed'
  <2>1. ~(icWires[icCalls[r].wire].unread > 0)  BY <1>2
  <2>. QED  BY <2>1, Zenon DEF WiresInv
<1>4. \A q \in ImapRequests \ {r} : AtWork(q) => icCalls[q].wire # v  BY <1>2 DEF WiresInv, AtWork
<1>5. \A w \in icPool' : w \in 1..Len(icWires') /\ icWires'[w].unread = 0  BY <1>2 DEF WiresInv
<1>6. \A q \in ImapRequests \ {r} : AtWork(q)' => icCalls'[q].wire \in 1..Len(icWires') \ icPool' /\ icWires'[icCalls'[q].wire].unread = 0
  BY <1>1, <1>2, <1>4 DEF WiresInv, AtWork
<1>7. AtWork(r)' => icCalls'[r].wire = v /\ v \in 1..Len(icWires') \ icPool' /\ icWires'[v].unread = 0  BY <1>1, <1>2 DEF AtWork
<1>8. \A p, q \in ImapRequests : AtWork(p)' /\ AtWork(q)' /\ icCalls'[p].wire = icCalls'[q].wire => p = q
  BY <1>1, <1>4, <1>7 DEF WiresInv, AtWork
<1>9. \A q \in ImapRequests : icCalls'[q].at \in {"listing", "store"} => icCalls'[q].kind # "change"  BY <1>1 DEF WiresInv
<1>. QED  BY <1>3, <1>5, <1>6, <1>7, <1>8, <1>9 DEF WiresInv

LEMMA AcquireKeeps ==
  ASSUME ImapInv, NEW r \in ImapRequests, NEW kind \in ImapKinds, AcquireWire(r, kind)
  PROVE  ImapInv'
<1>1. /\ icWires \in Seq(WireRecord) /\ icPool \in SUBSET Nat /\ icCalls \in [ImapRequests -> CallRecord] /\ Len(icWires) \in Nat
      /\ icCalls[r] \in CallRecord /\ icCalls[r].at = "idle" /\ UNCHANGED <<icFolders, icEpoch, icCache, icTold, icCrossed>>
  <2>1. icWires \in Seq(WireRecord) /\ icPool \in SUBSET Nat /\ icCalls \in [ImapRequests -> CallRecord]  BY DEF ImapInv, ImapType
  <2>2. icCalls[r].at = "idle" /\ UNCHANGED <<icFolders, icEpoch, icCache, icTold, icCrossed>>  BY DEF AcquireWire, folderVars
  <2>. QED  BY <2>1, <2>2
<1>2. NewWire \in WireRecord /\ NewWire.unread = 0  BY DEF NewWire, WireRecord
<1>3. PICK v \in Nat : /\ icCalls' = [icCalls EXCEPT ![r] = [@ EXCEPT !.kind = kind, !.at = "look", !.wire = v]]
                       /\ \/ v \in icPool /\ icPool' = icPool \ {v} /\ icWires' = icWires
                          \/ icPool = {} /\ icPool' = icPool /\ icWires' = Append(icWires, NewWire) /\ v = Len(icWires) + 1
  <2>1. CASE \E w \in icPool : /\ icPool' = icPool \ {w} /\ UNCHANGED icWires
                               /\ icCalls' = [icCalls EXCEPT ![r] = [@ EXCEPT !.kind = kind, !.at = "look", !.wire = w]]
    BY <1>1, <2>1
  <2>2. CASE /\ icPool = {} /\ UNCHANGED icPool /\ icWires' = Append(icWires, NewWire)
             /\ icCalls' = [icCalls EXCEPT ![r] = [@ EXCEPT !.kind = kind, !.at = "look", !.wire = Len(icWires) + 1]]
    <3>1. Len(icWires) + 1 \in Nat  BY <1>1
    <3>. QED  BY <2>2, <3>1
  <2>. QED  BY <2>1, <2>2 DEF AcquireWire
<1>4. PICK c \in CallRecord : /\ c = [icCalls[r] EXCEPT !.kind = kind, !.at = "look", !.wire = v]
                              /\ c.at = "look" /\ c.wire = v /\ c.epoch = icCalls[r].epoch /\ c.boxes = icCalls[r].boxes
  <2>1. [icCalls[r] EXCEPT !.kind = kind, !.at = "look", !.wire = v] \in CallRecord  BY <1>1 DEF CallRecord
  <2>2. /\ [icCalls[r] EXCEPT !.kind = kind, !.at = "look", !.wire = v].at = "look"
        /\ [icCalls[r] EXCEPT !.kind = kind, !.at = "look", !.wire = v].wire = v
        /\ [icCalls[r] EXCEPT !.kind = kind, !.at = "look", !.wire = v].epoch = icCalls[r].epoch
        /\ [icCalls[r] EXCEPT !.kind = kind, !.at = "look", !.wire = v].boxes = icCalls[r].boxes
    BY <1>1 DEF CallRecord
  <2>. QED  BY <2>1, <2>2
<1>5. icCalls' = [icCalls EXCEPT ![r] = c]  BY <1>1, <1>3, <1>4
<1>6. icCalls'[r] = c /\ \A q \in ImapRequests \ {r} : icCalls'[q] = icCalls[q]  BY <1>1, <1>5
<1>7. /\ icWires' \in Seq(WireRecord) /\ Len(icWires') >= Len(icWires) /\ Len(icWires') \in Nat
      /\ \A w \in 1..Len(icWires) : icWires'[w] = icWires[w]
      /\ v \in 1..Len(icWires') \ icPool' /\ icWires'[v].unread = 0 /\ icPool' \in SUBSET icPool
  <2>1. CASE v \in icPool /\ icPool' = icPool \ {v} /\ icWires' = icWires  BY <1>1, <2>1 DEF ImapInv, WiresInv
  <2>2. CASE icPool = {} /\ icPool' = icPool /\ icWires' = Append(icWires, NewWire) /\ v = Len(icWires) + 1  BY <1>1, <1>2, <2>2
  <2>. QED  BY <1>3, <2>1, <2>2
<1>8. \A q \in ImapRequests : AtWork(q) => icCalls[q].wire # v
  <2>1. CASE v \in icPool  BY <2>1 DEF ImapInv, WiresInv
  <2>2. CASE v = Len(icWires) + 1  BY <1>1, <2>2 DEF ImapInv, WiresInv
  <2>. QED  BY <1>3, <2>1, <2>2
<1>9. ImapType'  BY <1>1, <1>5, <1>7 DEF ImapInv, ImapType
<1>10. WiresInv'
  <2>1. \A w \in icPool' : w \in 1..Len(icWires') /\ icWires'[w].unread = 0  BY <1>1, <1>7 DEF ImapInv, WiresInv
  <2>2. ASSUME NEW q \in ImapRequests, AtWork(q)'
        PROVE  icCalls'[q].wire \in 1..Len(icWires') \ icPool' /\ icWires'[icCalls'[q].wire].unread = 0
    <3>1. CASE q = r  BY <1>4, <1>6, <1>7, <3>1
    <3>2. CASE q # r
      <4>1. icCalls'[q] = icCalls[q] /\ AtWork(q)  BY <1>6, <2>2, <3>2 DEF AtWork
      <4>2. icCalls[q].wire \in 1..Len(icWires) \ icPool /\ icWires[icCalls[q].wire].unread = 0  BY <4>1 DEF ImapInv, WiresInv
      <4>3. icCalls[q].wire \in 1..Len(icWires') \ icPool'
        <5>1. icCalls[q].wire # v  BY <1>8, <4>1
        <5>. QED  BY <1>1, <1>7, <4>2
      <4>. QED  BY <1>7, <4>1, <4>2, <4>3
    <3>. QED  BY <3>1, <3>2
  <2>3. ASSUME NEW p \in ImapRequests, NEW q \in ImapRequests, AtWork(p)', AtWork(q)', icCalls'[p].wire = icCalls'[q].wire
        PROVE  p = q
    <3>1. \A x \in ImapRequests \ {r} : AtWork(x)' => AtWork(x) /\ icCalls'[x].wire = icCalls[x].wire /\ icCalls[x].wire # v
      BY <1>6, <1>8 DEF AtWork
    <3>2. icCalls'[r].wire = v  BY <1>4, <1>6
    <3>3. CASE p = r \/ q = r  BY <2>3, <3>1, <3>2, <3>3
    <3>4. CASE p # r /\ q # r  BY <2>3, <3>1, <3>4 DEF ImapInv, WiresInv
    <3>. QED  BY <3>3, <3>4
  <2>4. ~icCrossed'  BY <1>1 DEF ImapInv, WiresInv
  <2>5. \A q \in ImapRequests : icCalls'[q].at \in {"listing", "store"} => icCalls'[q].kind # "change"
    BY <1>4, <1>6 DEF ImapInv, WiresInv
  <2>. QED  BY <2>1, <2>2, <2>3, <2>4, <2>5 DEF WiresInv
<1>11. FoldersInv'  BY <1>1, <1>4, <1>6 DEF ImapInv, FoldersInv
<1>. QED  BY <1>9, <1>10, <1>11 DEF ImapInv

LEMMA ExpireKeeps ==
  ASSUME ImapInv, FoldersExpire \/ \E w \in DOMAIN icWires : WireExpires(w)
  PROVE  ImapInv'
<1>1. /\ icWires \in Seq(WireRecord) /\ icPool \in SUBSET Nat /\ icCache \in Seq(Nat) /\ icTold \in Nat  BY DEF ImapInv, ImapType
<1>2. CASE FoldersExpire
  <2>1. icCache # <<>> /\ icCache' = Tail(icCache) /\ UNCHANGED <<icWires, icPool, icCalls, icFolders, icEpoch, icTold, icCrossed>>
    BY <1>2 DEF FoldersExpire
  <2>2. icCache' \in Seq(Nat) /\ \A i \in 1..Len(icCache') : i+1 \in 1..Len(icCache) /\ icCache'[i] = icCache[i+1]  BY <1>1, <2>1
  <2>3. ImapType' /\ WiresInv'  BY <2>1, <2>2 DEF ImapInv, ImapType, WiresInv, AtWork
  <2>4. FoldersInv'  BY <2>1, <2>2 DEF ImapInv, FoldersInv
  <2>. QED  BY <2>3, <2>4 DEF ImapInv
<1>3. ASSUME NEW w \in DOMAIN icWires, WireExpires(w)
      PROVE  ImapInv'
  <2>1. w \in icPool /\ w \in 1..Len(icWires) /\ UNCHANGED <<icCalls, icFolders, icEpoch, icCache, icTold, icCrossed>>
    BY <1>1, <1>3 DEF WireExpires, folderVars
  <2>2. CASE icPool' = icPool \ {w} /\ icWires' = icWires  BY <2>1, <2>2 DEF ImapInv, ImapType, WiresInv, AtWork, FoldersInv
  <2>3. CASE icPool' = icPool /\ icWires' = [icWires EXCEPT ![w].open = FALSE]
    <3>1. icWires[w] \in WireRecord  BY <1>1, <2>1
    <3>2. [icWires[w] EXCEPT !.open = FALSE] \in WireRecord /\ [icWires[w] EXCEPT !.open = FALSE].unread = icWires[w].unread
      BY <3>1 DEF WireRecord
    <3>3. PICK x \in WireRecord : x = [icWires[w] EXCEPT !.open = FALSE] /\ x.unread = icWires[w].unread  BY <3>2
    <3>4. icWires' = [icWires EXCEPT ![w] = x]  BY <1>1, <2>3, <3>3
    <3>5. icWires' \in Seq(WireRecord) /\ Len(icWires') = Len(icWires) /\ \A u \in 1..Len(icWires) : icWires'[u].unread = icWires[u].unread
      BY <1>1, <2>1, <3>3, <3>4
    <3>6. ImapType' /\ FoldersInv'  BY <2>1, <2>3, <3>5 DEF ImapInv, ImapType, FoldersInv
    <3>7. WiresInv'  BY <2>1, <2>3, <3>5 DEF ImapInv, WiresInv, AtWork
    <3>. QED  BY <3>6, <3>7 DEF ImapInv
  <2>. QED  BY <1>3, <2>2, <2>3 DEF WireExpires
<1>. QED  BY <1>2, <1>3

\* A request goes on with its connection.
GoesOn(r, at, epoch, boxes) ==
    \/ icCalls' = [icCalls EXCEPT ![r].at = at] /\ epoch = icCalls[r].epoch /\ boxes = icCalls[r].boxes
    \/ icCalls' = [icCalls EXCEPT ![r].at = at, ![r].epoch = epoch] /\ boxes = icCalls[r].boxes
    \/ icCalls' = [icCalls EXCEPT ![r].at = at, ![r].boxes = boxes] /\ epoch = icCalls[r].epoch

\* What a step that goes on with its connection does to the record of its request.
LEMMA CallGoes ==
  ASSUME ImapType, NEW r \in ImapRequests, NEW epoch \in Nat, NEW boxes \in Nat,
         NEW at \in {"look", "listing", "store", "command", "scan", "answered", "clear", "done", "over"},
         GoesOn(r, at, epoch, boxes)
  PROVE  \E c \in CallRecord : /\ icCalls' = [icCalls EXCEPT ![r] = c]
                                /\ c.at = at /\ c.wire = icCalls[r].wire /\ c.kind = icCalls[r].kind /\ c.epoch = epoch /\ c.boxes = boxes
<1>1. icCalls[r].wire \in Nat /\ r \in DOMAIN icCalls /\ icCalls \in [ImapRequests -> CallRecord]  BY CallFields DEF ImapType
<1>2. icCalls[r] \in CallRecord  BY <1>1
<1>. DEFINE c == [icCalls[r] EXCEPT !.at = at, !.epoch = epoch, !.boxes = boxes]
<1>3. c \in CallRecord  BY <1>2 DEF CallRecord
<1>4. c.at = at /\ c.wire = icCalls[r].wire /\ c.kind = icCalls[r].kind /\ c.epoch = epoch /\ c.boxes = boxes
  BY <1>2 DEF CallRecord
<1>5. icCalls' = [icCalls EXCEPT ![r] = c]
  <2>1. CASE icCalls' = [icCalls EXCEPT ![r].at = at] /\ epoch = icCalls[r].epoch /\ boxes = icCalls[r].boxes
    <3>1. c = [icCalls[r] EXCEPT !.at = at]  BY <1>2, <2>1 DEF CallRecord
    <3>. QED  BY <1>1, <2>1, <3>1
  <2>2. CASE icCalls' = [icCalls EXCEPT ![r].at = at, ![r].epoch = epoch] /\ boxes = icCalls[r].boxes
    <3>1. c = [icCalls[r] EXCEPT !.at = at, !.epoch = epoch]  BY <1>2, <2>2 DEF CallRecord
    <3>. QED  BY <1>1, <2>2, <3>1
  <2>3. CASE icCalls' = [icCalls EXCEPT ![r].at = at, ![r].boxes = boxes] /\ epoch = icCalls[r].epoch
    <3>1. c = [icCalls[r] EXCEPT !.at = at, !.boxes = boxes]  BY <1>2, <2>3 DEF CallRecord
    <3>. QED  BY <1>1, <2>3, <3>1
  <2>. QED  BY <2>1, <2>2, <2>3 DEF GoesOn
<1>. HIDE DEF c
<1>. QED  BY <1>3, <1>4, <1>5

\* The connections and the folders, for a step of one request that ends it.
LEMMA CallEnds ==
  ASSUME ImapInv, NEW r \in ImapRequests, icCalls[r].at \notin {"idle", "over"}, Over(r), UNCHANGED folderVars,
         icWires' \in Seq(WireRecord), Len(icWires') = Len(icWires),
         \A w \in 1..Len(icWires) : icWires'[w] = icWires[w] \/ (icPool' = icPool /\ w = icCalls[r].wire),
         icPool' \in {icPool, icPool \cup {icCalls[r].wire}}, UNCHANGED icCrossed
  PROVE  ImapInv'
<1>1. /\ icCalls[r].wire \in Nat /\ icCalls[r].epoch \in Nat /\ icCalls[r].boxes \in Nat /\ icCalls \in [ImapRequests -> CallRecord]
      /\ ImapType
  BY CallFields DEF ImapInv, ImapType
<1>2. PICK c \in CallRecord : /\ c.at = "over" /\ c.epoch = icCalls[r].epoch /\ c.boxes = icCalls[r].boxes
                              /\ c = [icCalls[r] EXCEPT !.at = "over", !.wire = 0]
  <2>1. icCalls[r] \in CallRecord  BY <1>1
  <2>2. [icCalls[r] EXCEPT !.at = "over", !.wire = 0] \in CallRecord  BY <2>1 DEF CallRecord
  <2>3. /\ [icCalls[r] EXCEPT !.at = "over", !.wire = 0].at = "over"
        /\ [icCalls[r] EXCEPT !.at = "over", !.wire = 0].epoch = icCalls[r].epoch
        /\ [icCalls[r] EXCEPT !.at = "over", !.wire = 0].boxes = icCalls[r].boxes
    BY <2>1 DEF CallRecord
  <2>. QED  BY <2>2, <2>3
<1>3. icCalls' = [icCalls EXCEPT ![r] = c]  BY <1>1, <1>2 DEF Over
<1>4. icCalls'[r] = c /\ \A q \in ImapRequests \ {r} : icCalls'[q] = icCalls[q]  BY <1>1, <1>3
<1>5. WiresInv'
  <2>. HIDE DEF WiresInv
  <2>. QED  BY <1>1, <1>2, <1>3, OneCall DEF ImapInv
<1>6. ImapType'
  <2>1. icCalls' \in [ImapRequests -> CallRecord]  BY <1>1, <1>3
  <2>2. icPool' \in SUBSET Nat  BY <1>1 DEF ImapType
  <2>. QED  BY <1>1, <2>1, <2>2 DEF ImapType, folderVars
<1>7. FoldersInv'  BY <1>1, <1>2, <1>4 DEF ImapInv, FoldersInv, folderVars
<1>. QED  BY <1>5, <1>6, <1>7 DEF ImapInv

\* The connections, for a step of one request that goes on with its own.
LEMMA CallWires ==
  ASSUME ImapInv, NEW r \in ImapRequests, icCalls[r].at \notin {"idle", "over"}, NEW c \in CallRecord,
         icCalls' = [icCalls EXCEPT ![r] = c], c.wire = icCalls[r].wire, c.at \in {"listing", "store"} => c.kind # "change",
         icWires' \in Seq(WireRecord), Len(icWires') = Len(icWires), icPool' = icPool,
         \A w \in 1..Len(icWires) : icWires'[w].unread = 0 \/ icWires'[w] = icWires[w],
         icCrossed' = icCrossed \/ icCrossed' = (icCrossed \/ icWires[icCalls[r].wire].unread > 0)
  PROVE  /\ WiresInv' /\ icCalls' \in [ImapRequests -> CallRecord]
         /\ icCalls'[r] = c /\ \A q \in ImapRequests \ {r} : icCalls'[q] = icCalls[q]
<1>1. WiresInv'
  <2>1. ImapType /\ WiresInv  BY DEF ImapInv
  <2>. HIDE DEF WiresInv
  <2>. QED  BY <2>1, OneCall
<1>2. icCalls \in [ImapRequests -> CallRecord]  BY DEF ImapInv, ImapType
<1>. QED  BY <1>1, <1>2

LEMMA LookUpKeeps ==
  ASSUME ImapInv, NEW r \in ImapRequests, LookUp(r)
  PROVE  ImapInv'
<1>1. /\ icCalls[r].epoch \in Nat /\ icCalls[r].boxes \in Nat /\ ImapType /\ icWires \in Seq(WireRecord) /\ Len(icWires) \in Nat
      /\ icFolders \in Nat /\ icEpoch \in Nat /\ icTold \in Nat /\ icCache \in Seq(Nat) /\ icPool \in SUBSET Nat
  BY CallFields DEF ImapInv, ImapType
<1>2. /\ icCalls[r].at = "look" /\ UNCHANGED <<icWires, icPool, icFolders, icEpoch, icCache, icTold, icCrossed>>
  BY DEF LookUp, folderVars
<1>3. ASSUME NEW at \in {"command", "scan", "done", "listing"}, NEW epoch \in {icCalls[r].epoch, icEpoch}, NEW boxes \in Nat,
             at = "listing" => icCalls[r].kind # "change",
             GoesOn(r, at, epoch, boxes)
      PROVE  ImapInv'
  <2>1. PICK c \in CallRecord : /\ icCalls' = [icCalls EXCEPT ![r] = c]
                                /\ c.at = at /\ c.wire = icCalls[r].wire /\ c.kind = icCalls[r].kind /\ c.epoch = epoch /\ c.boxes = boxes
    <3>1. epoch \in Nat /\ at \in {"look", "listing", "store", "command", "scan", "answered", "clear", "done", "over"}
      BY <1>1, <1>3
    <3>. QED  BY <1>1, <1>3, <3>1, CallGoes
  <2>2. /\ WiresInv' /\ icCalls' \in [ImapRequests -> CallRecord]
        /\ icCalls'[r] = c /\ \A q \in ImapRequests \ {r} : icCalls'[q] = icCalls[q]
    BY <1>1, <1>2, <1>3, <2>1, CallWires
  <2>3. FoldersInv'  BY <1>1, <1>2, <2>1, <2>2 DEF ImapInv, FoldersInv
  <2>4. ImapType'  BY <1>1, <1>2, <2>2 DEF ImapType
  <2>. QED  BY <2>2, <2>3, <2>4 DEF ImapInv
<1>4. CASE icCalls[r].kind = "change" /\ Move(r, "command")  BY <1>1, <1>3, <1>4 DEF Move, GoesOn
<1>5. CASE /\ icCalls[r].kind # "change" /\ icCache # <<>>
           /\ icCalls' = [icCalls EXCEPT ![r].at = AfterFolders(icCalls[r].kind), ![r].boxes = Head(icCache)]
  <2>1. Head(icCache) \in Nat  BY <1>1, <1>5
  <2>2. AfterFolders(icCalls[r].kind) \in {"command", "scan", "done"}  BY <1>1, <1>5, CallFields DEF AfterFolders, ImapKinds
  <2>. QED  BY <1>1, <1>3, <1>5, <2>1, <2>2 DEF GoesOn
<1>6. CASE /\ icCalls[r].kind = "folders" \/ (icCalls[r].kind # "change" /\ icCache = <<>>)
           /\ icCalls' = [icCalls EXCEPT ![r].at = "listing", ![r].epoch = icEpoch]
  BY <1>1, <1>3, <1>6 DEF GoesOn
<1>. QED  BY <1>4, <1>5, <1>6 DEF LookUp

LEMMA ListFoldersKeeps ==
  ASSUME ImapInv, NEW r \in ImapRequests, ListFolders(r)
  PROVE  ImapInv'
<1>1. /\ icCalls[r].epoch \in Nat /\ icCalls[r].boxes \in Nat /\ ImapType /\ icWires \in Seq(WireRecord) /\ Len(icWires) \in Nat
      /\ icFolders \in Nat /\ icEpoch \in Nat /\ icTold \in Nat /\ icCache \in Seq(Nat) /\ icPool \in SUBSET Nat
  BY CallFields DEF ImapInv, ImapType
<1>2. /\ icCalls[r].at = "listing" /\ UNCHANGED <<icWires, icPool, icFolders, icEpoch, icCache, icTold>>
      /\ icCrossed' = (icCrossed \/ icWires[icCalls[r].wire].unread > 0)
      /\ icCalls' = [icCalls EXCEPT ![r].at = "store", ![r].boxes = icFolders]
  BY DEF ListFolders, WireAnswered, folderVars
<1>6. icCalls[r].kind # "change"  BY <1>2 DEF ImapInv, WiresInv
<1>3. PICK c \in CallRecord : /\ icCalls' = [icCalls EXCEPT ![r] = c]
                              /\ c.at = "store" /\ c.wire = icCalls[r].wire /\ c.kind = icCalls[r].kind /\ c.epoch = icCalls[r].epoch /\ c.boxes = icFolders
  <2>1. GoesOn(r, "store", icCalls[r].epoch, icFolders)  BY <1>2 DEF GoesOn
  <2>. QED  BY <1>1, <2>1, CallGoes
<1>4. /\ WiresInv' /\ icCalls' \in [ImapRequests -> CallRecord]
      /\ icCalls'[r] = c /\ \A q \in ImapRequests \ {r} : icCalls'[q] = icCalls[q]
  BY <1>1, <1>2, <1>3, <1>6, CallWires
<1>5. FoldersInv'
  <2>1. \A q \in ImapRequests : icCalls[q].at = "clear" => icFolders >= icCalls[q].boxes
    BY <1>1, CallFields DEF ImapInv, FoldersInv
  <2>. QED  BY <1>1, <1>2, <1>3, <1>4, <2>1 DEF ImapInv, FoldersInv
<1>. QED  BY <1>1, <1>2, <1>4, <1>5 DEF ImapInv, ImapType

LEMMA FolderChangesKeeps ==
  ASSUME ImapInv, NEW r \in ImapRequests, FolderChanges(r)
  PROVE  ImapInv'
<1>1. /\ icCalls[r].epoch \in Nat /\ icCalls[r].boxes \in Nat /\ ImapType /\ icWires \in Seq(WireRecord) /\ Len(icWires) \in Nat
      /\ icFolders \in Nat /\ icEpoch \in Nat /\ icTold \in Nat /\ icCache \in Seq(Nat) /\ icPool \in SUBSET Nat
  BY CallFields DEF ImapInv, ImapType
<1>2. /\ icCalls[r].at = "command" /\ UNCHANGED <<icWires, icPool, icEpoch, icCache, icTold, icCrossed>> /\ icFolders' = icFolders + 1
      /\ icCalls' = [icCalls EXCEPT ![r].at = "answered", ![r].boxes = icFolders + 1]
  BY DEF FolderChanges
<1>3. PICK c \in CallRecord : /\ icCalls' = [icCalls EXCEPT ![r] = c]
                              /\ c.at = "answered" /\ c.wire = icCalls[r].wire /\ c.kind = icCalls[r].kind /\ c.epoch = icCalls[r].epoch /\ c.boxes = icFolders + 1
  <2>1. GoesOn(r, "answered", icCalls[r].epoch, icFolders + 1)  BY <1>2 DEF GoesOn
  <2>. QED  BY <1>1, <2>1, CallGoes
<1>4. /\ WiresInv' /\ icCalls' \in [ImapRequests -> CallRecord]
      /\ icCalls'[r] = c /\ \A q \in ImapRequests \ {r} : icCalls'[q] = icCalls[q]
  BY <1>1, <1>2, <1>3, CallWires
<1>5. FoldersInv'
  <2>1. \A q \in ImapRequests : icCalls[q].boxes \in Nat  BY <1>1, CallFields
  <2>. QED  BY <1>1, <1>2, <1>3, <1>4, <2>1 DEF ImapInv, FoldersInv
<1>. QED  BY <1>1, <1>2, <1>4, <1>5 DEF ImapInv, ImapType

LEMMA ChangeAnsweredKeeps ==
  ASSUME ImapInv, NEW r \in ImapRequests, ChangeAnswered(r)
  PROVE  ImapInv'
<1>1. /\ icCalls[r].epoch \in Nat /\ icCalls[r].boxes \in Nat /\ ImapType /\ icWires \in Seq(WireRecord) /\ Len(icWires) \in Nat
      /\ icFolders \in Nat /\ icEpoch \in Nat /\ icTold \in Nat /\ icCache \in Seq(Nat) /\ icPool \in SUBSET Nat
  BY CallFields DEF ImapInv, ImapType
<1>2. /\ icCalls[r].at = "answered" /\ UNCHANGED <<icWires, icPool, icFolders, icCache, icTold>> /\ icEpoch' = icEpoch + 1
      /\ icCrossed' = (icCrossed \/ icWires[icCalls[r].wire].unread > 0)
      /\ icCalls' = [icCalls EXCEPT ![r].at = "clear"]
  BY DEF ChangeAnswered, WireAnswered, Move
<1>3. PICK c \in CallRecord : /\ icCalls' = [icCalls EXCEPT ![r] = c]
                              /\ c.at = "clear" /\ c.wire = icCalls[r].wire /\ c.kind = icCalls[r].kind /\ c.epoch = icCalls[r].epoch /\ c.boxes = icCalls[r].boxes
  <2>1. GoesOn(r, "clear", icCalls[r].epoch, icCalls[r].boxes)  BY <1>2 DEF GoesOn
  <2>. QED  BY <1>1, <2>1, CallGoes
<1>4. /\ WiresInv' /\ icCalls' \in [ImapRequests -> CallRecord]
      /\ icCalls'[r] = c /\ \A q \in ImapRequests \ {r} : icCalls'[q] = icCalls[q]
  BY <1>1, <1>2, <1>3, CallWires
<1>5. FoldersInv'
  <2>1. \A q \in ImapRequests : icCalls[q].epoch \in Nat /\ icCalls[q].epoch <= icEpoch  BY <1>1, CallFields DEF ImapInv, FoldersInv
  <2>2. \A q \in ImapRequests : icCalls'[q].epoch # icEpoch' /\ icCalls'[q].epoch <= icEpoch'  BY <1>1, <1>2, <1>3, <1>4, <2>1
  <2>3. \A q \in ImapRequests : icCalls'[q].at \in {"answered", "clear"} => icCalls'[q].boxes <= icFolders'
    BY <1>1, <1>2, <1>3, <1>4 DEF ImapInv, FoldersInv
  <2>. QED  BY <1>2, <2>2, <2>3 DEF ImapInv, FoldersInv
<1>. QED  BY <1>1, <1>2, <1>4, <1>5 DEF ImapInv, ImapType

LEMMA ChangeClearsKeeps ==
  ASSUME ImapInv, NEW r \in ImapRequests, ChangeClears(r)
  PROVE  ImapInv'
<1>1. /\ icCalls[r].epoch \in Nat /\ icCalls[r].boxes \in Nat /\ ImapType /\ icWires \in Seq(WireRecord) /\ Len(icWires) \in Nat
      /\ icFolders \in Nat /\ icEpoch \in Nat /\ icTold \in Nat /\ icCache \in Seq(Nat) /\ icPool \in SUBSET Nat
  BY CallFields DEF ImapInv, ImapType
<1>2. /\ icCalls[r].at = "clear" /\ UNCHANGED <<icWires, icPool, icFolders, icEpoch, icCrossed>> /\ icCache' = <<>>
      /\ icTold' = (IF icCalls[r].boxes > icTold THEN icCalls[r].boxes ELSE icTold)
      /\ icCalls' = [icCalls EXCEPT ![r].at = "done"]
  BY DEF ChangeClears, Move
<1>3. PICK c \in CallRecord : /\ icCalls' = [icCalls EXCEPT ![r] = c]
                              /\ c.at = "done" /\ c.wire = icCalls[r].wire /\ c.kind = icCalls[r].kind /\ c.epoch = icCalls[r].epoch /\ c.boxes = icCalls[r].boxes
  <2>1. GoesOn(r, "done", icCalls[r].epoch, icCalls[r].boxes)  BY <1>2 DEF GoesOn
  <2>. QED  BY <1>1, <2>1, CallGoes
<1>4. /\ WiresInv' /\ icCalls' \in [ImapRequests -> CallRecord]
      /\ icCalls'[r] = c /\ \A q \in ImapRequests \ {r} : icCalls'[q] = icCalls[q]
  BY <1>1, <1>2, <1>3, CallWires
<1>5. FoldersInv'
  <2>1. icTold' \in {icTold, icCalls[r].boxes} /\ icTold' <= icFolders  BY <1>1, <1>2 DEF ImapInv, FoldersInv
  <2>2. \A q \in ImapRequests : /\ icCalls'[q].at \in {"answered", "clear"} => icCalls'[q].boxes <= icFolders
                                /\ icCalls'[q].epoch <= icEpoch
    BY <1>1, <1>2, <1>3, <1>4 DEF ImapInv, FoldersInv
  <2>3. ASSUME NEW p \in ImapRequests, icCalls'[p].at = "store", icCalls'[p].epoch = icEpoch
        PROVE  icCalls'[p].boxes >= icTold' /\ \A q \in ImapRequests : icCalls'[q].at = "clear" => icCalls'[p].boxes >= icCalls'[q].boxes
    <3>1. p # r /\ icCalls'[p] = icCalls[p]  BY <1>3, <1>4, <2>3
    <3>2. icCalls[p].boxes >= icTold /\ \A q \in ImapRequests : icCalls[q].at = "clear" => icCalls[p].boxes >= icCalls[q].boxes
      BY <2>3, <3>1 DEF ImapInv, FoldersInv
    <3>. QED  BY <1>2, <1>3, <1>4, <2>1, <3>1, <3>2
  <2>4. \A i \in 1..Len(icCache') : icCache'[i] >= icTold'  BY <1>2
  <2>5. /\ icTold' <= icFolders' /\ icFolders' = icFolders /\ icEpoch' = icEpoch  BY <1>2, <2>1
  <2>6. \A q \in ImapRequests : /\ icCalls'[q].at \in {"answered", "clear"} => icCalls'[q].boxes <= icFolders'
                                /\ icCalls'[q].epoch <= icEpoch'
    BY <2>2, <2>5
  <2>7. \A p \in ImapRequests : icCalls'[p].at = "store" /\ icCalls'[p].epoch = icEpoch' =>
          /\ icCalls'[p].boxes >= icTold'
          /\ \A q \in ImapRequests : icCalls'[q].at = "clear" => icCalls'[p].boxes >= icCalls'[q].boxes
    BY <2>3, <2>5
  <2>. QED  BY <2>4, <2>5, <2>6, <2>7 DEF FoldersInv
<1>6. ImapType'
  <2>1. icTold' \in Nat /\ icCache' \in Seq(Nat)  BY <1>1, <1>2
  <2>. QED  BY <1>1, <1>2, <1>4, <2>1 DEF ImapType
<1>. QED  BY <1>4, <1>5, <1>6 DEF ImapInv

LEMMA ScannedKeeps ==
  ASSUME ImapInv, NEW r \in ImapRequests, Scanned(r)
  PROVE  ImapInv'
<1>1. /\ icCalls[r].epoch \in Nat /\ icCalls[r].boxes \in Nat /\ ImapType /\ icWires \in Seq(WireRecord) /\ Len(icWires) \in Nat
      /\ icFolders \in Nat /\ icEpoch \in Nat /\ icTold \in Nat /\ icCache \in Seq(Nat) /\ icPool \in SUBSET Nat
  BY CallFields DEF ImapInv, ImapType
<1>2. /\ icCalls[r].at = "scan" /\ UNCHANGED <<icWires, icPool, icFolders, icEpoch, icCache, icTold>>
      /\ icCrossed' = (icCrossed \/ icWires[icCalls[r].wire].unread > 0)
      /\ icCalls' = [icCalls EXCEPT ![r].at = "done"]
  BY DEF Scanned, WireAnswered, Move, folderVars
<1>3. PICK c \in CallRecord : /\ icCalls' = [icCalls EXCEPT ![r] = c]
                              /\ c.at = "done" /\ c.wire = icCalls[r].wire /\ c.kind = icCalls[r].kind /\ c.epoch = icCalls[r].epoch /\ c.boxes = icCalls[r].boxes
  <2>1. GoesOn(r, "done", icCalls[r].epoch, icCalls[r].boxes)  BY <1>2 DEF GoesOn
  <2>. QED  BY <1>1, <2>1, CallGoes
<1>4. /\ WiresInv' /\ icCalls' \in [ImapRequests -> CallRecord]
      /\ icCalls'[r] = c /\ \A q \in ImapRequests \ {r} : icCalls'[q] = icCalls[q]
  BY <1>1, <1>2, <1>3, CallWires
<1>5. FoldersInv'  BY <1>2, <1>3, <1>4 DEF ImapInv, FoldersInv
<1>. QED  BY <1>1, <1>2, <1>4, <1>5 DEF ImapInv, ImapType

LEMMA StoreFoldersKeeps ==
  ASSUME ImapInv, NEW r \in ImapRequests, StoreFolders(r)
  PROVE  ImapInv'
<1>1. /\ icCalls[r].epoch \in Nat /\ icCalls[r].boxes \in Nat /\ ImapType /\ icWires \in Seq(WireRecord) /\ Len(icWires) \in Nat
      /\ icFolders \in Nat /\ icEpoch \in Nat /\ icTold \in Nat /\ icCache \in Seq(Nat) /\ icPool \in SUBSET Nat
  BY CallFields DEF ImapInv, ImapType
<1>. DEFINE kept == IF Len(icCache) >= CacheCap THEN Tail(icCache) ELSE icCache
<1>2. /\ icCalls[r].at = "store" /\ UNCHANGED <<icWires, icPool, icFolders, icEpoch, icTold, icCrossed>>
      /\ icCache' = (IF SameEpoch(r) THEN Append(kept, icCalls[r].boxes) ELSE kept)
      /\ icCalls' = [icCalls EXCEPT ![r].at = AfterFolders(icCalls[r].kind)]
  BY DEF StoreFolders, Move
<1>3. kept \in Seq(Nat) /\ \A i \in 1..Len(kept) : kept[i] >= icTold
  <2>1. \A i \in 1..Len(icCache) : icCache[i] >= icTold  BY DEF ImapInv, FoldersInv
  <2>2. CASE Len(icCache) >= CacheCap
    <3>1. CacheCap \in Nat \ {0}  BY ImapAssumption
    <3>2. icCache # <<>>  BY <1>1, <2>2, <3>1
    <3>3. Tail(icCache) \in Seq(Nat) /\ Len(Tail(icCache)) = Len(icCache) - 1 /\ \A i \in 1..Len(Tail(icCache)) : Tail(icCache)[i] = icCache[i+1]
      BY <1>1, <3>2
    <3>4. Tail(icCache) \in Seq(Nat) /\ \A i \in 1..Len(Tail(icCache)) : Tail(icCache)[i] >= icTold  BY <1>1, <2>1, <3>3
    <3>. QED  BY <2>2, <3>4
  <2>3. CASE ~(Len(icCache) >= CacheCap)  BY <1>1, <2>1, <2>3
  <2>. QED  BY <2>2, <2>3
<1>. HIDE DEF kept
<1>4. icCache' \in Seq(Nat) /\ \A i \in 1..Len(icCache') : icCache'[i] >= icTold
  <2>1. CASE SameEpoch(r)
    <3>1. icCalls[r].boxes >= icTold  BY <1>2, <2>1 DEF SameEpoch, ImapInv, FoldersInv
    <3>. QED  BY <1>1, <1>2, <1>3, <2>1, <3>1
  <2>2. CASE ~SameEpoch(r)  BY <1>2, <1>3, <2>2
  <2>. QED  BY <2>1, <2>2
<1>5. PICK at \in {"command", "scan", "done"} \cup {AfterFolders(icCalls[r].kind)} : at = AfterFolders(icCalls[r].kind)  OBVIOUS
<1>6. at \in {"command", "scan", "done"}
  <2>1. icCalls[r].kind # "change" /\ icCalls[r].kind \in ImapKinds  BY <1>1, <1>2, CallFields DEF ImapInv, WiresInv
  <2>. QED  BY <1>5, <2>1 DEF AfterFolders, ImapKinds
<1>7. PICK c \in CallRecord : /\ icCalls' = [icCalls EXCEPT ![r] = c]
                              /\ c.at = at /\ c.wire = icCalls[r].wire /\ c.kind = icCalls[r].kind /\ c.epoch = icCalls[r].epoch /\ c.boxes = icCalls[r].boxes
  <2>1. GoesOn(r, at, icCalls[r].epoch, icCalls[r].boxes)  BY <1>2, <1>5 DEF GoesOn
  <2>2. at \in {"look", "listing", "store", "command", "scan", "answered", "clear", "done", "over"}  BY <1>6
  <2>. QED  BY <1>1, <2>1, <2>2, CallGoes
<1>8. /\ WiresInv' /\ icCalls' \in [ImapRequests -> CallRecord]
      /\ icCalls'[r] = c /\ \A q \in ImapRequests \ {r} : icCalls'[q] = icCalls[q]
  BY <1>1, <1>2, <1>6, <1>7, CallWires
<1>9. FoldersInv'
  <2>1. /\ icTold' <= icFolders' /\ icFolders' = icFolders /\ icEpoch' = icEpoch /\ icTold' = icTold
    BY <1>2 DEF ImapInv, FoldersInv
  <2>2. \A q \in ImapRequests : /\ icCalls'[q].at \in {"answered", "clear"} => icCalls'[q].boxes <= icFolders'
                                /\ icCalls'[q].epoch <= icEpoch'
    <3>1. \A q \in ImapRequests : /\ icCalls[q].at \in {"answered", "clear"} => icCalls[q].boxes <= icFolders
                                  /\ icCalls[q].epoch <= icEpoch
      BY DEF ImapInv, FoldersInv
    <3>2. c.at \notin {"answered", "clear"} /\ c.epoch <= icEpoch  BY <1>6, <1>7, <3>1
    <3>3. ASSUME NEW q \in ImapRequests
          PROVE  /\ icCalls'[q].at \in {"answered", "clear"} => icCalls'[q].boxes <= icFolders
                 /\ icCalls'[q].epoch <= icEpoch
      BY <1>8, <3>1, <3>2
    <3>. QED  BY <2>1, <3>3
  <2>3. ASSUME NEW p \in ImapRequests, icCalls'[p].at = "store", icCalls'[p].epoch = icEpoch'
        PROVE  /\ icCalls'[p].boxes >= icTold'
               /\ \A q \in ImapRequests : icCalls'[q].at = "clear" => icCalls'[p].boxes >= icCalls'[q].boxes
    <3>1. p # r /\ icCalls'[p] = icCalls[p]  BY <1>6, <1>7, <1>8, <2>3
    <3>2. icCalls[p].boxes >= icTold /\ \A q \in ImapRequests : icCalls[q].at = "clear" => icCalls[p].boxes >= icCalls[q].boxes
      BY <2>1, <2>3, <3>1 DEF ImapInv, FoldersInv
    <3>3. \A q \in ImapRequests : icCalls'[q].at = "clear" => icCalls[q].at = "clear" /\ icCalls'[q] = icCalls[q]
      BY <1>6, <1>7, <1>8
    <3>. QED  BY <2>1, <3>1, <3>2, <3>3
  <2>. QED  BY <1>4, <2>1, <2>2, <2>3 DEF FoldersInv
<1>. QED  BY <1>1, <1>2, <1>4, <1>8, <1>9 DEF ImapInv, ImapType

LEMMA CallFailsKeeps ==
  ASSUME ImapInv, NEW r \in ImapRequests, CallFails(r)
  PROVE  ImapInv'
<1>1. /\ ImapType /\ icWires \in Seq(WireRecord) /\ Len(icWires) \in Nat
      /\ icFolders \in Nat /\ icEpoch \in Nat /\ icTold \in Nat /\ icCache \in Seq(Nat) /\ icPool \in SUBSET Nat
  BY DEF ImapInv, ImapType
<1>2. icCalls[r].at \notin {"idle", "over"} /\ UNCHANGED <<icPool, folderVars, icCrossed>> /\ Over(r)  BY DEF CallFails, GiveUpWire
<1>. DEFINE w == icCalls[r].wire
<1>3. w \in 1..Len(icWires) /\ icWires[w] \in WireRecord  BY <1>1, <1>2 DEF ImapInv, WiresInv, AtWork
<1>4. PICK left \in {0, 1} : icWires' = [icWires EXCEPT ![w] = [open |-> icWires[w].open, unread |-> @.unread + left]]
  BY DEF CallFails
<1>5. PICK x \in WireRecord : icWires' = [icWires EXCEPT ![w] = x]
  <2>1. [open |-> icWires[w].open, unread |-> icWires[w].unread + left] \in WireRecord  BY <1>3, <1>4 DEF WireRecord
  <2>2. [icWires[w] EXCEPT !.unread = @ + left] \in WireRecord  BY <1>3, <1>4 DEF WireRecord
  <2>. HIDE DEF w
  <2>. QED  BY <1>3, <1>4, <2>1, <2>2
<1>6. icWires' \in Seq(WireRecord) /\ Len(icWires') = Len(icWires) /\ \A v \in 1..Len(icWires) : v # w => icWires'[v] = icWires[v]
  BY <1>1, <1>3, <1>5
<1>. QED  BY <1>2, <1>6, CallEnds

LEMMA WarnedKeeps ==
  ASSUME ImapInv, NEW r \in ImapRequests, Warned(r)
  PROVE  ImapInv'
<1>1. /\ ImapType /\ icWires \in Seq(WireRecord) /\ Len(icWires) \in Nat
      /\ icFolders \in Nat /\ icEpoch \in Nat /\ icTold \in Nat /\ icCache \in Seq(Nat) /\ icPool \in SUBSET Nat
  BY DEF ImapInv, ImapType
<1>2. icCalls[r].at \notin {"idle", "over"} /\ UNCHANGED <<icPool, folderVars, icCrossed>> /\ Over(r)  BY DEF Warned, GiveUpWire
<1>. DEFINE w == icCalls[r].wire
<1>3. w \in 1..Len(icWires) /\ icWires[w] \in WireRecord  BY <1>1, <1>2 DEF ImapInv, WiresInv, AtWork
<1>4. PICK left \in {0, 1} : icWires' = [icWires EXCEPT ![w].unread = @ + left]  BY DEF Warned
<1>5. PICK x \in WireRecord : icWires' = [icWires EXCEPT ![w] = x]
  <2>1. [open |-> icWires[w].open, unread |-> icWires[w].unread + left] \in WireRecord  BY <1>3, <1>4 DEF WireRecord
  <2>2. [icWires[w] EXCEPT !.unread = @ + left] \in WireRecord  BY <1>3, <1>4 DEF WireRecord
  <2>. HIDE DEF w
  <2>. QED  BY <1>3, <1>4, <2>1, <2>2
<1>6. icWires' \in Seq(WireRecord) /\ Len(icWires') = Len(icWires) /\ \A v \in 1..Len(icWires) : v # w => icWires'[v] = icWires[v]
  BY <1>1, <1>3, <1>5
<1>. QED  BY <1>2, <1>6, CallEnds

LEMMA FinishKeeps ==
  ASSUME ImapInv, NEW r \in ImapRequests, Finish(r)
  PROVE  ImapInv'
<1>1. /\ ImapType /\ icWires \in Seq(WireRecord) /\ Len(icWires) \in Nat
      /\ icFolders \in Nat /\ icEpoch \in Nat /\ icTold \in Nat /\ icCache \in Seq(Nat) /\ icPool \in SUBSET Nat
  BY DEF ImapInv, ImapType
<1>2. /\ icCalls[r].at = "done" /\ UNCHANGED <<icWires, folderVars, icCrossed>> /\ Over(r)
      /\ icPool' \in {icPool, icPool \cup {icCalls[r].wire}}
  BY DEF Finish, Release
<1>. QED  BY <1>1, <1>2, CallEnds

LEMMA DraftAppendedKeeps ==
  ASSUME ImapInv, NEW r \in ImapRequests, DraftAppended(r), ~ServerGarbles
  PROVE  ImapInv'
<1>1. /\ ImapType /\ icWires \in Seq(WireRecord) /\ Len(icWires) \in Nat
      /\ icFolders \in Nat /\ icEpoch \in Nat /\ icTold \in Nat /\ icCache \in Seq(Nat) /\ icPool \in SUBSET Nat
  BY DEF ImapInv, ImapType
<1>2. /\ icCalls[r].at = "command" /\ UNCHANGED <<icPool, icFolders, icEpoch, icCache, icTold>>
      /\ icCrossed' = (icCrossed \/ icWires[icCalls[r].wire].unread > 0)
      /\ icWires' = icWires \/ icWires' = [icWires EXCEPT ![icCalls[r].wire].open = FALSE]
      /\ icCalls' = [icCalls EXCEPT ![r].at = "done"]
  BY DEF DraftAppended, WireAnswered, Move, folderVars
<1>. DEFINE w == icCalls[r].wire
<1>3. w \in 1..Len(icWires) /\ icWires[w] \in WireRecord /\ icWires[w].unread = 0
  <2>1. AtWork(r)  BY <1>2 DEF AtWork
  <2>2. w \in 1..Len(icWires) /\ icWires[w].unread = 0  BY <2>1 DEF ImapInv, WiresInv
  <2>. QED  BY <1>1, <2>2
<1>4. PICK c \in CallRecord : /\ icCalls' = [icCalls EXCEPT ![r] = c]
                              /\ c.at = "done" /\ c.wire = w /\ c.epoch = icCalls[r].epoch /\ c.boxes = icCalls[r].boxes
  <2>1. GoesOn(r, "done", icCalls[r].epoch, icCalls[r].boxes)  BY <1>2 DEF GoesOn
  <2>2. icCalls[r].epoch \in Nat /\ icCalls[r].boxes \in Nat  BY <1>1, CallFields
  <2>. QED  BY <1>1, <2>1, <2>2, CallGoes
<1>5. icWires' \in Seq(WireRecord) /\ Len(icWires') = Len(icWires) /\ \A v \in 1..Len(icWires) : icWires'[v] = icWires[v] \/ icWires'[v].unread = 0
  <2>1. CASE icWires' = icWires  BY <1>1, <2>1
  <2>2. CASE icWires' = [icWires EXCEPT ![w].open = FALSE]
    <3>1. [icWires[w] EXCEPT !.open = FALSE] \in WireRecord /\ [icWires[w] EXCEPT !.open = FALSE].unread = 0  BY <1>3 DEF WireRecord
    <3>2. PICK x \in WireRecord : x = [icWires[w] EXCEPT !.open = FALSE] /\ x.unread = 0  BY <3>1
    <3>. HIDE DEF w
    <3>3. icWires' = [icWires EXCEPT ![w] = x]  BY <1>1, <1>3, <2>2, <3>2
    <3>. QED  BY <1>1, <1>3, <3>2, <3>3
  <2>. QED  BY <1>2, <2>1, <2>2
<1>6. /\ WiresInv' /\ icCalls' \in [ImapRequests -> CallRecord]
      /\ icCalls'[r] = c /\ \A q \in ImapRequests \ {r} : icCalls'[q] = icCalls[q]
  <2>. HIDE DEF WiresInv
  <2>1. c.at \notin {"listing", "store"} /\ icCalls[r].at \notin {"idle", "over"} /\ c.wire = icCalls[r].wire  BY <1>2, <1>4
  <2>. QED  BY <1>2, <1>4, <1>5, <2>1, CallWires
<1>7. FoldersInv'  BY <1>2, <1>4, <1>6 DEF ImapInv, FoldersInv
<1>. QED  BY <1>1, <1>2, <1>5, <1>6, <1>7 DEF ImapInv, ImapType

\* Neither an answer of another request nor a listing from before a folder command: the connections and the folders of an account.
LEMMA ImapKept ==
  ASSUME ~ServerGarbles
  PROVE  ImapSpec => []ImapInv
<1>1. ImapInit => ImapInv
  <2>1. ASSUME ImapInit
        PROVE  ImapInv
    <3>1. NoImapCall \in CallRecord /\ NoImapCall.at = "idle" /\ NoImapCall.epoch = 0  BY DEF NoImapCall, CallRecord, ImapKinds
    <3>2. icCalls \in [ImapRequests -> CallRecord] /\ \A q \in ImapRequests : icCalls[q].at = "idle" /\ icCalls[q].epoch = 0
      BY <2>1, <3>1 DEF ImapInit
    <3>3. /\ icWires = <<>> /\ icPool = {} /\ icFolders = 1 /\ icEpoch = 0 /\ icCache = <<>> /\ icTold = 1 /\ icCrossed = FALSE
      BY <2>1 DEF ImapInit
    <3>. QED  BY <3>2, <3>3 DEF ImapInv, ImapType, WiresInv, AtWork, FoldersInv
  <2>. QED  BY <2>1
<1>2. ImapInv /\ [ImapNext]_imapVars => ImapInv'
  <2>1. ASSUME ImapInv, ImapNext
        PROVE  ImapInv'
    <3>1. ASSUME NEW r \in ImapRequests, \E kind \in ImapKinds : AcquireWire(r, kind)
          PROVE  ImapInv'
      BY <2>1, <3>1, AcquireKeeps
    <3>2. ASSUME NEW r \in ImapRequests, LookUp(r) \/ ListFolders(r) \/ StoreFolders(r) \/ CallFails(r)
          PROVE  ImapInv'
      BY <2>1, <3>2, LookUpKeeps, ListFoldersKeeps, StoreFoldersKeeps, CallFailsKeeps
    <3>3. ASSUME NEW r \in ImapRequests, Scanned(r) \/ Warned(r) \/ FolderChanges(r) \/ ChangeAnswered(r)
          PROVE  ImapInv'
      BY <2>1, <3>3, ScannedKeeps, WarnedKeeps, FolderChangesKeeps, ChangeAnsweredKeeps
    <3>4. ASSUME NEW r \in ImapRequests, ChangeClears(r) \/ DraftAppended(r) \/ Finish(r)
          PROVE  ImapInv'
      BY <2>1, <3>4, ChangeClearsKeeps, DraftAppendedKeeps, FinishKeeps
    <3>. QED  BY <2>1, <3>1, <3>2, <3>3, <3>4, ExpireKeeps DEF ImapNext
  <2>2. ASSUME ImapInv, UNCHANGED imapVars
        PROVE  ImapInv'
    BY <2>2 DEF imapVars, ImapInv, ImapType, WiresInv, AtWork, FoldersInv
  <2>. QED  BY <2>1, <2>2
<1>. QED  BY <1>1, <1>2, PTL DEF ImapSpec

(* No request reads the answer of another one, and no listing from before a folder command that was answered is in the
   cache, when the server keeps to the protocol: read.rs gives up every connection it leaves in disorder, and a listing
   is kept only under the epoch it began in (providers/imap/mod.rs). *)
THEOREM WiresAreOwned ==
  ASSUME ~ServerGarbles
  PROVE  ImapSpec => [](AnswersAreOwn /\ FoldersAreFresh)
<1>1. ImapInv => AnswersAreOwn /\ FoldersAreFresh
  <2>1. ASSUME ImapInv
        PROVE  AnswersAreOwn /\ FoldersAreFresh
    <3>1. DOMAIN icCache = 1..Len(icCache)  BY <2>1 DEF ImapInv, ImapType
    <3>. QED  BY <2>1, <3>1 DEF ImapInv, WiresInv, FoldersInv, AnswersAreOwn, FoldersAreFresh
  <2>. QED  BY <2>1
<1>. QED  BY <1>1, ImapKept, PTL

------------------------------------
(* Cancelling the reads of a token *)

TokenRead == [at : {"idle", "working", "ended", "refused", "over"}, entry : Nat, from : Nat]
EntryRecord == [made : Nat, aborted : BOOLEAN]
CancelType == /\ icNow \in Nat /\ icNow > 0 /\ icMap \in 0..CancelCap /\ icEntries \in [1..CancelCap -> EntryRecord]
              /\ icReads \in [CancelReads -> TokenRead] /\ icCancels \in Nat
Busy(r) == icReads[r].at \in {"working", "ended"}
UsedReads == {r \in CancelReads : icReads[r].at # "idle"}
\* Reads at work hold the entry of the map, and none for longer than its deadline.
BusyInv == \A r \in CancelReads : Busy(r) => /\ icMap # 0 /\ icReads[r].entry = icMap
                                            /\ icReads[r].from <= icNow /\ icNow - icReads[r].from <= ReadDeadline
\* Until the cancellation the entry of the map is in use, and no older than the reads so far can have kept it.
BeforeInv ==
    icCancels = 0 =>
      /\ \A e \in 1..CancelCap : ~icEntries[e].aborted
      /\ icMap # 0 => \E r \in CancelReads : Busy(r)
      /\ \A r \in CancelReads : Busy(r) => icReads[r].from - icEntries[icMap].made <= (Cardinality(UsedReads) - 1) * ReadDeadline
\* From then on it stays the aborted one for as long as a read may still begin.
AfterInv ==
    icCancels # 0 =>
      /\ icCancels <= icNow /\ icMap # 0 /\ icEntries[icMap].aborted
      /\ \A r \in CancelReads : Busy(r) => icReads[r].from <= icCancels
      /\ \A r \in CancelReads : icReads[r].at = "idle" =>
            /\ icNow - icCancels <= QueuedFor
            /\ icCancels - icEntries[icMap].made <= (Cardinality(CancelReads) - 1) * ReadDeadline
TokenInv == CancelType /\ BusyInv /\ BeforeInv /\ AfterInv /\ icRevived = {}

LEMMA ReadFields ==
  ASSUME CancelType, NEW r \in CancelReads
  PROVE  /\ icReads[r] \in TokenRead /\ icReads[r].entry \in Nat /\ icReads[r].from \in Nat
         /\ icReads[r].at \in {"idle", "working", "ended", "refused", "over"}
<1>1. icReads[r] \in TokenRead  BY DEF CancelType
<1>. QED  BY <1>1 DEF TokenRead

LEMMA EntryFields ==
  ASSUME CancelType, NEW e \in 1..CancelCap
  PROVE  icEntries[e] \in EntryRecord /\ icEntries[e].made \in Nat /\ icEntries[e].aborted \in BOOLEAN
<1>1. icEntries[e] \in EntryRecord  BY DEF CancelType
<1>. QED  BY <1>1 DEF EntryRecord

LEMMA CancelNumbers == {CancelCap, ReadDeadline, KeepFor, QueuedFor, MaxNow} \subseteq Nat
  BY CancelAssumption

\* While a read has yet to begin, the reads that have are fewer than all.
LEMMA FewerReads ==
  ASSUME IsFiniteSet(CancelReads), NEW r \in CancelReads, icReads[r].at = "idle"
  PROVE  /\ Cardinality(UsedReads) \in Nat /\ Cardinality(CancelReads) \in Nat
         /\ Cardinality(UsedReads) <= Cardinality(CancelReads) - 1
<1>1. UsedReads \subseteq CancelReads \ {r}  BY DEF UsedReads
<1>2. /\ IsFiniteSet(CancelReads \ {r}) /\ Cardinality(CancelReads \ {r}) = Cardinality(CancelReads) - 1  BY FS_RemoveElement
<1>3. Cardinality(UsedReads) <= Cardinality(CancelReads \ {r}) /\ IsFiniteSet(UsedReads)  BY <1>1, <1>2, FS_Subset
<1>. QED  BY <1>2, <1>3, FS_CardinalityType

LEMMA UsedNat ==
  ASSUME IsFiniteSet(CancelReads)
  PROVE  IsFiniteSet(UsedReads) /\ Cardinality(UsedReads) \in Nat
<1>1. UsedReads \subseteq CancelReads  BY DEF UsedReads
<1>2. IsFiniteSet(UsedReads)  BY <1>1, FS_Subset
<1>. QED  BY <1>2, FS_CardinalityType

\* A longer row of reads keeps an entry for longer.
LEMMA LongerRow ==
  ASSUME NEW a \in Nat, NEW b \in Nat, a <= b
  PROVE  /\ a * ReadDeadline <= b * ReadDeadline /\ a * ReadDeadline \in Nat /\ b * ReadDeadline \in Nat
         /\ (a + 1) * ReadDeadline = a * ReadDeadline + ReadDeadline
<1>1. ReadDeadline \in Nat  BY CancelNumbers
<1>2. (a + 1) * ReadDeadline = a * ReadDeadline + ReadDeadline  BY <1>1
<1>3. PICK d \in Nat : b = a + d  BY SMT
<1>4. b * ReadDeadline = a * ReadDeadline + d * ReadDeadline  BY <1>1, <1>3
<1>5. d * ReadDeadline \in Nat /\ a * ReadDeadline \in Nat  BY <1>1
<1>. QED  BY <1>1, <1>2, <1>4, <1>5

LEMMA TickKeeps ==
  ASSUME IsFiniteSet(CancelReads), TokenInv, CancelTick
  PROVE  TokenInv'
<1>1. /\ icNow' = icNow + 1 /\ UNCHANGED <<icMap, icEntries, icReads, icCancels, icRevived>> /\ CancelType /\ icNow \in Nat /\ icCancels \in Nat
      /\ {CancelCap, ReadDeadline, KeepFor, QueuedFor, MaxNow} \subseteq Nat
  BY CancelNumbers DEF CancelTick, TokenInv, CancelType
<1>2. CancelType'  BY <1>1 DEF CancelType
<1>3. BusyInv'  BY <1>1, ReadFields DEF TokenInv, BusyInv, Busy, CancelTick
<1>4. BeforeInv'  BY <1>1 DEF TokenInv, BeforeInv, Busy, UsedReads
<1>5. AfterInv'
  <2>1. ASSUME icCancels # 0
        PROVE  icCancels <= icNow + 1 /\ \A r \in CancelReads : icReads[r].at = "idle" => icNow + 1 - icCancels <= QueuedFor
    BY <1>1, <2>1 DEF TokenInv, AfterInv, CancelTick
  <2>. QED  BY <1>1, <2>1 DEF TokenInv, AfterInv, Busy
<1>. QED  BY <1>1, <1>2, <1>3, <1>4, <1>5 DEF TokenInv

LEMMA EndsKeeps ==
  ASSUME IsFiniteSet(CancelReads), TokenInv, NEW r \in CancelReads, ReadEnds(r)
  PROVE  TokenInv'
<1>1. /\ icReads[r].at = "working" /\ UNCHANGED <<icNow, icMap, icEntries, icCancels>> /\ CancelType
      /\ icReads' = [icReads EXCEPT ![r].at = "ended"] /\ icReads \in [CancelReads -> TokenRead]
  BY DEF ReadEnds, TokenInv, CancelType
<1>2. PICK x \in TokenRead : x = [icReads[r] EXCEPT !.at = "ended"] /\ x.at = "ended" /\ x.entry = icReads[r].entry /\ x.from = icReads[r].from
  <2>1. icReads[r] \in TokenRead  BY <1>1
  <2>2. [icReads[r] EXCEPT !.at = "ended"] \in TokenRead  BY <2>1 DEF TokenRead
  <2>3. /\ [icReads[r] EXCEPT !.at = "ended"].at = "ended" /\ [icReads[r] EXCEPT !.at = "ended"].entry = icReads[r].entry
        /\ [icReads[r] EXCEPT !.at = "ended"].from = icReads[r].from
    BY <2>1 DEF TokenRead
  <2>. QED  BY <2>2, <2>3
<1>3. icReads' = [icReads EXCEPT ![r] = x]  BY <1>1, <1>2
<1>4. /\ icReads' \in [CancelReads -> TokenRead] /\ icReads'[r] = x /\ \A q \in CancelReads \ {r} : icReads'[q] = icReads[q]
  BY <1>1, <1>3
<1>5. \A q \in CancelReads : /\ Busy(q)' <=> Busy(q)
                             /\ icReads'[q].entry = icReads[q].entry /\ icReads'[q].from = icReads[q].from
                             /\ icReads'[q].at = "idle" <=> icReads[q].at = "idle"
  BY <1>1, <1>2, <1>4 DEF Busy
<1>6. UsedReads' = UsedReads  BY <1>5 DEF UsedReads
<1>7. icRevived' = {}
  <2>1. Busy(r)  BY <1>1 DEF Busy
  <2>2. ~(icCancels # 0 /\ icReads[r].from > icCancels)  BY <1>1, <2>1, ReadFields DEF TokenInv, AfterInv, CancelType
  <2>. QED  BY <2>2 DEF ReadEnds, TokenInv
<1>8. CancelType' /\ BusyInv'  BY <1>1, <1>4, <1>5 DEF TokenInv, CancelType, BusyInv
<1>9. BeforeInv' /\ AfterInv'  BY <1>1, <1>5, <1>6 DEF TokenInv, BeforeInv, AfterInv
<1>. QED  BY <1>7, <1>8, <1>9 DEF TokenInv

LEMMA LeaveKeeps ==
  ASSUME IsFiniteSet(CancelReads), TokenInv, NEW r \in CancelReads, LeaveRead(r)
  PROVE  TokenInv'
<1>1. /\ icReads[r].at = "ended" /\ UNCHANGED <<icNow, icEntries, icCancels, icRevived>> /\ CancelType
      /\ icReads' = [icReads EXCEPT ![r] = [IdleRead EXCEPT !.at = "over"]] /\ icReads \in [CancelReads -> TokenRead]
      /\ icMap' = (IF Removes(r) THEN 0 ELSE icMap)
  BY DEF LeaveRead, TokenInv, CancelType
<1>2. [IdleRead EXCEPT !.at = "over"] \in TokenRead /\ [IdleRead EXCEPT !.at = "over"].at = "over"  BY DEF IdleRead, TokenRead
<1>3. /\ icReads' \in [CancelReads -> TokenRead] /\ icReads'[r].at = "over" /\ \A q \in CancelReads \ {r} : icReads'[q] = icReads[q]
  BY <1>1, <1>2
<1>4. UsedReads' = UsedReads  BY <1>1, <1>3 DEF UsedReads
<1>5. Busy(r) /\ icMap # 0 /\ icReads[r].entry = icMap  BY <1>1 DEF Busy, TokenInv, BusyInv
<1>6. \A q \in CancelReads : Busy(q)' => q # r /\ Busy(q) /\ icReads'[q] = icReads[q]  BY <1>3 DEF Busy
<1>7. Removes(r) => \A q \in CancelReads : ~Busy(q)'
  <2>1. ASSUME Removes(r), NEW q \in CancelReads, Busy(q)'
        PROVE  FALSE
    <3>1. q # r /\ Busy(q) /\ icReads[q].entry = icMap  BY <1>6, <2>1 DEF TokenInv, BusyInv
    <3>2. q \in Users(icReads[r].entry)  BY <1>5, <3>1 DEF Users, Busy
    <3>. QED  BY <2>1, <3>1, <3>2 DEF Removes, RemovesIdle
  <2>. QED  BY <2>1
<1>8. icMap' \in 0..CancelCap /\ (icMap' = icMap \/ (icMap' = 0 /\ \A q \in CancelReads : ~Busy(q)'))
  BY <1>1, <1>7, CancelNumbers DEF CancelType
<1>9. CancelType'  BY <1>1, <1>3, <1>8 DEF CancelType
<1>10. BusyInv'  BY <1>1, <1>6, <1>8 DEF TokenInv, BusyInv
<1>11. BeforeInv'
  <2>1. ASSUME icCancels = 0, icMap' # 0
        PROVE  \E q \in CancelReads : Busy(q)'
    <3>1. ~Removes(r) /\ ~icEntries[icMap].aborted  BY <1>1, <1>5, <2>1 DEF TokenInv, BeforeInv, CancelType
    <3>2. Users(icMap) # {r}  BY <1>5, <3>1 DEF Removes, RemovesIdle
    <3>3. r \in Users(icMap)  BY <1>5 DEF Users, Busy
    <3>4. PICK q \in Users(icMap) : q # r  BY <3>2, <3>3
    <3>. QED  BY <1>3, <3>4 DEF Users, Busy
  <2>. QED  BY <1>1, <1>4, <1>6, <1>8, <2>1 DEF TokenInv, BeforeInv
<1>12. AfterInv'
  <2>1. ASSUME icCancels # 0
        PROVE  icMap' = icMap
    BY <1>1, <1>5, <2>1 DEF TokenInv, AfterInv, Removes
  <2>2. \A q \in CancelReads : icReads'[q].at = "idle" => icReads[q].at = "idle"  BY <1>3
  <2>. QED  BY <1>1, <1>6, <2>1, <2>2 DEF TokenInv, AfterInv
<1>. QED  BY <1>1, <1>9, <1>10, <1>11, <1>12 DEF TokenInv

LEMMA EntryStep ==
  ASSUME CancelType, NEW e \in 1..CancelCap, NEW mark \in BOOLEAN, EntriesWith(e, mark)
  PROVE  /\ icEntries' \in [1..CancelCap -> EntryRecord] /\ \A f \in 1..CancelCap \ {e} : icEntries'[f] = icEntries[f]
         /\ KeptEntry => icEntries'[e].made = icEntries[e].made
         /\ ~KeptEntry => icEntries'[e].made = icNow
         /\ icEntries'[e].aborted <=> (icEntries[e].aborted \/ mark)
<1>1. icEntries \in [1..CancelCap -> EntryRecord] /\ icEntries[e] \in EntryRecord /\ icNow \in Nat
      /\ icEntries[e].made \in Nat /\ icEntries[e].aborted \in BOOLEAN
  BY EntryFields DEF CancelType
<1>. DEFINE made == IF KeptEntry THEN icEntries[e].made ELSE icNow
            marked == icEntries[e].aborted \/ mark
            x == [icEntries[e] EXCEPT !.made = made, !.aborted = marked]
<1>2. made \in Nat /\ marked \in BOOLEAN  BY <1>1
<1>3. icEntries' = [icEntries EXCEPT ![e] = x]  BY <1>1 DEF EntriesWith
<1>. HIDE DEF made, marked
<1>4. x \in EntryRecord /\ x.made = made /\ x.aborted = marked  BY <1>1, <1>2 DEF EntryRecord
<1>. HIDE DEF x
<1>5. icEntries' \in [1..CancelCap -> EntryRecord] /\ icEntries'[e] = x /\ \A f \in 1..CancelCap \ {e} : icEntries'[f] = icEntries[f]
  BY <1>1, <1>3, <1>4
<1>. QED  BY <1>4, <1>5 DEF made, marked

\* Before the cancellation the entry of the map is found again, or nobody is at work.
LEMMA KeptOrIdle ==
  ASSUME TokenInv, icCancels = 0, NEW e \in 1..CancelCap, CancelEntry(e)
  PROVE  /\ icMap' = e
         /\ KeptEntry => e = icMap /\ \E q \in CancelReads : Busy(q)
         /\ ~KeptEntry => \A q \in CancelReads : ~Busy(q)
<1>1. icMap' = e /\ (KeptEntry => e = icMap)  BY DEF CancelEntry
<1>2. KeptEntry => \E q \in CancelReads : Busy(q)  BY DEF TokenInv, BeforeInv, KeptEntry
<1>3. ASSUME NEW q \in CancelReads, Busy(q)
      PROVE  KeptEntry
  <2>1. icMap # 0 /\ q \in Users(icMap)  BY <1>3 DEF TokenInv, BusyInv, Users, Busy
  <2>. QED  BY <2>1 DEF KeptEntry
<1>. QED  BY <1>1, <1>2, <1>3

LEMMA TokenKeeps ==
  ASSUME IsFiniteSet(CancelReads), TokenInv, CancelToken
  PROVE  TokenInv'
<1>1. PICK e \in 1..CancelCap : CancelEntry(e) /\ EntriesWith(e, TRUE)  BY DEF CancelToken
<1>2. icCancels = 0 /\ icCancels' = icNow /\ UNCHANGED <<icNow, icReads, icRevived>> /\ CancelType /\ icNow \in Nat /\ icNow > 0
  BY DEF CancelToken, TokenInv, CancelType
<1>3. /\ icMap' = e
      /\ KeptEntry => e = icMap /\ \E q \in CancelReads : Busy(q)
      /\ ~KeptEntry => \A q \in CancelReads : ~Busy(q)
  BY <1>1, <1>2, KeptOrIdle
<1>4. /\ icEntries' \in [1..CancelCap -> EntryRecord]
      /\ KeptEntry => icEntries'[e].made = icEntries[e].made
      /\ ~KeptEntry => icEntries'[e].made = icNow
      /\ icEntries'[e].aborted
  BY <1>1, <1>2, EntryStep
<1>5. CancelType'  BY <1>2, <1>3, <1>4, CancelNumbers DEF CancelType
<1>6. BusyInv'  BY <1>2, <1>3, CancelNumbers DEF TokenInv, BusyInv, Busy
<1>7. BeforeInv'  BY <1>2 DEF BeforeInv
<1>8. ASSUME NEW r \in CancelReads, icReads[r].at = "idle"
      PROVE  icNow - icEntries'[e].made <= (Cardinality(CancelReads) - 1) * ReadDeadline
  <2>1. /\ Cardinality(UsedReads) \in Nat /\ Cardinality(CancelReads) \in Nat
        /\ Cardinality(UsedReads) <= Cardinality(CancelReads) - 1
    BY <1>8, FewerReads
  <2>. DEFINE u == Cardinality(UsedReads)
              n == Cardinality(CancelReads) - 1
  <2>2. u \in Nat /\ n \in Nat /\ u <= n  BY <2>1
  <2>. HIDE DEF u, n
  <2>3. n * ReadDeadline \in Nat /\ u * ReadDeadline <= n * ReadDeadline  BY <2>2, LongerRow
  <2>4. CASE ~KeptEntry  BY <1>2, <1>4, <2>3, <2>4 DEF n
  <2>5. CASE KeptEntry
    <3>1. PICK q \in CancelReads : Busy(q)  BY <1>3, <2>5
    <3>2. e = icMap /\ icEntries'[e].made = icEntries[icMap].made /\ icEntries[icMap].made \in Nat
      BY <1>2, <1>3, <1>4, <2>5, EntryFields
    <3>3. icReads[q].from - icEntries[icMap].made <= (u - 1) * ReadDeadline  BY <1>2, <3>1 DEF TokenInv, BeforeInv, u
    <3>4. icReads[q].from \in Nat /\ icNow - icReads[q].from <= ReadDeadline  BY <1>2, <3>1, ReadFields DEF TokenInv, BusyInv
    <3>5. u \in Nat \ {0}
      <4>1. q \in UsedReads  BY <3>1 DEF UsedReads, Busy
      <4>2. u # 0  BY <4>1, UsedNat, FS_EmptySet DEF u
      <4>. QED  BY <2>2, <4>2
    <3>6. u - 1 \in Nat /\ u = (u - 1) + 1  BY <3>5
    <3>7. u * ReadDeadline = (u - 1) * ReadDeadline + ReadDeadline /\ (u - 1) * ReadDeadline \in Nat  BY <3>6, LongerRow
    <3>8. ReadDeadline \in Nat  BY CancelNumbers
    <3>9. icNow - icEntries[icMap].made <= u * ReadDeadline  BY <1>2, <3>2, <3>3, <3>4, <3>7, <3>8
    <3>10. u * ReadDeadline \in Nat  BY <3>7, <3>8
    <3>. QED  BY <1>2, <2>3, <3>2, <3>9, <3>10 DEF n
  <2>. QED  BY <2>4, <2>5
<1>9. AfterInv'
  <2>1. \A r \in CancelReads : Busy(r)' => icReads'[r].from <= icCancels'  BY <1>2 DEF TokenInv, BusyInv, Busy
  <2>2. \A r \in CancelReads : icReads'[r].at = "idle" => icNow' - icCancels' <= QueuedFor  BY <1>2, CancelNumbers
  <2>3. \A r \in CancelReads : icReads'[r].at = "idle" =>
          icCancels' - icEntries'[icMap'].made <= (Cardinality(CancelReads) - 1) * ReadDeadline
    BY <1>2, <1>3, <1>8
  <2>4. icCancels' <= icNow' /\ icMap' # 0 /\ icEntries'[icMap'].aborted  BY <1>2, <1>3, <1>4, CancelNumbers
  <2>. QED  BY <2>1, <2>2, <2>3, <2>4 DEF AfterInv
<1>. QED  BY <1>2, <1>5, <1>6, <1>7, <1>9 DEF TokenInv

LEMMA BeginKeeps ==
  ASSUME IsFiniteSet(CancelReads), (Cardinality(CancelReads) - 1) * ReadDeadline + QueuedFor < KeepFor,
         TokenInv, NEW r \in CancelReads, StartCancelRead(r)
  PROVE  TokenInv'
<1>1. PICK e \in 1..CancelCap :
        /\ CancelEntry(e) /\ EntriesWith(e, FALSE)
        /\ icReads' = [icReads EXCEPT ![r] =
              [at |-> IF KeptEntry /\ icEntries[e].aborted THEN "refused" ELSE "working", entry |-> e, from |-> icNow]]
  BY DEF StartCancelRead
<1>2. /\ icReads[r].at = "idle" /\ UNCHANGED <<icNow, icCancels, icRevived>> /\ CancelType /\ icNow \in Nat /\ icNow > 0
      /\ icReads \in [CancelReads -> TokenRead] /\ icCancels \in Nat /\ e \in Nat
  BY CancelNumbers DEF StartCancelRead, TokenInv, CancelType
<1>3. /\ icEntries' \in [1..CancelCap -> EntryRecord]
      /\ KeptEntry => icEntries'[e].made = icEntries[e].made
      /\ ~KeptEntry => icEntries'[e].made = icNow
      /\ \A f \in 1..CancelCap : icEntries'[f].aborted <=> icEntries[f].aborted
  <2>1. EntriesWith(e, FALSE) /\ FALSE \in BOOLEAN  BY <1>1
  <2>2. /\ icEntries' \in [1..CancelCap -> EntryRecord] /\ \A f \in 1..CancelCap \ {e} : icEntries'[f] = icEntries[f]
        /\ KeptEntry => icEntries'[e].made = icEntries[e].made
        /\ ~KeptEntry => icEntries'[e].made = icNow
        /\ icEntries'[e].aborted <=> (icEntries[e].aborted \/ FALSE)
    BY <1>2, <2>1, EntryStep
  <2>. QED  BY <2>2
<1>. DEFINE step == IF KeptEntry /\ icEntries[e].aborted THEN "refused" ELSE "working"
            x == [at |-> step, entry |-> e, from |-> icNow]
<1>4. step \in {"refused", "working"} /\ icReads' = [icReads EXCEPT ![r] = x]  BY <1>1
<1>. HIDE DEF step
<1>5. x \in TokenRead /\ x.at = step /\ x.entry = e /\ x.from = icNow  BY <1>2, <1>4 DEF TokenRead
<1>. HIDE DEF x
<1>6. /\ icReads' \in [CancelReads -> TokenRead] /\ icReads'[r] = x /\ \A q \in CancelReads \ {r} : icReads'[q] = icReads[q]
  BY <1>2, <1>4, <1>5
<1>7. \A q \in CancelReads \ {r} : Busy(q)' <=> Busy(q)  BY <1>6 DEF Busy
<1>8. ~Busy(r) /\ (Busy(r)' <=> step = "working")  BY <1>2, <1>4, <1>5, <1>6 DEF Busy
<1>9. icMap' = e /\ icMap' # 0 /\ (KeptEntry => e = icMap)  BY <1>1, CancelNumbers DEF CancelEntry
<1>10. (\E q \in CancelReads : Busy(q)) => KeptEntry
  <2>1. ASSUME NEW q \in CancelReads, Busy(q)
        PROVE  KeptEntry
    <3>1. icMap # 0 /\ q \in Users(icMap)  BY <2>1 DEF TokenInv, BusyInv, Users, Busy
    <3>. QED  BY <3>1 DEF KeptEntry
  <2>. QED  BY <2>1
<1>11. CancelType'  BY <1>2, <1>3, <1>6, <1>9 DEF CancelType
<1>12. BusyInv'
  <2>1. ReadDeadline \in Nat  BY CancelNumbers
  <2>2. ASSUME NEW q \in CancelReads \ {r}, Busy(q)
        PROVE  icReads[q].entry = icMap' /\ icReads[q].from <= icNow /\ icNow - icReads[q].from <= ReadDeadline
    BY <1>9, <1>10, <2>2 DEF TokenInv, BusyInv
  <2>3. Busy(r)' => icReads'[r].entry = icMap' /\ icReads'[r].from <= icNow /\ icNow - icReads'[r].from <= ReadDeadline
    BY <1>2, <1>5, <1>6, <1>9, <2>1
  <2>. QED  BY <1>2, <1>6, <1>7, <1>9, <2>2, <2>3 DEF BusyInv
<1>13. BeforeInv'
  <2>1. SUFFICES ASSUME icCancels = 0
                 PROVE  /\ \A f \in 1..CancelCap : ~icEntries'[f].aborted
                        /\ \E q \in CancelReads : Busy(q)'
                        /\ \A q \in CancelReads : Busy(q)' =>
                              icReads'[q].from - icEntries'[icMap'].made <= (Cardinality(UsedReads') - 1) * ReadDeadline
    BY <1>2 DEF BeforeInv
  <2>2. \A f \in 1..CancelCap : ~icEntries'[f].aborted /\ ~icEntries[f].aborted  BY <1>3, <2>1 DEF TokenInv, BeforeInv
  <2>3. Busy(r)'  BY <1>8, <2>2 DEF step
  <2>. DEFINE u == Cardinality(UsedReads)
  <2>4. Cardinality(UsedReads') = u + 1 /\ u \in Nat
    <3>1. UsedReads' = UsedReads \cup {r} /\ r \notin UsedReads  BY <1>2, <1>4, <1>5, <1>6 DEF UsedReads
    <3>. QED  BY <3>1, UsedNat, FS_AddElement
  <2>. HIDE DEF u
  <2>5. u * ReadDeadline \in Nat /\ ReadDeadline \in Nat
    <3>1. u <= u  BY <2>4
    <3>. QED  BY <2>4, <3>1, LongerRow, CancelNumbers
  <2>6. CASE KeptEntry
    <3>1. PICK p \in CancelReads : Busy(p)  BY <1>9, <2>1, <2>6 DEF TokenInv, BeforeInv, KeptEntry
    <3>2. icEntries'[e].made = icEntries[icMap].made /\ icEntries[icMap].made \in Nat  BY <1>2, <1>3, <1>9, <2>6, EntryFields
    <3>3. \A q \in CancelReads : Busy(q) => icReads[q].from - icEntries[icMap].made <= (u - 1) * ReadDeadline
      BY <2>1 DEF TokenInv, BeforeInv, u
    <3>4. u \in Nat \ {0}
      <4>1. p \in UsedReads  BY <3>1 DEF UsedReads, Busy
      <4>2. u # 0  BY <4>1, UsedNat, FS_EmptySet DEF u
      <4>. QED  BY <2>4, <4>2
    <3>5. u - 1 \in Nat /\ u = (u - 1) + 1  BY <3>4
    <3>6. u * ReadDeadline = (u - 1) * ReadDeadline + ReadDeadline /\ (u - 1) * ReadDeadline \in Nat  BY <3>5, LongerRow
    <3>7. icReads[p].from \in Nat /\ icNow - icReads[p].from <= ReadDeadline  BY <1>2, <3>1, ReadFields DEF TokenInv, BusyInv
    <3>8. icNow - icEntries[icMap].made <= u * ReadDeadline  BY <1>2, <2>5, <3>1, <3>2, <3>3, <3>6, <3>7
    <3>9. \A q \in CancelReads : icReads[q].from \in Nat  BY <1>2, ReadFields
    <3>10. \A q \in CancelReads \ {r} : Busy(q)' => icReads'[q].from - icEntries'[icMap'].made <= u * ReadDeadline
      BY <1>6, <1>7, <1>9, <2>5, <3>2, <3>3, <3>6, <3>9
    <3>11. icReads'[r].from - icEntries'[icMap'].made <= u * ReadDeadline  BY <1>5, <1>6, <1>9, <3>2, <3>8
    <3>12. (Cardinality(UsedReads') - 1) * ReadDeadline = u * ReadDeadline  BY <2>4
    <3>. QED  BY <2>2, <2>3, <3>10, <3>11, <3>12
  <2>7. CASE ~KeptEntry
    <3>1. icReads'[r].from - icEntries'[icMap'].made <= u * ReadDeadline  BY <1>2, <1>3, <1>5, <1>6, <1>9, <2>5, <2>7
    <3>2. (Cardinality(UsedReads') - 1) * ReadDeadline = u * ReadDeadline  BY <2>4
    <3>3. \A q \in CancelReads \ {r} : ~Busy(q)'  BY <1>7, <1>10, <2>7
    <3>. QED  BY <2>2, <2>3, <3>1, <3>2, <3>3
  <2>. QED  BY <2>6, <2>7
<1>14. AfterInv'
  <2>1. SUFFICES ASSUME icCancels # 0
                 PROVE  /\ icCancels <= icNow /\ icMap' # 0 /\ icEntries'[icMap'].aborted
                        /\ \A q \in CancelReads : Busy(q)' => icReads'[q].from <= icCancels
                        /\ \A q \in CancelReads : icReads'[q].at = "idle" =>
                              /\ icNow - icCancels <= QueuedFor
                              /\ icCancels - icEntries'[icMap'].made <= (Cardinality(CancelReads) - 1) * ReadDeadline
    BY <1>2 DEF AfterInv
  <2>2. /\ icCancels <= icNow /\ icMap # 0 /\ icEntries[icMap].aborted /\ icMap \in 1..CancelCap
        /\ icNow - icCancels <= QueuedFor /\ icCancels - icEntries[icMap].made <= (Cardinality(CancelReads) - 1) * ReadDeadline
    BY <1>2, <2>1, CancelNumbers DEF TokenInv, AfterInv, CancelType
  <2>. DEFINE reach == (Cardinality(CancelReads) - 1) * ReadDeadline
  <2>3. reach \in Nat /\ {QueuedFor, KeepFor} \subseteq Nat /\ reach + QueuedFor < KeepFor /\ icEntries[icMap].made \in Nat
    <3>1. Cardinality(CancelReads) - 1 \in Nat  BY <1>2, FewerReads
    <3>2. reach \in Nat  BY <3>1, LongerRow
    <3>. QED  BY <1>2, <2>2, <3>2, CancelNumbers, EntryFields
  <2>4. icCancels - icEntries[icMap].made <= reach  BY <2>2
  <2>. HIDE DEF reach
  <2>5. icNow - icEntries[icMap].made < KeepFor  BY <1>2, <2>2, <2>3, <2>4
  <2>6. KeptEntry  BY <2>2, <2>5 DEF KeptEntry
  <2>7. e = icMap /\ step = "refused"  BY <1>9, <2>2, <2>6 DEF step
  <2>8. icEntries'[e].made = icEntries[icMap].made /\ icEntries'[icMap'].aborted  BY <1>3, <1>9, <2>2, <2>6, <2>7
  <2>9. \A q \in CancelReads : Busy(q)' => icReads'[q].from <= icCancels
    BY <1>2, <1>6, <1>7, <1>8, <2>1, <2>7 DEF TokenInv, AfterInv
  <2>. QED  BY <1>9, <2>2, <2>4, <2>8, <2>9 DEF reach
<1>. QED  BY <1>2, <1>11, <1>12, <1>13, <1>14 DEF TokenInv

\* A cancellation holds for the reads of its token, for as long as the entry it marked lives.
LEMMA CancelKept ==
  ASSUME IsFiniteSet(CancelReads), (Cardinality(CancelReads) - 1) * ReadDeadline + QueuedFor < KeepFor
  PROVE  CancelSpec => []TokenInv
<1>1. CancelInit => TokenInv
  <2>1. ASSUME CancelInit
        PROVE  TokenInv
    <3>1. IdleRead \in TokenRead /\ IdleRead.at = "idle" /\ [made |-> 0, aborted |-> FALSE] \in EntryRecord
      BY DEF IdleRead, TokenRead, EntryRecord
    <3>2. icReads \in [CancelReads -> TokenRead] /\ \A q \in CancelReads : icReads[q].at = "idle"  BY <2>1, <3>1 DEF CancelInit
    <3>3. icEntries \in [1..CancelCap -> EntryRecord] /\ \A e \in 1..CancelCap : ~icEntries[e].aborted  BY <2>1, <3>1 DEF CancelInit
    <3>4. icNow = 1 /\ icMap = 0 /\ icCancels = 0 /\ icRevived = {}  BY <2>1 DEF CancelInit
    <3>. QED  BY <3>2, <3>3, <3>4, CancelNumbers DEF TokenInv, CancelType, BusyInv, BeforeInv, AfterInv, Busy
  <2>. QED  BY <2>1
<1>2. TokenInv /\ [CancelNext]_cancelVars => TokenInv'
  <2>1. ASSUME TokenInv, CancelNext
        PROVE  TokenInv'
    BY <2>1, TickKeeps, TokenKeeps, BeginKeeps, EndsKeeps, LeaveKeeps DEF CancelNext
  <2>2. ASSUME TokenInv, UNCHANGED cancelVars
        PROVE  TokenInv'
    BY <2>2 DEF cancelVars, TokenInv, CancelType, BusyInv, BeforeInv, AfterInv, Busy, UsedReads
  <2>. QED  BY <2>1, <2>2
<1>. QED  BY <1>1, <1>2, PTL DEF CancelSpec

LEMMA CancelledHold ==
  ASSUME TokenInv
  PROVE  CancelledStays
<1>1. ASSUME icCancels # 0, NEW r \in CancelReads, icReads[r].at = "working"
      PROVE  icEntries[icReads[r].entry].aborted
  BY <1>1 DEF TokenInv, BusyInv, AfterInv, Busy
<1>. QED  BY <1>1 DEF TokenInv, CancelledStays

(* cancel.rs: a queued continuation cannot revive a cancelled read.  It holds when so few reads share a token that,
   one after the other without a gap, they and a continuation in the queue end before an entry is swept: an entry is
   counted from when it was made, not from its last use or from the cancellation. *)
THEOREM CancelledStay ==
  ASSUME IsFiniteSet(CancelReads), (Cardinality(CancelReads) - 1) * ReadDeadline + QueuedFor < KeepFor
  PROVE  CancelSpec => []CancelledStays
BY CancelKept, CancelledHold, PTL
=============================================================================
