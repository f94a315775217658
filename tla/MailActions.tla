---------------------------- MODULE MailActions ----------------------------
(***************************************************************************)
(* mail.act and mail.list (mail/action.rs, mail/list.rs, backend/mail.rs):  *)
(* a batch of messages is planned, sent to the provider in chunks and       *)
(* reported message by message; a listing is read page first and rows       *)
(* after.  The mailbox changes under both, and a reply may be lost after    *)
(* the provider acted on it.                                                *)
(***************************************************************************)
EXTENDS Integers, Sequences, FiniteSets, SequencesExt, FiniteSetsExt, Functions, Ranks

CONSTANTS ActRows,     \* requested row -> its target messages, in order
          ActChunk,    \* ids in one provider call (1, 500 or 1000)
          MaxTargets,  \* MAX_TARGETS (2000)
          MaxActs      \* bound: mail.act calls

ActIds == UNION {ToSet(ActRows[r]) : r \in DOMAIN ActRows}
ASSUME ActBounds == /\ {ActChunk, MaxTargets} \subseteq Nat \ {0} /\ MaxActs \in Nat
                    /\ IsFiniteSet(ActIds) /\ \A r \in DOMAIN ActRows : ActRows[r] \in Seq(ActIds)

VARIABLES
    actPc,       \* plan, mutate, invalidate, report, gone
    actTargets,  \* the plan's target_ids
    actAt,       \* how many of them the chunks so far named
    actConfirmed,\* ids the provider confirmed
    actReport,   \* [succeeded, failed] of the answer
    actSent,     \* message -> provider calls that named it, in this action
    actDone,     \* messages the provider changed, in this action
    actCache,    \* whether the account's caches still show the earlier state
    actRuns,
    lsPc, lsIds, lsRows, lsServer, lsAnswer  \* one listing

actVars  == <<actPc, actTargets, actAt, actConfirmed, actReport, actSent, actDone, actCache, actRuns>>
listVars == <<lsPc, lsIds, lsRows, lsServer, lsAnswer>>
mailVars == <<actVars, listVars>>

NoReport == [succeeded |-> {}, failed |-> {}, given |-> FALSE]

MailInit ==
    /\ actPc = "plan" /\ actTargets = <<>> /\ actAt = 0 /\ actConfirmed = {}
    /\ actReport = NoReport /\ actSent = [m \in ActIds |-> 0] /\ actDone = {}
    /\ actCache = "fresh" /\ actRuns = 0
    /\ lsPc = "idle" /\ lsIds = <<>> /\ lsRows = <<>> /\ lsServer \in SUBSET ActIds
    /\ lsAnswer = <<>>

------------------------------------
(* The plan *)

\* append_targets: of a row, the targets that are not there yet, in the row's order.
WithTargets(targets, row) ==
    targets \o Picked(ActRows[row], {i \in DOMAIN ActRows[row] :
                 ActRows[row][i] \notin ToSet(targets) \cup {ActRows[row][j] : j \in 1..i - 1}})
\* A call names one row or two; a row that is named twice counts once (requested_ids).
PlanTargets(row, other) == WithTargets(WithTargets(<<>>, row), other)

\* plan_action: a refused capability or destination, an unknown or too large
\* target list ends the call before anything is sent.
Plan(row, other, execute) ==
    LET targets == PlanTargets(row, other) IN
    /\ actPc = "plan" /\ actRuns < MaxActs /\ actRuns' = actRuns + 1
    /\ actReport' = NoReport /\ actConfirmed' = {} /\ actDone' = {}
    /\ actSent' = [m \in ActIds |-> 0]
    /\ \/ /\ targets # <<>> /\ Len(targets) <= MaxTargets
          /\ actTargets' = targets
          /\ actAt' = 0
          /\ actPc' = IF execute THEN "mutate" ELSE "plan"
       \/ UNCHANGED <<actTargets, actAt, actPc>>
    /\ UNCHANGED <<actCache, listVars>>

\* confirmed_ids: no acknowledgement lists means all; otherwise the two
\* lists name every id of the chunk exactly once, or none is believed.
BelieveListed(ids, reply) == IF reply.kind = "lists" THEN reply.yes ELSE
                             IF reply.kind = "plain" THEN ids ELSE {}
Believe(ids, reply) ==
    IF reply.kind = "plain" THEN ids
    ELSE IF reply.kind = "lists" /\ reply.yes \cap reply.no = {} /\ reply.yes \cup reply.no = ids
         THEN reply.yes ELSE {}

\* What the provider may do and say about a chunk: all of it, part of it
\* named honestly, a contradictory acknowledgement, or nothing heard.
Replies(ids) ==
    [did : {ids}, kind : {"plain"}, yes : {{}}, no : {{}}] \cup
    {[did |-> d, kind |-> "lists", yes |-> d, no |-> ids \ d] : d \in SUBSET ids} \cup
    {[did |-> d, kind |-> "lists", yes |-> ids, no |-> ids \ d] : d \in (SUBSET ids) \ {ids}} \cup
    {[did |-> d, kind |-> "lost", yes |-> {}, no |-> {}] : d \in SUBSET ids}

\* mutate_plan: one chunk after the other; a failed one does not stop the rest.
ChunkEnd == IF actAt + ActChunk < Len(actTargets) THEN actAt + ActChunk ELSE Len(actTargets)
SendChunk ==
    /\ actPc = "mutate" /\ actAt < Len(actTargets)
    /\ LET ids == {actTargets[i] : i \in actAt + 1..ChunkEnd} IN
       \E reply \in Replies(ids) :
         /\ actDone' = actDone \cup reply.did
         /\ actConfirmed' = actConfirmed \cup Believe(ids, reply)
         /\ actCache' = IF reply.did = {} THEN actCache ELSE "behind"
    /\ actSent' = [m \in ActIds |-> actSent[m] + Cardinality({i \in actAt + 1..ChunkEnd : actTargets[i] = m})]
    /\ actAt' = ChunkEnd
    /\ UNCHANGED <<actPc, actTargets, actReport, actRuns, listVars>>

\* invalidate_action_caches, when anything was confirmed; then the answer
\* splits the targets by what was confirmed.
ReportActs ==
    /\ actPc = "mutate" /\ actAt = Len(actTargets)
    /\ actCache' = IF actConfirmed # {} THEN "fresh" ELSE actCache
    /\ actReport' = [succeeded |-> ToSet(actTargets) \cap actConfirmed,
                     failed |-> ToSet(actTargets) \ actConfirmed, given |-> TRUE]
    /\ actPc' = "plan"
    /\ UNCHANGED <<actTargets, actAt, actConfirmed, actSent, actDone, actRuns, listVars>>

------------------------------------
(* The listing *)

\* The provider's page of ids.
ListPage == /\ lsPc = "idle" /\ lsPc' = "rows"
            /\ lsIds' = SetToSeq(lsServer) /\ lsRows' = <<>> /\ lsAnswer' = <<>>
            /\ UNCHANGED <<lsServer, actVars>>

\* Mail arrives or goes between the page and the rows.
MailboxChanges(s) == lsPc = "rows" /\ lsServer' = s
                     /\ UNCHANGED <<lsPc, lsIds, lsRows, lsAnswer, actVars>>

\* The rows: a provider that cannot read one fails the listing or skips it.
ListRows(skips) ==
    /\ lsPc = "rows" /\ Len(lsRows) = 0
    /\ lsRows' = Picked(lsIds, {i \in DOMAIN lsIds : lsIds[i] \in lsServer})
    /\ lsPc' = IF ~skips /\ lsRows' # lsIds THEN "idle" ELSE "check"
    /\ UNCHANGED <<lsIds, lsServer, lsAnswer, actVars>>

\* complete_page: one summary for every id, in the same order.
CompletePage(ids, rows) == Len(ids) = Len(rows) /\ \A i \in DOMAIN ids : ids[i] = rows[i]
AnswerList ==
    /\ lsPc = "check" /\ lsPc' = "idle"
    /\ lsAnswer' = IF CompletePage(lsIds, lsRows) THEN <<lsIds, lsRows>> ELSE <<>>
    /\ UNCHANGED <<lsIds, lsRows, lsServer, actVars>>

ActNext ==
    \/ \E row, other \in DOMAIN ActRows, execute \in BOOLEAN : Plan(row, other, execute)
    \/ SendChunk \/ ReportActs
ListNext ==
    \/ ListPage \/ AnswerList
    \/ \E s \in SUBSET ActIds : MailboxChanges(s)
    \/ \E skips \in BOOLEAN : ListRows(skips)
MailNext == ActNext \/ ListNext

------------------------------------
\* An honest provider is reported honestly: what mail.act calls succeeded was
\* confirmed by a well-formed acknowledgement and done, every target is
\* reported exactly once, and no message is sent twice however its rows
\* overlap.
ReportIsTrue ==
    /\ \A m \in ActIds : actSent[m] <= 1
    /\ actReport.given =>
         /\ actReport.succeeded \subseteq actDone
         /\ actReport.succeeded \cup actReport.failed = ToSet(actTargets)
         /\ actReport.succeeded \cap actReport.failed = {}

\* A listing names as many rows as ids, each under its own id.
ListIsWhole == lsAnswer # <<>> => lsAnswer[1] = lsAnswer[2]
=============================================================================
