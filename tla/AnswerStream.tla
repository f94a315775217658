---------------------------- MODULE AnswerStream ----------------------------
(***************************************************************************)
(* ClaudeStream (agent/stream.rs): what a worker keeps of the assistant's  *)
(* event stream.  The same text and the same tools arrive twice, streamed  *)
(* and in a snapshot of the message, and a result closes the stream.  A    *)
(* text is represented by its length.                                      *)
(***************************************************************************)
EXTENDS Integers, Sequences, SequencesExt, FiniteSets, Ranks

CONSTANTS StreamHistory,   \* entries of the conversation continued
          MaxEntries,      \* 200 entries in a transcript
          MaxAnswer,       \* RESULT_LIMIT, 64 KiB
          MaxTools, Sessions

ASSUME StreamAssumption == StreamHistory \in 0..MaxEntries /\ MaxAnswer \in Nat \ {0} /\ MaxTools \in Nat

Entry(role, size) == [role |-> role, size |-> size]
NoIndex == 0

VARIABLES parser,   \* the fields of ClaudeStream
          stream,   \* "open", "refused" once accept failed, "ended"
          closed    \* entries before the message under way
streamVars == <<parser, stream, closed>>

StreamInit ==
  /\ parser = [transcript |-> [n \in 1..StreamHistory |-> Entry("user", 1)], output |-> 0, session |-> "",
               complete |-> FALSE, current |-> NoIndex, index |-> NoIndex, tools |-> 0, snapshot |-> FALSE, final |-> FALSE]
  /\ stream = "open" /\ closed = StreamHistory

ResetMessage(p) == [p EXCEPT !.current = NoIndex, !.index = NoIndex, !.tools = 0, !.snapshot = FALSE]
Status(p, n) == IF n = 0 THEN p
                ELSE [p EXCEPT !.transcript = @ \o [k \in 1..n |-> Entry("status", 1)], !.current = NoIndex]

\* answer: an entry for the message is made if it has none; the text is appended to it or replaces it.
Answered(p, size, replace) ==
  LET i == IF p.current = NoIndex THEN Len(p.transcript) + 1 ELSE p.current
      old == IF p.current = NoIndex \/ replace THEN 0 ELSE p.transcript[i].size
  IN [p EXCEPT !.transcript = (IF p.current = NoIndex THEN Append(@, Entry("assistant", 0)) ELSE @),
               !.current = i, !.index = IF p.current = NoIndex THEN i ELSE @, !.output = old + size]
WithText(p) == [p EXCEPT !.transcript[p.current].size = p.output]

Sized(p) == p.output <= MaxAnswer /\ Len(p.transcript) <= MaxEntries
\* accept works on a copy: a refused event changes nothing but final_seen.
Accepted(p, final) == /\ IF Sized(p) THEN parser' = p /\ UNCHANGED stream
                         ELSE parser' = [parser EXCEPT !.final = @ \/ final] /\ stream' = "refused"
Refuse(final) == parser' = [parser EXCEPT !.final = @ \/ final] /\ stream' = "refused"

------------------------------------
SessionEvent(s) == /\ IF parser.session \in {"", s} THEN parser' = [parser EXCEPT !.session = s] /\ UNCHANGED stream
                      ELSE Refuse(FALSE)
                   /\ UNCHANGED closed
MessageStart == /\ parser' = ResetMessage(parser) /\ closed' = Len(parser.transcript) /\ UNCHANGED stream
TextDelta(size) == Accepted(WithText(Answered(parser, size, FALSE)), FALSE) /\ UNCHANGED closed
ToolStart == /\ parser.tools < MaxTools
             /\ Accepted([Status(parser, 1) EXCEPT !.tools = @ + 1], FALSE) /\ UNCHANGED closed
ToolFinished == Accepted(Status(parser, 1), FALSE) /\ UNCHANGED closed

\* The snapshot of a message: a second one without a message_start between begins a message of its own.
Snapshot(size, tools) ==
  LET begun == IF parser.snapshot THEN ResetMessage(parser) ELSE parser
      text == IF size = 0 THEN begun ELSE WithText(Answered([begun EXCEPT !.current = begun.index], size, TRUE))
      new == IF tools > begun.tools THEN tools - begun.tools ELSE 0
  IN /\ Accepted([Status(text, new) EXCEPT !.tools = tools, !.snapshot = TRUE], FALSE)
     /\ closed' = IF parser.snapshot THEN Len(parser.transcript) ELSE closed

Result(ok, size) == /\ IF ~ok THEN Refuse(TRUE)
                       ELSE Accepted([WithText(Answered(parser, size, TRUE)) EXCEPT !.complete = TRUE, !.final = TRUE], TRUE)
                    /\ UNCHANGED closed

(* The stream ends: the worker takes the answer when a result was seen and it is complete and not empty. *)
Succeeds(p) == p.final /\ p.complete /\ p.output # 0
StreamEnds == stream' = (IF Succeeds(parser) THEN "answered" ELSE "unanswered") /\ UNCHANGED <<parser, closed>>

StreamNext == /\ stream = "open"
              /\ \/ MessageStart \/ ToolStart \/ ToolFinished \/ StreamEnds
                 \/ \E s \in Sessions : SessionEvent(s)
                 \/ \E size \in 1..MaxAnswer : TextDelta(size)
                 \/ \E size \in 0..MaxAnswer, tools \in 0..MaxTools : Snapshot(size, tools)
                 \/ \E ok \in BOOLEAN, size \in 0..MaxAnswer : Result(ok, size)
StreamSpec == StreamInit /\ [][StreamNext]_streamVars

------------------------------------
(* Earlier turns and finished messages are never rewritten, although a snapshot replaces text that was streamed
   before and after tools, and a result replaces the answer: only the message under way changes. *)
HistoryKept == [][\A i \in 1..closed : parser'.transcript[i] = parser.transcript[i]]_streamVars

(* AGENT.md:119, never a partial response as a success, and AGENT.md:125, limits: an answer is taken only from a
   stream none of whose events was refused, with an assistant entry that holds it whole. *)
AnswerIsWhole == stream = "answered" =>
  \E i \in 1..Len(parser.transcript) : parser.transcript[i] = Entry("assistant", parser.output)

------------------------------------
(***************************************************************************)
(* agent.jobsProjection (agent/jobs.rs): which job of an account answers   *)
(* for a message, computed from a listing whose rows come in any order.    *)
(* The behaviour builds a listing row by row, so that every listing up to  *)
(* MaxRows is looked at.                                                   *)
(***************************************************************************)

CONSTANTS MaxRows, ViewMessages, ViewAccounts

ASSUME ViewsAssumption == MaxRows \in Nat

VARIABLES rows
viewVars == <<rows>>

Row == [account : ViewAccounts, messages : (SUBSET ViewMessages) \ {{}}, state : {"running", "done", "failed"},
        look : BOOLEAN, order : 1..MaxRows]
ViewsInit == rows = <<>>
AddRow(row) == /\ Len(rows) < MaxRows /\ \A i \in 1..Len(rows) : rows[i].order # row.order
               /\ rows' = Append(rows, row)
ViewsNext == \E row \in Row : AddRow(row)

IsActive(row) == row.state = "running"
\* An active job takes the place of any job; a settled one only that of an older settled one.
Wins(row, chosen) == IsActive(row) \/ (~IsActive(chosen) /\ row.order > chosen.order)
NoRow == [state |-> "none"]
Chosen(list) ==
  LET best[n \in 0..Len(list)] == IF n = 0 THEN NoRow
                                  ELSE IF best[n - 1] = NoRow \/ Wins(list[n], best[n - 1]) THEN list[n] ELSE best[n - 1]
  IN best[Len(list)]

\* The rows that name a message: places in the listing.
For(account, message) == {i \in 1..Len(rows) : rows[i].account = account /\ message \in rows[i].messages}
Works(account, message) == {i \in For(account, message) : ~rows[i].look}
Looks(account, message) == {i \in For(account, message) : rows[i].look /\ rows[i].state # "failed"}
\* byAccount and byMessage; eventLooks holds the looks that run or were answered.
ByMessage(account, message) == Chosen(Picked(rows, Works(account, message)))
EventLook(account, message) == Chosen(Picked(rows, Looks(account, message)))

\* scopesByAccount: the jobs of one selection; the first that is active, else the newest.
Scope(account, key) == {i \in 1..Len(rows) : rows[i].account = account /\ rows[i].messages = key /\ ~rows[i].look}
ScopeJob(account, key) ==
  LET group == Scope(account, key)
      live == {i \in group : IsActive(rows[i])}
  IN IF live # {} THEN rows[Min(live)]
     ELSE IF group = {} THEN NoRow ELSE rows[CHOOSE i \in group : \A k \in group : rows[k].order <= rows[i].order]

------------------------------------
Best(places, chosen) == IF places = {} THEN chosen = NoRow
                        ELSE /\ \E i \in places : chosen = rows[i]
                             /\ IF \E i \in places : IsActive(rows[i]) THEN IsActive(chosen)
                                ELSE \A i \in places : rows[i].order <= chosen.order

(* Whatever the order of the rows, a message shows a job that is running when one is, and the newest one when none
   is; a look shows beside it, and one that failed leaves the message free to be looked at again (AGENT.md:82). *)
MessageShowsBest == \A a \in ViewAccounts, m \in ViewMessages :
  Best(Works(a, m), ByMessage(a, m)) /\ Best(Looks(a, m), EventLook(a, m))

(* The job a selection shows is one a message of it shows or an older one a wider selection has covered: the row of
   a message never shows an older settled job than the panel of a selection of it, nor a settled one beside a live. *)
RowsAgree == \A a \in ViewAccounts, key \in (SUBSET ViewMessages) \ {{}} :
  LET shown == ScopeJob(a, key)
  IN shown # NoRow => \A m \in key : LET row == ByMessage(a, m)
                                      IN IsActive(row) \/ (~IsActive(shown) /\ shown.order <= row.order)

------------------------------------
(***************************************************************************)
(* The context reads of the assistant: agent/context.rs.  A read fetches   *)
(* and prepares up to 20 messages while a cancellation, named by account   *)
(* and request id, may come before it, during it or at its very end.  The  *)
(* serial number of a registration is the request itself.                  *)
(***************************************************************************)

CONSTANTS Reads,        \* calls of agent.context
          ReadKeys,     \* the account and request ids they carry
          MaxReads,     \* 8 registered reads
          MaxTombs      \* 64 cancellations remembered for 120 s

ASSUME ContextAssumption == {MaxReads, MaxTombs} \subseteq Nat \ {0} /\ "none" \notin Reads /\ ReadKeys # {}

VARIABLES registered,   \* key -> the read registered under it
          tombs,        \* cancelled_before_start
          reads,        \* read -> its key, where it is, what its work gave
          cancelled     \* the reads whose cancellation was acknowledged
contextVars == <<registered, tombs, reads, cancelled>>

ContextInit == /\ registered = [k \in ReadKeys |-> "none"] /\ tombs = {}
               /\ reads = [r \in Reads |-> [at |-> "idle", key |-> CHOOSE k \in ReadKeys : TRUE, result |-> "none"]]
               /\ cancelled = {}

Registered == {k \in ReadKeys : registered[k] # "none"}

Refusal(k) == k \in tombs \/ Cardinality(Registered) >= MaxReads \/ registered[k] # "none"
ContextStart(r, k) ==
  /\ reads[r].at = "idle"
  /\ reads' = [reads EXCEPT ![r] = [at |-> IF Refusal(k) THEN "over" ELSE "working", key |-> k, result |-> "none"]]
  /\ registered' = IF Refusal(k) THEN registered ELSE [registered EXCEPT ![k] = r]
  /\ UNCHANGED <<tombs, cancelled>>

(* agent.contextCancel: a registered read is signalled and taken off the table; for any other key the
   cancellation is remembered, if there is room. *)
ContextCancel(k) ==
  /\ IF registered[k] # "none"
     THEN /\ cancelled' = cancelled \cup {registered[k]}
          /\ registered' = [registered EXCEPT ![k] = "none"] /\ UNCHANGED tombs
     ELSE /\ tombs' = IF Cardinality(tombs) < MaxTombs THEN tombs \cup {k} ELSE tombs
          /\ UNCHANGED <<registered, cancelled>>
  /\ UNCHANGED reads
TombExpires(k) == k \in tombs /\ tombs' = tombs \ {k} /\ UNCHANGED <<registered, reads, cancelled>>

(* bounded_work: the messages are fetched, four at a time and within 200,000 characters, or the 60 seconds pass,
   or the signal is seen first. *)
WorkEnds(r) ==
  /\ reads[r].at = "working"
  /\ \E result \in {"payload", "error"} :
       reads' = [reads EXCEPT ![r].at = "decided", ![r].result = IF r \in cancelled THEN "error" ELSE result]
  /\ UNCHANGED <<registered, tombs, cancelled>>

OwnEntry(r) == registered[reads[r].key] = r
Released(r) == IF OwnEntry(r) THEN [registered EXCEPT ![reads[r].key] = "none"] ELSE registered

StillRegistered(r) == OwnEntry(r)
\* The last section of call, under the lock of the table.
ContextReturns(r) ==
  /\ reads[r].at = "decided"
  /\ reads' = [reads EXCEPT ![r].at = "over", ![r].result = IF StillRegistered(r) THEN @ ELSE "error"]
  /\ registered' = Released(r)
  /\ UNCHANGED <<tombs, cancelled>>
\* The session drops the request; its registration goes with it.
ContextDropped(r) ==
  /\ reads[r].at \in {"working", "decided"}
  /\ reads' = [reads EXCEPT ![r].at = "over", ![r].result = "error"]
  /\ registered' = Released(r)
  /\ UNCHANGED <<tombs, cancelled>>

ContextNext == \/ \E r \in Reads : \/ WorkEnds(r) \/ ContextReturns(r) \/ ContextDropped(r)
                                   \/ \E k \in ReadKeys : ContextStart(r, k)
               \/ \E k \in ReadKeys : ContextCancel(k) \/ TombExpires(k)
ContextSpec == ContextInit /\ [][ContextNext]_contextVars

------------------------------------
(* BACKEND.md:351, cancellation is account and request scoped: once a cancellation of a read was acknowledged the
   read returns no payload, even one whose work was already done. *)
CancelledIsFinal == \A r \in cancelled : reads[r].at = "over" => reads[r].result # "payload"

(* Every read that is still going and was not cancelled can be cancelled under its key, and a key is held by a read
   that is still going: ending one read never frees the entry of another. *)
EntriesMatch == /\ \A r \in Reads : reads[r].at \in {"working", "decided"} /\ r \notin cancelled => OwnEntry(r)
                /\ \A k \in Registered : /\ reads[registered[k]].at \in {"working", "decided"}
                                         /\ reads[registered[k]].key = k
=============================================================================
