---------------------------- MODULE AccountViews ----------------------------
(***************************************************************************)
(* What the window shows of several accounts (account/unified.rs,           *)
(* account/senders.rs) and of one conversation (account/conversation.rs).   *)
(* Each account hands over a prefix of its mail, newest first; the unified  *)
(* list hides what an unread page could still come before.  The summaries   *)
(* of conversation members are a bounded memory.                             *)
(***************************************************************************)
EXTENDS Integers, Sequences, FiniteSets, SequencesExt, FiniteSetsExt, Ranks

CONSTANTS UnifiedMail,  \* account -> its messages, newest first
          MailTime,     \* message -> its time
          ThreadIds,    \* messages that may be conversation members
          Remembered,   \* MAX_REMEMBERED (500)
          MaxMerges     \* bound: summary batches

UnifiedAccounts == DOMAIN UnifiedMail

\* A message is its place among all mail by time, account and id: a newer one comes before.
ASSUME ViewBounds ==
    /\ Remembered \in Nat \ {0} /\ MaxMerges \in Nat
    /\ IsFiniteSet(UnifiedAccounts) /\ \A a \in UnifiedAccounts : UnifiedMail[a] \in Seq(DOMAIN MailTime)
    /\ DOMAIN MailTime \subseteq Nat /\ \A m \in DOMAIN MailTime : MailTime[m] \in Nat
    /\ \A m, n \in DOMAIN MailTime : MailTime[m] > MailTime[n] => m < n
    /\ \A a \in UnifiedAccounts : \A i, j \in 1..Len(UnifiedMail[a]) :
          i < j => MailTime[UnifiedMail[a][i]] >= MailTime[UnifiedMail[a][j]]

VARIABLES
    uvLoaded,   \* account -> messages loaded, a prefix
    uvShown,    \* the unified list: messages
    cvThread,   \* memberIds, oldest first
    cvKnown,    \* the members whose summary is remembered
    cvMerges

viewsVars == <<uvLoaded, uvShown, cvThread, cvKnown, cvMerges>>
AccountViewsInit ==
    /\ uvLoaded = [a \in UnifiedAccounts |-> 0] /\ uvShown = <<>>
    /\ cvThread = <<>> /\ cvKnown = {} /\ cvMerges = 0

------------------------------------
(* The unified list *)

HasMore(loaded, a) == loaded[a] < Len(UnifiedMail[a])

\* merge: nothing older than the last row of an account with more to come.
FloorOf(loaded) ==
    Max({0} \cup {MailTime[UnifiedMail[a][loaded[a]]] :
                    a \in {b \in UnifiedAccounts : loaded[b] > 0 /\ HasMore(loaded, b)}})
RowsOf(loaded) == UNION {{UnifiedMail[a][i] : i \in 1..loaded[a]} : a \in UnifiedAccounts}
Unhidden(loaded) == {m \in RowsOf(loaded) : MailTime[m] >= FloorOf(loaded)}
Merged(loaded) == Rising(Unhidden(loaded))

\* An account's next page arrives, and the projection is made again.
PageArrives(a, upTo) ==
    /\ uvLoaded[a] < upTo /\ upTo <= Len(UnifiedMail[a])
    /\ uvLoaded' = [uvLoaded EXCEPT ![a] = upTo]
    /\ uvShown' = Merged(uvLoaded')
    /\ UNCHANGED <<cvThread, cvKnown, cvMerges>>

------------------------------------
(* The conversation rail *)

\* select: a message outside the thread brings its own, if it has one.
SelectMessage(m, thread) ==
    /\ m \notin ToSet(cvThread)
    /\ cvThread' = IF Len(thread) >= 2 THEN thread ELSE <<>>
    /\ UNCHANGED <<uvLoaded, uvShown, cvKnown, cvMerges>>

\* merge: a full memory keeps only what the thread needs, then takes the batch.
Keeps(kept) == IF Cardinality(cvKnown) < Remembered THEN cvKnown ELSE cvKnown \cap kept
MergeSummaries(batch) ==
    /\ cvMerges < MaxMerges /\ cvMerges' = cvMerges + 1
    /\ cvKnown' = Keeps(ToSet(cvThread)) \cup batch
    /\ UNCHANGED <<uvLoaded, uvShown, cvThread>>

\* seed: only the members still unknown are looked up in the lists on screen.
SeedSummaries(onScreen) ==
    /\ cvMerges < MaxMerges /\ cvMerges' = cvMerges + 1
    /\ cvKnown' = Keeps(ToSet(cvThread)) \cup ((ToSet(cvThread) \ cvKnown) \cap onScreen)
    /\ UNCHANGED <<uvLoaded, uvShown, cvThread>>

Threads == {s \in SeqOf(ThreadIds, 3) : \A i, j \in DOMAIN s : s[i] = s[j] => i = j}
AccountViewsNext ==
    \/ \E a \in UnifiedAccounts : \E upTo \in 1..Len(UnifiedMail[a]) : PageArrives(a, upTo)
    \/ \E m \in ThreadIds, t \in Threads : SelectMessage(m, t)
    \/ \E b \in SUBSET ThreadIds : MergeSummaries(b) \/ SeedSummaries(b)

------------------------------------
\* Every account that has mail has handed over a page.
Begun(loaded) == \A a \in UnifiedAccounts : loaded[a] > 0 \/ ~HasMore(loaded, a)
AllMail == RowsOf([a \in UnifiedAccounts |-> Len(UnifiedMail[a])])

\* Unified.js:222, truncated at the shallowest watermark so that the list has no
\* hole in the middle of it: above the floor every message of every account shows.
ListHasNoHole ==
    Begun(uvLoaded) => \A m \in AllMail : MailTime[m] > FloorOf(uvLoaded) => m \in ToSet(uvShown)

\* Once every account has handed over a page, scrolling only appends: what shows
\* stays, and a row above the floor never moves.  Rows of the very time of the
\* floor may still be joined by others of that time.
ScrollOnlyAppends ==
    [][Begun(uvLoaded) =>
         /\ ToSet(uvShown) \subseteq ToSet(uvShown')
         /\ \A n \in 1..Len(uvShown) : MailTime[uvShown[n]] > FloorOf(uvLoaded) =>
               n <= Len(uvShown') /\ uvShown'[n] = uvShown[n]]_viewsVars

\* A summary of a message in the open conversation is not forgotten while the
\* conversation stays open, however full the memory is.
RailRemembers == [][cvThread' = cvThread => cvKnown \cap ToSet(cvThread) \subseteq cvKnown']_viewsVars

------------------------------------
(***************************************************************************)
(* Optimistic mail actions: account/intents.rs over the list rules of      *)
(* account/model.rs.  One account and query: the list shows one            *)
(* conversation and some single messages.  An edit changes the view at     *)
(* once; it settles later, in any order and message by message, and the    *)
(* view is replayed from the base without what was refused.                *)
(***************************************************************************)

CONSTANTS Conversation,    \* the id of the conversation's row
          OtherMembers,    \* its other messages, which have no row
          SingleRows,
          MailboxKey,      \* "inbox" or "unread"
          IntentActions,   \* the actions looked at
          MaxEdits,        \* MAX_EDITS, 128 edits in a context
          MaxIntents       \* bound on the edits of a run

ASSUME IntentAssumption == /\ MaxEdits \in Nat \ {0} /\ MaxIntents \in Nat
                           /\ Conversation \notin OtherMembers \cup SingleRows

MailRows == {Conversation} \cup SingleRows
MailIds == MailRows \cup OtherMembers
Members(row) == IF row = Conversation THEN {row} \cup OtherMembers ELSE {row}

\* action_scope, changes
ConversationWide(action) == action \in {"archive", "unarchive", "trash", "untrash", "spam", "markRead", "markUnread", "unstar"}
Added(action) == CASE action = "markUnread" -> {"UNREAD"} [] action = "star" -> {"STARRED"}
                   [] action = "unarchive" -> {"INBOX"} [] OTHER -> {}
Dropped(action) == CASE action = "markRead" -> {"UNREAD"} [] action = "unstar" -> {"STARRED"}
                     [] action = "archive" -> {"INBOX"} [] OTHER -> {}
Labelled(labels, action, ids) ==
  [x \in MailIds |-> IF x \in ids THEN (labels[x] \ Dropped(action)) \cup Added(action) ELSE labels[x]]

VARIABLES view,     \* what the interface shows
          base,     \* the view before the oldest edit of the context
          edits,    \* the edits of the context, in the order they were made
          tokens,   \* serial
          asked,    \* what was asked of the server since the base, and its answers
          truth,    \* the labels the server has when no edit is open
          refused,  \* the messages the last settlement refused
          drifted   \* history: a replay made an edit on another row than it had been made on
intentVars == <<view, base, edits, tokens, asked, truth, refused, drifted>>

\* A list as it is loaded: the rows the mailbox holds, and those with something unread among the previews.
SomeHas(label, row, labels) == \E y \in Members(row) : label \in labels[y]
FreshView(labels) == [listed |-> {r \in MailRows : SomeHas(IF MailboxKey = "unread" THEN "UNREAD" ELSE "INBOX", r, labels)},
                   preview |-> {r \in MailRows : SomeHas("UNREAD", r, labels)}, labels |-> labels,
                   unread |-> [r \in MailRows |-> SomeHas("UNREAD", r, labels)],
                   flagged |-> [r \in MailRows |-> SomeHas("STARRED", r, labels)]]
IntentInit == /\ \E new \in SUBSET MailIds :
                    truth = [x \in MailIds |-> {"INBOX"} \cup (IF x \in new THEN {"UNREAD"} ELSE {})]
              /\ view = FreshView(truth) /\ base = view /\ edits = <<>> /\ tokens = 0 /\ asked = <<>>
              /\ refused = {} /\ drifted = FALSE

\* row_index: the row of this id, else the row that holds it as a member, in the list or among the previews.
RowsFor(v, x) == LET shown == v.listed \cup v.preview
                     own == {r \in shown : r = x}
                 IN IF own # {} THEN own ELSE {r \in shown : x \in Members(r)}

Alone(edit, row, x) == row # x \/ edit.one
Targets(edit, row, x) == IF Alone(edit, row, x) THEN {x}
                         ELSE IF ConversationWide(edit.action) THEN Members(row) ELSE {row}

\* thread_action, thread_members: what the row says of its conversation.
ThreadFlags(v, edit, row, x, labels) ==
  IF ~Alone(edit, row, x) /\ ConversationWide(edit.action)
  THEN [unread |-> CASE edit.action = "markRead" -> FALSE [] edit.action = "markUnread" -> TRUE [] OTHER -> v.unread[row],
        flagged |-> IF edit.action = "unstar" THEN FALSE ELSE v.flagged[row]]
  ELSE [unread |-> SomeHas("UNREAD", row, labels), flagged |-> SomeHas("STARRED", row, labels)]

Survives(action, unread) == CASE action \in {"archive", "trash"} -> FALSE
                              [] action = "markRead" -> MailboxKey # "unread" \/ unread
                              [] OTHER -> TRUE

\* action_view: the row of the message, the messages the action names, and what they and the row become.
RowOutcome(v, edit, x) ==
  LET row == CHOOSE r \in RowsFor(v, x) : TRUE
      targets == Targets(edit, row, x)
      labels == Labelled(v.labels, edit.action, targets)
      flags == ThreadFlags(v, edit, row, x, labels)
  IN [row |-> row, targets |-> targets, labels |-> labels, flags |-> flags,
      unread |-> "UNREAD" \in labels[row] \/ flags.unread]

(* apply_one: the message's row is found, changed and kept or taken off the list; a message of the open reader that
   has no row changes alone. *)
RowMissing == "missing"
Outcome(v, edit, x) ==
  IF RowsFor(v, x) = {}
  THEN IF x \in edit.reader /\ edit.action # "trash"
       THEN [row |-> x, targets |-> {x}, view |-> [v EXCEPT !.labels = Labelled(v.labels, edit.action, {x})]]
       ELSE [row |-> RowMissing, targets |-> {}, view |-> v]
  ELSE LET o == RowOutcome(v, edit, x)
       IN [row |-> o.row, targets |-> o.targets,
           view |-> [v EXCEPT !.labels = o.labels, !.unread[o.row] = o.flags.unread, !.flagged[o.row] = o.flags.flagged,
                              !.listed = IF Survives(edit.action, o.unread) THEN @ ELSE @ \ {o.row},
                              !.preview = IF o.unread THEN @ ELSE @ \ {o.row}]]

\* replay: every edit is made again from the base, on the row its message has by then, but for what was refused.
\* History, drift: it was not the row the edit had been made on.
Again(r, edit, item) ==
  IF item.failed THEN r
  ELSE LET o == Outcome(r.view, edit, item.id) IN [view |-> o.view, drift |-> r.drift \/ o.targets # item.targets]
EditAgain(r, edit) ==
  LET after[n \in 0..Len(edit.items)] == IF n = 0 THEN r ELSE Again(after[n - 1], edit, edit.items[n])
  IN after[Len(edit.items)]
Replayed(from, list) ==
  LET after[n \in 0..Len(list)] == IF n = 0 THEN [view |-> from, drift |-> FALSE] ELSE EditAgain(after[n - 1], list[n])
  IN after[Len(list)]

\* What edits do on the server: to the messages they were told to have, unless it was refused.
EditSent(labels, edit) ==
  LET after[n \in 0..Len(edit.items)] ==
        IF n = 0 THEN labels ELSE IF edit.items[n].failed THEN after[n - 1]
                                  ELSE Labelled(after[n - 1], edit.action, edit.items[n].targets)
  IN after[Len(edit.items)]
Sent(labels, list) ==
  LET after[n \in 0..Len(list)] == IF n = 0 THEN labels ELSE EditSent(after[n - 1], list[n]) IN after[Len(list)]

------------------------------------
\* begin: the messages whose row is missing take no part; an edit of none of them is refused.
WithMessage(m, edit, x) ==
  LET o == Outcome(m.view, edit, x)
  IN IF o.row = RowMissing THEN m
     ELSE [view |-> o.view, items |-> Append(m.items, [id |-> x, row |-> o.row, targets |-> o.targets, failed |-> FALSE])]
Made(edit, ids) ==
  LET made[n \in 0..Len(ids)] == IF n = 0 THEN [view |-> view, items |-> <<>>] ELSE WithMessage(made[n - 1], edit, ids[n])
  IN made[Len(ids)]
IntentBegin(action, ids, one, reader) ==
  LET edit == [token |-> tokens + 1, action |-> action, one |-> one, reader |-> reader, settled |-> FALSE, items |-> <<>>]
      made == Made(edit, ids)
  IN /\ tokens < MaxIntents /\ Len(edits) < MaxEdits /\ made.items # <<>>
     /\ base' = (IF edits = <<>> THEN view ELSE base) /\ view' = made.view
     /\ edits' = Append(edits, [edit EXCEPT !.items = made.items])
     /\ asked' = Append(asked, [edit EXCEPT !.items = made.items])
     /\ tokens' = tokens + 1 /\ refused' = {}
     /\ UNCHANGED <<truth, drifted>>

FailedWhole(item, failed) == failed # {}
FailedItem(item, failed) == item.row \in failed
\* What a settlement leaves: everything while an edit is open, nothing when the last one settles.
OpenOnly(list) == SelectSeq(list, LAMBDA e : ~e.settled)
Kept(list) == IF \A i \in DOMAIN list : list[i].settled THEN <<>> ELSE list

\* What the server is told of the settled items.
Told(items, failed) == [n \in DOMAIN items |-> [items[n] EXCEPT !.failed = items[n].row \in failed]]

IntentSettle(i, failed) ==
  /\ ~edits[i].settled /\ failed \subseteq {edits[i].items[n].row : n \in DOMAIN edits[i].items}
  /\ LET items == [n \in DOMAIN edits[i].items |->
                     [edits[i].items[n] EXCEPT !.failed = FailedItem(edits[i].items[n], failed)]]
         now == [edits EXCEPT ![i].settled = TRUE, ![i].items = items]
         again == Replayed(base, now)
     IN /\ view' = again.view /\ drifted' = (drifted \/ again.drift)
        /\ edits' = Kept(now)
        /\ \E k \in DOMAIN asked : LET told == [asked EXCEPT ![k] = [now[i] EXCEPT !.items = Told(asked[k].items, failed)]] IN
             /\ asked[k].token = edits[i].token
             /\ IF \A n \in DOMAIN told : told[n].settled THEN truth' = Sent(truth, told) /\ asked' = <<>>
                ELSE asked' = told /\ UNCHANGED truth
        /\ refused' = UNION {edits[i].items[n].targets : n \in {n \in DOMAIN items : edits[i].items[n].row \in failed}}
  /\ UNCHANGED <<base, tokens>>

Ids(i) == [n \in DOMAIN edits[i].items |-> edits[i].items[n].id]
ItemIds(i) == {edits[i].items[n].id : n \in DOMAIN edits[i].items}
\* coalesce: a repeat of an open edit joins it, unless an edit between them names one of its messages.
Repeats(old, new) ==
  /\ old < new /\ ~edits[old].settled /\ ~edits[new].settled
  /\ edits[old].action = edits[new].action /\ edits[old].one = edits[new].one /\ Ids(old) = Ids(new)
  /\ \A k \in old + 1..new - 1 : ItemIds(k) \cap ItemIds(new) = {}
IntentCoalesce(old, new) ==
  /\ Repeats(old, new)
  /\ edits' = RemoveAt(edits, new)
  /\ asked' = RemoveAt(asked, new)
  /\ LET again == Replayed(base, RemoveAt(edits, new)) IN view' = again.view /\ drifted' = (drifted \/ again.drift)
  /\ refused' = {}
  /\ UNCHANGED <<base, tokens, truth>>

(* reset and clear: the ledger is dropped and the list is loaded from a server that has done nothing of what was
   open; a settlement that comes later is refused. *)
IntentReset ==
  /\ edits # <<>> /\ edits' = <<>> /\ asked' = <<>>
  /\ view' = FreshView(truth) /\ drifted' = FALSE
  /\ refused' = {}
  /\ UNCHANGED <<base, tokens, truth>>

IdLists == {<<x>> : x \in MailIds} \cup {<<r, s>> : r, s \in MailRows}
IntentNext == \/ \E action \in IntentActions, ids \in {c \in IdLists : IsInjective(c)}, one \in BOOLEAN,
                    reader \in {{}, Members(Conversation)} : IntentBegin(action, ids, one, reader)
              \/ \E i \in DOMAIN edits, failed \in SUBSET MailIds : IntentSettle(i, failed)
              \/ \E old, new \in DOMAIN edits : IntentCoalesce(old, new)
              \/ IntentReset


------------------------------------
(* intents.rs:1, a late refusal removes only its own effects: a settlement changes the labels of no message but
   those it was told were refused, in whatever order edits settle.  A replay looks for the row of each edit again: an
   edit of a message whose row was taken off by an edit that is refused later is made over, of a whole conversation. *)
RefusalIsLocal == [][edits' # edits /\ tokens' = tokens /\ Len(edits') = Len(edits) /\ ~drifted' =>
                       \A x \in MailIds : view'.labels[x] # view.labels[x] => x \in refused']_intentVars

(* When the last open edit settles, every message shows what the server has: the base and, on their own targets,
   the edits that were not refused, in the order they were made. *)
ConvergesToServer == edits = <<>> /\ ~drifted => view.labels = truth

(* Model.js:343: joining a repeat to an earlier edit must not turn read, unread, read into read, unread: what is
   shown stays as the last action made it. *)
CoalesceKeepsView == [][Len(edits') < Len(edits) /\ edits' # <<>> => view'.labels = view.labels]_intentVars

------------------------------------
(***************************************************************************)
(* accounts.json (account/storage.rs, with summarize of account/mod.rs):    *)
(* several processes read the registry without a lock and save it under one, *)
(* each naming the revision it started from, which is a digest of the bytes. *)
(***************************************************************************)

CONSTANTS RegWriters,  \* processes that edit the registry
          RegIds,      \* canonical account ids
          MaxSaves     \* bound: saves attempted

ASSUME RegistryBounds == MaxSaves \in Nat /\ "" \notin RegIds /\ "free" \notin RegWriters

VARIABLES
    arFile,    \* the accounts in accounts.json, in order
    arLock,    \* who holds .accounts.lock, or "free"
    arEdit,    \* each process: [pc, from, next, released, drop, answer]
    arSaves,
    arKnown    \* history: the registries each process has read or written

registryVars == <<arFile, arLock, arEdit, arSaves, arKnown>>

NoEdit == [pc |-> "idle", from |-> <<>>, next |-> <<>>, released |-> {}, drop |-> FALSE,
           answer |-> "none"]

RegistryInit ==
    /\ arFile = <<>> /\ arLock = "free" /\ arSaves = 0
    /\ arEdit = [w \in RegWriters |-> NoEdit] /\ arKnown = [w \in RegWriters |-> {}]

\* accounts.read takes no lock: replacement is atomic, so it sees one version.
ReadRegistry(w) ==
    /\ arEdit[w].pc = "idle"
    /\ arEdit' = [arEdit EXCEPT ![w] = [NoEdit EXCEPT !.pc = "edit", !.from = arFile]]
    /\ arKnown' = [arKnown EXCEPT ![w] = @ \cup {arFile}]
    /\ UNCHANGED <<arFile, arLock, arSaves>>

\* The registries a process may ask for: an account added, removed or moved
\* first.  summarize lists an account once, however often it is named.
OnceEach(s) == SelectSeq([i \in DOMAIN s |-> [a |-> s[i], new |-> s[i] \notin {s[j] : j \in 1..i - 1}]],
                         LAMBDA e : e.new)
Edits(from) == {[i \in DOMAIN OnceEach(s) |-> OnceEach(s)[i].a] :
                  s \in {Append(from, a) : a \in RegIds} \cup
                        {SelectSeq(from, LAMBDA x : x # a) : a \in RegIds} \cup
                        {<<a>> \o from : a \in RegIds}}

\* accounts.save, before the lock: a registry of no account is refused.
AskSave(w, next, released, drop) ==
    /\ arEdit[w].pc = "edit" /\ arSaves < MaxSaves /\ arSaves' = arSaves + 1
    /\ next \in Edits(arEdit[w].from)
    /\ arEdit' = [arEdit EXCEPT ![w] =
         IF next = <<>> THEN [@ EXCEPT !.pc = "idle", !.answer = "accounts_setup_replacement"]
         ELSE [@ EXCEPT !.pc = "lock", !.next = next, !.released = released, !.drop = drop]]
    /\ UNCHANGED <<arFile, arLock, arKnown>>

\* The lock is tried once.
TakeLock(w) ==
    /\ arEdit[w].pc = "lock"
    /\ IF arLock = "free"
       THEN arLock' = w /\ arEdit' = [arEdit EXCEPT ![w].pc = "check"]
       ELSE /\ arEdit' = [arEdit EXCEPT ![w].pc = "idle", ![w].answer = "accounts_busy"]
            /\ UNCHANGED arLock
    /\ UNCHANGED <<arFile, arSaves, arKnown>>

\* The file is read again under the lock and its digest compared; then every
\* saved account must survive, be released, or removal be allowed.
SameRevision(w) == arEdit[w].from = arFile
NothingLost(w)  == LET e == arEdit[w] IN
    e.drop \/ ToSet(arFile) \subseteq ToSet(e.next) \cup e.released
CheckSave(w) ==
    /\ arEdit[w].pc = "check"
    /\ LET verdict == IF ~SameRevision(w) THEN "accounts_conflict"
                      ELSE IF ~NothingLost(w) THEN "accounts_unexpected_removal" ELSE "none" IN
       IF verdict = "none"
       THEN arEdit' = [arEdit EXCEPT ![w].pc = "replace"] /\ UNCHANGED arLock
       ELSE /\ arEdit' = [arEdit EXCEPT ![w].pc = "idle", ![w].answer = verdict]
            /\ arLock' = "free"
    /\ UNCHANGED <<arFile, arSaves, arKnown>>

\* atomic_replace: the new bytes or the old ones. The sync of the directory comes
\* after the rename: its error is told of a file that is already the new one.
ReplaceFile(w, renamed, synced) ==
    /\ arEdit[w].pc = "replace" /\ arLock' = "free" /\ (synced => renamed)
    /\ arFile' = IF renamed THEN arEdit[w].next ELSE arFile
    /\ arEdit' = [arEdit EXCEPT ![w].pc = "idle",
                                ![w].answer = IF synced THEN "saved" ELSE "accounts_write_failed"]
    /\ arKnown' = IF synced THEN [arKnown EXCEPT ![w] = @ \cup {arEdit[w].next}] ELSE arKnown
    /\ UNCHANGED arSaves

\* A killed process holds no lock and wrote the whole file or none of it.
KillWriter(w) ==
    /\ arEdit[w].pc # "idle"
    /\ arLock' = IF arLock = w THEN "free" ELSE arLock
    /\ arEdit' = [arEdit EXCEPT ![w] = NoEdit]
    /\ UNCHANGED <<arFile, arSaves, arKnown>>

RegistryNext ==
    \E w \in RegWriters :
      \/ ReadRegistry(w) \/ TakeLock(w) \/ CheckSave(w) \/ KillWriter(w)
      \/ \E renamed, synced \in BOOLEAN : ReplaceFile(w, renamed, synced)
      \/ \E next \in Edits(arEdit[w].from), released \in SUBSET RegIds, drop \in BOOLEAN :
           AskSave(w, next, released, drop)

------------------------------------
\* No account another process saved is ever lost to a write made from an
\* older copy: an account leaves the file only in a save by a process that
\* had read the very registry it replaces, and that released it or was
\* allowed to drop accounts.
NoAccountLost ==
    [][\A a \in ToSet(arFile) \ ToSet(arFile') :
         \E w \in RegWriters : /\ arFile \in arKnown[w]
                               /\ a \in arEdit[w].released \/ arEdit[w].drop]_registryVars
=============================================================================
