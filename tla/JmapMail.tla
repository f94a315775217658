------------------------------ MODULE JmapMail ------------------------------
(***************************************************************************)
(* Reading and changing mail over JMAP (providers/jmap/read.rs,             *)
(* mutation.rs and the action rows of mailbox.rs).  What a listing brings   *)
(* is kept in three caches that later calls answer from; a change goes to   *)
(* the server in chunks, and each chunk may be applied, applied in part,    *)
(* or lost without an answer.                                               *)
(***************************************************************************)
EXTENDS Integers, Sequences, FiniteSets, SequencesExt

CONSTANTS JmapIds,      \* the messages of one account
          JmapThread,   \* message -> its conversation
          SetChunk,     \* maxObjectsInSet
          MaxLists, MaxChanges, MaxForeign \* bounds: listings, own changes, foreign changes

ASSUME JmapMailBounds == SetChunk \in Nat \ {0} /\ {MaxLists, MaxChanges, MaxForeign} \subseteq Nat

VARIABLES
    jmServer,    \* message -> [box, version]: what the server holds
    jmCache,     \* summaries: message -> the version a listing brought (0: none)
    jmMembership,\* memberships: message -> the mailbox a listing brought ("none")
    jmList,      \* the listing under way: what its reply said, or NoReply
    jmChange,    \* the change under way
    jmLast,      \* the version each message had when a change was last reported done
    jmCount      \* [lists, changes, foreign]: bounds

jmapMailVars == <<jmServer, jmCache, jmMembership, jmList, jmChange, jmLast, jmCount>>

NoReply == [at |-> "none"]
NoChange == [at |-> "none"]

JmapMailInit ==
    /\ jmServer \in [JmapIds -> [box : {"inbox", "sent"}, version : {1}]]
    /\ jmCache = [m \in JmapIds |-> 0] /\ jmMembership = [m \in JmapIds |-> "none"]
    /\ jmList = NoReply /\ jmChange = NoChange
    /\ jmLast = [m \in JmapIds |-> 0]
    /\ jmCount = [lists |-> 0, changes |-> 0, foreign |-> 0]

Bump(server, ids, box) ==
    [m \in JmapIds |-> IF m \in ids THEN [box |-> box, version |-> server[m].version + 1] ELSE server[m]]

\* Another client files a message elsewhere.
ForeignChange(m, box) ==
    /\ jmCount.foreign < MaxForeign /\ jmServer[m].box # box
    /\ jmServer' = Bump(jmServer, {m}, box)
    /\ jmCount' = [jmCount EXCEPT !.foreign = @ + 1]
    /\ UNCHANGED <<jmCache, jmMembership, jmList, jmChange, jmLast>>

------------------------------------
(* Listing *)

\* list: the chained reply arrives; the caches are filled only once the
\* follow-up reads have answered as well.
ListReply ==
    /\ jmCount.lists < MaxLists /\ jmList = NoReply
    /\ jmList' = [at |-> "replied", rows |-> jmServer, dirty |-> FALSE]
    /\ jmCount' = [jmCount EXCEPT !.lists = @ + 1]
    /\ UNCHANGED <<jmServer, jmCache, jmMembership, jmChange, jmLast>>
\* Cache: a row over the whole allowance is not taken and leaves the old one; a
\* full cache is emptied before the next row goes in, so the rows before are gone.
Inserted(new, others) == {c \in [JmapIds -> UNION ({{new[m]} \cup others[m] : m \in JmapIds})] :
                             \A m \in JmapIds : c[m] \in {new[m]} \cup others[m]}
ListStore ==
    /\ jmList.at = "replied"
    /\ jmCache' \in Inserted([m \in JmapIds |-> jmList.rows[m].version], [m \in JmapIds |-> {0, jmCache[m]}])
    /\ jmMembership' \in Inserted([m \in JmapIds |-> jmList.rows[m].box], [m \in JmapIds |-> {"none"}])
    \* A listing that was read before a change ended brings the old rows back.
    /\ jmLast' = IF jmList.dirty THEN [m \in JmapIds |-> 0] ELSE jmLast
    /\ jmList' = NoReply
    /\ UNCHANGED <<jmServer, jmChange, jmCount>>
ListFails == /\ jmList.at = "replied" /\ jmList' = NoReply
             /\ UNCHANGED <<jmServer, jmCache, jmMembership, jmChange, jmLast, jmCount>>

\* messages: a row is answered from the summaries, or read now.
Messages == [m \in JmapIds |-> IF jmCache[m] # 0 THEN jmCache[m] ELSE jmServer[m].version]

------------------------------------
(* Changing *)

\* applies_to_action: unknown membership excludes nothing; mail outside the
\* inbox is not archived, sent mail is not junk.
Applies(action, box) ==
    \/ box = "none"
    \/ action = "archive" /\ box = "inbox"
    \/ action = "trash"

\* thread_member_visible, with the Inbox viewed.
Visible(box) == box # "trash"

\* patch for the desktop: only a change of several messages is filtered, and
\* by the memberships some earlier listing brought.
DesktopTargets(ids, action) ==
    IF Cardinality(ids) > 1 THEN {m \in ids : Applies(action, jmMembership[m])} ELSE ids

\* action_rows: the conversations of the chosen messages, read from the server
\* now; an incomplete reply is refused (mail_action_target_unknown).
AllMembers(ids, action) == {m \in JmapIds : \E r \in ids : JmapThread[m] = JmapThread[r]}
PlannedTargets(ids, action) ==
    {m \in AllMembers(ids, action) : Visible(jmServer[m].box) /\ Applies(action, jmServer[m].box)}

Box(action) == IF action = "archive" THEN "archive" ELSE "trash"
StartChange(kind, ids, action) ==
    LET targets == IF kind = "planned" THEN PlannedTargets(ids, action) ELSE DesktopTargets(ids, action)
    IN /\ jmChange = NoChange /\ jmCount.changes < MaxChanges /\ ids # {}
       /\ jmCount' = [jmCount EXCEPT !.changes = @ + 1]
       /\ jmChange' = [at |-> "sending", kind |-> kind, action |-> action,
                       left |-> targets, done |-> {}, all |-> targets, seen |-> jmServer]
       /\ UNCHANGED <<jmServer, jmCache, jmMembership, jmList, jmLast>>

Chunk(ids) == {c \in SUBSET ids : Cardinality(c) = IF Cardinality(ids) < SetChunk
                                                   THEN Cardinality(ids) ELSE SetChunk}

\* Email/set of one chunk: the server applies a part of it and says which.
JmapSendChunk ==
    /\ jmChange.at = "sending" /\ jmChange.left # {}
    /\ \E c \in Chunk(jmChange.left) : \E applied \in SUBSET c :
         /\ jmServer' = Bump(jmServer, applied, Box(jmChange.action))
         /\ \/ jmChange.kind = "planned"
               /\ jmChange' = [jmChange EXCEPT !.left = @ \ c, !.done = @ \cup applied]
            \/ /\ jmChange.kind = "desktop" /\ applied = c
               /\ jmChange' = [jmChange EXCEPT !.left = @ \ c, !.done = @ \cup applied]
            \/ /\ jmChange.kind = "desktop" /\ applied # c \* jmap_update_failed
               /\ jmChange' = [jmChange EXCEPT !.at = "failed"]
    /\ UNCHANGED <<jmCache, jmMembership, jmList, jmLast, jmCount>>

\* No answer: what the chunk did is unknown.  The planned form keeps what was
\* acknowledged and reports the rest as failed; the desktop one just fails.
LoseChunk ==
    /\ jmChange.at = "sending" /\ jmChange.left # {}
    /\ \E c \in Chunk(jmChange.left) : \E applied \in SUBSET c :
         /\ jmServer' = Bump(jmServer, applied, Box(jmChange.action))
         /\ jmChange' = [jmChange EXCEPT !.at = IF jmChange.kind = "planned" THEN "cut" ELSE "failed"]
    /\ UNCHANGED <<jmCache, jmMembership, jmList, jmLast, jmCount>>

\* The end: a success, whole or partial, empties the summaries (and blocks).
KeepsAll(cache, done) == cache
Cleared(cache, done) == IF done # {} THEN [m \in JmapIds |-> 0] ELSE cache
EndChange ==
    /\ jmChange.at = "cut" \/ (jmChange.at = "sending" /\ jmChange.left = {})
    /\ jmCache' = IF jmChange.kind = "desktop" THEN [m \in JmapIds |-> 0]
                  ELSE Cleared(jmCache, jmChange.done)
    /\ jmLast' = [m \in JmapIds |-> IF m \in jmChange.done THEN jmServer[m].version ELSE jmLast[m]]
    /\ jmList' = IF jmList = NoReply THEN jmList ELSE [jmList EXCEPT !.dirty = TRUE]
    /\ jmChange' = [jmChange EXCEPT !.at = "told"]
    /\ UNCHANGED <<jmServer, jmMembership, jmCount>>
FailChange == /\ jmChange.at = "failed" /\ jmChange' = NoChange
              /\ UNCHANGED <<jmServer, jmCache, jmMembership, jmList, jmLast, jmCount>>
Tell == /\ jmChange.at = "told" /\ jmChange' = NoChange
        /\ UNCHANGED <<jmServer, jmCache, jmMembership, jmList, jmLast, jmCount>>

JmapMailNext ==
    \/ \E m \in JmapIds : ForeignChange(m, "trash")
    \/ ListReply \/ ListStore \/ ListFails
    \/ \E k \in {"desktop", "planned"}, ids \in SUBSET JmapIds, a \in {"archive", "trash"} :
          StartChange(k, ids, a)
    \/ JmapSendChunk \/ LoseChunk \/ EndChange \/ FailChange \/ Tell
JmapMailSpec == JmapMailInit /\ [][JmapMailNext]_jmapMailVars

------------------------------------
\* What the server confirmed is what is reported done; a planned change
\* reaches no member that was out of view or the action does not concern; and
\* a row changed and reported done is not shown from before the change,
\* unless the listing that brought it overlapped the change.
JmapChangeIsTrue ==
    /\ jmChange.at = "told" => \A m \in jmChange.done : jmServer[m].version > jmChange.seen[m].version
    /\ jmChange.at # "none" /\ jmChange.kind = "planned" =>
          \A m \in jmChange.all : /\ jmChange.seen[m].box # "trash"
                                  /\ jmChange.action = "archive" => jmChange.seen[m].box = "inbox"
    /\ \A m \in JmapIds : Messages[m] >= jmLast[m]

------------------------------------
(***************************************************************************)
(* Paging through a JMAP mailbox while the server's list changes            *)
(* (providers/jmap/query.rs; the query half of read.rs: list).  A page      *)
(* token holds a position and the last row; the next page is anchored on    *)
(* that row, and falls back to the position only when the row is gone.      *)
(***************************************************************************)

CONSTANTS PageSize,   \* maxResults
          Arrivals,   \* bound: messages that arrive while paging
          Removals    \* bound: messages that leave while paging

ASSUME PageBounds == PageSize \in Nat \ {0} /\ {Arrivals, Removals} \subseteq Nat

VARIABLES
    jpList,   \* the server's list, newest first; a message is its arrival number
    jpSeen,   \* rows listed so far, in order
    jpToken,  \* [position, anchor], or NoPage when there is no next page
    jpMoved,  \* a page was asked for by position: its anchor was gone
    jpCount   \* [arrived, removed]

pagesVars == <<jpList, jpSeen, jpToken, jpMoved, jpCount>>
NoPage == [position |-> -1, anchor |-> 0]

PagesInit ==
    /\ jpList \in {<<4, 3, 2, 1>>, <<3, 2, 1>>}
    /\ jpSeen = <<>> /\ jpToken = [position |-> 0, anchor |-> 0]
    /\ jpMoved = FALSE /\ jpCount = [arrived |-> 0, removed |-> 0]

MailArrives ==
    /\ jpCount.arrived < Arrivals
    /\ jpList' = <<5 + jpCount.arrived>> \o jpList
    /\ jpCount' = [jpCount EXCEPT !.arrived = @ + 1]
    /\ UNCHANGED <<jpSeen, jpToken, jpMoved>>
MailLeaves(i) ==
    /\ jpCount.removed < Removals /\ jpList' = RemoveAt(jpList, i)
    /\ jpCount' = [jpCount EXCEPT !.removed = @ + 1]
    /\ UNCHANGED <<jpSeen, jpToken, jpMoved>>

\* query: where the page begins (0-based), by anchor or by position.
StartOf(token) ==
    IF token.anchor \in ToSet(jpList)
    THEN CHOOSE i \in 1..Len(jpList) : jpList[i] = token.anchor
    ELSE token.position
PageAt(start) == SubSeq(jpList, start + 1, IF start + PageSize < Len(jpList) THEN start + PageSize ELSE Len(jpList))

\* page: the next token, while the total says there is more.
NextToken(start, rows) ==
    IF rows # <<>> /\ start + Len(rows) < Len(jpList)
    THEN [position |-> start + Len(rows), anchor |-> Last(rows)] ELSE NoPage

NextJmapPage ==
    /\ jpToken # NoPage
    /\ LET start == StartOf(jpToken)
           rows  == PageAt(start)
       IN /\ jpSeen' = jpSeen \o rows
          /\ jpToken' = NextToken(start, rows)
          /\ jpMoved' = (jpMoved \/ (jpToken.anchor # 0 /\ jpToken.anchor \notin ToSet(jpList)))
    /\ UNCHANGED <<jpList, jpCount>>

PagesNext == MailArrives \/ (\E i \in DOMAIN jpList : MailLeaves(i)) \/ NextJmapPage
PagesSpec == PagesInit /\ [][PagesNext]_pagesVars

\* Mail that arrives or leaves between two pages makes no row appear twice and
\* hides none that was there all along, as long as each page's anchor stayed.
PagesAreWhole ==
    ~jpMoved =>
       /\ \A i, j \in DOMAIN jpSeen : jpSeen[i] = jpSeen[j] => i = j
       /\ jpToken = NoPage => \A m \in ToSet(jpList) : m < 5 => m \in ToSet(jpSeen)
=============================================================================
