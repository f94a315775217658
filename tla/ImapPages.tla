------------------------------ MODULE ImapPages ------------------------------
(***************************************************************************)
(* A page of an IMAP folder and the summaries of its rows                   *)
(* (providers/imap/read.rs: list, page, messages, parse_messages).  A       *)
(* search shows the newest window of UIDs first and hands back a            *)
(* continuation; the summaries come in small batches, a folder at a time.   *)
(* Mail arrives and is expunged between any two commands.                   *)
(***************************************************************************)
EXTENDS Integers, Sequences, FiniteSets, SequencesExt, FiniteSetsExt, Ranks

CONSTANTS Window,        \* 4096 UIDs of a search
          PageLimit,     \* rows of a page
          BatchSize,     \* 10 ids of a progressive read
          FirstUids,     \* the UIDs of the folder at first
          Matching,      \* the UIDs that meet the criteria
          MaxUid,        \* bound: the highest UID that arrives
          MaxExpunged    \* bound on expunges

ASSUME PageAssumption == /\ {Window, PageLimit, BatchSize} \subseteq Nat \ {0} /\ {MaxUid, MaxExpunged} \subseteq Nat
                         /\ FirstUids \cup Matching \subseteq 1..MaxUid

VARIABLES
    ipUids,      \* the folder
    ipGone,      \* UIDs expunged
    ipCall,      \* the listing: its step, the UIDs found, the ceiling of the token, what is left to scan
    ipPartial,   \* the rows of the page given with a continuation
    ipPage,      \* the rows of the last page, whether it is settled and its warning
    ipRead       \* the summaries: the ids asked for, the offset, the batch at work and the rows so far
pageVars == <<ipUids, ipGone, ipCall, ipPartial, ipPage, ipRead>>

NoListing == [at |-> "idle", found |-> {}, ceiling |-> MaxUid, left |-> {}, since |-> {}]
NoImapPage == [rows |-> <<>>, settled |-> FALSE, warning |-> FALSE, since |-> {}]
NoRead == [at |-> "idle", ids |-> <<>>, offset |-> 0, got |-> {}, rows |-> <<>>, warning |-> FALSE]
ImapPagesInit == /\ ipUids = FirstUids /\ ipGone = {} /\ ipCall = NoListing
                 /\ ipPartial = <<>> /\ ipPage = NoImapPage /\ ipRead = NoRead

MessageArrives(u) == /\ u > Max({0} \cup ipUids \cup ipGone) /\ u = Max({0} \cup ipUids \cup ipGone) + 1
                     /\ ipUids' = ipUids \cup {u}
                     /\ UNCHANGED <<ipGone, ipCall, ipPartial, ipPage, ipRead>>
MessageExpunged(u) == /\ Cardinality(ipGone) < MaxExpunged /\ u \in ipUids
                      /\ ipUids' = ipUids \ {u} /\ ipGone' = ipGone \cup {u}
                      /\ UNCHANGED <<ipCall, ipPartial, ipPage, ipRead>>

------------------------------------
\* page: the newest rows of what was found.
ImapRowsFor(found) == LET all == Falling(found) IN SubSeq(all, 1, IF Len(all) < PageLimit THEN Len(all) ELSE PageLimit)
\* search_uids, fetched_uids: what the server answers, in UID order and once each.
Search(first, last) == ipUids \cap Matching \cap first..last

(* list without a continuation: a progressive search reads the highest UID directly.  A folder without mail refuses
   and is scanned, as is one listed whole. *)
StartList(progressive) ==
          /\ ipCall.at = "idle"
          /\ ipCall' = [NoListing EXCEPT !.at = IF ipUids = {} \/ ~progressive THEN "scan" ELSE "window",
                                      !.ceiling = MaxUid, !.left = ipUids, !.since = ipUids]
          /\ ipPartial' = <<>> /\ ipPage' = NoImapPage
          /\ UNCHANGED <<ipUids, ipGone, ipRead>>
\* The newest window: a full page, or no older UID, settles the page; otherwise the token holds what was found.
FirstOf(top) == IF top > Window THEN top - Window + 1 ELSE 1
Ceiling(first) == first - 1
AskWindow ==
    /\ ipCall.at = "window"
    /\ LET first == FirstOf(Max(ipCall.left))
           found == Search(first, Max(ipCall.left))
           done  == Len(ImapRowsFor(found)) >= PageLimit \/ first = 1
       IN /\ ipCall' = IF done THEN NoListing
                       ELSE [ipCall EXCEPT !.at = "token", !.found = found, !.ceiling = Ceiling(first), !.left = {}]
          /\ ipPartial' = IF done THEN <<>> ELSE ImapRowsFor(found)
          /\ ipPage' = [NoImapPage EXCEPT !.rows = ImapRowsFor(found), !.settled = done, !.since = ipCall.since]
    /\ UNCHANGED <<ipUids, ipGone, ipRead>>
\* list with the token: a snapshot of the UIDs under the ceiling, and its windows from the newest to the oldest.
Resume == /\ ipCall.at = "token" /\ ipCall' = [ipCall EXCEPT !.at = "scan"]
          /\ UNCHANGED <<ipUids, ipGone, ipPartial, ipPage, ipRead>>
UidSnapshot == {u \in ipUids : u <= ipCall.ceiling}
TakeSnapshot == /\ ipCall.at = "scan"
                /\ ipCall' = [ipCall EXCEPT !.at = "chunks", !.left = UidSnapshot]
                /\ UNCHANGED <<ipUids, ipGone, ipPartial, ipPage, ipRead>>
\* snapshot.chunks(4096).rev(): a chunk counts UIDs from the oldest, so the newest one may be short.
LastChunk(left) == LET before(u) == Cardinality({v \in left : v < u})
                   IN {u \in left : before(u) >= ((Cardinality(left) - 1) \div Window) * Window}
ScanChunk ==
    /\ ipCall.at = "chunks" /\ ipCall.left # {}
    /\ LET chunk == LastChunk(ipCall.left)
       IN ipCall' = [ipCall EXCEPT !.found = @ \cup Search(Min(chunk), Max(chunk)), !.left = @ \ chunk]
    /\ UNCHANGED <<ipUids, ipGone, ipPartial, ipPage, ipRead>>
\* The page; a scan that fails keeps the rows of the token and drops those it found itself.
SettlePage(rows, warning) == /\ ipPage' = [rows |-> rows, settled |-> TRUE, warning |-> warning, since |-> ipCall.since]
                         /\ ipCall' = NoListing
                         /\ UNCHANGED <<ipUids, ipGone, ipPartial, ipRead>>
ScanEnds  == ipCall.at = "chunks" /\ ipCall.left = {} /\ SettlePage(ImapRowsFor(ipCall.found), FALSE)
ScanFails == ipCall.at \in {"scan", "chunks"} /\ ipPartial # <<>> /\ SettlePage(ipPartial, TRUE)

------------------------------------
(* messages: the batch of the ids at the offset, a request per folder and at most four at once.  Each request answers
   for itself; here every id is its own request, so that any of them may fail. *)
StartSummaries ==
    /\ ipRead.at = "idle" /\ ipPage.settled /\ ipPage.rows # <<>>
    /\ ipRead' = [NoRead EXCEPT !.at = "batch", !.ids = ipPage.rows]
    /\ UNCHANGED <<ipUids, ipGone, ipCall, ipPartial, ipPage>>
BatchEnd == IF ipRead.offset + BatchSize < Len(ipRead.ids) THEN ipRead.offset + BatchSize ELSE Len(ipRead.ids)
Batch == ToSet(SubSeq(ipRead.ids, ipRead.offset + 1, BatchEnd))
\* parse_messages: a row for every UID that the server answered with; one it does not know leaves none.
Parsed(asked) == asked \cap ipUids
FetchAnswers(ok) ==
    /\ ipRead.at = "batch"
    /\ ipRead' = [ipRead EXCEPT !.at = "ordered", !.warning = ~ok,
                                !.got = IF ok THEN Parsed(Batch) ELSE {}]
    /\ UNCHANGED <<ipUids, ipGone, ipCall, ipPartial, ipPage>>
\* The rows in the order they were asked for, and the token of the next batch unless something failed.
Ordered(got) == LET kept == Rising({k \in ipRead.offset + 1..BatchEnd : ipRead.ids[k] \in got})
                IN [n \in DOMAIN kept |-> ipRead.ids[kept[n]]]
NextOffset == BatchEnd
GiveBatch ==
    /\ ipRead.at = "ordered"
    /\ ipRead' = [ipRead EXCEPT !.rows = @ \o Ordered(ipRead.got), !.got = {}, !.offset = NextOffset,
                                !.at = IF BatchEnd < Len(ipRead.ids) /\ ~ipRead.warning THEN "batch" ELSE "over"]
    /\ UNCHANGED <<ipUids, ipGone, ipCall, ipPartial, ipPage>>

ImapPagesNext ==
    \/ \E u \in 1..MaxUid : MessageArrives(u) \/ MessageExpunged(u)
    \/ (\E progressive \in BOOLEAN : StartList(progressive)) \/ AskWindow \/ Resume \/ TakeSnapshot \/ ScanChunk \/ ScanEnds \/ ScanFails
    \/ StartSummaries \/ (\E ok \in BOOLEAN : FetchAnswers(ok)) \/ GiveBatch

------------------------------------
(* What a reader of an IMAP folder sees, in three parts. *)
\* SPEC.md: the prefix a search has shown is final.  The rows of the page that completes a continuation begin
\* with the rows already shown, whatever arrived or was expunged in between.
PrefixIsFinal == ipPage.settled => IsPrefix(ipPartial, ipPage.rows)
(* No match is skipped: a message that was in the folder for the whole listing and is not older than the last row
   of a settled page is on it, and a page that is not full holds every such message. *)
NoMatchSkipped ==
    ipPage.settled /\ ~ipPage.warning =>
        \A u \in (ipPage.since \cap Matching) \ ipGone :
            \/ u \in ToSet(ipPage.rows)
            \/ Len(ipPage.rows) >= PageLimit /\ u < Last(ipPage.rows)
(* Batches put together are the rows asked for, in their order, without a repeat; those missing were expunged or
   follow a failure. *)
SummariesInOrder ==
    LET rows == ipRead.rows
        ids  == ipRead.ids
    IN /\ \A n \in DOMAIN rows : \E k \in 1..ipRead.offset : rows[n] = ids[k]
       /\ \A m, n \in DOMAIN rows, k, l \in 1..ipRead.offset : m < n /\ rows[m] = ids[k] /\ rows[n] = ids[l] => k < l
       /\ ipRead.at = "over" /\ ~ipRead.warning => ToSet(ids) \subseteq ToSet(rows) \cup ipGone
ImapPagesSpec == ImapPagesInit /\ [][ImapPagesNext]_pageVars
ImapPagesWhole == PrefixIsFinal /\ NoMatchSkipped /\ SummariesInOrder
=============================================================================
