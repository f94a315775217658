-------------------------- MODULE ImapConnections --------------------------
(***************************************************************************)
(* What the requests of an IMAP account share (providers/imap/mod.rs and   *)
(* read.rs): the pool of signed-in connections and the cache of the        *)
(* account's folders.  Every command carries the same tag, so only the     *)
(* order of the answers on a connection tells whose they are.              *)
(***************************************************************************)
EXTENDS Integers, Sequences, FiniteSets, SequencesExt, FiniteSetsExt

CONSTANTS ImapRequests,   \* requests of one account, numbered in the order they are made
          MaxWires,       \* bound on the connections ever made
          PoolCap,        \* pool.len() < 32
          CacheCap,       \* cache.len() >= 32
          ServerGarbles   \* whether the server may break the protocol in an answer

ASSUME ImapAssumption == {MaxWires, PoolCap, CacheCap} \subseteq Nat \ {0} /\ ServerGarbles \in BOOLEAN /\ ImapRequests \subseteq Nat

VARIABLES
    icWires,    \* the connections: "open" or "dead", and the answers on their way to nobody
    icPool,     \* the idle ones
    icCalls,    \* request -> kind, step, connection, the epoch it read, the folders it holds
    icFolders,  \* the version of the folders on the server
    icEpoch, icCache,
    icTold,     \* the newest version a folder command was answered for
    icCrossed   \* a request took another one's answer for its own
imapVars == <<icWires, icPool, icCalls, icFolders, icEpoch, icCache, icTold, icCrossed>>
folderVars == <<icFolders, icEpoch, icCache, icTold>>

ImapKinds == {"list", "folders", "change", "draft"}
NoImapCall == [kind |-> "list", at |-> "idle", wire |-> 0, epoch |-> 0, boxes |-> 0]
ImapInit == /\ icWires = <<>> /\ icPool = {} /\ icFolders = 1 /\ icEpoch = 0 /\ icCache = <<>>
            /\ icTold = 1 /\ icCrossed = FALSE
            /\ icCalls = [r \in ImapRequests |-> NoImapCall]

Move(r, at) == icCalls' = [icCalls EXCEPT ![r].at = at]
Over(r) == icCalls' = [icCalls EXCEPT ![r].at = "over", ![r].wire = 0]

\* connect and login: TLS from the start or after STARTTLS, and the credentials; then nothing is on its way.
NewWire == [open |-> TRUE, unread |-> 0]
(* acquire: an idle connection of the account, or a new one after TLS, the login, CAPABILITY and ID. *)
AcquireWire(r, kind) ==
    /\ icCalls[r].at = "idle" /\ \A q \in ImapRequests : q < r => icCalls[q].at # "idle"
    /\ \/ \E w \in icPool : /\ icPool' = icPool \ {w} /\ UNCHANGED icWires
                            /\ icCalls' = [icCalls EXCEPT ![r] = [@ EXCEPT !.kind = kind, !.at = "look", !.wire = w]]
       \/ /\ icPool = {} /\ Len(icWires) < MaxWires /\ UNCHANGED icPool
          /\ icWires' = Append(icWires, NewWire)
          /\ icCalls' = [icCalls EXCEPT ![r] = [@ EXCEPT !.kind = kind, !.at = "look", !.wire = Len(icWires) + 1]]
    /\ UNCHANGED <<folderVars, icCrossed>>

\* 45 seconds idle, or the server hangs up on an idle connection.
WireExpires(w) ==
    /\ w \in icPool
    /\ \/ icPool' = icPool \ {w} /\ UNCHANGED icWires
       \/ icWires[w].open /\ icWires' = [icWires EXCEPT ![w].open = FALSE] /\ UNCHANGED icPool
    /\ UNCHANGED <<icCalls, folderVars, icCrossed>>

\* release
Release(w) == icPool' = IF Cardinality(icPool) < PoolCap THEN icPool \cup {w} ELSE icPool

(* A command and its answer: the request reads the first answer on the connection.  A refusal leaves the
   connection in order; a broken answer, a hang-up and a deadline do not, and the request gives it up. *)
WireAnswered(r) ==
    LET w == icCalls[r].wire IN
    /\ icWires[w].open
    /\ icCrossed' = (icCrossed \/ icWires[w].unread > 0)
PutBack(r) == Release(icCalls[r].wire)
GiveUpWire(r)  == icPool' = icPool
CallFails(r) ==
    /\ icCalls[r].at \in {"look", "listing", "store", "command", "scan", "answered"}
    /\ \E left \in {0, 1} : icWires' = [icWires EXCEPT ![icCalls[r].wire] =
                                          [open |-> icWires[icCalls[r].wire].open, unread |-> @.unread + left]]
    /\ GiveUpWire(r) /\ Over(r)
    /\ UNCHANGED <<folderVars, icCrossed>>

(* mailboxes: the first cached folders of the account, unless a refresh is asked for; else the epoch is read,
   CAPABILITY and LIST go out, and what comes back is kept when no folder has changed meanwhile. *)
AfterFolders(kind) == CASE kind = "list" -> "scan" [] kind = "folders" -> "done" [] kind = "draft" -> "command"
LookUp(r) ==
    /\ icCalls[r].at = "look"
    /\ \/ icCalls[r].kind = "change" /\ Move(r, "command")
       \/ /\ icCalls[r].kind # "change" /\ icCache # <<>>
          /\ icCalls' = [icCalls EXCEPT ![r].at = AfterFolders(icCalls[r].kind), ![r].boxes = Head(icCache)]
       \/ /\ icCalls[r].kind = "folders" \/ (icCalls[r].kind # "change" /\ icCache = <<>>)
          /\ icCalls' = [icCalls EXCEPT ![r].at = "listing", ![r].epoch = icEpoch]
    /\ UNCHANGED <<icWires, icPool, folderVars, icCrossed>>
ListFolders(r) ==
    /\ icCalls[r].at = "listing" /\ WireAnswered(r)
    /\ icCalls' = [icCalls EXCEPT ![r].at = "store", ![r].boxes = icFolders]
    /\ UNCHANGED <<icWires, icPool, folderVars>>
SameEpoch(r) == icCalls[r].epoch = icEpoch
StoreFolders(r) ==
    /\ icCalls[r].at = "store"
    /\ LET kept == IF Len(icCache) >= CacheCap THEN Tail(icCache) ELSE icCache
       IN icCache' = IF SameEpoch(r) THEN Append(kept, icCalls[r].boxes) ELSE kept
    /\ Move(r, AfterFolders(icCalls[r].kind))
    /\ UNCHANGED <<icWires, icPool, icFolders, icEpoch, icTold, icCrossed>>
\* Cached folders live 60 seconds.
FoldersExpire == /\ icCache # <<>> /\ icCache' = Tail(icCache)
                 /\ UNCHANGED <<icWires, icPool, icCalls, icFolders, icEpoch, icTold, icCrossed>>

(* CREATE, RENAME or DELETE: the server changes before its answer arrives; invalidate moves the epoch and then
   empties the cache. *)
FolderChanges(r) ==
    /\ icCalls[r].kind = "change" /\ icCalls[r].at = "command" /\ icWires[icCalls[r].wire].open
    /\ icFolders' = icFolders + 1
    /\ icCalls' = [icCalls EXCEPT ![r].at = "answered", ![r].boxes = icFolders + 1]
    /\ UNCHANGED <<icWires, icPool, icEpoch, icCache, icTold, icCrossed>>
ChangeAnswered(r) ==
    /\ icCalls[r].at = "answered" /\ WireAnswered(r)
    /\ icEpoch' = icEpoch + 1 /\ Move(r, "clear")
    /\ UNCHANGED <<icWires, icPool, icFolders, icCache, icTold>>
ChangeClears(r) ==
    /\ icCalls[r].at = "clear"
    /\ icCache' = <<>> /\ Move(r, "done")
    /\ icTold' = IF icCalls[r].boxes > icTold THEN icCalls[r].boxes ELSE icTold
    /\ UNCHANGED <<icWires, icPool, icFolders, icEpoch, icCrossed>>

(* The scan of a listing: whole, or a partial page with a warning, after which the connection is given up. *)
Scanned(r) ==
    /\ icCalls[r].at = "scan" /\ WireAnswered(r)
    /\ Move(r, "done") /\ UNCHANGED <<icWires, icPool, folderVars>>
Warned(r) ==
    /\ icCalls[r].at = "scan"
    /\ \E left \in {0, 1} : icWires' = [icWires EXCEPT ![icCalls[r].wire].unread = @ + left]
    /\ GiveUpWire(r) /\ Over(r)
    /\ UNCHANGED <<folderVars, icCrossed>>

(* A draft is appended, then its old copy removed; a removal that fails becomes a warning and the connection is
   kept, whatever the failure left on it. *)
DraftAppended(r) ==
    /\ icCalls[r].kind = "draft" /\ icCalls[r].at = "command" /\ WireAnswered(r)
    /\ \/ icWires' = icWires
       \/ icWires' = [icWires EXCEPT ![icCalls[r].wire].open = FALSE]
       \/ ServerGarbles /\ icWires' = [icWires EXCEPT ![icCalls[r].wire].unread = 1]
    /\ Move(r, "done")
    /\ UNCHANGED <<icPool, folderVars>>

Finish(r) == /\ icCalls[r].at = "done" /\ Release(icCalls[r].wire) /\ Over(r)
             /\ UNCHANGED <<icWires, folderVars, icCrossed>>

ImapNext == \/ \E r \in ImapRequests :
                 \/ \E kind \in ImapKinds : AcquireWire(r, kind)
                 \/ LookUp(r) \/ ListFolders(r) \/ StoreFolders(r) \/ CallFails(r) \/ Scanned(r) \/ Warned(r)
                 \/ FolderChanges(r) \/ ChangeAnswered(r) \/ ChangeClears(r) \/ DraftAppended(r) \/ Finish(r)
            \/ \E w \in DOMAIN icWires : WireExpires(w)
            \/ FoldersExpire
ImapSpec == ImapInit /\ [][ImapNext]_imapVars

------------------------------------
(* No request reads the answer of another one: a connection goes back to the pool only when everything that was
   asked on it has been answered.  (A server that breaks the protocol while an old draft is removed can undo it.) *)
AnswersAreOwn == ~icCrossed

(* Once a folder command has been answered, no listing from before it is in the cache, although a listing
   may be under way while the command runs. *)
FoldersAreFresh == \A i \in DOMAIN icCache : icCache[i] >= icTold

------------------------------------
(***************************************************************************)
(* Cancelling the IMAP reads of one request token                          *)
(* (providers/imap/cancel.rs).  Reads that carry a token share an entry of *)
(* a map; imap.cancel marks the entry of the token and wakes its reads.    *)
(* An entry nobody uses is swept 60 seconds after it was made.             *)
(***************************************************************************)

CONSTANTS CancelReads,     \* the reads that carry the token, each made once
          CancelCap,      \* bound on the entries ever made
          ReadDeadline,        \* 22 seconds, the longest a read runs
          KeepFor,         \* 60 seconds
          QueuedFor,       \* the longest a continuation waits in the backend before it begins
          MaxNow           \* bound on the clock

ASSUME CancelAssumption == {CancelCap, ReadDeadline, KeepFor, QueuedFor, MaxNow} \subseteq Nat

VARIABLES
    icNow,      \* the clock
    icMap,      \* the entry of the token in READS, 0: none
    icEntries,  \* entry -> when it was made and whether it is aborted
    icReads,    \* read -> its step, its entry, when it was asked and when it began
    icCancels,  \* when imap.cancel was answered, 0: not yet
    icRevived   \* the reads asked after that which nevertheless gave a page
cancelVars == <<icNow, icMap, icEntries, icReads, icCancels, icRevived>>

IdleRead == [at |-> "idle", entry |-> 0, from |-> 0]
CancelInit == /\ icNow = 1 /\ icMap = 0 /\ icCancels = 0 /\ icRevived = {}
              /\ icEntries = [e \in 1..CancelCap |-> [made |-> 0, aborted |-> FALSE]]
              /\ icReads = [r \in CancelReads |-> IdleRead]

Users(e) == {r \in CancelReads : icReads[r].at \in {"working", "ended"} /\ icReads[r].entry = e}
\* entry: what nobody uses and is old goes; the entry of the token is found or made.
KeptEntry == icMap # 0 /\ (Users(icMap) # {} \/ icNow - icEntries[icMap].made < KeepFor)
NextEntry == Cardinality({e \in 1..CancelCap : icEntries[e].made # 0}) + 1
CancelEntry(e) == /\ icMap' = e
            /\ IF KeptEntry THEN e = icMap ELSE e = NextEntry /\ e <= CancelCap
EntriesWith(e, aborted) ==
    icEntries' = [icEntries EXCEPT ![e].made = IF KeptEntry THEN @ ELSE icNow, ![e].aborted = @ \/ aborted]

CancelToken ==
    /\ icCancels = 0
    /\ \E e \in 1..CancelCap : CancelEntry(e) /\ EntriesWith(e, TRUE)
    /\ icCancels' = icNow
    /\ UNCHANGED <<icNow, icReads, icRevived>>

\* run: the waker is registered before the flag is looked at.
StartCancelRead(r) ==
    /\ icReads[r].at = "idle"
    /\ \E e \in 1..CancelCap :
         /\ CancelEntry(e) /\ EntriesWith(e, FALSE)
         /\ icReads' = [icReads EXCEPT ![r] =
              [at |-> IF KeptEntry /\ icEntries[e].aborted THEN "refused" ELSE "working", entry |-> e, from |-> icNow]]
    /\ UNCHANGED <<icNow, icCancels, icRevived>>

\* The work ends or its 22 seconds do; a cancellation that came first may win or lose against an answer.
ReadEnds(r) ==
    /\ icReads[r].at = "working"
    /\ icReads' = [icReads EXCEPT ![r].at = "ended"]
    /\ \/ icRevived' = IF icCancels # 0 /\ icReads[r].from > icCancels THEN icRevived \cup {r} ELSE icRevived
       \/ icEntries[icReads[r].entry].aborted /\ UNCHANGED icRevived
    /\ UNCHANGED <<icNow, icMap, icEntries, icCancels>>

\* The last user of an entry that was not aborted takes it out of the map.
RemovesIdle(r) == Users(icReads[r].entry) = {r} /\ icMap = icReads[r].entry
Removes(r) == RemovesIdle(r) /\ ~icEntries[icReads[r].entry].aborted
LeaveRead(r) ==
    /\ icReads[r].at = "ended"
    /\ icMap' = IF Removes(r) THEN 0 ELSE icMap
    /\ icReads' = [icReads EXCEPT ![r] = [IdleRead EXCEPT !.at = "over"]]
    /\ UNCHANGED <<icNow, icEntries, icCancels, icRevived>>

(* Time passes; a read runs no longer than its deadline and leaves at once, and one that waits in the queue of the
   backend begins within QueuedFor of the cancellation it belongs to. *)
CancelTick ==
    /\ icNow < MaxNow /\ icNow' = icNow + 1
    /\ \A r \in CancelReads : /\ icReads[r].at # "ended"
                              /\ icReads[r].at = "working" => icNow - icReads[r].from < ReadDeadline
    /\ (\E r \in CancelReads : icReads[r].at = "idle") => icCancels = 0 \/ icNow - icCancels < QueuedFor
    /\ UNCHANGED <<icMap, icEntries, icReads, icCancels, icRevived>>

CancelNext == \/ CancelTick \/ CancelToken
              \/ \E r \in CancelReads : StartCancelRead(r) \/ ReadEnds(r) \/ LeaveRead(r)
CancelSpec == CancelInit /\ [][CancelNext]_cancelVars

------------------------------------
(* cancel.rs: a queued continuation cannot revive a cancelled read.  No read of the token that begins after
   imap.cancel was answered gives a page, and every read at work then holds the entry that was aborted. *)
CancelledStays ==
    /\ icRevived = {}
    /\ icCancels # 0 => \A r \in CancelReads : icReads[r].at = "working" => icEntries[icReads[r].entry].aborted
=============================================================================
