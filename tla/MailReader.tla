----------------------------- MODULE MailReader -----------------------------
(***************************************************************************)
(* Opening a message (backend/reader.rs, with render of backend/content.rs  *)
(* and the guarded write of cache/resource.rs).  An open is a future and,   *)
(* from the disk write on, a thread that outlives it: a cancel or the 25 s  *)
(* timeout drops the future, and only the live flag stops the thread.       *)
(***************************************************************************)
EXTENDS Integers, Sequences, FiniteSets, SequencesExt, FiniteSetsExt, Ranks

CONSTANTS Opens,        \* request ids of the UI
          ReaderMails,  \* [acc, id, size]: the messages
          StoreCap,     \* prepared messages kept (64)
          StoreShare,   \* of one account (12)
          StoreBytes,   \* MAX_BYTES
          JobCap,       \* registered opens (64)
          TombCap,      \* cancelled requests remembered (256)
          MaxRenders    \* bound: reader.render calls

ASSUME ReaderBounds ==
    /\ {StoreCap, StoreShare, JobCap, TombCap} \subseteq Nat \ {0}
    /\ StoreBytes \in Nat /\ MaxRenders \in Nat
    /\ \A m \in ReaderMails : m.size \in Nat

VARIABLES
    rdOpen,     \* each request: [pc, mail, cache, live, future, answer]
    rdStore,    \* ReaderStore.entries, oldest first
    rdBytes,    \* ReaderStore.bytes
    rdSequence, \* ReaderStore.sequence, the last reader key
    rdTombs,    \* ReaderStore.cancelled, oldest first
    rdDisk,     \* the resource cache: mail -> the open that wrote it, or "none"
    rdShown,    \* the render cache: mail -> the open that wrote it, or "none"
    rdCut,      \* history: requests whose cancel call or timeout has returned
    rdRenders

readerVars == <<rdOpen, rdStore, rdBytes, rdSequence, rdTombs, rdDisk, rdShown, rdCut, rdRenders>>

NoMail == [acc |-> "none", id |-> "none", size |-> 0]
ReaderInit ==
    /\ rdOpen = [r \in Opens |-> [pc |-> "new", mail |-> NoMail, cache |-> FALSE, live |-> FALSE,
                                  future |-> FALSE, answer |-> "none"]]
    /\ rdStore = <<>> /\ rdBytes = 0 /\ rdSequence = 0 /\ rdTombs = <<>>
    /\ rdDisk = [m \in ReaderMails |-> "none"] /\ rdShown = [m \in ReaderMails |-> "none"]
    /\ rdCut = {} /\ rdRenders = 0

OpenRegistered == {r \in Opens : rdOpen[r].future}
OfAccount(s, acc) == {n \in DOMAIN s : s[n].mail.acc = acc}

------------------------------------
\* reader.open: refused when cancelled already, or when too many are open.  A
\* cancellation whose tombstone is gone is forgotten.
OpenMail(r, m, cacheOnly) ==
    /\ rdOpen[r].pc = "new"
    /\ rdOpen' = [rdOpen EXCEPT ![r] =
         IF r \in ToSet(rdTombs) \/ Cardinality(OpenRegistered) >= JobCap
         THEN [@ EXCEPT !.pc = "done", !.answer = "refused"]
         ELSE [@ EXCEPT !.pc = "fetch", !.mail = m, !.cache = cacheOnly, !.live = TRUE, !.future = TRUE]]
    /\ rdCut' = IF r \in ToSet(rdTombs) THEN rdCut ELSE rdCut \ {r}
    /\ UNCHANGED <<rdStore, rdBytes, rdSequence, rdTombs, rdDisk, rdShown, rdRenders>>

\* The future ends: Registration's Drop clears the live flag.
EndOpen(r, answer) == [rdOpen EXCEPT ![r] = [@ EXCEPT
                          !.pc = "done", !.live = FALSE, !.future = FALSE, !.answer = answer]]
\* The thread ends; when the future is still there it gives the answer.
EndThread(r, answer) == IF rdOpen[r].future THEN EndOpen(r, answer)
                        ELSE [rdOpen EXCEPT ![r].pc = "done"]

\* The provider or the disk answers, and job.current is checked.
Fetched(r) ==
    LET me == rdOpen[r] IN
    /\ me.pc = "fetch" /\ me.future
    /\ rdOpen' \in {EndOpen(r, "failed")} \cup
         IF ~me.live THEN {}
         ELSE IF me.cache /\ rdDisk[me.mail] = "none" THEN {EndOpen(r, "null")}
              ELSE {[rdOpen EXCEPT ![r].pc = IF me.cache THEN "store" ELSE "disk"]}
    /\ UNCHANGED <<rdStore, rdBytes, rdSequence, rdTombs, rdDisk, rdShown, rdCut, rdRenders>>

\* put_guarded: the file is replaced under the live lock; a failed write
\* does not fail the read.
MayWrite(r)       == rdOpen[r].live
DiskWrite(r) ==
    /\ rdOpen[r].pc = "disk"
    /\ rdDisk' \in {rdDisk} \cup
         (IF MayWrite(r) THEN {[rdDisk EXCEPT ![rdOpen[r].mail] = r]} ELSE {})
    /\ rdOpen' = IF rdOpen[r].future THEN [rdOpen EXCEPT ![r].pc = "store"] ELSE EndThread(r, "none")
    /\ UNCHANGED <<rdStore, rdBytes, rdSequence, rdTombs, rdShown, rdCut, rdRenders>>

\* ReaderStore::put: while a bound is passed, the account's oldest entry
\* leaves, or the oldest of all.
SumBytes(s) == Total([n \in DOMAIN s |-> s[n].mail.size])
Fits(s, m) == /\ SumBytes(s) + m.size <= StoreBytes /\ Len(s) < StoreCap
              /\ Cardinality(OfAccount(s, m.acc)) < StoreShare
Others(m) == Picked(rdStore, DOMAIN rdStore \ OfAccount(rdStore, m.acc))
\* The stores that the evictions pass through; the first with room has lost the least.
EvictionsFor(m) == WithoutOldest(rdStore, OfAccount(rdStore, m.acc)) \cup WithoutOldest(Others(m), DOMAIN Others(m))
Evicted(m) == Longest({s \in EvictionsFor(m) : Fits(s, m)})

\* Under the store lock and the live lock together.
StorePut(r) ==
    LET m == rdOpen[r].mail IN
    /\ rdOpen[r].pc = "store"
    /\ IF ~MayWrite(r) \/ m.size > StoreBytes
       THEN /\ rdOpen' = EndThread(r, IF MayWrite(r) THEN "failed" ELSE "cancelled")
            /\ UNCHANGED <<rdStore, rdBytes, rdSequence>>
       ELSE /\ rdStore' = Append(Evicted(m), [mail |-> m, key |-> rdSequence + 1, by |-> r])
            /\ rdBytes' = SumBytes(Evicted(m)) + m.size
            /\ rdSequence' = rdSequence + 1
            /\ rdOpen' = [rdOpen EXCEPT ![r].pc = "render"]
    /\ UNCHANGED <<rdTombs, rdDisk, rdShown, rdCut, rdRenders>>

\* render: the cached rendering, or a new one stored under the live lock.
RenderOpened(r) ==
    LET m == rdOpen[r].mail IN
    /\ rdOpen[r].pc = "render"
    /\ IF rdShown[m] # "none" \/ MayWrite(r)
       THEN /\ rdShown' = IF rdShown[m] = "none" THEN [rdShown EXCEPT ![m] = r] ELSE rdShown
            /\ rdOpen' = EndThread(r, IF rdOpen[r].live THEN "opened" ELSE "cancelled")
       ELSE rdOpen' = EndThread(r, "cancelled") /\ UNCHANGED rdShown
    /\ UNCHANGED <<rdStore, rdBytes, rdSequence, rdTombs, rdDisk, rdCut, rdRenders>>

\* The select: 25 seconds pass, or the cancellation is noticed, first.
CutOff(r) ==
    /\ rdOpen[r].future
    /\ rdOpen' = [rdOpen EXCEPT ![r] = [@ EXCEPT !.live = FALSE, !.future = FALSE, !.answer = "cut",
                                        !.pc = IF rdOpen[r].pc = "fetch" THEN "done" ELSE rdOpen[r].pc]]
    /\ rdCut' = rdCut \cup {r}
    /\ UNCHANGED <<rdStore, rdBytes, rdSequence, rdTombs, rdDisk, rdShown, rdRenders>>

\* reader.cancel: the live flag, and a tombstone for an open still on its way.
CancelOpen(r) ==
    /\ rdCut' = rdCut \cup {r} /\ r \notin rdCut
    /\ rdOpen' = [rdOpen EXCEPT ![r].live = FALSE]
    /\ rdTombs' = IF r \in ToSet(rdTombs) THEN rdTombs
                  ELSE Append(IF Len(rdTombs) >= TombCap THEN Tail(rdTombs) ELSE rdTombs, r)
    /\ UNCHANGED <<rdStore, rdBytes, rdSequence, rdDisk, rdShown, rdRenders>>

\* A tombstone is 60 seconds old.
ReaderTombExpires == /\ rdTombs # <<>> /\ rdTombs' = Tail(rdTombs)
               /\ UNCHANGED <<rdOpen, rdStore, rdBytes, rdSequence, rdDisk, rdShown, rdCut, rdRenders>>

\* reader.render: the entry of exactly this account, message and key is used
\* and becomes the youngest.
RenderAgain(m, key) ==
    /\ rdRenders < MaxRenders /\ rdRenders' = rdRenders + 1
    /\ \E i \in DOMAIN rdStore :
         /\ rdStore[i].mail = m /\ rdStore[i].key = key
         /\ rdStore' = Append(RemoveAt(rdStore, i), rdStore[i])
         /\ rdShown' = IF rdShown[m] = "none" THEN [rdShown EXCEPT ![m] = rdStore[i].by] ELSE rdShown
    /\ UNCHANGED <<rdOpen, rdBytes, rdSequence, rdTombs, rdDisk, rdCut>>

ReaderNext ==
    \/ \E r \in Opens, m \in ReaderMails, c \in BOOLEAN : OpenMail(r, m, c)
    \/ \E r \in Opens : \/ Fetched(r) \/ DiskWrite(r) \/ StorePut(r) \/ RenderOpened(r)
                        \/ CutOff(r) \/ CancelOpen(r)
    \/ ReaderTombExpires
    \/ \E m \in ReaderMails, k \in 1..rdSequence : RenderAgain(m, k)

------------------------------------
\* A cancelled or timed-out open leaves nothing behind afterwards: the thread
\* that outlives it stores no message, no file and no answer.
CutLeavesNothing ==
    [][/\ \A e \in ToSet(rdStore') \ ToSet(rdStore) : e.by \notin rdCut
       /\ \A m \in ReaderMails : rdDisk'[m] # rdDisk[m] => rdDisk'[m] \notin rdCut
       /\ \A r \in rdCut : rdOpen'[r].answer = "opened" => rdOpen[r].answer = "opened"]_readerVars

\* The store's byte count is exact and every bound holds, whatever order
\* opens and renders come in.
ReaderBudget ==
    /\ rdBytes = SumBytes(rdStore) /\ rdBytes <= StoreBytes /\ Len(rdStore) <= StoreCap
    /\ \A m \in ReaderMails : Cardinality(OfAccount(rdStore, m.acc)) <= StoreShare
    /\ \A i, j \in DOMAIN rdStore : rdStore[i].key = rdStore[j].key => i = j
    /\ Cardinality(OpenRegistered) <= JobCap /\ Len(rdTombs) <= TombCap
=============================================================================
