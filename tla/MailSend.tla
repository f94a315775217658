------------------------------ MODULE MailSend ------------------------------
(***************************************************************************)
(* From mail.send to the provider (mail/send.rs, enqueue_mail and            *)
(* shared_call of outbox/mod.rs, outbox/ipc.rs, outbox/delivery.rs).  A       *)
(* message is composed from files that may change while they are read, given *)
(* a digest from its send id and stamp, and submitted to whichever process    *)
(* holds the outbox lease; the reply may be lost and the owner may change.    *)
(* The queue itself is Outbox.tla's; here an entry is its digest and fate.    *)
(***************************************************************************)
EXTENDS Integers, FiniteSets, FiniteSetsExt

CONSTANTS Procs,       \* omamail processes: the desktop backend, CLI runs
          SendIds,     \* explicit send ids
          MaxStamp,    \* bound: the clock, and so the stamps
          MaxEditsOf,  \* bound: changes of the attached file
          MaxTries     \* bound: submissions a process makes

ASSUME SendBounds == {MaxStamp, MaxTries} \subseteq Nat \ {0} /\ MaxEditsOf \in Nat

VARIABLES
    sdFile,   \* version of the attached file
    sdProc,   \* each process: [pc, id, first, bytes, stamp, digest, tries, told]
    sdLease,  \* the process that holds outbox.lock, or "none"
    sdQueue,  \* send id -> [digest, order, fate], or the empty record
    sdClock,
    sdSent,   \* send id -> copies the provider delivered
    sdDraft,  \* the source drafts still in the mailbox
    sdStaged  \* private copies made for the HEY program, by send id

sendVars == <<sdFile, sdProc, sdLease, sdQueue, sdClock, sdSent, sdDraft, sdStaged>>

NoEntry == [digest |-> <<>>, order |-> 0, fate |-> "absent"]
FreshSend == [pc |-> "idle", id |-> "none", first |-> 0, bytes |-> {}, stamp |-> 0,
              digest |-> <<>>, tries |-> 0, told |-> "nothing"]

SendInit ==
    /\ sdFile = 0 /\ sdProc = [p \in Procs |-> FreshSend] /\ sdLease = "none"
    /\ sdQueue = [i \in SendIds |-> NoEntry] /\ sdClock = 1
    /\ sdSent = [i \in SendIds |-> 0] /\ sdDraft = SendIds /\ sdStaged = {}

------------------------------------
(* Composing: prepare and attachment *)

\* Another program rewrites the attached file.
FileChanges == sdFile < MaxEditsOf /\ sdFile' = sdFile + 1
               /\ UNCHANGED <<sdProc, sdLease, sdQueue, sdClock, sdSent, sdDraft, sdStaged>>

\* The metadata before, and the first half of the bytes.
StartRead(p, id) ==
    /\ sdProc[p].pc = "idle"
    /\ sdProc' = [sdProc EXCEPT ![p] = [FreshSend EXCEPT !.pc = "read", !.id = id,
                                         !.first = sdFile, !.bytes = {sdFile}]]
    /\ UNCHANGED <<sdFile, sdLease, sdQueue, sdClock, sdSent, sdDraft, sdStaged>>

\* The rest of the bytes.
ReadOn(p) ==
    /\ sdProc[p].pc = "read"
    /\ sdProc' = [sdProc EXCEPT ![p].pc = "compare", ![p].bytes = @ \cup {sdFile}]
    /\ UNCHANGED <<sdFile, sdLease, sdQueue, sdClock, sdSent, sdDraft, sdStaged>>

\* The metadata after: same_file_version, or the send is refused.
SameLength(p)  == TRUE
SameVersion(p) == sdProc[p].first = sdFile
Compare(p) ==
    /\ sdProc[p].pc = "compare"
    /\ sdProc' = [sdProc EXCEPT ![p].pc = IF SameVersion(p) THEN "stamp" ELSE "done",
                                 ![p].told = IF SameVersion(p) THEN @ ELSE "changed"]
    /\ UNCHANGED <<sdFile, sdLease, sdQueue, sdClock, sdSent, sdDraft, sdStaged>>

------------------------------------
(* Submitting: enqueue_mail, shared_call, ipc *)

\* call: the process that holds the lease answers, or takes a free one.
Reaches(p) == sdLease \in Procs \/ sdLease = "none"
LeaseAfter(p) == IF sdLease = "none" THEN p ELSE sdLease

\* enqueue_mail: the order of an entry already queued, else the time now.
StampFor(id) == IF sdQueue[id].fate # "absent" THEN sdQueue[id].order ELSE sdClock
TakeStamp(p) ==
    /\ sdProc[p].pc = "stamp" /\ Reaches(p) /\ sdLease' = LeaseAfter(p)
    /\ LET t == StampFor(sdProc[p].id) IN
       sdProc' = [sdProc EXCEPT ![p].pc = "submit", ![p].stamp = t,
                                 ![p].digest = <<sdProc[p].id, t, sdProc[p].bytes>>]
    /\ UNCHANGED <<sdFile, sdQueue, sdClock, sdSent, sdDraft, sdStaged>>

\* outbox.enqueue at the owner: new, the same again, or a conflict; the reply
\* of another process may be lost, and the submission is made again.
Accepts(p) == LET e == sdQueue[sdProc[p].id] IN e.fate = "absent" \/ e.digest = sdProc[p].digest
Submit(p, heard) ==
    LET me == sdProc[p]
        out == IF Accepts(p) THEN "ok" ELSE "conflict" IN
    /\ me.pc = "submit" /\ Reaches(p) /\ sdLease' = LeaseAfter(p)
    /\ sdQueue' = IF sdQueue[me.id].fate = "absent"
                  THEN [sdQueue EXCEPT ![me.id] =
                          [digest |-> me.digest, order |-> me.stamp, fate |-> "queued"]]
                  ELSE sdQueue
    /\ IF heard \/ LeaseAfter(p) = p
       THEN sdProc' = [sdProc EXCEPT ![p].pc = "done", ![p].told = out]
       ELSE /\ me.tries < MaxTries
            /\ sdProc' = [sdProc EXCEPT ![p].tries = @ + 1]
    /\ UNCHANGED <<sdFile, sdClock, sdSent, sdDraft, sdStaged>>

\* The 25 seconds are over: the outcome is unknown to the caller.
GiveUp(p) == /\ sdProc[p].pc = "submit" /\ sdProc[p].tries = MaxTries
             /\ sdProc' = [sdProc EXCEPT ![p].pc = "done", ![p].told = "unknown"]
             /\ UNCHANGED <<sdFile, sdLease, sdQueue, sdClock, sdSent, sdDraft, sdStaged>>

\* The command is given again, with the same send id.
SendAgain(p) == /\ sdProc[p].pc = "done" /\ sdClock < MaxStamp
                /\ sdProc' = [sdProc EXCEPT ![p] = FreshSend] /\ sdClock' = sdClock + 1
                /\ UNCHANGED <<sdFile, sdLease, sdQueue, sdSent, sdDraft, sdStaged>>

\* The lease owner stops or dies: nothing on the wire survives, and what a
\* delivery had staged stays only if it was killed.
OwnerEnds(killed) ==
    /\ sdLease \in Procs /\ sdLease' = "none"
    /\ sdProc' = [sdProc EXCEPT ![sdLease] = FreshSend]
    /\ sdQueue' = [i \in SendIds |-> IF sdQueue[i].fate = "sending"
                                     THEN [sdQueue[i] EXCEPT !.fate = "interrupted"] ELSE sdQueue[i]]
    /\ sdStaged' = IF killed THEN sdStaged ELSE {}
    /\ UNCHANGED <<sdFile, sdClock, sdSent, sdDraft>>

------------------------------------
(* Delivering: delivery::send, once per entry *)

StartDelivery(i, hey) ==
    /\ sdLease \in Procs /\ sdQueue[i].fate = "queued"
    /\ sdQueue' = [sdQueue EXCEPT ![i].fate = "sending"]
    /\ sdStaged' = IF hey THEN sdStaged \cup {i} ELSE sdStaged
    /\ UNCHANGED <<sdFile, sdProc, sdLease, sdClock, sdSent, sdDraft>>

\* The provider takes the message; its answer arrives, or does not.  A draft
\* is removed only after a confirmed delivery, and a failed or slow removal
\* only adds a warning.
CleansDraft(answered)    == answered
Deliver(i, answered, cleaned) ==
    /\ sdLease \in Procs /\ sdQueue[i].fate = "sending"
    /\ sdSent' \in IF answered THEN {[sdSent EXCEPT ![i] = @ + 1]}
                   ELSE {sdSent, [sdSent EXCEPT ![i] = @ + 1]}
    /\ sdQueue' = [sdQueue EXCEPT ![i].fate = IF answered THEN "sent" ELSE "unknown"]
    /\ sdDraft' = IF CleansDraft(answered) /\ cleaned THEN sdDraft \ {i} ELSE sdDraft
    /\ sdStaged' = sdStaged \ {i}
    /\ UNCHANGED <<sdFile, sdProc, sdLease, sdClock>>

SendNext ==
    \/ FileChanges
    \/ \E p \in Procs : \/ ReadOn(p) \/ Compare(p) \/ TakeStamp(p) \/ GiveUp(p) \/ SendAgain(p)
                        \/ \E i \in SendIds : StartRead(p, i)
                        \/ \E heard \in BOOLEAN : Submit(p, heard)
    \/ \E b \in BOOLEAN : OwnerEnds(b)
    \/ \E i \in SendIds, b \in BOOLEAN : StartDelivery(i, b)
    \/ \E i \in SendIds, b, c \in BOOLEAN : Deliver(i, b, c)
SendSpec == SendInit /\ [][SendNext]_sendVars

------------------------------------
\* However often a send is repeated, and whichever process owns the queue, a
\* send id is delivered at most once; an accepted send is in the queue as it
\* was composed, from one version of the attached file; a draft is gone only
\* when its message was delivered.
SendOnce ==
    /\ \A i \in SendIds : sdSent[i] <= 1
    /\ \A p \in Procs : sdProc[p].told = "ok" => sdQueue[sdProc[p].id].digest = sdProc[p].digest
    /\ \A i \in SendIds : sdQueue[i].fate # "absent" => Cardinality(sdQueue[i].digest[3]) = 1
    /\ \A i \in SendIds : i \notin sdDraft => sdSent[i] = 1
=============================================================================
