----------------------------- MODULE ImapChanges -----------------------------
(***************************************************************************)
(* What IMAP and SMTP requests change on the server                         *)
(* (providers/imap/mutation.rs; send and execute_planned_action of mod.rs). *)
(* A change is a chain of commands on one connection.  The server refuses   *)
(* any of them, or carries it out and its answer is lost: the connection    *)
(* goes or the 22 seconds do.  Nothing is retried.                          *)
(***************************************************************************)
EXTENDS Integers, Sequences, FiniteSets, SequencesExt

CONSTANTS ChMail,        \* the messages
          ChBoxes,       \* the folders they are in at first
          MaxImapChanges,    \* bound on the requests and on what other clients of the mailbox do
          MaxUidNext         \* bound on the UIDs given out

ASSUME ChangeAssumption == /\ {MaxImapChanges, MaxUidNext} \subseteq Nat /\ IsFiniteSet(ChMail)
                           /\ ChBoxes \subseteq {"INBOX", "Archive", "Trash"}

VARIABLES
    imServer,   \* copies of messages, copies of the draft, the next UID, whether the server moves
    imWork,     \* the request: its kind and ids, the groups left and completed, the commands left of this group
    imReport,   \* the answer of the last request
    imMade      \* requests made, foreign moves, newest draft, newest draft whose saving was answered, deliveries
changeVars == <<imServer, imWork, imReport, imMade>>

IdOf(c) == [uid |-> c.uid, box |-> c.box]
NoWork == [kind |-> "none", ids |-> {}, groups |-> {}, box |-> "", left |-> <<>>, completed |-> {}]
NoImapReport == [kind |-> "none", succeeded |-> {}, failed |-> {}, error |-> FALSE]
ImapChangesInit ==
    /\ \E where \in [ChMail -> ChBoxes], moves \in BOOLEAN :
         LET nth == CHOOSE nth \in [ChMail -> 1..Cardinality(ChMail)] : \A m, n \in ChMail : nth[m] = nth[n] => m = n
         IN imServer = [copies |-> {[msg |-> m, box |-> where[m], uid |-> nth[m], seen |-> FALSE, deleted |-> FALSE] : m \in ChMail},
                        drafts |-> {}, next |-> Cardinality(ChMail) + 1, moves |-> moves]
    /\ imWork = NoWork /\ imReport = NoImapReport
    /\ imMade = [requests |-> 0, foreign |-> 0, draft |-> 0, saved |-> 0, delivered |-> 0]

------------------------------------
\* plan: flags to add and to remove, and the folder the messages go to ("": they stay).
ImapPlan == [read    |-> [add |-> {"seen"}, remove |-> {}, to |-> ""],
         unread  |-> [add |-> {}, remove |-> {"seen"}, to |-> ""],
         archive |-> [add |-> {}, remove |-> {}, to |-> "Archive"],
         readAndFile |-> [add |-> {"seen"}, remove |-> {}, to |-> "Archive"],
         trash   |-> [add |-> {}, remove |-> {}, to |-> "Trash"],
         untrash |-> [add |-> {}, remove |-> {"deleted"}, to |-> "INBOX"]]
ChangeKinds == DOMAIN ImapPlan

\* The commands of one group: flags first, then MOVE, or COPY, STORE \Deleted and EXPUNGE.
Relocate == IF imServer.moves THEN <<"move">> ELSE <<"copy", "mark", "expunge">>
Commands(kind, box) ==
    <<"select">>
    \o (IF ImapPlan[kind].add = {} THEN <<>> ELSE <<"add">>) \o (IF ImapPlan[kind].remove = {} THEN <<>> ELSE <<"remove">>)
    \o (IF ImapPlan[kind].to \in {"", box} THEN <<>> ELSE Relocate)

\* ids: the messages of the request by folder; the folders are taken in the order of their names.
BoxesOf(ids) == {id.box : id \in ids}
Rank == [Archive |-> 1, INBOX |-> 2, Trash |-> 3]
FirstBox(boxes) == CHOOSE b \in boxes : \A c \in boxes : Rank[b] <= Rank[c]
BeginGroup(work, groups) ==
    [work EXCEPT !.groups = groups \ {FirstBox(groups)}, !.box = FirstBox(groups),
                 !.left = Commands(work.kind, FirstBox(groups))]

MayAct == imMade.requests + imMade.foreign < MaxImapChanges
MayAsk == imWork = NoWork /\ MayAct
AskChange(kind) ==
    /\ MayAsk
    /\ \E ids \in (SUBSET {IdOf(c) : c \in imServer.copies}) \ {{}} :
         imWork' = BeginGroup([NoWork EXCEPT !.kind = kind, !.ids = ids], BoxesOf(ids))
    /\ imMade' = [imMade EXCEPT !.requests = @ + 1]
    /\ imReport' = NoImapReport /\ UNCHANGED imServer

------------------------------------
\* What the server does with a command.  A UID it does not have is passed over.
Named(c) == IdOf(c) \in {id \in imWork.ids : id.box = imWork.box}
Flagged(c, flags, value) == [c EXCEPT !.seen = IF "seen" \in flags THEN value ELSE @,
                                      !.deleted = IF "deleted" \in flags THEN value ELSE @]
EachNamed(F(_)) == {IF Named(c) THEN F(c) ELSE c : c \in imServer.copies}
\* New copies get UIDs from the counter, in some order; one counter serves every folder.
Copies(to) ==
    LET named == SetToSeq({c \in imServer.copies : Named(c)})
    IN {[named[i] EXCEPT !.box = to, !.uid = imServer.next + i - 1] : i \in DOMAIN named}
Done(command) ==
    LET to == ImapPlan[imWork.kind].to IN
    CASE command = "add"    -> [imServer EXCEPT !.copies = EachNamed(LAMBDA c : Flagged(c, ImapPlan[imWork.kind].add, TRUE))]
      [] command = "remove" -> [imServer EXCEPT !.copies = EachNamed(LAMBDA c : Flagged(c, ImapPlan[imWork.kind].remove, FALSE))]
      [] command = "mark"   -> [imServer EXCEPT !.copies = EachNamed(LAMBDA c : Flagged(c, {"deleted"}, TRUE))]
      [] command = "copy"   -> [imServer EXCEPT !.copies = @ \cup Copies(to), !.next = @ + Cardinality(Copies(to))]
      [] command = "move"   -> [imServer EXCEPT !.copies = {c \in @ : ~Named(c)} \cup Copies(to),
                                                !.next = @ + Cardinality(Copies(to))]
      [] command = "expunge" -> [imServer EXCEPT !.copies = {c \in @ : ~(Named(c) /\ c.deleted)}]
      [] command = "append" -> [imServer EXCEPT !.drafts = @ \cup {[version |-> imMade.draft, uid |-> imServer.next, deleted |-> FALSE]},
                                                !.next = @ + 1]
      [] command = "mark draft" -> [imServer EXCEPT !.drafts =
                                        {IF d.uid \in imWork.ids THEN [d EXCEPT !.deleted = TRUE] ELSE d : d \in @}]
      [] command = "expunge draft" -> [imServer EXCEPT !.drafts = {d \in @ : ~(d.uid \in imWork.ids /\ d.deleted)}]
      [] OTHER -> imServer

\* execute_planned_action: the ids of the completed groups succeeded, and those of every other one failed.
Report(work, error) ==
    LET succeeded == {id \in work.ids : id.box \in work.completed}
    IN [kind |-> work.kind, succeeded |-> succeeded, failed |-> work.ids \ succeeded, error |-> error]
\* The ledger takes a group when its last command is answered.
LedgerEarly(work) == work.completed \cup {work.box}
Ledger(work) == IF Len(work.left) = 1 THEN work.completed \cup {work.box} ELSE work.completed

CommandAnswered ==
    /\ imWork.kind \in ChangeKinds /\ imWork.left # <<>>
    /\ Done(Head(imWork.left)).next <= MaxUidNext /\ imServer' = Done(Head(imWork.left))
    /\ LET work == [imWork EXCEPT !.left = Tail(@), !.completed = Ledger(imWork)]
           over == work.left = <<>> /\ work.groups = {}
       IN /\ imWork' = IF over THEN NoWork ELSE IF work.left = <<>> THEN BeginGroup(work, work.groups) ELSE work
          /\ imReport' = IF over THEN Report(work, FALSE) ELSE imReport
    /\ UNCHANGED imMade
\* Refused, or done with the answer lost: the request ends, and what other groups completed still counts.
CommandFails(done) ==
    /\ imWork.kind \in ChangeKinds /\ imWork.left # <<>>
    /\ Done(Head(imWork.left)).next <= MaxUidNext
    /\ imServer' = IF done THEN Done(Head(imWork.left)) ELSE imServer
    /\ imReport' = Report(imWork, TRUE) /\ imWork' = NoWork
    /\ UNCHANGED imMade

\* Another client moves a message.
ForeignMove(c, to) ==
    /\ c \in imServer.copies /\ to # c.box /\ MayAct /\ imServer.next < MaxUidNext
    /\ imServer' = [imServer EXCEPT !.copies = (@ \ {c}) \cup {[c EXCEPT !.box = to, !.uid = imServer.next]}, !.next = @ + 1]
    /\ imMade' = [imMade EXCEPT !.foreign = @ + 1]
    /\ UNCHANGED <<imWork, imReport>>

------------------------------------
\* saveDraft: the new text is appended, and only then the copy it replaces goes; deleteDraft is the second half.
CleanUp == <<"mark draft", "expunge draft">>
AppendFirst == <<"append">> \o CleanUp
AskDraft(kind) ==
    /\ MayAsk
    /\ \E old \in {{}} \cup {{d.uid} : d \in imServer.drafts} :
         /\ kind = "delete draft" => old # {}
         /\ imWork' = [NoWork EXCEPT !.kind = kind, !.ids = old,
              !.left = IF kind = "delete draft" THEN CleanUp ELSE IF old = {} THEN <<"append">> ELSE AppendFirst]
    /\ imMade' = [imMade EXCEPT !.requests = @ + 1, !.draft = IF kind = "save draft" THEN @ + 1 ELSE @,
                                !.saved = IF kind = "delete draft" THEN 0 ELSE @]
    /\ imReport' = NoImapReport /\ UNCHANGED imServer
DraftKinds == {"save draft", "delete draft"}
\* A cleanup that fails after the append leaves the request answered as saved, with a warning.
Appended(left) == imWork.kind = "save draft" /\ "append" \notin ToSet(left)
EndDraft(left, error) ==
    /\ imReport' = [NoImapReport EXCEPT !.kind = imWork.kind, !.error = error /\ ~Appended(left)]
    /\ imMade' = IF Appended(left) THEN [imMade EXCEPT !.saved = imMade.draft] ELSE imMade
    /\ imWork' = NoWork
DraftCommand ==
    /\ imWork.kind \in DraftKinds /\ imWork.left # <<>>
    /\ imServer.next < MaxUidNext /\ imServer' = Done(Head(imWork.left))
    /\ IF Len(imWork.left) = 1 THEN EndDraft(<<>>, FALSE)
       ELSE imWork' = [imWork EXCEPT !.left = Tail(@)] /\ UNCHANGED <<imReport, imMade>>
DraftFails(done) ==
    /\ imWork.kind \in DraftKinds /\ imWork.left # <<>> /\ imServer.next < MaxUidNext
    /\ imServer' = IF done THEN Done(Head(imWork.left)) ELSE imServer
    /\ EndDraft(imWork.left, TRUE)

------------------------------------
\* send: the envelope up to DATA, the message, the reply to it, and the copy in the Sent folder.
AskSend == /\ MayAsk /\ imWork' = [NoWork EXCEPT !.kind = "envelope"] /\ imReport' = NoImapReport
           /\ imMade' = [imMade EXCEPT !.requests = @ + 1, !.delivered = 0] /\ UNCHANGED imServer
SendAt(kind) == imWork' = [NoWork EXCEPT !.kind = kind] /\ UNCHANGED imReport
TellSmtp(answer) == imWork' = NoWork /\ imReport' = [NoImapReport EXCEPT !.kind = answer]
\* An error before the message is written is a refusal; the deadline is always "may have been delivered".
EnvelopeGoes == /\ imWork.kind = "envelope" /\ UNCHANGED <<imServer, imMade>>
                /\ SendAt("message") \/ TellSmtp("not sent") \/ TellSmtp("delivery unknown")
MessageGoes(delivered) ==
    /\ imWork.kind = "message" /\ UNCHANGED imServer
    /\ imMade' = [imMade EXCEPT !.delivered = IF delivered THEN @ + 1 ELSE @]
    /\ \/ SendAt(IF delivered THEN "replied" ELSE "refused")
       \/ TellSmtp("delivery unknown")
AfterData == "delivery unknown"
\* The final reply arrives, or it does not.
ReplyComes == /\ imWork.kind \in {"replied", "refused"} /\ UNCHANGED <<imServer, imMade>>
              /\ \/ imWork.kind = "replied" /\ SendAt("sent")
                 \/ TellSmtp(AfterData)
\* The flag is set before the copy is filed: neither its failure nor the deadline takes the answer back.
SentCopy == imWork.kind = "sent" /\ TellSmtp("sent") /\ UNCHANGED <<imServer, imMade>>

ImapChangesNext ==
    \/ \E kind \in ChangeKinds : AskChange(kind)
    \/ CommandAnswered \/ (\E done \in BOOLEAN : CommandFails(done) \/ DraftFails(done) \/ MessageGoes(done))
    \/ \E c \in imServer.copies, to \in DOMAIN Rank : ForeignMove(c, to)
    \/ (\E kind \in DraftKinds : AskDraft(kind)) \/ DraftCommand
    \/ AskSend \/ EnvelopeGoes \/ ReplyComes \/ SentCopy

------------------------------------
\* Whatever is refused or lost, every message keeps a copy that is not marked for deletion.
ImapMailKept == \A m \in ChMail : \E c \in imServer.copies : c.msg = m /\ ~c.deleted
(* The ids reported as succeeded are gone from their folder or carry the flags, and an answer without an error
   reports every id. *)
ImapReportTrue ==
    /\ imReport.kind \in ChangeKinds =>
         /\ \A id \in imReport.succeeded, c \in imServer.copies : IdOf(c) = id =>
              /\ ImapPlan[imReport.kind].to \in {"", id.box}
              /\ "seen" \in ImapPlan[imReport.kind].add => c.seen
              /\ "seen" \in ImapPlan[imReport.kind].remove => ~c.seen
         /\ ~imReport.error => imReport.failed = {}
\* The text of a draft whose saving was answered, or a newer one, is in the Drafts folder.
ImapDraftKept == imMade.saved # 0 => \E d \in imServer.drafts : d.version >= imMade.saved /\ ~d.deleted
\* "not sent" was not delivered and "sent" was, once.
ImapSendTrue == /\ imReport.kind = "not sent" => imMade.delivered = 0
                /\ imReport.kind = "sent" => imMade.delivered = 1
ImapChangesSpec == ImapChangesInit /\ [][ImapChangesNext]_changeVars
ImapChangesAreSafe == ImapMailKept /\ ImapReportTrue /\ ImapDraftKept /\ ImapSendTrue
=============================================================================
