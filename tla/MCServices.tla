----------------------------- MODULE MCServices -----------------------------
(***************************************************************************)
(* Small instances of the services of the omamail backend, of its IMAP     *)
(* client and of the updates of the shell, checked side by side: they      *)
(* share no state here, and `part` says which of them a behaviour is       *)
(* about.                                                                  *)
(***************************************************************************)
EXTENDS MailSync, QueryCache, CacheFiles, BackendSession, Uploads, AgentJobs, AnswerStream,
        MailReader, AccountViews, ImapConnections, ImapPages, ImapChanges, UpdateCoordinator, InstallTree, InstallSwitch, SleepLock, TLC

VARIABLE part   \* the component that runs

\* Mail of two accounts in the reader, and rows of three accounts by date.
SmallMails == {[acc |-> "a", id |-> "m", size |-> 1], [acc |-> "b", id |-> "n", size |-> 2]}
\* The second and third of y's messages and the second of x's have the same time.
ThreeAccounts == [x |-> <<1, 5, 7>>, y |-> <<2, 4, 3>>, z |-> <<6>>]
ThreeTimes == <<9, 8, 7, 7, 7, 4, 3>>

\* The other components stay where they began.
Rest(p) == /\ p # "sync" => UNCHANGED syncVars
           /\ p # "queries" => UNCHANGED queryVars
           /\ p # "session" => UNCHANGED sessionVars
           /\ p # "uploads" => UNCHANGED uploadVars
           /\ p # "jobs" => UNCHANGED jobVars
           /\ p # "contexts" => UNCHANGED contextVars
           /\ p # "stream" => UNCHANGED streamVars
           /\ p # "views" => UNCHANGED viewVars
           /\ p # "intents" => UNCHANGED intentVars
           /\ p # "reader" => UNCHANGED readerVars
           /\ p # "registry" => UNCHANGED registryVars
           /\ p # "accounts" => UNCHANGED viewsVars
           /\ p # "imap wires" => UNCHANGED imapVars
           /\ p # "imap cancel" => UNCHANGED cancelVars
           /\ p # "imap pages" => UNCHANGED pageVars
           /\ p # "imap changes" => UNCHANGED changeVars
           /\ p # "updates" => UNCHANGED upVars
           /\ p # "tree" => UNCHANGED treeVars
           /\ p # "install" => UNCHANGED switchVars
           /\ p # "sleep" => UNCHANGED sleepVars
           /\ p \notin {"disk", "render"} => UNCHANGED filesVars
Parts == {"sync", "queries", "disk", "render", "session", "uploads", "jobs", "contexts", "stream", "views",
          "intents", "reader", "registry", "accounts", "imap wires", "imap cancel", "imap pages", "imap changes",
          "updates", "tree", "install", "sleep"}
\* A component that is not the one of the behaviour begins in one of its initial states only; the lists begin with all
\* mail unread but, at most, the other member of the conversation.
OneStart == /\ part # "imap changes" => imServer.moves /\ \A c \in imServer.copies : c.box = "INBOX"
            /\ part # "updates" => upFlatpak
            /\ part # "tree" => itOld = {}
            /\ part # "install" => isLive = "none"
            /\ \A x \in MailIds : (part = "intents" /\ x \in OtherMembers) \/ "UNREAD" \in truth[x]
ServicesInit ==
    /\ SyncInit
    /\ QueryInit
    /\ FilesInit
    /\ SessionInit
    /\ UploadInit
    /\ JobsInit
    /\ ContextInit
    /\ StreamInit
    /\ ViewsInit
    /\ IntentInit
    /\ ReaderInit
    /\ RegistryInit
    /\ AccountViewsInit
    /\ ImapInit
    /\ CancelInit
    /\ ImapPagesInit
    /\ ImapChangesInit
    /\ UpdateInit
    /\ TreeInit
    /\ SwitchInit
    /\ SleepInit
    /\ part \in Parts
    /\ OneStart
ServicesNext ==
    /\ UNCHANGED part /\ Rest(part)
    /\ \/ part = "sync" /\ SyncNext
       \/ part = "queries" /\ QueryNext
       \/ part = "disk" /\ DiskNext
       \/ part = "render" /\ RenderNext
       \/ part = "session" /\ SessionNext
       \/ part = "uploads" /\ UploadNext
       \/ part = "jobs" /\ JobsNext
       \/ part = "contexts" /\ ContextNext
       \/ part = "stream" /\ StreamNext
       \/ part = "views" /\ ViewsNext
       \/ part = "intents" /\ IntentNext
       \/ part = "reader" /\ ReaderNext
       \/ part = "registry" /\ RegistryNext
       \/ part = "accounts" /\ AccountViewsNext
       \/ part = "imap wires" /\ ImapNext
       \/ part = "imap cancel" /\ CancelNext
       \/ part = "imap pages" /\ ImapPagesNext
       \/ part = "imap changes" /\ ImapChangesNext
       \/ part = "updates" /\ UpdateNext
       \/ part = "tree" /\ TreeNext
       \/ part = "install" /\ SwitchNext
       \/ part = "sleep" /\ SleepNext
servicesVars == <<part, syncVars, queryVars, filesVars, sessionVars, uploadVars, jobVars, contextVars, streamVars,
                  viewVars, intentVars, readerVars, registryVars, viewsVars, imapVars, cancelVars, pageVars,
                  changeVars, upVars, treeVars, switchVars, sleepVars>>
ServicesSpec == ServicesInit /\ [][ServicesNext]_servicesVars

(* Nothing late shows: the results of an account never go back, a cancelled warm job writes no page, and nothing
   follows the answer to a quit. *)
NothingLate == ShownForward /\ OnlyHeldJobWrites /\ QuitIsLast
(* Every store keeps to its limits through evictions, refusals and crashes: the queues and tables of the services,
   by their types, the cached files, the rendered messages, the stores of an open message and the uploads. *)
StoresBounded == /\ SyncTypeOK /\ QueryTypeOK /\ FilesTypeOK /\ SessionTypeOK /\ JobsTypeOK
                 /\ BudgetHolds /\ RenderAccounts /\ ReaderBudget /\ UploadBudget
(* What a store gives up is the right thing: an old copy stays until its replacement is there, the oldest files go
   first, a window that is out of date changes nothing, a reader that was cut off leaves nothing behind, and a save
   of the registry takes no account of another process with it. *)
StoresKeep == OldCopyKept /\ OldestGoFirst /\ NewestWindowOnly /\ CutLeavesNothing /\ NoAccountLost
(* Every frame is answered once, on the whole of what was uploaded for it. *)
RequestsWhole == AnsweredOnce /\ UploadWhole
(* The assistant: no more jobs at once and no more kept than the limits, "done" has its answer, a cancelled read
   stays so, and the answer shown is all of it. *)
AssistantKept == AtMostActive /\ KeptBound /\ DoneIsAnswered /\ CancelledIsFinal /\ EntriesMatch /\ AnswerIsWhole
(* The helpers of the shell: one installer at a time and a record that is true of it, a tree of which all is new or all
   is old, and no sleep in the middle of the decision whether the session is locked. *)
HelpersHold == UpdatesHold /\ TreeHolds /\ SleepLockHolds
(* A job that ended stays as it ended, and a new answer leaves the history of the others alone. *)
AgentHistory == SettledStays /\ HistoryKept
(* The rows of a list come to what the server says, a message shows the best of its jobs, and the list of several
   accounts has no hole. *)
RowsAreTrue == ConvergesToServer /\ MessageShowsBest /\ RowsAgree /\ ListHasNoHole
(* A refusal changes its own rows only, scrolling appends, and the rail remembers the members of the open conversation. *)
RowsForward == RefusalIsLocal /\ ScrollOnlyAppends /\ RailRemembers
(* An answer is that of its own command, folders are no older than a change of them, and a cancelled read is over. *)
ImapConnected == AnswersAreOwn /\ FoldersAreFresh /\ CancelledStays
(* The pages of a folder and the changes of its messages. *)
ImapTrue == ImapPagesWhole /\ ImapChangesAreSafe
=============================================================================
