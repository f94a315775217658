--------------------------- MODULE ServiceProofs ---------------------------
(***************************************************************************)
(* What the services promise together: each component of MCServices moves  *)
(* as it does alone, so what is proved of it alone holds of all of them.   *)
(***************************************************************************)
EXTENDS MCServices, MailProofs, ShellProofs, StoreProofs

LEMMA MovesSync == ServicesSpec => SyncSafety
<1>1. ServicesInit => SyncInit  BY DEF ServicesInit
<1>2. [ServicesNext]_servicesVars => [SyncNext]_syncVars  BY DEF ServicesNext, Rest, servicesVars
<1> QED BY <1>1, <1>2, PTL DEF ServicesSpec, SyncSafety

LEMMA MovesQueries == ServicesSpec => QuerySpec
<1>1. ServicesInit => QueryInit  BY DEF ServicesInit
<1>2. [ServicesNext]_servicesVars => [QueryNext]_queryVars  BY DEF ServicesNext, Rest, servicesVars
<1> QED BY <1>1, <1>2, PTL DEF ServicesSpec, QuerySpec

LEMMA MovesSession == ServicesSpec => SessionSafety
<1>1. ServicesInit => SessionInit  BY DEF ServicesInit
<1>2. [ServicesNext]_servicesVars => [SessionNext]_sessionVars  BY DEF ServicesNext, Rest, servicesVars
<1> QED BY <1>1, <1>2, PTL DEF ServicesSpec, SessionSafety

LEMMA MovesUploads == ServicesSpec => UploadSpec
<1>1. ServicesInit => UploadInit  BY DEF ServicesInit
<1>2. [ServicesNext]_servicesVars => [UploadNext]_uploadVars  BY DEF ServicesNext, Rest, servicesVars
<1> QED BY <1>1, <1>2, PTL DEF ServicesSpec, UploadSpec

LEMMA MovesUpdates == ServicesSpec => UpdateSpec
<1>1. ServicesInit => UpdateInit  BY DEF ServicesInit
<1>2. [ServicesNext]_servicesVars => [UpdateNext]_upVars  BY DEF ServicesNext, Rest, servicesVars
<1> QED BY <1>1, <1>2, PTL DEF ServicesSpec, UpdateSpec

LEMMA MovesTree == ServicesSpec => TreeSpec
<1>1. ServicesInit => TreeInit  BY DEF ServicesInit
<1>2. [ServicesNext]_servicesVars => [TreeNext]_treeVars  BY DEF ServicesNext, Rest, servicesVars
<1> QED BY <1>1, <1>2, PTL DEF ServicesSpec, TreeSpec

LEMMA MovesImap == ServicesSpec => ImapSpec
<1>1. ServicesInit => ImapInit  BY DEF ServicesInit
<1>2. [ServicesNext]_servicesVars => [ImapNext]_imapVars  BY DEF ServicesNext, Rest, servicesVars
<1> QED BY <1>1, <1>2, PTL DEF ServicesSpec, ImapSpec

LEMMA MovesCancel == ServicesSpec => CancelSpec
<1>1. ServicesInit => CancelInit  BY DEF ServicesInit
<1>2. [ServicesNext]_servicesVars => [CancelNext]_cancelVars  BY DEF ServicesNext, Rest, servicesVars
<1> QED BY <1>1, <1>2, PTL DEF ServicesSpec, CancelSpec

LEMMA MovesInstall == ServicesSpec => SwitchSpec
<1>1. ServicesInit => SwitchInit  BY DEF ServicesInit
<1>2. [ServicesNext]_servicesVars => [SwitchNext]_switchVars  BY DEF ServicesNext, Rest, servicesVars
<1> QED BY <1>1, <1>2, PTL DEF ServicesSpec, SwitchSpec

LEMMA MovesSleep == ServicesSpec => SleepSpec
<1>1. ServicesInit => SleepInit  BY DEF ServicesInit
<1>2. [ServicesNext]_servicesVars => [SleepNext]_sleepVars  BY DEF ServicesNext, Rest, servicesVars
<1> QED BY <1>1, <1>2, PTL DEF ServicesSpec, SleepSpec

LEMMA MovesJobs == ServicesSpec => JobsSafety
<1>1. ServicesInit => JobsInit  BY DEF ServicesInit
<1>2. [ServicesNext]_servicesVars => [JobsNext]_jobVars  BY DEF ServicesNext, Rest, servicesVars
<1> QED BY <1>1, <1>2, PTL DEF ServicesSpec, JobsSafety

LEMMA MovesContexts == ServicesSpec => ContextSpec
<1>1. ServicesInit => ContextInit  BY DEF ServicesInit
<1>2. [ServicesNext]_servicesVars => [ContextNext]_contextVars  BY DEF ServicesNext, Rest, servicesVars
<1> QED BY <1>1, <1>2, PTL DEF ServicesSpec, ContextSpec

LEMMA MovesStream == ServicesSpec => StreamSpec
<1>1. ServicesInit => StreamInit  BY DEF ServicesInit
<1>2. [ServicesNext]_servicesVars => [StreamNext]_streamVars  BY DEF ServicesNext, Rest, servicesVars
<1> QED BY <1>1, <1>2, PTL DEF ServicesSpec, StreamSpec

(* Whatever the other services do, one loop checks an account and every loop has an owner. *)
THEOREM ServicesOwnLoops == ServicesSpec => []LoopsOwned
BY MovesSync, LoopsAreOwned, PTL

(* No change of the query cache that was accepted is lost. *)
THEOREM ServicesLoseNothing == ServicesSpec => []NoLostChange
BY MovesQueries, NoChangeIsLost, PTL

(* Nothing late shows: results go forward, a cancelled job writes no page, nothing follows the answer to a quit. *)
THEOREM ServicesShowNothingLate == ServicesSpec => NothingLate
BY MovesSync, MovesSession, ShownGoesForward, HeldJobWrites, QuitIsTheLast DEF NothingLate

(* Every frame is answered once, on the whole of what was uploaded for it. *)
THEOREM ServicesAnswer == ServicesSpec => []RequestsWhole
<1>1. AnsweredOnce /\ UploadWhole => RequestsWhole  BY DEF RequestsWhole
<1> QED BY <1>1, MovesSession, MovesUploads, FramesAnsweredOnce, UploadsAreWhole, PTL

(* The helpers of the shell keep their promises side by side. *)
THEOREM ServicesKeepHelpers == ServicesSpec => []HelpersHold
<1>1. UpdatesHold /\ TreeHolds /\ SleepLockHolds => HelpersHold  BY DEF HelpersHold
<1> QED BY <1>1, MovesUpdates, MovesTree, MovesSleep, UpdatesAreSafe, TreeIsSafe, SleepIsSafe, PTL

(* The assistant: no more jobs at once and no more kept than the limits, "done" has its answer, a cancelled read
   stays so, and the answer shown is all of it. *)
THEOREM ServicesKeepAssistant == ServicesSpec => []AssistantKept
<1>1. (AtMostActive /\ KeptBound /\ DoneIsAnswered /\ JobsTypeOK) /\ (CancelledIsFinal /\ EntriesMatch) /\ AnswerIsWhole
      => AssistantKept
  BY DEF AssistantKept
<1> QED BY <1>1, MovesJobs, MovesContexts, MovesStream, JobsAreKept, ContextsKeep, AnswersAreWhole, PTL

(* A job that ended stays as it ended, and a new answer leaves what stands in the transcript alone. *)
THEOREM ServicesKeepHistory == ServicesSpec => AgentHistory
BY MovesJobs, MovesStream, JobsStaySettled, HistoryIsKept DEF AgentHistory

(* Whoever is killed where, an installation can be taken back until it is committed and stays once it is, and what is
   left when nobody works is all new or all old, unless a transaction was torn while it was deleted. *)
THEOREM ServicesInstall == ServicesSpec => []InstallHolds
BY MovesInstall, InstallIsSafe, PTL

(* The requests of an IMAP account: each reads its own answers, the folders kept are no older than the last command
   that changed them, and a read that was cancelled stays so. *)
THEOREM ServicesConnect ==
  ASSUME ~ServerGarbles, IsFiniteSet(CancelReads), (Cardinality(CancelReads) - 1) * ReadDeadline + QueuedFor < KeepFor
  PROVE  ServicesSpec => []ImapConnected
<1>1. (AnswersAreOwn /\ FoldersAreFresh) /\ CancelledStays => ImapConnected  BY DEF ImapConnected
<1> QED BY <1>1, MovesImap, MovesCancel, WiresAreOwned, CancelledStay, PTL

LEMMA MovesChanges == ServicesSpec => ImapChangesSpec
<1>1. ServicesInit => ImapChangesInit  BY DEF ServicesInit
<1>2. [ServicesNext]_servicesVars => [ImapChangesNext]_changeVars  BY DEF ServicesNext, Rest, servicesVars
<1> QED BY <1>1, <1>2, PTL DEF ServicesSpec, ImapChangesSpec

LEMMA MovesPages == ServicesSpec => ImapPagesSpec
<1>1. ServicesInit => ImapPagesInit  BY DEF ServicesInit
<1>2. [ServicesNext]_servicesVars => [ImapPagesNext]_pageVars  BY DEF ServicesNext, Rest, servicesVars
<1> QED BY <1>1, <1>2, PTL DEF ServicesSpec, ImapPagesSpec

(* Of an IMAP account no message is lost by a change, no report, draft or sending says what is not so, and a listing
   shows every match once, in its order (providers/imap: change, drafts, send, list, page and messages). *)
THEOREM ImapIsTrue == ServicesSpec => []ImapTrue
BY MovesChanges, MovesPages, ImapChangesHold, ImapPagesHold, PTL DEF ImapTrue

LEMMA MovesFiles == ServicesSpec => FilesSpec
<1>1. ServicesInit => FilesInit  BY DEF ServicesInit
<1>2. [ServicesNext]_servicesVars => [FilesNext]_filesVars  BY DEF ServicesNext, Rest, servicesVars, FilesNext
<1> QED BY <1>1, <1>2, PTL DEF ServicesSpec, FilesSpec

LEMMA MovesReader == ServicesSpec => ReaderSpec
<1>1. ServicesInit => ReaderInit  BY DEF ServicesInit
<1>2. [ServicesNext]_servicesVars => [ReaderNext]_readerVars  BY DEF ServicesNext, Rest, servicesVars
<1> QED BY <1>1, <1>2, PTL DEF ServicesSpec, ReaderSpec

LEMMA MovesRegistry == ServicesSpec => RegistrySpec
<1>1. ServicesInit => RegistryInit  BY DEF ServicesInit
<1>2. [ServicesNext]_servicesVars => [RegistryNext]_registryVars  BY DEF ServicesNext, Rest, servicesVars
<1> QED BY <1>1, <1>2, PTL DEF ServicesSpec, RegistrySpec

(* Every queue, table, cache and pool keeps to its limits through evictions, refusals and crashes. *)
THEOREM ServicesStores == ServicesSpec => []StoresBounded
<1>1. /\ SyncTypeOK /\ QueryTypeOK /\ SessionTypeOK /\ UploadBudget
      /\ FilesTypeOK /\ BudgetHolds
      /\ AtMostActive /\ KeptBound /\ DoneIsAnswered /\ JobsTypeOK
      /\ RenderAccounts /\ ReaderInv
      => StoresBounded
  BY ReaderInvBudget DEF StoresBounded
<1> QED BY <1>1, MovesSync, MovesQueries, MovesSession, MovesUploads, MovesFiles, MovesJobs, MovesReader, SyncIsTyped,
           QueriesWithin, SessionIsTyped, UploadsWithinBudget, FilesAreWithin, JobsAreKept, RenderIsWithin, ReaderIsWithin, PTL

(* What a store gives up is the right thing: an old copy stays until its replacement is there, the oldest files go
   first, a window that is out of date changes nothing, a reader that was cut off leaves nothing behind, and no save
   takes an account of another process with it. *)
THEOREM ServicesKeep == ServicesSpec => StoresKeep
BY MovesFiles, MovesQueries, MovesReader, MovesRegistry, OldCopyStays, OldestMakeRoom, NewestWindowChanges, CutOffStaysOff,
   AccountsStay, PTL DEF StoresKeep

LEMMA MovesViews == ServicesSpec => ViewsSpec
<1>1. ServicesInit => ViewsInit  BY DEF ServicesInit
<1>2. [ServicesNext]_servicesVars => [ViewsNext]_viewVars  BY DEF ServicesNext, Rest, servicesVars
<1> QED BY <1>1, <1>2, PTL DEF ServicesSpec, ViewsSpec

LEMMA MovesAccountViews == ServicesSpec => AccountViewsSpec
<1>1. ServicesInit => AccountViewsInit  BY DEF ServicesInit
<1>2. [ServicesNext]_servicesVars => [AccountViewsNext]_viewsVars  BY DEF ServicesNext, Rest, servicesVars
<1> QED BY <1>1, <1>2, PTL DEF ServicesSpec, AccountViewsSpec

LEMMA MovesIntents == ServicesSpec => IntentSpec
<1>1. ServicesInit => IntentInit  BY DEF ServicesInit
<1>2. [ServicesNext]_servicesVars => [IntentNext]_intentVars  BY DEF ServicesNext, Rest, servicesVars
<1> QED BY <1>1, <1>2, PTL DEF ServicesSpec, IntentSpec

(* The rows of a list come to what the server says, a message shows the best of its jobs, and the list of several
   accounts has no hole. *)
THEOREM ServicesShowRows == ServicesSpec => []RowsAreTrue
<1>1. ConvergesToServer /\ MessageShowsBest /\ RowsAgree /\ ListHasNoHole => RowsAreTrue  BY DEF RowsAreTrue
<1> QED BY <1>1, MovesIntents, MovesViews, MovesAccountViews, RowsConverge, MessagesShowBest, RowsDoAgree, NoHole, PTL

(* A refusal changes its own messages only, scrolling appends, and the rail remembers the members of the open
   conversation. *)
THEOREM ServicesRowsForward == ServicesSpec => RowsForward
BY MovesIntents, MovesAccountViews, RefusalsAreLocal, RowsOnlyFollow, MembersStayKnown, PTL DEF RowsForward
=============================================================================
