---------------------------- MODULE MCProviders ----------------------------
(***************************************************************************)
(* Small instances of what talks to the mail servers, checked side by      *)
(* side: `part` says which of them a behaviour is about.                   *)
(***************************************************************************)
EXTENDS GmailQueue, GmailRequests, MailActions, MailSend, JmapMail, JmapCompose,
        JmapPush, JmapSession, SignIn, HeyMail, TLC

VARIABLE part   \* the component that runs

\* The rows an action may name, and two JMAP messages of one thread.
ActionRows == [x |-> <<"m1", "m2">>, y |-> <<"m2">>, z |-> <<"m1", "m2", "m3", "m4">>]
\* A HEY box with rows that are seen and rows without a topic, and programs that
\* read and write in different orders, some leaving processes behind.
HeyBox == [i \in 1 .. 5 |-> [id |-> i, seen |-> i \in {2, 4}, ok |-> i \notin {3, 4}]]
SmallPrograms == {<<"in", "out", "in", "out", "in", "out">>, <<"out", "out", "err", "err", "in", "in", "in">>,
                  <<"err", "in", "fork", "out">>, <<"daemon", "in", "detach", "quiet", "out">>, <<"in", "in", "in", "out", "out", "out", "out">>}
OneThread == [m \in JmapIds |-> "t1"]

\* The other components stay where they began.
Rest(p) == /\ p # "gmail" => UNCHANGED gmailVars
           /\ p # "bucket" => UNCHANGED bucketVars
           /\ p # "requests" => UNCHANGED requestVars
           /\ p # "actions" => UNCHANGED mailVars
           /\ p # "send" => UNCHANGED sendVars
           /\ p # "jmap mail" => UNCHANGED jmapMailVars
           /\ p # "jmap drafts" => UNCHANGED composeVars
           /\ p # "jmap pages" => UNCHANGED pagesVars
           /\ p # "jmap push" => UNCHANGED pushVars
           /\ p # "jmap session" => UNCHANGED jmapSessionVars
           /\ p # "jmap discovery" => UNCHANGED discoveryVars
           /\ p \notin {"outlook", "google"} => UNCHANGED signVars
           /\ p \notin {"hey", "hey lists"} => UNCHANGED heyVars
           /\ p # "run" => UNCHANGED runVars
Parts == {"gmail", "bucket", "requests", "actions", "send", "jmap mail", "jmap drafts", "jmap pages", "jmap push",
          "jmap session", "jmap discovery", "outlook", "google", "hey", "hey lists", "run"}
\* A component that is not the one of the behaviour begins in one of its initial states only.
OneStart == /\ part # "requests" => wHome = "none"
            /\ part # "actions" => lsServer = {}
            /\ \A m \in JmapIds : jmServer[m].box = "inbox" \/ (part = "jmap mail" /\ m # "m1")
            /\ part # "jmap discovery" => jdRoot = "o1" /\ jdDoc.secret = "s1"
            /\ part # "jmap pages" => Len(jpList) = 4
            /\ part # "hey" => hyUser = "none" /\ hyKnown = HeyFlags
            /\ part # "run" => Len(prPlan) = 4 /\ prLeft = 0
ProvidersInit ==
    /\ GmailInit
    /\ BucketInit
    /\ RequestInit
    /\ MailInit
    /\ SendInit
    /\ JmapMailInit
    /\ ComposeInit
    /\ PagesInit
    /\ PushInit
    /\ JmapSessionInit
    /\ DiscoveryInit
    /\ SignInit
    /\ HeyInit
    /\ ProcessInit
    /\ part \in Parts
    /\ OneStart
ProvidersNext ==
    /\ UNCHANGED part /\ Rest(part)
    /\ \/ part = "gmail" /\ GmailNext
       \/ part = "bucket" /\ BucketNext
       \/ part = "requests" /\ RequestNext
       \/ part = "actions" /\ MailNext
       \/ part = "send" /\ SendNext
       \/ part = "jmap mail" /\ JmapMailNext
       \/ part = "jmap drafts" /\ ComposeNext
       \/ part = "jmap pages" /\ PagesNext
       \/ part = "jmap push" /\ PushNext
       \/ part = "jmap session" /\ JmapSessionNext
       \/ part = "jmap discovery" /\ DiscoveryNext
       \/ part = "outlook" /\ LaneNext
       \/ part = "google" /\ FlowNext
       \/ part = "hey" /\ HeyCallNext
       \/ part = "hey lists" /\ HeyListNext
       \/ part = "run" /\ ProcessNext
providersVars == <<part, gmailVars, bucketVars, requestVars, mailVars, sendVars, jmapMailVars, composeVars, pagesVars,
                   pushVars, jmapSessionVars, discoveryVars, signVars, heyVars, runVars>>
ProvidersSpec == ProvidersInit /\ [][ProvidersNext]_providersVars

(* Gmail: requests go out in order, a lost grant is refreshed once, the quota and the time of a call hold. *)
GmailOrdered == GmailSentInOrder /\ OneRefreshPerLoss /\ NeverOverQuota /\ RequestIsBounded
(* What an action on messages reports is what happened, and a list is whole: also of the program HEY is reached
   through, whose runs are read to their end, never stand still and leave nothing of their process group. *)
MailReported == ReportIsTrue /\ ListIsWhole /\ (part \in {"hey", "hey lists"} => HeyIsTrue) /\ (part = "run" => AnswerWholeGroupGone /\ NeverBothWaiting)
(* JMAP: the answer to a change, the drafts, the pages of a mailbox, the push of news, and where a credential goes. *)
JmapTrue == JmapChangeIsTrue /\ ComposeIsSafe /\ PagesAreWhole /\ PushReachesUntaught /\ CredentialStaysHome
(* A session that was replaced is over: a retired JMAP session sends nothing, a sign-in with Outlook that was
   replaced or cleared does not come back, and a grant of Google is that of its own flow. *)
SessionsOver == RetiredIsQuiet /\ [](SignOutHolds /\ TokensAreCurrent /\ GrantOfItsFlow)
=============================================================================
