---------------------------- MODULE JmapCompose ----------------------------
(***************************************************************************)
(* Saving and sending one composed message over JMAP                        *)
(* (providers/jmap/mutation.rs: compose, destroy; the request guard of      *)
(* mod.rs).  The message is uploaded, imported as a draft, submitted, and   *)
(* only then is the draft it replaces destroyed.  The request may be        *)
(* cancelled or run out of its 25 seconds at any await; the destroy runs    *)
(* in a task of its own and survives that.                                  *)
(***************************************************************************)
EXTENDS Integers, FiniteSets

CONSTANTS MaxComposes  \* bound: saves and sends of the one message

ASSUME ComposeBound == MaxComposes \in Nat

VARIABLES
    jcStep,     \* where the request is; "idle" between requests
    jcSending,  \* send (TRUE) or saveDraft
    jcOld,      \* the draft the composer knows (draftId), 0 none
    jcNew,      \* the draft this request imported, 0 none
    jcDrafts,   \* drafts on the server
    jcSent,     \* drafts the server submitted
    jcDoomed,   \* drafts whose destroy task still runs
    jcTold,     \* the answer of the last request
    jcNext      \* requests made, and the name of the next draft

composeVars == <<jcStep, jcSending, jcOld, jcNew, jcDrafts, jcSent, jcDoomed, jcTold, jcNext>>

ComposeInit ==
    /\ jcStep = "idle" /\ jcSending = FALSE /\ jcTold = "nothing"
    /\ jcOld = 0 /\ jcNew = 0 /\ jcNext = 1
    /\ jcDrafts = {} /\ jcSent = {} /\ jcDoomed = {}

\* compose up to the upload: roles, limits and identity are checked first.
StartCompose(send) ==
    /\ jcStep = "idle" /\ jcNext <= MaxComposes /\ jcTold \notin {"sent", "unconfirmed"}
    /\ jcStep' = "upload" /\ jcSending' = send /\ jcNew' = 0 /\ jcNext' = jcNext + 1
    /\ UNCHANGED <<jcOld, jcDrafts, jcSent, jcDoomed, jcTold>>

\* The answer reaches the composer, which adopts the saved draft.
Reply(told, old) ==
    /\ jcStep' = "idle" /\ jcTold' = told /\ jcOld' = old /\ jcNew' = 0

\* native_cancellable: the clock and the cancel drop the request where it
\* awaits; a send that timed out is unconfirmed, a cancelled one is not.
Dropped == IF jcSending THEN "unconfirmed" ELSE "failed"
DropCompose ==
    /\ jcStep \notin {"idle", "cleaning"}
    /\ \/ Reply(Dropped, jcOld)
       \/ Reply("cancelled", jcOld)
    /\ UNCHANGED <<jcSending, jcDrafts, jcSent, jcDoomed, jcNext>>

Upload ==
    /\ jcStep = "upload"
    /\ \/ jcStep' = "import" /\ UNCHANGED <<jcOld, jcNew, jcTold>>
       \/ Reply("failed", jcOld)
    /\ UNCHANGED <<jcSending, jcDrafts, jcSent, jcDoomed, jcNext>>

\* Email/import may have been done although its answer is lost.
Import ==
    /\ jcStep = "import"
    /\ \/ /\ jcDrafts' = jcDrafts \cup {jcNext}
          /\ \/ jcStep' = "imported" /\ jcNew' = jcNext /\ UNCHANGED <<jcOld, jcTold>>
             \/ Reply("failed", jcOld)
       \/ /\ UNCHANGED jcDrafts /\ Reply("failed", jcOld)
    /\ UNCHANGED <<jcSending, jcSent, jcDoomed, jcNext>>

\* destroy: starts its own task; the request waits for it.
Doomed(id) == {id} \ {0, jcNew}
Save ==
    /\ jcStep = "imported" /\ ~jcSending
    /\ jcStep' = "cleaning" /\ jcDoomed' = jcDoomed \cup Doomed(jcOld)
    /\ UNCHANGED <<jcSending, jcOld, jcNew, jcDrafts, jcSent, jcTold, jcNext>>

\* EmailSubmission/set with onSuccessUpdateEmail: submitting moves the draft
\* to Sent.  Only an explicit refusal is a failure; no answer is unconfirmed.
Unanswered == "unconfirmed"
JmapSubmit ==
    /\ jcStep = "imported" /\ jcSending
    /\ \/ /\ jcSent' = jcSent \cup {jcNew} /\ jcDrafts' = jcDrafts \ {jcNew}
          /\ \/ /\ jcStep' = "cleaning" /\ jcDoomed' = jcDoomed \cup Doomed(jcOld)
                /\ UNCHANGED <<jcOld, jcNew, jcTold>>
             \/ Reply(Unanswered, jcOld) /\ UNCHANGED jcDoomed
       \/ /\ UNCHANGED <<jcSent, jcDrafts>>
          /\ \/ /\ jcStep' = "refused" /\ jcDoomed' = jcDoomed \cup {jcNew}
                /\ UNCHANGED <<jcOld, jcNew, jcTold>>
             \/ Reply(Unanswered, jcOld) /\ UNCHANGED jcDoomed
    /\ UNCHANGED <<jcSending, jcNext>>

\* The destroy task ends, with the draft gone or not.
Destroy(id) ==
    /\ id \in jcDoomed /\ jcDoomed' = jcDoomed \ {id}
    /\ jcDrafts' \in {jcDrafts, jcDrafts \ {id}}
    /\ UNCHANGED <<jcStep, jcSending, jcOld, jcNew, jcSent, jcTold, jcNext>>

\* The request ends: cleaned up, or with a warning when it was not; or it is
\* dropped while it waits for the clean-up.
EndCompose ==
    /\ jcStep = "cleaning"
    /\ \/ /\ Doomed(jcOld) \cap jcDoomed = {}
          /\ IF jcSending THEN Reply("sent", 0) ELSE Reply("saved", jcNew)
       \/ Reply(Dropped, jcOld)
       \/ Reply("cancelled", jcOld)
    /\ UNCHANGED <<jcSending, jcDrafts, jcSent, jcDoomed, jcNext>>
RefuseCompose ==
    /\ jcStep = "refused" /\ jcNew \notin jcDoomed /\ Reply("failed", jcOld)
    /\ UNCHANGED <<jcSending, jcDrafts, jcSent, jcDoomed, jcNext>>

ComposeNext ==
    \/ \E send \in BOOLEAN : StartCompose(send)
    \/ Upload \/ Import \/ Save \/ JmapSubmit \/ EndCompose \/ RefuseCompose \/ DropCompose
    \/ \E id \in jcDoomed : Destroy(id)
ComposeSpec == ComposeInit /\ [][ComposeNext]_composeVars

------------------------------------
\* A message once saved is never lost: the draft the composer knows is there,
\* or a newer copy of it is, or it was sent.  A send reported sent was
\* submitted, and one reported failed was not.
ComposeIsSafe ==
    /\ jcOld # 0 => \E id \in jcDrafts \cup jcSent : id >= jcOld
    /\ jcStep = "idle" /\ jcTold = "sent" => jcNext \in jcSent
    /\ jcStep = "idle" /\ jcTold = "failed" => jcNext \notin jcSent
=============================================================================
