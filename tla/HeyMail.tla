------------------------------ MODULE HeyMail ------------------------------
(***************************************************************************)
(* HEY through its own command-line program (providers/hey*.rs).  Every    *)
(* call names its account, and the program is first asked who is signed    *)
(* in.  One browser sign-in runs at a time; a mutation is run once and     *)
(* never again; a read drops the optional flags the program refuses, for   *)
(* all later reads; a list is cut into pages of the interface's size out   *)
(* of pages of the program's size.                                         *)
(***************************************************************************)
EXTENDS Integers, Sequences, FiniteSets, Ranks

CONSTANTS HeyCalls,     \* calls ever made
          HeyNames,     \* identities that can sign in
          HeyFlags,     \* "--html" and "--allow-partial"
          HeyRows,      \* the rows of a box: [id, seen, ok]; one that is not ok has no topic
          ToolPage,     \* rows of a page of the program
          UnseenCap,    \* 100: rows looked at for unseen mail
          HeySizes,     \* page sizes asked for
          MaxReplaced   \* bound: times the program is replaced

ASSUME HeyBounds == /\ ToolPage \in Nat \ {0} /\ UnseenCap \in Nat /\ HeySizes \subseteq Nat \ {0} /\ MaxReplaced \in Nat
                    /\ HeyRows \in Seq({HeyRows[i] : i \in DOMAIN HeyRows})

VARIABLES
    hyUser,     \* who the program has signed in, or "none"
    hyJob,      \* the sign-in job: "none", "running", "ok", "failed"
    hyBrowsing, \* a sign-in program is at work
    hyCall,     \* call -> [at, verb, flags, clean, report]
    hyEffects,  \* call -> times the program carried it out
    hyOut,      \* a logout was answered, and no sign-in was begun since it was called
    hyKnown,    \* flags the installed program knows
    hyDropped,  \* flags no read sends any more
    hyReplaced, \* times the program was replaced
    hyWalk      \* the pages of one list: [at, kind, size, old, offset, cursor, got]

heyVars == <<hyUser, hyJob, hyBrowsing, hyCall, hyEffects, hyOut, hyKnown, hyDropped, hyReplaced, hyWalk>>

NewCall == [at |-> "new", verb |-> "none", flags |-> {}, clean |-> FALSE, report |-> "none"]
NoWalk == [at |-> "idle", kind |-> "none", size |-> 1, old |-> FALSE, offset |-> 0, cursor |-> 1, got |-> <<>>]

HeyInit ==
    /\ hyUser \in HeyNames \cup {"none"} /\ hyJob = "none" /\ hyBrowsing = FALSE /\ hyOut = FALSE
    /\ hyCall = [c \in HeyCalls |-> NewCall] /\ hyEffects = [c \in HeyCalls |-> 0]
    /\ hyKnown \in SUBSET HeyFlags /\ hyDropped = {} /\ hyReplaced = 0 /\ hyWalk = NoWalk

PutCall(c, v) == hyCall' = [hyCall EXCEPT ![c] = v]
Told(c, report) == PutCall(c, [hyCall[c] EXCEPT !.at = "done", !.report = report])

------------------------------------
(* Signing in and out *)

\* login: at most one job.  Any of the three calls takes the result of a job
\* that has ended, also the one that asks for a new sign-in.
Ended == hyJob \in {"ok", "failed"}
LoginStart ==
    /\ IF hyJob = "none"
       THEN /\ hyJob' = "running" /\ hyBrowsing' = TRUE /\ hyOut' = FALSE
            /\ hyCall' = [c \in HeyCalls |-> [hyCall[c] EXCEPT !.clean = FALSE]]
       ELSE Ended /\ hyJob' = "none" /\ UNCHANGED <<hyBrowsing, hyOut, hyCall>>
    /\ UNCHANGED <<hyUser, hyEffects, hyKnown, hyDropped, hyReplaced, hyWalk>>
LoginPoll ==
    /\ Ended /\ hyJob' = "none"
    /\ UNCHANGED <<hyUser, hyBrowsing, hyCall, hyEffects, hyOut, hyKnown, hyDropped, hyReplaced, hyWalk>>
\* The cancelled job is waited for: its program is dead before the answer.
Cancelled == hyJob' = "none" /\ hyBrowsing' = FALSE
LoginCancel ==
    /\ hyJob # "none" /\ Cancelled
    /\ UNCHANGED <<hyUser, hyCall, hyEffects, hyOut, hyKnown, hyDropped, hyReplaced, hyWalk>>
\* The program ends, or is killed after three minutes; it may have signed
\* somebody in either way.
LoginEnds ==
    /\ hyBrowsing /\ hyBrowsing' = FALSE
    /\ \E result \in {"ok", "failed"} :
          /\ hyJob' = IF hyJob = "running" THEN result ELSE hyJob
          /\ hyUser' \in (IF result = "ok" THEN HeyNames ELSE HeyNames \cup {hyUser})
    /\ UNCHANGED <<hyCall, hyEffects, hyOut, hyKnown, hyDropped, hyReplaced, hyWalk>>

\* hey.logout: the sign-in is cancelled, then the program signs out.
HeyLogout(c) ==
    /\ hyCall[c].at = "new" /\ Cancelled
    /\ PutCall(c, [hyCall[c] EXCEPT !.at = "out", !.verb = "logout", !.clean = TRUE])
    /\ UNCHANGED <<hyUser, hyEffects, hyOut, hyKnown, hyDropped, hyReplaced, hyWalk>>
HeyLogoutRun(c) ==
    /\ hyCall[c].at = "out"
    /\ \/ hyUser' = "none" /\ Told(c, "ok") /\ hyOut' = (hyOut \/ hyCall[c].clean)
       \/ hyUser' \in {"none", hyUser} /\ Told(c, "error") /\ UNCHANGED hyOut
    /\ UNCHANGED <<hyJob, hyBrowsing, hyEffects, hyKnown, hyDropped, hyReplaced, hyWalk>>

------------------------------------
(* Mutations and reads *)

\* checked_params: the program must be the one the interface shows, and its
\* identity the account's.
BindCall(c, verb, account) ==
    /\ hyCall[c].at = "new"
    /\ PutCall(c, IF hyUser = account
                  THEN [hyCall[c] EXCEPT !.at = "bound", !.verb = verb,
                                         !.flags = IF verb = "read" THEN HeyFlags \ hyDropped ELSE {}]
                  ELSE [hyCall[c] EXCEPT !.at = "done", !.verb = verb, !.report = "error"])
    /\ UNCHANGED <<hyUser, hyJob, hyBrowsing, hyEffects, hyOut, hyKnown, hyDropped, hyReplaced, hyWalk>>

\* hey_actions::call: a batch, a message or a draft is prepared whole, then the
\* program is run once.  An edit of a draft first asks whether the program
\* takes the body on its standard input.
AskHelp(c, takesInput) ==
    /\ hyCall[c].at = "bound" /\ hyCall[c].verb = "edit"
    /\ PutCall(c, IF takesInput THEN [hyCall[c] EXCEPT !.at = "ready"]
                  ELSE [hyCall[c] EXCEPT !.at = "done", !.report = "error"])
    /\ UNCHANGED <<hyUser, hyJob, hyBrowsing, hyEffects, hyOut, hyKnown, hyDropped, hyReplaced, hyWalk>>
MayMutate(c) == hyCall[c].at = "ready" \/ (hyCall[c].at = "bound" /\ hyCall[c].verb = "act")
\* The program says ok; or fails, is killed at twenty seconds, or answers
\* nonsense, and may have done its work all the same.
RunOnce(c) ==
    \/ hyEffects' = [hyEffects EXCEPT ![c] = @ + 1] /\ Told(c, "ok")
    \/ hyEffects' \in {hyEffects, [hyEffects EXCEPT ![c] = @ + 1]} /\ Told(c, "error")
Mutate(c) == /\ MayMutate(c) /\ hyUser # "none" /\ RunOnce(c)
             /\ UNCHANGED <<hyUser, hyJob, hyBrowsing, hyOut, hyKnown, hyDropped, hyReplaced, hyWalk>>
MutateRefused(c) == /\ MayMutate(c) /\ Told(c, "error")
                    /\ UNCHANGED <<hyUser, hyJob, hyBrowsing, hyEffects, hyOut, hyKnown, hyDropped, hyReplaced, hyWalk>>

\* read_thread: a flag the program refuses is dropped, for later reads too, and the read is run again.  The refusal is
\* found as a text of the failed run's outputs, which may hold mail: also a flag the program knows can go.
Unknown(c) == hyCall[c].flags \ hyKnown
Negotiate(c, flag) ==
    /\ hyCall[c].at = "bound" /\ hyCall[c].verb = "read" /\ flag \in hyCall[c].flags
    /\ PutCall(c, [hyCall[c] EXCEPT !.flags = @ \ {flag}])
    /\ hyDropped' = hyDropped \cup {flag}
    /\ UNCHANGED <<hyUser, hyJob, hyBrowsing, hyEffects, hyOut, hyKnown, hyReplaced, hyWalk>>
ReadThread(c, report) ==
    /\ hyCall[c].at = "bound" /\ hyCall[c].verb = "read" /\ (report = "ok" => Unknown(c) = {})
    /\ Told(c, report)
    /\ UNCHANGED <<hyUser, hyJob, hyBrowsing, hyEffects, hyOut, hyKnown, hyDropped, hyReplaced, hyWalk>>

\* The program is replaced by another version.
Replace(known) ==
    /\ hyReplaced < MaxReplaced /\ hyReplaced' = hyReplaced + 1 /\ hyKnown' = known
    /\ UNCHANGED <<hyUser, hyJob, hyBrowsing, hyCall, hyEffects, hyOut, hyDropped, hyWalk>>

------------------------------------
(* Lists *)

\* query: what is asked for; a box may be narrowed to its unseen mail.
Kinds == {"box", "search", "drafts", "unseen"}
\* command and list_request: one page of the program.  Unseen mail is looked for
\* in one long page; a program that knows only the older `drafts` gives all.
ToolRows(w) ==
    LET all == Len(HeyRows)
    IN CASE w.kind = "unseen" -> SubSeq(HeyRows, 1, IF UnseenCap < all THEN UnseenCap ELSE all)
         [] w.kind = "drafts" /\ w.old -> HeyRows
         [] OTHER -> LET from == (w.cursor - 1) * ToolPage
                     IN SubSeq(HeyRows, from + 1, IF from + ToolPage < all THEN from + ToolPage ELSE all)
HasMore(w) == w.kind \notin {"unseen"} /\ ~(w.kind = "drafts" /\ w.old) /\ w.cursor * ToolPage < Len(HeyRows)
\* listing: rows that cannot be opened, and seen ones where unseen are wanted, are left out.
Wanted(kind, rows) == {i \in DOMAIN rows : rows[i].ok /\ (kind = "unseen" => ~rows[i].seen)}
Listing(kind, rows) == Picked(rows, Wanted(kind, rows))

\* The token of the next page: further in this page of the program, or the
\* next of them.  A search has no token of its own: a page with rows has a next.
Following(w, total) ==
    CASE w.offset + w.size < total -> [w EXCEPT !.offset = @ + w.size]
      [] w.offset + w.size >= total /\ (IF w.kind = "search" THEN total > 0 ELSE HasMore(w)) ->
            [w EXCEPT !.offset = 0, !.cursor = @ + 1]
      [] OTHER -> [w EXCEPT !.at = "end"]
StartWalk(kind, size, old) ==
    /\ hyWalk.at = "idle"
    /\ hyWalk' = [NoWalk EXCEPT !.at = "walk", !.kind = kind, !.size = size, !.old = old]
    /\ UNCHANGED <<hyUser, hyJob, hyBrowsing, hyCall, hyEffects, hyOut, hyKnown, hyDropped, hyReplaced>>
NextPage ==
    LET rows == Listing(hyWalk.kind, ToolRows(hyWalk))
        last == IF hyWalk.offset + hyWalk.size < Len(rows) THEN hyWalk.offset + hyWalk.size ELSE Len(rows)
    IN /\ hyWalk.at = "walk"
       /\ hyWalk' = Following([hyWalk EXCEPT !.got = @ \o SubSeq(rows, hyWalk.offset + 1, last)], Len(rows))
       /\ UNCHANGED <<hyUser, hyJob, hyBrowsing, hyCall, hyEffects, hyOut, hyKnown, hyDropped, hyReplaced>>

HeyCallNext ==
    \/ LoginStart \/ LoginPoll \/ LoginCancel \/ LoginEnds
    \/ \E c \in HeyCalls :
          \/ HeyLogout(c) \/ HeyLogoutRun(c) \/ Mutate(c) \/ MutateRefused(c)
          \/ \E v \in {"act", "edit", "read"}, a \in HeyNames : BindCall(c, v, a)
          \/ \E h \in BOOLEAN : AskHelp(c, h)
          \/ \E f \in HeyFlags : Negotiate(c, f)
          \/ \E r \in {"ok", "error"} : ReadThread(c, r)
    \/ \E k \in SUBSET HeyFlags : Replace(k)
HeyListNext ==
    \/ NextPage
    \/ \E k \in Kinds, s \in HeySizes, old \in BOOLEAN : StartWalk(k, s, old)

------------------------------------
\* Once a logout is answered nobody is signed in, until a sign-in is begun that
\* was not there when the logout was called: a browser sign-in that was running
\* cannot come back behind it.
LogoutHolds == hyOut => hyUser = "none"

\* A mutation is carried out at most once, and has been if it is reported done.
MutatesOnce == \A c \in HeyCalls : /\ hyEffects[c] <= 1
                                   /\ hyCall[c].report = "ok" /\ hyCall[c].verb \in {"act", "edit"} => hyEffects[c] = 1

\* The pages of a list are the list: no row is missing or comes twice, however
\* the two page sizes fall.  Two lists are shorter by design: unseen mail is
\* looked for in so many rows only, and a search ends at a page without a row.
Everything(w) ==
    LET seen == IF w.kind = "unseen" THEN SubSeq(HeyRows, 1, IF UnseenCap < Len(HeyRows) THEN UnseenCap ELSE Len(HeyRows))
                ELSE HeyRows
    IN Listing(w.kind, seen)
HeyListIsWhole ==
    LET want == Everything(hyWalk)
    IN hyWalk.at = "end" =>
          IF hyWalk.kind = "search"
          THEN \E n \in 0 .. Len(want) : hyWalk.got = SubSeq(want, 1, n) /\ (n < Len(want) => Listing("search", ToolRows(hyWalk)) = <<>>)
          ELSE hyWalk.got = want
HeyIsTrue == LogoutHolds /\ MutatesOnce /\ HeyListIsWhole

------------------------------------
(***************************************************************************)
(* One run of a provider's program (process/async_run.rs): its input is    *)
(* written, both its outputs are read and its end is waited for at once,   *)
(* over pipes that hold only so much; whatever the outcome, the program    *)
(* and its process group are killed before the answer.  A descendant with  *)
(* a session of its own is outside that group and outlives the run.        *)
(***************************************************************************)

CONSTANTS Programs,     \* what a program may do: sequences of the ops below
          PipeCap,      \* what a pipe holds
          Inputs,       \* sizes of input
          OutLimit,     \* the largest output taken
          ErrLimit      \* the largest output of diagnostics taken

\* A process the program leaves behind: of its group or with a session of its own, with the program's pipes open or not.
GroupHeirs == {"fork", "quiet"}
PipeHeirs == {"fork", "detach"}
Heirs == {"fork", "quiet", "detach", "daemon"}

ASSUME ProcessBounds == /\ PipeCap \in Nat \ {0} /\ Inputs \subseteq Nat /\ OutLimit \in Nat /\ ErrLimit \in Nat
                        /\ Programs \subseteq Seq({"in", "out", "err"} \cup Heirs)

VARIABLES
    prPlan,     \* what the program has still to do
    prAlive,    \* "run", "ok" or "bad" (how it exited), "killed"
    prHeirs,    \* the processes it left behind
    prLeft,     \* input not yet written
    prPipe,     \* "in", "out", "err" -> what the pipe holds
    prSaid,     \* what the program and its heirs wrote on its output
    prGot,      \* "out", "err" -> what was read
    prResult    \* "none", "ok", "bad" (the program's own failure), or the error of the run

runVars == <<prPlan, prAlive, prHeirs, prLeft, prPipe, prSaid, prGot, prResult>>

ProcessInit ==
    /\ prPlan \in Programs /\ prAlive = "run" /\ prHeirs = {} /\ prLeft \in Inputs
    /\ prPipe = [p \in {"in", "out", "err"} |-> 0] /\ prSaid = 0
    /\ prGot = [p \in {"out", "err"} |-> 0] /\ prResult = "none"

RunGoesOn == prResult = "none"
PipesHeld == prAlive = "run" \/ prHeirs \cap PipeHeirs # {}
\* The answer of the run: the group is killed first, and no other process (Tree's drop, kill_on_drop).
TreeKilled == prAlive' = (IF prAlive = "run" THEN "killed" ELSE prAlive) /\ prHeirs' = prHeirs \ GroupHeirs
EndRun(result) == prResult' = result /\ TreeKilled /\ UNCHANGED <<prPlan, prLeft, prPipe, prSaid, prGot>>

------------------------------------
(* The program *)

\* A read waits for input or for its end; a write waits for room.
ProgramWaits ==
    /\ prPlan # <<>>
    /\ \/ Head(prPlan) = "in" /\ prPipe["in"] = 0 /\ prLeft > 0
       \/ Head(prPlan) \in {"out", "err"} /\ prPipe[Head(prPlan)] >= PipeCap
ProgramStep ==
    /\ prAlive = "run" /\ prPlan # <<>> /\ ~ProgramWaits
    /\ CASE Head(prPlan) = "in" ->
              /\ prPipe' = [prPipe EXCEPT !["in"] = IF @ > 0 THEN @ - 1 ELSE 0]
              /\ UNCHANGED <<prHeirs, prSaid>>
         [] Head(prPlan) \in Heirs -> prHeirs' = prHeirs \cup {Head(prPlan)} /\ UNCHANGED <<prPipe, prSaid>>
         [] OTHER ->
              /\ prPipe' = [prPipe EXCEPT ![Head(prPlan)] = @ + 1]
              /\ prSaid' = prSaid + (IF Head(prPlan) = "out" THEN 1 ELSE 0)
              /\ UNCHANGED prHeirs
    /\ prPlan' = Tail(prPlan)
    /\ UNCHANGED <<prAlive, prLeft, prGot, prResult>>
ProgramExit ==
    /\ prAlive = "run" /\ prPlan = <<>> /\ prAlive' \in {"ok", "bad"}
    /\ UNCHANGED <<prPlan, prHeirs, prLeft, prPipe, prSaid, prGot, prResult>>
\* A process left behind ends by itself, one with the pipes open perhaps after a last word, read or not.
HeirEnds(h) ==
    /\ h \in prHeirs /\ prHeirs' = prHeirs \ {h}
    /\ \/ UNCHANGED <<prPipe, prSaid>>
       \/ /\ h \in PipeHeirs /\ prPipe["out"] < PipeCap
          /\ prPipe' = [prPipe EXCEPT !["out"] = @ + 1] /\ prSaid' = prSaid + 1
    /\ UNCHANGED <<prPlan, prAlive, prLeft, prGot, prResult>>

------------------------------------
(* The run: four tasks at once *)

\* Writing the input waits for room, and fails once nobody can read it: heirs may have closed it.
InputWaits == prLeft = 0 \/ prPipe["in"] >= PipeCap
WriteInput ==
    /\ RunGoesOn /\ prLeft > 0
    /\ \/ prAlive # "run" /\ EndRun("input_failed")
       \/ /\ PipesHeld /\ ~InputWaits
          /\ prPipe' = [prPipe EXCEPT !["in"] = @ + 1] /\ prLeft' = prLeft - 1
          /\ UNCHANGED <<prPlan, prAlive, prHeirs, prSaid, prGot, prResult>>

\* read: a pipe is read as it fills, up to its limit.
MayRead(p) == prPipe[p] > 0
ReadOutput(p, limit) ==
    /\ RunGoesOn /\ MayRead(p)
    /\ IF prGot[p] = limit THEN EndRun("too_large")
       ELSE /\ prPipe' = [prPipe EXCEPT ![p] = @ - 1] /\ prGot' = [prGot EXCEPT ![p] = @ + 1]
            /\ UNCHANGED <<prPlan, prAlive, prHeirs, prLeft, prSaid, prResult>>

\* Both outputs are at their end when nobody holds them open.
AtEnd(p) == prPipe[p] = 0 /\ ~PipesHeld
RunJoined ==
    /\ RunGoesOn /\ prLeft = 0 /\ AtEnd("out") /\ AtEnd("err")
    /\ EndRun(prAlive)
\* The time limit, also while a heir of another session holds the outputs; a call that is dropped ends in the same way.
RunTimesOut == RunGoesOn /\ EndRun("timed_out")

ProcessNext == ProgramStep \/ ProgramExit \/ (\E h \in Heirs : HeirEnds(h)) \/ WriteInput \/ ReadOutput("out", OutLimit) \/ ReadOutput("err", ErrLimit) \/ RunJoined \/ RunTimesOut

------------------------------------
\* An answer of the program is whole: all that it and the processes it left with its
\* pipes wrote was read, to the end.  However the run ends, no process of the group
\* outlives it; what may is a descendant with a session of its own (process/mod.rs:76),
\* and after an answer it no longer holds the pipes.
AnswerWholeGroupGone ==
    /\ prResult \in {"ok", "bad"} => prGot["out"] = prSaid /\ prLeft = 0 /\ ~PipesHeld
    /\ ~RunGoesOn => prAlive # "run" /\ prHeirs \cap GroupHeirs = {}

\* The program and the run never wait on each other: whatever order the program
\* reads and writes in, and however much, one of them can go on, so that the
\* time limit is for programs that stand still by themselves.
NeverBothWaiting ==
    RunGoesOn /\ prAlive = "run" => ~(ProgramWaits /\ InputWaits /\ ~MayRead("out") /\ ~MayRead("err"))
=============================================================================
