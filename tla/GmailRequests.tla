--------------------------- MODULE GmailRequests ---------------------------
(***************************************************************************)
(* One Gmail request and one draft mutation above it: the retry budget of   *)
(* gmail_http.rs (execute_with_backoff, attempt) and the search for the     *)
(* draft a message belongs to (resolve_draft and write_call in              *)
(* gmail_writes.rs).  Google's pages may change between two requests and    *)
(* its cursors may repeat.  Time is counted in units of the first backoff.  *)
(*                                                                         *)
(* And the pacing of the requests of one account (AccountSession::pace and  *)
(* pace_within in gmail.rs): a token bucket that books debt under its lock  *)
(* and lets the caller sleep it off outside.  One unit of time refills Rate *)
(* units; bGrants is the history of calls let through, each at its starting *)
(* time in refilled units and with the units spent until then.              *)
(***************************************************************************)
EXTENDS Integers, FiniteSets

CONSTANTS Deadline,   \* DEADLINE of one request, waits included
          Retries,    \* RATE_LIMIT_RETRIES (3)
          Cursors,    \* page tokens Google may hand out
          DraftIds,   \* drafts of the account; each is about one message
          MaxPages    \* pages resolve_draft reads (100)

ASSUME GmailRequestBounds ==
    /\ {Deadline, Retries, MaxPages} \subseteq Nat \ {0}
    /\ "" \notin Cursors /\ "none" \notin DraftIds

VARIABLES
    wPc,       \* idle, page, mutate, done
    wOp,       \* updateDraft or deleteDraft
    wHome,     \* the draft that holds the message now, "none" when it is gone
    wFound,    \* the draft the search answered
    wCursor, wSeen, wPages,
    wRetry, wElapsed,    \* attempts refused so far and time spent in this request
    wSent,     \* requests of this mutation Google carried out
    wAnswer

requestVars == <<wPc, wOp, wHome, wFound, wCursor, wSeen, wPages, wRetry, wElapsed, wSent, wAnswer>>

RequestInit ==
    /\ wPc = "idle" /\ wOp = "none" /\ wHome \in DraftIds \cup {"none"} /\ wFound = "none"
    /\ wCursor = "" /\ wSeen = {} /\ wPages = 0 /\ wRetry = 0 /\ wElapsed = 0
    /\ wSent = 0 /\ wAnswer = "none"

StartDraft(op) ==
    /\ wPc = "idle" /\ wPc' = "page" /\ wOp' = op
    /\ UNCHANGED <<wHome, wFound, wCursor, wSeen, wPages, wRetry, wElapsed, wSent, wAnswer>>

Ends(answer) == wPc' = "done" /\ wAnswer' = answer

\* The draft is saved elsewhere, or discarded, by another client.
DraftMoves(d) ==
    /\ wPc \in {"page", "mutate"} /\ wHome # d /\ wHome' = d
    /\ UNCHANGED <<wPc, wOp, wFound, wCursor, wSeen, wPages, wRetry, wElapsed, wSent, wAnswer>>

\* backoff * 2^retry with up to half a unit of jitter, rounded up.
BackoffOf(retry)    == 2 ^ retry + 1

\* attempt: refused for rate limiting, and the next wait fits the deadline.
Limited ==
    /\ wPc \in {"page", "mutate"} /\ wRetry < Retries
    /\ wElapsed + BackoffOf(wRetry) < Deadline
    /\ wRetry' = wRetry + 1 /\ wElapsed' = wElapsed + BackoffOf(wRetry)
    /\ UNCHANGED <<wPc, wOp, wHome, wFound, wCursor, wSeen, wPages, wSent, wAnswer>>

\* ... or it does not, and the refusal is the answer.
LimitedOut ==
    /\ wPc \in {"page", "mutate"}
    /\ wRetry = Retries \/ wElapsed + BackoffOf(wRetry) >= Deadline
    /\ Ends("limited")
    /\ UNCHANGED <<wOp, wHome, wFound, wCursor, wSeen, wPages, wRetry, wElapsed, wSent>>

\* Every other failure ends the request; a timed-out mutation may have run.
RequestFails ==
    /\ wPc \in {"page", "mutate"} /\ Ends("failed")
    /\ wSent' \in IF wPc = "mutate" THEN {wSent, wSent + 1} ELSE {wSent}
    /\ UNCHANGED <<wOp, wHome, wFound, wCursor, wSeen, wPages, wRetry, wElapsed>>

\* A page that names the message: the search is over.
PageFinds ==
    /\ wPc = "page" /\ wHome # "none"
    /\ wFound' = wHome /\ wPc' = "mutate" /\ wRetry' = 0 /\ wElapsed' = 0
    /\ UNCHANGED <<wOp, wHome, wCursor, wSeen, wPages, wSent, wAnswer>>

\* A page without it: the last one, a cursor that repeats, or the next one.
SeenCursor(cursor)  == cursor \in wSeen
PageMisses(next) ==
    /\ wPc = "page" /\ wPages' = wPages + 1
    /\ IF next = "" THEN /\ Ends(IF wOp = "deleteDraft" THEN "ok" ELSE "missing")
                         /\ UNCHANGED <<wSeen, wCursor, wRetry, wElapsed>>
       ELSE IF SeenCursor(next) \/ wPages' = MaxPages
            THEN Ends("invalid") /\ UNCHANGED <<wSeen, wCursor, wRetry, wElapsed>>
            ELSE /\ wSeen' = wSeen \cup {next} /\ wCursor' = next
                 /\ wRetry' = 0 /\ wElapsed' = 0 /\ UNCHANGED <<wPc, wAnswer>>
    /\ UNCHANGED <<wOp, wHome, wFound, wSent>>

\* write: the draft that was found is replaced or deleted.
Mutates ==
    /\ wPc = "mutate" /\ wSent' = wSent + 1 /\ Ends("ok")
    /\ UNCHANGED <<wOp, wHome, wFound, wCursor, wSeen, wPages, wRetry, wElapsed>>

RequestNext ==
    \/ \E op \in {"updateDraft", "deleteDraft"} : StartDraft(op)
    \/ \E d \in DraftIds \cup {"none"} : DraftMoves(d)
    \/ Limited \/ LimitedOut \/ RequestFails \/ PageFinds \/ Mutates
    \/ \E next \in Cursors \cup {""} : PageMisses(next)
RequestSpec == RequestInit /\ [][RequestNext]_requestVars

------------------------------------
\* Waits stay inside the request's deadline, no page is read twice, Google
\* carries a mutation out at most once, and "ok" without one is said only of
\* deleting a draft no page named.
RequestIsBounded ==
    /\ wElapsed < Deadline /\ wSent <= 1
    /\ wPages <= Cardinality(wSeen) + 1
    /\ wAnswer = "ok" => wSent = 1 \/ (wOp = "deleteDraft" /\ wFound = "none")

------------------------------------
(* The quota of an account *)

CONSTANTS Rate,       \* QUOTA_UNITS_PER_SECOND
          Burst,      \* QUOTA_BURST
          Costs,      \* what calls cost
          MaxWait,    \* QUOTA_MAX_WAIT of a request; the drainer has no limit
          MaxClock,   \* bound: the clock
          MaxCalls    \* bound: calls

ASSUME QuotaBounds ==
    /\ {Rate, Burst, MaxClock, MaxCalls} \subseteq Nat \ {0} /\ MaxWait \in Nat
    /\ Costs \subseteq Nat \ {0}

VARIABLES bClock, bUnits, bRefilled, bGrants, bSpent, bAsked
bucketVars == <<bClock, bUnits, bRefilled, bGrants, bSpent, bAsked>>

BucketInit == bClock = 0 /\ bUnits = Burst /\ bRefilled = 0 /\ bGrants = {} /\ bSpent = 0 /\ bAsked = 0

\* The units in the bucket now; the refill is capped at the burst.
Lower(a, b)   == IF a < b THEN a ELSE b
Refill        == Lower(bUnits + (bClock - bRefilled) * Rate, Burst)

\* A debt is slept off in time units of one refilled unit: debt / Rate.
DebtOf(units) == IF units < 0 THEN 0 - units ELSE 0

\* pace_within: an impossible wait is refused and costs nothing.
Pace(cost, patient) ==
    LET spent == Lower(cost, Burst)
        debt  == DebtOf(Refill - spent) IN
    /\ bAsked < MaxCalls /\ bAsked' = bAsked + 1
    /\ bRefilled' = bClock
    /\ IF ~patient /\ debt > MaxWait * Rate
       THEN bUnits' = Refill /\ UNCHANGED <<bGrants, bSpent>>
       ELSE /\ bUnits' = Refill - spent /\ bSpent' = bSpent + spent
            /\ bGrants' = bGrants \cup {[n |-> bAsked, at |-> bClock * Rate + debt, cost |-> spent, total |-> bSpent']}
    /\ UNCHANGED bClock

BucketTick == bClock < MaxClock /\ bClock' = bClock + 1 /\ UNCHANGED <<bUnits, bRefilled, bGrants, bSpent, bAsked>>

BucketNext == BucketTick \/ \E cost \in Costs, patient \in BOOLEAN : Pace(cost, patient)

BucketSpec == BucketInit /\ [][BucketNext]_bucketVars

\* Whatever the calls and however long some of them wait, no window of time
\* sees more units go out than a burst and what refilled meanwhile: from the
\* start of one call to that of a later one, which is never before it.
NeverOverQuota ==
    \A g, h \in bGrants : g.n <= h.n =>
        /\ g.at <= h.at
        /\ h.total - g.total + g.cost <= Burst + (h.at - g.at)
=============================================================================
