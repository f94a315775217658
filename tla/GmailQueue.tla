----------------------------- MODULE GmailQueue -----------------------------
(***************************************************************************)
(* One Gmail account inside the backend (providers/gmail.rs, gmail_queue.rs *)
(* and the transport of gmail_http.rs).  Readers and the queue drainer      *)
(* share an account session: a grant refreshed under a lock, and a validity *)
(* flag that logout clears.  Message mutations join an in-memory queue that *)
(* one drainer sends in order; the caller gets a ticket at once and the     *)
(* outcome is announced later.                                              *)
(***************************************************************************)
EXTENDS Integers, Sequences, FiniteSets, SequencesExt

CONSTANTS GmailReaders,  \* concurrent direct calls
          MaxSessions,   \* bound: sessions created for the account
          MaxGrants,     \* bound: access tokens minted
          MaxTickets,    \* bound: mutations booked
          MaxPending,    \* MAX_PENDING (4096)
          MaxWaits,      \* length of BACKOFF (4)
          MaxRevoked     \* bound: grants Google stops accepting, or that expire

ASSUME GmailBounds ==
    /\ {MaxSessions, MaxGrants, MaxTickets, MaxPending} \subseteq Nat \ {0}
    /\ {MaxWaits, MaxRevoked} \subseteq Nat
    /\ {"drain", "free"} \cap GmailReaders = {}

VARIABLES
    gSession,   \* the session in Session.accounts, 0 when there is none
    gRetired,   \* sessions whose valid flag is cleared
    gCreated,   \* sessions created so far
    gToken,     \* AccountSession.token: the cached grant of each session, or 0
    gLock,      \* who holds the token lock of each session while it refreshes
    gMinted,    \* grants minted so far
    gRevoked,   \* grants Google answers with 401, and local expiries
    gExpired,   \* grants that ran out here
    gActor,     \* what each reader and the drainer is doing
    gBooking,   \* entries between the validity check and the queue lock
    gPending,   \* AccountQueue.pending
    gBooked,    \* the order in which entries joined the queue
    gSettled,   \* the announced outcome of each ticket: none, open, or its answer
    gApplied,   \* mutations Google carried out, in order
    gSweep      \* a logout that retired the session and not yet the queue

gmailVars == <<gSession, gRetired, gCreated, gToken, gLock, gMinted, gRevoked, gExpired,
               gActor, gBooking, gPending, gBooked, gSettled, gApplied, gSweep>>

GmailActors == GmailReaders \cup {"drain"}
SessionIds  == 1..MaxSessions
Tickets     == 1..MaxTickets
IdleGmail        == [pc |-> "idle", s |-> 0, tok |-> 0, again |-> FALSE, job |-> 0,
                waits |-> 0, answer |-> "none"]

GmailInit ==
    /\ gSession = 0 /\ gRetired = {} /\ gCreated = 0
    /\ gToken = [s \in SessionIds |-> 0] /\ gLock = [s \in SessionIds |-> "free"]
    /\ gMinted = 0 /\ gRevoked = {} /\ gExpired = {}
    /\ gActor = [a \in GmailActors |-> IdleGmail]
    /\ gBooking = {} /\ gPending = <<>> /\ gBooked = <<>>
    /\ gSettled = [t \in Tickets |-> "none"] /\ gApplied = <<>> /\ gSweep = FALSE

------------------------------------
(* The account table *)

\* Session::account: the session in the table, or a fresh one.
SessionFor(s) ==
    \/ /\ gSession # 0 /\ s = gSession /\ UNCHANGED <<gSession, gCreated>>
    \/ /\ gSession = 0 /\ gCreated < MaxSessions
       /\ s = gCreated + 1 /\ gCreated' = s /\ gSession' = s

\* A full table drops a session nobody uses and whose grant is gone.
EvictSession ==
    /\ gSession # 0 /\ gToken[gSession] = 0
    /\ \A a \in GmailActors : gActor[a].s # gSession
    /\ \A e \in gBooking \cup ToSet(gPending) : e.s # gSession
    /\ gSession' = 0
    /\ UNCHANGED <<gRetired, gCreated, gToken, gLock, gMinted, gRevoked, gExpired, gActor,
                   gBooking, gPending, gBooked, gSettled, gApplied, gSweep>>

------------------------------------
(* One authorised call: token_with, the request, reject *)

\* A settlement is announced once and kept.
Settle(ts, out) == gSettled' = [t \in Tickets |-> IF t \in ts THEN out ELSE gSettled[t]]

\* send: a rate-limited mutation waits and starts over; every other answer
\* of the drainer settles its ticket.  A reader hands its answer back.
FinishCall(a, out) ==
    LET me == gActor[a] IN
    IF a # "drain" THEN gActor' = [gActor EXCEPT ![a] = IdleGmail] /\ UNCHANGED gSettled
    ELSE IF out = "limited" /\ me.waits < MaxWaits /\ me.s \notin gRetired
         THEN /\ gActor' = [gActor EXCEPT ![a].pc = "token", ![a].again = TRUE,
                                          ![a].waits = @ + 1, ![a].answer = "none"]
              /\ UNCHANGED gSettled
         ELSE /\ gActor' = [gActor EXCEPT ![a] = [IdleGmail EXCEPT !.pc = "take"]]
              /\ Settle({me.job}, IF me.s \in gRetired THEN "invalidated" ELSE out)

\* A direct call: reads resend once after a 401, direct writes do not.
BeginCall(a, again) ==
    /\ a \in GmailReaders /\ gActor[a].pc = "idle"
    /\ \E s \in SessionIds :
         /\ SessionFor(s)
         /\ gActor' = [gActor EXCEPT ![a] = [IdleGmail EXCEPT !.pc = "token", !.s = s, !.again = again]]
    /\ UNCHANGED <<gRetired, gToken, gLock, gMinted, gRevoked, gExpired, gBooking, gPending,
                   gBooked, gSettled, gApplied, gSweep>>

\* token_with: under the lock, the cached grant or the start of a refresh.
GetToken(a) ==
    LET me == gActor[a] IN
    /\ me.pc = "token" /\ gLock[me.s] = "free"
    /\ \/ me.s \in gRetired /\ FinishCall(a, "invalidated") /\ UNCHANGED gLock
       \/ /\ me.s \notin gRetired /\ gToken[me.s] # 0
          /\ gActor' = [gActor EXCEPT ![a].pc = "send", ![a].tok = gToken[me.s]]
          /\ UNCHANGED <<gLock, gSettled>>
       \/ /\ me.s \notin gRetired /\ gToken[me.s] = 0
          /\ gActor' = [gActor EXCEPT ![a].pc = "refresh"]
          /\ gLock' = [gLock EXCEPT ![me.s] = a] /\ UNCHANGED gSettled
    /\ UNCHANGED <<gSession, gRetired, gCreated, gToken, gMinted, gRevoked, gExpired, gBooking,
                   gPending, gBooked, gApplied, gSweep>>

\* The refresh answers; the grant is cached before the lock is released.
TokenRefreshed(a) ==
    LET me == gActor[a] IN
    /\ me.pc = "refresh"
    /\ gLock' = [gLock EXCEPT ![me.s] = "free"]
    /\ \/ /\ me.s \in gRetired /\ FinishCall(a, "invalidated") /\ UNCHANGED <<gToken, gMinted>>
       \/ /\ me.s \notin gRetired /\ FinishCall(a, "failed") /\ UNCHANGED <<gToken, gMinted>>
       \/ /\ me.s \notin gRetired /\ gMinted < MaxGrants
          /\ gMinted' = gMinted + 1
          /\ gToken' = [gToken EXCEPT ![me.s] = gMinted']
          /\ gActor' = [gActor EXCEPT ![a].pc = "send", ![a].tok = gMinted']
          /\ UNCHANGED gSettled
    /\ UNCHANGED <<gSession, gRetired, gCreated, gRevoked, gExpired, gBooking, gPending, gBooked,
                   gApplied, gSweep>>

\* session.check, then the request goes out.
SendCall(a) ==
    /\ gActor[a].pc = "send"
    /\ IF gActor[a].s \in gRetired THEN FinishCall(a, "invalidated")
       ELSE gActor' = [gActor EXCEPT ![a].pc = "wire"] /\ UNCHANGED gSettled
    /\ UNCHANGED <<gSession, gRetired, gCreated, gToken, gLock, gMinted, gRevoked, gExpired,
                   gBooking, gPending, gBooked, gApplied, gSweep>>

\* Google handles the request: a refused one (401, 403, 429, 411) never ran;
\* after a timeout or a broken answer it may have.
Refusals == {"limited", "forbidden"}
Serve(a) ==
    LET me == gActor[a]
        Carry(yes) == gApplied' = IF yes /\ me.job # 0 THEN Append(gApplied, me.job) ELSE gApplied
        Say(answer) == gActor' = [gActor EXCEPT ![a].pc = "answer", ![a].answer = answer] IN
    /\ me.pc = "wire"
    /\ \/ me.tok \in gRevoked /\ Say("unauthorized") /\ Carry(FALSE)
       \/ me.tok \notin gRevoked /\ Say("ok") /\ Carry(TRUE)
       \/ \E no \in Refusals : me.tok \notin gRevoked /\ Say(no) /\ Carry(FALSE)
       \/ \E yes \in BOOLEAN : me.tok \notin gRevoked /\ Say("timeout") /\ Carry(yes)
    /\ UNCHANGED <<gSession, gRetired, gCreated, gToken, gLock, gMinted, gRevoked, gExpired,
                   gBooking, gPending, gBooked, gSettled, gSweep>>

\* session.check after the round trip; a 401 goes on to reject the grant.
\* The timed-out request is answered, never resent.
Resent(answer)     == {"unauthorized"}
Answered(a) ==
    LET me == gActor[a] IN
    /\ me.pc = "answer"
    /\ IF me.s \in gRetired THEN FinishCall(a, "invalidated")
       ELSE IF me.answer \in Resent(me.answer)
            THEN gActor' = [gActor EXCEPT ![a].pc = "reject"] /\ UNCHANGED gSettled
            ELSE FinishCall(a, me.answer)
    /\ UNCHANGED <<gSession, gRetired, gCreated, gToken, gLock, gMinted, gRevoked, gExpired,
                   gBooking, gPending, gBooked, gApplied, gSweep>>

\* reject: only the grant that was refused leaves the cache.
EvictsAny(s, tok) == TRUE
Evicts(s, tok)    == gToken[s] = tok
RejectSession(a) ==
    LET me == gActor[a] IN
    /\ me.pc = "reject" /\ gLock[me.s] = "free"
    /\ IF me.s \in gRetired THEN FinishCall(a, "invalidated") /\ UNCHANGED gToken
       ELSE /\ gToken' = IF Evicts(me.s, me.tok) THEN [gToken EXCEPT ![me.s] = 0] ELSE gToken
            /\ IF me.again
               THEN /\ gActor' = [gActor EXCEPT ![a].pc = "token", ![a].again = FALSE]
                    /\ UNCHANGED gSettled
               ELSE FinishCall(a, "unauthorized")
    /\ UNCHANGED <<gSession, gRetired, gCreated, gLock, gMinted, gRevoked, gExpired, gBooking,
                   gPending, gBooked, gApplied, gSweep>>

------------------------------------
(* The mutation queue *)

\* enqueue, before the lock: the session is valid and the ticket is drawn.
Book(t) ==
    /\ gSettled[t] = "none" /\ \A x \in 1..t - 1 : gSettled[x] # "none"
    /\ \E s \in SessionIds :
         /\ SessionFor(s) /\ s \notin gRetired
         /\ gBooking' = gBooking \cup {[t |-> t, s |-> s]}
         /\ Settle({t}, "open")
    /\ UNCHANGED <<gRetired, gToken, gLock, gMinted, gRevoked, gExpired, gActor, gPending,
                   gBooked, gApplied, gSweep>>

\* enqueue, under the lock: the entry joins and the drainer runs.
RunFirstOnly == IF gBooked = <<>> THEN [gActor EXCEPT !["drain"].pc = "take"] ELSE gActor
RunDrainer == IF gActor["drain"].pc = "idle"
              THEN [gActor EXCEPT !["drain"].pc = "take"] ELSE gActor
Join(e) ==
    /\ e \in gBooking /\ gBooking' = gBooking \ {e}
    /\ IF Len(gPending) >= MaxPending
       THEN Settle({e.t}, "full") /\ UNCHANGED <<gPending, gBooked, gActor>>
       ELSE /\ gPending' = Append(gPending, e) /\ gBooked' = Append(gBooked, e.t)
            /\ gActor' = RunDrainer /\ UNCHANGED gSettled
    /\ UNCHANGED <<gSession, gRetired, gCreated, gToken, gLock, gMinted, gRevoked, gExpired,
                   gApplied, gSweep>>

\* drain: the next entry, or the drainer ends under the lock.
TakeNext ==
    /\ gActor["drain"].pc = "take"
    /\ \/ /\ gPending = <<>>
          /\ gActor' = [gActor EXCEPT !["drain"] = IdleGmail] /\ UNCHANGED <<gPending, gSettled>>
       \/ /\ gPending # <<>> /\ gPending' = Tail(gPending)
          /\ LET e == Head(gPending) IN
             IF e.s \in gRetired
             THEN Settle({e.t}, "invalidated") /\ UNCHANGED gActor
             ELSE /\ gActor' = [gActor EXCEPT !["drain"] =
                                  [IdleGmail EXCEPT !.pc = "token", !.s = e.s, !.job = e.t, !.again = TRUE]]
                  /\ UNCHANGED gSettled
    /\ UNCHANGED <<gSession, gRetired, gCreated, gToken, gLock, gMinted, gRevoked, gExpired,
                   gBooking, gBooked, gApplied, gSweep>>

\* gmail.invalidate: the session leaves the table and is marked invalid ...
Logout ==
    /\ ~gSweep /\ gSession # 0 /\ gSweep' = TRUE
    /\ gRetired' = gRetired \cup {gSession} /\ gSession' = 0
    /\ UNCHANGED <<gCreated, gToken, gLock, gMinted, gRevoked, gExpired, gActor, gBooking,
                   gPending, gBooked, gSettled, gApplied>>

\* ... and then what the queue has not sent is refused.
SweepQueue ==
    /\ gSweep /\ gSweep' = FALSE
    /\ Settle({e.t : e \in ToSet(gPending)}, "invalidated") /\ gPending' = <<>>
    /\ UNCHANGED <<gSession, gRetired, gCreated, gToken, gLock, gMinted, gRevoked, gExpired,
                   gActor, gBooking, gBooked, gApplied>>

\* Google stops accepting a grant.
Revoke(k) ==
    /\ k \in 1..gMinted \ gRevoked /\ Cardinality(gRevoked \cup gExpired) < MaxRevoked
    /\ gRevoked' = gRevoked \cup {k}
    /\ UNCHANGED <<gSession, gRetired, gCreated, gToken, gLock, gMinted, gExpired, gActor,
                   gBooking, gPending, gBooked, gSettled, gApplied, gSweep>>

\* A cached grant passes its expiry.
Expire(s) ==
    /\ gToken[s] # 0 /\ gLock[s] = "free" /\ Cardinality(gRevoked \cup gExpired) < MaxRevoked
    /\ gExpired' = gExpired \cup {gToken[s]} /\ gToken' = [gToken EXCEPT ![s] = 0]
    /\ UNCHANGED <<gSession, gRetired, gCreated, gLock, gMinted, gRevoked, gActor, gBooking,
                   gPending, gBooked, gSettled, gApplied, gSweep>>

CallStep(a) == GetToken(a) \/ TokenRefreshed(a) \/ SendCall(a) \/ Serve(a) \/ Answered(a) \/ RejectSession(a)

GmailNext ==
    \/ \E a \in GmailReaders, again \in BOOLEAN : BeginCall(a, again)
    \/ \E a \in GmailActors : CallStep(a)
    \/ (\E t \in Tickets : Book(t)) \/ (\E e \in gBooking : Join(e)) \/ TakeNext
    \/ Logout \/ SweepQueue \/ EvictSession
    \/ \E k \in 1..MaxGrants : Revoke(k)
    \/ \E s \in SessionIds : Expire(s)

GmailSpec == GmailInit /\ [][GmailNext]_gmailVars

\* The drainer and the joining callers are runnable tasks; the transport
\* answers within its deadline; the handler that retired a session goes on.
GmailFairness ==
    /\ \A a \in GmailActors : WF_gmailVars(CallStep(a))
    /\ \A t \in Tickets, s \in SessionIds : WF_gmailVars(Join([t |-> t, s |-> s]))
    /\ WF_gmailVars(TakeNext) /\ WF_gmailVars(SweepQueue)
GmailLive == GmailSpec /\ GmailFairness

------------------------------------
\* A mutation is carried out at most once, however often it is resent, in the
\* order the queue took it, and "ok" is said only of one that was.
GmailSentInOrder ==
    LET at(t) == CHOOSE i \in DOMAIN gBooked : gBooked[i] = t IN
    /\ \A i, j \in DOMAIN gApplied : i < j => at(gApplied[i]) < at(gApplied[j])
    /\ \A t \in Tickets : gSettled[t] = "ok" => t \in ToSet(gApplied)

\* Refreshes coalesce: a grant is minted for a new session, or because an
\* earlier one expired or was revoked - never because several calls saw the
\* same 401.
OneRefreshPerLoss ==
    gMinted <= gCreated + Cardinality(gRevoked) + Cardinality(gExpired)

\* gmail_queue.rs: "A send already on the wire settles on its real answer,
\* since it cannot be recalled."  A mutation settled as refused by logout was
\* not carried out.
WireSettlesTruly ==
    \A t \in Tickets : gSettled[t] = "invalidated" => t \notin ToSet(gApplied)

\* Every booked mutation is settled.
TicketsSettle == \A t \in Tickets :
    (gSettled[t] = "open") ~> (gSettled[t] # "open")
=============================================================================
