------------------------------- MODULE SignIn -------------------------------
(***************************************************************************)
(* Sessions with the identity providers (auth/).  Outlook                  *)
(* (credentials.rs): one lane for an account hands out access tokens from  *)
(* its cache, or exchanges the refresh token of the keyring and stores     *)
(* what the provider rotates it to.  A sign-in or sign-out is a change of  *)
(* the keyring, made under the lane by auth.store and auth.clear and       *)
(* outside it by credentials.put and credentials.delete (credentials/).    *)
(* Google (callback.rs): a flow waits on a loopback port for the answer of *)
(* the browser tab it opened, exchanges the code and stores the grant for  *)
(* the mailbox it turned out to be.                                        *)
(***************************************************************************)
EXTENDS Integers, FiniteSets

CONSTANTS SiCalls,      \* calls at once
          Resources,    \* "mail" and "graph"
          MaxSigns,     \* bound: changes of the keyring
          MaxTurns,     \* bound: rotations of one refresh token
          Flows,        \* Google flows ever begun
          FlowPorts,    \* loopback ports
          FlowLimit,    \* 4: flows at once
          Mailboxes     \* Google mailboxes

ASSUME SignInBounds == MaxSigns \in Nat /\ MaxTurns \in Nat /\ FlowLimit \in Nat
\* "none" is nobody's name, and 0 is no flow.
ASSUME SignInNames == "none" \notin SiCalls /\ "none" \notin Resources /\ 0 \notin Flows

VARIABLES
    siKey,      \* the keyring item: the change that wrote it, its rotation, and whether it is there
    siLane,     \* the call that holds the lane of the account, or "none"
    siCache,    \* resource -> access token: the change it stems from (0: none), and if it is fresh
    siCall,     \* call -> [at, verb, resource, readonly, token, whole, fresh, saved, got]
    siWrites,   \* keyring writes whose caller was dropped
    siSigns,    \* changes begun
    siTold,     \* the last change that was acknowledged
    siLate,     \* an abandoned write has landed on a newer item
    gfFlow,     \* flow -> [at, port, code, box, listed]
    gfKey,      \* mailbox -> the flow whose grant the keyring has, or 0
    gfWrites,   \* grants whose flow ended during the write
    gfReport    \* flow -> what its poll said

laneVars == <<siKey, siLane, siCache, siCall, siWrites, siSigns, siTold, siLate>>
flowVars == <<gfFlow, gfKey, gfWrites, gfReport>>
signVars == <<siKey, siLane, siCache, siCall, siWrites, siSigns, siTold, siLate, gfFlow, gfKey, gfWrites, gfReport>>

NoAccess == [sign |-> 0, fresh |-> FALSE]
IdleCall == [at |-> "idle", verb |-> "none", resource |-> "none", readonly |-> FALSE, whole |-> FALSE,
             token |-> [sign |-> 0, turn |-> 0, live |-> FALSE], fresh |-> FALSE, saved |-> 0, got |-> 0]
IdleFlow == [at |-> "none", port |-> "none", code |-> 0, box |-> "none", listed |-> FALSE]

SignInit ==
    /\ siKey = [sign |-> 1, turn |-> 0, live |-> TRUE] /\ siSigns = 1 /\ siTold = 1
    /\ siLane = "none" /\ siCache = [r \in Resources |-> NoAccess]
    /\ siCall = [c \in SiCalls |-> IdleCall] /\ siWrites = {} /\ siLate = FALSE
    /\ gfFlow = [f \in Flows |-> IdleFlow] /\ gfKey = [m \in Mailboxes |-> 0]
    /\ gfWrites = {} /\ gfReport = [f \in Flows |-> "none"]

PutSiCall(c, v) == siCall' = [siCall EXCEPT ![c] = v]
AnswerCall(c, got) == PutSiCall(c, [IdleCall EXCEPT !.at = "done", !.saved = siCall[c].saved, !.got = got])
\* account_tokens: the one lane of an account.
LaneFree == siLane = "none"
LetGo == siLane' = "none"

------------------------------------
(* Outlook: access tokens *)

\* access_token and access_token_readonly; auth.invalidate; auth.store and
\* auth.clear: each asks for the lane.
AskLane(c, verb, resource, readonly) ==
    /\ siCall[c].at = "idle"
    /\ verb = "change" => siSigns < MaxSigns
    /\ PutSiCall(c, [IdleCall EXCEPT !.at = "wait", !.verb = verb, !.resource = resource,
                                   !.readonly = readonly, !.saved = siTold])
    /\ UNCHANGED <<siKey, siLane, siCache, siWrites, siSigns, siTold, siLate, flowVars>>

\* access_token_with under the lane: the cached token, if it has a minute left;
\* or the refresh token of the keyring goes out for exchange.
Exchange(c) ==
    /\ siCall[c].at = "wait" /\ siCall[c].verb = "token" /\ LaneFree
    /\ LET known == siCache[siCall[c].resource]
       IN \/ known.fresh /\ AnswerCall(c, known.sign) /\ UNCHANGED siLane
          \/ /\ ~known.fresh /\ siKey.live
             /\ siLane' = c /\ PutSiCall(c, [siCall[c] EXCEPT !.at = "wire", !.token = siKey])
          \/ ~known.fresh /\ AnswerCall(c, 0) /\ UNCHANGED siLane    \* signed out, or no keyring
    /\ UNCHANGED <<siKey, siCache, siWrites, siSigns, siTold, siLate, flowVars>>

\* The end of access_token_with: a grant without the scopes asked for is an
\* error, any other token is cached for as long as the provider says.
Cached(c, call) ==
    /\ LetGo
    /\ IF call.whole
       THEN /\ AnswerCall(c, call.token.sign)
            /\ siCache' = [siCache EXCEPT ![call.resource] = [sign |-> call.token.sign, fresh |-> call.fresh]]
       ELSE AnswerCall(c, 0) /\ UNCHANGED siCache

\* The provider's answer.  persist_outlook_rotation: a rotated token is stored
\* before anything else is made of the answer, but not by a read-only caller.
Exchanged(c, rotated, whole, fresh) ==
    LET call == [siCall[c] EXCEPT !.whole = whole, !.fresh = fresh]
    IN /\ siCall[c].at = "wire"
       /\ IF rotated /\ ~call.readonly
          THEN /\ call.token.turn < MaxTurns
               /\ PutSiCall(c, [call EXCEPT !.at = "put", !.token.turn = @ + 1])
               /\ UNCHANGED <<siLane, siCache>>
          ELSE Cached(c, call)
       /\ UNCHANGED <<siKey, siWrites, siSigns, siTold, siLate, flowVars>>
NotExchanged(c) ==
    /\ siCall[c].at = "wire" /\ AnswerCall(c, 0) /\ LetGo
    /\ UNCHANGED <<siKey, siCache, siWrites, siSigns, siTold, siLate, flowVars>>

\* The write of the rotation: an error may come after the keyring has it.
RotationStored(c) ==
    /\ siCall[c].at = "put" /\ siKey' = siCall[c].token /\ Cached(c, siCall[c])
    /\ UNCHANGED <<siWrites, siSigns, siTold, siLate, flowVars>>
RotationFailed(c) ==
    /\ siCall[c].at = "put" /\ siKey' \in {siKey, siCall[c].token} /\ AnswerCall(c, 0) /\ LetGo
    /\ UNCHANGED <<siCache, siWrites, siSigns, siTold, siLate, flowVars>>

\* The time of a cached token runs out.
TokenExpires(r) ==
    /\ siCache[r].fresh /\ siCache' = [siCache EXCEPT ![r].fresh = FALSE]
    /\ UNCHANGED <<siKey, siLane, siCall, siWrites, siSigns, siTold, siLate, flowVars>>

------------------------------------
(* Outlook: changes *)

\* change_outlook: the keyring is written under the lane, and then the cached
\* access tokens are dropped.
ChangeItem(c, live) ==
    /\ siCall[c].at = "wait" /\ siCall[c].verb = "change" /\ LaneFree /\ siSigns < MaxSigns
    /\ siLane' = c /\ siSigns' = siSigns + 1
    /\ PutSiCall(c, [siCall[c] EXCEPT !.at = "store", !.token = [sign |-> siSigns + 1, turn |-> 0, live |-> live]])
    /\ UNCHANGED <<siKey, siCache, siWrites, siTold, siLate, flowVars>>
Emptied == [r \in Resources |-> NoAccess]
Changed(c) ==
    /\ siCall[c].at = "store" /\ AnswerCall(c, 0) /\ LetGo
    /\ siKey' = siCall[c].token /\ siTold' = siCall[c].token.sign /\ siCache' = Emptied
    /\ UNCHANGED <<siWrites, siSigns, siLate, flowVars>>
NotChanged(c) ==
    /\ siCall[c].at = "store" /\ AnswerCall(c, 0) /\ LetGo /\ siKey' \in {siKey, siCall[c].token}
    /\ UNCHANGED <<siCache, siWrites, siSigns, siTold, siLate, flowVars>>

\* credentials.put and credentials.delete write the same item and know no lane.
RpcChange(live) ==
    /\ siSigns < MaxSigns /\ siSigns' = siSigns + 1
    /\ siKey' = [sign |-> siSigns + 1, turn |-> 0, live |-> live] /\ siTold' = siSigns + 1
    /\ UNCHANGED <<siLane, siCache, siCall, siWrites, siLate, flowVars>>

\* invalidate: drops the cached access tokens under the lane.
DropTokens(c) ==
    /\ siCall[c].at = "wait" /\ siCall[c].verb = "invalidate" /\ LaneFree
    /\ siCache' = Emptied /\ AnswerCall(c, 0)
    /\ UNCHANGED <<siKey, siLane, siWrites, siSigns, siTold, siLate, flowVars>>

\* A caller takes its answer, or is dropped: the lane is free at once, but a
\* write handed to a blocking thread goes on.
TakeAnswer(c) ==
    /\ siCall[c].at = "done" /\ PutSiCall(c, IdleCall)
    /\ UNCHANGED <<siKey, siLane, siCache, siWrites, siSigns, siTold, siLate, flowVars>>
AbandonCall(c) ==
    /\ siCall[c].at \in {"wait", "wire", "put", "store"} /\ PutSiCall(c, IdleCall)
    /\ siLane' = IF siLane = c THEN "none" ELSE siLane
    /\ siWrites' = IF siCall[c].at \in {"put", "store"} THEN siWrites \cup {siCall[c].token} ELSE siWrites
    /\ UNCHANGED <<siKey, siCache, siSigns, siTold, siLate, flowVars>>
LateWrite(w) ==
    /\ siWrites' = siWrites \ {w} /\ siKey' \in {w, siKey}
    /\ siLate' = (siLate \/ (siKey' = w /\ w.sign < siKey.sign))
    /\ UNCHANGED <<siLane, siCache, siCall, siSigns, siTold, flowVars>>

------------------------------------
(* Google: flows *)

SetFlow(f, v) == gfFlow' = [gfFlow EXCEPT ![f] = v]
\* An aborted task keeps its listener until the runtime has dropped it.
Bound(port) == \E f \in Flows : gfFlow[f].port = port /\ gfFlow[f].at \in {"listen", "aborted"}

\* begin: at most FlowLimit flows, and the port must be free.
BeginFlow(f, port) ==
    /\ gfFlow[f].at = "none" /\ ~Bound(port)
    /\ Cardinality({g \in Flows : gfFlow[g].listed}) < FlowLimit
    /\ SetFlow(f, [IdleFlow EXCEPT !.at = "listen", !.port = port, !.listed = TRUE])
    /\ UNCHANGED <<laneVars, gfKey, gfWrites, gfReport>>

\* receive: a browser tab answers on the port its flow had, perhaps long ago;
\* callback: any state but this flow's is refused, and the flow listens on.
OwnTab(f, tab) == tab = f
Receive(f, tab) ==
    /\ gfFlow[f].at = "listen" /\ gfFlow[tab].port = gfFlow[f].port /\ OwnTab(f, tab)
    /\ SetFlow(f, [gfFlow[f] EXCEPT !.at = "exchange", !.code = tab])
    /\ UNCHANGED <<laneVars, gfKey, gfWrites, gfReport>>

\* finish_google: the grant must have the scopes and a refresh token, and is
\* stored for the mailbox the provider says it is.
Profile(f, box) ==
    /\ gfFlow[f].at = "exchange" /\ SetFlow(f, [gfFlow[f] EXCEPT !.at = "store", !.box = box])
    /\ UNCHANGED <<laneVars, gfKey, gfWrites, gfReport>>
StoreGrant(f) ==
    /\ gfFlow[f].at = "store" /\ SetFlow(f, [gfFlow[f] EXCEPT !.at = "ok"])
    /\ gfKey' = [gfKey EXCEPT ![gfFlow[f].box] = f]
    /\ UNCHANGED <<laneVars, gfWrites, gfReport>>
\* Any step may fail, or the flow's three minutes are over.
Leaves(f) == IF gfFlow[f].at = "store" THEN gfWrites \cup {f} ELSE gfWrites
FailFlow(f) ==
    /\ gfFlow[f].at \in {"listen", "exchange", "store"} /\ SetFlow(f, [gfFlow[f] EXCEPT !.at = "failed"])
    /\ gfWrites' = Leaves(f)
    /\ UNCHANGED <<laneVars, gfKey, gfReport>>
LateGrant(f) ==
    /\ f \in gfWrites /\ gfWrites' = gfWrites \ {f}
    /\ gfKey' \in {gfKey, [gfKey EXCEPT ![gfFlow[f].box] = f]}
    /\ UNCHANGED <<laneVars, gfFlow, gfReport>>

\* auth.poll takes the flow with its result; auth.cancel aborts it.
PollFlow(f) ==
    /\ gfFlow[f].listed /\ gfFlow[f].at \in {"ok", "failed"}
    /\ SetFlow(f, [gfFlow[f] EXCEPT !.listed = FALSE]) /\ gfReport' = [gfReport EXCEPT ![f] = gfFlow[f].at]
    /\ UNCHANGED <<laneVars, gfKey, gfWrites>>
CancelFlow(f) ==
    /\ gfFlow[f].listed
    /\ SetFlow(f, [gfFlow[f] EXCEPT !.listed = FALSE, !.at = IF @ = "listen" THEN "aborted" ELSE "over"])
    /\ gfWrites' = Leaves(f)
    /\ UNCHANGED <<laneVars, gfKey, gfReport>>
Reap(f) ==
    /\ gfFlow[f].at = "aborted" /\ SetFlow(f, [gfFlow[f] EXCEPT !.at = "over"])
    /\ UNCHANGED <<laneVars, gfKey, gfWrites, gfReport>>

LaneNext ==
    \/ \E c \in SiCalls :
          \/ \E r \in Resources, ro \in BOOLEAN : AskLane(c, "token", r, ro)
          \/ \E v \in {"change", "invalidate"} : AskLane(c, v, "none", FALSE)
          \/ Exchange(c) \/ NotExchanged(c) \/ RotationStored(c) \/ RotationFailed(c)
          \/ \E rotated, whole, fresh \in BOOLEAN : Exchanged(c, rotated, whole, fresh)
          \/ \E live \in BOOLEAN : ChangeItem(c, live)
          \/ Changed(c) \/ NotChanged(c) \/ DropTokens(c) \/ TakeAnswer(c) \/ AbandonCall(c)
    \/ \E r \in Resources : TokenExpires(r)
    \/ \E w \in siWrites : LateWrite(w)
\* The lane, and a user interface that goes around it.
AroundNext == LaneNext \/ \E live \in BOOLEAN : RpcChange(live)
FlowNext ==
    \E f \in Flows :
       \/ \E p \in FlowPorts : BeginFlow(f, p)
       \/ \E g \in Flows : Receive(f, g)
       \/ \E m \in Mailboxes : Profile(f, m)
       \/ StoreGrant(f) \/ FailFlow(f) \/ LateGrant(f) \/ PollFlow(f) \/ CancelFlow(f) \/ Reap(f)
SignNext == LaneNext \/ FlowNext
SignSpec == SignInit /\ [][SignNext]_signVars

------------------------------------
\* "Signing out from inside the app clears the keyring entry on its own"
\* (docs/MAILBOXES.md:93), and a new sign-in replaces the old: once a change is
\* acknowledged, no exchange that was under way brings back what it replaced.
SignOutHolds == siLate \/ siKey.sign >= siTold

\* And no access token of the replaced sign-in is left: none is cached while the
\* lane is free, and none is handed to a caller who asks after the
\* acknowledgement.
TokensAreCurrent ==
    ~siLate =>
       /\ LaneFree => \A r \in Resources : siCache[r] = NoAccess \/ siCache[r].sign >= siTold
       /\ \A c \in SiCalls : siCall[c].got # 0 => siCall[c].got >= siCall[c].saved

\* A grant in the keyring came through the tab of its own flow and is under its
\* own mailbox; a flow that says it succeeded has stored one; and no two flows
\* listen on one port, although a cancelled one lets go of its port late.
GrantOfItsFlow ==
    /\ \A m \in Mailboxes : gfKey[m] # 0 => gfFlow[gfKey[m]].box = m /\ gfFlow[gfKey[m]].code = gfKey[m]
    /\ \A f \in Flows : gfReport[f] = "ok" => gfKey[gfFlow[f].box] # 0
    /\ \A f, g \in Flows : f # g /\ gfFlow[f].at = "listen" /\ gfFlow[g].at = "listen"
                           => gfFlow[f].port # gfFlow[g].port
=============================================================================
