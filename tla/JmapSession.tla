---------------------------- MODULE JmapSession ----------------------------
(***************************************************************************)
(* Sign-in state of one JMAP account (providers/jmap/mailbox.rs: context,   *)
(* install_verified, snapshot, api, native; mod.rs: native_cancellable;     *)
(* discovery.rs: verify).  A context holds the server's session document    *)
(* and the credential; signing in again replaces it, invalidating removes   *)
(* it, and calls that hold the old one are still under way.  A call makes   *)
(* requests of several kinds, which look at the sign-in at different times. *)
(*                                                                         *)
(* And where the credential may go (discovery.rs and the jmap.request arm   *)
(* of mod.rs: call).  Signing in finds the session document of a domain and *)
(* remembers a policy: the origins the document names, for one credential   *)
(* and one root.  A request to another origin reads the document again      *)
(* before it is refused or sent.                                            *)
(***************************************************************************)
EXTENDS Integers, Sequences, FiniteSets

CONSTANTS JmapCalls,    \* concurrent calls
          CallLimit,    \* calls registered at once (64)
          MaxPasswords, \* bound: passwords the server has had
          MaxJmapSessions,  \* bound: session documents the server has had
          MaxContexts   \* bound: contexts made

ASSUME SessionBounds == CallLimit \in Nat \ {0} /\ {MaxPasswords, MaxJmapSessions, MaxContexts} \subseteq Nat

VARIABLES
    jxServer,   \* [password, session]: what the server accepts and announces
    jxSaved,    \* the password in the keyring
    jxContexts, \* contexts made, in order: [snap, rejected, retired]
    jxCurrent,  \* the context of the account, 0 none
    jxCalls     \* call -> [at, ctx, snap, kind]: kind is that of the request it waits for

jmapSessionVars == <<jxServer, jxSaved, jxContexts, jxCurrent, jxCalls>>

NoSnap == [password |-> 0, session |-> 0]
Fresh == [snap |-> NoSnap, rejected |-> FALSE, retired |-> FALSE]
NoCall == [at |-> "idle", ctx |-> 0, snap |-> NoSnap, kind |-> "none"]
\* api: queries, changes and submissions; the upload of a draft; the repair of a cut-off part; jmap.attachment; and the
\* removal of an old draft, a task of its own ("orphan" once its caller was cancelled).
JmapRequests == {"api", "upload", "repair", "download", "destroy"}
Destroys == {"destroy", "orphan"}
ContextIds == DOMAIN jxContexts

JmapSessionInit ==
    /\ jxServer = [password |-> 1, session |-> 1] /\ jxSaved = 1
    /\ jxContexts = <<>> /\ jxCurrent = 0
    /\ jxCalls = [c \in JmapCalls |-> NoCall]

\* The server's side: the password is changed, the session document moves on.
ServerMoves ==
    /\ \/ jxServer.password < MaxPasswords /\ jxServer' = [jxServer EXCEPT !.password = @ + 1]
       \/ jxServer.session < MaxJmapSessions /\ jxServer' = [jxServer EXCEPT !.session = @ + 1]
    /\ UNCHANGED <<jxSaved, jxContexts, jxCurrent, jxCalls>>

RetireOld(contexts) ==
    IF jxCurrent = 0 THEN contexts ELSE [contexts EXCEPT ![jxCurrent].retired = TRUE]

\* verify and install_verified: the typed password was just accepted.  The
\* window saves it to the keyring next.
SignIn ==
    /\ Len(jxContexts) < MaxContexts
    /\ jxContexts' = Append(RetireOld(jxContexts), [Fresh EXCEPT !.snap = jxServer])
    /\ jxCurrent' = Len(jxContexts) + 1 /\ jxSaved' = jxServer.password
    /\ UNCHANGED <<jxServer, jxCalls>>

\* jmap.invalidate.
Invalidate ==
    /\ jxCurrent # 0
    /\ jxContexts' = RetireOld(jxContexts) /\ jxCurrent' = 0
    /\ UNCHANGED <<jxServer, jxSaved, jxCalls>>

SetCall(c, r) == jxCalls' = [jxCalls EXCEPT ![c] = r]
EndCall(c) == SetCall(c, NoCall)
Registered == {c \in JmapCalls : jxCalls[c].at # "idle" /\ jxCalls[c].kind # "orphan"}

\* native_cancellable and context: a rejected context answers at once.
StartCall(c) ==
    /\ jxCalls[c].at = "idle" /\ Cardinality(Registered) < CallLimit
    /\ IF jxCurrent = 0
       THEN /\ Len(jxContexts) < MaxContexts
            /\ jxContexts' = Append(jxContexts, Fresh) /\ jxCurrent' = Len(jxContexts) + 1
       ELSE UNCHANGED <<jxContexts, jxCurrent>> /\ ~jxContexts[jxCurrent].rejected
    /\ SetCall(c, [NoCall EXCEPT !.at = "snapshot", !.ctx = jxCurrent'])
    /\ UNCHANGED <<jxServer, jxSaved>>

\* native: an unauthorized answer marks the account's context rejected, which
\* is looked up again by account.
Unauthorized(c) ==
    /\ EndCall(c)
    /\ IF jxCurrent = 0
       THEN /\ Len(jxContexts) < MaxContexts /\ jxCurrent' = Len(jxContexts) + 1
            /\ jxContexts' = Append(jxContexts, [Fresh EXCEPT !.rejected = TRUE])
       ELSE jxContexts' = [jxContexts EXCEPT ![jxCurrent].rejected = TRUE] /\ UNCHANGED jxCurrent

\* The lock of a context's snapshot: whoever loads it holds it.
LockFree(ctx) == \A c \in JmapCalls : jxCalls[c].at = "loading" => jxCalls[c].ctx # ctx

\* snapshot: one request at a time loads it, from the credential saved when it
\* looked; the others wait for the lock.
TakeJmapSnapshot(c) ==
    LET call == jxCalls[c]
    IN /\ call.at = "snapshot" /\ LockFree(call.ctx)
       /\ SetCall(c, IF jxContexts[call.ctx].snap # NoSnap
                     THEN [call EXCEPT !.at = "ready", !.snap = jxContexts[call.ctx].snap]
                     ELSE [call EXCEPT !.at = "loading", !.snap.password = jxSaved])
       /\ UNCHANGED <<jxServer, jxSaved, jxContexts, jxCurrent>>
LoadJmapSnapshot(c) ==
    LET call == jxCalls[c]
        loaded == [call.snap EXCEPT !.session = jxServer.session]
    IN /\ call.at = "loading"
       /\ IF call.snap.password = jxServer.password
          THEN /\ jxContexts' = [jxContexts EXCEPT ![call.ctx].snap = loaded]
               /\ SetCall(c, [call EXCEPT !.at = "ready", !.snap = loaded])
               /\ UNCHANGED jxCurrent
          ELSE Unauthorized(c)
       /\ UNCHANGED <<jxServer, jxSaved>>

\* api and the upload look at the sign-in before the wait for a slot and again after it, a repair only before it, a
\* download never; the removal of a draft looks after it only whether the sign-in was replaced.
NotRejected(ctx) == ~jxContexts[ctx].rejected
Active(ctx) == ~jxContexts[ctx].retired /\ ~jxContexts[ctx].rejected
MaySend(call) == CASE call.kind \in {"api", "upload"} -> Active(call.ctx)
                   [] call.kind \in Destroys -> ~jxContexts[call.ctx].retired
                   [] OTHER -> TRUE
WaitSlot(c, kind) ==
    /\ jxCalls[c].at = "ready" /\ (kind # "download" => Active(jxCalls[c].ctx))
    /\ SetCall(c, [jxCalls[c] EXCEPT !.at = "slot", !.kind = kind])
    /\ UNCHANGED <<jxServer, jxSaved, jxContexts, jxCurrent>>
JmapSendCall(c) ==
    /\ jxCalls[c].at = "slot" /\ MaySend(jxCalls[c])
    /\ SetCall(c, [jxCalls[c] EXCEPT !.at = "wire"])
    /\ UNCHANGED <<jxServer, jxSaved, jxContexts, jxCurrent>>
Refuse(c) ==
    /\ \/ jxCalls[c].at = "ready" /\ ~Active(jxCalls[c].ctx)
       \/ jxCalls[c].at = "slot" /\ ~MaySend(jxCalls[c])
    /\ IF jxContexts[jxCalls[c].ctx].retired THEN EndCall(c) /\ UNCHANGED <<jxContexts, jxCurrent>> ELSE Unauthorized(c)
    /\ UNCHANGED <<jxServer, jxSaved>>

\* The reply: a session state the snapshot does not know empties it.  The call answers, or goes on with its next
\* request; a repair or a removal that is refused is only left undone.
Forgets(call) == call.kind = "api" /\ call.snap.session # jxServer.session
Answer(c) ==
    LET call == jxCalls[c]
        refused == call.snap.password # jxServer.password
    IN /\ call.at = "wire"
       /\ IF refused /\ call.kind \notin Destroys \cup {"repair"} THEN Unauthorized(c)
          ELSE /\ jxContexts' = IF ~refused /\ Forgets(call) THEN [jxContexts EXCEPT ![call.ctx].snap = NoSnap]
                                ELSE jxContexts
               /\ ~refused /\ Forgets(call) => LockFree(call.ctx)
               /\ \/ EndCall(c)
                  \/ call.kind \in {"api", "upload", "repair"} /\ SetCall(c, [call EXCEPT !.at = "ready", !.kind = "none"])
               /\ UNCHANGED jxCurrent
       /\ UNCHANGED <<jxServer, jxSaved>>

\* jmap.labels puts the snapshot it holds, with the new mailboxes, back.
AnswerLabels(c) ==
    LET call == jxCalls[c]
    IN /\ call.at = "wire" /\ call.kind = "api" /\ call.snap.password = jxServer.password /\ LockFree(call.ctx)
       /\ jxContexts' = [jxContexts EXCEPT ![call.ctx].snap = call.snap]
       /\ EndCall(c) /\ UNCHANGED <<jxServer, jxSaved, jxCurrent>>

\* Cancelled, out of time, or the connection failed; a removal goes on without its caller.
DropCall(c) ==
    /\ jxCalls[c].at # "idle"
    /\ \/ (jxCalls[c].kind \in Destroys => jxCalls[c].at = "wire") /\ EndCall(c)
       \/ jxCalls[c].kind = "destroy" /\ SetCall(c, [jxCalls[c] EXCEPT !.kind = "orphan"])
    /\ UNCHANGED <<jxServer, jxSaved, jxContexts, jxCurrent>>

JmapSessionNext ==
    \/ ServerMoves \/ SignIn \/ Invalidate
    \/ \E c \in JmapCalls : StartCall(c) \/ TakeJmapSnapshot(c) \/ LoadJmapSnapshot(c) \/ JmapSendCall(c)
                            \/ (\E kind \in JmapRequests : WaitSlot(c, kind)) \/ Refuse(c) \/ Answer(c) \/ AnswerLabels(c) \/ DropCall(c)
JmapSessionSpec == JmapSessionInit /\ [][JmapSessionNext]_jmapSessionVars

------------------------------------
\* A refused or replaced sign-in goes quiet.  However long it waited for a slot, no query, change, submission or upload
\* starts on the wire but with the account's sign-in of that moment, not refused, and no removal of a draft with a
\* sign-in that was replaced.  No call begins with one that is over, and nothing brings it back.  What may still start is
\* a download or a repair of a call begun before, and a removal when the sign-in was only refused: they do not look.
RetiredIsQuiet ==
    [][/\ \A c \in JmapCalls : jxCalls[c].at # "wire" /\ jxCalls'[c].at = "wire" =>
             /\ jxCalls[c].kind \in {"api", "upload"} => jxCalls[c].ctx = jxCurrent /\ ~jxContexts[jxCurrent].rejected
             /\ jxCalls[c].kind \in Destroys => jxCalls[c].ctx = jxCurrent
       /\ \A c \in JmapCalls : jxCalls[c].at = "idle" /\ jxCalls'[c].at # "idle" =>
             jxCalls'[c].ctx = jxCurrent' /\ ~jxContexts'[jxCurrent'].retired /\ ~jxContexts'[jxCurrent'].rejected
       /\ \A i \in ContextIds : jxContexts[i].retired => jxContexts'[i].retired
       /\ \A i \in ContextIds : i # jxCurrent => i # jxCurrent']_jmapSessionVars

\* A sign-in the server still accepts is not marked rejected by an answer to a
\* request of the sign-in it replaced.
GoodSignInKept ==
    \A i \in ContextIds :
        i = jxCurrent /\ jxContexts[i].snap.password = jxServer.password => ~jxContexts[i].rejected

------------------------------------
(* Where a credential may go *)

CONSTANTS Origins,      \* origins a document can name
          JdSecrets,    \* credentials
          JdRequests,   \* requests at once
          MaxDocuments  \* bound: documents the server has published

ASSUME DiscoveryBounds == MaxDocuments \in Nat

VARIABLES
    jdDoc,      \* [root, origins, secret]: where the provider serves its document,
                \* what it names, and the credential it accepts
    jdEver,     \* origins each document named, by credential that was accepted
    jdRoot,     \* the session URL in the account's settings
    jdPolicy,   \* the policy remembered for the account, or NoPolicy
    jdReq,      \* request -> [at, verb, origin, secret, policy]
    jdSign,     \* sign-in -> [at, secret, typed, doc]
    jdCount     \* documents published

discoveryVars == <<jdDoc, jdEver, jdRoot, jdPolicy, jdReq, jdSign, jdCount>>

NoPolicy == [root |-> "none", secret |-> "none", origins |-> {}]
NoRequest == [at |-> "idle", verb |-> "none", origin |-> "none", secret |-> "none", root |-> "none"]
NoSign == [at |-> "idle", secret |-> "none", doc |-> NoPolicy]

DiscoveryInit ==
    /\ \E o \in Origins, s \in JdSecrets :
          /\ jdDoc = [root |-> o, origins |-> {o}, secret |-> s]
          /\ jdEver = {<<o, s>>} /\ jdRoot = o
    /\ jdPolicy = NoPolicy /\ jdSign = NoSign
    /\ jdReq = [r \in JdRequests |-> NoRequest] /\ jdCount = 1

\* The provider moves its document or its API, or the password is changed.
Publish(root, origins, secret) ==
    /\ jdCount < MaxDocuments /\ jdCount' = jdCount + 1
    /\ jdDoc' = [root |-> root, origins |-> {root} \cup origins, secret |-> secret]
    /\ jdEver' = jdEver \cup {<<o, secret>> : o \in jdDoc'.origins}
    /\ UNCHANGED <<jdRoot, jdPolicy, jdReq, jdSign>>

\* session_policy: the root and what the document names.
Policy(root, doc, secret) == [root |-> root, secret |-> secret, origins |-> {root} \cup doc.origins]

------------------------------------
(* Signing in *)

\* discover: the document is looked for without any credential, and only its
\* place is taken from the answer.
Discover(secret) ==
    /\ jdSign.at = "idle"
    /\ jdSign' = [at |-> "found", secret |-> secret, doc |-> NoPolicy]
    /\ UNCHANGED <<jdDoc, jdEver, jdRoot, jdPolicy, jdReq, jdCount>>
\* verify: the document is read with the credential, then its mailboxes.
VerifyDocument ==
    /\ jdSign.at = "found"
    /\ jdSign' = IF jdSign.secret = jdDoc.secret
                 THEN [jdSign EXCEPT !.at = "document", !.doc = Policy(jdDoc.root, jdDoc, jdSign.secret)]
                 ELSE NoSign
    /\ UNCHANGED <<jdDoc, jdEver, jdRoot, jdPolicy, jdReq, jdCount>>
Verify ==
    /\ jdSign.at = "document" /\ jdSign' = NoSign
    /\ IF jdSign.secret = jdDoc.secret
       THEN jdPolicy' = jdSign.doc /\ jdRoot' = jdSign.doc.root
       ELSE UNCHANGED <<jdPolicy, jdRoot>>
    /\ UNCHANGED <<jdDoc, jdEver, jdReq, jdCount>>

------------------------------------
(* Requests *)

SetReq(r, v) == jdReq' = [jdReq EXCEPT ![r] = v]

\* authorize: the session document itself may always be read; any other URL only
\* under a policy for this root and this credential.
Trusts(policy, req) == policy.root = req.root /\ policy.secret = req.secret /\ req.origin \in policy.origins
Authorize(r, verb, origin, secret) ==
    /\ jdReq[r].at = "idle"
    /\ LET req == [at |-> "ask", verb |-> verb, origin |-> origin, secret |-> secret, root |-> jdRoot]
       IN SetReq(r, CASE verb = "session" /\ origin = jdRoot -> [req EXCEPT !.at = "wire"]
                      [] Trusts(jdPolicy, req) -> [req EXCEPT !.at = "wire"]
                      [] OTHER -> req)
    /\ UNCHANGED <<jdDoc, jdEver, jdRoot, jdPolicy, jdSign, jdCount>>

\* authorize, without a policy: the document is read with this credential, and
\* what it names is the policy from now on.
ReadDocument(r) ==
    LET req    == jdReq[r]
        policy == Policy(req.root, jdDoc, req.secret)
        read   == req.secret = jdDoc.secret /\ req.root = jdDoc.root
    IN /\ req.at = "ask"
       /\ jdPolicy' = IF read THEN policy ELSE jdPolicy
       /\ SetReq(r, IF read /\ req.origin \in policy.origins THEN [req EXCEPT !.at = "wire"] ELSE NoRequest)
       /\ UNCHANGED <<jdDoc, jdEver, jdRoot, jdSign, jdCount>>

\* call: the request is answered; the answer to a session request is remembered.
Remember(r) ==
    LET req == jdReq[r]
    IN /\ req.at = "wire"
       /\ jdPolicy' = IF req.verb = "session" /\ req.secret = jdDoc.secret /\ req.origin = jdDoc.root
                      THEN Policy(req.origin, jdDoc, req.secret) ELSE jdPolicy
       /\ SetReq(r, NoRequest)
       /\ UNCHANGED <<jdDoc, jdEver, jdRoot, jdSign, jdCount>>

\* jmap.invalidate forgets the policy; a request may be cancelled or time out.
ForgetPolicy == /\ jdPolicy' = NoPolicy
                /\ UNCHANGED <<jdDoc, jdEver, jdRoot, jdReq, jdSign, jdCount>>
DropRequest(r) == /\ jdReq[r].at # "idle" /\ SetReq(r, NoRequest)
                  /\ UNCHANGED <<jdDoc, jdEver, jdRoot, jdPolicy, jdSign, jdCount>>

DiscoveryNext ==
    \/ \E root \in Origins, o \in SUBSET Origins, s \in JdSecrets : Publish(root, o, s)
    \/ \E s \in JdSecrets : Discover(s)
    \/ VerifyDocument \/ Verify \/ ForgetPolicy
    \/ \E r \in JdRequests :
          \/ \E v \in {"session", "call"}, o \in Origins, s \in JdSecrets : Authorize(r, v, o, s)
          \/ ReadDocument(r) \/ Remember(r) \/ DropRequest(r)
DiscoverySpec == DiscoveryInit /\ [][DiscoveryNext]_discoveryVars

------------------------------------
\* A credential is on the wire to an origin only if a document that accepted
\* this credential named it, or it is the root the account is set to: a policy
\* that was learnt for another credential, an older root or another account's
\* request never lends it its origins, however the reads and sign-ins cross.
CredentialStaysHome ==
    /\ \A r \in JdRequests : jdReq[r].at = "wire" =>
          \/ jdReq[r].origin = jdReq[r].root
          \/ <<jdReq[r].origin, jdReq[r].secret>> \in jdEver
    /\ \A o \in jdPolicy.origins : o = jdPolicy.root \/ <<o, jdPolicy.secret>> \in jdEver
=============================================================================
