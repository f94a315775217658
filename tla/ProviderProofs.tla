--------------------------- MODULE ProviderProofs ---------------------------
(***************************************************************************)
(* Proofs about what talks to the mail servers (MCProviders): sign-in - a  *)
(* replaced sign-in with Outlook does not come back inside the lane, and a *)
(* grant of Google is that of its own flow (SignIn); sending from          *)
(* files that change; JMAP - sign-ins that end, where a credential goes,   *)
(* changes, pages, drafts and news; Gmail - the order of its mutations, the *)
(* refresh of a lost grant, the quota and the time of a request; what is   *)
(* reported of an action, and that a list is whole; HEY - its calls, its   *)
(* lists and the runs of its program; and that each promise holds among    *)
(* the other clients (ProvidersSpec).                                      *)
(***************************************************************************)
EXTENDS MCProviders, SequenceTheorems, FiniteSetTheorems, TLAPS

------------------------------------
(* Outlook: the inductive invariant *)

Token  == [sign : Nat, turn : Nat, live : BOOLEAN]
Access == [sign : Nat, fresh : BOOLEAN]
Holding == {"wire", "put", "store"}
CallType == [at : {"idle", "wait", "done"} \cup Holding, verb : {"none", "token", "change", "invalidate"},
             resource : Resources \cup {"none"}, readonly : BOOLEAN, whole : BOOLEAN,
             token : Token, fresh : BOOLEAN, saved : Nat, got : Nat]
LaneType ==
    /\ siKey \in Token /\ siLane \in SiCalls \cup {"none"} /\ siCache \in [Resources -> Access]
    /\ siCall \in [SiCalls -> CallType] /\ siWrites \subseteq Token
    /\ siSigns \in Nat /\ siTold \in Nat /\ siLate \in BOOLEAN

\* Only the holder of the lane is past it, and a call for a token names a resource.
LaneHeld == \A c \in SiCalls : /\ siCall[c].at \in Holding => siLane = c
                               /\ siCall[c].at \in {"wire", "put"} => siCall[c].resource \in Resources
                               /\ siCall[c].verb = "token" => siCall[c].resource \in Resources
\* What the holder is about to write is no older than the last acknowledged
\* change, and no call asked after a change that was not yet acknowledged.
Ahead == /\ siTold <= siSigns
         /\ \A c \in SiCalls : /\ siCall[c].at = "store" => siTold <= siCall[c].token.sign /\ siCall[c].token.sign <= siSigns
                               /\ siCall[c].saved <= siTold
\* The keyring, the token on the wire and every access token stem from it too.
Current(c) == /\ siCall[c].at \in {"wire", "put"} => siCall[c].token.sign >= siTold
              /\ siCall[c].got # 0 => siCall[c].got >= siCall[c].saved
CachedCurrent == \A r \in Resources : siCache[r] = NoAccess \/ siCache[r].sign >= siTold
NothingOld == ~siLate => siKey.sign >= siTold /\ CachedCurrent /\ \A c \in SiCalls : Current(c)

LaneInv == LaneType /\ LaneHeld /\ Ahead /\ NothingOld

LEMMA IdleIsCall == IdleCall \in CallType /\ NoAccess \in Access
BY DEF IdleCall, CallType, Token, NoAccess, Access, Holding

LEMMA LaneInit == SignInit => LaneInv
<1> SUFFICES ASSUME SignInit PROVE LaneInv  OBVIOUS
<1>1. LaneType  BY IdleIsCall DEF SignInit, LaneType, Token
<1>2. \A c \in SiCalls : /\ siCall[c].at = "idle" /\ siCall[c].verb = "none"
                         /\ siCall[c].saved = 0 /\ siCall[c].got = 0
  BY DEF SignInit, IdleCall
<1>3. siTold = 1 /\ siSigns = 1 /\ siKey.sign = 1 /\ \A r \in Resources : siCache[r] = NoAccess  BY DEF SignInit
<1>4. LaneHeld /\ Ahead /\ NothingOld  BY <1>2, <1>3 DEF LaneHeld, Ahead, NothingOld, CachedCurrent, Current, Holding
<1>5. QED  BY <1>1, <1>4 DEF LaneInv

\* A call that holds nothing is put in the place of another.
LEMMA PutOther ==
    ASSUME LaneInv, NEW c \in SiCalls, NEW v \in CallType, PutSiCall(c, v)
    PROVE  /\ siCall' \in [SiCalls -> CallType] /\ siCall'[c] = v
           /\ \A d \in SiCalls \ {c} : siCall'[d] = siCall[d]
BY DEF LaneInv, LaneType, PutSiCall

\* The answer a call is left with.
LeftWith(c, got) == [IdleCall EXCEPT !.at = "done", !.saved = siCall[c].saved, !.got = got]
LEMMA AnsweredType ==
    ASSUME LaneInv, NEW c \in SiCalls, NEW got \in Nat
    PROVE  /\ LeftWith(c, got) \in CallType /\ LeftWith(c, got).at = "done" /\ LeftWith(c, got).verb = "none"
           /\ LeftWith(c, got).saved = siCall[c].saved /\ LeftWith(c, got).got = got
           /\ siCall[c].saved \in Nat /\ siCall[c].token \in Token
BY IdleIsCall DEF LeftWith, LaneInv, LaneType, CallType, IdleCall, Holding
LEMMA AnswerCallIs ==
    ASSUME NEW c \in SiCalls, NEW got \in Nat, AnswerCall(c, got)
    PROVE  PutSiCall(c, LeftWith(c, got))
BY DEF AnswerCall, LeftWith

------------------------------------
(* Outlook: every action preserves it *)

LEMMA AskKeeps ==
    ASSUME LaneInv, NEW c \in SiCalls, NEW verb \in {"token", "change", "invalidate"},
           NEW r \in Resources \cup {"none"}, NEW ro \in BOOLEAN, verb = "token" => r \in Resources,
           AskLane(c, verb, r, ro)
    PROVE  LaneInv'
<1> DEFINE v == [IdleCall EXCEPT !.at = "wait", !.verb = verb, !.resource = r, !.readonly = ro, !.saved = siTold]
<1>1. /\ v \in CallType /\ v.at = "wait" /\ v.verb = verb /\ v.resource = r /\ v.saved = siTold /\ v.got = 0
  BY IdleIsCall DEF IdleCall, CallType, Holding, LaneInv, LaneType
<1>2. PutSiCall(c, v)  BY DEF AskLane
<1> HIDE DEF v
<1>3. QED
  <2>1. /\ siCall' \in [SiCalls -> CallType] /\ siCall'[c] = v
        /\ \A d \in SiCalls \ {c} : siCall'[d] = siCall[d]
    BY <1>1, <1>2, PutOther
  <2>2. UNCHANGED <<siKey, siLane, siCache, siWrites, siSigns, siTold, siLate>>  BY DEF AskLane
  <2>3. LaneType' /\ LaneHeld'  BY <1>1, <2>1, <2>2 DEF LaneInv, LaneType, LaneHeld, Holding
  <2>4. Ahead' /\ NothingOld'  BY <1>1, <2>1, <2>2 DEF LaneInv, LaneType, Ahead, NothingOld, CachedCurrent, Current
  <2>5. QED  BY <2>3, <2>4 DEF LaneInv

LEMMA AnswerKeeps ==
    ASSUME LaneInv, NEW c \in SiCalls, NEW got \in Nat, AnswerCall(c, got),
           ~siLate => got = 0 \/ got >= siCall[c].saved,
           siLane' = siLane \/ siLane = c \/ siLane = "none",
           siLane' \in SiCalls \cup {"none"}, siLane' # siLane => siLane' = "none",
           siKey' \in Token, ~siLate' => ~siLate /\ siKey'.sign >= siTold,
           siCache' \in [Resources -> Access],
           ~siLate => \A r \in Resources : siCache'[r] = NoAccess \/ siCache'[r].sign >= siTold,
           UNCHANGED <<siWrites, siSigns, siTold, siLate>>
    PROVE  LaneInv'
<1>1. PutSiCall(c, LeftWith(c, got))  BY AnswerCallIs
<1>2. /\ siCall' \in [SiCalls -> CallType] /\ siCall'[c] = LeftWith(c, got)
      /\ \A d \in SiCalls \ {c} : siCall'[d] = siCall[d]
  BY <1>1, AnsweredType, PutOther
<1>3. LaneType'  BY <1>2 DEF LaneInv, LaneType
<1>4. LaneHeld'  BY <1>2, AnsweredType, SignInNames DEF LaneInv, LaneHeld, Holding
<1>5. Ahead'  BY <1>2, AnsweredType DEF LaneInv, Ahead
<1>6. NothingOld'  BY <1>2, AnsweredType DEF LaneInv, NothingOld, CachedCurrent, Current
<1>7. QED  BY <1>3, <1>4, <1>5, <1>6 DEF LaneInv

\* Nobody is past the lane while it is free, and only its holder while it is not.
LEMMA OneHolder ==
    ASSUME LaneInv, NEW c \in SiCalls, siLane = c \/ LaneFree
    PROVE  \A d \in SiCalls \ {c} : siCall[d].at \notin Holding
BY SignInNames DEF LaneInv, LaneHeld, LaneFree

LEMMA ExchangeKeeps ==
    ASSUME LaneInv, NEW c \in SiCalls, Exchange(c)
    PROVE  LaneInv'
<1>1. /\ siCall[c].verb = "token" /\ siCall[c].at = "wait" /\ siCall[c].resource \in Resources /\ LaneFree
      /\ UNCHANGED <<siKey, siCache, siWrites, siSigns, siTold, siLate>>
  BY DEF Exchange, LaneInv, LaneHeld
<1>2. siCache[siCall[c].resource] \in Access  BY <1>1 DEF LaneInv, LaneType
<1>3. CASE siCache[siCall[c].resource].fresh /\ AnswerCall(c, siCache[siCall[c].resource].sign) /\ UNCHANGED siLane
  <2>1. siCache[siCall[c].resource].sign \in Nat  BY <1>2 DEF Access
  <2>2. ~siLate => siCache[siCall[c].resource].sign >= siCall[c].saved
    BY <1>1, <1>3, <2>1, AnsweredType DEF LaneInv, NothingOld, CachedCurrent, Ahead, NoAccess, LaneType
  <2>3. QED  BY <1>1, <1>3, <2>1, <2>2, AnswerKeeps DEF LaneInv, LaneType, NothingOld, CachedCurrent
<1>4. CASE AnswerCall(c, 0) /\ UNCHANGED siLane  BY <1>1, <1>4, AnswerKeeps DEF LaneInv, LaneType, NothingOld, CachedCurrent
<1>5. CASE siLane' = c /\ PutSiCall(c, [siCall[c] EXCEPT !.at = "wire", !.token = siKey])
  <2> DEFINE v == [siCall[c] EXCEPT !.at = "wire", !.token = siKey]
  <2>1. /\ v \in CallType /\ v.at = "wire" /\ v.token = siKey /\ v.resource = siCall[c].resource
        /\ v.saved = siCall[c].saved /\ v.got = siCall[c].got /\ v.verb = siCall[c].verb
    BY DEF LaneInv, LaneType, CallType, Holding
  <2> HIDE DEF v
  <2>2. /\ siCall' \in [SiCalls -> CallType] /\ siCall'[c] = v
        /\ \A d \in SiCalls \ {c} : siCall'[d] = siCall[d]
    BY <1>5, <2>1, PutOther DEF v
  <2>3. \A d \in SiCalls \ {c} : siCall[d].at \notin Holding  BY <1>1, OneHolder
  <2>4. QED  BY <1>1, <1>5, <2>1, <2>2, <2>3 DEF LaneInv, LaneType, LaneHeld, Ahead, NothingOld, CachedCurrent, Current, Holding
<1>6. QED  BY <1>3, <1>4, <1>5 DEF Exchange

\* The token a caller is left with is no older than what it asked after.
LEMMA CachedKeeps ==
    ASSUME LaneInv, NEW c \in SiCalls, NEW call \in CallType,
           siLane = c, call.token.sign \in Nat, call.resource \in Resources,
           ~siLate => call.token.sign >= siTold,
           siKey' \in {siKey, call.token}, Cached(c, call),
           UNCHANGED <<siWrites, siSigns, siTold, siLate>>
    PROVE  LaneInv'
<1>1. /\ siKey' \in Token /\ (~siLate' => ~siLate /\ siKey'.sign >= siTold)  BY DEF LaneInv, LaneType, NothingOld, CallType
<1>2. siLane' = "none" /\ siLane' \in SiCalls \cup {"none"}  BY DEF Cached, LetGo
<1>3. CASE call.whole
  <2> DEFINE a == [sign |-> call.token.sign, fresh |-> call.fresh]
  <2>1. a \in Access /\ a.sign = call.token.sign  BY DEF Access, CallType
  <2> HIDE DEF a
  <2>2. siCache' = [siCache EXCEPT ![call.resource] = a] /\ AnswerCall(c, call.token.sign)  BY <1>3 DEF Cached, a
  <2>3. /\ siCache' \in [Resources -> Access]
        /\ ~siLate => \A r \in Resources : siCache'[r] = NoAccess \/ siCache'[r].sign >= siTold
    BY <2>1, <2>2 DEF LaneInv, LaneType, NothingOld, CachedCurrent
  <2>4. ~siLate => call.token.sign >= siCall[c].saved  BY AnsweredType DEF LaneInv, LaneType, Ahead
  <2>5. QED  BY <1>1, <1>2, <2>2, <2>3, <2>4, AnswerKeeps
<1>4. CASE ~call.whole
  <2>1. AnswerCall(c, 0) /\ siCache' = siCache  BY <1>4 DEF Cached
  <2>2. QED  BY <1>1, <1>2, <2>1, AnswerKeeps DEF LaneInv, LaneType, NothingOld, CachedCurrent
<1>5. QED  BY <1>3, <1>4

LEMMA ExchangedKeeps ==
    ASSUME LaneInv, NEW c \in SiCalls, NEW rotated \in BOOLEAN, NEW whole \in BOOLEAN, NEW fresh \in BOOLEAN,
           Exchanged(c, rotated, whole, fresh)
    PROVE  LaneInv'
<1> DEFINE call == [siCall[c] EXCEPT !.whole = whole, !.fresh = fresh]
<1>1. /\ siCall[c] \in CallType /\ siCall[c].at = "wire" /\ siLane = c /\ siCall[c].resource \in Resources
      /\ siCall[c].token \in Token /\ (~siLate => siCall[c].token.sign >= siTold)
      /\ UNCHANGED <<siKey, siWrites, siSigns, siTold, siLate>>
  BY DEF Exchanged, LaneInv, LaneType, LaneHeld, NothingOld, Current, Holding, CallType
<1>2. /\ call \in CallType /\ call.token = siCall[c].token /\ call.resource = siCall[c].resource
      /\ call.saved = siCall[c].saved /\ call.got = siCall[c].got /\ call.verb = siCall[c].verb
      /\ call.readonly = siCall[c].readonly
  BY <1>1 DEF CallType
<1>3. CASE rotated /\ ~siCall[c].readonly
  <2> DEFINE v == [call EXCEPT !.at = "put", !.token.turn = @ + 1]
  <2>1. /\ v \in CallType /\ v.at = "put" /\ v.token.sign = siCall[c].token.sign
        /\ v.resource = siCall[c].resource /\ v.saved = siCall[c].saved /\ v.got = siCall[c].got
        /\ v.verb = siCall[c].verb
    <3> DEFINE turned == [siCall[c].token EXCEPT !.turn = @ + 1]
    <3>1. turned \in Token /\ turned.sign = siCall[c].token.sign  BY <1>1 DEF Token
    <3>2. v = [call EXCEPT !.at = "put", !.token = turned]  BY <1>1, <1>2 DEF CallType, Token
    <3> HIDE DEF turned, v, call
    <3>3. QED  BY <1>2, <3>1, <3>2 DEF CallType, Holding
  <2>2. PutSiCall(c, v) /\ UNCHANGED <<siLane, siCache>>  BY <1>2, <1>3 DEF Exchanged
  <2> HIDE DEF v, call
  <2>3. /\ siCall' \in [SiCalls -> CallType] /\ siCall'[c] = v
        /\ \A d \in SiCalls \ {c} : siCall'[d] = siCall[d]
    BY <2>1, <2>2, PutOther
  <2>4. QED  BY <1>1, <2>1, <2>2, <2>3 DEF LaneInv, LaneType, LaneHeld, Ahead, NothingOld, CachedCurrent, Current, Holding
<1>4. CASE ~(rotated /\ ~siCall[c].readonly)
  <2>1. Cached(c, call)  BY <1>2, <1>4 DEF Exchanged
  <2> HIDE DEF call
  <2>2. QED  BY <1>1, <1>2, <2>1, CachedKeeps DEF Token
<1>5. QED  BY <1>3, <1>4

\* The caller learns of a failure: it has no token, and it may have written.
LEMMA FailedKeeps ==
    ASSUME LaneInv, NEW c \in SiCalls, siCall[c].at \in Holding, AnswerCall(c, 0), LetGo,
           siKey' = siKey \/ (siCall[c].at \in {"put", "store"} /\ siKey' = siCall[c].token),
           UNCHANGED <<siCache, siWrites, siSigns, siTold, siLate>>
    PROVE  LaneInv'
<1>1. siLane = c /\ siLane' = "none"  BY DEF LaneInv, LaneHeld, LetGo
<1>2. siKey' \in Token  BY AnsweredType DEF LaneInv, LaneType
<1>3. ~siLate => siKey'.sign >= siTold  BY AnsweredType DEF LaneInv, LaneType, NothingOld, Current, Ahead, Token
<1>4. QED  BY <1>1, <1>2, <1>3, AnswerKeeps DEF LaneInv, LaneType, NothingOld, CachedCurrent

LEMMA RotationStoredKeeps ==
    ASSUME LaneInv, NEW c \in SiCalls, RotationStored(c)
    PROVE  LaneInv'
<1>1. /\ siCall[c] \in CallType /\ siLane = c /\ siCall[c].resource \in Resources
      /\ siCall[c].token.sign \in Nat /\ (~siLate => siCall[c].token.sign >= siTold)
  BY DEF RotationStored, LaneInv, LaneType, LaneHeld, NothingOld, Current, Holding, CallType, Token
<1>2. QED  BY <1>1, CachedKeeps DEF RotationStored

LEMMA ChangeItemKeeps ==
    ASSUME LaneInv, NEW c \in SiCalls, NEW live \in BOOLEAN, ChangeItem(c, live)
    PROVE  LaneInv'
<1> DEFINE v == [siCall[c] EXCEPT !.at = "store", !.token = [sign |-> siSigns + 1, turn |-> 0, live |-> live]]
<1>1. /\ v \in CallType /\ v.at = "store" /\ v.token.sign = siSigns + 1 /\ v.verb = "change"
      /\ v.saved = siCall[c].saved /\ v.got = siCall[c].got
  <2> DEFINE item == [sign |-> siSigns + 1, turn |-> 0, live |-> live]
  <2>1. item \in Token /\ item.sign = siSigns + 1  BY DEF LaneInv, LaneType, Token
  <2> HIDE DEF item
  <2>2. siCall[c] \in CallType /\ siCall[c].verb = "change"  BY DEF ChangeItem, LaneInv, LaneType
  <2>3. v = [siCall[c] EXCEPT !.at = "store", !.token = item]  BY DEF item
  <2> HIDE DEF v
  <2>4. QED  BY <2>1, <2>2, <2>3 DEF CallType, Holding
<1>2. /\ PutSiCall(c, v) /\ siLane' = c /\ siSigns' = siSigns + 1
      /\ UNCHANGED <<siKey, siCache, siWrites, siTold, siLate>>
  BY DEF ChangeItem
<1>3. \A d \in SiCalls \ {c} : siCall[d].at \notin Holding  BY OneHolder DEF ChangeItem
<1> HIDE DEF v
<1>4. /\ siCall' \in [SiCalls -> CallType] /\ siCall'[c] = v
      /\ \A d \in SiCalls \ {c} : siCall'[d] = siCall[d]
  BY <1>1, <1>2, PutOther
<1>5. QED  BY <1>1, <1>2, <1>3, <1>4 DEF LaneInv, LaneType, LaneHeld, Ahead, NothingOld, CachedCurrent, Current, Holding

\* A change that is acknowledged leaves nothing of what it replaced: nobody
\* else is past the lane, and the cache is empty.
LEMMA ChangedKeeps ==
    ASSUME LaneInv, NEW c \in SiCalls, Changed(c)
    PROVE  LaneInv'
<1>1. /\ siCall[c].token \in Token /\ siLane = c
      /\ siTold <= siCall[c].token.sign /\ siCall[c].token.sign <= siSigns
      /\ siTold \in Nat /\ siSigns \in Nat
  <2>1. siCall[c].token \in Token  BY AnsweredType
  <2>2. siCall[c].at = "store"  BY DEF Changed
  <2>3. siLane = c  BY <2>2 DEF LaneInv, LaneHeld, Holding
  <2>4. siTold <= siCall[c].token.sign /\ siCall[c].token.sign <= siSigns  BY <2>2 DEF LaneInv, Ahead
  <2>5. QED  BY <2>1, <2>3, <2>4 DEF LaneInv, LaneType
<1>2. \A d \in SiCalls \ {c} : siCall[d].at \notin Holding  BY <1>1, OneHolder
<1>3. /\ siCall' \in [SiCalls -> CallType] /\ siCall'[c] = LeftWith(c, 0)
      /\ \A d \in SiCalls \ {c} : siCall'[d] = siCall[d]
  BY AnswerCallIs, AnsweredType, PutOther DEF Changed
<1>4. /\ siCache' \in [Resources -> Access] /\ \A r \in Resources : siCache'[r] = NoAccess  BY IdleIsCall DEF Changed, Emptied
<1>5. /\ siTold' = siCall[c].token.sign /\ siKey' = siCall[c].token /\ siLane' = "none"
      /\ UNCHANGED <<siWrites, siSigns, siLate>>
  BY DEF Changed, LetGo
<1>6. LaneType' /\ LaneHeld'
  <2>1. siCall[c].token.sign \in Nat  BY <1>1 DEF Token
  <2>2. LaneType'  BY <1>1, <1>3, <1>4, <1>5, <2>1 DEF LaneInv, LaneType
  <2>3. LaneHeld'  BY <1>2, <1>3, AnsweredType DEF LaneInv, LaneHeld, Holding
  <2>4. QED  BY <2>2, <2>3
<1>7. Ahead'
  <2>1. \A d \in SiCalls : siCall[d].saved \in Nat /\ siCall[d].saved <= siTold  BY AnsweredType DEF LaneInv, Ahead
  <2>2. QED
    <3>1. /\ siCall'[c].at = "done" /\ siCall'[c].saved = siCall[c].saved
          /\ siTold' <= siSigns' /\ siTold <= siTold' /\ siTold' \in Nat
      BY <1>1, <1>3, <1>5, AnsweredType DEF Token
    <3>2. \A d \in SiCalls : siCall'[d].at # "store"  BY <1>2, <1>3, <3>1 DEF Holding
    <3>3. \A d \in SiCalls : siCall'[d].saved = siCall[d].saved  BY <1>3, <3>1
    <3>4. \A d \in SiCalls : siCall'[d].saved <= siTold'  BY <1>1, <2>1, <3>1, <3>3
    <3>5. QED  BY <3>1, <3>2, <3>4 DEF Ahead
<1>8. NothingOld'  BY <1>1, <1>2, <1>3, <1>4, <1>5, AnsweredType DEF LaneInv, NothingOld, CachedCurrent, Current, Holding, Token
<1>9. QED  BY <1>6, <1>7, <1>8 DEF LaneInv

\* The time of a token changes nothing of where it stems from.
LEMMA TokenExpiresKeeps ==
    ASSUME LaneInv, NEW r \in Resources, TokenExpires(r)
    PROVE  LaneInv'
<1> DEFINE a == [siCache[r] EXCEPT !.fresh = FALSE]
<1>1. a \in Access /\ a.sign = siCache[r].sign /\ siCache[r] # NoAccess
  <2>1. siCache[r] \in Access /\ siCache[r].fresh  BY DEF TokenExpires, LaneInv, LaneType
  <2>2. siCache[r] # NoAccess  BY <2>1 DEF NoAccess
  <2>3. QED  BY <2>1, <2>2 DEF Access
<1>2. siCache' = [siCache EXCEPT ![r] = a]  BY DEF TokenExpires
<1> HIDE DEF a
<1>3. QED
  <2>1. siCache' \in [Resources -> Access]  BY <1>1, <1>2 DEF LaneInv, LaneType
  <2>2. \A s \in Resources : siCache'[s] = NoAccess \/ (siCache'[s].sign = siCache[s].sign /\ siCache[s] # NoAccess)
    BY <1>1, <1>2 DEF LaneInv, LaneType, NothingOld
  <2>3. UNCHANGED <<siKey, siLane, siCall, siWrites, siSigns, siTold, siLate>>  BY DEF TokenExpires
  <2>4. QED  BY <2>1, <2>2, <2>3 DEF LaneInv, LaneType, LaneHeld, Ahead, NothingOld, CachedCurrent, Current, Holding

LEMMA DropTokensKeeps ==
    ASSUME LaneInv, NEW c \in SiCalls, DropTokens(c)
    PROVE  LaneInv'
<1>1. siCache' \in [Resources -> Access] /\ \A r \in Resources : siCache'[r] = NoAccess  BY IdleIsCall DEF DropTokens, Emptied
<1>2. QED  BY <1>1, AnswerKeeps DEF DropTokens, LaneInv, LaneType, NothingOld

\* A call that is gone: its lane is free, and its write may be left behind.
LEMMA GoneKeeps ==
    ASSUME LaneInv, NEW c \in SiCalls, PutSiCall(c, IdleCall),
           siLane' = IF siLane = c THEN "none" ELSE siLane,
           siWrites' = siWrites \/ siWrites' = siWrites \cup {siCall[c].token},
           UNCHANGED <<siKey, siCache, siSigns, siTold, siLate>>
    PROVE  LaneInv'
<1>1. IdleCall.at = "idle" /\ IdleCall.verb = "none" /\ IdleCall.saved = 0 /\ IdleCall.got = 0  BY DEF IdleCall
<1>2. /\ siCall' \in [SiCalls -> CallType] /\ siCall'[c] = IdleCall
      /\ \A d \in SiCalls \ {c} : siCall'[d] = siCall[d]
  BY IdleIsCall, PutOther
<1>3. siWrites' \subseteq Token  BY AnsweredType DEF LaneInv, LaneType
<1>4. LaneType'  BY <1>2, <1>3 DEF LaneInv, LaneType
<1>5. LaneHeld'  BY <1>1, <1>2 DEF LaneInv, LaneHeld, Holding
<1>6. Ahead' /\ NothingOld'  BY <1>1, <1>2 DEF LaneInv, LaneType, Ahead, NothingOld, CachedCurrent, Current
<1>7. QED  BY <1>4, <1>5, <1>6 DEF LaneInv

LEMMA TakeAnswerKeeps ==
    ASSUME LaneInv, NEW c \in SiCalls, TakeAnswer(c)
    PROVE  LaneInv'
\* The holder of the lane is not done, but a lane that has no holder may name one.
<1>1. CASE siLane # c  BY <1>1, GoneKeeps DEF TakeAnswer
<1>2. CASE siLane = c
  <2>1. IdleCall.at = "idle" /\ IdleCall.verb = "none" /\ IdleCall.saved = 0 /\ IdleCall.got = 0  BY DEF IdleCall
  <2>2. /\ siCall' \in [SiCalls -> CallType] /\ siCall'[c] = IdleCall
        /\ \A d \in SiCalls \ {c} : siCall'[d] = siCall[d]
    BY IdleIsCall, PutOther DEF TakeAnswer
  <2>3. QED  BY <2>1, <2>2 DEF TakeAnswer, LaneInv, LaneType, LaneHeld, Ahead, NothingOld, CachedCurrent, Current, Holding
<1>3. QED  BY <1>1, <1>2

\* A write left behind is caught by siLate when it lands on a newer item.
LEMMA LateWriteKeeps ==
    ASSUME LaneInv, NEW w \in siWrites, LateWrite(w)
    PROVE  LaneInv'
<1>1. w \in Token /\ siKey \in Token /\ siKey' \in {w, siKey}  BY DEF LateWrite, LaneInv, LaneType
<1>2. ~siLate' => ~siLate /\ siKey'.sign >= siKey.sign
  <2>1. w.sign \in Nat /\ siKey.sign \in Nat  BY <1>1 DEF Token
  <2>2. ~siLate' => ~siLate /\ ~(siKey' = w /\ w.sign < siKey.sign)  BY Zenon DEF LateWrite
  <2>3. siKey' = w /\ ~(w.sign < siKey.sign) => siKey'.sign >= siKey.sign  BY <2>1
  <2>4. siKey' = siKey => siKey'.sign >= siKey.sign  BY <2>1
  <2>5. QED  BY <1>1, <2>2, <2>3, <2>4
<1>3. ~siLate' => siKey'.sign >= siTold  BY <1>1, <1>2 DEF LaneInv, LaneType, NothingOld, Token
<1>4. LaneType'  BY <1>1 DEF LateWrite, LaneInv, LaneType
<1>5. QED  BY <1>2, <1>3, <1>4 DEF LateWrite, LaneInv, LaneHeld, Ahead, NothingOld, CachedCurrent, Current

LEMMA LaneStep == LaneInv /\ LaneNext => LaneInv'
<1> SUFFICES ASSUME LaneInv, LaneNext PROVE LaneInv'  OBVIOUS
<1>1. ASSUME NEW c \in SiCalls, NEW r \in Resources, NEW ro \in BOOLEAN, AskLane(c, "token", r, ro) PROVE LaneInv'
  BY <1>1, AskKeeps
<1>2. ASSUME NEW c \in SiCalls, NEW v \in {"change", "invalidate"}, AskLane(c, v, "none", FALSE) PROVE LaneInv'  BY <1>2, AskKeeps
<1>3. ASSUME NEW c \in SiCalls, NotExchanged(c) PROVE LaneInv'
  <2>1. siCall[c].at = "wire" /\ AnswerCall(c, 0) /\ LetGo /\ (siKey' = siKey)  BY <1>3 DEF NotExchanged
  <2>2. UNCHANGED <<siCache, siWrites, siSigns, siTold, siLate>>  BY <1>3 DEF NotExchanged
  <2>3. siCall[c].at \in Holding  BY <2>1 DEF Holding
  <2>4. QED  BY <2>1, <2>2, <2>3, FailedKeeps
<1>4. ASSUME NEW c \in SiCalls, RotationFailed(c) PROVE LaneInv'
  <2>1. siCall[c].at = "put" /\ AnswerCall(c, 0) /\ LetGo /\ (siKey' = siKey \/ siKey' = siCall[c].token)
    BY <1>4 DEF RotationFailed
  <2>2. UNCHANGED <<siCache, siWrites, siSigns, siTold, siLate>>  BY <1>4 DEF RotationFailed
  <2>3. siCall[c].at \in Holding  BY <2>1 DEF Holding
  <2>4. QED  BY <2>1, <2>2, <2>3, FailedKeeps
<1>5. ASSUME NEW c \in SiCalls, NotChanged(c) PROVE LaneInv'
  <2>1. siCall[c].at = "store" /\ AnswerCall(c, 0) /\ LetGo /\ (siKey' = siKey \/ siKey' = siCall[c].token)  BY <1>5 DEF NotChanged
  <2>2. UNCHANGED <<siCache, siWrites, siSigns, siTold, siLate>>  BY <1>5 DEF NotChanged
  <2>3. siCall[c].at \in Holding  BY <2>1 DEF Holding
  <2>4. QED  BY <2>1, <2>2, <2>3, FailedKeeps
<1>6. ASSUME NEW c \in SiCalls, AbandonCall(c) PROVE LaneInv'  BY <1>6, GoneKeeps DEF AbandonCall
<1>7. QED
  BY <1>1, <1>2, <1>3, <1>4, <1>5, <1>6, ExchangeKeeps, ExchangedKeeps, RotationStoredKeeps, ChangeItemKeeps,
     ChangedKeeps, DropTokensKeeps, TakeAnswerKeeps, TokenExpiresKeeps, LateWriteKeeps
     DEF LaneNext

LEMMA LaneUnmoved == LaneInv /\ UNCHANGED laneVars => LaneInv'
BY DEF laneVars, LaneInv, LaneType, LaneHeld, Ahead, NothingOld, CachedCurrent, Current

LEMMA FlowLeavesLane == FlowNext => UNCHANGED laneVars
BY DEF FlowNext, BeginFlow, Receive, Profile, StoreGrant, FailFlow, LateGrant, PollFlow, CancelFlow, Reap

\* What change_outlook promises (credentials.rs): once a sign-in or sign-out
\* made under the lane is acknowledged, no exchange that was under way puts the
\* replaced refresh token back into the keyring.
THEOREM SignOutIsKept == SignSpec => []SignOutHolds
<1>1. LaneInv /\ [SignNext]_signVars => LaneInv'
  <2>1. UNCHANGED signVars => UNCHANGED laneVars  BY DEF signVars, laneVars
  <2>2. QED  BY <2>1, LaneStep, LaneUnmoved, FlowLeavesLane DEF SignNext
<1>2. LaneInv => SignOutHolds  BY DEF LaneInv, NothingOld, SignOutHolds
<1>3. QED  BY <1>1, <1>2, LaneInit, PTL DEF SignSpec

\* And no access token of the replaced sign-in is kept in the cache or handed to
\* anyone who asks after the acknowledgement (access_token_with).
THEOREM NoOldAccess == SignSpec => []TokensAreCurrent
<1>1. LaneInv /\ [SignNext]_signVars => LaneInv'
  <2>1. UNCHANGED signVars => UNCHANGED laneVars  BY DEF signVars, laneVars
  <2>2. QED  BY <2>1, LaneStep, LaneUnmoved, FlowLeavesLane DEF SignNext
<1>2. LaneInv => TokensAreCurrent  BY DEF LaneInv, NothingOld, CachedCurrent, Current, TokensAreCurrent
<1>3. QED  BY <1>1, <1>2, LaneInit, PTL DEF SignSpec

------------------------------------
(* Google: the inductive invariant *)

FlowType ==
    /\ gfFlow \in [Flows -> [at : {"none", "listen", "exchange", "store", "ok", "failed", "aborted", "over"},
                             port : FlowPorts \cup {"none"}, code : Flows \cup {0},
                             box : Mailboxes \cup {"none"}, listed : BOOLEAN]]
    /\ gfKey \in [Mailboxes -> Flows \cup {0}] /\ gfWrites \subseteq Flows
    /\ gfReport \in [Flows -> {"none", "ok", "failed"}]

\* What a flow is about to store is its own, and goes to a mailbox; the keyring
\* has what flows past that point left there.
Past(f) == gfFlow[f].at \in {"ok", "failed", "over"}
OwnGrant(f) == gfFlow[f].code = f /\ gfFlow[f].box \in Mailboxes
FlowOwn == \A f \in Flows : /\ gfFlow[f].at = "exchange" => gfFlow[f].code = f
                            /\ gfFlow[f].at \in {"store", "ok"} \/ f \in gfWrites => OwnGrant(f)
                            /\ f \in gfWrites => Past(f)
                            /\ gfFlow[f].at = "ok" => gfKey[gfFlow[f].box] # 0
                            /\ gfReport[f] = "ok" => gfFlow[f].at = "ok" /\ ~gfFlow[f].listed
KeyOwn == \A m \in Mailboxes : gfKey[m] # 0 =>
             gfFlow[gfKey[m]].box = m /\ gfFlow[gfKey[m]].code = gfKey[m] /\ Past(gfKey[m])
\* A port is free again only when the listener is dropped.
OnPort(f) == gfFlow[f].at \in {"listen", "aborted"}
PortOwn == \A f, g \in Flows : f # g /\ OnPort(f) /\ OnPort(g) => gfFlow[f].port # gfFlow[g].port

FlowInv == FlowType /\ FlowOwn /\ KeyOwn /\ PortOwn

LEMMA FlowInit == SignInit => FlowInv
<1> SUFFICES ASSUME SignInit PROVE FlowInv  OBVIOUS
<1>1. FlowType /\ \A f \in Flows : gfFlow[f].at = "none"  BY DEF SignInit, FlowType, IdleFlow
<1>2. \A f \in Flows : gfReport[f] = "none"  BY DEF SignInit
<1>3. gfWrites = {} /\ \A m \in Mailboxes : gfKey[m] = 0  BY DEF SignInit
<1>4. QED  BY <1>1, <1>2, <1>3 DEF FlowInv, FlowOwn, KeyOwn, PortOwn, OnPort

\* Where a step takes a flow that no grant in the keyring depends on.
LEMMA FlowMoves ==
    ASSUME FlowInv, NEW f \in Flows, ~Past(f), FlowType', gfKey' = gfKey, gfReport' = gfReport,
           NEW g, gfFlow' = [gfFlow EXCEPT ![f] = g],
           g.at \in {"exchange", "store"} => g.code = f,
           g.at = "store" => g.box \in Mailboxes, g.at # "ok",
           gfWrites' = gfWrites \/ (gfWrites' = gfWrites \cup {f} /\ g.code = f /\ g.box \in Mailboxes
                                    /\ g.at \in {"failed", "over"}),
           g.at \in {"listen", "aborted"} =>
              \/ OnPort(f) /\ g.port = gfFlow[f].port
              \/ \A h \in Flows \ {f} : OnPort(h) => gfFlow[h].port # g.port
    PROVE  FlowInv'
<1>1. /\ gfFlow'[f] = g /\ \A h \in Flows \ {f} : gfFlow'[h] = gfFlow[h]  BY DEF FlowInv, FlowType
<1>2. f \notin gfWrites /\ gfReport[f] # "ok" /\ \A m \in Mailboxes : gfKey[m] # f
  BY SignInNames DEF FlowInv, FlowOwn, KeyOwn, Past
<1>3. FlowOwn'  BY <1>1, <1>2 DEF FlowInv, FlowType, FlowOwn, OwnGrant, Past
<1>4. KeyOwn'  BY <1>1, <1>2 DEF FlowInv, FlowType, KeyOwn, Past
<1>5. PortOwn'  BY <1>1 DEF FlowInv, PortOwn, OnPort
<1>6. QED  BY <1>3, <1>4, <1>5 DEF FlowInv

LEMMA BeginFlowKeeps ==
    ASSUME FlowInv, NEW f \in Flows, NEW p \in FlowPorts, BeginFlow(f, p)
    PROVE  FlowInv'
<1> DEFINE g == [IdleFlow EXCEPT !.at = "listen", !.port = p, !.listed = TRUE]
<1>1. g.at = "listen" /\ g.port = p /\ gfFlow' = [gfFlow EXCEPT ![f] = g]  BY DEF BeginFlow, SetFlow, IdleFlow
<1>2. FlowType'  BY DEF BeginFlow, SetFlow, IdleFlow, FlowInv, FlowType
<1>3. ~Past(f) /\ \A h \in Flows \ {f} : OnPort(h) => gfFlow[h].port # p  BY DEF BeginFlow, Bound, Past, OnPort
<1>4. gfKey' = gfKey /\ gfReport' = gfReport /\ gfWrites' = gfWrites  BY DEF BeginFlow
<1> HIDE DEF g
<1>5. QED  BY <1>1, <1>2, <1>3, <1>4, FlowMoves

LEMMA ReceiveKeeps ==
    ASSUME FlowInv, NEW f \in Flows, NEW tab \in Flows, Receive(f, tab)
    PROVE  FlowInv'
<1> DEFINE g == [gfFlow[f] EXCEPT !.at = "exchange", !.code = tab]
<1>1. g.at = "exchange" /\ g.code = f /\ gfFlow' = [gfFlow EXCEPT ![f] = g]  BY DEF Receive, SetFlow, OwnTab, FlowInv, FlowType
<1>2. FlowType'  BY DEF Receive, SetFlow, FlowInv, FlowType
<1>3. ~Past(f) /\ gfKey' = gfKey /\ gfReport' = gfReport /\ gfWrites' = gfWrites  BY DEF Receive, Past
<1> HIDE DEF g
<1>4. QED  BY <1>1, <1>2, <1>3, FlowMoves

LEMMA ProfileKeeps ==
    ASSUME FlowInv, NEW f \in Flows, NEW m \in Mailboxes, Profile(f, m)
    PROVE  FlowInv'
<1> DEFINE g == [gfFlow[f] EXCEPT !.at = "store", !.box = m]
<1>1. g.at = "store" /\ g.code = f /\ g.box = m /\ gfFlow' = [gfFlow EXCEPT ![f] = g]
  BY DEF Profile, SetFlow, FlowInv, FlowType, FlowOwn
<1>2. FlowType'  BY DEF Profile, SetFlow, FlowInv, FlowType
<1>3. ~Past(f) /\ gfKey' = gfKey /\ gfReport' = gfReport /\ gfWrites' = gfWrites  BY DEF Profile, Past
<1> HIDE DEF g
<1>4. QED  BY <1>1, <1>2, <1>3, FlowMoves

\* The flow is moved to an end, and its write may be left behind.
LEMMA EndsKeep ==
    ASSUME FlowInv, NEW f \in Flows, ~Past(f), NEW to \in {"failed", "over", "aborted"}, NEW seen \in BOOLEAN,
           gfFlow' = [gfFlow EXCEPT ![f] = [gfFlow[f] EXCEPT !.at = to, !.listed = seen]],
           to = "aborted" => gfFlow[f].at = "listen",
           gfWrites' = Leaves(f), gfKey' = gfKey, gfReport' = gfReport
    PROVE  FlowInv'
<1> DEFINE g == [gfFlow[f] EXCEPT !.at = to, !.listed = seen]
<1>1. g.at = to /\ g.code = gfFlow[f].code /\ g.box = gfFlow[f].box /\ g.port = gfFlow[f].port  BY DEF FlowInv, FlowType
<1>2. FlowType'  BY DEF FlowInv, FlowType, Leaves
<1>3. gfWrites' = gfWrites \/ (gfWrites' = gfWrites \cup {f} /\ g.code = f /\ g.box \in Mailboxes
                              /\ g.at \in {"failed", "over"})
  BY <1>1 DEF Leaves, FlowInv, FlowOwn, OwnGrant
<1>4. g.at = "aborted" => OnPort(f)  BY <1>1 DEF OnPort
<1>5. gfFlow' = [gfFlow EXCEPT ![f] = g]  OBVIOUS
<1> HIDE DEF g
<1>6. QED  BY <1>1, <1>2, <1>3, <1>4, <1>5, FlowMoves

\* What is past its end stays there, with its grant.
LEMMA PastKeeps ==
    ASSUME FlowInv, NEW f \in Flows, Past(f), NEW to \in {"ok", "failed", "over"}, NEW seen \in BOOLEAN,
           gfFlow' = [gfFlow EXCEPT ![f] = [gfFlow[f] EXCEPT !.at = to, !.listed = seen]],
           to = "ok" => gfFlow[f].at = "ok",
           gfReport[f] = "ok" => to = "ok" /\ ~seen,
           gfReport' = gfReport \/ (gfReport' = [gfReport EXCEPT ![f] = to] /\ ~seen /\ to \in {"ok", "failed"}),
           gfWrites' = gfWrites, gfKey' = gfKey
    PROVE  FlowInv'
<1> DEFINE g == [gfFlow[f] EXCEPT !.at = to, !.listed = seen]
<1>1. g.at = to /\ g.code = gfFlow[f].code /\ g.box = gfFlow[f].box /\ g.port = gfFlow[f].port /\ g.listed = seen
  BY DEF FlowInv, FlowType
<1>2. FlowType'
  <2>1. gfReport' \in [Flows -> {"none", "ok", "failed"}]  BY DEF FlowInv, FlowType
  <2>2. QED  BY <2>1 DEF FlowInv, FlowType
<1>3. gfFlow'[f] = g /\ \A h \in Flows \ {f} : gfFlow'[h] = gfFlow[h] /\ gfReport'[h] = gfReport[h]  BY DEF FlowInv, FlowType
<1>4. gfReport'[f] = "ok" => to = "ok" /\ ~seen  BY DEF FlowInv, FlowType
<1> HIDE DEF g
<1>5. FlowOwn'  BY <1>1, <1>3, <1>4 DEF FlowInv, FlowOwn, OwnGrant, Past
<1>6. KeyOwn'  BY <1>1, <1>3 DEF FlowInv, FlowType, KeyOwn, Past
<1>7. PortOwn'  BY <1>1, <1>3 DEF FlowInv, PortOwn, OnPort
<1>8. QED  BY <1>2, <1>5, <1>6, <1>7 DEF FlowInv

\* A grant arrives in the keyring.
LEMMA GrantKeeps ==
    ASSUME FlowInv, NEW f \in Flows, OwnGrant(f), FlowType', gfReport' = gfReport,
           gfKey' = [gfKey EXCEPT ![gfFlow[f].box] = f],
           \A h \in Flows : /\ gfFlow'[h].box = gfFlow[h].box /\ gfFlow'[h].code = gfFlow[h].code
                            /\ gfFlow'[h].port = gfFlow[h].port /\ gfFlow'[h].listed = gfFlow[h].listed
                            /\ h # f => gfFlow'[h].at = gfFlow[h].at,
           gfFlow'[f].at = "ok" \/ (Past(f) /\ gfFlow'[f].at = gfFlow[f].at),
           gfWrites' \subseteq gfWrites, gfReport[f] # "ok" \/ gfFlow'[f].at = gfFlow[f].at
    PROVE  FlowInv'
<1>1. Past(f)'  BY DEF Past
<1>2. \A m \in Mailboxes : gfKey'[m] = IF m = gfFlow[f].box THEN f ELSE gfKey[m]  BY DEF FlowInv, FlowType, OwnGrant
<1>3. \A h \in Flows : Past(h) => Past(h)'  BY <1>1 DEF Past
<1>4. \A h \in Flows : OwnGrant(h) => OwnGrant(h)'  BY DEF OwnGrant
<1>5. FlowOwn'  BY <1>2, <1>3, <1>4, SignInNames DEF FlowInv, FlowOwn, OwnGrant
<1>6. KeyOwn'  BY <1>1, <1>2, <1>3 DEF FlowInv, FlowType, KeyOwn, OwnGrant
<1>7. PortOwn'  BY <1>1, <1>3 DEF FlowInv, PortOwn, OnPort, Past
<1>8. QED  BY <1>5, <1>6, <1>7 DEF FlowInv

LEMMA StoreGrantKeeps ==
    ASSUME FlowInv, NEW f \in Flows, StoreGrant(f)
    PROVE  FlowInv'
<1>1. FlowType'  BY DEF StoreGrant, SetFlow, FlowInv, FlowType
<1>2. OwnGrant(f) /\ gfReport[f] # "ok"  BY DEF StoreGrant, FlowInv, FlowOwn
<1>3. \A h \in Flows : /\ gfFlow'[h].box = gfFlow[h].box /\ gfFlow'[h].code = gfFlow[h].code
                       /\ gfFlow'[h].port = gfFlow[h].port /\ gfFlow'[h].listed = gfFlow[h].listed
                       /\ h # f => gfFlow'[h].at = gfFlow[h].at
  BY DEF StoreGrant, SetFlow, FlowInv, FlowType
<1>4. gfFlow'[f].at = "ok"  BY DEF StoreGrant, SetFlow, FlowInv, FlowType
<1>5. gfKey' = [gfKey EXCEPT ![gfFlow[f].box] = f] /\ gfReport' = gfReport /\ gfWrites' \subseteq gfWrites  BY DEF StoreGrant
<1>6. QED  BY <1>1, <1>2, <1>3, <1>4, <1>5, GrantKeeps

LEMMA LateGrantKeeps ==
    ASSUME FlowInv, NEW f \in Flows, LateGrant(f)
    PROVE  FlowInv'
<1>1. OwnGrant(f) /\ Past(f)  BY DEF LateGrant, FlowInv, FlowOwn
<1>2. FlowType'  BY <1>1 DEF LateGrant, OwnGrant, FlowInv, FlowType
<1>3. gfFlow' = gfFlow /\ gfReport' = gfReport /\ gfWrites' \subseteq gfWrites  BY DEF LateGrant
<1>4. CASE gfKey' = [gfKey EXCEPT ![gfFlow[f].box] = f]  BY <1>1, <1>2, <1>3, <1>4, GrantKeeps
<1>5. CASE gfKey' = gfKey  BY <1>2, <1>3, <1>5 DEF FlowInv, FlowOwn, KeyOwn, PortOwn, OnPort, Past, OwnGrant
<1>6. QED  BY <1>4, <1>5 DEF LateGrant

\* Changing where a flow is keeps the rest of its record.
LEMMA MovedTo ==
    ASSUME FlowInv, NEW f \in Flows, NEW to
    PROVE  [gfFlow[f] EXCEPT !.at = to] = [gfFlow[f] EXCEPT !.at = to, !.listed = gfFlow[f].listed]
BY DEF FlowInv, FlowType

LEMMA FailFlowKeeps ==
    ASSUME FlowInv, NEW f \in Flows, FailFlow(f)
    PROVE  FlowInv'
<1>1. ~Past(f) /\ gfFlow[f].listed \in BOOLEAN  BY DEF FailFlow, Past, FlowInv, FlowType
<1>2. gfFlow' = [gfFlow EXCEPT ![f] = [gfFlow[f] EXCEPT !.at = "failed", !.listed = gfFlow[f].listed]]
  BY MovedTo DEF FailFlow, SetFlow
<1>3. gfWrites' = Leaves(f) /\ gfKey' = gfKey /\ gfReport' = gfReport  BY DEF FailFlow
<1>4. QED  BY <1>1, <1>2, <1>3, EndsKeep

LEMMA ReapKeeps ==
    ASSUME FlowInv, NEW f \in Flows, Reap(f)
    PROVE  FlowInv'
<1>1. ~Past(f) /\ gfFlow[f].listed \in BOOLEAN  BY DEF Reap, Past, FlowInv, FlowType
<1>2. gfFlow' = [gfFlow EXCEPT ![f] = [gfFlow[f] EXCEPT !.at = "over", !.listed = gfFlow[f].listed]]  BY MovedTo DEF Reap, SetFlow
<1>3. gfWrites' = Leaves(f) /\ gfKey' = gfKey /\ gfReport' = gfReport  BY DEF Reap, Leaves
<1>4. QED  BY <1>1, <1>2, <1>3, EndsKeep

LEMMA PollFlowKeeps ==
    ASSUME FlowInv, NEW f \in Flows, PollFlow(f)
    PROVE  FlowInv'
<1> DEFINE to == gfFlow[f].at
<1>1. Past(f) /\ to \in {"ok", "failed"} /\ gfReport[f] # "ok"  BY DEF PollFlow, Past, FlowInv, FlowOwn
<1>2. gfFlow' = [gfFlow EXCEPT ![f] = [gfFlow[f] EXCEPT !.at = to, !.listed = FALSE]]  BY DEF PollFlow, SetFlow, FlowInv, FlowType
<1>3. gfReport' = [gfReport EXCEPT ![f] = to] /\ gfWrites' = gfWrites /\ gfKey' = gfKey  BY DEF PollFlow
<1>4. to = "ok" => gfFlow[f].at = "ok"  OBVIOUS
<1> HIDE DEF to
<1>5. QED  BY <1>1, <1>2, <1>3, <1>4, PastKeeps

LEMMA CancelFlowKeeps ==
    ASSUME FlowInv, NEW f \in Flows, CancelFlow(f)
    PROVE  FlowInv'
<1> DEFINE to == IF gfFlow[f].at = "listen" THEN "aborted" ELSE "over"
<1>1. /\ to \in {"failed", "over", "aborted"} /\ (to = "aborted" => gfFlow[f].at = "listen")
      /\ Past(f) => to = "over"
  BY DEF Past
<1>2. gfFlow' = [gfFlow EXCEPT ![f] = [gfFlow[f] EXCEPT !.at = to, !.listed = FALSE]]  BY DEF CancelFlow, SetFlow, FlowInv, FlowType
<1>3. gfWrites' = Leaves(f) /\ gfKey' = gfKey /\ gfReport' = gfReport /\ gfReport[f] # "ok"  BY DEF CancelFlow, FlowInv, FlowOwn
<1> HIDE DEF to
<1>4. CASE ~Past(f)  BY <1>1, <1>2, <1>3, <1>4, EndsKeep
<1>5. CASE Past(f)
  <2>1. gfWrites' = gfWrites  BY <1>3, <1>5 DEF Leaves, Past
  <2>2. QED  BY <1>1, <1>2, <1>3, <1>5, <2>1, PastKeeps
<1>6. QED  BY <1>4, <1>5

LEMMA FlowStep == FlowInv /\ FlowNext => FlowInv'
BY BeginFlowKeeps, ReceiveKeeps, ProfileKeeps, StoreGrantKeeps, FailFlowKeeps, LateGrantKeeps,
   PollFlowKeeps, CancelFlowKeeps, ReapKeeps DEF FlowNext

LEMMA FlowUnmoved == FlowInv /\ UNCHANGED flowVars => FlowInv'
BY DEF flowVars, FlowInv, FlowType, FlowOwn, KeyOwn, PortOwn, OnPort, Past, OwnGrant

LEMMA LaneLeavesFlow == LaneNext => UNCHANGED flowVars
BY DEF LaneNext, AskLane, Exchange, NotExchanged, RotationStored, RotationFailed, Exchanged, ChangeItem, Changed,
       NotChanged, DropTokens, TakeAnswer, AbandonCall, TokenExpires, LateWrite

\* What auth/callback.rs promises of a sign-in with Google: whatever tabs answer
\* on its port, flows are cancelled and writes arrive late, the keyring has the
\* grant of a flow's own tab under that flow's mailbox, a flow that reports
\* success has stored one, and two flows never listen on one port.
THEOREM GrantsAreOwn == SignSpec => []GrantOfItsFlow
<1>1. FlowInv /\ [SignNext]_signVars => FlowInv'
  <2>1. UNCHANGED signVars => UNCHANGED flowVars  BY DEF signVars, flowVars
  <2>2. QED  BY <2>1, FlowStep, FlowUnmoved, LaneLeavesFlow DEF SignNext
<1>2. FlowInv => GrantOfItsFlow
  <2>1. FlowInv => \A f \in Flows : gfReport[f] = "ok" => gfKey[gfFlow[f].box] # 0  BY DEF FlowInv, FlowOwn
  <2>2. FlowInv => \A m \in Mailboxes :
                      gfKey[m] # 0 => gfFlow[gfKey[m]].box = m /\ gfFlow[gfKey[m]].code = gfKey[m]
    BY DEF FlowInv, KeyOwn
  <2>3. FlowInv => \A f, g \in Flows : f # g /\ gfFlow[f].at = "listen" /\ gfFlow[g].at = "listen"
                                       => gfFlow[f].port # gfFlow[g].port
    BY DEF FlowInv, PortOwn, OnPort
  <2>4. QED  BY <2>1, <2>2, <2>3 DEF GrantOfItsFlow
<1>3. QED  BY <1>1, <1>2, FlowInit, PTL DEF SignSpec

------------------------------------
(* Sending. *)

SendPlaces == {"idle", "read", "compare", "stamp", "submit", "done"}
Fates == {"absent", "queued", "sending", "interrupted", "sent", "unknown"}
Digests == {<<>>} \cup (SendIds \X Nat \X SUBSET Nat)
SendRecord == [pc : SendPlaces, id : SendIds \cup {"none"}, first : Nat, bytes : SUBSET Nat, stamp : Nat,
               digest : Digests, tries : Nat, told : {"nothing", "changed", "ok", "conflict", "unknown"}]
QueueRecord == [digest : Digests, order : Nat, fate : Fates]
SendTypeOK ==
    /\ sdFile \in Nat /\ sdClock \in Nat
    /\ sdProc \in [Procs -> SendRecord] /\ sdQueue \in [SendIds -> QueueRecord]
    /\ sdSent \in [SendIds -> Nat] /\ sdDraft \subseteq SendIds
\* What a process has read is one version of the file, or the file has changed since.
ReadInv == \A p \in Procs : LET me == sdProc[p] IN
    /\ me.pc # "idle" => me.id \in SendIds
    /\ me.pc = "read" => me.first <= sdFile /\ me.bytes = {me.first}
    /\ me.pc = "compare" => \E x \in me.first..sdFile : me.bytes = {me.first, x}
    /\ me.pc \in {"stamp", "submit"} => me.bytes = {me.first}
    /\ me.pc = "submit" => me.digest = <<me.id, me.stamp, me.bytes>>
\* A process that was told "ok" finds its message in the queue, whatever happens to it there.
ToldInv == \A p \in Procs : sdProc[p].told = "ok" =>
    /\ sdProc[p].pc = "done"
    /\ sdQueue[sdProc[p].id].fate # "absent"
    /\ sdQueue[sdProc[p].id].digest = sdProc[p].digest
\* What was delivered follows the fate of the entry, and nothing is delivered before it is "sending".
FateInv == \A i \in SendIds :
    /\ sdQueue[i].fate \in {"absent", "queued", "sending", "interrupted"} => sdSent[i] = 0
    /\ sdQueue[i].fate = "sent" => sdSent[i] = 1
    /\ sdQueue[i].fate = "unknown" => sdSent[i] \in {0, 1}
    /\ i \notin sdDraft => sdSent[i] = 1
    /\ sdQueue[i].fate # "absent" => \E v \in Nat : sdQueue[i].digest[3] = {v}
SendInv == SendTypeOK /\ ReadInv /\ ToldInv /\ FateInv

LEMMA DigestType == /\ <<>> \in Digests
                    /\ \A i \in SendIds, s \in Nat, b \in SUBSET Nat : <<i, s, b>> \in Digests
BY DEF Digests

LEMMA FreshType == FreshSend \in SendRecord
BY DigestType DEF SendRecord, FreshSend, SendPlaces

LEMMA SendIsType ==
    ASSUME SendTypeOK, ReadInv, SendNext
    PROVE  SendTypeOK'
<1> USE DEF SendTypeOK
<1>1. CASE FileChanges  BY <1>1 DEF FileChanges
<1>2. ASSUME NEW p \in Procs, ReadOn(p)
      PROVE  SendTypeOK'
  <2>1. sdProc'[p] = [sdProc[p] EXCEPT !.pc = "compare", !.bytes = sdProc[p].bytes \cup {sdFile}]  BY <1>2 DEF ReadOn
  <2>2. sdProc[p] \in SendRecord /\ sdProc[p].bytes \in SUBSET Nat  BY DEF SendRecord
  <2>3. PICK b \in SUBSET Nat : sdProc'[p] = [sdProc[p] EXCEPT !.pc = "compare", !.bytes = b]  BY <2>1, <2>2
  <2>4. sdProc'[p] \in SendRecord  BY <2>2, <2>3 DEF SendRecord, SendPlaces
  <2> QED BY <1>2, <2>4 DEF ReadOn
<1>3. ASSUME NEW p \in Procs, Compare(p)
      PROVE  SendTypeOK'
  <2>1. \/ sdProc'[p] = [sdProc[p] EXCEPT !.pc = "stamp", !.told = @]
        \/ sdProc'[p] = [sdProc[p] EXCEPT !.pc = "done", !.told = "changed"]
    BY <1>3 DEF Compare
  <2>2. sdProc'[p] \in SendRecord  BY <2>1 DEF SendRecord, SendPlaces
  <2> QED BY <1>3, <2>2 DEF Compare
<1>4. ASSUME NEW p \in Procs, TakeStamp(p)
      PROVE  SendTypeOK'
  <2> DEFINE t == StampFor(sdProc[p].id)
  <2>1. sdProc[p] \in SendRecord /\ sdProc[p].id \in SendIds /\ sdProc[p].bytes \in SUBSET Nat
    BY <1>4 DEF TakeStamp, ReadInv, SendRecord
  <2>2. t \in Nat  BY <2>1 DEF StampFor, QueueRecord
  <2>3. <<sdProc[p].id, t, sdProc[p].bytes>> \in Digests  BY <2>1, <2>2, DigestType
  <2>4. sdProc'[p] = [sdProc[p] EXCEPT !.pc = "submit", !.stamp = t, !.digest = <<sdProc[p].id, t, sdProc[p].bytes>>]
    BY <1>4 DEF TakeStamp
  <2> HIDE DEF t
  <2>5. sdProc'[p] \in SendRecord  BY <2>1, <2>2, <2>3, <2>4 DEF SendRecord, SendPlaces
  <2> QED BY <1>4, <2>5 DEF TakeStamp
<1>5. ASSUME NEW p \in Procs, NEW i \in SendIds, StartRead(p, i)
      PROVE  SendTypeOK'
  <2>1. PICK b \in SUBSET Nat : sdProc'[p] = [FreshSend EXCEPT !.pc = "read", !.id = i, !.first = sdFile, !.bytes = b]
    BY <1>5 DEF StartRead
  <2>2. sdProc'[p] \in SendRecord  BY <2>1, FreshType DEF SendRecord, SendPlaces
  <2> QED BY <1>5, <2>2 DEF StartRead
<1>6. ASSUME NEW p \in Procs, NEW heard \in BOOLEAN, Submit(p, heard)
      PROVE  SendTypeOK'
  <2>1. sdProc[p] \in SendRecord /\ sdProc[p].stamp \in Nat /\ sdProc[p].digest \in Digests  BY DEF SendRecord
  <2>2. [digest |-> sdProc[p].digest, order |-> sdProc[p].stamp, fate |-> "queued"] \in QueueRecord  BY <2>1 DEF QueueRecord, Fates
  <2>3. sdQueue' \in [SendIds -> QueueRecord]  BY <1>6, <2>2 DEF Submit
  <2>4. \/ \E out \in {"ok", "conflict"} : sdProc' = [sdProc EXCEPT ![p].pc = "done", ![p].told = out]
        \/ sdProc' = [sdProc EXCEPT ![p].tries = @ + 1]
    BY <1>6 DEF Submit
  <2>5. sdProc'[p] \in SendRecord  BY <2>1, <2>4 DEF SendRecord, SendPlaces
  <2>6. sdProc' \in [Procs -> SendRecord]  BY <2>4, <2>5
  <2> QED BY <1>6, <2>3, <2>6 DEF Submit
<1>7. ASSUME NEW p \in Procs, GiveUp(p)
      PROVE  SendTypeOK'
  <2>1. sdProc'[p] = [sdProc[p] EXCEPT !.pc = "done", !.told = "unknown"]  BY <1>7 DEF GiveUp
  <2>2. sdProc'[p] \in SendRecord  BY <2>1 DEF SendRecord, SendPlaces
  <2> QED BY <1>7, <2>2 DEF GiveUp
<1>8. ASSUME NEW p \in Procs, SendAgain(p)
      PROVE  SendTypeOK'
  BY <1>8, FreshType DEF SendAgain
<1>9. ASSUME NEW b \in BOOLEAN, OwnerEnds(b)
      PROVE  SendTypeOK'
  <2> QED BY <1>9, FreshType DEF OwnerEnds, QueueRecord, Fates
<1>10. ASSUME NEW i \in SendIds, NEW b \in BOOLEAN, StartDelivery(i, b)
      PROVE  SendTypeOK'
  BY <1>10 DEF StartDelivery, QueueRecord, Fates
<1>11. ASSUME NEW i \in SendIds, NEW b \in BOOLEAN, NEW c \in BOOLEAN, Deliver(i, b, c)
      PROVE  SendTypeOK'
  <2>1. sdQueue' \in [SendIds -> QueueRecord]  BY <1>11 DEF Deliver, QueueRecord, Fates
  <2>2. sdSent' \in [SendIds -> Nat]  BY <1>11 DEF Deliver
  <2> QED BY <1>11, <2>1, <2>2 DEF Deliver
<1> QED BY <1>1, <1>2, <1>3, <1>4, <1>5, <1>6, <1>7, <1>8, <1>9, <1>10, <1>11 DEF SendNext

\* The parts of the invariant about one process are kept by steps that leave it and the entries alone.
\* What one process has read fits the file.
HasRead(me, file) ==
    /\ me.pc # "idle" => me.id \in SendIds
    /\ me.pc = "read" => me.first <= file /\ me.bytes = {me.first}
    /\ me.pc = "compare" => \E x \in me.first..file : me.bytes = {me.first, x}
    /\ me.pc \in {"stamp", "submit"} => me.bytes = {me.first}
    /\ me.pc = "submit" => me.digest = <<me.id, me.stamp, me.bytes>>

LEMMA ReadIsInv ==
    ASSUME SendTypeOK, ReadInv, SendNext
    PROVE  ReadInv'
<1>0. ReadInv <=> \A p \in Procs : HasRead(sdProc[p], sdFile)  BY DEF ReadInv, HasRead
<1>1. ReadInv' <=> \A p \in Procs : HasRead(sdProc'[p], sdFile')  BY DEF ReadInv, HasRead
<1>2. \A p \in Procs : sdProc[p] \in SendRecord  BY DEF SendTypeOK
<1>3. CASE FileChanges  BY <1>0, <1>1, <1>2, <1>3 DEF FileChanges, HasRead, SendTypeOK, SendRecord
<1>4. ASSUME NEW p \in Procs, sdFile' = sdFile, HasRead(sdProc'[p], sdFile),
             \A q \in Procs \ {p} : sdProc'[q] = sdProc[q]
      PROVE  ReadInv'
  BY <1>0, <1>1, <1>4
<1>5. ASSUME NEW p \in Procs, ReadOn(p)
      PROVE  ReadInv'
  <2>1. sdProc'[p] = [sdProc[p] EXCEPT !.pc = "compare", !.bytes = sdProc[p].bytes \cup {sdFile}] /\ sdProc[p].pc = "read"
    BY <1>5 DEF ReadOn, SendTypeOK
  <2>2. HasRead(sdProc'[p], sdFile)  BY <1>0, <1>2, <2>1 DEF HasRead, SendRecord, SendTypeOK
  <2> QED BY <1>4, <1>5, <2>2 DEF ReadOn, SendTypeOK
<1>6. ASSUME NEW p \in Procs, Compare(p)
      PROVE  ReadInv'
  <2>1. PICK x \in sdProc[p].first..sdFile : sdProc[p].bytes = {sdProc[p].first, x} /\ sdProc[p].id \in SendIds
    BY <1>0, <1>6 DEF Compare, HasRead
  <2>2. SameVersion(p) => sdProc[p].bytes = {sdProc[p].first}  BY <1>2, <2>1 DEF SameVersion, SendRecord, SendTypeOK
  <2>3. \/ sdProc'[p] = [sdProc[p] EXCEPT !.pc = "stamp", !.told = @] /\ SameVersion(p)
        \/ sdProc'[p] = [sdProc[p] EXCEPT !.pc = "done", !.told = "changed"]
    BY <1>6 DEF Compare, SendTypeOK
  <2>4. HasRead(sdProc'[p], sdFile)  BY <1>2, <2>1, <2>2, <2>3 DEF HasRead, SendRecord
  <2> QED BY <1>4, <1>6, <2>4 DEF Compare, SendTypeOK
<1>7. ASSUME NEW p \in Procs, TakeStamp(p)
      PROVE  ReadInv'
  <2>1. PICK t : sdProc'[p] = [sdProc[p] EXCEPT !.pc = "submit", !.stamp = t, !.digest = <<sdProc[p].id, t, sdProc[p].bytes>>]
    BY <1>7 DEF TakeStamp, SendTypeOK
  <2>2. sdProc[p].id \in SendIds /\ sdProc[p].bytes = {sdProc[p].first} /\ sdProc[p] \in SendRecord
    BY <1>0, <1>2, <1>7 DEF TakeStamp, HasRead
  <2>3. HasRead(sdProc'[p], sdFile)  BY <2>1, <2>2 DEF HasRead, SendRecord
  <2> QED BY <1>4, <1>7, <2>3 DEF TakeStamp, SendTypeOK
<1>8. ASSUME NEW p \in Procs, NEW i \in SendIds, StartRead(p, i)
      PROVE  ReadInv'
  <2>1. sdProc'[p] = [FreshSend EXCEPT !.pc = "read", !.id = i, !.first = sdFile, !.bytes = {sdFile}]
    BY <1>8 DEF StartRead, SendTypeOK
  <2>2. HasRead(sdProc'[p], sdFile)  BY <2>1 DEF HasRead, FreshSend, SendTypeOK
  <2> QED BY <1>4, <1>8, <2>2 DEF StartRead, SendTypeOK
<1>9. ASSUME NEW p \in Procs, NEW heard \in BOOLEAN, Submit(p, heard)
      PROVE  ReadInv'
  <2>1. sdProc[p].pc = "submit" /\ sdFile' = sdFile /\ \A q \in Procs \ {p} : sdProc'[q] = sdProc[q]  BY <1>9 DEF Submit, SendTypeOK
  <2>2. \/ \E out \in {"ok", "conflict"} : sdProc'[p] = [sdProc[p] EXCEPT !.pc = "done", !.told = out]
        \/ sdProc'[p] = [sdProc[p] EXCEPT !.tries = @ + 1]
    BY <1>9 DEF Submit, SendTypeOK
  <2>3. HasRead(sdProc'[p], sdFile)  BY <1>0, <1>2, <2>1, <2>2 DEF HasRead, SendRecord
  <2> QED BY <1>4, <2>1, <2>3
<1>10. ASSUME NEW p \in Procs, GiveUp(p)
       PROVE  ReadInv'
  <2>1. sdProc'[p] = [sdProc[p] EXCEPT !.pc = "done", !.told = "unknown"] /\ sdProc[p].pc = "submit"
    BY <1>10 DEF GiveUp, SendTypeOK
  <2>2. HasRead(sdProc'[p], sdFile)  BY <1>0, <1>2, <2>1 DEF HasRead, SendRecord
  <2> QED BY <1>4, <1>10, <2>2 DEF GiveUp, SendTypeOK
<1>11. ASSUME NEW p \in Procs, sdProc' = [sdProc EXCEPT ![p] = FreshSend], sdFile' = sdFile
       PROVE  ReadInv'
  <2>1. HasRead(sdProc'[p], sdFile)  BY <1>11 DEF FreshSend, HasRead, SendTypeOK
  <2> QED BY <1>4, <1>11, <2>1 DEF SendTypeOK
<1>12. ASSUME UNCHANGED <<sdProc, sdFile>>
       PROVE  ReadInv'
  BY <1>12 DEF ReadInv
<1> QED  BY <1>3, <1>5, <1>6, <1>7, <1>8, <1>9, <1>10, <1>11, <1>12 DEF SendNext, SendAgain, OwnerEnds, StartDelivery, Deliver

\* An entry that is there stays and keeps its digest.
LEMMA EntriesKept ==
    ASSUME SendTypeOK, SendNext, NEW i \in SendIds, sdQueue[i].fate # "absent"
    PROVE  sdQueue'[i].fate # "absent" /\ sdQueue'[i].digest = sdQueue[i].digest
<1> USE DEF SendTypeOK, QueueRecord
<1>1. ASSUME NEW p \in Procs, NEW heard \in BOOLEAN, Submit(p, heard)
      PROVE  sdQueue'[i] = sdQueue[i]
  BY <1>1 DEF Submit
<1>2. ASSUME NEW b \in BOOLEAN, OwnerEnds(b)
      PROVE  sdQueue'[i].fate # "absent" /\ sdQueue'[i].digest = sdQueue[i].digest
  BY <1>2 DEF OwnerEnds
<1>3. ASSUME NEW j \in SendIds, NEW b \in BOOLEAN, StartDelivery(j, b)
      PROVE  sdQueue'[i].fate # "absent" /\ sdQueue'[i].digest = sdQueue[i].digest
  BY <1>3 DEF StartDelivery
<1>4. ASSUME NEW j \in SendIds, NEW b \in BOOLEAN, NEW c \in BOOLEAN, Deliver(j, b, c)
      PROVE  sdQueue'[i].fate # "absent" /\ sdQueue'[i].digest = sdQueue[i].digest
  BY <1>4 DEF Deliver
<1> QED  BY <1>1, <1>2, <1>3, <1>4 DEF SendNext, FileChanges, ReadOn, Compare, TakeStamp, GiveUp, SendAgain, StartRead

LEMMA ToldIsInv ==
    ASSUME SendTypeOK, ReadInv, ToldInv, SendNext
    PROVE  ToldInv'
<1> DEFINE Faithful(me) == me.told = "ok" => me.pc = "done" /\ sdQueue'[me.id].fate # "absent" /\ sdQueue'[me.id].digest = me.digest
<1>a. \A p \in Procs : sdProc[p] \in SendRecord  BY DEF SendTypeOK
<1>b. \A p \in Procs : sdProc[p].pc # "idle" => sdProc[p].id \in SendIds  BY DEF ReadInv
<1>c. \A p \in Procs : sdProc[p].pc # "done" => sdProc[p].told # "ok"  BY DEF ToldInv
<1>1. \A p \in Procs : Faithful(sdProc[p])
  <2> TAKE p \in Procs
  <2> SUFFICES ASSUME sdProc[p].told = "ok" PROVE Faithful(sdProc[p])  OBVIOUS
  <2>1. sdProc[p].id \in SendIds /\ sdProc[p].pc = "done" /\ sdQueue[sdProc[p].id].fate # "absent"
        /\ sdQueue[sdProc[p].id].digest = sdProc[p].digest
    BY <1>a, <1>b, <1>c DEF ToldInv
  <2> QED BY <2>1, EntriesKept
<1>2. (\A p \in Procs : Faithful(sdProc'[p])) => ToldInv'  BY DEF ToldInv
<1> HIDE DEF Faithful
<1>3. ASSUME NEW p \in Procs, Faithful(sdProc'[p]), \A q \in Procs \ {p} : sdProc'[q] = sdProc[q]
      PROVE  ToldInv'
  BY <1>1, <1>2, <1>3
<1>4. \A r : r.told # "ok" => Faithful(r)  BY DEF Faithful
<1>5. ASSUME NEW p \in Procs, ReadOn(p)
      PROVE  ToldInv'
  <2>1. sdProc'[p] = [sdProc[p] EXCEPT !.pc = "compare", !.bytes = sdProc[p].bytes \cup {sdFile}] /\ sdProc[p].pc = "read"
    BY <1>5 DEF ReadOn, SendTypeOK
  <2>2. sdProc'[p].told # "ok"  BY <1>a, <1>b, <1>c, <2>1 DEF SendRecord
  <2> QED BY <1>3, <1>4, <1>5, <2>2 DEF ReadOn, SendTypeOK
<1>6. ASSUME NEW p \in Procs, Compare(p)
      PROVE  ToldInv'
  <2>1. \/ sdProc'[p] = [sdProc[p] EXCEPT !.pc = "stamp", !.told = @]
        \/ sdProc'[p] = [sdProc[p] EXCEPT !.pc = "done", !.told = "changed"]
    BY <1>6 DEF Compare, SendTypeOK
  <2>2. sdProc[p].pc = "compare"  BY <1>6 DEF Compare
  <2>3. sdProc'[p].told # "ok"  BY <1>a, <1>b, <1>c, <2>1, <2>2 DEF SendRecord
  <2> QED BY <1>3, <1>4, <1>6, <2>3 DEF Compare, SendTypeOK
<1>7. ASSUME NEW p \in Procs, TakeStamp(p)
      PROVE  ToldInv'
  <2>1. PICK t : sdProc'[p] = [sdProc[p] EXCEPT !.pc = "submit", !.stamp = t, !.digest = <<sdProc[p].id, t, sdProc[p].bytes>>]
    BY <1>7 DEF TakeStamp, SendTypeOK
  <2>2. sdProc[p].pc = "stamp"  BY <1>7 DEF TakeStamp
  <2>3. sdProc'[p].told # "ok"  BY <1>a, <1>b, <1>c, <2>1, <2>2 DEF SendRecord
  <2> QED BY <1>3, <1>4, <1>7, <2>3 DEF TakeStamp, SendTypeOK
<1>8. ASSUME NEW p \in Procs, NEW i \in SendIds, StartRead(p, i)
      PROVE  ToldInv'
  <2>1. sdProc'[p].told # "ok"  BY <1>8 DEF StartRead, FreshSend, SendTypeOK
  <2> QED BY <1>3, <1>4, <1>8, <2>1 DEF StartRead, SendTypeOK
<1>9. ASSUME NEW p \in Procs, GiveUp(p)
      PROVE  ToldInv'
  <2>1. sdProc'[p].told # "ok"  BY <1>a, <1>b, <1>c, <1>9 DEF GiveUp, SendTypeOK, SendRecord
  <2> QED BY <1>3, <1>4, <1>9, <2>1 DEF GiveUp, SendTypeOK
<1>10. ASSUME NEW p \in Procs, NEW heard \in BOOLEAN, Submit(p, heard)
       PROVE  ToldInv'
  <2>1. sdProc[p].pc = "submit" /\ \A q \in Procs \ {p} : sdProc'[q] = sdProc[q]  BY <1>10 DEF Submit, SendTypeOK
  <2>2. sdProc[p].id \in SendIds /\ sdProc[p].told # "ok" /\ sdProc[p] \in SendRecord  BY <1>a, <1>b, <1>c, <2>1
  <2>3. \/ sdProc'[p] = [sdProc[p] EXCEPT !.pc = "done", !.told = IF Accepts(p) THEN "ok" ELSE "conflict"]
        \/ sdProc'[p] = [sdProc[p] EXCEPT !.tries = @ + 1]
    BY <1>10 DEF Submit, SendTypeOK
  <2>4. Accepts(p) => /\ sdQueue'[sdProc[p].id].fate # "absent"
                      /\ sdQueue'[sdProc[p].id].digest = sdProc[p].digest
    BY <1>10, <2>2 DEF Submit, Accepts, SendTypeOK, QueueRecord
  <2>5. Faithful(sdProc'[p])  BY <2>2, <2>3, <2>4 DEF SendRecord, Faithful
  <2> QED BY <1>3, <2>1, <2>5
<1>11. ASSUME NEW p \in Procs, sdProc' = [sdProc EXCEPT ![p] = FreshSend]
       PROVE  ToldInv'
  <2>1. sdProc'[p].told # "ok"  BY <1>11 DEF FreshSend, SendTypeOK
  <2> QED BY <1>3, <1>4, <1>11, <2>1 DEF SendTypeOK
<1>12. ASSUME UNCHANGED sdProc
       PROVE  ToldInv'
  BY <1>1, <1>2, <1>12
<1> QED
  BY <1>5, <1>6, <1>7, <1>8, <1>9, <1>10, <1>11, <1>12 DEF SendNext, FileChanges, StartDelivery, Deliver, SendAgain, OwnerEnds

LEMMA FateIsInv ==
    ASSUME SendTypeOK, ReadInv, FateInv, SendNext
    PROVE  FateInv'
<1> USE DEF SendTypeOK, QueueRecord, Fates
<1>1. ASSUME NEW p \in Procs, NEW heard \in BOOLEAN, Submit(p, heard)
      PROVE  FateInv'
  <2>0. sdProc[p].pc = "submit"  BY <1>1 DEF Submit
  <2>1. sdProc[p].id \in SendIds /\ sdProc[p].digest = <<sdProc[p].id, sdProc[p].stamp, {sdProc[p].first}>> /\ sdProc[p].first \in Nat
    BY <2>0 DEF ReadInv, SendRecord
  <2>2. \E v \in Nat : sdProc[p].digest[3] = {v}  BY <2>1
  <2>3. \A j \in SendIds : sdQueue'[j] = sdQueue[j] \/ (sdQueue[j].fate = "absent" /\ sdQueue'[j].fate = "queued" /\ sdQueue'[j].digest = sdProc[p].digest)
    BY <1>1, <2>1 DEF Submit
  <2>4. UNCHANGED <<sdSent, sdDraft>>  BY <1>1 DEF Submit
  <2> QED BY <2>2, <2>3, <2>4 DEF FateInv
<1>2. ASSUME NEW b \in BOOLEAN, OwnerEnds(b)
      PROVE  FateInv'
  BY <1>2 DEF OwnerEnds, FateInv
<1>3. ASSUME NEW i \in SendIds, NEW b \in BOOLEAN, StartDelivery(i, b)
      PROVE  FateInv'
  BY <1>3 DEF StartDelivery, FateInv
<1>4. ASSUME NEW i \in SendIds, NEW b \in BOOLEAN, NEW c \in BOOLEAN, Deliver(i, b, c)
      PROVE  FateInv'
  <2>1. sdSent[i] = 0 /\ sdQueue[i].fate = "sending"  BY <1>4 DEF Deliver, FateInv
  <2>2. /\ sdQueue'[i].digest = sdQueue[i].digest
        /\ sdQueue'[i].fate = IF b THEN "sent" ELSE "unknown"
        /\ sdSent'[i] \in {0, 1} /\ (b => sdSent'[i] = 1)
        /\ i \notin sdDraft' => i \notin sdDraft \/ b
    BY <1>4, <2>1 DEF Deliver, CleansDraft
  <2>3. \A j \in SendIds \ {i} : sdQueue'[j] = sdQueue[j] /\ sdSent'[j] = sdSent[j] /\ (j \in sdDraft' <=> j \in sdDraft)
    BY <1>4 DEF Deliver
  <2> QED BY <2>1, <2>2, <2>3 DEF FateInv
<1>5. ASSUME UNCHANGED <<sdQueue, sdSent, sdDraft>>
      PROVE  FateInv'
  BY <1>5 DEF FateInv
<1> QED  BY <1>1, <1>2, <1>3, <1>4, <1>5 DEF SendNext, FileChanges, ReadOn, Compare, TakeStamp, GiveUp, SendAgain, StartRead

(* However often a send is repeated and whoever owns the lease, a message is delivered at most once, is in the queue as
   it was composed, and takes its draft with it only when it was delivered. *)
(* Whatever process has the lease, a mail is sent once, and what is sent is what was composed. *)
THEOREM SentOnce == SendSpec => []SendOnce
<1>1. SendInit => SendInv
  <2> SUFFICES ASSUME SendInit PROVE SendInv  OBVIOUS
  <2>1. SendTypeOK  BY DigestType DEF SendInit, SendTypeOK, SendRecord, QueueRecord, SendPlaces, Fates, FreshSend, NoEntry
  <2> QED BY <2>1 DEF SendInit, SendInv, ReadInv, ToldInv, FateInv, FreshSend, NoEntry
<1>2. SendInv /\ [SendNext]_sendVars => SendInv'
  <2>1. CASE SendNext  BY <2>1, SendIsType, ReadIsInv, ToldIsInv, FateIsInv DEF SendInv
  <2>2. CASE UNCHANGED sendVars  BY <2>2 DEF sendVars, SendInv, SendTypeOK, ReadInv, ToldInv, FateInv
  <2> QED BY <2>1, <2>2
<1>3. SendInv => SendOnce
  <2> SUFFICES ASSUME SendInv PROVE SendOnce  OBVIOUS
  <2>1. \A i \in SendIds : sdSent[i] <= 1  BY DEF SendInv, SendTypeOK, FateInv, QueueRecord, Fates
  <2>2. \A i \in SendIds : sdQueue[i].fate # "absent" => Cardinality(sdQueue[i].digest[3]) = 1
    <3> TAKE i \in SendIds
    <3> HAVE sdQueue[i].fate # "absent"
    <3>1. PICK v \in Nat : sdQueue[i].digest[3] = {v}  BY DEF SendInv, FateInv
    <3> QED BY <3>1, FS_Singleton
  <2> QED BY <2>1, <2>2 DEF SendInv, SendOnce, ToldInv, FateInv
<1> QED BY <1>1, <1>2, <1>3, PTL DEF SendSpec

------------------------------------
(* Side by side *)

LEMMA MovesSend == ProvidersSpec => SendSpec
<1>1. ProvidersInit => SendInit  BY DEF ProvidersInit
<1>2. [ProvidersNext]_providersVars => [SendNext]_sendVars  BY DEF ProvidersNext, Rest, providersVars
<1> QED BY <1>1, <1>2, PTL DEF ProvidersSpec, SendSpec

(* A mail is sent once, whatever the other clients do. *)
THEOREM ProvidersSendOnce == ProvidersSpec => []SendOnce
BY MovesSend, SentOnce, PTL

------------------------------------
(* The sign-in of a JMAP account. *)

Snaps == [password : Nat, session : Nat]
ContextRecord == [snap : Snaps, rejected : BOOLEAN, retired : BOOLEAN]
JmapCallRecord == [at : {"idle", "snapshot", "loading", "ready", "slot", "wire"}, ctx : Nat, snap : Snaps,
                   kind : {"none", "orphan"} \cup JmapRequests]
\* The context of the account is the one that was not retired.
JmapSessionType == /\ jxServer \in Snaps /\ jxSaved \in Nat /\ jxContexts \in Seq(ContextRecord)
                   /\ jxCurrent \in 0..Len(jxContexts) /\ jxCalls \in [JmapCalls -> JmapCallRecord]
                   /\ \A i \in 1..Len(jxContexts) : jxContexts[i].retired <=> i # jxCurrent
\* A request is of a context that was made.
CallsOfContexts == \A c \in JmapCalls : jxCalls[c].at # "idle" => jxCalls[c].ctx \in 1..Len(jxContexts)

LEMMA JmapCallType ==
  ASSUME JmapSessionType, NEW c \in JmapCalls
  PROVE  /\ jxCalls[c] \in JmapCallRecord /\ jxCalls[c].ctx \in Nat /\ jxCalls[c].snap \in Snaps
         /\ jxCalls[c].snap.password \in Nat /\ jxCalls[c].snap.session \in Nat
<1>1. jxCalls[c] \in JmapCallRecord  BY DEF JmapSessionType
<1>2. jxCalls[c].snap \in Snaps /\ jxCalls[c].ctx \in Nat  BY <1>1 DEF JmapCallRecord
<1>. QED  BY <1>1, <1>2 DEF Snaps

LEMMA ContextType ==
  ASSUME JmapSessionType, NEW i \in 1..Len(jxContexts)
  PROVE  /\ jxContexts[i] \in ContextRecord /\ jxContexts[i].snap \in Snaps
         /\ jxContexts[i].rejected \in BOOLEAN /\ jxContexts[i].retired \in BOOLEAN
<1>1. jxContexts[i] \in ContextRecord  BY DEF JmapSessionType
<1>. QED  BY <1>1 DEF ContextRecord

LEMMA SmallSnaps == /\ NoSnap \in Snaps /\ NoCall \in JmapCallRecord /\ NoCall.at = "idle" /\ Fresh \in ContextRecord
                    /\ ~Fresh.retired /\ ~Fresh.rejected /\ NoCall.kind = "none" /\ NoCall.snap = NoSnap
                    /\ [Fresh EXCEPT !.rejected = TRUE] \in ContextRecord /\ ~[Fresh EXCEPT !.rejected = TRUE].retired
                    /\ \A s \in Snaps : [Fresh EXCEPT !.snap = s] \in ContextRecord /\ ~[Fresh EXCEPT !.snap = s].retired
<1>1. NoSnap \in Snaps  BY DEF NoSnap, Snaps
<1>2. NoCall \in JmapCallRecord /\ NoCall.at = "idle" /\ NoCall.kind = "none" /\ NoCall.snap = NoSnap  BY <1>1 DEF NoCall, JmapCallRecord
<1>3. Fresh \in ContextRecord /\ ~Fresh.retired /\ ~Fresh.rejected  BY <1>1 DEF Fresh, ContextRecord
<1>4. /\ [Fresh EXCEPT !.rejected = TRUE] \in ContextRecord /\ ~[Fresh EXCEPT !.rejected = TRUE].retired
      /\ \A s \in Snaps : [Fresh EXCEPT !.snap = s] \in ContextRecord /\ ~[Fresh EXCEPT !.snap = s].retired
  BY <1>3 DEF ContextRecord
<1>. QED  BY <1>1, <1>2, <1>3, <1>4

\* What a step leaves of the contexts: none forgets that it was retired, and only new ones come.
ContextsGrow == /\ jxContexts' \in Seq(ContextRecord) /\ Len(jxContexts') >= Len(jxContexts)
                /\ \A i \in 1..Len(jxContexts) : jxContexts[i].retired => jxContexts'[i].retired
                /\ \A i \in 1..Len(jxContexts') : jxContexts'[i].retired <=> i # jxCurrent'
                /\ jxCurrent' \in {0, jxCurrent} \/ (jxCurrent' = Len(jxContexts) + 1 /\ Len(jxContexts') >= Len(jxContexts) + 1)

LEMMA RetiredRecord ==
  ASSUME JmapSessionType
  PROVE  /\ RetireOld(jxContexts) \in Seq(ContextRecord) /\ Len(RetireOld(jxContexts)) = Len(jxContexts)
         /\ \A k \in 1..Len(jxContexts) : RetireOld(jxContexts)[k].retired
<1>1. CASE jxCurrent = 0  BY <1>1 DEF RetireOld, JmapSessionType
<1>2. CASE jxCurrent # 0
  <2>1. jxCurrent \in 1..Len(jxContexts) /\ jxContexts \in Seq(ContextRecord)  BY <1>2 DEF JmapSessionType
  <2>2. jxContexts[jxCurrent] \in ContextRecord  BY <2>1
  <2>3. [jxContexts[jxCurrent] EXCEPT !.retired = TRUE] \in ContextRecord /\ [jxContexts[jxCurrent] EXCEPT !.retired = TRUE].retired
    BY <2>2 DEF ContextRecord
  <2>4. PICK x \in ContextRecord : x = [jxContexts[jxCurrent] EXCEPT !.retired = TRUE] /\ x.retired  BY <2>3
  <2>5. RetireOld(jxContexts) = [jxContexts EXCEPT ![jxCurrent] = x]  BY <1>2, <2>1, <2>4 DEF RetireOld
  <2>. QED  BY <2>1, <2>4, <2>5 DEF JmapSessionType
<1>. QED  BY <1>1, <1>2

LEMMA UnauthorizedGrows ==
  ASSUME JmapSessionType, NEW c \in JmapCalls, Unauthorized(c)
  PROVE  ContextsGrow /\ jxCalls' = [jxCalls EXCEPT ![c] = NoCall]
<1>1. jxContexts \in Seq(ContextRecord) /\ jxCurrent \in 0..Len(jxContexts) /\ Len(jxContexts) \in Nat  BY DEF JmapSessionType
<1>2. CASE jxCurrent = 0
  <2>1. jxContexts' = Append(jxContexts, [Fresh EXCEPT !.rejected = TRUE]) /\ jxCurrent' = Len(jxContexts) + 1
    BY <1>2 DEF Unauthorized
  <2>2. PICK x \in ContextRecord : x = [Fresh EXCEPT !.rejected = TRUE] /\ ~x.retired  BY SmallSnaps
  <2>3. jxContexts' = Append(jxContexts, x)  BY <2>1, <2>2
  <2>4. ContextsGrow  BY <1>1, <1>2, <2>1, <2>2, <2>3 DEF ContextsGrow, JmapSessionType
  <2>. QED  BY <2>4 DEF Unauthorized, EndCall, SetCall
<1>3. CASE jxCurrent # 0
  <2>1. jxContexts' = [jxContexts EXCEPT ![jxCurrent].rejected = TRUE] /\ jxCurrent' = jxCurrent  BY <1>3 DEF Unauthorized
  <2>2. jxCurrent \in 1..Len(jxContexts) /\ jxContexts[jxCurrent] \in ContextRecord  BY <1>1, <1>3
  <2>3. /\ [jxContexts[jxCurrent] EXCEPT !.rejected = TRUE] \in ContextRecord
        /\ [jxContexts[jxCurrent] EXCEPT !.rejected = TRUE].retired = jxContexts[jxCurrent].retired
    BY <2>2 DEF ContextRecord
  <2>4. PICK x \in ContextRecord : x = [jxContexts[jxCurrent] EXCEPT !.rejected = TRUE] /\ x.retired = jxContexts[jxCurrent].retired
    BY <2>3
  <2>5. jxContexts' = [jxContexts EXCEPT ![jxCurrent] = x]  BY <1>1, <2>1, <2>2, <2>4
  <2>6. ContextsGrow  BY <1>1, <2>1, <2>2, <2>4, <2>5 DEF ContextsGrow, JmapSessionType
  <2>. QED  BY <2>6 DEF Unauthorized, EndCall, SetCall
<1>. QED  BY <1>2, <1>3

\* The snapshot of a context is taken or given up.
LEMMA SnapshotGrows ==
  ASSUME JmapSessionType, NEW i \in 1..Len(jxContexts), NEW s \in Snaps, jxContexts' = [jxContexts EXCEPT ![i].snap = s],
         UNCHANGED jxCurrent
  PROVE  ContextsGrow
<1>1. jxContexts \in Seq(ContextRecord) /\ jxCurrent \in 0..Len(jxContexts) /\ Len(jxContexts) \in Nat  BY DEF JmapSessionType
<1>2. jxContexts[i] \in ContextRecord  BY <1>1
<1>3. [jxContexts[i] EXCEPT !.snap = s] \in ContextRecord /\ [jxContexts[i] EXCEPT !.snap = s].retired = jxContexts[i].retired
  BY <1>2 DEF ContextRecord
<1>4. PICK x \in ContextRecord : x = [jxContexts[i] EXCEPT !.snap = s] /\ x.retired = jxContexts[i].retired  BY <1>3
<1>5. jxContexts' = [jxContexts EXCEPT ![i] = x]  BY <1>1, <1>4
<1>. QED  BY <1>1, <1>4, <1>5 DEF ContextsGrow, JmapSessionType

\* A call goes on, or ends; it comes to the wire only by what may send it.
CallsGo == /\ jxServer' \in Snaps /\ jxSaved' \in Nat
           /\ \/ UNCHANGED jxCalls
              \/ \E c \in JmapCalls, r \in JmapCallRecord :
                    /\ jxCalls' = [jxCalls EXCEPT ![c] = r]
                    /\ r.at = "wire" => jxCalls[c].at = "wire" \/ MaySend(jxCalls[c])
                    /\ jxCalls[c].at = "idle" /\ r.at # "idle" =>
                          r.at = "snapshot" /\ r.ctx = jxCurrent' /\ ~jxContexts'[jxCurrent'].retired /\ ~jxContexts'[jxCurrent'].rejected
                    /\ r.at # "idle" => r.ctx \in 1..Len(jxContexts')

LEMMA StartGrows ==
  ASSUME JmapSessionType, NEW c \in JmapCalls, StartCall(c)
  PROVE  ContextsGrow /\ CallsGo
<1>1. jxContexts \in Seq(ContextRecord) /\ jxCurrent \in 0..Len(jxContexts) /\ Len(jxContexts) \in Nat  BY DEF JmapSessionType
<1>2. ContextsGrow /\ jxCurrent' \in 1..Len(jxContexts') /\ ~jxContexts'[jxCurrent'].rejected
  <2>1. CASE jxCurrent = 0
    <3>1. PICK x \in ContextRecord : x = Fresh /\ ~x.retired /\ ~x.rejected  BY SmallSnaps
    <3>2. jxContexts' = Append(jxContexts, x) /\ jxCurrent' = Len(jxContexts) + 1  BY <2>1, <3>1 DEF StartCall
    <3>. QED  BY <1>1, <2>1, <3>1, <3>2 DEF ContextsGrow, JmapSessionType
  <2>2. CASE jxCurrent # 0  BY <1>1, <2>2 DEF StartCall, ContextsGrow, JmapSessionType
  <2>. QED  BY <2>1, <2>2
<1>3. jxCurrent' \in Nat /\ ~jxContexts'[jxCurrent'].retired  BY <1>1, <1>2 DEF ContextsGrow
<1>5. jxServer' \in Snaps /\ jxSaved' \in Nat  BY DEF StartCall, JmapSessionType
<1>4. /\ [NoCall EXCEPT !.at = "snapshot", !.ctx = jxCurrent'] \in JmapCallRecord
      /\ [NoCall EXCEPT !.at = "snapshot", !.ctx = jxCurrent'].at = "snapshot"
      /\ [NoCall EXCEPT !.at = "snapshot", !.ctx = jxCurrent'].ctx = jxCurrent'
  BY <1>3, SmallSnaps DEF JmapCallRecord
<1>6. PICK r \in JmapCallRecord : r = [NoCall EXCEPT !.at = "snapshot", !.ctx = jxCurrent'] /\ r.at = "snapshot" /\ r.ctx = jxCurrent'
  BY <1>4
<1>7. jxCalls' = [jxCalls EXCEPT ![c] = r]  BY <1>6 DEF StartCall, SetCall
<1>8. CallsGo  BY <1>2, <1>3, <1>5, <1>6, <1>7 DEF CallsGo
<1>. QED  BY <1>2, <1>8

LEMMA CallEnds ==
  ASSUME NEW c \in JmapCalls, jxCalls' = [jxCalls EXCEPT ![c] = NoCall], jxServer' \in Snaps, jxSaved' \in Nat
  PROVE  CallsGo
BY SmallSnaps DEF CallsGo

LEMMA CallMoves ==
  ASSUME JmapSessionType, CallsOfContexts, ContextsGrow, NEW c \in JmapCalls, jxCalls[c].at # "idle",
         NEW r \in JmapCallRecord, r.ctx = jxCalls[c].ctx, jxCalls' = [jxCalls EXCEPT ![c] = r],
         r.at = "wire" => MaySend(jxCalls[c]), jxServer' \in Snaps, jxSaved' \in Nat
  PROVE  CallsGo
<1>1. jxCalls[c].ctx \in Nat /\ jxCalls[c].ctx \in 1..Len(jxContexts)  BY JmapCallType DEF CallsOfContexts
<1>2. jxCalls[c].ctx \in 1..Len(jxContexts')  BY <1>1 DEF ContextsGrow, JmapSessionType
<1>. QED  BY <1>2 DEF CallsGo

LEMMA Stays ==
  ASSUME JmapSessionType, UNCHANGED <<jxServer, jxSaved, jxContexts, jxCurrent>>
  PROVE  ContextsGrow /\ jxServer' \in Snaps /\ jxSaved' \in Nat
BY DEF JmapSessionType, ContextsGrow

LEMMA TakeGrows ==
  ASSUME JmapSessionType, CallsOfContexts, NEW c \in JmapCalls, TakeJmapSnapshot(c)
  PROVE  ContextsGrow /\ CallsGo
<1>1. ContextsGrow /\ jxServer' \in Snaps /\ jxSaved' \in Nat  BY Stays DEF TakeJmapSnapshot
<1>2. jxCalls[c] \in JmapCallRecord /\ jxCalls[c].snap \in Snaps /\ jxSaved \in Nat /\ jxCalls[c].at # "idle"
  BY JmapCallType DEF TakeJmapSnapshot, JmapSessionType
<1>3. jxContexts[jxCalls[c].ctx].snap \in Snaps  BY <1>2, ContextType DEF CallsOfContexts
<1>4. CASE jxContexts[jxCalls[c].ctx].snap # NoSnap
  <2>1. jxCalls' = [jxCalls EXCEPT ![c] = [jxCalls[c] EXCEPT !.at = "ready", !.snap = jxContexts[jxCalls[c].ctx].snap]]
    BY <1>4 DEF TakeJmapSnapshot, SetCall
  <2>2. PICK s \in Snaps : s = jxContexts[jxCalls[c].ctx].snap  BY <1>3
  <2>3. /\ [jxCalls[c] EXCEPT !.at = "ready", !.snap = s] \in JmapCallRecord
        /\ [jxCalls[c] EXCEPT !.at = "ready", !.snap = s].ctx = jxCalls[c].ctx
        /\ [jxCalls[c] EXCEPT !.at = "ready", !.snap = s].at = "ready"
    BY <1>2 DEF JmapCallRecord
  <2>4. PICK r \in JmapCallRecord : /\ r = [jxCalls[c] EXCEPT !.at = "ready", !.snap = s]
                                   /\ r.ctx = jxCalls[c].ctx /\ r.at = "ready"
    BY <2>3
  <2>5. jxCalls' = [jxCalls EXCEPT ![c] = r]  BY <2>1, <2>2, <2>4
  <2>. QED  BY <1>1, <1>2, <2>4, <2>5, CallMoves
<1>5. CASE jxContexts[jxCalls[c].ctx].snap = NoSnap
  <2>1. jxCalls' = [jxCalls EXCEPT ![c] = [jxCalls[c] EXCEPT !.at = "loading", !.snap.password = jxSaved]]
    BY <1>5 DEF TakeJmapSnapshot, SetCall
  <2>2. [jxCalls[c].snap EXCEPT !.password = jxSaved] \in Snaps  BY <1>2 DEF Snaps
  <2>3. /\ [jxCalls[c] EXCEPT !.at = "loading", !.snap.password = jxSaved] \in JmapCallRecord
        /\ [jxCalls[c] EXCEPT !.at = "loading", !.snap.password = jxSaved].ctx = jxCalls[c].ctx
        /\ [jxCalls[c] EXCEPT !.at = "loading", !.snap.password = jxSaved].at = "loading"
    BY <1>2, <2>2 DEF JmapCallRecord
  <2>4. PICK r \in JmapCallRecord : /\ r = [jxCalls[c] EXCEPT !.at = "loading", !.snap.password = jxSaved]
                                   /\ r.ctx = jxCalls[c].ctx /\ r.at = "loading"
    BY <2>3
  <2>5. jxCalls' = [jxCalls EXCEPT ![c] = r]  BY <2>1, <2>4
  <2>. QED  BY <1>1, <1>2, <2>4, <2>5, CallMoves
<1>. QED  BY <1>4, <1>5

LEMMA LoadGrows ==
  ASSUME JmapSessionType, CallsOfContexts, NEW c \in JmapCalls, LoadJmapSnapshot(c)
  PROVE  ContextsGrow /\ CallsGo
<1>1. jxServer' \in Snaps /\ jxSaved' \in Nat /\ jxServer.session \in Nat  BY DEF LoadJmapSnapshot, JmapSessionType, Snaps
<1>2. jxCalls[c] \in JmapCallRecord /\ jxCalls[c].snap \in Snaps /\ jxCalls[c].at # "idle"  BY JmapCallType DEF LoadJmapSnapshot
<1>. DEFINE loaded == [jxCalls[c].snap EXCEPT !.session = jxServer.session]
<1>3. CASE jxCalls[c].snap.password = jxServer.password
  <2>1. loaded \in Snaps  BY <1>1, <1>2 DEF Snaps
  <2>2. jxContexts' = [jxContexts EXCEPT ![jxCalls[c].ctx].snap = loaded] /\ UNCHANGED jxCurrent  BY <1>3 DEF LoadJmapSnapshot
  <2>3. jxCalls' = [jxCalls EXCEPT ![c] = [jxCalls[c] EXCEPT !.at = "ready", !.snap = loaded]]
    BY <1>3 DEF LoadJmapSnapshot, SetCall
  <2>. HIDE DEF loaded
  <2>4. /\ [jxCalls[c] EXCEPT !.at = "ready", !.snap = loaded] \in JmapCallRecord
        /\ [jxCalls[c] EXCEPT !.at = "ready", !.snap = loaded].ctx = jxCalls[c].ctx
        /\ [jxCalls[c] EXCEPT !.at = "ready", !.snap = loaded].at = "ready"
    BY <1>2, <2>1 DEF JmapCallRecord
  <2>7. PICK r \in JmapCallRecord : /\ r = [jxCalls[c] EXCEPT !.at = "ready", !.snap = loaded]
                                   /\ r.ctx = jxCalls[c].ctx /\ r.at = "ready"
    BY <2>4
  <2>5. jxCalls[c].ctx \in 1..Len(jxContexts)  BY <1>2 DEF CallsOfContexts
  <2>6. ContextsGrow  BY <2>1, <2>2, <2>5, SnapshotGrows
  <2>. QED  BY <1>1, <1>2, <2>3, <2>6, <2>7, CallMoves
<1>4. CASE jxCalls[c].snap.password # jxServer.password  BY <1>1, <1>4, UnauthorizedGrows, CallEnds DEF LoadJmapSnapshot
<1>. QED  BY <1>3, <1>4

LEMMA AnswerGrows ==
  ASSUME JmapSessionType, CallsOfContexts, NEW c \in JmapCalls, Answer(c)
  PROVE  ContextsGrow /\ CallsGo
<1>1. jxServer' \in Snaps /\ jxSaved' \in Nat  BY DEF Answer, JmapSessionType
<1>2. jxCalls[c].ctx \in 1..Len(jxContexts)  BY DEF Answer, CallsOfContexts
<1>3. CASE ~Unauthorized(c)
  <2>1. /\ UNCHANGED jxContexts \/ jxContexts' = [jxContexts EXCEPT ![jxCalls[c].ctx].snap = NoSnap]
        /\ UNCHANGED <<jxServer, jxSaved, jxCurrent>>
        /\ EndCall(c) \/ SetCall(c, [jxCalls[c] EXCEPT !.at = "ready", !.kind = "none"])
    BY <1>3 DEF Answer
  <2>2. ContextsGrow
    <3>1. CASE UNCHANGED jxContexts  BY <2>1, <3>1, Stays
    <3>2. CASE jxContexts' = [jxContexts EXCEPT ![jxCalls[c].ctx].snap = NoSnap]  BY <1>2, <2>1, <3>2, SnapshotGrows, SmallSnaps
    <3>. QED  BY <2>1, <3>1, <3>2
  <2>3. CASE EndCall(c)  BY <1>1, <2>2, <2>3, CallEnds DEF EndCall, SetCall
  <2>4. CASE SetCall(c, [jxCalls[c] EXCEPT !.at = "ready", !.kind = "none"])
    <3>1. jxCalls[c] \in JmapCallRecord /\ jxCalls[c].at # "idle"  BY JmapCallType DEF Answer
    <3>2. /\ [jxCalls[c] EXCEPT !.at = "ready", !.kind = "none"] \in JmapCallRecord
          /\ [jxCalls[c] EXCEPT !.at = "ready", !.kind = "none"].ctx = jxCalls[c].ctx
          /\ [jxCalls[c] EXCEPT !.at = "ready", !.kind = "none"].at = "ready"
      BY <3>1 DEF JmapCallRecord
    <3>3. PICK r \in JmapCallRecord : r = [jxCalls[c] EXCEPT !.at = "ready", !.kind = "none"] /\ r.ctx = jxCalls[c].ctx /\ r.at = "ready"
      BY <3>2
    <3>4. jxCalls' = [jxCalls EXCEPT ![c] = r]  BY <2>4, <3>3 DEF SetCall
    <3>. QED  BY <1>1, <2>2, <3>1, <3>3, <3>4, CallMoves
  <2>. QED  BY <2>1, <2>3, <2>4
<1>4. CASE Unauthorized(c)  BY <1>1, <1>4, UnauthorizedGrows, CallEnds
<1>. QED  BY <1>3, <1>4

LEMMA RefuseGrows ==
  ASSUME JmapSessionType, NEW c \in JmapCalls, Refuse(c)
  PROVE  ContextsGrow /\ CallsGo
<1>1. jxServer' \in Snaps /\ jxSaved' \in Nat  BY DEF Refuse, JmapSessionType
<1>2. CASE EndCall(c) /\ UNCHANGED <<jxContexts, jxCurrent>>
  <2>1. ContextsGrow  BY <1>2, Stays DEF Refuse
  <2>. QED  BY <1>1, <1>2, <2>1, CallEnds DEF EndCall, SetCall
<1>3. CASE Unauthorized(c)  BY <1>1, <1>3, UnauthorizedGrows, CallEnds
<1>. QED  BY <1>2, <1>3 DEF Refuse

LEMMA CallStepGrows ==
  ASSUME JmapSessionType, CallsOfContexts, NEW c \in JmapCalls,
         \/ StartCall(c) \/ TakeJmapSnapshot(c) \/ LoadJmapSnapshot(c) \/ JmapSendCall(c)
         \/ (\E kind \in JmapRequests : WaitSlot(c, kind)) \/ Refuse(c) \/ Answer(c) \/ AnswerLabels(c) \/ DropCall(c)
  PROVE  ContextsGrow /\ CallsGo
<1>1. ASSUME UNCHANGED <<jxServer, jxSaved, jxContexts, jxCurrent>>, jxCalls[c].at # "idle",
             NEW a \in {"slot", "wire"}, NEW k \in {"none", "orphan"} \cup JmapRequests,
             SetCall(c, [jxCalls[c] EXCEPT !.at = a, !.kind = k]), a = "wire" => MaySend(jxCalls[c])
      PROVE  ContextsGrow /\ CallsGo
  <2>1. ContextsGrow /\ jxServer' \in Snaps /\ jxSaved' \in Nat  BY <1>1, Stays
  <2>2. jxCalls[c] \in JmapCallRecord  BY JmapCallType
  <2>3. /\ [jxCalls[c] EXCEPT !.at = a, !.kind = k] \in JmapCallRecord
        /\ [jxCalls[c] EXCEPT !.at = a, !.kind = k].ctx = jxCalls[c].ctx /\ [jxCalls[c] EXCEPT !.at = a, !.kind = k].at = a
    BY <2>2 DEF JmapCallRecord
  <2>4. PICK r \in JmapCallRecord : r = [jxCalls[c] EXCEPT !.at = a, !.kind = k] /\ r.ctx = jxCalls[c].ctx /\ r.at = a  BY <2>3
  <2>5. jxCalls' = [jxCalls EXCEPT ![c] = r]  BY <1>1, <2>4 DEF SetCall
  <2>. QED  BY <1>1, <2>1, <2>4, <2>5, CallMoves
<1>4. ASSUME NEW kind \in JmapRequests, WaitSlot(c, kind) PROVE ContextsGrow /\ CallsGo  BY <1>1, <1>4 DEF WaitSlot
<1>5. CASE JmapSendCall(c)
  <2>1. jxCalls[c] \in JmapCallRecord  BY JmapCallType
  <2>2. PICK k \in {"none", "orphan"} \cup JmapRequests : k = jxCalls[c].kind  BY <2>1 DEF JmapCallRecord
  <2>3. [jxCalls[c] EXCEPT !.at = "wire"] = [jxCalls[c] EXCEPT !.at = "wire", !.kind = k]  BY <2>1, <2>2 DEF JmapCallRecord
  <2>. QED  BY <1>1, <1>5, <2>3 DEF JmapSendCall
<1>2. CASE AnswerLabels(c)
  <2>1. jxServer' \in Snaps /\ jxSaved' \in Nat /\ jxCalls' = [jxCalls EXCEPT ![c] = NoCall]
    BY <1>2 DEF AnswerLabels, JmapSessionType, EndCall, SetCall
  <2>2. jxCalls[c].ctx \in 1..Len(jxContexts) /\ jxCalls[c].snap \in Snaps  BY <1>2, JmapCallType DEF AnswerLabels, CallsOfContexts
  <2>3. ContextsGrow  BY <1>2, <2>2, SnapshotGrows DEF AnswerLabels
  <2>. QED  BY <2>1, <2>3, CallEnds
<1>3. CASE DropCall(c)
  <2>1. ContextsGrow /\ jxServer' \in Snaps /\ jxSaved' \in Nat  BY <1>3, Stays DEF DropCall
  <2>2. CASE EndCall(c)  BY <2>1, <2>2, CallEnds DEF EndCall, SetCall
  <2>3. CASE SetCall(c, [jxCalls[c] EXCEPT !.kind = "orphan"])
    <3>1. jxCalls[c] \in JmapCallRecord /\ jxCalls[c].at # "idle"  BY <1>3, JmapCallType DEF DropCall
    <3>2. /\ [jxCalls[c] EXCEPT !.kind = "orphan"] \in JmapCallRecord
          /\ [jxCalls[c] EXCEPT !.kind = "orphan"].ctx = jxCalls[c].ctx /\ [jxCalls[c] EXCEPT !.kind = "orphan"].at = jxCalls[c].at
      BY <3>1 DEF JmapCallRecord
    <3>3. PICK r \in JmapCallRecord : r = [jxCalls[c] EXCEPT !.kind = "orphan"] /\ r.ctx = jxCalls[c].ctx /\ r.at = jxCalls[c].at
      BY <3>2
    <3>4. jxCalls' = [jxCalls EXCEPT ![c] = r]  BY <2>3, <3>3 DEF SetCall
    <3>5. jxCalls[c].ctx \in 1..Len(jxContexts')  BY <2>1, <3>1 DEF CallsOfContexts, ContextsGrow, JmapSessionType
    <3>. QED  BY <2>1, <3>1, <3>3, <3>4, <3>5 DEF CallsGo
  <2>. QED  BY <1>3, <2>2, <2>3 DEF DropCall
<1>. QED  BY <1>2, <1>3, <1>4, <1>5, StartGrows, TakeGrows, LoadGrows, AnswerGrows, RefuseGrows

LEMMA SignInGrows ==
  ASSUME JmapSessionType, ServerMoves \/ SignIn \/ Invalidate
  PROVE  ContextsGrow /\ CallsGo
<1>1. jxContexts \in Seq(ContextRecord) /\ jxCurrent \in 0..Len(jxContexts) /\ Len(jxContexts) \in Nat  BY DEF JmapSessionType
<1>2. jxServer \in Snaps /\ jxServer.password \in Nat /\ jxServer.session \in Nat /\ jxSaved \in Nat  BY DEF JmapSessionType, Snaps
<1>3. CASE ServerMoves
  <2>1. jxServer' \in Snaps /\ jxSaved' \in Nat  BY <1>2, <1>3 DEF ServerMoves, Snaps
  <2>. QED  BY <1>1, <1>3, <2>1 DEF ServerMoves, ContextsGrow, CallsGo, JmapSessionType
<1>4. CASE SignIn
  <2>1. PICK x \in ContextRecord : x = [Fresh EXCEPT !.snap = jxServer] /\ ~x.retired  BY <1>2, SmallSnaps
  <2>2. jxContexts' = Append(RetireOld(jxContexts), x) /\ jxCurrent' = Len(jxContexts) + 1  BY <1>4, <2>1 DEF SignIn
  <2>3. ContextsGrow  BY <1>1, <2>1, <2>2, RetiredRecord DEF ContextsGrow
  <2>. QED  BY <1>2, <1>4, <2>3 DEF SignIn, CallsGo
<1>5. CASE Invalidate
  <2>1. ContextsGrow  BY <1>1, <1>5, RetiredRecord DEF Invalidate, ContextsGrow
  <2>. QED  BY <1>2, <1>5, <2>1 DEF Invalidate, CallsGo
<1>. QED  BY <1>3, <1>4, <1>5

\* What RetiredIsQuiet says of one step.
QuietStep ==
    /\ \A c \in JmapCalls : jxCalls[c].at # "wire" /\ jxCalls'[c].at = "wire" =>
          /\ jxCalls[c].kind \in {"api", "upload"} => jxCalls[c].ctx = jxCurrent /\ ~jxContexts[jxCurrent].rejected
          /\ jxCalls[c].kind \in Destroys => jxCalls[c].ctx = jxCurrent
    /\ \A c \in JmapCalls : jxCalls[c].at = "idle" /\ jxCalls'[c].at # "idle" =>
          jxCalls'[c].ctx = jxCurrent' /\ ~jxContexts'[jxCurrent'].retired /\ ~jxContexts'[jxCurrent'].rejected
    /\ \A i \in ContextIds : jxContexts[i].retired => jxContexts'[i].retired
    /\ \A i \in ContextIds : i # jxCurrent => i # jxCurrent'

LEMMA GrowIsQuiet ==
  ASSUME JmapSessionType, CallsOfContexts, ContextsGrow, CallsGo
  PROVE  /\ JmapSessionType' /\ CallsOfContexts'
         /\ QuietStep
<1>1. /\ jxContexts \in Seq(ContextRecord) /\ jxCurrent \in 0..Len(jxContexts) /\ Len(jxContexts) \in Nat
      /\ jxContexts' \in Seq(ContextRecord) /\ Len(jxContexts') \in Nat /\ Len(jxContexts') >= Len(jxContexts)
  BY DEF JmapSessionType, ContextsGrow
<1>2. jxCurrent' \in 0..Len(jxContexts') /\ \A i \in ContextIds : i # jxCurrent => i # jxCurrent'
  BY <1>1 DEF ContextsGrow, ContextIds
<1>3. \A i \in ContextIds : jxContexts[i].retired => jxContexts'[i].retired  BY <1>1 DEF ContextsGrow, ContextIds
<1>4. JmapSessionType'
  <2>1. jxCalls' \in [JmapCalls -> JmapCallRecord]  BY DEF JmapSessionType, CallsGo
  <2>. QED  BY <1>1, <1>2, <2>1 DEF JmapSessionType, CallsGo, ContextsGrow
<1>5. ASSUME NEW c \in JmapCalls
      PROVE  /\ jxCalls'[c].at # "idle" => jxCalls'[c].ctx \in 1..Len(jxContexts')
             /\ jxCalls[c].at # "wire" /\ jxCalls'[c].at = "wire" => MaySend(jxCalls[c]) /\ jxCalls[c].at # "idle"
             /\ jxCalls[c].at = "idle" /\ jxCalls'[c].at # "idle" =>
                   jxCalls'[c].ctx = jxCurrent' /\ ~jxContexts'[jxCurrent'].retired /\ ~jxContexts'[jxCurrent'].rejected
  <2>1. jxCalls[c].at # "idle" => jxCalls[c].ctx \in 1..Len(jxContexts')  BY <1>1 DEF CallsOfContexts
  <2>2. CASE UNCHANGED jxCalls  BY <2>1, <2>2
  <2>3. ASSUME NEW d \in JmapCalls, NEW r \in JmapCallRecord, jxCalls' = [jxCalls EXCEPT ![d] = r],
               r.at = "wire" => jxCalls[d].at = "wire" \/ MaySend(jxCalls[d]),
               jxCalls[d].at = "idle" /\ r.at # "idle" =>
                  r.at = "snapshot" /\ r.ctx = jxCurrent' /\ ~jxContexts'[jxCurrent'].retired /\ ~jxContexts'[jxCurrent'].rejected,
               r.at # "idle" => r.ctx \in 1..Len(jxContexts')
        PROVE  /\ jxCalls'[c].at # "idle" => jxCalls'[c].ctx \in 1..Len(jxContexts')
               /\ jxCalls[c].at # "wire" /\ jxCalls'[c].at = "wire" => MaySend(jxCalls[c]) /\ jxCalls[c].at # "idle"
               /\ jxCalls[c].at = "idle" /\ jxCalls'[c].at # "idle" =>
                     jxCalls'[c].ctx = jxCurrent' /\ ~jxContexts'[jxCurrent'].retired /\ ~jxContexts'[jxCurrent'].rejected
    <3>1. c # d => jxCalls'[c] = jxCalls[c]  BY <2>3 DEF JmapSessionType
    <3>2. jxCalls'[d] = r  BY <2>3 DEF JmapSessionType
    <3>. QED  BY <2>1, <2>3, <3>1, <3>2
  <2>. QED  BY <2>2, <2>3 DEF CallsGo
<1>6. ASSUME NEW c \in JmapCalls, jxCalls[c].at # "wire", jxCalls'[c].at = "wire"
      PROVE  /\ jxCalls[c].kind \in {"api", "upload"} => jxCalls[c].ctx = jxCurrent /\ ~jxContexts[jxCurrent].rejected
             /\ jxCalls[c].kind \in Destroys => jxCalls[c].ctx = jxCurrent
  <2>1. MaySend(jxCalls[c]) /\ jxCalls[c].ctx \in 1..Len(jxContexts)  BY <1>5, <1>6 DEF CallsOfContexts
  <2>2. jxContexts[jxCalls[c].ctx].retired <=> jxCalls[c].ctx # jxCurrent  BY <2>1 DEF JmapSessionType
  <2>. QED  BY <2>1, <2>2 DEF MaySend, Active, Destroys
<1>. QED  BY <1>2, <1>3, <1>4, <1>5, <1>6 DEF CallsOfContexts, QuietStep

(* A JMAP sign-in that was refused or replaced starts no query, change, submission or upload, however long a call of
   its own waited for a slot, a replaced one removes no draft, and nothing brings it back (mailbox.rs:
   install_verified, snapshot, api; mutation.rs: destroy). *)
THEOREM RetiredStaysQuiet == JmapSessionSpec => RetiredIsQuiet
<1>1. JmapSessionInit => JmapSessionType /\ CallsOfContexts
  <2>. SUFFICES ASSUME JmapSessionInit PROVE JmapSessionType /\ CallsOfContexts  OBVIOUS
  <2>1. jxServer \in Snaps /\ jxSaved \in Nat /\ jxContexts \in Seq(ContextRecord) /\ jxCurrent \in 0..Len(jxContexts)
    BY DEF JmapSessionInit, Snaps
  <2>2. jxCalls \in [JmapCalls -> JmapCallRecord] /\ \A c \in JmapCalls : jxCalls[c].at = "idle"  BY SmallSnaps DEF JmapSessionInit
  <2>3. 1..Len(jxContexts) = {}  BY DEF JmapSessionInit
  <2>. QED  BY <2>1, <2>2, <2>3 DEF JmapSessionType, CallsOfContexts
<1>2. JmapSessionType /\ CallsOfContexts /\ JmapSessionNext =>
        /\ JmapSessionType' /\ CallsOfContexts'
        /\ QuietStep
  BY CallStepGrows, SignInGrows, GrowIsQuiet DEF JmapSessionNext
<1>3. JmapSessionType /\ CallsOfContexts /\ UNCHANGED jmapSessionVars => JmapSessionType' /\ CallsOfContexts'
  BY DEF JmapSessionType, CallsOfContexts, jmapSessionVars
<1>. QED  BY <1>1, <1>2, <1>3, PTL DEF JmapSessionSpec, RetiredIsQuiet, QuietStep

------------------------------------
(* Where a credential may go: a policy, remembered or being made, names what a document of its credential named. *)
RequestRecord == [at : {"idle", "ask", "wire"}, verb : {"none", "session", "call"}, origin : Origins \cup {"none"},
                  secret : JdSecrets \cup {"none"}, root : Origins \cup {"none"}]
Named(policy, ever) == \A o \in policy.origins : o = policy.root \/ <<o, policy.secret>> \in ever
Home(req, ever) == req.at = "wire" => req.origin = req.root \/ <<req.origin, req.secret>> \in ever
DocumentInv == /\ jdDoc.root \in Origins /\ jdRoot \in Origins
               /\ \A o \in jdDoc.origins : <<o, jdDoc.secret>> \in jdEver
SignedInv == Named(jdPolicy, jdEver) /\ Named(jdSign.doc, jdEver) /\ jdSign.doc.root \in Origins \cup {"none"}
             /\ (jdSign.at = "document" => jdSign.doc.root \in Origins)
RequestsInv == /\ jdReq \in [JdRequests -> RequestRecord]
               /\ \A r \in JdRequests : Home(jdReq[r], jdEver)
PolicyInv == DocumentInv /\ SignedInv /\ RequestsInv

LEMMA DocumentPolicy ==
  ASSUME DocumentInv, NEW s, s = jdDoc.secret, NEW root
  PROVE  Named(Policy(root, jdDoc, s), jdEver)
BY DEF DocumentInv, Named, Policy

LEMMA NoneNamed == ASSUME NEW e PROVE Named(NoPolicy, e)
BY DEF Named, NoPolicy

LEMMA NothingAsked == NoRequest \in RequestRecord /\ NoRequest.at = "idle"
BY DEF NoRequest, RequestRecord

LEMMA RequestSet ==
  ASSUME RequestsInv, NEW r \in JdRequests, NEW v \in RequestRecord, SetReq(r, v), Home(v, jdEver), jdEver' = jdEver
  PROVE  RequestsInv'
<1>1. jdReq' \in [JdRequests -> RequestRecord]  BY DEF SetReq, RequestsInv
<1>2. ASSUME NEW q \in JdRequests PROVE Home(jdReq'[q], jdEver')
  <2>1. jdReq'[q] = v \/ jdReq'[q] = jdReq[q]  BY DEF SetReq, RequestsInv
  <2>. QED  BY <2>1 DEF RequestsInv
<1>. QED  BY <1>1, <1>2 DEF RequestsInv

LEMMA RequestGone ==
  ASSUME RequestsInv, NEW r \in JdRequests, SetReq(r, NoRequest), jdEver' = jdEver
  PROVE  RequestsInv'
BY NothingAsked, RequestSet DEF Home

LEMMA SameRequests ==
  ASSUME RequestsInv, UNCHANGED <<jdReq, jdEver>>
  PROVE  RequestsInv'
BY DEF RequestsInv

LEMMA PublishKeeps ==
  ASSUME PolicyInv, NEW root \in Origins, NEW os \in SUBSET Origins, NEW s \in JdSecrets, Publish(root, os, s)
  PROVE  PolicyInv'
<1>1. /\ jdDoc' = [root |-> root, origins |-> {root} \cup os, secret |-> s]
      /\ jdEver' = jdEver \cup {<<o, s>> : o \in {root} \cup os}
      /\ UNCHANGED <<jdRoot, jdPolicy, jdReq, jdSign>>
  BY DEF Publish
<1>2. DocumentInv'  BY <1>1 DEF DocumentInv, PolicyInv
<1>3. SignedInv'  BY <1>1 DEF SignedInv, Named, PolicyInv
<1>4. \A r \in JdRequests : Home(jdReq[r], jdEver')  BY <1>1 DEF RequestsInv, Home, PolicyInv
<1>. QED  BY <1>1, <1>2, <1>3, <1>4 DEF RequestsInv, PolicyInv

LEMMA SigningKeeps ==
  ASSUME PolicyInv, \/ \E s \in JdSecrets : Discover(s)
                    \/ VerifyDocument \/ Verify \/ ForgetPolicy
  PROVE  PolicyInv'
<1>1. jdEver' = jdEver /\ RequestsInv'  BY SameRequests DEF PolicyInv, Discover, VerifyDocument, Verify, ForgetPolicy
<1>2. DocumentInv'  BY DEF PolicyInv, DocumentInv, SignedInv, Discover, VerifyDocument, Verify, ForgetPolicy
<1>3. SignedInv'
  <2>1. CASE \E s \in JdSecrets : Discover(s)
    <3>1. jdSign'.doc = NoPolicy /\ jdSign'.at = "found" /\ jdPolicy' = jdPolicy  BY <2>1 DEF Discover
    <3>2. NoPolicy.root = "none"  BY DEF NoPolicy
    <3>. QED  BY <1>1, <3>1, <3>2, NoneNamed DEF SignedInv, PolicyInv
  <2>2. NoSign.doc = NoPolicy /\ NoSign.at = "idle" /\ NoPolicy.root = "none"  BY DEF NoSign, NoPolicy
  <2>3. CASE VerifyDocument
    <3>1. CASE jdSign.secret = jdDoc.secret
      <4>. DEFINE p == Policy(jdDoc.root, jdDoc, jdSign.secret)
      <4>1. Named(p, jdEver) /\ p.root \in Origins  BY <3>1, DocumentPolicy DEF PolicyInv, DocumentInv, Policy
      <4>2. jdSign' = [jdSign EXCEPT !.at = "document", !.doc = p] /\ jdPolicy' = jdPolicy  BY <2>3, <3>1 DEF VerifyDocument
      <4>. HIDE DEF p
      <4>3. jdSign'.doc = p  BY <4>2
      <4>. QED  BY <1>1, <4>1, <4>2, <4>3 DEF SignedInv, PolicyInv
    <3>2. CASE jdSign.secret # jdDoc.secret  BY <1>1, <2>2, <2>3, <3>2, NoneNamed DEF VerifyDocument, SignedInv, PolicyInv
    <3>. QED  BY <3>1, <3>2
  <2>4. CASE Verify
    <3>1. jdSign' = NoSign /\ jdPolicy' \in {jdPolicy, jdSign.doc}  BY <2>4 DEF Verify
    <3>. QED  BY <1>1, <2>2, <3>1, NoneNamed DEF SignedInv, PolicyInv
  <2>5. CASE ForgetPolicy  BY <1>1, <2>5, NoneNamed DEF ForgetPolicy, SignedInv, PolicyInv
  <2>. QED  BY <2>1, <2>3, <2>4, <2>5
<1>. QED  BY <1>1, <1>2, <1>3 DEF PolicyInv

LEMMA Asking ==
  ASSUME PolicyInv, NEW r \in JdRequests
  PROVE  jdReq[r] \in RequestRecord /\ Home(jdReq[r], jdEver)
BY DEF PolicyInv, RequestsInv

LEMMA AuthorizeKeeps ==
  ASSUME PolicyInv, NEW r \in JdRequests, NEW v \in {"session", "call"}, NEW o \in Origins, NEW s \in JdSecrets,
         Authorize(r, v, o, s)
  PROVE  PolicyInv'
<1>. DEFINE ask == [at |-> "ask", verb |-> v, origin |-> o, secret |-> s, root |-> jdRoot]
            sent == [at |-> "wire", verb |-> v, origin |-> o, secret |-> s, root |-> jdRoot]
<1>1. UNCHANGED <<jdDoc, jdEver, jdRoot, jdPolicy, jdSign>>  BY DEF Authorize
<1>2. ask \in RequestRecord /\ sent \in RequestRecord  BY DEF RequestRecord, PolicyInv, DocumentInv
<1>3. \/ SetReq(r, sent) /\ o = jdRoot
      \/ SetReq(r, sent) /\ Trusts(jdPolicy, ask)
      \/ SetReq(r, ask)
  BY DEF Authorize
<1>4. RequestsInv'
  <2>1. CASE SetReq(r, sent) /\ o = jdRoot  BY <1>1, <1>2, <2>1, RequestSet DEF Home, PolicyInv
  <2>2. CASE SetReq(r, sent) /\ Trusts(jdPolicy, ask)
    <3>1. o = jdRoot \/ <<o, s>> \in jdEver  BY <2>2 DEF Trusts, PolicyInv, SignedInv, Named
    <3>. QED  BY <1>1, <1>2, <2>2, <3>1, RequestSet DEF Home, PolicyInv
  <2>3. CASE SetReq(r, ask)  BY <1>1, <1>2, <2>3, RequestSet DEF Home, PolicyInv
  <2>. QED  BY <1>3, <2>1, <2>2, <2>3
<1>. QED  BY <1>1, <1>4 DEF PolicyInv, DocumentInv, SignedInv, Named

LEMMA ReadKeeps ==
  ASSUME PolicyInv, NEW r \in JdRequests, ReadDocument(r)
  PROVE  PolicyInv'
<1>. DEFINE req == jdReq[r]
            policy == Policy(req.root, jdDoc, req.secret)
<1>1. UNCHANGED <<jdDoc, jdEver, jdRoot, jdSign>>  BY DEF ReadDocument
<1>2. CASE req.secret = jdDoc.secret /\ req.root = jdDoc.root
  <2>1. Named(policy, jdEver)  BY <1>2, DocumentPolicy DEF PolicyInv
  <2>2. jdPolicy' = policy  BY <1>2 DEF ReadDocument
  <2>3. SignedInv'  BY <1>1, <2>1, <2>2 DEF PolicyInv, SignedInv
  <2>4. \/ SetReq(r, [req EXCEPT !.at = "wire"]) /\ req.origin \in policy.origins
        \/ SetReq(r, NoRequest)
    BY <1>2 DEF ReadDocument
  <2>5. req \in RequestRecord  BY Asking
  <2>6. /\ [req EXCEPT !.at = "wire"] \in RequestRecord
        /\ [req EXCEPT !.at = "wire"].origin = req.origin
        /\ [req EXCEPT !.at = "wire"].root = req.root
        /\ [req EXCEPT !.at = "wire"].secret = req.secret
    BY <2>5 DEF RequestRecord
  <2>7. PICK v \in RequestRecord : /\ v = [req EXCEPT !.at = "wire"]
                                  /\ v.origin = req.origin /\ v.root = req.root /\ v.secret = req.secret
    BY <2>6
  <2>8. RequestsInv'
    <3>1. CASE SetReq(r, v) /\ req.origin \in policy.origins
      <4>1. Home(v, jdEver)  BY <2>1, <2>7, <3>1 DEF Home, Named, Policy
      <4>. QED  BY <1>1, <2>7, <3>1, <4>1, RequestSet DEF PolicyInv
    <3>2. CASE SetReq(r, NoRequest)  BY <1>1, <3>2, RequestGone DEF PolicyInv
    <3>. QED  BY <2>4, <2>7, <3>1, <3>2
  <2>. QED  BY <1>1, <2>3, <2>8 DEF PolicyInv, DocumentInv
<1>3. CASE ~(req.secret = jdDoc.secret /\ req.root = jdDoc.root)
  <2>1. jdPolicy' = jdPolicy /\ SetReq(r, NoRequest)  BY <1>3 DEF ReadDocument
  <2>2. RequestsInv'  BY <1>1, <2>1, RequestGone DEF PolicyInv
  <2>. QED  BY <1>1, <2>1, <2>2 DEF PolicyInv, DocumentInv, SignedInv
<1>. QED  BY <1>2, <1>3

LEMMA RememberKeeps ==
  ASSUME PolicyInv, NEW r \in JdRequests, Remember(r) \/ DropRequest(r)
  PROVE  PolicyInv'
<1>1. UNCHANGED <<jdDoc, jdEver, jdRoot, jdSign>> /\ SetReq(r, NoRequest)  BY DEF Remember, DropRequest
<1>2. RequestsInv'  BY <1>1, RequestGone DEF PolicyInv
<1>3. \/ jdPolicy' = jdPolicy
      \/ jdReq[r].secret = jdDoc.secret /\ jdPolicy' = Policy(jdReq[r].origin, jdDoc, jdReq[r].secret)
  BY DEF Remember, DropRequest
<1>4. SignedInv'  BY <1>1, <1>3, DocumentPolicy DEF PolicyInv, SignedInv
<1>. QED  BY <1>1, <1>2, <1>4 DEF PolicyInv, DocumentInv

(* A credential goes only to the root of its account or to an origin a document that accepted it named, however
   the reads of the document and the sign-ins cross (discovery.rs: discover, verify, authorize). *)
THEOREM CredentialsStayHome == DiscoverySpec => []CredentialStaysHome
<1>1. DiscoveryInit => PolicyInv
  <2>. SUFFICES ASSUME DiscoveryInit PROVE PolicyInv  OBVIOUS
  <2>1. DocumentInv  BY DEF DiscoveryInit, DocumentInv
  <2>2. SignedInv
    <3>1. NoSign.doc = NoPolicy /\ NoSign.at = "idle" /\ NoPolicy.root = "none"  BY DEF NoSign, NoPolicy
    <3>. QED  BY <3>1, NoneNamed DEF DiscoveryInit, SignedInv
  <2>3. RequestsInv  BY NothingAsked DEF DiscoveryInit, RequestsInv, Home
  <2>. QED  BY <2>1, <2>2, <2>3 DEF PolicyInv
<1>2. PolicyInv /\ [DiscoveryNext]_discoveryVars => PolicyInv'
  <2>1. PolicyInv /\ DiscoveryNext => PolicyInv'
    BY PublishKeeps, SigningKeeps, AuthorizeKeeps, ReadKeeps, RememberKeeps DEF DiscoveryNext
  <2>2. PolicyInv /\ UNCHANGED discoveryVars => PolicyInv'  BY DEF PolicyInv, DocumentInv, SignedInv, RequestsInv, discoveryVars
  <2>. QED  BY <2>1, <2>2
<1>3. PolicyInv => CredentialStaysHome  BY DEF PolicyInv, SignedInv, RequestsInv, Named, Home, CredentialStaysHome
<1>. QED  BY <1>1, <1>2, <1>3, PTL DEF DiscoverySpec

------------------------------------
(* Reading and changing. *)
JmapBoxes == {"inbox", "sent", "archive", "trash"}
Held == [JmapIds -> [box : JmapBoxes, version : Nat]]
ListReplies == [at : {"replied"}, rows : Held, dirty : BOOLEAN]
Changes == [at : {"sending", "cut", "failed", "told"}, kind : {"desktop", "planned"}, action : {"archive", "trash"},
            left : SUBSET JmapIds, done : SUBSET JmapIds, all : SUBSET JmapIds, seen : Held]
JmapMailType == /\ jmServer \in Held /\ jmCache \in [JmapIds -> Nat] /\ jmLast \in [JmapIds -> Nat]
                /\ jmList = NoReply \/ jmList \in ListReplies
                /\ jmChange = NoChange \/ jmChange \in Changes
\* What was reported done is not undone: neither at the server, nor in the cache, nor in the rows of a
\* listing that began since.
LastInv == \A m \in JmapIds :
    /\ jmServer[m].version >= jmLast[m]
    /\ jmCache[m] # 0 => jmCache[m] >= jmLast[m]
    /\ jmList # NoReply => jmList.dirty \/ jmList.rows[m].version >= jmLast[m]
\* A change under way: the server went on from what it saw, and past it where it was confirmed.
DoneInv == jmChange # NoChange => \A m \in JmapIds :
    /\ jmServer[m].version >= jmChange.seen[m].version
    /\ m \in jmChange.done => jmServer[m].version > jmChange.seen[m].version
PlanInv == jmChange # NoChange /\ jmChange.kind = "planned" => \A m \in jmChange.all :
    /\ jmChange.seen[m].box # "trash"
    /\ jmChange.action = "archive" => jmChange.seen[m].box = "inbox"
ChangeInv == JmapMailType /\ LastInv /\ DoneInv /\ PlanInv

LEMMA HeldType ==
  ASSUME NEW h \in Held, NEW m \in JmapIds
  PROVE  h[m].box \in JmapBoxes /\ h[m].version \in Nat
<1>1. h[m] \in [box : JmapBoxes, version : Nat]  BY DEF Held
<1>. QED  BY <1>1

LEMMA BumpGoesOn ==
  ASSUME NEW h \in Held, NEW ids \in SUBSET JmapIds, NEW b \in JmapBoxes
  PROVE  /\ Bump(h, ids, b) \in Held
         /\ \A m \in JmapIds : Bump(h, ids, b)[m].version >= h[m].version
         /\ \A m \in ids : Bump(h, ids, b)[m].version > h[m].version
<1>1. ASSUME NEW m \in JmapIds
      PROVE  /\ Bump(h, ids, b)[m] \in [box : JmapBoxes, version : Nat]
             /\ Bump(h, ids, b)[m].version >= h[m].version
             /\ m \in ids => Bump(h, ids, b)[m].version > h[m].version
  <2>1. h[m] \in [box : JmapBoxes, version : Nat] /\ h[m].version \in Nat  BY HeldType DEF Held
  <2>. QED  BY <2>1 DEF Bump
<1>. QED  BY <1>1 DEF Bump, Held

LEMMA NotNothing == /\ \A x \in ListReplies : x # NoReply
                    /\ \A x \in Changes : x # NoChange
BY DEF ListReplies, Changes, NoReply, NoChange

\* Only the server moves, and forwards; the change may note what it was told.
LEMMA ServerGoesOn ==
  ASSUME ChangeInv, jmServer' \in Held, \A m \in JmapIds : jmServer'[m].version >= jmServer[m].version,
         UNCHANGED <<jmCache, jmList, jmLast>>
  PROVE  /\ jmCache' \in [JmapIds -> Nat] /\ jmLast' \in [JmapIds -> Nat] /\ (jmList' = NoReply \/ jmList' \in ListReplies)
         /\ LastInv'
<1>1. \A m \in JmapIds : jmServer'[m].version \in Nat /\ jmServer[m].version \in Nat /\ jmLast[m] \in Nat
  BY HeldType DEF ChangeInv, JmapMailType
<1>. QED  BY <1>1 DEF ChangeInv, JmapMailType, LastInv

LEMMA ForeignKeeps ==
  ASSUME ChangeInv, NEW m \in JmapIds, ForeignChange(m, "trash")
  PROVE  ChangeInv'
<1>1. jmServer \in Held /\ "trash" \in JmapBoxes  BY DEF ChangeInv, JmapMailType, JmapBoxes
<1>2. jmServer' = Bump(jmServer, {m}, "trash") /\ UNCHANGED <<jmCache, jmMembership, jmList, jmChange, jmLast>>
  BY DEF ForeignChange
<1>3. jmServer' \in Held /\ \A k \in JmapIds : jmServer'[k].version >= jmServer[k].version  BY <1>1, <1>2, BumpGoesOn
<1>4. LastInv' /\ JmapMailType'  BY <1>2, <1>3, ServerGoesOn DEF ChangeInv, JmapMailType
<1>5. DoneInv'
  <2>. SUFFICES ASSUME jmChange # NoChange, NEW k \in JmapIds
                PROVE  /\ jmServer'[k].version >= jmChange.seen[k].version
                       /\ k \in jmChange.done => jmServer'[k].version > jmChange.seen[k].version
    BY <1>2 DEF DoneInv
  <2>1. jmChange.seen \in Held  BY DEF ChangeInv, JmapMailType, Changes
  <2>2. jmServer'[k].version \in Nat /\ jmServer[k].version \in Nat /\ jmChange.seen[k].version \in Nat
    BY <1>1, <1>3, <2>1, HeldType
  <2>. QED  BY <1>3, <2>2 DEF ChangeInv, DoneInv
<1>. QED  BY <1>2, <1>4, <1>5 DEF ChangeInv, PlanInv

LEMMA ChunkKeeps ==
  ASSUME ChangeInv, jmChange # NoChange, NEW c \in SUBSET jmChange.left, NEW applied \in SUBSET c,
         jmServer' = Bump(jmServer, applied, Box(jmChange.action)),
         jmChange' \in Changes, jmChange'.seen = jmChange.seen, jmChange'.all = jmChange.all,
         jmChange'.kind = jmChange.kind, jmChange'.action = jmChange.action,
         jmChange'.done \subseteq jmChange.done \cup applied,
         UNCHANGED <<jmCache, jmMembership, jmList, jmLast>>
  PROVE  ChangeInv'
<1>1. jmChange \in Changes /\ jmServer \in Held  BY DEF ChangeInv, JmapMailType
<1>2. applied \in SUBSET JmapIds /\ Box(jmChange.action) \in JmapBoxes /\ jmChange.seen \in Held
  BY <1>1 DEF Changes, Box, JmapBoxes
<1>3. /\ jmServer' \in Held
      /\ \A k \in JmapIds : jmServer'[k].version >= jmServer[k].version
      /\ \A k \in applied : jmServer'[k].version > jmServer[k].version
  BY <1>1, <1>2, BumpGoesOn
<1>4. LastInv' /\ JmapMailType'  BY <1>3, ServerGoesOn DEF ChangeInv, JmapMailType
<1>5. DoneInv'
  <2>. SUFFICES ASSUME NEW k \in JmapIds
                PROVE  /\ jmServer'[k].version >= jmChange.seen[k].version
                       /\ k \in jmChange.done \cup applied => jmServer'[k].version > jmChange.seen[k].version
    BY DEF DoneInv
  <2>1. jmServer'[k].version \in Nat /\ jmServer[k].version \in Nat /\ jmChange.seen[k].version \in Nat
    BY <1>1, <1>2, <1>3, HeldType
  <2>. QED  BY <1>3, <2>1 DEF ChangeInv, DoneInv
<1>6. PlanInv'  BY DEF ChangeInv, PlanInv
<1>. QED  BY <1>4, <1>5, <1>6 DEF ChangeInv

LEMMA SendingIsChange ==
  ASSUME ChangeInv, jmChange.at # "none"
  PROVE  jmChange \in Changes /\ jmChange # NoChange
BY NotNothing DEF ChangeInv, JmapMailType, NoChange

LEMMA AtEnds ==
  ASSUME NEW x \in Changes, NEW a \in {"sending", "cut", "failed", "told"}
  PROVE  /\ [x EXCEPT !.at = a] \in Changes
         /\ [x EXCEPT !.at = a].done = x.done
         /\ [x EXCEPT !.at = a].seen = x.seen
         /\ [x EXCEPT !.at = a].all = x.all
         /\ [x EXCEPT !.at = a].kind = x.kind
         /\ [x EXCEPT !.at = a].action = x.action
BY DEF Changes

LEMMA SendKeeps ==
  ASSUME ChangeInv, JmapSendChunk \/ LoseChunk
  PROVE  ChangeInv'
<1>1. jmChange \in Changes /\ jmChange # NoChange  BY SendingIsChange DEF JmapSendChunk, LoseChunk
<1>2. PICK c \in Chunk(jmChange.left) : \E applied \in SUBSET c :
        /\ jmServer' = Bump(jmServer, applied, Box(jmChange.action))
        /\ \/ jmChange' = [jmChange EXCEPT !.left = @ \ c, !.done = @ \cup applied]
           \/ jmChange' = [jmChange EXCEPT !.at = "failed"]
           \/ jmChange' = [jmChange EXCEPT !.at = "cut"]
  BY DEF JmapSendChunk, LoseChunk
<1>3. c \in SUBSET jmChange.left  BY <1>2 DEF Chunk
<1>4. PICK applied \in SUBSET c :
        /\ jmServer' = Bump(jmServer, applied, Box(jmChange.action))
        /\ \/ jmChange' = [jmChange EXCEPT !.left = @ \ c, !.done = @ \cup applied]
           \/ jmChange' = [jmChange EXCEPT !.at = "failed"]
           \/ jmChange' = [jmChange EXCEPT !.at = "cut"]
  BY <1>2
<1>5. /\ jmChange' \in Changes /\ jmChange'.seen = jmChange.seen /\ jmChange'.all = jmChange.all
      /\ jmChange'.kind = jmChange.kind /\ jmChange'.action = jmChange.action
      /\ jmChange'.done \subseteq jmChange.done \cup applied
  <2>1. CASE jmChange' = [jmChange EXCEPT !.left = @ \ c, !.done = @ \cup applied]
    <3>1. jmChange.left \ c \in SUBSET JmapIds /\ jmChange.done \cup applied \in SUBSET JmapIds  BY <1>1, <1>3 DEF Changes
    <3>2. PICK l \in SUBSET JmapIds, d \in SUBSET JmapIds : l = jmChange.left \ c /\ d = jmChange.done \cup applied  BY <3>1
    <3>3. jmChange' = [jmChange EXCEPT !.left = l, !.done = d]  BY <2>1, <3>2
    <3>. QED  BY <1>1, <3>2, <3>3 DEF Changes
  <2>2. CASE jmChange' = [jmChange EXCEPT !.at = "failed"]  BY <1>1, <2>2, AtEnds
  <2>3. CASE jmChange' = [jmChange EXCEPT !.at = "cut"]  BY <1>1, <2>3, AtEnds
  <2>. QED  BY <1>4, <2>1, <2>2, <2>3
<1>6. UNCHANGED <<jmCache, jmMembership, jmList, jmLast>>  BY DEF JmapSendChunk, LoseChunk
<1>. QED  BY <1>1, <1>3, <1>4, <1>5, <1>6, ChunkKeeps

LEMMA EndKeeps ==
  ASSUME ChangeInv, EndChange
  PROVE  ChangeInv'
<1>1. jmChange \in Changes /\ jmChange # NoChange  BY SendingIsChange DEF EndChange
<1>2. /\ jmLast' = [m \in JmapIds |-> IF m \in jmChange.done THEN jmServer[m].version ELSE jmLast[m]]
      /\ jmChange' = [jmChange EXCEPT !.at = "told"] /\ UNCHANGED jmServer
      /\ jmCache' = [m \in JmapIds |-> 0] \/ (jmCache' = jmCache /\ jmChange.done = {})
      /\ jmList' = IF jmList = NoReply THEN jmList ELSE [jmList EXCEPT !.dirty = TRUE]
  BY DEF EndChange, Cleared
<1>3. /\ jmChange' \in Changes /\ jmChange'.done = jmChange.done /\ jmChange'.seen = jmChange.seen
      /\ jmChange'.all = jmChange.all /\ jmChange'.kind = jmChange.kind /\ jmChange'.action = jmChange.action
  BY <1>1, <1>2, AtEnds
<1>4. \A m \in JmapIds : jmServer[m].version \in Nat /\ jmLast[m] \in Nat /\ jmCache[m] \in Nat
  BY HeldType DEF ChangeInv, JmapMailType
<1>5. \/ jmList' = NoReply
      \/ jmList' \in ListReplies /\ jmList'.dirty
  <2>1. CASE jmList = NoReply  BY <1>2, <2>1
  <2>2. CASE jmList # NoReply
    <3>1. jmList \in ListReplies  BY <2>2 DEF ChangeInv, JmapMailType
    <3>2. [jmList EXCEPT !.dirty = TRUE] \in ListReplies /\ [jmList EXCEPT !.dirty = TRUE].dirty  BY <3>1 DEF ListReplies
    <3>. QED  BY <1>2, <2>2, <3>2
  <2>. QED  BY <2>1, <2>2
<1>6. jmLast' \in [JmapIds -> Nat] /\ jmCache' \in [JmapIds -> Nat]  BY <1>2, <1>4 DEF ChangeInv, JmapMailType
<1>7. JmapMailType'  BY <1>2, <1>3, <1>5, <1>6 DEF ChangeInv, JmapMailType
<1>8. LastInv'
  <2>. SUFFICES ASSUME NEW m \in JmapIds
                PROVE  /\ jmServer[m].version >= jmLast'[m]
                       /\ jmCache'[m] # 0 => jmCache'[m] >= jmLast'[m]
                       /\ jmList' # NoReply => jmList'.dirty
    BY <1>2 DEF LastInv
  <2>. QED  BY <1>2, <1>4, <1>5 DEF ChangeInv, LastInv
<1>9. DoneInv' /\ PlanInv'  BY <1>1, <1>2, <1>3 DEF ChangeInv, DoneInv, PlanInv
<1>. QED  BY <1>7, <1>8, <1>9 DEF ChangeInv

LEMMA ToldKeeps ==
  ASSUME ChangeInv, FailChange \/ Tell
  PROVE  ChangeInv'
<1>1. jmChange' = NoChange /\ UNCHANGED <<jmServer, jmCache, jmMembership, jmList, jmLast>>  BY DEF FailChange, Tell
<1>. QED  BY <1>1 DEF ChangeInv, JmapMailType, LastInv, DoneInv, PlanInv

LEMMA StartKeeps ==
  ASSUME ChangeInv, NEW kind \in {"desktop", "planned"}, NEW ids \in SUBSET JmapIds,
         NEW action \in {"archive", "trash"}, StartChange(kind, ids, action)
  PROVE  ChangeInv'
<1>. DEFINE targets == IF kind = "planned" THEN PlannedTargets(ids, action) ELSE DesktopTargets(ids, action)
<1>1. targets \in SUBSET JmapIds  BY DEF PlannedTargets, DesktopTargets, AllMembers
<1>2. kind = "planned" => \A m \in targets : jmServer[m].box # "trash" /\ (action = "archive" => jmServer[m].box = "inbox")
  <2>. SUFFICES ASSUME kind = "planned", NEW m \in PlannedTargets(ids, action)
                PROVE  jmServer[m].box # "trash" /\ (action = "archive" => jmServer[m].box = "inbox")
    OBVIOUS
  <2>1. m \in JmapIds /\ Visible(jmServer[m].box) /\ Applies(action, jmServer[m].box)  BY DEF PlannedTargets, AllMembers
  <2>2. jmServer[m].box \in JmapBoxes  BY <2>1, HeldType DEF ChangeInv, JmapMailType
  <2>. QED  BY <2>1, <2>2 DEF Visible, Applies, JmapBoxes
<1>. HIDE DEF targets
<1>3. /\ jmChange' = [at |-> "sending", kind |-> kind, action |-> action,
                      left |-> targets, done |-> {}, all |-> targets, seen |-> jmServer]
      /\ UNCHANGED <<jmServer, jmCache, jmMembership, jmList, jmLast>>
  BY DEF StartChange, targets
<1>4. jmChange' \in Changes  BY <1>1, <1>3 DEF Changes, ChangeInv, JmapMailType
<1>5. /\ jmChange'.kind = kind /\ jmChange'.action = action /\ jmChange'.done = {}
      /\ jmChange'.all = targets /\ jmChange'.seen = jmServer
  BY <1>3
<1>6. JmapMailType' /\ LastInv'  BY <1>3, <1>4 DEF ChangeInv, JmapMailType, LastInv
<1>7. DoneInv'
  <2>1. \A m \in JmapIds : jmServer[m].version \in Nat  BY HeldType DEF ChangeInv, JmapMailType
  <2>. QED  BY <1>3, <1>5, <2>1 DEF DoneInv
<1>8. PlanInv'  BY <1>2, <1>5 DEF PlanInv
<1>. QED  BY <1>6, <1>7, <1>8 DEF ChangeInv

LEMMA ListKeeps ==
  ASSUME ChangeInv, ListReply \/ ListStore \/ ListFails
  PROVE  ChangeInv'
<1>1. UNCHANGED <<jmServer, jmChange>>  BY DEF ListReply, ListStore, ListFails
<1>2. DoneInv' /\ PlanInv'  BY <1>1 DEF ChangeInv, DoneInv, PlanInv
<1>3. CASE ListReply
  <2>1. jmList' = [at |-> "replied", rows |-> jmServer, dirty |-> FALSE] /\ UNCHANGED <<jmCache, jmLast>>  BY <1>3 DEF ListReply
  <2>2. jmList' \in ListReplies /\ jmList'.rows = jmServer  BY <2>1 DEF ListReplies, ChangeInv, JmapMailType
  <2>3. JmapMailType' /\ LastInv'  BY <1>1, <2>1, <2>2 DEF ChangeInv, JmapMailType, LastInv
  <2>. QED  BY <1>2, <2>3 DEF ChangeInv
<1>4. CASE ListFails
  <2>1. JmapMailType' /\ LastInv'  BY <1>1, <1>4 DEF ListFails, ChangeInv, JmapMailType, LastInv
  <2>. QED  BY <1>2, <2>1 DEF ChangeInv
<1>5. CASE ListStore
  <2>1. jmList \in ListReplies /\ jmList # NoReply /\ jmList.rows \in Held
    <3>1. jmList \in ListReplies  BY <1>5 DEF ListStore, ChangeInv, JmapMailType, NoReply
    <3>. QED  BY <3>1, NotNothing DEF ListReplies
  <2>2. \A m \in JmapIds : jmCache'[m] \in {jmList.rows[m].version, 0, jmCache[m]}  BY <1>5 DEF ListStore, Inserted
  <2>3. jmLast' = IF jmList.dirty THEN [m \in JmapIds |-> 0] ELSE jmLast  BY <1>5 DEF ListStore
  <2>4. \A m \in JmapIds : /\ jmList.rows[m].version \in Nat /\ jmCache[m] \in Nat
                           /\ jmLast[m] \in Nat /\ jmServer[m].version \in Nat
    BY <2>1, HeldType DEF ChangeInv, JmapMailType
  <2>5. jmCache' \in [JmapIds -> Nat]
    <3>1. \A m \in JmapIds : jmCache'[m] \in Nat  BY <2>2, <2>4
    <3>2. DOMAIN jmCache' = JmapIds /\ jmCache' = [m \in JmapIds |-> jmCache'[m]]  BY <1>5 DEF ListStore, Inserted
    <3>. QED  BY <3>1, <3>2
  <2>6. jmLast' \in [JmapIds -> Nat]  BY <2>3 DEF ChangeInv, JmapMailType
  <2>7. JmapMailType'  BY <1>1, <1>5, <2>5, <2>6 DEF ListStore, ChangeInv, JmapMailType
  <2>8. LastInv'
    <3>. SUFFICES ASSUME NEW m \in JmapIds
                  PROVE  jmServer[m].version >= jmLast'[m] /\ (jmCache'[m] # 0 => jmCache'[m] >= jmLast'[m])
      BY <1>1, <1>5 DEF ListStore, LastInv
    <3>1. CASE jmList.dirty  BY <2>2, <2>3, <2>4, <3>1
    <3>2. CASE ~jmList.dirty  BY <2>1, <2>2, <2>3, <2>4, <3>2 DEF ChangeInv, LastInv
    <3>. QED  BY <3>1, <3>2
  <2>. QED  BY <1>2, <2>7, <2>8 DEF ChangeInv
<1>. QED  BY <1>3, <1>4, <1>5

(* What a JMAP change reports done the server confirmed, it touches no member out of view, and no row that was
   changed is shown from before (mutation.rs: execute_planned_action; mailbox.rs: action_rows; read.rs: list). *)
THEOREM JmapChangesAreTrue == JmapMailSpec => []JmapChangeIsTrue
<1>1. JmapMailInit => ChangeInv
  <2>. SUFFICES ASSUME JmapMailInit PROVE ChangeInv  OBVIOUS
  <2>1. jmServer \in Held  BY DEF JmapMailInit, Held, JmapBoxes
  <2>2. \A m \in JmapIds : jmServer[m].version \in Nat  BY <2>1, HeldType
  <2>. QED  BY <2>1, <2>2 DEF JmapMailInit, ChangeInv, JmapMailType, LastInv, DoneInv, PlanInv
<1>2. ChangeInv /\ [JmapMailNext]_jmapMailVars => ChangeInv'
  <2>1. ChangeInv /\ JmapMailNext => ChangeInv'
    BY ForeignKeeps, ListKeeps, StartKeeps, SendKeeps, EndKeeps, ToldKeeps DEF JmapMailNext
  <2>2. ChangeInv /\ UNCHANGED jmapMailVars => ChangeInv'  BY DEF ChangeInv, JmapMailType, LastInv, DoneInv, PlanInv, jmapMailVars
  <2>. QED  BY <2>1, <2>2
<1>3. ChangeInv => JmapChangeIsTrue
  <2>. SUFFICES ASSUME ChangeInv PROVE JmapChangeIsTrue  OBVIOUS
  <2>1. jmChange.at # "none" => jmChange # NoChange  BY DEF NoChange
  <2>2. jmChange.at = "told" => \A m \in jmChange.done : jmServer[m].version > jmChange.seen[m].version
    <3>. SUFFICES ASSUME jmChange.at = "told", NEW m \in jmChange.done
                  PROVE  jmServer[m].version > jmChange.seen[m].version
      OBVIOUS
    <3>1. m \in JmapIds  BY SendingIsChange DEF Changes
    <3>. QED  BY <2>1, <3>1 DEF ChangeInv, DoneInv
  <2>3. \A m \in JmapIds : Messages[m] >= jmLast[m]
    <3>. SUFFICES ASSUME NEW m \in JmapIds PROVE Messages[m] >= jmLast[m]  OBVIOUS
    <3>. QED  BY DEF Messages, ChangeInv, LastInv
  <2>. QED  BY <2>1, <2>2, <2>3 DEF JmapChangeIsTrue, ChangeInv, PlanInv
<1>. QED  BY <1>1, <1>2, <1>3, PTL DEF JmapMailSpec

------------------------------------
(* The event stream. *)
Pushed == {"connected", "change", "rejected"}
PushType == /\ jhServer \in Nat /\ jhKnown \in Nat /\ jhListed \in Nat /\ jhTaught \in BOOLEAN
            /\ jhWire \in Seq(Nat) /\ jhChannel \in Seq(Pushed) /\ jhOwes \in BOOLEAN
\* What was announced last is what the server holds, only a stream that is open has announcements
\* to read, and only a stream that ended was refused.
WireInv == /\ jhWire # <<>> => jhStream = "open" /\ jhWire[Len(jhWire)] = jhServer
           /\ jhStream # "ended" => \A i \in 1..Len(jhChannel) : jhChannel[i] # "rejected"
\* While the stream is open, what the server holds is listed, or on its way to the panel.
NewsInv == /\ ~jhTaught => jhKnown = jhListed
           /\ jhStream = "open" /\ ~jhTaught => jhOwes \/ jhChannel # <<>> \/ jhWire # <<>> \/ jhKnown = jhServer
PushInv == PushType /\ WireInv /\ NewsInv

LEMMA Announce ==
  ASSUME NEW S, NEW s \in Seq(S), NEW x \in S
  PROVE  /\ Append(s, x) \in Seq(S) /\ Append(s, x) # <<>> /\ Append(s, x)[Len(Append(s, x))] = x
         /\ \A i \in 1..Len(Append(s, x)) : Append(s, x)[i] = x \/ (i \in 1..Len(s) /\ Append(s, x)[i] = s[i])
OBVIOUS

LEMMA Read ==
  ASSUME NEW S, NEW s \in Seq(S), s # <<>>
  PROVE  /\ Tail(s) \in Seq(S) /\ Head(s) = s[1]
         /\ Tail(s) = <<>> => s[Len(s)] = Head(s)
         /\ Tail(s) # <<>> => Tail(s)[Len(Tail(s))] = s[Len(s)]
<1>1. Len(s) \in Nat /\ Len(s) > 0 /\ Len(Tail(s)) = Len(s) - 1 /\ Tail(s) \in Seq(S) /\ Head(s) = s[1]  OBVIOUS
<1>2. \A i \in 1..Len(Tail(s)) : Tail(s)[i] = s[i + 1]  OBVIOUS
<1>3. Tail(s) = <<>> => Len(s) = 1
  <2>1. Len(<<>>) = 0  OBVIOUS
  <2>2. Tail(s) = <<>> => Len(Tail(s)) = 0  BY <2>1
  <2>. QED  BY <1>1, <2>2
<1>4. Tail(s) # <<>> => Len(Tail(s)) > 0  BY <1>1
<1>. QED  BY <1>1, <1>2, <1>3, <1>4

LEMMA Nothing == \A S : <<>> \in Seq(S)
OBVIOUS

\* Nothing but what the panel is to hear is in the channel of a stream that did not end.

LEMMA PushStep == PushInv /\ [PushNext]_pushVars => PushInv'
<1>. SUFFICES ASSUME PushInv, [PushNext]_pushVars PROVE PushInv'  OBVIOUS
<1>a. PushType /\ WireInv /\ NewsInv  BY DEF PushInv
<1>1. CASE ServerChanges
  <2>1. CASE jhStream = "open"
    <3>1. jhServer' \in Nat /\ jhWire' = Append(jhWire, jhServer')  BY <1>a, <1>1, <2>1 DEF ServerChanges, PushType
    <3>0. PICK x \in Nat : x = jhServer' /\ jhWire' = Append(jhWire, x)  BY <3>1
    <3>2. jhWire' \in Seq(Nat) /\ jhWire' # <<>> /\ jhWire'[Len(jhWire')] = jhServer'  BY <1>a, <3>0, Announce DEF PushType
    <3>3. UNCHANGED <<jhKnown, jhListed, jhTaught, jhStream, jhChannel, jhOwes>>  BY <1>1 DEF ServerChanges
    <3>. QED  BY <1>a, <2>1, <3>1, <3>2, <3>3 DEF PushInv, PushType, WireInv, NewsInv
  <2>2. CASE jhStream # "open"  BY <1>a, <1>1, <2>2 DEF ServerChanges, PushInv, PushType, WireInv, NewsInv
  <2>. QED  BY <2>1, <2>2
<1>2. CASE Watch \/ Reconnect \/ RetireStream \/ CloseStream
  <2>1. /\ jhStream' \in {"connecting", "ended", "off"} /\ (jhWire' = <<>> \/ jhWire' = jhWire)
        /\ jhStream # "open" => jhWire' = <<>>
        /\ jhStream = "open" => jhWire' = <<>>
        /\ jhChannel' = <<>> \/ (jhChannel' = jhChannel /\ (jhStream' = "ended" \/ jhStream # "ended"))
    BY <1>a, <1>2 DEF Watch, Reconnect, RetireStream, CloseStream, WireInv
  <2>2. UNCHANGED <<jhServer, jhKnown, jhListed, jhTaught, jhOwes>>  BY <1>2 DEF Watch, Reconnect, RetireStream, CloseStream
  <2>3. jhWire' = <<>> /\ jhWire' \in Seq(Nat) /\ jhChannel' \in Seq(Pushed)  BY <1>a, <2>1, Nothing DEF PushType
  <2>4. PushType'  BY <1>a, <2>2, <2>3 DEF PushType
  <2>5. WireInv'  BY <1>a, <2>1, <2>3 DEF WireInv
  <2>. QED  BY <1>a, <2>1, <2>2, <2>4, <2>5 DEF PushInv, NewsInv
<1>3. CASE Connect
  <2>1. /\ jhStream = "connecting" /\ jhStream' = "open" /\ jhWire' = <<>> /\ jhChannel' = Append(jhChannel, "connected")
        /\ UNCHANGED <<jhServer, jhKnown, jhListed, jhTaught, jhOwes>>
    BY <1>3 DEF Connect, Announced
  <2>2. /\ jhChannel' \in Seq(Pushed) /\ jhChannel' # <<>>
        /\ \A i \in 1..Len(jhChannel') : jhChannel'[i] = "connected" \/ (i \in 1..Len(jhChannel) /\ jhChannel'[i] = jhChannel[i])
    BY <1>a, <2>1, Announce DEF PushType, Pushed
  <2>3. jhWire' \in Seq(Nat)  BY <2>1, Nothing
  <2>4. PushType' /\ WireInv'  BY <1>a, <2>1, <2>2, <2>3 DEF PushType, WireInv
  <2>. QED  BY <1>a, <2>1, <2>2, <2>4 DEF PushInv, NewsInv
<1>4. ASSUME NEW l \in BOOLEAN, NEW k \in BOOLEAN, LoseConnection(l, k) PROVE PushInv'
  <2>1. /\ jhStream \in {"connecting", "open"} /\ jhStream' = "waiting" /\ jhWire' = <<>>
        /\ UNCHANGED <<jhServer, jhKnown, jhListed, jhTaught, jhChannel, jhOwes>>
    BY <1>4 DEF LoseConnection
  <2>2. jhWire' \in Seq(Nat)  BY <2>1, Nothing
  <2>. QED  BY <1>a, <2>1, <2>2 DEF PushInv, PushType, WireInv, NewsInv
<1>5. CASE RefuseStream
  <2>1. /\ jhStream' = "ended" /\ jhStream # "open" /\ jhChannel' \in Seq(Pushed)
        /\ UNCHANGED <<jhServer, jhKnown, jhListed, jhTaught, jhWire, jhOwes>>
    BY <1>a, <1>5, Announce DEF RefuseStream, PushType, Pushed
  <2>. QED  BY <1>a, <2>1 DEF PushInv, PushType, WireInv, NewsInv
<1>6. CASE ReadEvent
  <2>1. /\ jhStream = "open" /\ jhWire # <<>> /\ jhWire' = Tail(jhWire)
        /\ UNCHANGED <<jhServer, jhKnown, jhListed, jhTaught, jhStream, jhOwes>>
    BY <1>6 DEF ReadEvent
  <2>2. /\ jhWire' \in Seq(Nat)
        /\ jhWire' # <<>> => jhWire'[Len(jhWire')] = jhServer
        /\ jhWire' = <<>> => Head(jhWire) = jhServer
    BY <1>a, <2>1, Read DEF PushType, WireInv
  <2>3. CASE UNCHANGED jhChannel /\ Head(jhWire) = jhKnown
    <3>1. PushType' /\ WireInv'  BY <1>a, <2>1, <2>2, <2>3 DEF PushType, WireInv
    <3>. QED  BY <1>a, <2>1, <2>2, <2>3, <3>1 DEF PushInv, NewsInv
  <2>4. CASE jhChannel' = Append(jhChannel, "change")
    <3>1. /\ jhChannel' \in Seq(Pushed) /\ jhChannel' # <<>>
          /\ \A i \in 1..Len(jhChannel') : jhChannel'[i] = "change" \/ (i \in 1..Len(jhChannel) /\ jhChannel'[i] = jhChannel[i])
      BY <1>a, <2>4, Announce DEF PushType, Pushed
    <3>2. PushType' /\ WireInv'  BY <1>a, <2>1, <2>2, <3>1 DEF PushType, WireInv
    <3>. QED  BY <1>a, <2>1, <3>1, <3>2 DEF PushInv, NewsInv
  <2>. QED  BY <1>6, <2>3, <2>4 DEF ReadEvent
<1>7. CASE Poll
  <2>1. /\ jhChannel # <<>> /\ jhChannel' = <<>> /\ jhOwes' = (jhOwes \/ Head(jhChannel) # "rejected")
        /\ UNCHANGED <<jhServer, jhKnown, jhListed, jhTaught, jhStream, jhWire>>
    BY <1>7 DEF Poll
  <2>2. jhChannel' \in Seq(Pushed) /\ Len(jhChannel') = 0  BY <2>1, Nothing
  <2>3. Head(jhChannel) = jhChannel[1] /\ 1 \in 1..Len(jhChannel)  BY <1>a, <2>1 DEF PushType
  <2>4. jhStream # "ended" => jhOwes'  BY <1>a, <2>1, <2>3 DEF WireInv
  <2>5. PushType' /\ WireInv'
    <3>1. jhOwes' \in BOOLEAN  BY <2>1
    <3>2. PushType'  BY <1>a, <2>1, <2>2, <3>1 DEF PushType
    <3>. QED  BY <1>a, <2>1, <2>2, <3>2 DEF WireInv
  <2>. QED  BY <1>a, <2>1, <2>4, <2>5 DEF PushInv, NewsInv
<1>8. CASE Refresh  BY <1>a, <1>8 DEF Refresh, PushInv, PushType, WireInv, NewsInv
<1>9. CASE OtherReply  BY <1>a, <1>9 DEF OtherReply, PushInv, PushType, WireInv, NewsInv
<1>10. CASE UNCHANGED pushVars  BY <1>a, <1>10 DEF pushVars, PushInv, PushType, WireInv, NewsInv
<1>. QED  BY <1>1, <1>2, <1>3, <1>4, <1>5, <1>6, <1>7, <1>8, <1>9, <1>10 DEF PushNext

(* Once every announced event was taken in, the panel has listed what the server holds, unless another reply told
   the backend of the new state first (stream.rs: run_scoped, connection, change_plan). *)
THEOREM UntaughtIsReached == PushSpec => []PushReachesUntaught
<1>1. PushInit => PushInv
  <2>. SUFFICES ASSUME PushInit PROVE PushInv  OBVIOUS
  <2>1. jhWire \in Seq(Nat) /\ jhChannel \in Seq(Pushed) /\ Len(jhChannel) = 0  BY Nothing DEF PushInit
  <2>2. PushType  BY <2>1 DEF PushInit, PushType
  <2>. QED  BY <2>1, <2>2 DEF PushInit, PushInv, WireInv, NewsInv
<1>2. PushInv => PushReachesUntaught  BY DEF PushInv, NewsInv, PushReachesUntaught, Quiet
<1>. QED  BY <1>1, <1>2, PushStep, PTL DEF PushSpec

(* Saving and sending. *)
ComposeSteps == {"idle", "upload", "import", "imported", "refused", "cleaning"}
ComposeType == /\ jcStep \in ComposeSteps /\ jcSending \in BOOLEAN /\ jcNext \in Nat /\ jcNext >= 1
               /\ jcOld \in 0..jcNext /\ jcNew \in {0, jcNext}
               /\ jcDrafts \subseteq 1..jcNext /\ jcSent \subseteq 1..jcNext /\ jcDoomed \subseteq 1..jcNext
\* The draft under way.
DraftInv == /\ jcStep \in {"upload", "import"} => jcNext \notin jcDrafts \cup jcSent \cup jcDoomed
            /\ jcStep \in {"imported", "refused", "cleaning"} => jcNew = jcNext
            /\ jcStep = "imported" => jcNext \in jcDrafts \ jcDoomed
            /\ jcStep \in {"imported", "refused"} => jcNext \notin jcSent
            /\ jcStep = "refused" => jcSending
            /\ jcStep = "cleaning" => IF jcSending THEN jcNext \in jcSent
                                      ELSE jcNext \notin jcSent /\ jcNext \in jcDrafts \ jcDoomed
            /\ jcStep \in {"upload", "import", "imported", "refused"} => jcOld < jcNext
\* A copy of the message that no destroy is after; not the one under way until that one is safe.
CopyInv == jcOld # 0 => \E id \in (jcDrafts \ jcDoomed) \cup jcSent :
                          id >= jcOld /\ (jcStep \notin {"idle", "cleaning"} => id # jcNext)
ToldRight == jcStep = "idle" => /\ jcTold = "sent" => jcNext \in jcSent
                                /\ jcTold = "failed" => jcNext \notin jcSent
ComposeInv == ComposeType /\ DraftInv /\ CopyInv /\ ToldRight

LEMMA ComposeStep == ComposeInv /\ [ComposeNext]_composeVars => ComposeInv'
<1>. SUFFICES ASSUME ComposeInv, [ComposeNext]_composeVars PROVE ComposeInv'  OBVIOUS
<1>. USE DEF ComposeInv, ComposeType, DraftInv, CopyInv, ToldRight, ComposeSteps, Reply, Dropped, Doomed, Unanswered
<1>1. ASSUME NEW send \in BOOLEAN, StartCompose(send) PROVE ComposeInv'  BY <1>1 DEF StartCompose
<1>2. CASE Upload  BY <1>2 DEF Upload
<1>3. CASE Import
  <2>1. CASE UNCHANGED jcDrafts /\ Reply("failed", jcOld)  BY <1>3, <2>1 DEF Import
  <2>2. CASE jcDrafts' = jcDrafts \cup {jcNext} /\ Reply("failed", jcOld)  BY <1>3, <2>2 DEF Import
  <2>3. CASE jcDrafts' = jcDrafts \cup {jcNext} /\ jcStep' = "imported" /\ jcNew' = jcNext /\ UNCHANGED <<jcOld, jcTold>>
    <3>1. jcStep = "import" /\ UNCHANGED <<jcSending, jcSent, jcDoomed, jcNext>>  BY <1>3 DEF Import
    <3>2. ComposeType' /\ DraftInv' /\ ToldRight'  BY <2>3, <3>1
    <3>3. CopyInv'  BY <2>3, <3>1
    <3>. QED  BY <3>2, <3>3
  <2>. QED  BY <1>3, <2>1, <2>2, <2>3 DEF Import
<1>4. CASE Save  BY <1>4 DEF Save
<1>5. CASE JmapSubmit
  <2>0. jcStep = "imported" /\ jcSending /\ UNCHANGED <<jcSending, jcNext>>  BY <1>5 DEF JmapSubmit
  <2>1. CASE /\ jcSent' = jcSent \cup {jcNew} /\ jcDrafts' = jcDrafts \ {jcNew}
             /\ jcStep' = "cleaning" /\ jcDoomed' = jcDoomed \cup Doomed(jcOld) /\ UNCHANGED <<jcOld, jcNew, jcTold>>
    BY <2>0, <2>1
  <2>2. CASE /\ jcSent' = jcSent \cup {jcNew} /\ jcDrafts' = jcDrafts \ {jcNew}
             /\ Reply(Unanswered, jcOld) /\ UNCHANGED jcDoomed
    <3>1. CopyInv'
      <4>1. (jcDrafts \ jcDoomed) \cup jcSent \subseteq (jcDrafts' \ jcDoomed') \cup jcSent'  BY <2>2
      <4>. QED  BY <2>2, <4>1
    <3>. QED  BY <2>0, <2>2, <3>1
  <2>3. CASE /\ UNCHANGED <<jcSent, jcDrafts>> /\ jcStep' = "refused" /\ jcDoomed' = jcDoomed \cup {jcNew}
             /\ UNCHANGED <<jcOld, jcNew, jcTold>>
    BY <2>0, <2>3
  <2>4. CASE UNCHANGED <<jcSent, jcDrafts>> /\ Reply(Unanswered, jcOld) /\ UNCHANGED jcDoomed  BY <2>0, <2>4
  <2>. QED  BY <1>5, <2>1, <2>2, <2>3, <2>4 DEF JmapSubmit
<1>6. CASE EndCompose
  <2>1. CASE Reply(Dropped, jcOld) \/ Reply("cancelled", jcOld)  BY <1>6, <2>1 DEF EndCompose
  <2>2. CASE jcSending /\ Reply("sent", 0)  BY <1>6, <2>2 DEF EndCompose
  <2>3. CASE ~jcSending /\ Reply("saved", jcNew)  BY <1>6, <2>3 DEF EndCompose
  <2>. QED  BY <1>6, <2>1, <2>2, <2>3 DEF EndCompose
<1>7. CASE RefuseCompose  BY <1>7 DEF RefuseCompose
<1>8. CASE DropCompose
  <2>1. CASE Reply(Dropped, jcOld)  BY <1>8, <2>1 DEF DropCompose
  <2>2. CASE Reply("cancelled", jcOld)  BY <1>8, <2>2 DEF DropCompose
  <2>. QED  BY <1>8, <2>1, <2>2 DEF DropCompose
<1>9. ASSUME NEW id \in jcDoomed, Destroy(id) PROVE ComposeInv'  BY <1>9 DEF Destroy
<1>10. CASE UNCHANGED composeVars  BY <1>10 DEF composeVars
<1>. QED  BY <1>1, <1>2, <1>3, <1>4, <1>5, <1>6, <1>7, <1>8, <1>9, <1>10 DEF ComposeNext

(* A message once saved over JMAP is never lost, and a send is reported sent only when it was submitted, failed
   only when it was not (mutation.rs: compose, destroy). *)
THEOREM ComposedIsSafe == ComposeSpec => []ComposeIsSafe
<1>1. ComposeInit => ComposeInv
  <2>. SUFFICES ASSUME ComposeInit PROVE ComposeInv  OBVIOUS
  <2>1. ComposeType
    <3>1. jcStep \in ComposeSteps  BY DEF ComposeInit, ComposeSteps
    <3>2. jcSending \in BOOLEAN  BY DEF ComposeInit
    <3>3. jcNext = 1 /\ jcOld = 0 /\ jcNew = 0  BY DEF ComposeInit
    <3>4. jcDrafts \subseteq 1..jcNext /\ jcSent \subseteq 1..jcNext /\ jcDoomed \subseteq 1..jcNext  BY DEF ComposeInit
    <3>. QED  BY <3>1, <3>2, <3>3, <3>4 DEF ComposeType
  <2>. QED  BY <2>1 DEF ComposeInit, ComposeInv, DraftInv, CopyInv, ToldRight
<1>2. ComposeInv => ComposeIsSafe  BY DEF ComposeInv, ComposeType, CopyInv, ToldRight, ComposeIsSafe
<1>. QED  BY <1>1, <1>2, ComposeStep, PTL DEF ComposeSpec

------------------------------------
(* Paging. *)
Descending(s) == \A i, j \in 1..Len(s) : i < j => s[i] > s[j]
PagesType == /\ jpList \in Seq(Nat) /\ jpCount \in [arrived : Nat, removed : Nat] /\ jpMoved \in BOOLEAN
             /\ ~jpMoved => jpSeen \in Seq(Nat) /\ jpToken \in [position : Int, anchor : Nat]
\* The newest is first, and what arrives is newer than all that is there.
ListInv == /\ Descending(jpList)
           /\ \A i \in 1..Len(jpList) : 1 <= jpList[i] /\ jpList[i] <= 4 + jpCount.arrived
\* The rows seen go down to the anchor, and miss nothing on the way that was there at the start.
SeenInv == ~jpMoved =>
    /\ Descending(jpSeen)
    /\ jpToken # NoPage => IF jpToken.anchor = 0 THEN jpSeen = <<>> /\ jpToken.position = 0
                           ELSE jpSeen # <<>> /\ jpSeen[Len(jpSeen)] = jpToken.anchor
    /\ \A i \in 1..Len(jpList) :
          jpList[i] < 5 /\ (jpToken = NoPage \/ (jpToken.anchor # 0 /\ jpList[i] >= jpToken.anchor)) =>
             \E k \in 1..Len(jpSeen) : jpSeen[k] = jpList[i]
PagesInv == PagesType /\ ListInv /\ SeenInv

LEMMA Removed ==
  ASSUME NEW s \in Seq(Nat), NEW i \in 1..Len(s)
  PROVE  /\ RemoveAt(s, i) \in Seq(Nat) /\ Len(RemoveAt(s, i)) = Len(s) - 1
         /\ \A k \in 1..(Len(s) - 1) : RemoveAt(s, i)[k] = IF k < i THEN s[k] ELSE s[k + 1]
<1>1. Len(s) \in Nat /\ i \in Nat /\ 1 <= i /\ i <= Len(s)  OBVIOUS
<1>. DEFINE a == SubSeq(s, 1, i - 1)
            b == SubSeq(s, i + 1, Len(s))
<1>2. a \in Seq(Nat) /\ Len(a) = i - 1 /\ \A k \in 1..(i - 1) : a[k] = s[k]  BY <1>1
<1>3. b \in Seq(Nat) /\ Len(b) = Len(s) - i /\ \A k \in 1..(Len(s) - i) : b[k] = s[i + k]  BY <1>1
<1>4. RemoveAt(s, i) = a \o b  BY DEF RemoveAt
<1>. HIDE DEF a, b
<1>0. /\ a \o b \in Seq(Nat) /\ Len(a \o b) = Len(a) + Len(b)
      /\ \A k \in 1..Len(a) + Len(b) : (a \o b)[k] = IF k <= Len(a) THEN a[k] ELSE b[k - Len(a)]
  BY <1>2, <1>3, ConcatProperties
<1>. DEFINE c == a \o b
<1>. HIDE DEF c
<1>5. c \in Seq(Nat) /\ Len(c) = Len(s) - 1  BY <1>0, <1>1, <1>2, <1>3 DEF c
<1>6. ASSUME NEW k \in 1..(Len(s) - 1)
      PROVE  c[k] = IF k < i THEN s[k] ELSE s[k + 1]
  <2>0. k \in 1..Len(a) + Len(b) /\ k \in Nat  BY <1>1, <1>2, <1>3
  <2>9. c[k] = IF k <= Len(a) THEN a[k] ELSE b[k - Len(a)]  BY <1>0, <2>0 DEF c
  <2>1. CASE k < i
    <3>1. k \in 1..(i - 1) /\ k <= i - 1  BY <1>1, <2>0, <2>1
    <3>. QED  BY <1>2, <2>1, <2>9, <3>1
  <2>2. CASE k >= i
    <3>1. c[k] = b[k - (i - 1)]
      <4>1. ~(k <= i - 1)  BY <1>1, <2>0, <2>2
      <4>. QED  BY <1>2, <2>9, <4>1
    <3>2. k - (i - 1) \in 1..(Len(s) - i)  BY <1>1, <2>2
    <3>3. i + (k - (i - 1)) = k + 1 /\ ~(k < i)  BY <1>1, <2>0, <2>2
    <3>. QED  BY <1>3, <3>1, <3>2, <3>3
  <2>. QED  BY <1>1, <2>0, <2>1, <2>2
<1>. QED  BY <1>4, <1>5, <1>6 DEF c

LEMMA CountsOn ==
  ASSUME jpCount \in [arrived : Nat, removed : Nat]
  PROVE  /\ [jpCount EXCEPT !.removed = @ + 1] \in [arrived : Nat, removed : Nat]
         /\ [jpCount EXCEPT !.removed = @ + 1].arrived = jpCount.arrived
         /\ [jpCount EXCEPT !.arrived = @ + 1] \in [arrived : Nat, removed : Nat]
         /\ [jpCount EXCEPT !.arrived = @ + 1].arrived = jpCount.arrived + 1
OBVIOUS

LEMMA Put ==
  ASSUME NEW s \in Seq(Nat), NEW x \in Nat
  PROVE  /\ <<x>> \o s \in Seq(Nat) /\ Len(<<x>> \o s) = Len(s) + 1 /\ (<<x>> \o s)[1] = x
         /\ \A k \in 1..Len(<<x>> \o s) : k = 1 \/ (k - 1 \in 1..Len(s) /\ (<<x>> \o s)[k] = s[k - 1])
<1>1. <<x>> \in Seq(Nat) /\ Len(<<x>>) = 1 /\ <<x>>[1] = x /\ Len(s) \in Nat  OBVIOUS
<1>2. /\ <<x>> \o s \in Seq(Nat) /\ Len(<<x>> \o s) = 1 + Len(s)
      /\ \A k \in 1..1 + Len(s) : (<<x>> \o s)[k] = IF k <= 1 THEN <<x>>[k] ELSE s[k - 1]
  BY <1>1, ConcatProperties
<1>. DEFINE t == <<x>> \o s
<1>. HIDE DEF t
<1>3. t \in Seq(Nat) /\ Len(t) = Len(s) + 1 /\ t[1] = x  BY <1>1, <1>2 DEF t
<1>4. ASSUME NEW k \in 1..Len(t), k # 1 PROVE k - 1 \in 1..Len(s) /\ t[k] = s[k - 1]
  <2>1. k \in 1..1 + Len(s) /\ ~(k <= 1) /\ k - 1 \in 1..Len(s)  BY <1>1, <1>3, <1>4
  <2>. QED  BY <1>2, <2>1 DEF t
<1>. QED  BY <1>3, <1>4 DEF t

LEMMA LeavesKeeps ==
  ASSUME PagesInv, NEW i \in DOMAIN jpList, MailLeaves(i)
  PROVE  PagesInv'
<1>1. jpList \in Seq(Nat) /\ i \in 1..Len(jpList) /\ Len(jpList) \in Nat  BY DEF PagesInv, PagesType
<1>2. /\ jpList' \in Seq(Nat) /\ Len(jpList') = Len(jpList) - 1
      /\ \A k \in 1..Len(jpList') : jpList'[k] = IF k < i THEN jpList[k] ELSE jpList[k + 1]
  BY <1>1, Removed DEF MailLeaves
<1>3. /\ UNCHANGED <<jpSeen, jpToken, jpMoved>> /\ jpCount' = [jpCount EXCEPT !.removed = @ + 1]  BY DEF MailLeaves
<1>4. jpCount' \in [arrived : Nat, removed : Nat] /\ jpCount'.arrived = jpCount.arrived  BY <1>3, CountsOn DEF PagesInv, PagesType
<1>a. \A k \in 1..Len(jpList') : k \in 1..Len(jpList) /\ k + 1 \in 1..Len(jpList) /\ k \in Nat  BY <1>1, <1>2
<1>5. \A k \in 1..Len(jpList') : \E h \in 1..Len(jpList) : jpList'[k] = jpList[h]  BY <1>2, <1>a
<1>6. Descending(jpList')
  <2>. SUFFICES ASSUME NEW h \in 1..Len(jpList'), NEW k \in 1..Len(jpList'), h < k PROVE jpList'[h] > jpList'[k]  BY DEF Descending
  <2>. DEFINE x == IF h < i THEN h ELSE h + 1
              y == IF k < i THEN k ELSE k + 1
  <2>1. x \in 1..Len(jpList) /\ y \in 1..Len(jpList) /\ x < y  BY <1>1, <1>a
  <2>2. jpList'[h] = jpList[x] /\ jpList'[k] = jpList[y]  BY <1>2
  <2>. HIDE DEF x, y
  <2>. QED  BY <2>1, <2>2 DEF PagesInv, ListInv, Descending
<1>7. ListInv'  BY <1>4, <1>5, <1>6 DEF PagesInv, ListInv
<1>8. SeenInv'  BY <1>3, <1>5 DEF PagesInv, SeenInv
<1>. QED  BY <1>2, <1>3, <1>4, <1>7, <1>8 DEF PagesInv, PagesType

LEMMA ArrivesKeeps ==
  ASSUME PagesInv, MailArrives
  PROVE  PagesInv'
<1>. DEFINE x == 5 + jpCount.arrived
<1>1. jpList \in Seq(Nat) /\ Len(jpList) \in Nat /\ jpCount.arrived \in Nat /\ x \in Nat  BY DEF PagesInv, PagesType
<1>2. jpList' = <<x>> \o jpList  BY DEF MailArrives
<1>. HIDE DEF x
<1>3. jpList' \in Seq(Nat) /\ Len(jpList') = Len(jpList) + 1 /\ jpList'[1] = x  BY <1>1, <1>2, Put
<1>4. \A k \in 1..Len(jpList') : k = 1 \/ (k - 1 \in 1..Len(jpList) /\ jpList'[k] = jpList[k - 1])  BY <1>1, <1>2, Put
<1>5. /\ UNCHANGED <<jpSeen, jpToken, jpMoved>> /\ jpCount' = [jpCount EXCEPT !.arrived = @ + 1]  BY DEF MailArrives
<1>6. jpCount' \in [arrived : Nat, removed : Nat] /\ jpCount'.arrived = jpCount.arrived + 1
  BY <1>5, CountsOn DEF PagesInv, PagesType
<1>7. \A k \in 1..Len(jpList) : jpList[k] \in Nat /\ 1 <= jpList[k] /\ jpList[k] < x  BY <1>1 DEF PagesInv, ListInv, x
<1>8. Descending(jpList')
  <2>. SUFFICES ASSUME NEW h \in 1..Len(jpList'), NEW k \in 1..Len(jpList'), h < k PROVE jpList'[h] > jpList'[k]  BY DEF Descending
  <2>1. k - 1 \in 1..Len(jpList) /\ jpList'[k] = jpList[k - 1]  BY <1>4
  <2>2. CASE h = 1  BY <1>1, <1>3, <1>7, <2>1, <2>2
  <2>3. CASE h # 1
    <3>1. h - 1 \in 1..Len(jpList) /\ jpList'[h] = jpList[h - 1] /\ h - 1 < k - 1  BY <1>4, <2>3
    <3>. QED  BY <2>1, <3>1 DEF PagesInv, ListInv, Descending
  <2>. QED  BY <2>2, <2>3
<1>9. ListInv'
  <2>1. \A k \in 1..Len(jpList') : 1 <= jpList'[k] /\ jpList'[k] <= 4 + jpCount'.arrived
    <3>. SUFFICES ASSUME NEW k \in 1..Len(jpList') PROVE 1 <= jpList'[k] /\ jpList'[k] <= 4 + jpCount'.arrived  OBVIOUS
    <3>1. CASE k = 1  BY <1>1, <1>3, <1>6, <3>1 DEF x
    <3>2. CASE k # 1
      <4>1. k - 1 \in 1..Len(jpList) /\ jpList'[k] = jpList[k - 1]  BY <1>4, <3>2
      <4>2. jpList[k - 1] \in Nat /\ 1 <= jpList[k - 1] /\ jpList[k - 1] < 5 + jpCount.arrived  BY <1>7, <4>1 DEF x
      <4>. QED  BY <1>1, <1>6, <4>1, <4>2
    <3>. QED  BY <3>1, <3>2
  <2>. QED  BY <1>8, <2>1 DEF ListInv
<1>10. SeenInv'
  <2>1. \A k \in 1..Len(jpList') : jpList'[k] < 5 => k - 1 \in 1..Len(jpList) /\ jpList'[k] = jpList[k - 1]
    BY <1>1, <1>3, <1>4 DEF x
  <2>. QED  BY <1>5, <2>1 DEF PagesInv, SeenInv
<1>. QED  BY <1>3, <1>5, <1>6, <1>9, <1>10 DEF PagesInv, PagesType

LEMMA Start ==
  ASSUME PagesInv, ~jpMoved, jpToken # NoPage, jpToken.anchor = 0 \/ jpToken.anchor \in ToSet(jpList)
  PROVE  /\ StartOf(jpToken) \in 0..Len(jpList)
         /\ jpToken.anchor = 0 => StartOf(jpToken) = 0 /\ jpSeen = <<>>
         /\ jpToken.anchor # 0 => /\ StartOf(jpToken) \in 1..Len(jpList)
                                 /\ jpList[StartOf(jpToken)] = jpToken.anchor
                                 /\ jpSeen # <<>> /\ jpSeen[Len(jpSeen)] = jpToken.anchor
<1>1. jpList \in Seq(Nat) /\ Len(jpList) \in Nat /\ DOMAIN jpList = 1..Len(jpList)  BY DEF PagesInv, PagesType
<1>2. CASE jpToken.anchor = 0
  <2>1. jpToken.anchor \notin ToSet(jpList)  BY <1>1, <1>2 DEF ToSet, PagesInv, ListInv
  <2>2. StartOf(jpToken) = 0 /\ jpSeen = <<>>  BY <1>2, <2>1 DEF StartOf, PagesInv, SeenInv
  <2>. QED  BY <1>1, <1>2, <2>2
<1>3. CASE jpToken.anchor # 0
  <2>1. StartOf(jpToken) = CHOOSE i \in 1..Len(jpList) : jpList[i] = jpToken.anchor  BY <1>3 DEF StartOf
  <2>2. \E i \in 1..Len(jpList) : jpList[i] = jpToken.anchor  BY <1>1, <1>3 DEF ToSet
  <2>3. StartOf(jpToken) \in 1..Len(jpList) /\ jpList[StartOf(jpToken)] = jpToken.anchor  BY <2>1, <2>2
  <2>. QED  BY <1>1, <1>3, <2>3 DEF PagesInv, SeenInv
<1>. QED  BY <1>2, <1>3

LEMMA Page ==
  ASSUME PagesType, NEW start \in 0..Len(jpList)
  PROVE  /\ PageAt(start) \in Seq(Nat) /\ start + Len(PageAt(start)) <= Len(jpList)
         /\ \A k \in 1..Len(PageAt(start)) : PageAt(start)[k] = jpList[start + k]
         /\ PageAt(start) = <<>> => start = Len(jpList)
<1>. DEFINE end == IF start + PageSize < Len(jpList) THEN start + PageSize ELSE Len(jpList)
<1>1. jpList \in Seq(Nat) /\ Len(jpList) \in Nat /\ start \in Nat /\ PageSize \in Nat /\ PageSize > 0  BY PageBounds DEF PagesType
<1>2. end \in Nat /\ start <= end /\ end <= Len(jpList) /\ (end = start => start = Len(jpList))  BY <1>1
<1>3. PageAt(start) = SubSeq(jpList, start + 1, end)  BY DEF PageAt
<1>. HIDE DEF end
<1>4. \A i \in (start + 1)..end : jpList[i] \in Nat  BY <1>1, <1>2
<1>5. start + 1 \in Int /\ end \in Int  BY <1>1, <1>2
<1>6. /\ PageAt(start) \in Seq(Nat)
      /\ Len(PageAt(start)) = IF start + 1 <= end THEN end - (start + 1) + 1 ELSE 0
      /\ \A i \in 1..end - (start + 1) + 1 : PageAt(start)[i] = jpList[start + 1 + i - 1]
  BY <1>3, <1>4, <1>5, SubSeqProperties
<1>7. Len(PageAt(start)) = end - start  BY <1>1, <1>2, <1>6
<1>8. ASSUME NEW k \in 1..Len(PageAt(start)) PROVE PageAt(start)[k] = jpList[start + k]
  <2>1. k \in 1..end - (start + 1) + 1 /\ start + 1 + k - 1 = start + k  BY <1>1, <1>2, <1>7
  <2>. QED  BY <1>6, <2>1
<1>9. Len(<<>>) = 0  OBVIOUS
<1>10. PageAt(start) = <<>> => end = start  BY <1>1, <1>2, <1>7, <1>9
<1>. QED  BY <1>1, <1>2, <1>6, <1>7, <1>8, <1>10

LEMMA PageKeeps ==
  ASSUME PagesInv, NextJmapPage
  PROVE  PagesInv'
<1>. DEFINE start == StartOf(jpToken)
            rows == PageAt(start)
<1>1. /\ UNCHANGED <<jpList, jpCount>> /\ jpToken # NoPage
      /\ jpSeen' = jpSeen \o rows /\ jpToken' = NextToken(start, rows)
      /\ jpMoved' = (jpMoved \/ (jpToken.anchor # 0 /\ jpToken.anchor \notin ToSet(jpList)))
  BY DEF NextJmapPage
<1>2. ListInv'  BY <1>1 DEF PagesInv, ListInv, Descending
<1>3. CASE jpMoved'  BY <1>1, <1>2, <1>3 DEF PagesInv, PagesType, SeenInv
<1>4. CASE ~jpMoved'
  <2>. DEFINE old == jpSeen
              new == old \o rows
  <2>a. ~jpMoved /\ (jpToken.anchor = 0 \/ jpToken.anchor \in ToSet(jpList))  BY <1>1, <1>4
  <2>1. /\ ~jpMoved /\ (jpToken.anchor = 0 \/ jpToken.anchor \in ToSet(jpList))
        /\ jpList \in Seq(Nat) /\ Len(jpList) \in Nat /\ old \in Seq(Nat) /\ Len(old) \in Nat
        /\ jpToken.anchor \in Nat
    BY <2>a DEF PagesInv, PagesType
  <2>2. /\ start \in 0..Len(jpList)
        /\ jpToken.anchor = 0 => start = 0 /\ old = <<>>
        /\ jpToken.anchor # 0 => /\ start \in 1..Len(jpList) /\ jpList[start] = jpToken.anchor
                                /\ old # <<>> /\ old[Len(old)] = jpToken.anchor
    BY <1>1, <2>1, Start
  <2>3. /\ rows \in Seq(Nat) /\ Len(rows) \in Nat /\ start + Len(rows) <= Len(jpList)
        /\ \A k \in 1..Len(rows) : rows[k] = jpList[start + k]
        /\ rows = <<>> => start = Len(jpList)
    <3>. HIDE DEF start
    <3>1. PagesType /\ start \in 0..Len(jpList)  BY <2>2 DEF PagesInv
    <3>2. PageAt(start) \in Seq(Nat)  BY <3>1, Page
    <3>3. Len(PageAt(start)) \in Nat  BY <3>2
    <3>. QED  BY <3>1, <3>2, <3>3, Page
  <2>4. /\ new \in Seq(Nat) /\ Len(new) = Len(old) + Len(rows)
        /\ \A i \in 1..Len(old) + Len(rows) : new[i] = IF i <= Len(old) THEN old[i] ELSE rows[i - Len(old)]
    BY <2>1, <2>3, ConcatProperties
  <2>. DEFINE token == NextToken(start, rows)
  <2>5. \/ token = NoPage /\ start + Len(rows) >= Len(jpList)
        \/ /\ rows # <<>> /\ token = [position |-> start + Len(rows), anchor |-> rows[Len(rows)]] /\ start + Len(rows) < Len(jpList)
    <3>1. Last(rows) = rows[Len(rows)]  BY DEF Last
    <3>2. rows = <<>> => start + Len(rows) >= Len(jpList)  BY <2>2, <2>3
    <3>. QED  BY <2>1, <2>2, <2>3, <3>1, <3>2 DEF NextToken
  <2>6. jpSeen' = new /\ jpToken' = token  BY <1>1
  <2>7. Descending(jpList) /\ Descending(old) /\ \A i \in 1..Len(jpList) : jpList[i] \in Nat /\ 1 <= jpList[i]
    BY <2>1 DEF PagesInv, ListInv, SeenInv
  <2>8. \A i \in 1..Len(jpList) : jpList[i] < 5 /\ jpToken.anchor # 0 /\ jpList[i] >= jpToken.anchor =>
          \E k \in 1..Len(old) : old[k] = jpList[i]
    BY <2>1 DEF PagesInv, SeenInv
  <2>. HIDE DEF start, rows, old, new, token
  <2>9. rows # <<>> => Len(rows) >= 1 /\ Len(rows) \in 1..Len(rows) /\ rows[Len(rows)] \in Nat  BY <2>3
  <2>10. token \in [position : Int, anchor : Nat]  BY <2>2, <2>3, <2>5, <2>9 DEF NoPage
  <2>11. \A i \in 1..Len(new) : \/ i \in 1..Len(old) /\ new[i] = old[i]
                                \/ i > Len(old) /\ i - Len(old) \in 1..Len(rows) /\ new[i] = rows[i - Len(old)]
    <3>. SUFFICES ASSUME NEW i \in 1..Len(new)
                  PROVE  \/ i \in 1..Len(old) /\ new[i] = old[i]
                         \/ i > Len(old) /\ i - Len(old) \in 1..Len(rows) /\ new[i] = rows[i - Len(old)]
      OBVIOUS
    <3>1. i \in 1..Len(old) + Len(rows) /\ i \in Nat  BY <2>1, <2>3, <2>4
    <3>2. new[i] = IF i <= Len(old) THEN old[i] ELSE rows[i - Len(old)]  BY <2>4, <3>1
    <3>3. CASE i <= Len(old)  BY <2>1, <3>1, <3>2, <3>3
    <3>4. CASE i > Len(old)  BY <2>1, <2>3, <3>1, <3>2, <3>4
    <3>. QED  BY <2>1, <3>1, <3>3, <3>4
  <2>12. \A i \in 1..Len(rows) : start + i \in 1..Len(jpList) /\ rows[i] = jpList[start + i]
    BY <2>2, <2>3
  \* The rows of the page come below the rows seen.
  <2>13. Descending(new)
    <3>. SUFFICES ASSUME NEW i \in 1..Len(new), NEW j \in 1..Len(new), i < j PROVE new[i] > new[j]  BY DEF Descending
    <3>0. i \in Nat /\ j \in Nat  OBVIOUS
    <3>1. CASE j \in 1..Len(old) /\ new[j] = old[j]
      <4>1. i \in 1..Len(old) /\ new[i] = old[i]  BY <2>1, <2>11, <3>0, <3>1
      <4>. QED  BY <2>7, <3>1, <4>1 DEF Descending
    <3>2. CASE j > Len(old) /\ j - Len(old) \in 1..Len(rows) /\ new[j] = rows[j - Len(old)]
      <4>. DEFINE y == j - Len(old)
      <4>1. start + y \in 1..Len(jpList) /\ new[j] = jpList[start + y] /\ y \in Nat /\ y >= 1  BY <2>12, <3>2
      <4>2. CASE i > Len(old) /\ i - Len(old) \in 1..Len(rows) /\ new[i] = rows[i - Len(old)]
        <5>1. start + (i - Len(old)) \in 1..Len(jpList) /\ new[i] = jpList[start + (i - Len(old))]  BY <2>12, <4>2
        <5>2. start + (i - Len(old)) < start + y  BY <2>1, <2>2, <3>0
        <5>. QED  BY <2>7, <4>1, <5>1, <5>2 DEF Descending
      <4>3. CASE i \in 1..Len(old) /\ new[i] = old[i]
        <5>1. Len(old) >= 1 /\ Len(old) \in 1..Len(old) /\ old # <<>>  BY <2>1, <4>3
        <5>2. jpToken.anchor # 0  BY <2>2, <5>1
        <5>3. start \in 1..Len(jpList) /\ jpList[start] = jpToken.anchor /\ old[Len(old)] = jpToken.anchor  BY <2>2, <5>2
        <5>4. new[i] >= jpToken.anchor
          <6>1. CASE i = Len(old)  BY <2>1, <4>3, <5>3, <6>1
          <6>2. CASE i # Len(old)
            <7>1. i < Len(old)  BY <2>1, <4>3, <6>2
            <7>2. old[i] > old[Len(old)]  BY <2>7, <4>3, <5>1, <7>1 DEF Descending
            <7>3. old[i] \in Nat  BY <2>1, <4>3
            <7>. QED  BY <2>1, <4>3, <5>3, <7>2, <7>3
          <6>. QED  BY <6>1, <6>2
        <5>5. jpList[start] > jpList[start + y]
          <6>1. start < start + y  BY <2>2, <4>1
          <6>. QED  BY <2>7, <4>1, <5>3, <6>1 DEF Descending
        <5>6. new[i] \in Nat /\ jpList[start + y] \in Nat
          <6>1. old[i] \in Nat  BY <2>1, <4>3
          <6>2. jpList[start + y] \in Nat  BY <2>7, <4>1
          <6>. QED  BY <4>3, <6>1, <6>2
        <5>8. \A a, b, c \in Nat : a >= b /\ b > c => a > c  OBVIOUS
        <5>9. jpToken.anchor > jpList[start + y] /\ jpToken.anchor \in Nat  BY <2>1, <5>3, <5>5
        <5>. HIDE DEF y
        <5>7. new[i] > jpList[start + y]  BY <5>4, <5>6, <5>8, <5>9
        <5>. QED  BY <4>1, <5>7
      <4>. QED  BY <2>11, <4>2, <4>3
    <3>. QED  BY <2>11, <3>1, <3>2
  <2>14. token # NoPage => /\ token.anchor # 0 /\ new # <<>> /\ new[Len(new)] = token.anchor
                          /\ rows # <<>> /\ token.anchor = rows[Len(rows)]
    <3>. SUFFICES ASSUME token # NoPage
                  PROVE  /\ token.anchor # 0 /\ new # <<>> /\ new[Len(new)] = token.anchor
                         /\ rows # <<>> /\ token.anchor = rows[Len(rows)]
      OBVIOUS
    <3>1. rows # <<>> /\ token.anchor = rows[Len(rows)]  BY <2>5
    <3>2. Len(rows) \in 1..Len(rows) /\ Len(rows) >= 1  BY <2>9, <3>1
    <3>3. start + Len(rows) \in 1..Len(jpList) /\ token.anchor = jpList[start + Len(rows)]  BY <2>12, <3>1, <3>2
    <3>4. token.anchor # 0  BY <2>7, <3>3
    <3>5. Len(new) \in 1..Len(new) /\ Len(new) > Len(old) /\ Len(new) - Len(old) = Len(rows)  BY <2>1, <2>3, <2>4, <3>2
    <3>6. new[Len(new)] = rows[Len(rows)]
      <4>1. ~(Len(new) \in 1..Len(old))  BY <2>1, <2>4, <3>5
      <4>. QED  BY <2>11, <3>5, <4>1
    <3>7. new # <<>>
      <4>1. Len(<<>>) = 0 /\ Len(new) # 0  BY <2>1, <2>4, <3>2, <3>5
      <4>. QED  BY <4>1
    <3>. QED  BY <3>1, <3>4, <3>6, <3>7
  \* What is above the new anchor was on the page, or above the old one.
  <2>15. ASSUME NEW i \in 1..Len(jpList), jpList[i] < 5, token = NoPage \/ (token.anchor # 0 /\ jpList[i] >= token.anchor)
         PROVE  \E k \in 1..Len(new) : new[k] = jpList[i]
    <3>0. i \in Nat /\ start \in Nat /\ Len(old) \in Nat /\ Len(rows) \in Nat  BY <2>1, <2>2, <2>3
    <3>1. CASE i <= start
      <4>1. jpToken.anchor # 0 /\ start \in 1..Len(jpList) /\ jpList[start] = jpToken.anchor  BY <2>2, <3>0, <3>1
      <4>2. jpList[i] >= jpToken.anchor
        <5>1. CASE i = start  BY <2>7, <4>1, <5>1
        <5>2. CASE i # start
          <6>1. i < start  BY <3>0, <3>1, <5>2
          <6>2. jpList[i] > jpList[start]  BY <2>7, <4>1, <6>1 DEF Descending
          <6>3. jpList[i] \in Nat  BY <2>7
          <6>. QED  BY <2>1, <4>1, <6>2, <6>3
        <5>. QED  BY <5>1, <5>2
      <4>3. PICK k \in 1..Len(old) : old[k] = jpList[i]  BY <2>8, <2>15, <4>1, <4>2
      <4>4. k \in 1..Len(new) /\ ~(k > Len(old))  BY <2>4, <3>0, <4>3
      <4>5. new[k] = old[k]  BY <2>11, <4>4
      <4>. QED  BY <4>3, <4>4, <4>5
    <3>2. CASE i > start
      <4>1. i <= start + Len(rows)
        <5>1. CASE token = NoPage
          <6>1. start + Len(rows) >= Len(jpList)
            <7>1. CASE rows # <<>> /\ token = [position |-> start + Len(rows), anchor |-> rows[Len(rows)]]
              <8>1. token.position = start + Len(rows)  BY <7>1
              <8>2. token.position = -1  BY <5>1 DEF NoPage
              <8>. QED  BY <3>0, <8>1, <8>2
            <7>. QED  BY <2>5, <7>1
          <6>. QED  BY <2>1, <3>0, <6>1
        <5>2. CASE token # NoPage
          <6>1. start + Len(rows) \in 1..Len(jpList) /\ token.anchor = jpList[start + Len(rows)]  BY <2>9, <2>12, <2>14, <5>2
          <6>2. jpList[i] >= jpList[start + Len(rows)]  BY <2>15, <5>2, <6>1
          <6>3. ~(start + Len(rows) < i)
            <7>. SUFFICES ASSUME start + Len(rows) < i PROVE FALSE  OBVIOUS
            <7>1. jpList[start + Len(rows)] > jpList[i]  BY <2>7, <6>1 DEF Descending
            <7>2. jpList[i] \in Nat /\ jpList[start + Len(rows)] \in Nat  BY <2>7, <6>1
            <7>. QED  BY <6>2, <7>1, <7>2
          <6>. QED  BY <3>0, <6>3
        <5>. QED  BY <5>1, <5>2
      <4>. DEFINE k == Len(old) + (i - start)
      <4>2. i - start \in 1..Len(rows) /\ k \in 1..Len(new) /\ k > Len(old) /\ k - Len(old) = i - start  BY <2>4, <3>0, <3>2, <4>1
      <4>3. ~(k \in 1..Len(old))  BY <3>0, <4>2
      <4>4. new[k] = rows[i - start]  BY <2>11, <4>2, <4>3
      <4>5. rows[i - start] = jpList[start + (i - start)] /\ start + (i - start) = i  BY <2>12, <3>0, <4>2
      <4>. QED  BY <4>2, <4>4, <4>5
    <3>. QED  BY <3>0, <3>1, <3>2
  <2>16. PagesType'
    <3>1. jpMoved' \in BOOLEAN  BY <1>1
    <3>. QED  BY <1>1, <3>1, <2>1, <2>4, <2>6, <2>10 DEF PagesInv, PagesType
  <2>17. SeenInv'  BY <1>1, <2>1, <2>6, <2>13, <2>14, <2>15 DEF SeenInv
  <2>. QED  BY <1>2, <2>16, <2>17 DEF PagesInv
<1>. QED  BY <1>3, <1>4

(* Mail that arrives or leaves between two pages of a JMAP mailbox makes no row appear twice and hides none that
   was there all along, while the anchor of each page stays (query.rs: query, page). *)
THEOREM PagesStayWhole == PagesSpec => []PagesAreWhole
<1>1. PagesInit => PagesInv
  <2>. SUFFICES ASSUME PagesInit PROVE PagesInv  OBVIOUS
  <2>1. jpSeen = <<>> /\ jpToken = [position |-> 0, anchor |-> 0] /\ jpMoved = FALSE /\ jpCount = [arrived |-> 0, removed |-> 0]
    BY DEF PagesInit
  <2>2. /\ jpList \in Seq(Nat) /\ \A i \in 1..Len(jpList) : 1 <= jpList[i] /\ jpList[i] <= 4
        /\ Descending(jpList)
    <3>1. jpList = <<4, 3, 2, 1>> \/ jpList = <<3, 2, 1>>  BY DEF PagesInit
    <3>2. CASE jpList = <<4, 3, 2, 1>>
      <4>1. /\ Len(jpList) = 4 /\ jpList[1] = 4 /\ jpList[2] = 3 /\ jpList[3] = 2 /\ jpList[4] = 1
            /\ jpList \in Seq(Nat)
        BY <3>2
      <4>2. \A i \in 1..4 : i = 1 \/ i = 2 \/ i = 3 \/ i = 4  OBVIOUS
      <4>3. \A i \in 1..Len(jpList) : jpList[i] = 5 - i  BY <4>1, <4>2
      <4>. QED  BY <4>1, <4>3 DEF Descending
    <3>3. CASE jpList = <<3, 2, 1>>
      <4>1. Len(jpList) = 3 /\ jpList[1] = 3 /\ jpList[2] = 2 /\ jpList[3] = 1 /\ jpList \in Seq(Nat)  BY <3>3
      <4>2. \A i \in 1..3 : i = 1 \/ i = 2 \/ i = 3  OBVIOUS
      <4>3. \A i \in 1..Len(jpList) : jpList[i] = 4 - i  BY <4>1, <4>2
      <4>. QED  BY <4>1, <4>3 DEF Descending
    <3>. QED  BY <3>1, <3>2, <3>3
  <2>3. PagesType
    <3>1. jpSeen \in Seq(Nat) /\ jpToken \in [position : Int, anchor : Nat]  BY <2>1
    <3>2. jpCount \in [arrived : Nat, removed : Nat] /\ jpMoved \in BOOLEAN  BY <2>1
    <3>. QED  BY <2>2, <3>1, <3>2 DEF PagesType
  <2>4. ListInv  BY <2>1, <2>2 DEF ListInv
  <2>5. jpToken # NoPage /\ jpToken.anchor = 0  BY <2>1 DEF NoPage
  <2>6. SeenInv  BY <2>1, <2>5 DEF SeenInv, Descending
  <2>. QED  BY <2>3, <2>4, <2>6 DEF PagesInv
<1>2. PagesInv /\ [PagesNext]_pagesVars => PagesInv'
  <2>1. PagesInv /\ PagesNext => PagesInv'  BY ArrivesKeeps, LeavesKeeps, PageKeeps DEF PagesNext
  <2>2. PagesInv /\ UNCHANGED pagesVars => PagesInv'  BY DEF PagesInv, PagesType, ListInv, SeenInv, Descending, pagesVars
  <2>. QED  BY <2>1, <2>2
<1>3. PagesInv => PagesAreWhole
  <2>. SUFFICES ASSUME PagesInv, ~jpMoved PROVE
                /\ \A i, j \in DOMAIN jpSeen : jpSeen[i] = jpSeen[j] => i = j
                /\ jpToken = NoPage => \A m \in ToSet(jpList) : m < 5 => m \in ToSet(jpSeen)
    BY DEF PagesAreWhole
  <2>1. jpSeen \in Seq(Nat) /\ jpList \in Seq(Nat) /\ Descending(jpSeen)  BY DEF PagesInv, PagesType, SeenInv
  <2>2. DOMAIN jpSeen = 1..Len(jpSeen) /\ DOMAIN jpList = 1..Len(jpList) /\ \A i \in 1..Len(jpSeen) : jpSeen[i] \in Nat  BY <2>1
  <2>3. ASSUME NEW i \in 1..Len(jpSeen), NEW j \in 1..Len(jpSeen), jpSeen[i] = jpSeen[j], i # j PROVE FALSE
    <3>1. i < j \/ j < i  BY <2>3
    <3>2. jpSeen[i] > jpSeen[j] \/ jpSeen[j] > jpSeen[i]  BY <2>1, <3>1 DEF Descending
    <3>. QED  BY <2>2, <2>3, <3>2
  <2>4. ASSUME jpToken = NoPage, NEW m \in ToSet(jpList), m < 5 PROVE m \in ToSet(jpSeen)
    <3>1. PICK i \in 1..Len(jpList) : jpList[i] = m  BY <2>2 DEF ToSet
    <3>2. PICK k \in 1..Len(jpSeen) : jpSeen[k] = jpList[i]  BY <2>4, <3>1 DEF PagesInv, SeenInv
    <3>. QED  BY <2>2, <3>1, <3>2 DEF ToSet
  <2>. QED  BY <2>2, <2>3, <2>4
<1>. QED  BY <1>1, <1>2, <1>3, PTL DEF PagesSpec

------------------------------------
(* One Gmail account. *)
GmailSteps   == {"idle", "take", "token", "refresh", "send", "wire", "answer", "reject"}
GmailAnswers == {"none", "unauthorized", "ok", "limited", "forbidden", "timeout"}
GmailCalls   == [pc : GmailSteps, s : Nat, tok : Nat, again : BOOLEAN, job : {0} \cup Tickets, waits : Nat, answer : GmailAnswers]
GmailEntries == [t : Tickets, s : SessionIds]
GmailType ==
    /\ gActor \in [GmailActors -> GmailCalls]
    /\ gToken \in [SessionIds -> Nat] /\ gLock \in [SessionIds -> GmailActors \cup {"free"}]
    /\ gMinted \in Nat /\ gCreated \in 0..MaxSessions /\ gSession \in 0..gCreated
    /\ gBooking \subseteq GmailEntries /\ gPending \in Seq(GmailEntries)
    /\ gBooked \in Seq(Tickets) /\ gApplied \in Seq(Tickets)

\* Only this actor moves.
Alone(a) == gActor' \in [GmailActors -> GmailCalls] /\ \A b \in GmailActors \ {a} : gActor'[b] = gActor[b]

LEMMA GmailNats == MaxSessions \in Nat /\ MaxTickets \in Nat /\ "drain" \in GmailActors /\ "free" \notin GmailActors
BY GmailBounds DEF GmailActors

LEMMA IdleType == IdleGmail \in GmailCalls /\ IdleGmail.pc = "idle" /\ IdleGmail.job = 0
BY DEF IdleGmail, GmailCalls, GmailSteps, GmailAnswers

LEMMA AloneWith ==
    ASSUME gActor \in [GmailActors -> GmailCalls], NEW a \in GmailActors, NEW l \in GmailCalls, gActor' = [gActor EXCEPT ![a] = l]
    PROVE  Alone(a) /\ gActor'[a] = l
BY DEF Alone

\* How a call ends.
CallIsOver(a, out) ==
    \/ a # "drain" /\ gActor'[a] = IdleGmail /\ gSettled' = gSettled
    \/ /\ a = "drain" /\ out = "limited" /\ gSettled' = gSettled
       /\ gActor'[a].pc = "token" /\ gActor'[a].s = gActor[a].s /\ gActor'[a].job = gActor[a].job
    \/ /\ a = "drain" /\ gActor'[a].pc = "take" /\ gActor'[a].job = 0
       /\ \A t \in Tickets : gSettled'[t] =
            IF t = gActor[a].job THEN IF gActor[a].s \in gRetired THEN "invalidated" ELSE out ELSE gSettled[t]

LEMMA FinishMoves ==
    ASSUME GmailType, NEW a \in GmailActors, NEW out, FinishCall(a, out)
    PROVE  Alone(a) /\ CallIsOver(a, out)
<1>0. gActor \in [GmailActors -> GmailCalls] /\ gActor[a] \in GmailCalls  BY DEF GmailType
<1>1. CASE a # "drain"  BY <1>0, <1>1, IdleType, AloneWith DEF FinishCall, CallIsOver
<1>2. CASE a = "drain" /\ out = "limited" /\ gActor[a].waits < MaxWaits /\ gActor[a].s \notin gRetired
  <2>. DEFINE l == [gActor[a] EXCEPT !.pc = "token", !.again = TRUE, !.waits = @ + 1, !.answer = "none"]
  <2>0. PICK w \in Nat : w = gActor[a].waits + 1  BY <1>0 DEF GmailCalls
  <2>1. l \in GmailCalls /\ l.pc = "token" /\ l.s = gActor[a].s /\ l.job = gActor[a].job
    BY <1>0, <2>0 DEF GmailCalls, GmailSteps, GmailAnswers
  <2>2. gActor' = [gActor EXCEPT ![a] = l] /\ gSettled' = gSettled  BY <1>0, <1>2 DEF FinishCall
  <2>. HIDE DEF l
  <2>. QED  BY <1>0, <1>2, <2>1, <2>2, AloneWith DEF CallIsOver
<1>3. CASE a = "drain" /\ ~(out = "limited" /\ gActor[a].waits < MaxWaits /\ gActor[a].s \notin gRetired)
  <2>. DEFINE l == [IdleGmail EXCEPT !.pc = "take"]
  <2>1. l \in GmailCalls /\ l.pc = "take" /\ l.job = 0  BY DEF IdleGmail, GmailCalls, GmailSteps, GmailAnswers
  <2>2. gActor' = [gActor EXCEPT ![a] = l]  BY <1>3 DEF FinishCall
  <2>3. gSettled' = [t \in Tickets |-> IF t \in {gActor[a].job} THEN IF gActor[a].s \in gRetired THEN "invalidated" ELSE out ELSE gSettled[t]]
    BY <1>3 DEF FinishCall, Settle
  <2>4. \A t \in Tickets : gSettled'[t] =
            IF t = gActor[a].job THEN IF gActor[a].s \in gRetired THEN "invalidated" ELSE out ELSE gSettled[t]
    BY <2>3
  <2>. HIDE DEF l
  <2>5. Alone(a) /\ gActor'[a] = l  BY <1>0, <2>1, <2>2, AloneWith
  <2>. QED  BY <1>3, <2>1, <2>4, <2>5 DEF CallIsOver
<1>. QED  BY <1>1, <1>2, <1>3

\* A call that goes on keeps its session and its ticket.
Goes(a, pc) ==
    /\ gActor'[a].pc = pc /\ gActor'[a].s = gActor[a].s /\ gActor'[a].job = gActor[a].job /\ gSettled' = gSettled

LEMMA GetTokenMoves ==
    ASSUME GmailType, NEW a \in GmailActors, gActor[a].s \in SessionIds, GetToken(a)
    PROVE  /\ Alone(a) /\ gLock[gActor[a].s] = "free"
           /\ \/ CallIsOver(a, "invalidated") /\ gLock' = gLock
              \/ Goes(a, "send") /\ gLock' = gLock
              \/ Goes(a, "refresh") /\ gToken[gActor[a].s] = 0 /\ gLock' = [gLock EXCEPT ![gActor[a].s] = a]
<1>0. gActor \in [GmailActors -> GmailCalls] /\ gActor[a] \in GmailCalls  BY DEF GmailType
<1>1. CASE FinishCall(a, "invalidated") /\ gLock' = gLock  BY <1>1, FinishMoves DEF GetToken
<1>2. CASE /\ gActor[a].s \notin gRetired /\ gToken[gActor[a].s] # 0
           /\ gActor' = [gActor EXCEPT ![a].pc = "send", ![a].tok = gToken[gActor[a].s]]
           /\ UNCHANGED <<gLock, gSettled>>
  <2>. DEFINE l == [gActor[a] EXCEPT !.pc = "send", !.tok = gToken[gActor[a].s]]
  <2>1. PICK k \in Nat : k = gToken[gActor[a].s]  BY DEF GmailType
  <2>2. l \in GmailCalls /\ l.pc = "send" /\ l.s = gActor[a].s /\ l.job = gActor[a].job
    BY <1>0, <2>1 DEF GmailCalls, GmailSteps, GmailAnswers
  <2>3. gActor' = [gActor EXCEPT ![a] = l] /\ gSettled' = gSettled /\ gLock' = gLock  BY <1>0, <1>2
  <2>. HIDE DEF l
  <2>. QED  BY <1>0, <2>2, <2>3, AloneWith DEF Goes, GetToken
<1>3. CASE /\ gToken[gActor[a].s] = 0 /\ gActor' = [gActor EXCEPT ![a].pc = "refresh"]
           /\ gLock' = [gLock EXCEPT ![gActor[a].s] = a] /\ UNCHANGED gSettled
  <2>. DEFINE l == [gActor[a] EXCEPT !.pc = "refresh"]
  <2>2. l \in GmailCalls /\ l.pc = "refresh" /\ l.s = gActor[a].s /\ l.job = gActor[a].job
    BY <1>0 DEF GmailCalls, GmailSteps, GmailAnswers
  <2>3. gActor' = [gActor EXCEPT ![a] = l] /\ gSettled' = gSettled  BY <1>0, <1>3
  <2>. HIDE DEF l
  <2>. QED  BY <1>0, <1>3, <2>2, <2>3, AloneWith DEF Goes, GetToken
<1>. QED  BY <1>1, <1>2, <1>3 DEF GetToken

LEMMA SendMoves ==
    ASSUME GmailType, NEW a \in GmailActors, SendCall(a)
    PROVE  Alone(a) /\ (CallIsOver(a, "invalidated") \/ Goes(a, "wire"))
<1>0. gActor \in [GmailActors -> GmailCalls] /\ gActor[a] \in GmailCalls  BY DEF GmailType
<1>1. CASE FinishCall(a, "invalidated")  BY <1>1, FinishMoves
<1>2. CASE gActor' = [gActor EXCEPT ![a].pc = "wire"] /\ UNCHANGED gSettled
  <2>. DEFINE l == [gActor[a] EXCEPT !.pc = "wire"]
  <2>2. l \in GmailCalls /\ l.pc = "wire" /\ l.s = gActor[a].s /\ l.job = gActor[a].job
    BY <1>0 DEF GmailCalls, GmailSteps, GmailAnswers
  <2>3. gActor' = [gActor EXCEPT ![a] = l] /\ gSettled' = gSettled  BY <1>0, <1>2
  <2>. HIDE DEF l
  <2>. QED  BY <1>0, <2>2, <2>3, AloneWith DEF Goes
<1>. QED  BY <1>1, <1>2 DEF SendCall

LEMMA AnswerMoves ==
    ASSUME GmailType, NEW a \in GmailActors, Answered(a)
    PROVE  /\ Alone(a)
           /\ \/ CallIsOver(a, "invalidated")
              \/ gActor[a].answer # "unauthorized" /\ CallIsOver(a, gActor[a].answer)
              \/ gActor[a].answer = "unauthorized" /\ Goes(a, "reject") /\ gActor'[a].tok = gActor[a].tok
<1>0. gActor \in [GmailActors -> GmailCalls] /\ gActor[a] \in GmailCalls  BY DEF GmailType
<1>1. CASE FinishCall(a, "invalidated")  BY <1>1, FinishMoves
<1>2. CASE gActor[a].answer # "unauthorized" /\ FinishCall(a, gActor[a].answer)  BY <1>2, FinishMoves
<1>3. CASE gActor[a].answer = "unauthorized" /\ gActor' = [gActor EXCEPT ![a].pc = "reject"] /\ UNCHANGED gSettled
  <2>. DEFINE l == [gActor[a] EXCEPT !.pc = "reject"]
  <2>2. l \in GmailCalls /\ l.pc = "reject" /\ l.s = gActor[a].s /\ l.job = gActor[a].job /\ l.tok = gActor[a].tok
    BY <1>0 DEF GmailCalls, GmailSteps, GmailAnswers
  <2>3. gActor' = [gActor EXCEPT ![a] = l] /\ gSettled' = gSettled  BY <1>0, <1>3
  <2>. HIDE DEF l
  <2>. QED  BY <1>0, <1>3, <2>2, <2>3, AloneWith DEF Goes
<1>. QED  BY <1>1, <1>2, <1>3 DEF Answered, Resent

LEMMA RefreshMoves ==
    ASSUME GmailType, NEW a \in GmailActors, TokenRefreshed(a)
    PROVE  /\ Alone(a)
           /\ \/ (CallIsOver(a, "invalidated") \/ CallIsOver(a, "failed")) /\ gToken' = gToken /\ gMinted' = gMinted
              \/ /\ Goes(a, "send") /\ gMinted' = gMinted + 1
                 /\ gToken' = [gToken EXCEPT ![gActor[a].s] = gMinted']
<1>0. gActor \in [GmailActors -> GmailCalls] /\ gActor[a] \in GmailCalls /\ gMinted \in Nat  BY DEF GmailType
<1>1. CASE FinishCall(a, "invalidated") /\ UNCHANGED <<gToken, gMinted>>  BY <1>1, FinishMoves
<1>2. CASE FinishCall(a, "failed") /\ UNCHANGED <<gToken, gMinted>>  BY <1>2, FinishMoves
<1>3. CASE /\ gMinted' = gMinted + 1 /\ gToken' = [gToken EXCEPT ![gActor[a].s] = gMinted']
           /\ gActor' = [gActor EXCEPT ![a].pc = "send", ![a].tok = gMinted'] /\ UNCHANGED gSettled
  <2>. DEFINE l == [gActor[a] EXCEPT !.pc = "send", !.tok = gMinted']
  <2>1. PICK k \in Nat : k = gMinted'  BY <1>0, <1>3
  <2>2. l \in GmailCalls /\ l.pc = "send" /\ l.s = gActor[a].s /\ l.job = gActor[a].job
    BY <1>0, <2>1 DEF GmailCalls, GmailSteps, GmailAnswers
  <2>3. gActor' = [gActor EXCEPT ![a] = l] /\ gSettled' = gSettled  BY <1>0, <1>3
  <2>. HIDE DEF l
  <2>. QED  BY <1>0, <1>3, <2>2, <2>3, AloneWith DEF Goes
<1>. QED  BY <1>1, <1>2, <1>3 DEF TokenRefreshed

LEMMA RejectMoves ==
    ASSUME GmailType, NEW a \in GmailActors, RejectSession(a)
    PROVE  /\ Alone(a) /\ gLock[gActor[a].s] = "free"
           /\ \/ CallIsOver(a, "invalidated") /\ gToken' = gToken
              \/ /\ Goes(a, "token") \/ CallIsOver(a, "unauthorized")
                 /\ gToken' = IF gToken[gActor[a].s] = gActor[a].tok THEN [gToken EXCEPT ![gActor[a].s] = 0] ELSE gToken
<1>0. gActor \in [GmailActors -> GmailCalls] /\ gActor[a] \in GmailCalls  BY DEF GmailType
<1>1. CASE FinishCall(a, "invalidated") /\ UNCHANGED gToken  BY <1>1, FinishMoves DEF RejectSession
<1>2. CASE /\ gToken' = IF Evicts(gActor[a].s, gActor[a].tok) THEN [gToken EXCEPT ![gActor[a].s] = 0] ELSE gToken
           /\ FinishCall(a, "unauthorized")
  BY <1>2, FinishMoves DEF RejectSession, Evicts
<1>3. CASE /\ gToken' = IF Evicts(gActor[a].s, gActor[a].tok) THEN [gToken EXCEPT ![gActor[a].s] = 0] ELSE gToken
           /\ gActor' = [gActor EXCEPT ![a].pc = "token", ![a].again = FALSE] /\ UNCHANGED gSettled
  <2>. DEFINE l == [gActor[a] EXCEPT !.pc = "token", !.again = FALSE]
  <2>2. l \in GmailCalls /\ l.pc = "token" /\ l.s = gActor[a].s /\ l.job = gActor[a].job
    BY <1>0 DEF GmailCalls, GmailSteps, GmailAnswers
  <2>3. gActor' = [gActor EXCEPT ![a] = l] /\ gSettled' = gSettled  BY <1>0, <1>3
  <2>. HIDE DEF l
  <2>4. Alone(a) /\ Goes(a, "token")  BY <1>0, <2>2, <2>3, AloneWith DEF Goes
  <2>. QED  BY <1>3, <2>4 DEF RejectSession, Evicts
<1>. QED  BY <1>1, <1>2, <1>3 DEF RejectSession

\* What Google makes of a request.
Carried(a) == gApplied' = IF gActor[a].job # 0 THEN Append(gApplied, gActor[a].job) ELSE gApplied
LEMMA ServeMoves ==
    ASSUME GmailType, NEW a \in GmailActors, Serve(a)
    PROVE  /\ Alone(a) /\ Goes(a, "answer") /\ gActor'[a].tok = gActor[a].tok
           /\ \/ gActor'[a].answer = "unauthorized" /\ gActor[a].tok \in gRevoked /\ gApplied' = gApplied
              \/ gActor'[a].answer = "ok" /\ Carried(a)
              \/ gActor'[a].answer \in {"limited", "forbidden"} /\ gApplied' = gApplied
              \/ gActor'[a].answer = "timeout" /\ (Carried(a) \/ gApplied' = gApplied)
<1>0. gActor \in [GmailActors -> GmailCalls] /\ gActor[a] \in GmailCalls  BY DEF GmailType
<1>1. \A x \in GmailAnswers : gActor' = [gActor EXCEPT ![a].pc = "answer", ![a].answer = x] /\ gSettled' = gSettled
        => Alone(a) /\ Goes(a, "answer") /\ gActor'[a].tok = gActor[a].tok /\ gActor'[a].answer = x
  <2>. SUFFICES ASSUME NEW x \in GmailAnswers, gSettled' = gSettled,
                       gActor' = [gActor EXCEPT ![a].pc = "answer", ![a].answer = x]
                PROVE  Alone(a) /\ Goes(a, "answer") /\ gActor'[a].tok = gActor[a].tok /\ gActor'[a].answer = x
    OBVIOUS
  <2>. DEFINE l == [gActor[a] EXCEPT !.pc = "answer", !.answer = x]
  <2>2. /\ l \in GmailCalls /\ l.pc = "answer" /\ l.s = gActor[a].s /\ l.job = gActor[a].job /\ l.tok = gActor[a].tok
        /\ l.answer = x
    BY <1>0 DEF GmailCalls, GmailSteps
  <2>3. gActor' = [gActor EXCEPT ![a] = l]  BY <1>0
  <2>. HIDE DEF l
  <2>. QED  BY <1>0, <2>2, <2>3, AloneWith DEF Goes
<1>2. gSettled' = gSettled  BY DEF Serve
<1>3. {"unauthorized", "ok", "limited", "forbidden", "timeout"} \subseteq GmailAnswers  BY DEF GmailAnswers
<1>4. CASE /\ gActor[a].tok \in gRevoked /\ gApplied' = gApplied
           /\ gActor' = [gActor EXCEPT ![a].pc = "answer", ![a].answer = "unauthorized"]
  BY <1>1, <1>2, <1>3, <1>4
<1>5. CASE Carried(a) /\ gActor' = [gActor EXCEPT ![a].pc = "answer", ![a].answer = "ok"]  BY <1>1, <1>2, <1>3, <1>5
<1>6. ASSUME NEW no \in Refusals, gApplied' = gApplied, gActor' = [gActor EXCEPT ![a].pc = "answer", ![a].answer = no]
      PROVE  /\ Alone(a) /\ Goes(a, "answer") /\ gActor'[a].tok = gActor[a].tok
             /\ gActor'[a].answer \in {"limited", "forbidden"} /\ gApplied' = gApplied
  BY <1>1, <1>2, <1>3, <1>6 DEF Refusals
<1>7. CASE /\ Carried(a) \/ gApplied' = gApplied
           /\ gActor' = [gActor EXCEPT ![a].pc = "answer", ![a].answer = "timeout"]
  BY <1>1, <1>2, <1>3, <1>7
<1>. QED
  <2>1. PICK yes \in BOOLEAN, no \in Refusals \cup {"none"} :
          \/ gActor[a].tok \in gRevoked /\ gApplied' = gApplied
             /\ gActor' = [gActor EXCEPT ![a].pc = "answer", ![a].answer = "unauthorized"]
          \/ Carried(a) /\ gActor' = [gActor EXCEPT ![a].pc = "answer", ![a].answer = "ok"]
          \/ no \in Refusals /\ gApplied' = gApplied /\ gActor' = [gActor EXCEPT ![a].pc = "answer", ![a].answer = no]
          \/ (Carried(a) \/ gApplied' = gApplied) /\ gActor' = [gActor EXCEPT ![a].pc = "answer", ![a].answer = "timeout"]
    BY DEF Serve, Carried
  <2>. QED  BY <1>4, <1>5, <1>6, <1>7, <2>1

LEMMA BeginMoves ==
    ASSUME GmailType, NEW a \in GmailReaders, NEW again \in BOOLEAN, BeginCall(a, again)
    PROVE  /\ Alone(a) /\ gActor[a].pc = "idle"
           /\ \E s \in SessionIds : SessionFor(s) /\ gActor'[a].pc = "token" /\ gActor'[a].s = s /\ gActor'[a].job = 0
<1>0. gActor \in [GmailActors -> GmailCalls] /\ a \in GmailActors  BY DEF GmailType, GmailActors
<1>1. PICK s \in SessionIds : /\ SessionFor(s)
                              /\ gActor' = [gActor EXCEPT ![a] = [IdleGmail EXCEPT !.pc = "token", !.s = s, !.again = again]]
  BY DEF BeginCall
<1>. DEFINE l == [IdleGmail EXCEPT !.pc = "token", !.s = s, !.again = again]
<1>2. l \in GmailCalls /\ l.pc = "token" /\ l.s = s /\ l.job = 0
  <2>1. s \in Nat  BY DEF SessionIds
  <2>. QED  BY <2>1 DEF IdleGmail, GmailCalls, GmailSteps, GmailAnswers
<1>3. gActor' = [gActor EXCEPT ![a] = l]  BY <1>1
<1>. HIDE DEF l
<1>4. Alone(a) /\ gActor'[a] = l  BY <1>0, <1>2, <1>3, AloneWith
<1>. QED  BY <1>1, <1>2, <1>4 DEF BeginCall

LEMMA TakeMoves ==
    ASSUME GmailType, TakeNext
    PROVE  /\ Alone("drain") /\ gActor["drain"].pc = "take"
           /\ \/ gActor'["drain"] = IdleGmail /\ gPending' = gPending /\ gSettled' = gSettled
              \/ /\ gPending # <<>> /\ gPending' = Tail(gPending) /\ gActor' = gActor
                 /\ \A t \in Tickets : gSettled'[t] = IF t = gPending[1].t THEN "invalidated" ELSE gSettled[t]
              \/ /\ gPending # <<>> /\ gPending' = Tail(gPending) /\ gSettled' = gSettled
                 /\ gActor'["drain"].pc = "token" /\ gActor'["drain"].s = gPending[1].s
                 /\ gActor'["drain"].job = gPending[1].t
<1>0. gActor \in [GmailActors -> GmailCalls] /\ gActor["drain"] \in GmailCalls /\ "drain" \in GmailActors
  BY GmailNats DEF GmailType
<1>1. CASE gPending = <<>> /\ gActor' = [gActor EXCEPT !["drain"] = IdleGmail] /\ UNCHANGED <<gPending, gSettled>>
  BY <1>0, <1>1, IdleType, AloneWith DEF TakeNext
<1>2. CASE gPending # <<>> /\ gPending' = Tail(gPending) /\ Settle({Head(gPending).t}, "invalidated") /\ UNCHANGED gActor
  <2>1. gSettled' = [t \in Tickets |-> IF t \in {gPending[1].t} THEN "invalidated" ELSE gSettled[t]]  BY <1>2 DEF Settle
  <2>2. \A t \in Tickets : gSettled'[t] = IF t = gPending[1].t THEN "invalidated" ELSE gSettled[t]  BY <2>1
  <2>. QED  BY <1>0, <1>2, <2>2 DEF TakeNext, Alone
<1>3. CASE /\ gPending # <<>> /\ gPending' = Tail(gPending) /\ UNCHANGED gSettled
           /\ gActor' = [gActor EXCEPT !["drain"] = [IdleGmail EXCEPT !.pc = "token", !.s = Head(gPending).s,
                                                        !.job = Head(gPending).t, !.again = TRUE]]
  <2>0. PICK x \in Nat, y \in Tickets : x = gPending[1].s /\ y = gPending[1].t /\ x = Head(gPending).s /\ y = Head(gPending).t
    <3>1. gPending[1] \in GmailEntries /\ Head(gPending) = gPending[1]  BY <1>3, EmptySeq, ElementOfSeq DEF GmailType
    <3>. QED  BY <3>1 DEF GmailEntries, Tickets, SessionIds
  <2>. DEFINE l == [IdleGmail EXCEPT !.pc = "token", !.s = x, !.job = y, !.again = TRUE]
  <2>1. l \in GmailCalls /\ l.pc = "token" /\ l.s = x /\ l.job = y  BY DEF IdleGmail, GmailCalls, GmailSteps, GmailAnswers
  <2>2. gActor' = [gActor EXCEPT !["drain"] = l]  BY <1>3, <2>0
  <2>. HIDE DEF l
  <2>3. Alone("drain") /\ gActor'["drain"] = l  BY <1>0, <2>1, <2>2, AloneWith
  <2>. QED  BY <1>3, <2>0, <2>1, <2>3 DEF TakeNext
<1>. QED  BY <1>1, <1>2, <1>3 DEF TakeNext

LEMMA JoinMoves ==
    ASSUME GmailType, NEW e \in gBooking, Join(e)
    PROVE  /\ Alone("drain") /\ gBooking' = gBooking \ {e} /\ e \in GmailEntries
           /\ gActor'["drain"] = gActor["drain"] \/ (gActor["drain"].pc = "idle" /\ gActor'["drain"].pc = "take"
                                                     /\ gActor'["drain"].job = gActor["drain"].job)
           /\ \/ gPending' = gPending /\ gBooked' = gBooked /\ \A t \in Tickets : gSettled'[t] = IF t = e.t THEN "full" ELSE gSettled[t]
              \/ gPending' = Append(gPending, e) /\ gBooked' = Append(gBooked, e.t) /\ gSettled' = gSettled
<1>0. gActor \in [GmailActors -> GmailCalls] /\ gActor["drain"] \in GmailCalls /\ "drain" \in GmailActors /\ e \in GmailEntries
  BY GmailNats DEF GmailType
<1>1. CASE Settle({e.t}, "full") /\ UNCHANGED <<gPending, gBooked, gActor>>
  <2>1. gSettled' = [t \in Tickets |-> IF t \in {e.t} THEN "full" ELSE gSettled[t]]  BY <1>1 DEF Settle
  <2>2. \A t \in Tickets : gSettled'[t] = IF t = e.t THEN "full" ELSE gSettled[t]  BY <2>1
  <2>. QED  BY <1>0, <1>1, <2>2 DEF Join, Alone
<1>2. CASE gPending' = Append(gPending, e) /\ gBooked' = Append(gBooked, e.t) /\ gActor' = RunDrainer /\ UNCHANGED gSettled
  <2>1. CASE gActor["drain"].pc = "idle"
    <3>. DEFINE l == [gActor["drain"] EXCEPT !.pc = "take"]
    <3>1. l \in GmailCalls /\ l.pc = "take" /\ l.job = gActor["drain"].job  BY <1>0 DEF GmailCalls, GmailSteps, GmailAnswers
    <3>2. gActor' = [gActor EXCEPT !["drain"] = l]  BY <1>0, <1>2, <2>1 DEF RunDrainer
    <3>. HIDE DEF l
    <3>3. Alone("drain") /\ gActor'["drain"] = l  BY <1>0, <3>1, <3>2, AloneWith
    <3>. QED  BY <1>0, <1>2, <2>1, <3>1, <3>3 DEF Join
  <2>2. CASE gActor["drain"].pc # "idle"  BY <1>0, <1>2, <2>2 DEF Join, RunDrainer, Alone
  <2>. QED  BY <2>1, <2>2
<1>. QED  BY <1>1, <1>2 DEF Join

LEMMA BookMoves ==
    ASSUME GmailType, NEW t \in Tickets, Book(t)
    PROVE  \E s \in SessionIds :
             /\ SessionFor(s) /\ gBooking' = gBooking \cup {[t |-> t, s |-> s]}
             /\ gSettled[t] = "none" /\ \A u \in Tickets : gSettled'[u] = IF u = t THEN "open" ELSE gSettled[u]
<1>1. PICK s \in SessionIds : SessionFor(s) /\ gBooking' = gBooking \cup {[t |-> t, s |-> s]} /\ Settle({t}, "open")  BY DEF Book
<1>2. gSettled' = [u \in Tickets |-> IF u \in {t} THEN "open" ELSE gSettled[u]]  BY <1>1 DEF Settle
<1>3. \A u \in Tickets : gSettled'[u] = IF u = t THEN "open" ELSE gSettled[u]  BY <1>2
<1>. QED  BY <1>1, <1>3 DEF Book

(* Grants. *)
\* What a call holds: its session, the lock of a refresh and the lost grant it drops.
CallGrant(b) == LET me == gActor[b] IN
    /\ me.pc \notin {"idle", "take"} => me.s \in 1..gCreated
    /\ me.pc = "refresh" => gLock[me.s] = b /\ gToken[me.s] = 0
    /\ me.pc = "reject" \/ (me.pc = "answer" /\ me.answer = "unauthorized") => me.tok \in gRevoked
\* Every grant is cached, or was lost.
GrantsInv ==
    /\ IsFiniteSet(gRevoked) /\ IsFiniteSet(gExpired)
    /\ \A k \in 1..gMinted : k \in gRevoked \/ k \in gExpired \/ \E s \in 1..gCreated : gToken[s] = k
    /\ \A b \in GmailActors : CallGrant(b)
    /\ \A e \in gBooking : e.s \in 1..gCreated
    /\ \A k \in 1..Len(gPending) : gPending[k].s \in 1..gCreated

LEMMA SessionMoves ==
    ASSUME GmailType, NEW s \in SessionIds, SessionFor(s)
    PROVE  gCreated' \in 0..MaxSessions /\ gSession' \in 0..gCreated' /\ gCreated <= gCreated' /\ s \in 1..gCreated'
BY GmailNats DEF GmailType, SessionFor, SessionIds

LEMMA GmailTypeStep ==
    ASSUME GmailType, GrantsInv, GmailNext
    PROVE  GmailType'
<1>0. /\ MaxSessions \in Nat /\ gCreated \in Nat /\ gCreated <= MaxSessions /\ gMinted \in Nat
      /\ \A b \in GmailActors : gActor[b] \in GmailCalls
  BY GmailNats DEF GmailType
<1>1. ASSUME NEW a \in GmailReaders, NEW again \in BOOLEAN, BeginCall(a, again) PROVE GmailType'
  <2>1. Alone(a) /\ \E s \in SessionIds : SessionFor(s)  BY <1>1, BeginMoves
  <2>2. gCreated' \in 0..MaxSessions /\ gSession' \in 0..gCreated'  BY <2>1, SessionMoves
  <2>. QED  BY <1>1, <2>1, <2>2 DEF GmailType, Alone, BeginCall
<1>2. ASSUME NEW a \in GmailActors, GetToken(a) PROVE GmailType'
  <2>1. gActor[a].s \in SessionIds  BY <1>0, <1>2 DEF GetToken, GrantsInv, CallGrant, SessionIds
  <2>2. Alone(a) /\ (gLock' = gLock \/ gLock' = [gLock EXCEPT ![gActor[a].s] = a])  BY <1>2, <2>1, GetTokenMoves
  <2>3. gLock' \in [SessionIds -> GmailActors \cup {"free"}]  BY <2>1, <2>2 DEF GmailType
  <2>. QED  BY <1>2, <2>2, <2>3 DEF GmailType, Alone, GetToken
<1>3. ASSUME NEW a \in GmailActors, TokenRefreshed(a) PROVE GmailType'
  <2>1. gActor[a].s \in SessionIds  BY <1>0, <1>3 DEF TokenRefreshed, GrantsInv, CallGrant, SessionIds
  <2>2. /\ Alone(a) /\ gLock' = [gLock EXCEPT ![gActor[a].s] = "free"]
        /\ \/ gToken' = gToken /\ gMinted' = gMinted
           \/ gMinted' = gMinted + 1 /\ gToken' = [gToken EXCEPT ![gActor[a].s] = gMinted']
    BY <1>3, RefreshMoves DEF TokenRefreshed
  <2>3. gLock' \in [SessionIds -> GmailActors \cup {"free"}]  BY <2>1, <2>2 DEF GmailType
  <2>4. gMinted' \in Nat  BY <1>0, <2>2
  <2>5. gToken' \in [SessionIds -> Nat]  BY <2>1, <2>2, <2>4 DEF GmailType
  <2>. QED  BY <1>3, <2>2, <2>3, <2>4, <2>5 DEF GmailType, Alone, TokenRefreshed
<1>4. ASSUME NEW a \in GmailActors, SendCall(a) PROVE GmailType'  BY <1>4, SendMoves DEF GmailType, Alone, SendCall
<1>5. ASSUME NEW a \in GmailActors, Serve(a) PROVE GmailType'
  <2>1. Alone(a) /\ (gApplied' = gApplied \/ Carried(a))  BY <1>5, ServeMoves
  <2>2. gActor[a].job # 0 => gActor[a].job \in Tickets  BY <1>0 DEF GmailCalls
  <2>3. gApplied' \in Seq(Tickets)
    <3>1. gApplied \in Seq(Tickets)  BY DEF GmailType
    <3>2. \A t \in Tickets : Append(gApplied, t) \in Seq(Tickets)  BY <3>1, AppendProperties
    <3>. QED  BY <2>1, <2>2, <3>1, <3>2 DEF Carried
  <2>. QED  BY <1>5, <2>1, <2>3 DEF GmailType, Alone, Serve
<1>6. ASSUME NEW a \in GmailActors, Answered(a) PROVE GmailType'  BY <1>6, AnswerMoves DEF GmailType, Alone, Answered
<1>7. ASSUME NEW a \in GmailActors, RejectSession(a) PROVE GmailType'
  <2>1. gActor[a].s \in SessionIds  BY <1>0, <1>7 DEF RejectSession, GrantsInv, CallGrant, SessionIds
  <2>2. Alone(a) /\ (gToken' = gToken \/ gToken' = [gToken EXCEPT ![gActor[a].s] = 0])  BY <1>7, RejectMoves
  <2>3. gToken' \in [SessionIds -> Nat]  BY <2>1, <2>2 DEF GmailType
  <2>. QED  BY <1>7, <2>2, <2>3 DEF GmailType, Alone, RejectSession
<1>8. ASSUME NEW t \in Tickets, Book(t) PROVE GmailType'
  <2>1. PICK s \in SessionIds : SessionFor(s) /\ gBooking' = gBooking \cup {[t |-> t, s |-> s]}  BY <1>8, BookMoves
  <2>2. gCreated' \in 0..MaxSessions /\ gSession' \in 0..gCreated'  BY <2>1, SessionMoves
  <2>3. gBooking' \subseteq GmailEntries  BY <2>1 DEF GmailType, GmailEntries
  <2>. QED  BY <1>8, <2>2, <2>3 DEF GmailType, Book
<1>9. ASSUME NEW e \in gBooking, Join(e) PROVE GmailType'
  <2>1. Alone("drain") /\ gBooking' = gBooking \ {e} /\ e \in GmailEntries  BY <1>9, JoinMoves
  <2>2. \/ gPending' = gPending /\ gBooked' = gBooked
        \/ gPending' = Append(gPending, e) /\ gBooked' = Append(gBooked, e.t)
    BY <1>9, JoinMoves
  <2>3. gPending' \in Seq(GmailEntries)
    <3>1. gPending \in Seq(GmailEntries)  BY DEF GmailType
    <3>2. Append(gPending, e) \in Seq(GmailEntries)  BY <2>1, <3>1, AppendProperties
    <3>. QED  BY <2>2, <3>1, <3>2
  <2>4. gBooked' \in Seq(Tickets)
    <3>1. gBooked \in Seq(Tickets) /\ e.t \in Tickets  BY <2>1 DEF GmailType, GmailEntries
    <3>2. Append(gBooked, e.t) \in Seq(Tickets)  BY <3>1, AppendProperties
    <3>. QED  BY <2>2, <3>1, <3>2
  <2>. QED  BY <1>9, <2>1, <2>3, <2>4 DEF GmailType, Alone, Join
<1>10. CASE TakeNext
  <2>1. Alone("drain") /\ (gPending' = gPending \/ (gPending # <<>> /\ gPending' = Tail(gPending)))  BY <1>10, TakeMoves
  <2>2. gPending' \in Seq(GmailEntries)  BY <2>1, HeadTailProperties DEF GmailType
  <2>. QED  BY <1>10, <2>1, <2>2 DEF GmailType, Alone, TakeNext
<1>11. CASE Logout  BY <1>0, <1>11 DEF Logout, GmailType
<1>12. CASE SweepQueue  BY <1>12, EmptySeq DEF SweepQueue, GmailType
<1>13. CASE EvictSession  BY <1>0, <1>13 DEF EvictSession, GmailType
<1>14. ASSUME NEW k \in 1..MaxGrants, Revoke(k) PROVE GmailType'  BY <1>14 DEF Revoke, GmailType
<1>15. ASSUME NEW s \in SessionIds, Expire(s) PROVE GmailType'
  <2>1. gToken' \in [SessionIds -> Nat]  BY <1>15 DEF Expire, GmailType
  <2>. QED  BY <1>15, <2>1 DEF Expire, GmailType
<1>. QED  BY <1>1, <1>2, <1>3, <1>4, <1>5, <1>6, <1>7, <1>8, <1>9, <1>10, <1>11, <1>12, <1>13, <1>14, <1>15 DEF GmailNext, CallStep

LEMMA CallKept ==
    ASSUME GmailType, NEW b \in GmailActors, CallGrant(b), gActor'[b] = gActor[b], gCreated' \in Nat, gCreated <= gCreated',
           gRevoked \subseteq gRevoked',
           gActor[b].pc = "refresh" => gLock'[gActor[b].s] = b /\ gToken'[gActor[b].s] = 0
    PROVE  CallGrant(b)'
<1>1. gActor[b].pc \notin {"idle", "take"} => gActor[b].s \in 1..gCreated'  BY DEF GmailType, CallGrant
<1>. QED  BY <1>1 DEF CallGrant

LEMMA EndedGrant ==
    ASSUME GmailType, NEW a \in GmailActors, CallGrant(a), NEW out, CallIsOver(a, out),
           gActor[a].pc \notin {"idle", "take"}, gCreated' = gCreated
    PROVE  CallGrant(a)'
BY IdleType DEF CallIsOver, CallGrant

\* Calls that leave the grants alone.
LEMMA OthersKept ==
    ASSUME GmailType, GrantsInv, NEW a \in GmailActors, Alone(a), CallGrant(a)',
           gCreated' \in Nat, gCreated <= gCreated', gToken' = gToken, gLock' = gLock, gRevoked' = gRevoked
    PROVE  \A b \in GmailActors : CallGrant(b)'
<1>1. \A b \in GmailActors \ {a} : CallGrant(b)'
  <2>. SUFFICES ASSUME NEW b \in GmailActors \ {a} PROVE CallGrant(b)'  OBVIOUS
  <2>1. CallGrant(b) /\ gActor'[b] = gActor[b]  BY DEF GrantsInv, Alone
  <2>2. gActor[b].pc = "refresh" => gLock'[gActor[b].s] = b /\ gToken'[gActor[b].s] = 0  BY <2>1 DEF CallGrant
  <2>. QED  BY <2>1, <2>2, CallKept
<1>. QED  BY <1>1

LEMMA CoveredKept ==
    ASSUME GmailType, GrantsInv, gCreated' \in Nat, gCreated <= gCreated', gToken' = gToken, gMinted' = gMinted,
           gRevoked \subseteq gRevoked', gExpired \subseteq gExpired'
    PROVE  \A k \in 1..gMinted' : k \in gRevoked' \/ k \in gExpired' \/ \E s \in 1..gCreated' : gToken'[s] = k
<1>1. \A s \in 1..gCreated : s \in 1..gCreated'  BY DEF GmailType
<1>. QED  BY <1>1 DEF GrantsInv

LEMMA GrantEntriesKept ==
    ASSUME GmailType, GrantsInv, gCreated' \in Nat, gCreated <= gCreated', gBooking' \subseteq gBooking, gPending' = gPending
    PROVE  /\ \A e \in gBooking' : e.s \in 1..gCreated'
           /\ \A k \in 1..Len(gPending') : gPending'[k].s \in 1..gCreated'
<1>1. \A s \in 1..gCreated : s \in 1..gCreated'  BY DEF GmailType
<1>2. \A e \in gBooking' : e.s \in 1..gCreated'  BY <1>1 DEF GrantsInv
<1>3. \A k \in 1..Len(gPending) : gPending[k].s \in 1..gCreated'  BY <1>1 DEF GrantsInv
<1>. QED  BY <1>2, <1>3

LEMMA GrantsStep ==
    ASSUME GmailType, GrantsInv, GmailNext
    PROVE  GrantsInv'
<1>0. /\ gCreated \in Nat /\ gMinted \in Nat /\ MaxSessions \in Nat /\ gCreated <= MaxSessions
      /\ \A b \in GmailActors : CallGrant(b) /\ gActor[b] \in GmailCalls
      /\ IsFiniteSet(gRevoked) /\ IsFiniteSet(gExpired)
  BY GmailNats DEF GmailType, GrantsInv
<1>1. ASSUME NEW a \in GmailReaders, NEW again \in BOOLEAN, BeginCall(a, again) PROVE GrantsInv'
  <2>0. /\ gToken' = gToken /\ gLock' = gLock /\ gRevoked' = gRevoked /\ gExpired' = gExpired /\ gMinted' = gMinted
        /\ gBooking' = gBooking /\ gPending' = gPending /\ a \in GmailActors
    BY <1>1 DEF BeginCall, GmailActors
  <2>1. PICK s \in SessionIds : SessionFor(s) /\ gActor'[a].pc = "token" /\ gActor'[a].s = s  BY <1>1, BeginMoves
  <2>2. gCreated' \in Nat /\ gCreated <= gCreated' /\ s \in 1..gCreated'  BY <1>0, <2>1, SessionMoves
  <2>3. CallGrant(a)'  BY <2>1, <2>2 DEF CallGrant
  <2>4. \A b \in GmailActors : CallGrant(b)'  BY <1>1, <2>0, <2>2, <2>3, BeginMoves, OthersKept
  <2>. QED  BY <1>0, <2>0, <2>2, <2>4, CoveredKept, GrantEntriesKept DEF GrantsInv
<1>2. ASSUME NEW a \in GmailActors, GetToken(a) PROVE GrantsInv'
  <2>0. /\ gToken' = gToken /\ gCreated' = gCreated /\ gRevoked' = gRevoked /\ gExpired' = gExpired /\ gMinted' = gMinted
        /\ gBooking' = gBooking /\ gPending' = gPending /\ gActor[a].pc = "token"
    BY <1>2 DEF GetToken
  <2>1. gActor[a].s \in SessionIds /\ gActor[a].s \in 1..gCreated  BY <1>0, <2>0 DEF CallGrant, SessionIds
  <2>2. /\ Alone(a) /\ gLock[gActor[a].s] = "free"
        /\ \/ CallIsOver(a, "invalidated") /\ gLock' = gLock
           \/ Goes(a, "send") /\ gLock' = gLock
           \/ Goes(a, "refresh") /\ gToken[gActor[a].s] = 0 /\ gLock' = [gLock EXCEPT ![gActor[a].s] = a]
    BY <1>2, <2>1, GetTokenMoves
  <2>3. CASE gLock' = gLock
    <3>1. CASE CallIsOver(a, "invalidated")
      <4>1. CallGrant(a)'  BY <1>0, <2>0, <3>1, EndedGrant
      <4>2. \A b \in GmailActors : CallGrant(b)'  BY <1>0, <2>0, <2>2, <2>3, <4>1, OthersKept
      <4>. QED  BY <1>0, <2>0, <4>2, CoveredKept, GrantEntriesKept DEF GrantsInv
    <3>2. CASE Goes(a, "send")
      <4>1. CallGrant(a)'  BY <2>0, <2>1, <3>2 DEF CallGrant, Goes
      <4>2. \A b \in GmailActors : CallGrant(b)'  BY <1>0, <2>0, <2>2, <2>3, <4>1, OthersKept
      <4>. QED  BY <1>0, <2>0, <4>2, CoveredKept, GrantEntriesKept DEF GrantsInv
    <3>3. CASE Goes(a, "refresh") /\ gToken[gActor[a].s] = 0 /\ gLock' = [gLock EXCEPT ![gActor[a].s] = a]
      <4>1. gLock'[gActor[a].s] = a  BY <2>1, <3>3 DEF GmailType
      <4>. QED  BY <2>1, <2>2, <2>3, <4>1, GmailNats DEF GmailType
    <3>. QED  BY <2>2, <3>1, <3>2, <3>3
  <2>4. CASE Goes(a, "refresh") /\ gToken[gActor[a].s] = 0 /\ gLock' = [gLock EXCEPT ![gActor[a].s] = a]
    <3>1. CallGrant(a)'  BY <2>0, <2>1, <2>4 DEF CallGrant, Goes, GmailType
    <3>2. \A b \in GmailActors \ {a} : CallGrant(b)'
      <4>. SUFFICES ASSUME NEW b \in GmailActors \ {a} PROVE CallGrant(b)'  OBVIOUS
      <4>1. CallGrant(b) /\ gActor'[b] = gActor[b]  BY <1>0, <2>2 DEF Alone
      <4>2. gActor[b].pc = "refresh" => gLock'[gActor[b].s] = b /\ gToken'[gActor[b].s] = 0
        <5>. SUFFICES ASSUME gActor[b].pc = "refresh" PROVE gLock'[gActor[b].s] = b /\ gToken'[gActor[b].s] = 0  OBVIOUS
        <5>1. gLock[gActor[b].s] = b /\ gToken[gActor[b].s] = 0 /\ b # "free" /\ gActor[b].s \in SessionIds
          BY <1>0, <4>1, GmailNats DEF CallGrant, SessionIds
        <5>2. gActor[b].s # gActor[a].s  BY <2>2, <5>1
        <5>. QED  BY <2>0, <2>1, <2>4, <5>1, <5>2 DEF GmailType
      <4>. QED  BY <1>0, <2>0, <4>1, <4>2, CallKept
    <3>3. \A b \in GmailActors : CallGrant(b)'  BY <3>1, <3>2
    <3>. QED  BY <1>0, <2>0, <3>3, CoveredKept, GrantEntriesKept DEF GrantsInv
  <2>. QED  BY <2>2, <2>3, <2>4
<1>3. ASSUME NEW a \in GmailActors, TokenRefreshed(a) PROVE GrantsInv'
  <2>0. /\ gCreated' = gCreated /\ gRevoked' = gRevoked /\ gExpired' = gExpired /\ gBooking' = gBooking /\ gPending' = gPending
        /\ gActor[a].pc = "refresh" /\ gLock' = [gLock EXCEPT ![gActor[a].s] = "free"]
    BY <1>3 DEF TokenRefreshed
  <2>1. /\ gActor[a].s \in SessionIds /\ gActor[a].s \in 1..gCreated /\ gLock[gActor[a].s] = a /\ gToken[gActor[a].s] = 0
    BY <1>0, <2>0 DEF CallGrant, SessionIds
  <2>2. /\ Alone(a)
        /\ \/ (CallIsOver(a, "invalidated") \/ CallIsOver(a, "failed")) /\ gToken' = gToken /\ gMinted' = gMinted
           \/ /\ Goes(a, "send") /\ gMinted' = gMinted + 1
              /\ gToken' = [gToken EXCEPT ![gActor[a].s] = gMinted']
    BY <1>3, RefreshMoves
  <2>3. CallGrant(a)'
    <3>1. CASE Goes(a, "send")  BY <2>0, <2>1, <3>1 DEF CallGrant, Goes
    <3>2. CASE CallIsOver(a, "invalidated") \/ CallIsOver(a, "failed")  BY <1>0, <2>0, <3>2, EndedGrant
    <3>. QED  BY <2>2, <3>1, <3>2
  <2>4. \A b \in GmailActors \ {a} : CallGrant(b)'
    <3>. SUFFICES ASSUME NEW b \in GmailActors \ {a} PROVE CallGrant(b)'  OBVIOUS
    <3>1. CallGrant(b) /\ gActor'[b] = gActor[b]  BY <1>0, <2>2 DEF Alone
    <3>2. gActor[b].pc = "refresh" => gLock'[gActor[b].s] = b /\ gToken'[gActor[b].s] = 0
      <4>. SUFFICES ASSUME gActor[b].pc = "refresh" PROVE gLock'[gActor[b].s] = b /\ gToken'[gActor[b].s] = 0  OBVIOUS
      <4>1. gLock[gActor[b].s] = b /\ gToken[gActor[b].s] = 0 /\ gActor[b].s \in SessionIds  BY <1>0, <3>1 DEF CallGrant, SessionIds
      <4>2. gActor[b].s # gActor[a].s  BY <2>1, <4>1
      <4>. QED  BY <2>0, <2>1, <2>2, <4>1, <4>2 DEF GmailType
    <3>. QED  BY <1>0, <2>0, <3>1, <3>2, CallKept
  <2>5. \A k \in 1..gMinted' : k \in gRevoked' \/ k \in gExpired' \/ \E s \in 1..gCreated' : gToken'[s] = k
    <3>1. CASE gToken' = gToken /\ gMinted' = gMinted  BY <1>0, <2>0, <3>1, CoveredKept
    <3>2. CASE gMinted' = gMinted + 1 /\ gToken' = [gToken EXCEPT ![gActor[a].s] = gMinted']
      <4>. SUFFICES ASSUME NEW k \in 1..gMinted'
                    PROVE  k \in gRevoked' \/ k \in gExpired' \/ \E s \in 1..gCreated' : gToken'[s] = k
        OBVIOUS
      <4>1. CASE k = gMinted'  BY <2>0, <2>1, <3>2, <4>1 DEF GmailType
      <4>2. CASE k \in 1..gMinted
        <5>1. k # 0  BY <4>2
        <5>2. k \in gRevoked \/ k \in gExpired \/ \E s \in 1..gCreated : gToken[s] = k  BY <4>2 DEF GrantsInv
        <5>3. \A s \in 1..gCreated : gToken[s] = k => gToken'[s] = k
          <6>1. 1..gCreated \subseteq SessionIds  BY <1>0 DEF SessionIds
          <6>. QED  BY <2>1, <3>2, <5>1, <6>1 DEF GmailType
        <5>. QED  BY <2>0, <5>2, <5>3
      <4>. QED  BY <1>0, <3>2, <4>1, <4>2
    <3>. QED  BY <2>2, <3>1, <3>2
  <2>6. \A b \in GmailActors : CallGrant(b)'  BY <2>3, <2>4
  <2>. QED  BY <1>0, <2>0, <2>5, <2>6, GrantEntriesKept DEF GrantsInv
<1>4. ASSUME NEW a \in GmailActors, SendCall(a) PROVE GrantsInv'
  <2>0. /\ gCreated' = gCreated /\ gToken' = gToken /\ gLock' = gLock /\ gRevoked' = gRevoked /\ gExpired' = gExpired
        /\ gMinted' = gMinted /\ gBooking' = gBooking /\ gPending' = gPending /\ gActor[a].pc = "send"
    BY <1>4 DEF SendCall
  <2>1. Alone(a) /\ (CallIsOver(a, "invalidated") \/ Goes(a, "wire"))  BY <1>4, SendMoves
  <2>2. CallGrant(a)'
    <3>1. CASE Goes(a, "wire")  BY <1>0, <2>0, <3>1 DEF CallGrant, Goes
    <3>2. CASE CallIsOver(a, "invalidated")  BY <1>0, <2>0, <3>2, EndedGrant
    <3>. QED  BY <2>1, <3>1, <3>2
  <2>3. \A b \in GmailActors : CallGrant(b)'  BY <1>0, <2>0, <2>1, <2>2, OthersKept
  <2>. QED  BY <1>0, <2>0, <2>3, CoveredKept, GrantEntriesKept DEF GrantsInv
<1>5. ASSUME NEW a \in GmailActors, Serve(a) PROVE GrantsInv'
  <2>0. /\ gCreated' = gCreated /\ gToken' = gToken /\ gLock' = gLock /\ gRevoked' = gRevoked /\ gExpired' = gExpired
        /\ gMinted' = gMinted /\ gBooking' = gBooking /\ gPending' = gPending /\ gActor[a].pc = "wire"
    BY <1>5 DEF Serve
  <2>1. /\ Alone(a) /\ Goes(a, "answer") /\ gActor'[a].tok = gActor[a].tok
        /\ gActor'[a].answer = "unauthorized" => gActor[a].tok \in gRevoked
    BY <1>5, ServeMoves
  <2>2. CallGrant(a)'  BY <1>0, <2>0, <2>1 DEF CallGrant, Goes
  <2>3. \A b \in GmailActors : CallGrant(b)'  BY <1>0, <2>0, <2>1, <2>2, OthersKept
  <2>. QED  BY <1>0, <2>0, <2>3, CoveredKept, GrantEntriesKept DEF GrantsInv
<1>6. ASSUME NEW a \in GmailActors, Answered(a) PROVE GrantsInv'
  <2>0. /\ gCreated' = gCreated /\ gToken' = gToken /\ gLock' = gLock /\ gRevoked' = gRevoked /\ gExpired' = gExpired
        /\ gMinted' = gMinted /\ gBooking' = gBooking /\ gPending' = gPending /\ gActor[a].pc = "answer"
    BY <1>6 DEF Answered
  <2>1. /\ Alone(a)
        /\ \/ \E out \in {"invalidated", gActor[a].answer} : CallIsOver(a, out)
           \/ gActor[a].answer = "unauthorized" /\ Goes(a, "reject") /\ gActor'[a].tok = gActor[a].tok
    BY <1>6, AnswerMoves
  <2>2. CallGrant(a)'
    <3>1. CASE gActor[a].answer = "unauthorized" /\ Goes(a, "reject") /\ gActor'[a].tok = gActor[a].tok
      BY <1>0, <2>0, <3>1 DEF CallGrant, Goes
    <3>2. ASSUME NEW out, CallIsOver(a, out) PROVE CallGrant(a)'  BY <1>0, <2>0, <3>2, EndedGrant
    <3>. QED  BY <2>1, <3>1, <3>2
  <2>3. \A b \in GmailActors : CallGrant(b)'  BY <1>0, <2>0, <2>1, <2>2, OthersKept
  <2>. QED  BY <1>0, <2>0, <2>3, CoveredKept, GrantEntriesKept DEF GrantsInv
<1>7. ASSUME NEW a \in GmailActors, RejectSession(a) PROVE GrantsInv'
  <2>0. /\ gCreated' = gCreated /\ gLock' = gLock /\ gRevoked' = gRevoked /\ gExpired' = gExpired
        /\ gMinted' = gMinted /\ gBooking' = gBooking /\ gPending' = gPending /\ gActor[a].pc = "reject"
    BY <1>7 DEF RejectSession
  <2>1. gActor[a].s \in SessionIds /\ gActor[a].s \in 1..gCreated /\ gActor[a].tok \in gRevoked
    BY <1>0, <2>0 DEF CallGrant, SessionIds
  <2>2. /\ Alone(a)
        /\ \/ CallIsOver(a, "invalidated") /\ gToken' = gToken
           \/ /\ Goes(a, "token") \/ CallIsOver(a, "unauthorized")
              /\ gToken' = IF gToken[gActor[a].s] = gActor[a].tok THEN [gToken EXCEPT ![gActor[a].s] = 0] ELSE gToken
    BY <1>7, RejectMoves
  <2>3. CallGrant(a)'
    <3>1. CASE Goes(a, "token")  BY <1>0, <2>0, <3>1 DEF CallGrant, Goes
    <3>2. CASE CallIsOver(a, "invalidated") \/ CallIsOver(a, "unauthorized")  BY <1>0, <2>0, <3>2, EndedGrant
    <3>. QED  BY <2>2, <3>1, <3>2
  <2>4. \A s \in SessionIds : gToken'[s] = gToken[s] \/ (gToken'[s] = 0 /\ gToken[s] \in gRevoked)
    <3>1. gToken' = gToken \/ (gToken[gActor[a].s] \in gRevoked /\ gToken' = [gToken EXCEPT ![gActor[a].s] = 0])  BY <2>1, <2>2
    <3>. QED  BY <2>1, <3>1 DEF GmailType
  <2>5. \A b \in GmailActors : CallGrant(b)'
    <3>. SUFFICES ASSUME NEW b \in GmailActors \ {a} PROVE CallGrant(b)'  BY <2>3
    <3>1. CallGrant(b) /\ gActor'[b] = gActor[b]  BY <1>0, <2>2 DEF Alone
    <3>2. gActor[b].pc = "refresh" => gLock'[gActor[b].s] = b /\ gToken'[gActor[b].s] = 0
      BY <1>0, <2>0, <2>4, <3>1 DEF CallGrant, SessionIds
    <3>. QED  BY <1>0, <2>0, <3>1, <3>2, CallKept
  <2>6. \A k \in 1..gMinted' : k \in gRevoked' \/ k \in gExpired' \/ \E s \in 1..gCreated' : gToken'[s] = k
    <3>1. 1..gCreated \subseteq SessionIds  BY <1>0 DEF SessionIds
    <3>. QED  BY <2>0, <2>4, <3>1 DEF GrantsInv
  <2>. QED  BY <1>0, <2>0, <2>5, <2>6, GrantEntriesKept DEF GrantsInv
<1>8. ASSUME NEW t \in Tickets, Book(t) PROVE GrantsInv'
  <2>0. /\ gActor' = gActor /\ gToken' = gToken /\ gLock' = gLock /\ gRevoked' = gRevoked /\ gExpired' = gExpired
        /\ gMinted' = gMinted /\ gPending' = gPending
    BY <1>8 DEF Book
  <2>1. PICK s \in SessionIds : SessionFor(s) /\ gBooking' = gBooking \cup {[t |-> t, s |-> s]}  BY <1>8, BookMoves
  <2>2. gCreated' \in Nat /\ gCreated <= gCreated' /\ s \in 1..gCreated'  BY <1>0, <2>1, SessionMoves
  <2>3. \A b \in GmailActors : CallGrant(b)'
    <3>. SUFFICES ASSUME NEW b \in GmailActors PROVE CallGrant(b)'  OBVIOUS
    <3>1. gActor[b].pc = "refresh" => gLock'[gActor[b].s] = b /\ gToken'[gActor[b].s] = 0  BY <1>0, <2>0 DEF CallGrant
    <3>. QED  BY <1>0, <2>0, <2>2, <3>1, CallKept
  <2>4. \A x \in 1..gCreated : x \in 1..gCreated'  BY <1>0, <2>2
  <2>5. \A e \in gBooking' : e.s \in 1..gCreated'  BY <2>1, <2>2, <2>4 DEF GrantsInv
  <2>6. \A k \in 1..Len(gPending') : gPending'[k].s \in 1..gCreated'  BY <2>0, <2>4 DEF GrantsInv
  <2>. QED  BY <1>0, <2>0, <2>2, <2>3, <2>5, <2>6, CoveredKept DEF GrantsInv
<1>9. ASSUME NEW e \in gBooking, Join(e) PROVE GrantsInv'
  <2>0. /\ gCreated' = gCreated /\ gToken' = gToken /\ gLock' = gLock /\ gRevoked' = gRevoked /\ gExpired' = gExpired
        /\ gMinted' = gMinted
    BY <1>9 DEF Join
  <2>1. /\ Alone("drain") /\ gBooking' = gBooking \ {e} /\ e \in GmailEntries /\ "drain" \in GmailActors
        /\ gActor'["drain"] = gActor["drain"] \/ gActor'["drain"].pc = "take"
    BY <1>9, JoinMoves, GmailNats
  <2>2. CallGrant("drain")'  BY <1>0, <2>0, <2>1 DEF CallGrant
  <2>3. \A b \in GmailActors : CallGrant(b)'  BY <1>0, <2>0, <2>1, <2>2, OthersKept
  <2>4. \A k \in 1..Len(gPending') : gPending'[k].s \in 1..gCreated'
    <3>1. CASE gPending' = gPending  BY <2>0, <3>1 DEF GrantsInv
    <3>2. CASE gPending' = Append(gPending, e)
      <4>1. gPending \in Seq(GmailEntries) /\ Len(gPending) \in Nat  BY DEF GmailType
      <4>2. /\ Len(Append(gPending, e)) = Len(gPending) + 1 /\ Append(gPending, e)[Len(gPending) + 1] = e
            /\ \A k \in 1..Len(gPending) : Append(gPending, e)[k] = gPending[k]
        BY <2>1, <4>1, AppendProperties
      <4>3. \A k \in 1..Len(gPending') : k \in 1..Len(gPending) \/ k = Len(gPending) + 1  BY <3>2, <4>1, <4>2
      <4>4. e.s \in 1..gCreated  BY <1>9 DEF GrantsInv
      <4>. QED  BY <2>0, <3>2, <4>2, <4>3, <4>4 DEF GrantsInv
    <3>. QED  BY <1>9, <3>1, <3>2, JoinMoves
  <2>5. \A x \in gBooking' : x.s \in 1..gCreated'  BY <2>0, <2>1 DEF GrantsInv
  <2>. QED  BY <1>0, <2>0, <2>3, <2>4, <2>5, CoveredKept DEF GrantsInv
<1>10. CASE TakeNext
  <2>0. /\ gCreated' = gCreated /\ gToken' = gToken /\ gLock' = gLock /\ gRevoked' = gRevoked /\ gExpired' = gExpired
        /\ gMinted' = gMinted /\ gBooking' = gBooking /\ "drain" \in GmailActors
    BY <1>10, GmailNats DEF TakeNext
  <2>1. gPending \in Seq(GmailEntries) /\ Len(gPending) \in Nat  BY DEF GmailType
  <2>2. gPending # <<>> => 1 \in 1..Len(gPending)  BY <2>1, EmptySeq
  <2>3. CallGrant("drain")'
    <3>1. CASE gActor'["drain"] = IdleGmail  BY <3>1, IdleType DEF CallGrant
    <3>2. CASE gActor' = gActor  BY <1>0, <2>0, <3>2 DEF CallGrant
    <3>3. CASE gPending # <<>> /\ gActor'["drain"].pc = "token" /\ gActor'["drain"].s = gPending[1].s
      BY <2>0, <2>2, <3>3 DEF CallGrant, GrantsInv
    <3>. QED  BY <1>10, <3>1, <3>2, <3>3, TakeMoves
  <2>4. \A b \in GmailActors : CallGrant(b)'  BY <1>0, <1>10, <2>0, <2>3, TakeMoves, OthersKept
  <2>5. \A k \in 1..Len(gPending') : gPending'[k].s \in 1..gCreated'
    <3>1. CASE gPending' = gPending  BY <2>0, <3>1 DEF GrantsInv
    <3>2. CASE gPending # <<>> /\ gPending' = Tail(gPending)
      <4>1. Len(gPending') = Len(gPending) - 1 /\ \A k \in 1..Len(gPending') : gPending'[k] = gPending[k + 1]
        BY <2>1, <3>2, HeadTailProperties
      <4>2. \A k \in 1..Len(gPending') : k + 1 \in 1..Len(gPending)  BY <2>1, <4>1
      <4>. QED  BY <2>0, <4>1, <4>2 DEF GrantsInv
    <3>. QED  BY <1>10, <3>1, <3>2, TakeMoves
  <2>6. \A x \in gBooking' : x.s \in 1..gCreated'  BY <2>0 DEF GrantsInv
  <2>. QED  BY <1>0, <2>0, <2>4, <2>5, <2>6, CoveredKept DEF GrantsInv
<1>11. CASE Logout  BY <1>11 DEF Logout, GrantsInv, CallGrant
<1>12. CASE SweepQueue
  <2>1. gPending' = <<>> /\ \A k \in 1..Len(gPending') : gPending'[k].s \in 1..gCreated'  BY <1>12, EmptySeq DEF SweepQueue
  <2>. QED  BY <1>12, <2>1 DEF SweepQueue, GrantsInv, CallGrant
<1>13. CASE EvictSession  BY <1>13 DEF EvictSession, GrantsInv, CallGrant
<1>14. ASSUME NEW k \in 1..MaxGrants, Revoke(k) PROVE GrantsInv'
  <2>0. /\ gCreated' = gCreated /\ gToken' = gToken /\ gLock' = gLock /\ gRevoked' = gRevoked \cup {k} /\ gExpired' = gExpired
        /\ gMinted' = gMinted /\ gBooking' = gBooking /\ gActor' = gActor /\ gPending' = gPending
    BY <1>14 DEF Revoke
  <2>1. IsFiniteSet(gRevoked')  BY <1>0, <2>0, FS_AddElement
  <2>2. \A b \in GmailActors : CallGrant(b)'  BY <1>0, <2>0 DEF CallGrant
  <2>. QED  BY <1>0, <2>0, <2>1, <2>2, CoveredKept, GrantEntriesKept DEF GrantsInv
<1>15. ASSUME NEW s \in SessionIds, Expire(s) PROVE GrantsInv'
  <2>0. /\ gCreated' = gCreated /\ gLock' = gLock /\ gRevoked' = gRevoked /\ gExpired' = gExpired \cup {gToken[s]}
        /\ gMinted' = gMinted /\ gBooking' = gBooking /\ gActor' = gActor /\ gPending' = gPending
        /\ gToken' = [gToken EXCEPT ![s] = 0]
    BY <1>15 DEF Expire
  <2>1. IsFiniteSet(gExpired')  BY <1>0, <2>0, FS_AddElement
  <2>2. \A x \in SessionIds : gToken'[x] = gToken[x] \/ (gToken'[x] = 0 /\ gToken[x] \in gExpired')  BY <2>0 DEF GmailType
  <2>3. 1..gCreated \subseteq SessionIds  BY <1>0 DEF SessionIds
  <2>4. \A b \in GmailActors : CallGrant(b)'
    <3>1. \A x \in 1..gCreated : gToken[x] = 0 => gToken'[x] = 0  BY <2>2, <2>3
    <3>. QED  BY <1>0, <2>0, <3>1 DEF CallGrant
  <2>5. \A k \in 1..gMinted' : k \in gRevoked' \/ k \in gExpired' \/ \E x \in 1..gCreated' : gToken'[x] = k
    BY <2>0, <2>2, <2>3 DEF GrantsInv
  <2>. QED  BY <1>0, <2>0, <2>1, <2>4, <2>5, GrantEntriesKept DEF GrantsInv
<1>. QED  BY <1>1, <1>2, <1>3, <1>4, <1>5, <1>6, <1>7, <1>8, <1>9, <1>10, <1>11, <1>12, <1>13, <1>14, <1>15 DEF GmailNext, CallStep

LEMMA LossesCount ==
    ASSUME GmailType, GrantsInv
    PROVE  OneRefreshPerLoss
<1>. DEFINE Grants == {gToken[s] : s \in 1..gCreated}
<1>. DEFINE Lost == gRevoked \cup gExpired
<1>0. gCreated \in Nat /\ gMinted \in Nat  BY GmailNats DEF GmailType
<1>1. IsFiniteSet(Grants) /\ Cardinality(Grants) <= gCreated /\ Cardinality(Grants) \in Nat
  <2>1. [s \in 1..gCreated |-> gToken[s]] \in Surjection(1..gCreated, Grants)  BY DEF Surjection
  <2>2. IsFiniteSet(1..gCreated) /\ Cardinality(1..gCreated) = gCreated  BY <1>0, FS_Interval
  <2>3. IsFiniteSet(Grants) /\ Cardinality(Grants) <= gCreated  BY <2>1, <2>2, FS_Surjection
  <2>. QED  BY <2>3, FS_CardinalityType
<1>2. IsFiniteSet(Lost) /\ Cardinality(Lost) <= Cardinality(gRevoked) + Cardinality(gExpired)
  <2>1. IsFiniteSet(gRevoked) /\ IsFiniteSet(gExpired) /\ IsFiniteSet(gRevoked \cap gExpired)  BY FS_Intersection DEF GrantsInv
  <2>2. Cardinality(gRevoked) \in Nat /\ Cardinality(gExpired) \in Nat /\ Cardinality(gRevoked \cap gExpired) \in Nat
    BY <2>1, FS_CardinalityType
  <2>3. IsFiniteSet(Lost) /\ Cardinality(Lost) = Cardinality(gRevoked) + Cardinality(gExpired) - Cardinality(gRevoked \cap gExpired)
    BY <2>1, FS_Union
  <2>. QED  BY <2>2, <2>3
<1>3. IsFiniteSet(Lost \cup Grants) /\ Cardinality(Lost \cup Grants) <= Cardinality(Lost) + Cardinality(Grants)
  <2>1. IsFiniteSet(Lost \cap Grants)  BY <1>1, <1>2, FS_Intersection
  <2>2. Cardinality(Lost) \in Nat /\ Cardinality(Grants) \in Nat /\ Cardinality(Lost \cap Grants) \in Nat
    BY <1>1, <1>2, <2>1, FS_CardinalityType
  <2>3. IsFiniteSet(Lost \cup Grants) /\ Cardinality(Lost \cup Grants) = Cardinality(Lost) + Cardinality(Grants) - Cardinality(Lost \cap Grants)
    BY <1>1, <1>2, FS_Union
  <2>. QED  BY <2>2, <2>3
<1>4. 1..gMinted \subseteq Lost \cup Grants  BY DEF GrantsInv
<1>5. Cardinality(1..gMinted) = gMinted  BY <1>0, FS_Interval
<1>6. gMinted <= Cardinality(Lost \cup Grants)
  <2>. DEFINE All == Lost \cup Grants
  <2>1. IsFiniteSet(All) /\ 1..gMinted \in SUBSET All  BY <1>3, <1>4
  <2>. HIDE DEF All
  <2>2. Cardinality(1..gMinted) <= Cardinality(All)  BY <2>1, FS_Subset
  <2>. QED  BY <1>5, <2>2 DEF All
<1>7. Cardinality(Lost) \in Nat /\ Cardinality(Lost \cup Grants) \in Nat /\ Cardinality(gRevoked) \in Nat /\ Cardinality(gExpired) \in Nat
  BY <1>2, <1>3, FS_CardinalityType DEF GrantsInv
<1>. HIDE DEF Lost, Grants
<1>. QED  BY <1>0, <1>1, <1>2, <1>3, <1>6, <1>7 DEF OneRefreshPerLoss

LEMMA GrantsStart ==
    ASSUME GmailInit
    PROVE  GmailType /\ GrantsInv
<1>0. MaxSessions \in Nat /\ IdleGmail \in GmailCalls  BY GmailNats, IdleType
<1>1. gActor \in [GmailActors -> GmailCalls] /\ gToken \in [SessionIds -> Nat] /\ gLock \in [SessionIds -> GmailActors \cup {"free"}]
  BY <1>0 DEF GmailInit
<1>2. gMinted = 0 /\ gCreated = 0 /\ gSession = 0 /\ gBooking = {} /\ gPending = <<>> /\ gBooked = <<>> /\ gApplied = <<>>
  BY DEF GmailInit
<1>3. gCreated \in 0..MaxSessions /\ gSession \in 0..gCreated /\ gMinted \in Nat  BY <1>0, <1>2
<1>4. gPending \in Seq(GmailEntries) /\ gBooked \in Seq(Tickets) /\ gApplied \in Seq(Tickets) /\ Len(gPending) = 0
  BY <1>2, EmptySeq
<1>5. GmailType  BY <1>1, <1>2, <1>3, <1>4 DEF GmailType
<1>6. \A b \in GmailActors : CallGrant(b)
  <2>1. \A b \in GmailActors : gActor[b] = IdleGmail  BY DEF GmailInit
  <2>. QED  BY <2>1, IdleType DEF CallGrant
<1>7. IsFiniteSet(gRevoked) /\ IsFiniteSet(gExpired)  BY FS_EmptySet DEF GmailInit
<1>8. \A k \in 1..gMinted : FALSE  BY <1>2
<1>9. \A k \in 1..Len(gPending) : FALSE  BY <1>4
<1>. QED  BY <1>2, <1>5, <1>6, <1>7, <1>8, <1>9 DEF GrantsInv

LEMMA GmailStutters == GmailType /\ GrantsInv /\ UNCHANGED gmailVars => GmailType' /\ GrantsInv'
BY DEF gmailVars, GmailType, GrantsInv, CallGrant

(* A grant is minted only for a new session or because an earlier one expired or was revoked: calls that see the
   same 401 share one refresh (gmail.rs: token_with refreshes under the lock, reject drops only its own grant). *)
THEOREM RefreshesCoalesce == GmailSpec => []OneRefreshPerLoss
<1>1. GmailType /\ GrantsInv /\ [GmailNext]_gmailVars => (GmailType /\ GrantsInv)'  BY GmailTypeStep, GrantsStep, GmailStutters
<1>2. GmailType /\ GrantsInv => OneRefreshPerLoss  BY LossesCount
<1>. QED  BY <1>1, <1>2, GrantsStart, PTL DEF GmailSpec

(* The order. *)
\* How many entries the drainer took, or logout swept.
Taken == Len(gBooked) - Len(gPending)
QueueInv ==
    /\ Len(gPending) <= Len(gBooked)
    /\ \A k \in 1..Len(gPending) : gPending[k].t = gBooked[Taken + k]
    /\ \A x, y \in 1..Len(gBooked) : gBooked[x] = gBooked[y] => x = y
    /\ \A e \in gBooking : gSettled[e.t] # "none" /\ \A x \in 1..Len(gBooked) : gBooked[x] # e.t
    /\ \A e, f \in gBooking : e.t = f.t => e = f
    /\ \A x \in 1..Len(gBooked) : gSettled[gBooked[x]] # "none"
AppliedInv ==
    /\ \A i \in 1..Len(gApplied) : \E x \in 1..Taken : gBooked[x] = gApplied[i]
    /\ \A i, j \in 1..Len(gApplied), x, y \in 1..Len(gBooked) :
          i < j /\ gBooked[x] = gApplied[i] /\ gBooked[y] = gApplied[j] => x < y
\* A mutation Google has not carried out, nor may have.
Unsent(l) == \/ l.pc \in {"token", "refresh", "send", "wire", "reject"}
             \/ l.pc = "answer" /\ l.answer \in {"limited", "unauthorized", "forbidden"}
Behind(l) == \A i \in 1..Len(gApplied), x, y \in 1..Len(gBooked) :
    gBooked[x] = gApplied[i] /\ gBooked[y] = l.job => x <= y /\ (Unsent(l) => x < y)
DrainInv == LET me == gActor["drain"] IN
    /\ me.pc \in {"idle", "take"} => me.job = 0
    /\ me.pc = "answer" => me.answer # "none"
    /\ me.job # 0 => (\E x \in 1..Taken : gBooked[x] = me.job) /\ Behind(me)
    /\ me.pc = "answer" /\ me.answer = "ok" /\ me.job # 0 => \E i \in 1..Len(gApplied) : gApplied[i] = me.job
ToldInOrder ==
    /\ \A a \in GmailReaders : gActor[a].job = 0
    /\ \A t \in Tickets : gSettled[t] = "ok" => \E i \in 1..Len(gApplied) : gApplied[i] = t
OrderInv == QueueInv /\ AppliedInv /\ DrainInv /\ ToldInOrder

LEMMA OrderLens ==
    ASSUME GmailType, QueueInv
    PROVE  /\ Len(gBooked) \in Nat /\ Len(gPending) \in Nat /\ Len(gApplied) \in Nat
           /\ Taken \in Nat /\ Taken <= Len(gBooked)
           /\ \A x \in 1..Len(gBooked) : gBooked[x] \in Tickets /\ gBooked[x] # 0
<1>1. gBooked \in Seq(Tickets) /\ gPending \in Seq(GmailEntries) /\ gApplied \in Seq(Tickets) /\ Len(gPending) <= Len(gBooked)
  BY DEF GmailType, QueueInv
<1>2. Len(gBooked) \in Nat /\ Len(gPending) \in Nat /\ Len(gApplied) \in Nat  BY <1>1, LenProperties
<1>3. Taken \in Nat /\ Taken <= Len(gBooked)  BY <1>1, <1>2 DEF Taken
<1>4. \A x \in 1..Len(gBooked) : gBooked[x] \in Tickets  BY <1>1, ElementOfSeq
<1>5. \A t \in Tickets : t # 0  BY DEF Tickets
<1>. QED  BY <1>2, <1>3, <1>4, <1>5

LEMMA QueueKept ==
    ASSUME GmailType, QueueInv, gBooking' = gBooking, gBooked' = gBooked, gPending' = gPending,
           \A t \in Tickets : gSettled[t] # "none" => gSettled'[t] # "none"
    PROVE  QueueInv' /\ Taken' = Taken
<1>1. \A e \in gBooking : e.t \in Tickets  BY DEF GmailType, GmailEntries
<1>2. \A x \in 1..Len(gBooked) : gBooked[x] \in Tickets  BY OrderLens
<1>. QED  BY <1>1, <1>2 DEF QueueInv, Taken

LEMMA ToldKept ==
    ASSUME ToldInOrder, \A a \in GmailReaders : gActor'[a].job = 0, gApplied' = gApplied,
           \A t \in Tickets : gSettled'[t] = "ok" => gSettled[t] = "ok" \/ \E i \in 1..Len(gApplied) : gApplied[i] = t
    PROVE  ToldInOrder'
BY DEF ToldInOrder

\* A call ends, and is told what came of it.
LEMMA EndedOrder ==
    ASSUME GmailType, OrderInv, NEW a \in GmailActors, Alone(a), NEW out, CallIsOver(a, out), out # "none",
           a = "drain" /\ out = "limited" => Unsent(gActor[a]),
           a = "drain" /\ out = "ok" /\ gActor[a].job # 0 => \E i \in 1..Len(gApplied) : gApplied[i] = gActor[a].job,
           gBooking' = gBooking, gBooked' = gBooked, gPending' = gPending, gApplied' = gApplied
    PROVE  OrderInv'
<1>1. \A t \in Tickets : gSettled[t] # "none" => gSettled'[t] # "none"  BY DEF CallIsOver
<1>2. QueueInv' /\ Taken' = Taken  BY <1>1, QueueKept DEF OrderInv
<1>3. AppliedInv'  BY <1>2 DEF AppliedInv, OrderInv
<1>4. \A t \in Tickets : gSettled'[t] = "ok" => gSettled[t] = "ok" \/ \E i \in 1..Len(gApplied) : gApplied[i] = t
  <2>1. \A t \in Tickets : t # 0  BY DEF Tickets
  <2>. QED  BY <2>1 DEF CallIsOver
<1>5. \A b \in GmailReaders : gActor'[b].job = 0 /\ b # "drain" /\ b \in GmailActors
  <2>. SUFFICES ASSUME NEW b \in GmailReaders PROVE gActor'[b].job = 0 /\ b # "drain" /\ b \in GmailActors  OBVIOUS
  <2>1. b # "drain" /\ b \in GmailActors  BY GmailBounds DEF GmailActors
  <2>2. CASE b = a  BY <2>1, <2>2, IdleType DEF CallIsOver
  <2>3. CASE b # a  BY <2>1, <2>3 DEF Alone, OrderInv, ToldInOrder
  <2>. QED  BY <2>1, <2>2, <2>3
<1>6. ToldInOrder'  BY <1>4, <1>5, ToldKept DEF OrderInv
<1>7. DrainInv'
  <2>1. CASE a # "drain"
    <3>1. gActor'["drain"] = gActor["drain"]  BY <2>1, GmailNats DEF Alone
    <3>. QED  BY <1>2, <3>1 DEF DrainInv, OrderInv, Behind, Unsent
  <2>2. CASE a = "drain" /\ gActor'[a].pc = "take" /\ gActor'[a].job = 0  BY <2>2 DEF DrainInv
  <2>3. CASE a = "drain" /\ out = "limited" /\ gActor'[a].pc = "token" /\ gActor'[a].job = gActor[a].job
    <3>1. Unsent(gActor[a]) /\ DrainInv  BY <2>3 DEF OrderInv
    <3>2. gActor[a].job # 0 => Behind(gActor[a])'  BY <1>2, <2>3, <3>1 DEF DrainInv, Behind
    <3>3. gActor[a].pc \in {"idle", "take"} => gActor[a].job = 0  BY <2>3, <3>1 DEF DrainInv
    <3>. QED  BY <1>2, <2>3, <3>1, <3>2 DEF DrainInv
  <2>. QED  BY <2>1, <2>2, <2>3 DEF CallIsOver
<1>. QED  BY <1>2, <1>3, <1>6, <1>7 DEF OrderInv

\* A call goes on before anything was sent.
LEMMA GoesOrder ==
    ASSUME GmailType, OrderInv, NEW a \in GmailActors, Alone(a), NEW pc \in {"send", "refresh", "wire", "reject", "token"}, Goes(a, pc),
           Unsent(gActor[a]), gBooking' = gBooking, gBooked' = gBooked, gPending' = gPending, gApplied' = gApplied
    PROVE  OrderInv'
<1>2. QueueInv' /\ Taken' = Taken  BY QueueKept DEF OrderInv, Goes
<1>3. AppliedInv'  BY <1>2 DEF AppliedInv, OrderInv
<1>5. \A b \in GmailReaders : gActor'[b].job = 0
  <2>1. \A b \in GmailReaders : b \in GmailActors  BY DEF GmailActors
  <2>. QED  BY <2>1 DEF Alone, Goes, OrderInv, ToldInOrder
<1>6. ToldInOrder'  BY <1>5, ToldKept DEF OrderInv, Goes
<1>7. DrainInv'
  <2>1. CASE a # "drain"
    <3>1. gActor'["drain"] = gActor["drain"]  BY <2>1, GmailNats DEF Alone
    <3>. QED  BY <1>2, <3>1 DEF DrainInv, OrderInv, Behind, Unsent
  <2>2. CASE a = "drain"
    <3>1. gActor[a].job # 0 => Behind(gActor[a])'  BY <1>2, <2>2 DEF DrainInv, Behind, OrderInv, Goes
    <3>. QED  BY <1>2, <2>2, <3>1 DEF DrainInv, OrderInv, Goes
  <2>. QED  BY <2>1, <2>2
<1>. QED  BY <1>2, <1>3, <1>6, <1>7 DEF OrderInv

LEMMA ServeOrder ==
    ASSUME GmailType, OrderInv, NEW a \in GmailActors, Serve(a)
    PROVE  OrderInv'
<1>0. /\ gActor[a].pc = "wire" /\ Unsent(gActor[a]) /\ gBooking' = gBooking /\ gBooked' = gBooked /\ gPending' = gPending
      /\ gSettled' = gSettled /\ gActor[a] \in GmailCalls /\ "drain" \in GmailActors
  BY GmailNats DEF Serve, Unsent, GmailType
<1>1. /\ Alone(a) /\ Goes(a, "answer") /\ gActor'[a].answer # "none"
      /\ \/ gApplied' = gApplied /\ (gActor'[a].answer = "ok" => gActor[a].job = 0)
         \/ gActor[a].job # 0 /\ gApplied' = Append(gApplied, gActor[a].job) /\ gActor'[a].answer \in {"ok", "timeout"}
  BY ServeMoves DEF Carried
<1>2. QueueInv' /\ Taken' = Taken  BY <1>0, QueueKept DEF OrderInv
<1>3. \A b \in GmailReaders : gActor'[b].job = 0
  <2>1. \A b \in GmailReaders : b \in GmailActors  BY DEF GmailActors
  <2>. QED  BY <1>1, <2>1 DEF Alone, Goes, OrderInv, ToldInOrder
<1>4. CASE gApplied' = gApplied /\ (gActor'[a].answer = "ok" => gActor[a].job = 0)
  <2>1. AppliedInv'  BY <1>0, <1>2, <1>4 DEF AppliedInv, OrderInv
  <2>2. ToldInOrder'  BY <1>0, <1>3, <1>4, ToldKept DEF OrderInv
  <2>3. DrainInv'
    <3>1. CASE a # "drain"
      <4>1. gActor'["drain"] = gActor["drain"]  BY <1>0, <1>1, <3>1 DEF Alone
      <4>. QED  BY <1>0, <1>2, <1>4, <4>1 DEF DrainInv, OrderInv, Behind, Unsent
    <3>2. CASE a = "drain"
      <4>1. gActor[a].job # 0 => Behind(gActor[a])'  BY <1>0, <1>1, <1>2, <1>4, <3>2 DEF DrainInv, Behind, OrderInv, Goes
      <4>. QED  BY <1>0, <1>1, <1>2, <1>4, <3>2, <4>1 DEF DrainInv, OrderInv, Goes
    <3>. QED  BY <3>1, <3>2
  <2>. QED  BY <1>2, <2>1, <2>2, <2>3 DEF OrderInv
<1>5. CASE gActor[a].job # 0 /\ gApplied' = Append(gApplied, gActor[a].job) /\ gActor'[a].answer \in {"ok", "timeout"}
  <2>. DEFINE n == Len(gApplied)
  <2>. DEFINE job == gActor[a].job
  <2>1. a = "drain" /\ job \in Tickets /\ n \in Nat  BY <1>0, <1>5, OrderLens DEF OrderInv, ToldInOrder, GmailCalls, GmailActors
  <2>2. Len(gApplied') = n + 1 /\ gApplied'[n + 1] = job /\ \A i \in 1..n : gApplied'[i] = gApplied[i]
    <3>1. gApplied \in Seq(Tickets)  BY DEF GmailType
    <3>. QED  BY <1>5, <2>1, <3>1, AppendProperties
  <2>3. \A i \in 1..n + 1 : i \in 1..n \/ i = n + 1  BY <2>1
  <2>4. 1..n \subseteq 1..n + 1 /\ n + 1 \in 1..n + 1  BY <2>1
  <2>5. PICK z \in 1..Taken : gBooked[z] = job  BY <1>5, <2>1 DEF OrderInv, DrainInv
  <2>6. \A i \in 1..n, x, y \in 1..Len(gBooked) : gBooked[x] = gApplied[i] /\ gBooked[y] = job => x < y
    BY <1>0, <1>5, <2>1 DEF OrderInv, DrainInv, Behind
  <2>7. \A x, y \in 1..Len(gBooked) : gBooked[x] = gBooked[y] => x = y  BY DEF OrderInv, QueueInv
  <2>8. /\ \A i \in 1..n : \E x \in 1..Taken : gBooked[x] = gApplied[i]
        /\ \A i, j \in 1..n, x, y \in 1..Len(gBooked) : i < j /\ gBooked[x] = gApplied[i] /\ gBooked[y] = gApplied[j] => x < y
    BY DEF OrderInv, AppliedInv
  <2>. HIDE DEF n, job
  <2>9. AppliedInv'
    <3>1. \A i \in 1..n + 1 : \E x \in 1..Taken : gBooked[x] = gApplied'[i]  BY <2>2, <2>3, <2>5, <2>8
    <3>2. ASSUME NEW i \in 1..n + 1, NEW j \in 1..n + 1, NEW x \in 1..Len(gBooked), NEW y \in 1..Len(gBooked),
                 i < j, gBooked[x] = gApplied'[i], gBooked[y] = gApplied'[j]
          PROVE  x < y
      <4>1. i \in 1..n  BY <2>1, <3>2
      <4>2. CASE j \in 1..n  BY <2>2, <2>8, <3>2, <4>1, <4>2
      <4>3. CASE j = n + 1  BY <2>2, <2>6, <3>2, <4>1, <4>3
      <4>. QED  BY <2>3, <4>2, <4>3
    <3>. QED  BY <1>0, <1>2, <2>2, <3>1, <3>2 DEF AppliedInv
  <2>10. ToldInOrder'
    <3>1. \A t \in Tickets : gSettled'[t] = "ok" => \E i \in 1..n : gApplied[i] = t  BY <1>0 DEF OrderInv, ToldInOrder, n
    <3>2. \A t \in Tickets : gSettled'[t] = "ok" => \E i \in 1..n + 1 : gApplied'[i] = t  BY <2>2, <2>4, <3>1
    <3>. QED  BY <1>3, <2>2, <3>2 DEF ToldInOrder
  <2>11. DrainInv'
    <3>1. gActor'["drain"].pc = "answer" /\ gActor'["drain"].job = job /\ gActor'["drain"].answer \in {"ok", "timeout"}
      BY <1>1, <1>5, <2>1 DEF Goes, job
    <3>2. \A i \in 1..n + 1, x, y \in 1..Len(gBooked) : gBooked[x] = gApplied'[i] /\ gBooked[y] = job => x <= y
      <4>. SUFFICES ASSUME NEW i \in 1..n + 1, NEW x \in 1..Len(gBooked), NEW y \in 1..Len(gBooked),
                           gBooked[x] = gApplied'[i], gBooked[y] = job
                    PROVE  x <= y
        OBVIOUS
      <4>1. CASE i \in 1..n  BY <2>2, <2>6, <4>1
      <4>2. CASE i = n + 1  BY <2>2, <2>7, <4>2
      <4>. QED  BY <2>3, <4>1, <4>2
    <3>3. Behind(gActor["drain"])'  BY <1>0, <2>2, <3>1, <3>2 DEF Behind, Unsent
    <3>4. (\E x \in 1..Taken : gBooked[x] = job) /\ \E i \in 1..n + 1 : gApplied'[i] = job  BY <2>2, <2>4, <2>5
    <3>. QED  BY <1>0, <1>2, <2>2, <3>1, <3>3, <3>4 DEF DrainInv
  <2>. QED  BY <1>2, <2>9, <2>10, <2>11 DEF OrderInv
<1>. QED  BY <1>1, <1>4, <1>5

LEMMA TakeOrder ==
    ASSUME GmailType, OrderInv, TakeNext
    PROVE  OrderInv'
<1>0. /\ gBooking' = gBooking /\ gBooked' = gBooked /\ gApplied' = gApplied /\ "drain" \in GmailActors /\ "drain" \notin GmailReaders
      /\ gPending \in Seq(GmailEntries)
  BY GmailNats, GmailBounds DEF TakeNext, GmailType
<1>1. Alone("drain")  BY TakeMoves
<1>2. \A b \in GmailReaders : gActor'[b].job = 0
  <2>1. \A b \in GmailReaders : b \in GmailActors  BY DEF GmailActors
  <2>. QED  BY <1>0, <1>1, <2>1 DEF Alone, OrderInv, ToldInOrder
<1>3. CASE gActor'["drain"] = IdleGmail /\ gPending' = gPending /\ gSettled' = gSettled
  <2>1. QueueInv' /\ Taken' = Taken  BY <1>0, <1>3, QueueKept DEF OrderInv
  <2>2. AppliedInv'  BY <1>0, <2>1 DEF AppliedInv, OrderInv
  <2>3. ToldInOrder'  BY <1>0, <1>2, <1>3, ToldKept DEF OrderInv
  <2>4. DrainInv'  BY <1>3, IdleType DEF DrainInv
  <2>. QED  BY <2>1, <2>2, <2>3, <2>4 DEF OrderInv
<1>4. CASE gPending # <<>> /\ gPending' = Tail(gPending)
  <2>1. /\ Len(gPending) \in Nat /\ 1 \in 1..Len(gPending) /\ Len(gPending') = Len(gPending) - 1
        /\ \A k \in 1..Len(gPending') : gPending'[k] = gPending[k + 1]
    BY <1>0, <1>4, EmptySeq, HeadTailProperties
  <2>2. Len(gBooked) \in Nat /\ Taken \in Nat /\ Taken <= Len(gBooked) /\ Len(gPending) <= Len(gBooked)
    BY OrderLens DEF OrderInv, QueueInv
  <2>3. Taken' = Taken + 1 /\ Taken + 1 \in 1..Len(gBooked)  BY <1>0, <2>1, <2>2 DEF Taken
  <2>4. gPending[1].t = gBooked[Taken + 1]  BY <2>1 DEF OrderInv, QueueInv
  <2>5. \A t \in Tickets : gSettled[t] # "none" => gSettled'[t] # "none"  BY <1>4, TakeMoves, IdleType
  <2>6. QueueInv'
    <3>1. \A k \in 1..Len(gPending') : k + 1 \in 1..Len(gPending) /\ Taken' + k = Taken + (k + 1)  BY <2>1, <2>2, <2>3
    <3>2. \A k \in 1..Len(gPending') : gPending'[k].t = gBooked'[Taken' + k]  BY <1>0, <2>1, <3>1 DEF OrderInv, QueueInv
    <3>3. Len(gPending') <= Len(gBooked')  BY <1>0, <2>1, <2>2
    <3>4. \A e \in gBooking : e.t \in Tickets  BY DEF GmailType, GmailEntries
    <3>5. \A x \in 1..Len(gBooked) : gBooked[x] \in Tickets  BY OrderLens DEF OrderInv
    <3>6. /\ \A x, y \in 1..Len(gBooked') : gBooked'[x] = gBooked'[y] => x = y
          /\ \A e \in gBooking' : gSettled'[e.t] # "none" /\ \A x \in 1..Len(gBooked') : gBooked'[x] # e.t
          /\ \A e, f \in gBooking' : e.t = f.t => e = f
          /\ \A x \in 1..Len(gBooked') : gSettled'[gBooked'[x]] # "none"
      BY <1>0, <2>5, <3>4, <3>5 DEF OrderInv, QueueInv
    <3>. QED  BY <3>2, <3>3, <3>6 DEF QueueInv
  <2>7. AppliedInv'
    <3>1. \A x \in 1..Taken : x \in 1..Taken'  BY <2>2, <2>3
    <3>. QED  BY <1>0, <3>1 DEF OrderInv, AppliedInv
  <2>8. ToldInOrder'
    <3>1. \A t \in Tickets : gSettled'[t] = "ok" => gSettled[t] = "ok"  BY <1>4, TakeMoves
    <3>. QED  BY <1>0, <1>2, <3>1, ToldKept DEF OrderInv
  <2>9. DrainInv'
    <3>1. CASE gActor' = gActor \/ gActor'["drain"] = IdleGmail
      <4>1. gActor'["drain"].pc \in {"idle", "take"} /\ gActor'["drain"].job = 0
        BY <3>1, TakeMoves, IdleType DEF OrderInv, DrainInv
      <4>. QED  BY <4>1 DEF DrainInv
    <3>2. CASE gActor'["drain"].pc = "token" /\ gActor'["drain"].job = gPending[1].t
      <4>1. \A i \in 1..Len(gApplied), x, y \in 1..Len(gBooked) : gBooked[x] = gApplied[i] /\ gBooked[y] = gPending[1].t => x < y
        <5>. SUFFICES ASSUME NEW i \in 1..Len(gApplied), NEW x \in 1..Len(gBooked), NEW y \in 1..Len(gBooked),
                             gBooked[x] = gApplied[i], gBooked[y] = gPending[1].t
                      PROVE  x < y
          OBVIOUS
        <5>1. PICK z \in 1..Taken : gBooked[z] = gApplied[i]  BY DEF OrderInv, AppliedInv
        <5>2. z \in 1..Len(gBooked)  BY <2>2
        <5>3. x = z /\ y = Taken + 1  BY <2>3, <2>4, <5>1, <5>2 DEF OrderInv, QueueInv
        <5>. QED  BY <2>2, <5>3
      <4>2. \A i \in 1..Len(gApplied), x, y \in 1..Len(gBooked) : gBooked[x] = gApplied[i] /\ gBooked[y] = gPending[1].t => x <= y
        BY <2>2, <4>1
      <4>3. Behind(gActor["drain"])'  BY <1>0, <3>2, <4>1, <4>2 DEF Behind
      <4>4. Taken + 1 \in 1..Taken'  BY <2>2, <2>3
      <4>. QED  BY <1>0, <2>4, <3>2, <4>3, <4>4 DEF DrainInv
    <3>. QED  BY <3>1, <3>2, TakeMoves
  <2>. QED  BY <2>6, <2>7, <2>8, <2>9 DEF OrderInv
<1>. QED  BY <1>3, <1>4, TakeMoves

LEMMA JoinOrder ==
    ASSUME GmailType, OrderInv, NEW e \in gBooking, Join(e)
    PROVE  OrderInv'
<1>0. /\ gApplied' = gApplied /\ "drain" \in GmailActors /\ "drain" \notin GmailReaders
      /\ Alone("drain") /\ gBooking' = gBooking \ {e} /\ e \in GmailEntries /\ e.t \in Tickets
  BY JoinMoves, GmailNats, GmailBounds DEF Join, GmailEntries
<1>1. \A b \in GmailReaders : gActor'[b].job = 0
  <2>1. \A b \in GmailReaders : b \in GmailActors  BY DEF GmailActors
  <2>. QED  BY <1>0, <2>1 DEF Alone, OrderInv, ToldInOrder
<1>2. gActor'["drain"] = gActor["drain"] \/ (gActor'["drain"].pc = "take" /\ gActor["drain"].pc = "idle" /\ gActor'["drain"].job = gActor["drain"].job)
  BY JoinMoves
<1>3. \A t \in Tickets : gSettled[t] # "none" => gSettled'[t] # "none"  BY JoinMoves
<1>4. \A t \in Tickets : gSettled'[t] = "ok" => gSettled[t] = "ok"  BY JoinMoves
<1>5. ToldInOrder'  BY <1>0, <1>1, <1>4, ToldKept DEF OrderInv
<1>6. \A x \in gBooking : x.t \in Tickets  BY DEF GmailType, GmailEntries
<1>7. \A x \in 1..Len(gBooked) : gBooked[x] \in Tickets  BY OrderLens DEF OrderInv
<1>8. CASE gPending' = gPending /\ gBooked' = gBooked
  <2>1. QueueInv' /\ Taken' = Taken  BY <1>0, <1>3, <1>6, <1>7, <1>8 DEF OrderInv, QueueInv, Taken
  <2>2. AppliedInv'  BY <1>0, <1>8, <2>1 DEF AppliedInv, OrderInv
  <2>3. DrainInv'
    <3>1. CASE gActor'["drain"] = gActor["drain"]  BY <1>0, <1>8, <2>1, <3>1 DEF DrainInv, OrderInv, Behind, Unsent
    <3>2. CASE gActor'["drain"].pc = "take" /\ gActor["drain"].pc = "idle" /\ gActor'["drain"].job = gActor["drain"].job
      BY <3>2 DEF DrainInv, OrderInv
    <3>. QED  BY <1>2, <3>1, <3>2
  <2>. QED  BY <1>5, <2>1, <2>2, <2>3 DEF OrderInv
<1>9. CASE gPending' = Append(gPending, e) /\ gBooked' = Append(gBooked, e.t) /\ gSettled' = gSettled
  <2>. DEFINE n == Len(gBooked)
  <2>. DEFINE p == Len(gPending)
  <2>0. n \in Nat /\ p \in Nat /\ p <= n /\ Taken \in Nat /\ Taken <= n /\ Taken = n - p  BY OrderLens DEF OrderInv, QueueInv, Taken
  <2>1. Len(gBooked') = n + 1 /\ gBooked'[n + 1] = e.t /\ \A x \in 1..n : gBooked'[x] = gBooked[x]
    <3>1. gBooked \in Seq(Tickets)  BY DEF GmailType
    <3>. QED  BY <1>0, <1>9, <3>1, AppendProperties
  <2>2. Len(gPending') = p + 1 /\ gPending'[p + 1] = e /\ \A x \in 1..p : gPending'[x] = gPending[x]
    <3>1. gPending \in Seq(GmailEntries)  BY DEF GmailType
    <3>. QED  BY <1>0, <1>9, <3>1, AppendProperties
  <2>3. Taken' = Taken
    <3>1. Taken' = Len(gBooked') - Len(gPending')  BY DEF Taken
    <3>. QED  BY <2>0, <2>1, <2>2, <3>1
  <2>4. \A x \in 1..n : gBooked[x] # e.t  BY DEF OrderInv, QueueInv
  <2>5. \A x \in 1..n + 1 : x \in 1..n \/ x = n + 1  BY <2>0
  <2>6. \A k \in 1..p + 1 : k \in 1..p \/ k = p + 1  BY <2>0
  <2>7. \A x \in 1..Taken : x \in 1..n  BY <2>0
  <2>8. \A k \in 1..p : Taken + k \in 1..n  BY <2>0
  <2>9. Taken + (p + 1) = n + 1  BY <2>0
  <2>q. /\ \A k \in 1..p : gPending[k].t = gBooked[Taken + k]
        /\ \A x, y \in 1..n : gBooked[x] = gBooked[y] => x = y
        /\ \A f \in gBooking : gSettled[f.t] # "none" /\ \A x \in 1..n : gBooked[x] # f.t
        /\ \A f, g \in gBooking : f.t = g.t => f = g
        /\ \A x \in 1..n : gSettled[gBooked[x]] # "none"
        /\ \A i \in 1..Len(gApplied) : \E x \in 1..Taken : gBooked[x] = gApplied[i]
        /\ \A i, j \in 1..Len(gApplied), x, y \in 1..n :
              i < j /\ gBooked[x] = gApplied[i] /\ gBooked[y] = gApplied[j] => x < y
    BY DEF OrderInv, QueueInv, AppliedInv
  <2>. HIDE DEF n, p
  <2>10. QueueInv'
    <3>1. \A k \in 1..p + 1 : gPending'[k].t = gBooked'[Taken + k]  BY <2>1, <2>2, <2>6, <2>8, <2>9, <2>q
    <3>2. \A x, y \in 1..n + 1 : gBooked'[x] = gBooked'[y] => x = y  BY <2>1, <2>4, <2>5, <2>q
    <3>3. \A f \in gBooking' : f \in gBooking /\ f.t # e.t  BY <1>0, <2>q
    <3>4. \A f \in gBooking' : gSettled'[f.t] # "none" /\ \A x \in 1..n + 1 : gBooked'[x] # f.t  BY <1>9, <2>1, <2>5, <2>q, <3>3
    <3>5. \A f, g \in gBooking' : f.t = g.t => f = g  BY <2>q, <3>3
    <3>6. \A x \in 1..n + 1 : gSettled'[gBooked'[x]] # "none"  BY <1>9, <2>1, <2>5, <2>q
    <3>7. p + 1 <= n + 1  BY <2>0
    <3>. QED  BY <2>1, <2>2, <2>3, <3>1, <3>2, <3>4, <3>5, <3>6, <3>7 DEF QueueInv
  \* The new position is nobody's.
  <2>11. \A i \in 1..Len(gApplied), x \in 1..n + 1 : gBooked'[x] = gApplied[i] => x \in 1..n /\ gBooked[x] = gApplied[i]
    BY <2>1, <2>4, <2>5, <2>7, <2>q
  <2>12. AppliedInv'
    <3>1. \A i \in 1..Len(gApplied) : \E x \in 1..Taken : gBooked'[x] = gApplied[i]  BY <2>1, <2>7, <2>q
    <3>2. \A i, j \in 1..Len(gApplied), x, y \in 1..n + 1 : i < j /\ gBooked'[x] = gApplied[i] /\ gBooked'[y] = gApplied[j] => x < y
      BY <2>11, <2>q
    <3>. QED  BY <1>0, <2>1, <2>3, <3>1, <3>2 DEF AppliedInv
  <2>13. DrainInv'
    <3>1. CASE gActor'["drain"] = gActor["drain"]
      <4>. DEFINE job == gActor["drain"].job
      <4>1. CASE job = 0  BY <1>0, <3>1, <4>1 DEF OrderInv, DrainInv
      <4>2. CASE job # 0
        <5>1. PICK z \in 1..Taken : gBooked[z] = job  BY <4>2 DEF OrderInv, DrainInv
        <5>2. \A y \in 1..n + 1 : gBooked'[y] = job => y \in 1..n /\ gBooked[y] = job  BY <2>1, <2>4, <2>5, <2>7, <5>1
        <5>3. Behind(gActor["drain"])  BY <4>2 DEF OrderInv, DrainInv
        <5>4. Behind(gActor["drain"])'  BY <1>0, <2>1, <2>11, <3>1, <5>2, <5>3 DEF Behind, Unsent, n
        <5>5. z \in 1..Taken' /\ gBooked'[z] = job  BY <2>1, <2>3, <2>7, <5>1
        <5>6. \E x \in 1..Taken' : gBooked'[x] = job  BY <5>5
        <5>. QED  BY <1>0, <3>1, <4>2, <5>4, <5>6 DEF OrderInv, DrainInv
      <4>. QED  BY <4>1, <4>2
    <3>2. CASE gActor'["drain"].pc = "take" /\ gActor["drain"].pc = "idle" /\ gActor'["drain"].job = gActor["drain"].job
      BY <3>2 DEF DrainInv, OrderInv
    <3>. QED  BY <1>2, <3>1, <3>2
  <2>. QED  BY <1>5, <2>10, <2>12, <2>13 DEF OrderInv
<1>. QED  BY <1>8, <1>9, JoinMoves

LEMMA BookOrder ==
    ASSUME GmailType, OrderInv, NEW t \in Tickets, Book(t)
    PROVE  OrderInv'
<1>0. gActor' = gActor /\ gPending' = gPending /\ gBooked' = gBooked /\ gApplied' = gApplied  BY DEF Book
<1>1. PICK s \in SessionIds : /\ gBooking' = gBooking \cup {[t |-> t, s |-> s]} /\ gSettled[t] = "none"
                              /\ \A u \in Tickets : gSettled'[u] = IF u = t THEN "open" ELSE gSettled[u]
  BY BookMoves
<1>2. \A u \in Tickets : gSettled[u] # "none" => gSettled'[u] # "none"  BY <1>1
<1>3. \A u \in Tickets : gSettled'[u] = "ok" => gSettled[u] = "ok"  BY <1>1
<1>4. ToldInOrder'  BY <1>0, <1>3, ToldKept DEF OrderInv, ToldInOrder
<1>5. \A f \in gBooking : f.t \in Tickets /\ f.t # t  BY <1>1 DEF GmailType, GmailEntries, OrderInv, QueueInv
<1>6. \A x \in 1..Len(gBooked) : gBooked[x] \in Tickets /\ gBooked[x] # t  BY <1>1, OrderLens DEF OrderInv, QueueInv
<1>7. \A f \in gBooking' : f \in gBooking \/ (f = [t |-> t, s |-> s] /\ f.t = t)  BY <1>1
<1>8. gSettled'[t] # "none"  BY <1>1
<1>9. QueueInv' /\ Taken' = Taken
  <2>1. \A f \in gBooking' : gSettled'[f.t] # "none" /\ \A x \in 1..Len(gBooked') : gBooked'[x] # f.t
    BY <1>0, <1>2, <1>5, <1>6, <1>7, <1>8 DEF OrderInv, QueueInv
  <2>2. \A f, g \in gBooking' : f.t = g.t => f = g  BY <1>5, <1>7 DEF OrderInv, QueueInv
  <2>3. \A x \in 1..Len(gBooked') : gSettled'[gBooked'[x]] # "none"  BY <1>0, <1>2, <1>6 DEF OrderInv, QueueInv
  <2>. QED  BY <1>0, <2>1, <2>2, <2>3 DEF OrderInv, QueueInv, Taken
<1>10. AppliedInv' /\ DrainInv'  BY <1>0, <1>9 DEF OrderInv, AppliedInv, DrainInv, Behind, Unsent
<1>. QED  BY <1>4, <1>9, <1>10 DEF OrderInv

LEMMA SweepOrder ==
    ASSUME GmailType, OrderInv, SweepQueue
    PROVE  OrderInv'
<1>0. /\ gActor' = gActor /\ gPending' = <<>> /\ gBooked' = gBooked /\ gApplied' = gApplied /\ gBooking' = gBooking
      /\ Len(gPending') = 0
  BY DEF SweepQueue
<1>1. gSettled' = [t \in Tickets |-> IF t \in {e.t : e \in ToSet(gPending)} THEN "invalidated" ELSE gSettled[t]]
  BY DEF SweepQueue, Settle
<1>2. \A u \in Tickets : gSettled[u] # "none" => gSettled'[u] # "none"  BY <1>1
<1>3. \A u \in Tickets : gSettled'[u] = "ok" => gSettled[u] = "ok"  BY <1>1
<1>4. ToldInOrder'  BY <1>0, <1>3, ToldKept DEF OrderInv, ToldInOrder
<1>5. Len(gBooked) \in Nat /\ Taken \in Nat /\ Taken <= Len(gBooked)  BY OrderLens DEF OrderInv
<1>6. Taken' = Len(gBooked) /\ 0 <= Len(gBooked)  BY <1>0, <1>5 DEF Taken
<1>7. \A x \in 1..Taken : x \in 1..Taken'  BY <1>5, <1>6
<1>8. QueueInv'
  <2>1. \A f \in gBooking : f.t \in Tickets  BY DEF GmailType, GmailEntries
  <2>2. \A x \in 1..Len(gBooked) : gBooked[x] \in Tickets  BY OrderLens DEF OrderInv
  <2>3. \A k \in 1..Len(gPending') : FALSE  BY <1>0
  <2>4. /\ \A x, y \in 1..Len(gBooked') : gBooked'[x] = gBooked'[y] => x = y
        /\ \A e \in gBooking' : gSettled'[e.t] # "none" /\ \A x \in 1..Len(gBooked') : gBooked'[x] # e.t
        /\ \A e, f \in gBooking' : e.t = f.t => e = f
        /\ \A x \in 1..Len(gBooked') : gSettled'[gBooked'[x]] # "none"
    BY <1>0, <1>2, <2>1, <2>2 DEF OrderInv, QueueInv
  <2>5. Len(gPending') <= Len(gBooked')  BY <1>0, <1>6
  <2>. QED  BY <2>3, <2>4, <2>5 DEF QueueInv
<1>9. AppliedInv'  BY <1>0, <1>7 DEF OrderInv, AppliedInv
<1>10. DrainInv'  BY <1>0, <1>7 DEF OrderInv, DrainInv, Behind, Unsent
<1>. QED  BY <1>4, <1>8, <1>9, <1>10 DEF OrderInv

\* What neither the order nor a settlement depends on.
LEMMA OrderSame ==
    ASSUME OrderInv, UNCHANGED <<gActor, gBooking, gPending, gBooked, gSettled, gApplied>>
    PROVE  OrderInv'
BY DEF OrderInv, QueueInv, AppliedInv, DrainInv, ToldInOrder, Behind, Unsent, Taken

LEMMA OrderStep ==
    ASSUME GmailType, GrantsInv, OrderInv, GmailNext
    PROVE  OrderInv'
<1>0. /\ \A b \in GmailActors : gActor[b] \in GmailCalls /\ CallGrant(b)
      /\ MaxSessions \in Nat /\ gCreated \in Nat /\ gCreated <= MaxSessions
  BY GmailNats DEF GmailType, GrantsInv
<1>1. ASSUME NEW a \in GmailReaders, NEW again \in BOOLEAN, BeginCall(a, again) PROVE OrderInv'
  <2>1. /\ gBooking' = gBooking /\ gPending' = gPending /\ gBooked' = gBooked /\ gSettled' = gSettled /\ gApplied' = gApplied
    BY <1>1 DEF BeginCall
  <2>2. Alone(a) /\ gActor'[a].job = 0 /\ a # "drain"  BY <1>1, BeginMoves, GmailBounds
  <2>3. gActor'["drain"] = gActor["drain"]  BY <2>2, GmailNats DEF Alone
  <2>4. \A b \in GmailReaders : gActor'[b].job = 0
    <3>1. \A b \in GmailReaders : b \in GmailActors  BY DEF GmailActors
    <3>. QED  BY <2>2, <3>1 DEF Alone, OrderInv, ToldInOrder
  <2>5. QueueInv' /\ Taken' = Taken  BY <2>1, QueueKept DEF OrderInv
  <2>6. AppliedInv'  BY <2>1, <2>5 DEF OrderInv, AppliedInv
  <2>8. DrainInv'  BY <2>1, <2>3, <2>5 DEF OrderInv, DrainInv, Behind, Unsent
  <2>. QED  BY <2>1, <2>4, <2>5, <2>6, <2>8, ToldKept DEF OrderInv
<1>2. ASSUME NEW a \in GmailActors, GetToken(a) PROVE OrderInv'
  <2>1. /\ gBooking' = gBooking /\ gPending' = gPending /\ gBooked' = gBooked /\ gApplied' = gApplied /\ Unsent(gActor[a])
    BY <1>2 DEF GetToken, Unsent
  <2>2. gActor[a].s \in SessionIds  BY <1>0, <1>2 DEF GetToken, CallGrant, SessionIds
  <2>3. Alone(a) /\ (CallIsOver(a, "invalidated") \/ Goes(a, "send") \/ Goes(a, "refresh"))  BY <1>2, <2>2, GetTokenMoves
  <2>4. CASE CallIsOver(a, "invalidated")  BY <2>1, <2>3, <2>4, EndedOrder
  <2>5. CASE Goes(a, "send")  BY <2>1, <2>3, <2>5, GoesOrder
  <2>6. CASE Goes(a, "refresh")  BY <2>1, <2>3, <2>6, GoesOrder
  <2>. QED  BY <2>3, <2>4, <2>5, <2>6
<1>3. ASSUME NEW a \in GmailActors, TokenRefreshed(a) PROVE OrderInv'
  <2>1. /\ gBooking' = gBooking /\ gPending' = gPending /\ gBooked' = gBooked /\ gApplied' = gApplied /\ Unsent(gActor[a])
    BY <1>3 DEF TokenRefreshed, Unsent
  <2>3. Alone(a) /\ (CallIsOver(a, "invalidated") \/ CallIsOver(a, "failed") \/ Goes(a, "send"))  BY <1>3, RefreshMoves
  <2>4. CASE CallIsOver(a, "invalidated")  BY <2>1, <2>3, <2>4, EndedOrder
  <2>5. CASE CallIsOver(a, "failed")  BY <2>1, <2>3, <2>5, EndedOrder
  <2>6. CASE Goes(a, "send")  BY <2>1, <2>3, <2>6, GoesOrder
  <2>. QED  BY <2>3, <2>4, <2>5, <2>6
<1>4. ASSUME NEW a \in GmailActors, SendCall(a) PROVE OrderInv'
  <2>1. /\ gBooking' = gBooking /\ gPending' = gPending /\ gBooked' = gBooked /\ gApplied' = gApplied /\ Unsent(gActor[a])
    BY <1>4 DEF SendCall, Unsent
  <2>3. Alone(a) /\ (CallIsOver(a, "invalidated") \/ Goes(a, "wire"))  BY <1>4, SendMoves
  <2>4. CASE CallIsOver(a, "invalidated")  BY <2>1, <2>3, <2>4, EndedOrder
  <2>5. CASE Goes(a, "wire")  BY <2>1, <2>3, <2>5, GoesOrder
  <2>. QED  BY <2>3, <2>4, <2>5
<1>5. ASSUME NEW a \in GmailActors, Answered(a) PROVE OrderInv'
  <2>1. /\ gBooking' = gBooking /\ gPending' = gPending /\ gBooked' = gBooked /\ gApplied' = gApplied /\ gActor[a].pc = "answer"
    BY <1>5 DEF Answered
  <2>2. Alone(a)  BY <1>5, AnswerMoves
  <2>3. CASE CallIsOver(a, "invalidated")  BY <2>1, <2>2, <2>3, EndedOrder
  <2>4. CASE gActor[a].answer # "unauthorized" /\ CallIsOver(a, gActor[a].answer)
    <3>1. CASE a = "drain"
      <4>1. gActor[a].answer # "none"  BY <2>1, <3>1 DEF OrderInv, DrainInv
      <4>2. gActor[a].answer = "limited" => Unsent(gActor[a])  BY <2>1 DEF Unsent
      <4>3. gActor[a].answer = "ok" /\ gActor[a].job # 0 => \E i \in 1..Len(gApplied) : gApplied[i] = gActor[a].job
        BY <2>1, <3>1 DEF OrderInv, DrainInv
      <4>. QED  BY <2>1, <2>2, <2>4, <4>1, <4>2, <4>3, EndedOrder
    <3>2. CASE a # "drain"
      <4>1. CallIsOver(a, "failed")  BY <2>4, <3>2 DEF CallIsOver
      <4>. QED  BY <2>1, <2>2, <4>1, EndedOrder
    <3>. QED  BY <3>1, <3>2
  <2>5. CASE gActor[a].answer = "unauthorized" /\ Goes(a, "reject")
    <3>1. Unsent(gActor[a])  BY <2>1, <2>5 DEF Unsent
    <3>. QED  BY <2>1, <2>2, <2>5, <3>1, GoesOrder
  <2>. QED  BY <1>5, <2>3, <2>4, <2>5, AnswerMoves
<1>6. ASSUME NEW a \in GmailActors, RejectSession(a) PROVE OrderInv'
  <2>1. /\ gBooking' = gBooking /\ gPending' = gPending /\ gBooked' = gBooked /\ gApplied' = gApplied /\ Unsent(gActor[a])
    BY <1>6 DEF RejectSession, Unsent
  <2>3. Alone(a) /\ (CallIsOver(a, "invalidated") \/ CallIsOver(a, "unauthorized") \/ Goes(a, "token"))  BY <1>6, RejectMoves
  <2>4. CASE CallIsOver(a, "invalidated")  BY <2>1, <2>3, <2>4, EndedOrder
  <2>5. CASE CallIsOver(a, "unauthorized")  BY <2>1, <2>3, <2>5, EndedOrder
  <2>6. CASE Goes(a, "token")  BY <2>1, <2>3, <2>6, GoesOrder
  <2>. QED  BY <2>3, <2>4, <2>5, <2>6
<1>7. CASE Logout  BY <1>7, OrderSame DEF Logout
<1>8. CASE EvictSession  BY <1>8, OrderSame DEF EvictSession
<1>9. ASSUME NEW k \in 1..MaxGrants, Revoke(k) PROVE OrderInv'  BY <1>9, OrderSame DEF Revoke
<1>10. ASSUME NEW s \in SessionIds, Expire(s) PROVE OrderInv'  BY <1>10, OrderSame DEF Expire
<1>. QED
  BY <1>1, <1>2, <1>3, <1>4, <1>5, <1>6, <1>7, <1>8, <1>9, <1>10, ServeOrder, TakeOrder, JoinOrder, BookOrder, SweepOrder
  DEF GmailNext, CallStep

LEMMA OrderStart ==
    ASSUME GmailInit
    PROVE  OrderInv
<1>1. /\ gBooking = {} /\ Len(gPending) = 0 /\ Len(gBooked) = 0 /\ Len(gApplied) = 0
      /\ \A t \in Tickets : gSettled[t] = "none"
      /\ \A b \in GmailActors : gActor[b] = IdleGmail
  BY DEF GmailInit
<1>2. /\ \A x \in 1..Len(gBooked) : FALSE
      /\ \A x \in 1..Len(gPending) : FALSE
      /\ \A x \in 1..Len(gApplied) : FALSE
      /\ Len(gPending) <= Len(gBooked)
  BY <1>1
<1>3. QueueInv  BY <1>1, <1>2 DEF QueueInv
<1>4. AppliedInv /\ ToldInOrder  BY <1>1, <1>2, IdleType DEF AppliedInv, ToldInOrder, GmailActors
<1>5. DrainInv  BY <1>1, IdleType, GmailNats DEF DrainInv
<1>. QED  BY <1>3, <1>4, <1>5 DEF OrderInv

LEMMA OrderShows ==
    ASSUME GmailType, OrderInv
    PROVE  GmailSentInOrder
<1>. DEFINE at(t) == CHOOSE i \in DOMAIN gBooked : gBooked[i] = t
<1>0. DOMAIN gBooked = 1..Len(gBooked) /\ DOMAIN gApplied = 1..Len(gApplied)  BY DEF GmailType
<1>1. \A i \in 1..Len(gApplied) : at(gApplied[i]) \in 1..Len(gBooked) /\ gBooked[at(gApplied[i])] = gApplied[i]
  <2>. SUFFICES ASSUME NEW i \in 1..Len(gApplied)
                PROVE  at(gApplied[i]) \in 1..Len(gBooked) /\ gBooked[at(gApplied[i])] = gApplied[i]
    OBVIOUS
  <2>1. PICK x \in 1..Taken : gBooked[x] = gApplied[i]  BY DEF OrderInv, AppliedInv
  <2>2. x \in DOMAIN gBooked  BY <1>0, OrderLens DEF OrderInv
  <2>. QED  BY <1>0, <2>1, <2>2
<1>. HIDE DEF at
<1>2. \A i, j \in 1..Len(gApplied) : i < j => at(gApplied[i]) < at(gApplied[j])  BY <1>1 DEF OrderInv, AppliedInv
<1>3. \A t \in Tickets : gSettled[t] = "ok" => t \in ToSet(gApplied)  BY <1>0 DEF OrderInv, ToldInOrder, ToSet
<1>. QED  BY <1>0, <1>2, <1>3 DEF GmailSentInOrder, at

(* Google carries booked mutations out in the order they joined the queue, each at most once however often it is
   resent, and "ok" is said only of one it carried out (gmail_queue.rs: enqueue, drain; gmail_http.rs: send). *)
THEOREM GmailKeepsOrder == GmailSpec => []GmailSentInOrder
<1>1. GmailType /\ GrantsInv /\ OrderInv /\ [GmailNext]_gmailVars => (GmailType /\ GrantsInv /\ OrderInv)'
  <2>1. UNCHANGED gmailVars /\ OrderInv => OrderInv'  BY OrderSame DEF gmailVars
  <2>. QED  BY <2>1, GmailTypeStep, GrantsStep, OrderStep, GmailStutters
<1>2. GmailType /\ OrderInv => GmailSentInOrder  BY OrderShows
<1>. QED  BY <1>1, <1>2, GrantsStart, OrderStart, PTL DEF GmailSpec

------------------------------------
(* Requests *)
RequestSteps == {"idle", "page", "mutate", "done"}
RequestInv ==
    /\ wPc \in RequestSteps /\ wElapsed < Deadline /\ wSent \in Nat /\ wPages \in Nat /\ IsFiniteSet(wSeen)
    /\ wPc # "done" => wSent = 0 /\ wAnswer = "none" /\ wPages <= Cardinality(wSeen)
    /\ wSent <= 1 /\ wPages <= Cardinality(wSeen) + 1
    /\ wPc = "page" => wFound = "none"
    /\ wPc = "idle" => wFound = "none"
    /\ wAnswer = "ok" => wSent = 1 \/ (wOp = "deleteDraft" /\ wFound = "none")

LEMMA OneTaken == \A a, b \in Nat : a + 1 \in Nat /\ (a <= b => a + 1 <= b + 1 /\ a <= b + 1)
OBVIOUS

LEMMA NoneSent == 0 \in Nat /\ 0 <= 1
OBVIOUS

LEMMA RequestStep == RequestInv /\ [RequestNext]_requestVars => RequestInv'
<1>. SUFFICES ASSUME RequestInv, [RequestNext]_requestVars PROVE RequestInv'  OBVIOUS
<1>. USE DEF RequestInv, RequestSteps, Ends
<1>0. Cardinality(wSeen) \in Nat /\ 0 < Deadline
  <2>1. Cardinality(wSeen) \in Nat  BY FS_CardinalityType
  <2>2. Deadline \in Nat \ {0}  BY GmailRequestBounds
  <2>. QED  BY <2>1, <2>2
<1>1. ASSUME NEW op \in {"updateDraft", "deleteDraft"}, StartDraft(op) PROVE RequestInv'  BY <1>0, <1>1 DEF StartDraft
<1>2. ASSUME NEW d \in DraftIds \cup {"none"}, DraftMoves(d) PROVE RequestInv'  BY <1>0, <1>2 DEF DraftMoves
<1>3. CASE Limited  BY <1>0, <1>3 DEF Limited
<1>4. CASE LimitedOut  BY <1>0, <1>4 DEF LimitedOut
<1>5. CASE RequestFails  BY <1>0, <1>5 DEF RequestFails
<1>6. CASE PageFinds  BY <1>0, <1>6 DEF PageFinds
<1>7. CASE Mutates  BY <1>0, <1>7 DEF Mutates
<1>8. ASSUME NEW next \in Cursors \cup {""}, PageMisses(next) PROVE RequestInv'
  <2>1. CASE next = ""
    <3>1. /\ wPc = "page" /\ wPc' = "done" /\ wPages' = wPages + 1 /\ UNCHANGED <<wOp, wHome, wFound, wSent, wSeen, wElapsed>>
          /\ wAnswer' = IF wOp = "deleteDraft" THEN "ok" ELSE "missing"
      BY <1>8, <2>1 DEF PageMisses
    <3>2. wSent = 0 /\ wAnswer = "none" /\ wFound = "none" /\ wPages <= Cardinality(wSeen)  BY <3>1
    <3>3. wPages' \in Nat /\ wPages' <= Cardinality(wSeen') + 1
      <4>1. wSeen' = wSeen /\ wPages \in Nat /\ wPages' = wPages + 1  BY <3>1
      <4>. QED  BY <1>0, <3>2, <4>1, OneTaken
    <3>4. wElapsed' < Deadline /\ wSent' = 0 /\ IsFiniteSet(wSeen')  BY <3>1, <3>2
    <3>5. wPc' = "done" /\ wFound' = "none"  BY <3>1, <3>2
    <3>6. wAnswer' = "ok" => wOp' = "deleteDraft"  BY <3>1
    <3>7. wSent' \in Nat /\ wSent' <= 1  BY <3>4, NoneSent
    <3>. QED  BY <3>3, <3>4, <3>5, <3>6, <3>7
  <2>2. CASE next # "" /\ (SeenCursor(next) \/ wPages' = MaxPages)
    <3>1. /\ wPc = "page" /\ wPc' = "done" /\ wPages' = wPages + 1 /\ UNCHANGED <<wOp, wHome, wFound, wSent, wSeen, wElapsed>>
          /\ wAnswer' = "invalid"
      BY <1>8, <2>2 DEF PageMisses
    <3>2. wSent = 0 /\ wAnswer = "none" /\ wFound = "none" /\ wPages <= Cardinality(wSeen)  BY <3>1
    <3>3. wPages' \in Nat /\ wPages' <= Cardinality(wSeen') + 1
      <4>1. wSeen' = wSeen /\ wPages \in Nat /\ wPages' = wPages + 1  BY <3>1
      <4>. QED  BY <1>0, <3>2, <4>1, OneTaken
    <3>4. wElapsed' < Deadline /\ wSent' = 0 /\ IsFiniteSet(wSeen')  BY <3>1, <3>2
    <3>5. wPc' = "done" /\ wFound' = "none"  BY <3>1, <3>2
    <3>6. wAnswer' = "ok" => wOp' = "deleteDraft"  BY <3>1
    <3>7. wSent' \in Nat /\ wSent' <= 1  BY <3>4, NoneSent
    <3>. QED  BY <3>3, <3>4, <3>5, <3>6, <3>7
  <2>3. CASE next # "" /\ ~(SeenCursor(next) \/ wPages' = MaxPages)
    <3>1. next \notin wSeen /\ wSeen' = wSeen \cup {next} /\ wPages' = wPages + 1 /\ wElapsed' = 0
      BY <1>8, <2>3 DEF PageMisses, SeenCursor
    <3>2. IsFiniteSet(wSeen') /\ Cardinality(wSeen') = Cardinality(wSeen) + 1  BY <3>1, FS_AddElement
    <3>3. UNCHANGED <<wPc, wAnswer, wOp, wFound, wSent>>  BY <1>8, <2>3 DEF PageMisses
    <3>4. wPc = "page"  BY <1>8 DEF PageMisses
    <3>5. wSent = 0 /\ wAnswer = "none" /\ wFound = "none" /\ wPages <= Cardinality(wSeen)  BY <3>4
    <3>6. wPages' \in Nat /\ wPages' <= Cardinality(wSeen')
      <4>1. wPages \in Nat /\ wPages' = wPages + 1  BY <3>1
      <4>. QED  BY <1>0, <3>2, <3>5, <4>1, OneTaken
    <3>7. wPages' <= Cardinality(wSeen') + 1
      <4>1. Cardinality(wSeen') \in Nat  BY <3>2, FS_CardinalityType
      <4>. QED  BY <3>6, <4>1, OneTaken
    <3>8. wElapsed' < Deadline /\ wSent' = 0  BY <1>0, <3>1, <3>3, <3>5
    <3>9. wPc' = "page" /\ wAnswer' = "none" /\ wFound' = "none"  BY <3>3, <3>4, <3>5
    <3>10. wSent' \in Nat /\ wSent' <= 1  BY <3>8, NoneSent
    <3>. QED  BY <3>2, <3>6, <3>7, <3>8, <3>9, <3>10
  <2>. QED  BY <2>1, <2>2, <2>3
<1>9. CASE UNCHANGED requestVars  BY <1>9 DEF requestVars
<1>. QED  BY <1>1, <1>2, <1>3, <1>4, <1>5, <1>6, <1>7, <1>8, <1>9 DEF RequestNext

(* The waits of a Gmail request stay within its deadline, the search for a draft reads no page twice, Google
   carries a mutation out at most once, and "ok" without one is said only of deleting a draft no page named
   (gmail_http.rs: execute_with_backoff; gmail_writes.rs: resolve_draft). *)
THEOREM RequestsAreBounded == RequestSpec => []RequestIsBounded
<1>1. RequestInit => RequestInv
  <2>. SUFFICES ASSUME RequestInit PROVE RequestInv  OBVIOUS
  <2>1. Deadline \in Nat \ {0}  BY GmailRequestBounds
  <2>2. IsFiniteSet(wSeen) /\ Cardinality(wSeen) = 0  BY FS_EmptySet DEF RequestInit
  <2>3. wElapsed = 0 /\ wSent = 0 /\ wPages = 0  BY DEF RequestInit
  <2>4. wPc = "idle" /\ wAnswer = "none" /\ wFound = "none"  BY DEF RequestInit
  <2>5. wElapsed < Deadline /\ wSent \in Nat /\ wPages \in Nat /\ wSent <= 1 /\ wPages <= 0 /\ wPages <= 0 + 1  BY <2>1, <2>3
  <2>. QED  BY <2>2, <2>3, <2>4, <2>5 DEF RequestInv, RequestSteps
<1>2. RequestInv => RequestIsBounded  BY DEF RequestInv, RequestIsBounded
<1>. QED  BY <1>1, <1>2, RequestStep, PTL DEF RequestSpec

(* The bucket.  Where it stands in time is Refilled: what was spent moves it on by as much,
   and only the cap on the refill moves it further. *)
Refilled == bRefilled * Rate - bUnits
GrantRecord == [n : Nat, at : Int, cost : Nat, total : Nat]
BucketType == /\ bClock \in Nat /\ bUnits \in Int /\ bRefilled \in Nat /\ bSpent \in Nat /\ bAsked \in Nat
              /\ bGrants \subseteq GrantRecord /\ bRefilled <= bClock /\ bUnits <= Burst
GrantInv == \A g \in bGrants :
    /\ g.n < bAsked
    /\ g.at <= Refilled \/ g.at <= bRefilled * Rate
    /\ bSpent - g.total + g.cost <= Burst + (Refilled - g.at)
    /\ \A h \in bGrants : g.n = h.n => g = h
BucketInv == BucketType /\ GrantInv /\ NeverOverQuota

LEMMA Paced ==
  ASSUME BucketInv
  PROVE  /\ Rate \in Nat /\ Burst \in Nat /\ Rate > 0 /\ Burst > 0
         /\ bClock * Rate \in Nat /\ bRefilled * Rate \in Nat /\ bRefilled * Rate <= bClock * Rate
         /\ Refill \in Int /\ Refill <= Burst /\ Refilled \in Int /\ Refilled <= bClock * Rate - Refill
<1>1. Rate \in Nat /\ Burst \in Nat /\ Rate > 0 /\ Burst > 0 /\ bClock \in Nat /\ bRefilled \in Nat
      /\ bUnits \in Int /\ bRefilled <= bClock
  BY QuotaBounds DEF BucketInv, BucketType
<1>2. \A a, b, c \in Nat : a <= b => /\ a * c \in Nat /\ b * c \in Nat /\ a * c <= b * c
                                     /\ (b - a) * c = b * c - a * c
  OBVIOUS
<1>3. /\ bClock * Rate \in Nat /\ bRefilled * Rate \in Nat /\ bRefilled * Rate <= bClock * Rate
      /\ (bClock - bRefilled) * Rate = bClock * Rate - bRefilled * Rate
  BY <1>1, <1>2
<1>4. Refill \in Int /\ Refill <= Burst /\ Refill <= bUnits + (bClock * Rate - bRefilled * Rate)  BY <1>1, <1>3 DEF Refill, Lower
<1>5. Refilled \in Int /\ Refilled <= bClock * Rate - Refill  BY <1>1, <1>3, <1>4 DEF Refilled
<1>. QED  BY <1>1, <1>3, <1>4, <1>5

LEMMA PaceKeeps ==
  ASSUME BucketInv, NEW cost \in Costs, NEW patient \in BOOLEAN, Pace(cost, patient)
  PROVE  BucketInv'
<1>. DEFINE spent == Lower(cost, Burst)
            debt == DebtOf(Refill - spent)
            grant == [n |-> bAsked, at |-> bClock * Rate + debt, cost |-> spent, total |-> bSpent + spent]
<1>1. /\ Rate \in Nat /\ Burst \in Nat /\ bClock * Rate \in Nat /\ bRefilled * Rate \in Nat
      /\ bRefilled * Rate <= bClock * Rate /\ Refill \in Int /\ Refill <= Burst
      /\ Refilled \in Int /\ Refilled <= bClock * Rate - Refill
  BY Paced
<1>2. spent \in Nat /\ spent > 0 /\ spent <= Burst  BY <1>1, QuotaBounds DEF Lower
<1>3. debt \in Nat /\ debt >= spent - Refill /\ (debt = 0 \/ debt = spent - Refill)  BY <1>1, <1>2 DEF DebtOf
<1>4. /\ bAsked' = bAsked + 1 /\ bRefilled' = bClock /\ UNCHANGED bClock
      /\ \/ bUnits' = Refill /\ UNCHANGED <<bGrants, bSpent>>
         \/ bUnits' = Refill - spent /\ bSpent' = bSpent + spent /\ bGrants' = bGrants \cup {grant}
  BY DEF Pace
<1>. HIDE DEF spent, debt
<1>5. /\ bClock \in Nat /\ bSpent \in Nat /\ bAsked \in Nat /\ bGrants \subseteq GrantRecord
      /\ bUnits \in Int
  BY DEF BucketInv, BucketType
<1>6. \A g \in bGrants : /\ g.n \in Nat /\ g.at \in Int /\ g.cost \in Nat /\ g.total \in Nat /\ g.n < bAsked
                         /\ g.at <= Refilled \/ g.at <= bRefilled * Rate
                         /\ bSpent - g.total + g.cost <= Burst + (Refilled - g.at)
                         /\ \A h \in bGrants : g.n = h.n => g = h
  BY <1>5 DEF BucketInv, GrantInv, GrantRecord
<1>7. CASE bUnits' = Refill /\ UNCHANGED <<bGrants, bSpent>>
  <2>1. BucketType'  BY <1>1, <1>4, <1>5, <1>7 DEF BucketType
  <2>2. Refilled' = bClock * Rate - Refill  BY <1>4, <1>7 DEF Refilled
  <2>3. Refilled' \in Int /\ Refilled' >= Refilled /\ bRefilled' * Rate = bClock * Rate  BY <1>1, <1>4, <2>2
  <2>4. ASSUME NEW g \in bGrants
        PROVE  /\ g.n < bAsked' /\ (g.at <= Refilled' \/ g.at <= bRefilled' * Rate)
               /\ bSpent - g.total + g.cost <= Burst + (Refilled' - g.at)
    BY <1>1, <1>4, <1>5, <1>6, <2>3
  <2>5. GrantInv'  BY <1>6, <1>7, <2>4 DEF GrantInv
  <2>6. NeverOverQuota'  BY <1>7 DEF NeverOverQuota, BucketInv
  <2>. QED  BY <2>1, <2>5, <2>6 DEF BucketInv
<1>8. CASE bUnits' = Refill - spent /\ bSpent' = bSpent + spent /\ bGrants' = bGrants \cup {grant}
  <2>0. /\ grant \in GrantRecord /\ grant.n = bAsked /\ grant.at = bClock * Rate + debt /\ grant.cost = spent
        /\ grant.total = bSpent + spent
    BY <1>1, <1>2, <1>3, <1>5 DEF GrantRecord
  <2>. HIDE DEF grant
  <2>1. BucketType'
    <3>1. bGrants' \subseteq GrantRecord  BY <1>5, <1>8, <2>0
    <3>. QED  BY <1>1, <1>2, <1>4, <1>5, <1>8, <3>1 DEF BucketType
  <2>2. Refilled' = bClock * Rate - (Refill - spent)  BY <1>4, <1>8 DEF Refilled
  <2>3. Refilled' \in Int /\ Refilled' >= Refilled + spent /\ bRefilled' * Rate = bClock * Rate  BY <1>1, <1>2, <1>4, <2>2
  <2>4. ASSUME NEW g \in bGrants
        PROVE  /\ g.n < bAsked' /\ (g.at <= Refilled' \/ g.at <= bRefilled' * Rate)
               /\ bSpent' - g.total + g.cost <= Burst + (Refilled' - g.at)
               /\ g.at <= grant.at /\ grant.total - g.total + g.cost <= Burst + (grant.at - g.at)
    <3>1. g.n < bAsked' /\ (g.at <= Refilled' \/ g.at <= bRefilled' * Rate)  BY <1>1, <1>2, <1>4, <1>5, <1>6, <2>3
    <3>2. bSpent' - g.total + g.cost <= Burst + (Refilled' - g.at)  BY <1>1, <1>2, <1>5, <1>6, <1>8, <2>3
    <3>3. grant.at >= Refilled' /\ grant.at >= bClock * Rate /\ grant.at \in Int  BY <1>1, <1>2, <1>3, <2>0, <2>2
    <3>4. g.at <= grant.at  BY <1>6, <2>3, <3>1, <3>3, <1>1
    <3>5. grant.total - g.total + g.cost <= Burst + (grant.at - g.at)  BY <1>1, <1>2, <1>5, <1>6, <1>8, <2>0, <2>3, <3>2, <3>3
    <3>. QED  BY <3>1, <3>2, <3>4, <3>5
  <2>5. /\ grant.n < bAsked' /\ (grant.at <= Refilled' \/ grant.at <= bRefilled' * Rate)
        /\ bSpent' - grant.total + grant.cost <= Burst + (Refilled' - grant.at)
    <3>1. grant.at <= Refilled' \/ grant.at <= bRefilled' * Rate  BY <1>1, <1>2, <1>3, <2>0, <2>2, <2>3
    <3>2. bSpent' - grant.total + grant.cost = spent  BY <1>2, <1>5, <1>8, <2>0
    <3>3. spent <= Burst + (Refilled' - grant.at)  BY <1>1, <1>2, <1>3, <2>0, <2>2
    <3>. QED  BY <1>4, <1>5, <2>0, <3>1, <3>2, <3>3
  <2>6. GrantInv'  BY <1>5, <1>6, <1>8, <2>0, <2>4, <2>5 DEF GrantInv
  <2>7. NeverOverQuota'
    <3>. SUFFICES ASSUME NEW g \in bGrants', NEW h \in bGrants', g.n <= h.n
                  PROVE  g.at <= h.at /\ h.total - g.total + g.cost <= Burst + (h.at - g.at)
      BY DEF NeverOverQuota
    <3>1. CASE g \in bGrants /\ h \in bGrants  BY <3>1 DEF BucketInv, NeverOverQuota
    <3>2. CASE g \in bGrants /\ h = grant  BY <2>4, <3>2
    <3>3. CASE g = grant /\ h = grant  BY <1>1, <1>2, <1>3, <1>5, <2>0, <3>3
    <3>4. CASE g = grant /\ h \in bGrants  BY <1>5, <1>6, <2>0, <3>4
    <3>. QED  BY <1>8, <3>1, <3>2, <3>3, <3>4
  <2>. QED  BY <2>1, <2>6, <2>7 DEF BucketInv
<1>. QED  BY <1>4, <1>7, <1>8

(* No window of time sees more units of an account's quota go out than a burst and what refilled meanwhile,
   whichever calls wait and for how long (gmail.rs: pace_within books the debt under its lock). *)
THEOREM QuotaHolds == BucketSpec => []NeverOverQuota
<1>1. BucketInit => BucketInv
  <2>. SUFFICES ASSUME BucketInit PROVE BucketInv  OBVIOUS
  <2>1. Burst \in Nat  BY QuotaBounds
  <2>. QED  BY <2>1 DEF BucketInit, BucketInv, BucketType, GrantInv, NeverOverQuota
<1>2. BucketInv /\ [BucketNext]_bucketVars => BucketInv'
  <2>1. BucketInv /\ BucketTick => BucketInv'  BY DEF BucketTick, BucketInv, BucketType, GrantInv, NeverOverQuota, Refilled
  <2>2. BucketInv /\ UNCHANGED bucketVars => BucketInv'
    BY DEF bucketVars, BucketInv, BucketType, GrantInv, NeverOverQuota, Refilled
  <2>. QED  BY <2>1, <2>2, PaceKeeps DEF BucketNext
<1>3. BucketInv => NeverOverQuota  BY DEF BucketInv
<1>. QED  BY <1>1, <1>2, <1>3, PTL DEF BucketSpec

------------------------------------
(* Actions on messages, and listings *)

MailSpec == MailInit /\ [][MailNext]_mailVars

\* The targets of a plan are different, and the chunks so far have named each of the first actAt of them once.
Once(s) == \A i, j \in 1..Len(s) : s[i] = s[j] => i = j
SentIs == /\ actSent \in [ActIds -> Nat]
          /\ \A m \in ActIds : actSent[m] = 0 \/ (actSent[m] = 1 /\ \E i \in 1..actAt : actTargets[i] = m)
ActInv == /\ actPc \in {"plan", "mutate"} /\ actTargets \in Seq(ActIds) /\ Once(actTargets) /\ actAt \in 0..Len(actTargets)
          /\ SentIs /\ actConfirmed \subseteq actDone
          /\ actPc = "mutate" => ~actReport.given
          /\ actReport.given => /\ actReport.succeeded \subseteq actDone
                                /\ actReport.succeeded \cup actReport.failed = ToSet(actTargets)
                                /\ actReport.succeeded \cap actReport.failed = {}
MailListInv == /\ lsIds \in Seq(ActIds) /\ lsRows \in Seq(ActIds) /\ lsServer \subseteq ActIds /\ ListIsWhole

LEMMA RowAdds ==
  ASSUME NEW t \in Seq(ActIds), Once(t), NEW r \in DOMAIN ActRows
  PROVE  WithTargets(t, r) \in Seq(ActIds) /\ Once(WithTargets(t, r))
<1> DEFINE s == ActRows[r]
           K == {i \in DOMAIN s : s[i] \notin ToSet(t) \cup {s[j] : j \in 1..i - 1}}
           p == Picked(s, K)
           h == Rising(K)
           u == t \o p
<1>1. s \in Seq(ActIds)  BY ActBounds
<1>2. K \subseteq 1..Len(s)  BY <1>1
<1>3. p \in Seq(ActIds) /\ DrawnBy(p, s, h) /\ h \in [1..Len(p) -> K]  BY <1>1, <1>2, PickedIs
<1>4. Len(s) \in Nat /\ Len(t) \in Nat /\ Len(p) \in Nat  BY <1>1, <1>3
<1>5. \A k, l \in K : s[k] = s[l] => k = l
  <2>1. ASSUME NEW k \in K, NEW l \in K, k < l PROVE s[k] # s[l]
    <3>1. k \in 1..l - 1  BY <1>2, <1>4, <2>1
    <3> QED BY <3>1
  <2>2. \A k, l \in K : k < l \/ l < k \/ k = l  BY <1>2, <1>4
  <2> QED BY <2>1, <2>2
<1>6. \A k \in K : \A i \in 1..Len(t) : s[k] # t[i]  BY DEF ToSet
<1> HIDE DEF K, s, p, h
<1>7. \A n \in 1..Len(p) : h[n] \in K /\ p[n] = s[h[n]]  BY <1>3 DEF DrawnBy
<1>8. \A m, n \in 1..Len(p) : h[m] = h[n] => m = n  BY <1>3 DEF DrawnBy
<1>9. /\ u \in Seq(ActIds) /\ Len(u) = Len(t) + Len(p) /\ \A i \in 1..Len(t) : u[i] = t[i]
      /\ \A i \in 1..Len(u) : i \notin 1..Len(t) => i - Len(t) \in 1..Len(p) /\ u[i] = p[i - Len(t)]
  BY <1>3, <1>4
<1> HIDE DEF u
<1>10. ASSUME NEW i \in 1..Len(u), NEW j \in 1..Len(u), u[i] = u[j] PROVE i = j
  <2>1. CASE i \in 1..Len(t) /\ j \in 1..Len(t)  BY <1>9, <1>10, <2>1 DEF Once
  <2>2. CASE i \notin 1..Len(t) /\ j \notin 1..Len(t)
    <3>1. PICK m \in 1..Len(p) : m = i - Len(t) /\ u[i] = p[m]  BY <1>9, <2>2
    <3>2. PICK n \in 1..Len(p) : n = j - Len(t) /\ u[j] = p[n]  BY <1>9, <2>2
    <3>3. s[h[m]] = s[h[n]] /\ h[m] \in K /\ h[n] \in K  BY <1>7, <1>10, <3>1, <3>2
    <3>4. m = n  BY <1>5, <1>8, <3>3
    <3> QED BY <1>4, <3>1, <3>2, <3>4
  <2>3. ASSUME NEW k \in 1..Len(u), NEW l \in 1..Len(u), k \in 1..Len(t), l \notin 1..Len(t) PROVE u[k] # u[l]
    <3>1. PICK n \in 1..Len(p) : u[l] = p[n]  BY <1>9, <2>3
    <3>2. u[l] = s[h[n]] /\ h[n] \in K  BY <1>7, <3>1
    <3> QED BY <1>6, <1>9, <2>3, <3>2
  <2> QED BY <1>10, <2>1, <2>2, <2>3
<1>11. Once(u)  BY <1>10 DEF Once
<1>12. WithTargets(t, r) = u  BY DEF WithTargets, u, p, K, s
<1> QED BY <1>9, <1>11, <1>12

LEMMA PlanIs == ASSUME NEW row \in DOMAIN ActRows, NEW other \in DOMAIN ActRows
                PROVE  PlanTargets(row, other) \in Seq(ActIds) /\ Once(PlanTargets(row, other))
<1>1. <<>> \in Seq(ActIds) /\ Once(<<>>)  BY DEF Once
<1>2. WithTargets(<<>>, row) \in Seq(ActIds) /\ Once(WithTargets(<<>>, row))  BY <1>1, RowAdds
<1> QED BY <1>2, RowAdds DEF PlanTargets

LEMMA ActStarts == MailInit => ActInv
<1> SUFFICES ASSUME MailInit PROVE ActInv  OBVIOUS
<1>1. actSent = [m \in ActIds |-> 0] /\ actPc = "plan" /\ actTargets = <<>> /\ actAt = 0 /\ actConfirmed = {} /\ actReport = NoReport
  BY DEF MailInit
<1>2. ~actReport.given  BY <1>1 DEF NoReport
<1> QED BY <1>1, <1>2 DEF ActInv, SentIs, Once

LEMMA PlanKeeps == ASSUME ActInv, NEW row \in DOMAIN ActRows, NEW other \in DOMAIN ActRows, NEW execute \in BOOLEAN, Plan(row, other, execute)
                   PROVE  ActInv'
<1> DEFINE t == PlanTargets(row, other)
<1>1. t \in Seq(ActIds) /\ Once(t)  BY PlanIs
<1>2. /\ actPc = "plan" /\ actReport' = NoReport /\ actConfirmed' = {} /\ actSent' = [m \in ActIds |-> 0]
      /\ \/ actTargets' = t /\ actAt' = 0 /\ actPc' = IF execute THEN "mutate" ELSE "plan"
         \/ UNCHANGED <<actTargets, actAt, actPc>>
  BY DEF Plan
<1> HIDE DEF t
<1>3. ~actReport'.given  BY <1>2 DEF NoReport
<1>4. actTargets' \in Seq(ActIds) /\ Once(actTargets') /\ actAt' \in 0..Len(actTargets') /\ actPc' \in {"plan", "mutate"}
  BY <1>1, <1>2 DEF ActInv
<1>5. SentIs'  BY <1>2 DEF SentIs
<1> QED BY <1>2, <1>3, <1>4, <1>5 DEF ActInv, Once

LEMMA BelievedIsDone == ASSUME NEW ids, NEW reply \in Replies(ids) PROVE Believe(ids, reply) \subseteq reply.did
<1>1. CASE reply \in [did : {ids}, kind : {"plain"}, yes : {{}}, no : {{}}]  BY <1>1 DEF Believe
<1>2. ASSUME NEW d \in SUBSET ids, reply = [did |-> d, kind |-> "lists", yes |-> d, no |-> ids \ d] PROVE Believe(ids, reply) \subseteq reply.did
  BY <1>2 DEF Believe
<1>3. ASSUME NEW d \in (SUBSET ids) \ {ids}, reply = [did |-> d, kind |-> "lists", yes |-> ids, no |-> ids \ d]
      PROVE  Believe(ids, reply) \subseteq reply.did
  <2>1. ids \cap (ids \ d) # {}  OBVIOUS
  <2> QED BY <1>3, <2>1 DEF Believe
<1>4. ASSUME NEW d \in SUBSET ids, reply = [did |-> d, kind |-> "lost", yes |-> {}, no |-> {}] PROVE Believe(ids, reply) \subseteq reply.did
  BY <1>4 DEF Believe
<1> QED BY <1>1, <1>2, <1>3, <1>4 DEF Replies

LEMMA ChunkGoes == ASSUME ActInv, SendChunk PROVE ActInv'
<1> DEFINE ids == {actTargets[i] : i \in actAt + 1..ChunkEnd}
           Of(m) == {i \in actAt + 1..ChunkEnd : actTargets[i] = m}
<1>1. /\ actPc = "mutate" /\ actAt' = ChunkEnd /\ actSent' = [m \in ActIds |-> actSent[m] + Cardinality(Of(m))]
      /\ UNCHANGED <<actPc, actTargets, actReport>>
  BY DEF SendChunk
<1>2. actConfirmed' \subseteq actDone'
  <2>1. PICK reply \in Replies(ids) : actDone' = actDone \cup reply.did /\ actConfirmed' = actConfirmed \cup Believe(ids, reply)
    BY DEF SendChunk
  <2> QED BY <2>1, BelievedIsDone DEF ActInv
<1>3. /\ ActChunk \in Nat /\ Len(actTargets) \in Nat /\ actAt \in Nat /\ actAt <= Len(actTargets)
      /\ ChunkEnd \in Nat /\ actAt <= ChunkEnd /\ ChunkEnd <= Len(actTargets)
  BY ActBounds DEF ActInv, ChunkEnd
<1>4. ASSUME NEW m \in ActIds
      PROVE  actSent'[m] \in Nat /\ (actSent'[m] = 0 \/ (actSent'[m] = 1 /\ \E i \in 1..ChunkEnd : actTargets[i] = m))
  <2>1. actSent'[m] = actSent[m] + Cardinality(Of(m)) /\ actSent[m] \in Nat  BY <1>1 DEF ActInv, SentIs
  <2>2. CASE Of(m) = {}
    <3>1. actSent'[m] = actSent[m]  BY <2>1, <2>2, FS_EmptySet
    <3>2. 1..actAt \subseteq 1..ChunkEnd  BY <1>3
    <3> QED BY <2>1, <3>1, <3>2 DEF ActInv, SentIs
  <2>3. CASE Of(m) # {}
    <3>1. PICK i \in actAt + 1..ChunkEnd : actTargets[i] = m  BY <2>3
    <3>2. i \in 1..Len(actTargets) /\ i \in 1..ChunkEnd /\ i \notin 1..actAt /\ (actAt + 1..ChunkEnd) \subseteq 1..Len(actTargets)
          /\ 1..actAt \subseteq 1..Len(actTargets)
      BY <1>3
    <3>3. Of(m) = {i}  BY <3>1, <3>2 DEF ActInv, Once
    <3>4. actSent[m] = 0
      <4>1. \A k \in 1..actAt : actTargets[k] # m  BY <3>1, <3>2 DEF ActInv, Once
      <4> QED BY <4>1 DEF ActInv, SentIs
    <3>5. Cardinality(Of(m)) = 1  BY <3>3, FS_Singleton
    <3> QED BY <2>1, <3>1, <3>2, <3>4, <3>5
  <2> QED BY <2>2, <2>3
<1>5. SentIs'  BY <1>1, <1>4 DEF SentIs
<1>6. actAt' \in 0..Len(actTargets')  BY <1>1, <1>3
<1>7. ~actReport'.given  BY <1>1 DEF ActInv
<1> QED BY <1>1, <1>2, <1>5, <1>6, <1>7 DEF ActInv, Once

LEMMA ReportKeeps == ASSUME ActInv, ReportActs PROVE ActInv'
<1>1. /\ actReport' = [succeeded |-> ToSet(actTargets) \cap actConfirmed, failed |-> ToSet(actTargets) \ actConfirmed, given |-> TRUE]
      /\ actPc' = "plan" /\ UNCHANGED <<actTargets, actAt, actConfirmed, actSent, actDone>>
  BY DEF ReportActs
<1>2. /\ actReport'.succeeded = ToSet(actTargets) \cap actConfirmed /\ actReport'.failed = ToSet(actTargets) \ actConfirmed  BY <1>1
<1>3. /\ actReport'.succeeded \subseteq actDone' /\ actReport'.succeeded \cup actReport'.failed = ToSet(actTargets')
      /\ actReport'.succeeded \cap actReport'.failed = {}
  BY <1>1, <1>2 DEF ActInv
<1> QED BY <1>1, <1>3 DEF ActInv, SentIs, Once

LEMMA ActKeeps == ActInv /\ [MailNext]_mailVars => ActInv'
<1> SUFFICES ASSUME ActInv, [MailNext]_mailVars PROVE ActInv'  OBVIOUS
<1>1. CASE UNCHANGED actVars
  <2>1. /\ actPc' = actPc /\ actTargets' = actTargets /\ actAt' = actAt /\ actSent' = actSent /\ actConfirmed' = actConfirmed
        /\ actDone' = actDone /\ actReport' = actReport
    BY <1>1 DEF actVars
  <2> QED BY <2>1 DEF ActInv, SentIs, Once
<1>2. CASE ActNext  BY <1>2, PlanKeeps, ChunkGoes, ReportKeeps DEF ActNext
<1>3. CASE ListNext  BY <1>1, <1>3 DEF ListNext, ListPage, AnswerList, MailboxChanges, ListRows
<1> QED BY <1>1, <1>2, <1>3 DEF MailNext, mailVars

LEMMA MailListStarts == MailInit => MailListInv
BY DEF MailInit, MailListInv, ListIsWhole

LEMMA MailListKeeps == MailListInv /\ [MailNext]_mailVars => MailListInv'
<1> SUFFICES ASSUME MailListInv, [MailNext]_mailVars PROVE MailListInv'  OBVIOUS
<1>1. CASE UNCHANGED listVars  BY <1>1 DEF listVars, MailListInv, ListIsWhole
<1>2. CASE ListPage
  <2>1. IsFiniteSet(lsServer) /\ lsServer \subseteq ActIds  BY ActBounds, FS_Subset DEF MailListInv
  <2>2. \E f \in [1..Cardinality(lsServer) -> lsServer] : IsInjective(f)
    <3>1. PICK n \in Nat : ExistsBijection(1..n, lsServer)  BY <2>1, FS_NatBijection
    <3>2. Cardinality(lsServer) = n  BY <3>1, FS_CountingElements
    <3>3. PICK f \in Injection(1..n, lsServer) : TRUE  BY <3>1 DEF ExistsBijection, Bijection
    <3> QED BY <3>2, <3>3 DEF Injection
  <2>3. SetToSeq(lsServer) \in [1..Cardinality(lsServer) -> lsServer] /\ Cardinality(lsServer) \in Nat
    BY <2>1, <2>2, FS_CardinalityType DEF SetToSeq
  <2>4. SetToSeq(lsServer) \in Seq(ActIds)
    <3>1. SetToSeq(lsServer) \in Seq(lsServer)  BY <2>3, FunIsSeq
    <3> QED BY <2>1, <3>1, SeqWider
  <2> QED BY <1>2, <2>4 DEF ListPage, MailListInv, ListIsWhole
<1>3. ASSUME NEW s \in SUBSET ActIds, MailboxChanges(s) PROVE MailListInv'  BY <1>3 DEF MailboxChanges, MailListInv, ListIsWhole
<1>4. ASSUME NEW skips \in BOOLEAN, ListRows(skips) PROVE MailListInv'
  <2>1. lsRows' = Picked(lsIds, {i \in DOMAIN lsIds : lsIds[i] \in lsServer}) /\ UNCHANGED <<lsIds, lsServer, lsAnswer>>
    BY <1>4 DEF ListRows
  <2>2. lsRows' \in Seq(ActIds)
    <3>1. {i \in DOMAIN lsIds : lsIds[i] \in lsServer} \subseteq 1..Len(lsIds)  BY DEF MailListInv
    <3> QED BY <2>1, <3>1, PickedIs DEF MailListInv
  <2> QED BY <2>1, <2>2 DEF MailListInv, ListIsWhole
<1>5. CASE AnswerList
  <2>1. UNCHANGED <<lsIds, lsRows, lsServer>> /\ lsAnswer' = IF CompletePage(lsIds, lsRows) THEN <<lsIds, lsRows>> ELSE <<>>
    BY <1>5 DEF AnswerList
  <2>2. CompletePage(lsIds, lsRows) => lsIds = lsRows  BY DEF CompletePage, MailListInv
  <2> QED BY <2>1, <2>2 DEF MailListInv, ListIsWhole
<1>6. CASE ActNext  BY <1>1, <1>6 DEF ActNext, Plan, SendChunk, ReportActs
<1> QED BY <1>1, <1>2, <1>3, <1>4, <1>5, <1>6 DEF MailNext, ListNext, mailVars

(* What mail.act reports is so: what it calls succeeded was confirmed and done, every target is reported once, and no
   message is named to the provider twice, however its rows overlap and whatever replies are lost. *)
THEOREM ReportsAreTrue == MailSpec => []ReportIsTrue
<1>1. ActInv => ReportIsTrue  BY DEF ActInv, SentIs, ReportIsTrue
<1> QED BY <1>1, ActStarts, ActKeeps, PTL DEF MailSpec

(* A listing names as many rows as ids, each under its own id, also when mail goes between the page and the rows. *)
THEOREM ListsAreWhole == MailSpec => []ListIsWhole
<1>1. MailListInv => ListIsWhole  BY DEF MailListInv
<1> QED BY <1>1, MailListStarts, MailListKeeps, PTL DEF MailSpec

------------------------------------
(* HEY: its calls *)

HeySpec == HeyInit /\ [][HeyCallNext \/ HeyListNext]_heyVars

CallRecord == [at : {"new", "out", "bound", "ready", "done"}, verb : {"none", "logout", "act", "edit", "read"},
               flags : SUBSET HeyFlags, clean : BOOLEAN, report : {"none", "ok", "error"}]
\* A sign-in that could still end was begun after every logout that is answered, and after those that are clean.
OutInv == /\ hyOut => hyUser = "none" /\ ~hyBrowsing
          /\ \A c \in HeyCalls : hyCall[c].at = "out" /\ hyCall[c].clean => ~hyBrowsing
\* A call that did not run its program yet has done nothing and reported nothing.
CallSound(r, n) == /\ n \in {0, 1}
                   /\ r.at # "done" => n = 0 /\ r.report = "none"
                   /\ r.at = "out" => r.verb = "logout"
                   /\ r.report = "ok" /\ r.verb \in {"act", "edit"} => n = 1
HeyCallInv == /\ hyCall \in [HeyCalls -> CallRecord] /\ hyEffects \in [HeyCalls -> Nat]
              /\ hyOut \in BOOLEAN /\ hyBrowsing \in BOOLEAN
              /\ hyDropped \subseteq HeyFlags /\ hyReplaced \in Nat
              /\ \A c \in HeyCalls : CallSound(hyCall[c], hyEffects[c])
              /\ OutInv

LEMMA HeyCallStarts == HeyInit => HeyCallInv
<1> SUFFICES ASSUME HeyInit PROVE HeyCallInv  OBVIOUS
<1>1. NewCall \in CallRecord /\ CallSound(NewCall, 0) /\ NewCall.at = "new"  BY DEF NewCall, CallRecord, CallSound
<1>2. hyCall = [c \in HeyCalls |-> NewCall] /\ hyEffects = [c \in HeyCalls |-> 0]  BY DEF HeyInit
<1>3. \A c \in HeyCalls : hyCall[c] = NewCall /\ hyEffects[c] = 0  BY <1>2
<1>4. hyCall \in [HeyCalls -> CallRecord] /\ hyEffects \in [HeyCalls -> Nat]  BY <1>1, <1>2
<1>5. \A c \in HeyCalls : CallSound(hyCall[c], hyEffects[c]) /\ hyCall[c].at # "out"  BY <1>1, <1>3
<1>6. hyOut = FALSE /\ hyBrowsing = FALSE /\ hyDropped = {} /\ hyReplaced = 0  BY DEF HeyInit
<1> QED BY <1>4, <1>5, <1>6 DEF HeyCallInv, OutInv

\* One call moves on, and nobody begins to browse.
LEMMA OneCallMoves ==
  ASSUME HeyCallInv, NEW c \in HeyCalls, NEW r \in CallRecord, NEW n \in Nat, CallSound(r, n),
         PutCall(c, r), hyEffects' = [hyEffects EXCEPT ![c] = n],
         hyOut' \in BOOLEAN, hyBrowsing' \in BOOLEAN, hyBrowsing' => hyBrowsing,
         hyOut' => hyUser' = "none" /\ ~hyBrowsing', r.at = "out" /\ r.clean => ~hyBrowsing',
         hyDropped' \subseteq HeyFlags, UNCHANGED <<hyReplaced, hyKnown>>
  PROVE  HeyCallInv'
<1>1. hyCall' = [hyCall EXCEPT ![c] = r] /\ hyCall \in [HeyCalls -> CallRecord] /\ hyEffects \in [HeyCalls -> Nat]
  BY DEF PutCall, HeyCallInv
<1>2. hyCall' \in [HeyCalls -> CallRecord] /\ hyEffects' \in [HeyCalls -> Nat]  BY <1>1
<1>3. ASSUME NEW d \in HeyCalls
      PROVE  CallSound(hyCall'[d], hyEffects'[d]) /\ (hyCall'[d].at = "out" /\ hyCall'[d].clean => ~hyBrowsing')
  <2>1. CASE d = c  BY <1>1, <2>1
  <2>2. CASE d # c
    <3>1. hyCall'[d] = hyCall[d] /\ hyEffects'[d] = hyEffects[d]  BY <1>1, <2>2
    <3> QED BY <3>1 DEF HeyCallInv, OutInv
  <2> QED BY <2>1, <2>2
<1> QED BY <1>2, <1>3 DEF HeyCallInv, OutInv

LEMMA CallIs == ASSUME HeyCallInv, NEW c \in HeyCalls
                PROVE  /\ hyCall[c] \in CallRecord /\ hyEffects[c] \in Nat /\ CallSound(hyCall[c], hyEffects[c])
                       /\ hyEffects = [hyEffects EXCEPT ![c] = hyEffects[c]]
                       /\ hyOut \in BOOLEAN /\ hyBrowsing \in BOOLEAN /\ (hyOut => hyUser = "none" /\ ~hyBrowsing)
                       /\ (hyCall[c].at = "out" /\ hyCall[c].clean => ~hyBrowsing) /\ hyDropped \subseteq HeyFlags
BY DEF HeyCallInv, OutInv

LEMMA ToldIs == ASSUME NEW c \in HeyCalls, HeyCallInv, NEW report \in {"ok", "error"}, Told(c, report)
                PROVE  \E r \in CallRecord : /\ PutCall(c, r) /\ r.at = "done" /\ r.report = report /\ r.verb = hyCall[c].verb
<1>1. PICK r : r = [hyCall[c] EXCEPT !.at = "done", !.report = report]  OBVIOUS
<1>2. hyCall[c] \in CallRecord  BY CallIs
<1>3. r \in CallRecord /\ r.at = "done" /\ r.report = report /\ r.verb = hyCall[c].verb  BY <1>1, <1>2 DEF CallRecord
<1>4. PutCall(c, r)  BY <1>1 DEF Told
<1> QED BY <1>3, <1>4

LEMMA SignSteps == ASSUME HeyCallInv, LoginStart \/ LoginPoll \/ LoginCancel \/ LoginEnds PROVE HeyCallInv'
<1>0. hyCall \in [HeyCalls -> CallRecord]  BY DEF HeyCallInv
<1>1. CASE LoginStart
  <2>1. UNCHANGED <<hyUser, hyEffects, hyKnown, hyDropped, hyReplaced>>  BY <1>1 DEF LoginStart
  <2>2. CASE hyJob = "none"
    <3>1. hyBrowsing' = TRUE /\ hyOut' = FALSE /\ hyCall' = [c \in HeyCalls |-> [hyCall[c] EXCEPT !.clean = FALSE]]
      BY <1>1, <2>2 DEF LoginStart
    <3>2. ASSUME NEW c \in HeyCalls
          PROVE  hyCall'[c] \in CallRecord /\ CallSound(hyCall'[c], hyEffects[c]) /\ ~hyCall'[c].clean
      <4>1. hyCall[c] \in CallRecord /\ CallSound(hyCall[c], hyEffects[c])  BY CallIs
      <4>2. hyCall'[c] = [hyCall[c] EXCEPT !.clean = FALSE]  BY <3>1
      <4>3. /\ hyCall'[c] \in CallRecord /\ ~hyCall'[c].clean /\ hyCall'[c].at = hyCall[c].at /\ hyCall'[c].verb = hyCall[c].verb
            /\ hyCall'[c].report = hyCall[c].report
        BY <4>1, <4>2 DEF CallRecord
      <4> QED BY <4>1, <4>3 DEF CallSound
    <3>3. hyCall' \in [HeyCalls -> CallRecord]  BY <3>1, <3>2
    <3> QED BY <2>1, <3>1, <3>2, <3>3 DEF HeyCallInv, OutInv
  <2>3. CASE hyJob # "none"  BY <1>1, <2>1, <2>3 DEF LoginStart, HeyCallInv, OutInv
  <2> QED BY <2>2, <2>3
<1>2. CASE LoginPoll  BY <1>2 DEF LoginPoll, HeyCallInv, OutInv
<1>3. CASE LoginCancel  BY <1>3 DEF LoginCancel, Cancelled, HeyCallInv, OutInv
<1>4. CASE LoginEnds  BY <1>4 DEF LoginEnds, HeyCallInv, OutInv
<1> QED BY <1>1, <1>2, <1>3, <1>4

LEMMA OutSteps == ASSUME HeyCallInv, NEW c \in HeyCalls, HeyLogout(c) \/ HeyLogoutRun(c) PROVE HeyCallInv'
<1>0. /\ hyCall[c] \in CallRecord /\ hyEffects[c] \in Nat /\ CallSound(hyCall[c], hyEffects[c])
      /\ hyEffects = [hyEffects EXCEPT ![c] = hyEffects[c]]
      /\ hyOut \in BOOLEAN /\ hyBrowsing \in BOOLEAN /\ (hyOut => hyUser = "none" /\ ~hyBrowsing)
      /\ (hyCall[c].at = "out" /\ hyCall[c].clean => ~hyBrowsing) /\ hyDropped \subseteq HeyFlags
  BY CallIs
<1>1. CASE HeyLogout(c)
  <2>1. PICK r : r = [hyCall[c] EXCEPT !.at = "out", !.verb = "logout", !.clean = TRUE]  OBVIOUS
  <2>2. r \in CallRecord /\ r.at = "out" /\ r.verb = "logout" /\ r.clean /\ r.report = hyCall[c].report
    BY <1>0, <2>1 DEF CallRecord
  <2>3. /\ hyCall[c].at = "new" /\ hyBrowsing' = FALSE /\ PutCall(c, r)
        /\ UNCHANGED <<hyUser, hyEffects, hyOut, hyKnown, hyDropped, hyReplaced>>
    BY <1>1, <2>1 DEF HeyLogout, Cancelled
  <2>4. CallSound(r, hyEffects[c])  BY <1>0, <2>2, <2>3 DEF CallSound
  <2> QED BY <1>0, <2>2, <2>3, <2>4, OneCallMoves
<1>2. CASE HeyLogoutRun(c)
  <2>1. UNCHANGED <<hyBrowsing, hyEffects, hyKnown, hyDropped, hyReplaced>> /\ hyCall[c].at = "out"  BY <1>2 DEF HeyLogoutRun
  <2>2. \/ hyUser' = "none" /\ Told(c, "ok") /\ hyOut' = (hyOut \/ hyCall[c].clean)
        \/ hyUser' \in {"none", hyUser} /\ Told(c, "error") /\ hyOut' = hyOut
    BY <1>2 DEF HeyLogoutRun
  <2>3. PICK r \in CallRecord : PutCall(c, r) /\ r.at = "done" /\ r.verb = hyCall[c].verb  BY <2>2, ToldIs
  <2>4. CallSound(r, hyEffects[c])  BY <1>0, <2>1, <2>3 DEF CallSound
  <2>5. hyOut' \in BOOLEAN /\ (hyOut' => hyUser' = "none" /\ ~hyBrowsing')
    <3>1. hyCall[c].clean \in BOOLEAN  BY <1>0 DEF CallRecord
    <3> QED BY <1>0, <2>1, <2>2, <3>1
  <2> QED BY <1>0, <2>1, <2>3, <2>4, <2>5, OneCallMoves
<1> QED BY <1>1, <1>2

LEMMA BindSteps ==
  ASSUME HeyCallInv, NEW c \in HeyCalls,
         \/ \E v \in {"act", "edit", "read"}, a \in HeyNames : BindCall(c, v, a)
         \/ \E h \in BOOLEAN : AskHelp(c, h)
         \/ \E f \in HeyFlags : Negotiate(c, f)
  PROVE  HeyCallInv'
<1>0. /\ hyCall[c] \in CallRecord /\ hyEffects[c] \in Nat /\ CallSound(hyCall[c], hyEffects[c])
      /\ hyEffects = [hyEffects EXCEPT ![c] = hyEffects[c]]
      /\ hyOut \in BOOLEAN /\ hyBrowsing \in BOOLEAN /\ (hyOut => hyUser = "none" /\ ~hyBrowsing)
      /\ (hyCall[c].at = "out" /\ hyCall[c].clean => ~hyBrowsing) /\ hyDropped \subseteq HeyFlags
  BY CallIs
<1>1. ASSUME NEW v \in {"act", "edit", "read"}, NEW a \in HeyNames, BindCall(c, v, a) PROVE HeyCallInv'
  <2>1. PICK fl \in SUBSET HeyFlags : fl = IF v = "read" THEN HeyFlags \ hyDropped ELSE {}  OBVIOUS
  <2>2. PICK r : r = IF hyUser = a THEN [hyCall[c] EXCEPT !.at = "bound", !.verb = v, !.flags = fl]
                     ELSE [hyCall[c] EXCEPT !.at = "done", !.verb = v, !.report = "error"]
    OBVIOUS
  <2>3. r \in CallRecord /\ r.at # "out"
    <3>1. CASE hyUser = a  BY <1>0, <2>2, <3>1 DEF CallRecord
    <3>2. CASE hyUser # a  BY <1>0, <2>2, <3>2 DEF CallRecord
    <3> QED BY <3>1, <3>2
  <2>4. (r.report = "error" /\ r.at = "done") \/ (r.report = hyCall[c].report /\ r.at = "bound")  BY <1>0, <2>2 DEF CallRecord
  <2>5. /\ hyCall[c].at = "new" /\ PutCall(c, r)
        /\ UNCHANGED <<hyUser, hyBrowsing, hyEffects, hyOut, hyKnown, hyDropped, hyReplaced>>
    BY <1>1, <2>1, <2>2 DEF BindCall
  <2>6. CallSound(r, hyEffects[c])  BY <1>0, <2>3, <2>4, <2>5 DEF CallSound
  <2> QED BY <1>0, <2>3, <2>5, <2>6, OneCallMoves
<1>2. ASSUME NEW h \in BOOLEAN, AskHelp(c, h) PROVE HeyCallInv'
  <2>1. PICK r : r = IF h THEN [hyCall[c] EXCEPT !.at = "ready"] ELSE [hyCall[c] EXCEPT !.at = "done", !.report = "error"]  OBVIOUS
  <2>2. r \in CallRecord /\ r.at # "out" /\ (r.at = "done" => r.report = "error") /\ (r.at # "done" => r.report = hyCall[c].report)
    BY <1>0, <2>1 DEF CallRecord
  <2>3. /\ hyCall[c].at = "bound" /\ PutCall(c, r)
        /\ UNCHANGED <<hyUser, hyBrowsing, hyEffects, hyOut, hyKnown, hyDropped, hyReplaced>>
    BY <1>2, <2>1 DEF AskHelp
  <2>4. CallSound(r, hyEffects[c])  BY <1>0, <2>2, <2>3 DEF CallSound
  <2> QED BY <1>0, <2>2, <2>3, <2>4, OneCallMoves
<1>3. ASSUME NEW f \in HeyFlags, Negotiate(c, f) PROVE HeyCallInv'
  <2>1. PICK r : r = [hyCall[c] EXCEPT !.flags = @ \ {f}]  OBVIOUS
  <2>2. r \in CallRecord /\ r.at = hyCall[c].at /\ r.report = hyCall[c].report /\ r.verb = hyCall[c].verb
    BY <1>0, <2>1 DEF CallRecord
  <2>3. /\ hyCall[c].at = "bound" /\ PutCall(c, r) /\ hyDropped' = hyDropped \cup {f}
        /\ UNCHANGED <<hyUser, hyBrowsing, hyEffects, hyOut, hyKnown, hyReplaced>>
    BY <1>3, <2>1 DEF Negotiate
  <2>4. CallSound(r, hyEffects[c])  BY <1>0, <2>2, <2>3 DEF CallSound
  <2>6. hyDropped' \subseteq HeyFlags  BY <1>0, <2>3
  <2> QED BY <1>0, <2>2, <2>3, <2>4, <2>6, OneCallMoves
<1> QED BY <1>1, <1>2, <1>3

LEMMA RunSteps ==
  ASSUME HeyCallInv, NEW c \in HeyCalls, Mutate(c) \/ MutateRefused(c) \/ \E r \in {"ok", "error"} : ReadThread(c, r)
  PROVE  HeyCallInv'
<1>0. /\ hyCall[c] \in CallRecord /\ hyEffects[c] \in Nat /\ CallSound(hyCall[c], hyEffects[c])
      /\ hyEffects = [hyEffects EXCEPT ![c] = hyEffects[c]]
      /\ hyOut \in BOOLEAN /\ hyBrowsing \in BOOLEAN /\ (hyOut => hyUser = "none" /\ ~hyBrowsing)
      /\ (hyCall[c].at = "out" /\ hyCall[c].clean => ~hyBrowsing) /\ hyDropped \subseteq HeyFlags
  BY CallIs
<1>1. /\ UNCHANGED <<hyUser, hyBrowsing, hyOut, hyKnown, hyDropped, hyReplaced>>
      /\ hyCall[c].at \in {"ready", "bound"}
      /\ \/ Told(c, "ok") /\ hyEffects' = [hyEffects EXCEPT ![c] = @ + 1]
         \/ Told(c, "error") /\ hyEffects' \in {hyEffects, [hyEffects EXCEPT ![c] = @ + 1]}
         \/ hyCall[c].verb = "read" /\ hyEffects' = hyEffects /\ \E r \in {"ok", "error"} : Told(c, r)
  BY DEF Mutate, MutateRefused, ReadThread, MayMutate, RunOnce
<1>2. hyEffects[c] = 0  BY <1>0, <1>1 DEF CallSound
<1>3. PICK report \in {"ok", "error"}, n \in {0, 1} :
        /\ Told(c, report) /\ hyEffects' = [hyEffects EXCEPT ![c] = n]
        /\ report = "ok" /\ hyCall[c].verb # "read" => n = 1
  <2>1. hyEffects = [hyEffects EXCEPT ![c] = 0] /\ [hyEffects EXCEPT ![c] = @ + 1] = [hyEffects EXCEPT ![c] = 1]  BY <1>0, <1>2
  <2>2. CASE Told(c, "ok") /\ hyEffects' = [hyEffects EXCEPT ![c] = @ + 1]  BY <2>1, <2>2
  <2>3. CASE Told(c, "error") /\ hyEffects' \in {hyEffects, [hyEffects EXCEPT ![c] = @ + 1]}  BY <2>1, <2>3
  <2>4. CASE hyCall[c].verb = "read" /\ hyEffects' = hyEffects /\ \E r \in {"ok", "error"} : Told(c, r)  BY <2>1, <2>4
  <2> QED BY <1>1, <2>2, <2>3, <2>4
<1>4. PICK r \in CallRecord : PutCall(c, r) /\ r.at = "done" /\ r.report = report /\ r.verb = hyCall[c].verb  BY <1>3, ToldIs
<1>5. CallSound(r, n) /\ n \in Nat  BY <1>3, <1>4 DEF CallSound
<1> QED BY <1>0, <1>1, <1>2, <1>3, <1>4, <1>5, OneCallMoves

LEMMA HeyCallKeeps == HeyCallInv /\ [HeyCallNext \/ HeyListNext]_heyVars => HeyCallInv'
<1> SUFFICES ASSUME HeyCallInv, [HeyCallNext \/ HeyListNext]_heyVars PROVE HeyCallInv'  OBVIOUS
<1>1. CASE UNCHANGED <<hyUser, hyJob, hyBrowsing, hyCall, hyEffects, hyOut, hyKnown, hyDropped, hyReplaced>>
  BY <1>1 DEF HeyCallInv, OutInv
<1>2. CASE HeyCallNext
  <2>1. ASSUME NEW k \in SUBSET HeyFlags, Replace(k) PROVE HeyCallInv'
    <3>1. /\ hyReplaced' = hyReplaced + 1 /\ hyReplaced \in Nat
          /\ UNCHANGED <<hyUser, hyBrowsing, hyCall, hyEffects, hyOut, hyDropped>>
      BY <2>1 DEF Replace, HeyCallInv
    <3>2. hyReplaced' \in Nat  BY <3>1
    <3> QED BY <3>1, <3>2 DEF HeyCallInv, OutInv
  <2>2. CASE LoginStart \/ LoginPoll \/ LoginCancel \/ LoginEnds  BY <2>2, SignSteps
  <2>3. ASSUME NEW c \in HeyCalls,
               \/ HeyLogout(c) \/ HeyLogoutRun(c) \/ Mutate(c) \/ MutateRefused(c)
               \/ \E v \in {"act", "edit", "read"}, a \in HeyNames : BindCall(c, v, a)
               \/ \E h \in BOOLEAN : AskHelp(c, h)
               \/ \E f \in HeyFlags : Negotiate(c, f)
               \/ \E r \in {"ok", "error"} : ReadThread(c, r)
        PROVE  HeyCallInv'
    BY <2>3, OutSteps, BindSteps, RunSteps
  <2> QED BY <1>2, <2>1, <2>2, <2>3 DEF HeyCallNext
<1>3. CASE HeyListNext  BY <1>1, <1>3 DEF HeyListNext, NextPage, StartWalk
<1> QED BY <1>1, <1>2, <1>3 DEF heyVars

(* Once a logout is answered no browser sign-in that was running comes back behind it, a mutation is carried out at
   most once and has been if it is reported done. *)
THEOREM HeyCallsAreSafe == HeySpec => [](LogoutHolds /\ MutatesOnce)
<1>1. HeyCallInv => LogoutHolds /\ MutatesOnce  BY DEF HeyCallInv, OutInv, CallSound, LogoutHolds, MutatesOnce
<1> QED BY <1>1, HeyCallStarts, HeyCallKeeps, PTL DEF HeySpec

------------------------------------
(* Numbers and sequences, one after the other *)

\* Two sequences, one after the other.
LEMMA JoinIs == ASSUME NEW S, NEW b \in Seq(S), NEW q \in Seq(S)
                PROVE  /\ b \o q \in Seq(S) /\ Len(b) \in Nat /\ Len(q) \in Nat /\ Len(b \o q) = Len(b) + Len(q)
                       /\ \A i \in 1..Len(b) : (b \o q)[i] = b[i]
                       /\ \A i \in 1..Len(b) + Len(q) : i > Len(b) => i - Len(b) \in 1..Len(q) /\ (b \o q)[i] = q[i - Len(b)]
OBVIOUS

\* Sets of numbers, one after the other: they are counted one after the other.
LEMMA ShiftIs ==
  ASSUME NEW a \in Nat, NEW X, IsFiniteSet(X), X \subseteq Nat
  PROVE  LET S == {a + x : x \in X} IN IsFiniteSet(S) /\ Cardinality(S) = Cardinality(X) /\ Cardinality(X) \in Nat
<1> DEFINE S == {a + x : x \in X}
           to == [x \in X |-> a + x]
           from == [s \in S |-> s - a]
<1>1. to \in [X -> S] /\ \A x, y \in X : to[x] = to[y] => x = y  OBVIOUS
<1>2. from \in [S -> X] /\ \A x, y \in S : from[x] = from[y] => x = y  OBVIOUS
<1>3. IsFiniteSet(S) /\ Cardinality(S) \in Nat /\ Cardinality(X) \in Nat /\ Cardinality(S) <= Cardinality(X)
  <2> HIDE DEF from, S
  <2> QED BY <1>2, Fewer
<1>4. Cardinality(X) <= Cardinality(S)
  <2> HIDE DEF to, S
  <2> QED BY <1>1, <1>3, Fewer
<1> HIDE DEF S
<1>5. Cardinality(S) = Cardinality(X)  BY <1>3, <1>4
<1> QED BY <1>3, <1>5 DEF S

LEMMA RisingOnly ==
  ASSUME NEW S, IsFiniteSet(S), S \subseteq Nat, NEW i \in 1..Cardinality(S), NEW u \in S, Cardinality({v \in S : v < u}) = i - 1
  PROVE  Rising(S)[i] = u
<1>1. PICK j \in 1..Cardinality(S) : Rising(S)[j] = u  BY RisingIs
<1>2. Cardinality({v \in S : v < u}) = j - 1 /\ Cardinality(S) \in Nat  BY <1>1, RisingIs
<1>3. i = j  BY <1>2
<1> QED BY <1>1, <1>3

Joined(K, a, L) == K \cup {a + l : l \in L}
InTurn(K, a, L, M) ==
         /\ IsFiniteSet(M) /\ Cardinality(K) \in Nat /\ Cardinality(L) \in Nat /\ Cardinality(M) = Cardinality(K) + Cardinality(L)
         /\ \A i \in 1..Cardinality(K) : Rising(M)[i] = Rising(K)[i]
         /\ \A j \in 1..Cardinality(L) : Rising(M)[Cardinality(K) + j] = a + Rising(L)[j]
LEMMA RisingJoins ==
  ASSUME NEW a \in Nat, NEW c \in Nat, NEW K, K \subseteq 1..a, NEW L, L \subseteq 1..c
  PROVE  InTurn(K, a, L, Joined(K, a, L))
<1>0. PICK M : M = Joined(K, a, L)  OBVIOUS
<1> DEFINE S == {a + l : l \in L}
<1>1. IsFiniteSet(K) /\ IsFiniteSet(L) /\ Cardinality(K) \in Nat /\ Cardinality(L) \in Nat /\ K \subseteq Nat /\ L \subseteq Nat
  <2>1. IsFiniteSet(K) /\ Cardinality(K) \in Nat  BY PlacesAre
  <2>2. IsFiniteSet(L) /\ Cardinality(L) \in Nat  BY PlacesAre
  <2> QED BY <2>1, <2>2
<1>2. IsFiniteSet(S) /\ Cardinality(S) = Cardinality(L)  BY <1>1, ShiftIs
<1>3. K \cap S = {} /\ M \subseteq Nat /\ M = K \cup S /\ \A k \in K, s \in S : k < s
  <2>1. \A k \in K : k \in Nat /\ k <= a  OBVIOUS
  <2>2. ASSUME NEW s \in S PROVE s \in Nat /\ s > a
    <3>1. PICK l \in L : s = a + l  OBVIOUS
    <3>2. l \in 1..c  OBVIOUS
    <3> QED BY <3>1, <3>2
  <2>3. M = K \cup S  BY <1>0 DEF Joined
  <2>4. \A k \in K, s \in S : k < s  BY <2>1, <2>2
  <2> HIDE DEF S
  <2>5. ASSUME NEW k \in K, k \in S PROVE FALSE
    <3>1. k \in Nat /\ k < k  BY <2>1, <2>4, <2>5
    <3> QED BY <3>1
  <2> QED BY <2>1, <2>2, <2>3, <2>4, <2>5
<1>4. IsFiniteSet(M) /\ Cardinality(M) = Cardinality(K) + Cardinality(L)
  <2> HIDE DEF S
  <2>1. IsFiniteSet(M) /\ Cardinality(M) = Cardinality(K) + Cardinality(S) - Cardinality(K \cap S)  BY <1>1, <1>2, <1>3, FS_Union
  <2>2. Cardinality(K \cap S) = 0  BY <1>3, FS_EmptySet
  <2> QED BY <1>1, <1>2, <2>1, <2>2
<1>5. ASSUME NEW i \in 1..Cardinality(K) PROVE Rising(M)[i] = Rising(K)[i]
  <2>1. PICK u : u = Rising(K)[i]  OBVIOUS
  <2>2. u \in K /\ Cardinality({v \in K : v < u}) = i - 1  BY <1>1, <2>1, RisingIs
  <2>3. {v \in M : v < u} = {v \in K : v < u}  BY <1>1, <1>3, <2>2
  <2>4. u \in M /\ i \in 1..Cardinality(M)  BY <1>1, <1>3, <1>4, <2>2
  <2> HIDE DEF S
  <2>5. Rising(M)[i] = u  BY <1>3, <1>4, <2>2, <2>3, <2>4, RisingOnly
  <2> QED BY <2>1, <2>5
<1>6. ASSUME NEW j \in 1..Cardinality(L) PROVE Rising(M)[Cardinality(K) + j] = a + Rising(L)[j]
  <2>1. PICK w : w = Rising(L)[j]  OBVIOUS
  <2>2. w \in L /\ Cardinality({l \in L : l < w}) = j - 1  BY <1>1, <2>1, RisingIs
  <2> DEFINE W == {l \in L : l < w}
             T == {a + l : l \in W}
  <2>3. IsFiniteSet(W) /\ W \subseteq Nat
    <3>1. W \subseteq L  OBVIOUS
    <3> QED BY <1>1, <3>1, FS_Subset
  <2>4. IsFiniteSet(T) /\ Cardinality(T) = j - 1
    <3>1. Cardinality(W) = j - 1  BY <2>2
    <3> HIDE DEF W
    <3> QED BY <2>3, <3>1, ShiftIs
  <2>5. {v \in M : v < a + w} = K \cup T /\ K \cap T = {}
    <3>1. w \in Nat /\ w >= 1 /\ \A k \in K : k <= a /\ k \in Nat  BY <1>1, <2>2
    <3>2. \A v \in S : v < a + w <=> v \in T  BY <1>1, <3>1
    <3>3. T \subseteq S  OBVIOUS
    <3>4. \A k \in K : k < a + w  BY <3>1
    <3> HIDE DEF S, T
    <3> QED BY <1>3, <3>2, <3>3, <3>4
  <2>6. Cardinality(K \cup T) = Cardinality(K) + (j - 1)
    <3> HIDE DEF T
    <3>1. Cardinality(K \cup T) = Cardinality(K) + Cardinality(T) - Cardinality(K \cap T)  BY <1>1, <2>4, FS_Union
    <3>2. Cardinality(K \cap T) = 0  BY <2>5, FS_EmptySet
    <3> QED BY <1>1, <2>4, <3>1, <3>2
  <2>7. a + w \in M /\ Cardinality(K) + j \in 1..Cardinality(M)  BY <1>1, <1>3, <1>4, <2>2
  <2> HIDE DEF S, T, W
  <2>8. Cardinality({v \in M : v < a + w}) = (Cardinality(K) + j) - 1
    <3>1. Cardinality({v \in M : v < a + w}) = Cardinality(K \cup T)  BY <2>5
    <3>2. (Cardinality(K) + j) - 1 = Cardinality(K) + (j - 1)  BY <1>1
    <3> QED BY <2>6, <3>1, <3>2
  <2>9. Rising(M)[Cardinality(K) + j] = a + w  BY <1>3, <1>4, <2>7, <2>8, RisingOnly
  <2> QED BY <2>1, <2>9
<1> QED BY <1>0, <1>1, <1>4, <1>5, <1>6 DEF InTurn

------------------------------------
(* HEY: the pages of a list *)

AllRows == Len(HeyRows)
RowSet == {HeyRows[i] : i \in DOMAIN HeyRows}
Fits(kind, r) == r.ok /\ (kind = "unseen" => ~r.seen)
\* The rows of a list among the first n of the box.
Places(kind, n) == {i \in 1..n : Fits(kind, HeyRows[i])}
Upto(kind, n) == Picked(HeyRows, Places(kind, n))

LEMMA RowsAre == HeyRows \in Seq(RowSet) /\ AllRows \in Nat /\ DOMAIN HeyRows = 1..AllRows
BY HeyBounds DEF RowSet, AllRows

LEMMA UptoIs == ASSUME NEW kind, NEW n \in 0..AllRows
                PROVE  /\ Upto(kind, n) \in Seq(RowSet) /\ Places(kind, n) \subseteq 1..n /\ Len(Upto(kind, n)) = Cardinality(Places(kind, n))
                       /\ Cardinality(Places(kind, n)) \in Nat
                       /\ \A i \in 1..Cardinality(Places(kind, n)) : Upto(kind, n)[i] = HeyRows[Rising(Places(kind, n))[i]]
<1>1. Places(kind, n) \subseteq 1..n /\ 1..n \subseteq 1..AllRows  BY RowsAre DEF Places
<1>2. Places(kind, n) \subseteq 1..Len(HeyRows)  BY <1>1 DEF AllRows
<1>3. Picked(HeyRows, Places(kind, n)) \in Seq(RowSet) /\ Len(Picked(HeyRows, Places(kind, n))) = Cardinality(Places(kind, n))
      /\ Cardinality(Places(kind, n)) \in Nat
  BY <1>2, RowsAre, PickedIs
<1> QED BY <1>1, <1>3 DEF Upto, Picked

Cut(kind, m, n, p, L) ==
         /\ p \in Seq(RowSet) /\ Len(p) = n - m /\ L \subseteq 1..n - m /\ Places(kind, n) = Joined(Places(kind, m), m, L)
         /\ Listing(kind, p) \in Seq(RowSet) /\ Len(Listing(kind, p)) = Cardinality(L)
         /\ \A j \in 1..Cardinality(L) : Rising(L)[j] \in 1..n - m /\ Listing(kind, p)[j] = HeyRows[m + Rising(L)[j]]
LEMMA ListingIs ==
  ASSUME NEW kind, NEW m \in 0..AllRows, NEW n \in 0..AllRows, m <= n
  PROVE  Cut(kind, m, n, SubSeq(HeyRows, m + 1, n), Wanted(kind, SubSeq(HeyRows, m + 1, n)))
<1> PICK p, L : p = SubSeq(HeyRows, m + 1, n) /\ L = Wanted(kind, p)  OBVIOUS
<1>0. m \in Nat /\ n \in Nat /\ n <= AllRows /\ AllRows \in Nat  BY RowsAre
<1>1. p \in Seq(RowSet) /\ Len(p) = n - m /\ DOMAIN p = 1..n - m /\ \A i \in 1..n - m : p[i] = HeyRows[m + i]
  BY <1>0, RowsAre DEF AllRows
<1>2. L = {i \in 1..n - m : Fits(kind, HeyRows[m + i])}  BY <1>1 DEF Wanted, Fits
<1>3. Places(kind, n) = Joined(Places(kind, m), m, L)
  <2>1. ASSUME NEW i \in Places(kind, n), i \notin 1..m PROVE i - m \in L /\ i = m + (i - m)
    <3>1. i \in 1..n /\ Fits(kind, HeyRows[i]) /\ i - m \in 1..n - m /\ m + (i - m) = i  BY <1>0, <2>1 DEF Places
    <3> QED BY <1>2, <3>1
  <2>2. ASSUME NEW l \in L PROVE m + l \in Places(kind, n)  BY <1>0, <1>2 DEF Places
  <2>3. Places(kind, m) \subseteq Places(kind, n) /\ \A i \in Places(kind, n) : i \in 1..m => i \in Places(kind, m)
    BY <1>0 DEF Places
  <2> QED BY <2>1, <2>2, <2>3 DEF Joined
<1>4. L \subseteq 1..Len(p)  BY <1>1, <1>2
<1>5. Picked(p, L) \in Seq(RowSet) /\ Len(Picked(p, L)) = Cardinality(L) /\ IsFiniteSet(L)  BY <1>1, <1>4, PickedIs
<1>6. ASSUME NEW j \in 1..Cardinality(L) PROVE Rising(L)[j] \in 1..n - m /\ Picked(p, L)[j] = HeyRows[m + Rising(L)[j]]
  <2>1. L \subseteq Nat /\ L \subseteq 1..n - m  BY <1>1, <1>4
  <2>2. Rising(L)[j] \in L  BY <1>5, <2>1, RisingIs
  <2> QED BY <1>1, <2>1, <2>2 DEF Picked
<1>7. Listing(kind, p) = Picked(p, L)  BY DEF Listing
<1> QED BY <1>1, <1>3, <1>4, <1>5, <1>6, <1>7 DEF Cut

\* A page follows what came before it.
LEMMA PageJoins ==
  ASSUME NEW kind, NEW m \in 0..AllRows, NEW n \in 0..AllRows, m <= n
  PROVE  Upto(kind, n) = Upto(kind, m) \o Listing(kind, SubSeq(HeyRows, m + 1, n))
<1>0. PICK p, q, L, K, M : /\ p = SubSeq(HeyRows, m + 1, n) /\ q = Listing(kind, p) /\ L = Wanted(kind, p)
                           /\ K = Places(kind, m) /\ M = Places(kind, n)
  OBVIOUS
<1>1. /\ L \subseteq 1..n - m /\ M = Joined(K, m, L) /\ q \in Seq(RowSet) /\ Len(q) = Cardinality(L)
      /\ \A j \in 1..Cardinality(L) : q[j] = HeyRows[m + Rising(L)[j]]
  <2>1. Cut(kind, m, n, p, L)  BY <1>0, ListingIs
  <2> QED BY <1>0, <2>1 DEF Cut
<1>2. /\ Upto(kind, m) \in Seq(RowSet) /\ K \subseteq 1..m /\ Len(Upto(kind, m)) = Cardinality(K) /\ Cardinality(K) \in Nat
      /\ \A i \in 1..Cardinality(K) : Upto(kind, m)[i] = HeyRows[Rising(K)[i]]
  BY <1>0, UptoIs
<1>3. /\ Upto(kind, n) \in Seq(RowSet) /\ Len(Upto(kind, n)) = Cardinality(M)
      /\ \A i \in 1..Cardinality(M) : Upto(kind, n)[i] = HeyRows[Rising(M)[i]]
  BY <1>0, UptoIs
<1>4. m \in Nat /\ n - m \in Nat  BY RowsAre
<1>5. /\ Cardinality(L) \in Nat /\ Cardinality(M) = Cardinality(K) + Cardinality(L)
      /\ \A i \in 1..Cardinality(K) : Rising(M)[i] = Rising(K)[i]
      /\ \A j \in 1..Cardinality(L) : Rising(M)[Cardinality(K) + j] = m + Rising(L)[j]
  <2>1. PICK c \in Nat : c = n - m  BY <1>4
  <2>2. K \subseteq 1..m /\ L \subseteq 1..c /\ M = Joined(K, m, L)  BY <1>1, <1>2, <2>1
  <2>3. /\ Cardinality(L) \in Nat /\ Cardinality(M) = Cardinality(K) + Cardinality(L)
        /\ \A i \in 1..Cardinality(K) : Rising(M)[i] = Rising(K)[i]
        /\ \A j \in 1..Cardinality(L) : Rising(M)[Cardinality(K) + j] = m + Rising(L)[j]
    <3>1. InTurn(K, m, L, M)  BY <1>4, <2>2, RisingJoins
    <3> QED BY <3>1 DEF InTurn
  <2> QED BY <2>3
<1>6. PICK s, t, u : s = Upto(kind, n) /\ t = Upto(kind, m) /\ u = t \o q  OBVIOUS
<1>7. /\ u \in Seq(RowSet) /\ Len(u) = Cardinality(K) + Cardinality(L) /\ \A i \in 1..Cardinality(K) : u[i] = t[i]
      /\ \A i \in 1..Len(u) : i \notin 1..Cardinality(K) => i - Cardinality(K) \in 1..Cardinality(L) /\ u[i] = q[i - Cardinality(K)]
  <2>1. t \in Seq(RowSet) /\ Len(t) = Cardinality(K) /\ q \in Seq(RowSet) /\ Len(q) = Cardinality(L)  BY <1>1, <1>2, <1>6
  <2> QED BY <1>6, <2>1, JoinIs
<1>8. s \in Seq(RowSet) /\ Len(s) = Len(u)  BY <1>3, <1>5, <1>6, <1>7
<1>9. ASSUME NEW i \in 1..Len(u) PROVE s[i] = u[i]
  <2>1. CASE i \in 1..Cardinality(K)
    <3>1. i \in 1..Cardinality(M)  BY <1>2, <1>5, <2>1
    <3>2. s[i] = HeyRows[Rising(K)[i]]  BY <1>3, <1>5, <1>6, <2>1, <3>1
    <3> QED BY <1>2, <1>6, <1>7, <2>1, <3>2
  <2>2. CASE i \notin 1..Cardinality(K)
    <3>1. PICK j \in 1..Cardinality(L) : j = i - Cardinality(K) /\ u[i] = q[j]  BY <1>7, <2>2
    <3>2. i = Cardinality(K) + j /\ i \in 1..Cardinality(M)  BY <1>2, <1>5, <1>7, <3>1
    <3>3. s[i] = HeyRows[m + Rising(L)[j]]  BY <1>3, <1>5, <1>6, <3>2
    <3> QED BY <1>1, <3>1, <3>3
  <2> QED BY <2>1, <2>2
<1>10. s = u  BY <1>7, <1>8, <1>9
<1> QED BY <1>0, <1>6, <1>10

LEMMA WholeIs == ASSUME NEW kind, NEW n \in 0..AllRows
                 PROVE  Upto(kind, 0) = <<>> /\ Listing(kind, SubSeq(HeyRows, 1, n)) = Upto(kind, n)
<1>1. 0 \in 0..AllRows /\ 0 <= n  BY RowsAre
<1>2. Upto(kind, 0) \in Seq(RowSet) /\ Len(Upto(kind, 0)) = Cardinality(Places(kind, 0)) /\ Places(kind, 0) \subseteq 1..0
  BY <1>1, UptoIs
<1>3. Upto(kind, 0) = <<>>
  <2>1. Places(kind, 0) = {}  BY <1>2
  <2>2. Len(Upto(kind, 0)) = 0  BY <1>2, <2>1, FS_EmptySet
  <2> QED BY <1>2, <2>2
<1>4. Upto(kind, n) = Upto(kind, 0) \o Listing(kind, SubSeq(HeyRows, 0 + 1, n))  BY <1>1, PageJoins
<1>5. Listing(kind, SubSeq(HeyRows, 0 + 1, n)) \in Seq(RowSet)
  <2>1. Cut(kind, 0, n, SubSeq(HeyRows, 0 + 1, n), Wanted(kind, SubSeq(HeyRows, 0 + 1, n)))  BY <1>1, ListingIs
  <2> QED BY <2>1 DEF Cut
<1>6. 0 + 1 = 1  OBVIOUS
<1> QED BY <1>3, <1>4, <1>5, <1>6

LEMMA PiecesJoin ==
  ASSUME NEW S, NEW b \in Seq(S), NEW q \in Seq(S), NEW m \in 0..Len(q), NEW n \in 0..Len(q), m <= n
  PROVE  (b \o SubSeq(q, 1, m)) \o SubSeq(q, m + 1, n) = b \o SubSeq(q, 1, n)
<1>1. PICK u, v, w : u = SubSeq(q, 1, m) /\ v = SubSeq(q, m + 1, n) /\ w = SubSeq(q, 1, n)  OBVIOUS
<1>2. Len(b) \in Nat /\ m \in Nat /\ n \in Nat /\ n <= Len(q) /\ Len(q) \in Nat  OBVIOUS
<1>3. /\ u \in Seq(S) /\ Len(u) = m /\ \A i \in 1..m : u[i] = q[i]
      /\ w \in Seq(S) /\ Len(w) = n /\ \A i \in 1..n : w[i] = q[i]
  BY <1>1, <1>2, CutIs
<1>4. v \in Seq(S) /\ Len(v) = n - m /\ \A i \in 1..n - m : v[i] = q[m + i]  BY <1>1, <1>2
<1>5. PICK x, y, z : x = b \o u /\ y = x \o v /\ z = b \o w  OBVIOUS
<1>6. /\ x \in Seq(S) /\ Len(x) = Len(b) + m /\ (\A i \in 1..Len(b) : x[i] = b[i])
      /\ \A i \in 1..Len(b) + m : i > Len(b) => i - Len(b) \in 1..m /\ x[i] = u[i - Len(b)]
  BY <1>3, <1>5, JoinIs
<1>7. /\ y \in Seq(S) /\ Len(y) = Len(b) + n /\ (\A i \in 1..Len(x) : y[i] = x[i])
      /\ \A i \in 1..Len(y) : i > Len(x) => i - Len(x) \in 1..n - m /\ y[i] = v[i - Len(x)]
  <2>1. /\ y \in Seq(S) /\ Len(y) = Len(x) + Len(v) /\ (\A i \in 1..Len(x) : y[i] = x[i])
        /\ \A i \in 1..Len(x) + Len(v) : i > Len(x) => i - Len(x) \in 1..Len(v) /\ y[i] = v[i - Len(x)]
    <3>1. x \in Seq(S) /\ v \in Seq(S) /\ y = x \o v  BY <1>4, <1>5, <1>6
    <3> QED BY <3>1, JoinIs
  <2>2. Len(x) + Len(v) = Len(b) + n  BY <1>2, <1>4, <1>6
  <2> QED BY <1>4, <2>1, <2>2
<1>8. /\ z \in Seq(S) /\ Len(z) = Len(b) + n /\ (\A i \in 1..Len(b) : z[i] = b[i])
      /\ \A i \in 1..Len(z) : i > Len(b) => i - Len(b) \in 1..n /\ z[i] = w[i - Len(b)]
  <2>1. w \in Seq(S) /\ Len(w) = n  BY <1>3
  <2>2. /\ z \in Seq(S) /\ Len(z) = Len(b) + Len(w) /\ (\A i \in 1..Len(b) : z[i] = b[i])
        /\ \A i \in 1..Len(b) + Len(w) : i > Len(b) => i - Len(b) \in 1..Len(w) /\ z[i] = w[i - Len(b)]
    BY <1>5, <2>1, JoinIs
  <2> QED BY <2>1, <2>2
<1>9. ASSUME NEW i \in 1..Len(y) PROVE y[i] = z[i]
  <2>1. CASE i <= Len(b)  BY <1>2, <1>6, <1>7, <1>8, <2>1
  <2>2. CASE i > Len(b) /\ i <= Len(b) + m
    <3>1. i - Len(b) \in 1..m /\ i = Len(b) + (i - Len(b)) /\ i \in 1..Len(x) /\ i \in 1..Len(z) /\ i - Len(b) \in 1..n
      BY <1>2, <1>6, <1>7, <1>8, <2>2
    <3>2. y[i] = x[i] /\ x[i] = u[i - Len(b)]  BY <1>2, <1>6, <1>7, <2>2, <3>1
    <3>2a. u[i - Len(b)] = q[i - Len(b)]  BY <1>3, <3>1
    <3>3. z[i] = q[i - Len(b)]  BY <1>3, <1>8, <2>2, <3>1
    <3> QED BY <3>2, <3>2a, <3>3
  <2>3. CASE i > Len(b) + m
    <3>1. i > Len(x) /\ i > Len(b) /\ i \in 1..Len(z) /\ i - Len(b) = m + (i - Len(x))  BY <1>2, <1>6, <1>7, <1>8, <2>3
    <3>2. y[i] = q[m + (i - Len(x))]  BY <1>4, <1>7, <3>1
    <3>3. z[i] = q[i - Len(b)]  BY <1>3, <1>8, <3>1
    <3> QED BY <3>1, <3>2, <3>3
  <2> QED BY <1>2, <1>7, <2>1, <2>2, <2>3
<1>10. y = z  BY <1>7, <1>8, <1>9
<1> QED BY <1>1, <1>5, <1>10

RowLists == Seq(RowSet)
WalkSet(A, B, C, D, E, F, G) == [at : A, kind : B, size : C, old : D, offset : E, cursor : F, got : G]
WalkRecord == WalkSet({"idle", "walk", "end"}, Kinds \cup {"none"}, HeySizes \cup {1}, BOOLEAN, Nat, Nat \ {0}, RowLists)
OnePage(w) == w.kind = "unseen" \/ (w.kind = "drafts" /\ w.old)
Least(a, b) == IF a < b THEN a ELSE b
\* The rows of the box before this page of the program, and up to its end.
PageStart(w) == IF OnePage(w) THEN 0 ELSE Least((w.cursor - 1) * ToolPage, AllRows)
PageEnd(w) == CASE w.kind = "unseen" -> Least(UnseenCap, AllRows)
                [] w.kind = "drafts" /\ w.old -> AllRows
                [] OTHER -> Least((w.cursor - 1) * ToolPage + ToolPage, AllRows)
PageRows(w) == Listing(w.kind, ToolRows(w))
WholeWalk(w) ==
    w.at = "end" =>
       IF w.kind = "search"
       THEN \E n \in 0 .. Len(Everything(w)) : w.got = SubSeq(Everything(w), 1, n)
                                               /\ (n < Len(Everything(w)) => Listing("search", ToolRows(w)) = <<>>)
       ELSE w.got = Everything(w)
\* What was listed so far is what the box lists up to where the walk is.
WalkOk(w) == /\ w \in WalkRecord /\ (w.at = "idle" => w = NoWalk) /\ WholeWalk(w)
             /\ w.at = "walk" => /\ w.kind \in Kinds /\ w.size \in HeySizes /\ (OnePage(w) => w.cursor = 1)
                                 /\ w.offset <= Len(PageRows(w))
                                 /\ w.got = Upto(w.kind, PageStart(w)) \o SubSeq(PageRows(w), 1, w.offset)

LEMMA EmptyCut == ASSUME NEW m, NEW n, m \in Int, n \in Int, m > n PROVE SubSeq(HeyRows, m, n) = <<>>
BY RowsAre

LEMMA PageIs ==
  ASSUME NEW w, w.kind \in Kinds, w.old \in BOOLEAN, w.cursor \in Nat \ {0}, OnePage(w) => w.cursor = 1
  PROVE  /\ PageStart(w) \in 0..AllRows /\ PageEnd(w) \in 0..AllRows /\ PageStart(w) <= PageEnd(w)
         /\ ToolRows(w) = SubSeq(HeyRows, PageStart(w) + 1, PageEnd(w))
<1>1. AllRows \in Nat /\ UnseenCap \in Nat /\ ToolPage \in Nat /\ ToolPage > 0 /\ AllRows = Len(HeyRows)
  BY RowsAre, HeyBounds DEF AllRows
<1>2. CASE w.kind = "unseen"  BY <1>1, <1>2 DEF PageStart, PageEnd, OnePage, ToolRows, Least
<1>3. CASE w.kind # "unseen" /\ w.kind = "drafts" /\ w.old
  <2>1. PageStart(w) = 0 /\ PageEnd(w) = AllRows /\ ToolRows(w) = HeyRows  BY <1>3 DEF PageStart, PageEnd, OnePage, ToolRows
  <2>2. SubSeq(HeyRows, 0 + 1, AllRows) = HeyRows
    <3>1. HeyRows \in Seq(RowSet) /\ Len(HeyRows) = AllRows  BY RowsAre DEF AllRows
    <3>2. \A s \in Seq(RowSet) : SubSeq(s, 1, Len(s)) = s  OBVIOUS
    <3> QED BY <3>1, <3>2
  <2> QED BY <1>1, <2>1, <2>2
<1>4. CASE ~OnePage(w)
  <2>1. PICK from \in Nat : from = (w.cursor - 1) * ToolPage
    <3>1. w.cursor - 1 \in Nat  OBVIOUS
    <3>2. \A a, b \in Nat : a * b \in Nat  OBVIOUS
    <3> QED BY <1>1, <3>1, <3>2
  <2>2. PageStart(w) = Least(from, AllRows) /\ PageEnd(w) = Least(from + ToolPage, AllRows)
    BY <1>4, <2>1 DEF PageStart, PageEnd, OnePage
  <2>3. ToolRows(w) = SubSeq(HeyRows, from + 1, Least(from + ToolPage, AllRows))  BY <1>1, <1>4, <2>1 DEF ToolRows, OnePage, Least
  <2>4. CASE from <= AllRows
    <3>1. PICK to : to = Least(from + ToolPage, AllRows)  OBVIOUS
    <3>2. to \in 0..AllRows /\ from <= to /\ Least(from, AllRows) = from  BY <1>1, <2>4, <3>1 DEF Least
    <3> QED BY <1>1, <2>2, <2>3, <2>4, <3>1, <3>2
  <2>5. CASE from > AllRows
    <3>1. PageStart(w) = AllRows /\ PageEnd(w) = AllRows  BY <1>1, <2>1, <2>2, <2>5 DEF Least
    <3>2. ToolRows(w) = SubSeq(HeyRows, from + 1, AllRows)
      <4>1. Least(from + ToolPage, AllRows) = AllRows  BY <1>1, <2>5 DEF Least
      <4> QED BY <2>3, <4>1
    <3>3. SubSeq(HeyRows, from + 1, AllRows) = <<>> /\ SubSeq(HeyRows, AllRows + 1, AllRows) = <<>>  BY <1>1, <2>1, <2>5, EmptyCut
    <3> QED BY <1>1, <3>1, <3>2, <3>3
  <2> QED BY <1>1, <2>1, <2>4, <2>5
<1> QED BY <1>2, <1>3, <1>4 DEF OnePage

LEMMA PageRowsAre ==
  ASSUME NEW w, w.kind \in Kinds, w.old \in BOOLEAN, w.cursor \in Nat \ {0}, OnePage(w) => w.cursor = 1
  PROVE  /\ PageRows(w) \in Seq(RowSet) /\ Len(PageRows(w)) \in Nat
         /\ Upto(w.kind, PageStart(w)) \in Seq(RowSet)
         /\ Upto(w.kind, PageEnd(w)) = Upto(w.kind, PageStart(w)) \o PageRows(w)
<1>1. PICK m, n : m = PageStart(w) /\ n = PageEnd(w)  OBVIOUS
<1>2. m \in 0..AllRows /\ n \in 0..AllRows /\ m <= n /\ ToolRows(w) = SubSeq(HeyRows, m + 1, n)  BY <1>1, PageIs
<1>3. Cut(w.kind, m, n, SubSeq(HeyRows, m + 1, n), Wanted(w.kind, SubSeq(HeyRows, m + 1, n)))  BY <1>2, ListingIs
<1>4. PageRows(w) \in Seq(RowSet)  BY <1>2, <1>3 DEF PageRows, Cut
<1>5. Upto(w.kind, m) \in Seq(RowSet)  BY <1>2, UptoIs
<1>6. Upto(w.kind, n) = Upto(w.kind, m) \o PageRows(w)  BY <1>2, PageJoins DEF PageRows
<1> QED BY <1>1, <1>4, <1>5, <1>6

LEMMA AllIs == ASSUME NEW w, w.kind \in Kinds
               PROVE  Everything(w) = Upto(w.kind, IF w.kind = "unseen" THEN Least(UnseenCap, AllRows) ELSE AllRows)
<1>1. AllRows \in Nat /\ UnseenCap \in Nat /\ AllRows = Len(HeyRows)  BY RowsAre, HeyBounds DEF AllRows
<1>2. CASE w.kind = "unseen"
  <2>1. PICK n \in 0..AllRows : n = Least(UnseenCap, AllRows)  BY <1>1 DEF Least
  <2>2. Everything(w) = Listing(w.kind, SubSeq(HeyRows, 1, n))  BY <1>1, <1>2, <2>1 DEF Everything, Least
  <2> QED BY <1>2, <2>1, <2>2, WholeIs
<1>3. CASE w.kind # "unseen"
  <2>1. Everything(w) = Listing(w.kind, HeyRows) /\ AllRows \in 0..AllRows  BY <1>1, <1>3 DEF Everything
  <2>2. SubSeq(HeyRows, 1, AllRows) = HeyRows
    <3>1. HeyRows \in Seq(RowSet) /\ Len(HeyRows) = AllRows  BY RowsAre DEF AllRows
    <3>2. \A s \in Seq(RowSet) : SubSeq(s, 1, Len(s)) = s  OBVIOUS
    <3> QED BY <3>1, <3>2
  <2> QED BY <1>3, <2>1, <2>2, WholeIs
<1> QED BY <1>2, <1>3

MadeOf(v, at, kind, size, old, offset, cursor, got) ==
    /\ v.at = at /\ v.kind = kind /\ v.size = size /\ v.old = old /\ v.offset = offset /\ v.cursor = cursor /\ v.got = got
Made(a, b, c, d, e, f, g) == [at |-> a, kind |-> b, size |-> c, old |-> d, offset |-> e, cursor |-> f, got |-> g]
LEMMA WalkIsMade ==
  ASSUME NEW A, NEW B, NEW C, NEW D, NEW E, NEW F, NEW G, NEW a \in A, NEW b \in B, NEW c \in C, NEW d \in D, NEW e \in E, NEW f \in F, NEW g \in G
  PROVE  Made(a, b, c, d, e, f, g) \in WalkSet(A, B, C, D, E, F, G) /\ MadeOf(Made(a, b, c, d, e, f, g), a, b, c, d, e, f, g)
BY DEF MadeOf, Made, WalkSet
LEMMA WalkIsIn ==
  ASSUME NEW a \in {"idle", "walk", "end"}, NEW b \in Kinds \cup {"none"}, NEW c \in HeySizes \cup {1}, NEW d \in BOOLEAN,
         NEW e \in Nat, NEW f \in Nat \ {0}, NEW g \in RowLists
  PROVE  Made(a, b, c, d, e, f, g) \in WalkRecord /\ MadeOf(Made(a, b, c, d, e, f, g), a, b, c, d, e, f, g)
BY WalkIsMade DEF WalkRecord

LEMMA NoneCut == ASSUME NEW S, NEW s \in Seq(S), NEW b \in Seq(S)
                 PROVE  SubSeq(s, 1, 0) = <<>> /\ b \o <<>> = b /\ SubSeq(s, 1, Len(s)) = s /\ b \o SubSeq(s, 1, 0) = b
OBVIOUS

\* One page more.
LEMMA WalkStep ==
  ASSUME NEW w, WalkOk(w), w.at = "walk", NEW rows, rows = PageRows(w), NEW last,
         last = (IF w.offset + w.size < Len(rows) THEN w.offset + w.size ELSE Len(rows)),
         NEW v, v = Following([w EXCEPT !.got = @ \o SubSeq(rows, w.offset + 1, last)], Len(rows))
  PROVE  WalkOk(v)
<1>1. /\ w \in WalkRecord /\ w.kind \in Kinds /\ (OnePage(w) => w.cursor = 1) /\ w.size \in HeySizes
      /\ w.offset <= Len(rows) /\ w.got = Upto(w.kind, PageStart(w)) \o SubSeq(rows, 1, w.offset)
  BY DEF WalkOk
<1>2. /\ w.kind \in Kinds /\ w.old \in BOOLEAN /\ w.cursor \in Nat \ {0} /\ w.offset \in Nat /\ w.size \in Nat \ {0}
      /\ w.got \in RowLists /\ w.size \in HeySizes /\ w.at = "walk"
  BY <1>1, HeyBounds DEF WalkRecord, WalkSet
<1>3. PICK b : b = Upto(w.kind, PageStart(w))  OBVIOUS
<1>4. /\ rows \in Seq(RowSet) /\ Len(rows) \in Nat /\ b \in Seq(RowSet) /\ Upto(w.kind, PageEnd(w)) = b \o rows
  BY <1>1, <1>2, <1>3, PageRowsAre
<1>5. last \in 0..Len(rows) /\ w.offset \in 0..Len(rows) /\ w.offset <= last  BY <1>1, <1>2, <1>4
<1>6. w.got \o SubSeq(rows, w.offset + 1, last) = b \o SubSeq(rows, 1, last)
  <2>1. (b \o SubSeq(rows, 1, w.offset)) \o SubSeq(rows, w.offset + 1, last) = b \o SubSeq(rows, 1, last)  BY <1>4, <1>5, PiecesJoin
  <2> QED BY <1>1, <1>3, <2>1
<1>7. PICK g : g = b \o SubSeq(rows, 1, last)  OBVIOUS
<1>8. g \in RowLists
  <2>1. SubSeq(rows, 1, last) \in Seq(RowSet)  BY <1>4, <1>5, CutIs
  <2> QED BY <1>4, <1>7, <2>1, JoinIs DEF RowLists
<1>9. PICK x : x = [w EXCEPT !.got = g]  OBVIOUS
<1>10. x \in WalkRecord /\ x.at = "walk" /\ x.kind = w.kind /\ x.size = w.size /\ x.old = w.old /\ x.offset = w.offset
       /\ x.cursor = w.cursor /\ x.got = g
  BY <1>1, <1>2, <1>8, <1>9 DEF WalkRecord, WalkSet
<1>11. v = Following(x, Len(rows))  BY <1>6, <1>7, <1>9
<1>12. CASE w.offset + w.size < Len(rows)
  <2>1. v = [x EXCEPT !.offset = @ + x.size] /\ last = w.offset + w.size  BY <1>2, <1>4, <1>10, <1>11, <1>12 DEF Following
  <2>2. /\ v \in WalkRecord /\ v.at = "walk" /\ v.kind = w.kind /\ v.size = w.size /\ v.old = w.old /\ v.offset = last
        /\ v.cursor = w.cursor /\ v.got = g
    <3>1. v = Made("walk", w.kind, w.size, w.old, x.offset + x.size, w.cursor, g)  BY <1>10, <2>1 DEF WalkRecord, WalkSet, Made
    <3>2. x.offset + x.size = last /\ last \in Nat  BY <1>2, <1>4, <1>5, <1>10, <2>1
    <3>3. v = Made("walk", w.kind, w.size, w.old, last, w.cursor, g)  BY <3>1, <3>2
    <3>4. w.kind \in Kinds \cup {"none"} /\ w.size \in HeySizes \cup {1} /\ "walk" \in {"idle", "walk", "end"}  BY <1>2
    <3>5. v \in WalkRecord /\ MadeOf(v, "walk", w.kind, w.size, w.old, last, w.cursor, g)  BY <1>2, <1>8, <3>2, <3>3, <3>4, WalkIsIn
    <3> QED BY <3>5 DEF MadeOf
  <2>3. OnePage(v) = OnePage(w) /\ PageStart(v) = PageStart(w) /\ PageRows(v) = rows
    BY <2>2 DEF OnePage, PageStart, PageRows, ToolRows
  <2>4. v.offset <= Len(PageRows(v)) /\ v.got = Upto(v.kind, PageStart(v)) \o SubSeq(PageRows(v), 1, v.offset)
    <3>1. PageStart(v) = PageStart(w) /\ PageRows(v) = rows /\ v.offset = last /\ v.got = g /\ v.kind = w.kind  BY <2>2, <2>3
    <3>2. last <= Len(rows)  BY <1>4, <1>5
    <3> QED BY <1>3, <1>7, <3>1, <3>2
  <2> QED BY <1>1, <1>2, <2>2, <2>3, <2>4 DEF WalkOk, WholeWalk
<1>13. CASE ~(w.offset + w.size < Len(rows))
  <2>1. last = Len(rows) /\ g = Upto(w.kind, PageEnd(w))  BY <1>4, <1>7, <1>13, NoneCut
  <2>2. w.offset + w.size >= Len(rows)  BY <1>2, <1>4, <1>13
  <2>3. HasMore(x) = HasMore(w)  BY <1>10 DEF HasMore
  <2>4. /\ AllRows \in Nat /\ UnseenCap \in Nat /\ ToolPage \in Nat \ {0} /\ AllRows = Len(HeyRows)
        /\ w.cursor * ToolPage = (w.cursor - 1) * ToolPage + ToolPage
    <3>1. \A a \in Nat \ {0}, c \in Nat : a * c = (a - 1) * c + c  OBVIOUS
    <3> QED BY <1>2, <3>1, RowsAre, HeyBounds DEF AllRows
  <2>5. CASE IF w.kind = "search" THEN Len(rows) > 0 ELSE HasMore(w)
    <3>1. v = [x EXCEPT !.offset = 0, !.cursor = @ + 1]  BY <1>10, <1>11, <1>13, <2>2, <2>3, <2>5 DEF Following
    <3>2. /\ v \in WalkRecord /\ v.at = "walk" /\ v.kind = w.kind /\ v.size = w.size /\ v.old = w.old /\ v.offset = 0
          /\ v.cursor = w.cursor + 1 /\ v.got = g
      <4>1. v = Made("walk", w.kind, w.size, w.old, 0, x.cursor + 1, g)  BY <1>10, <3>1 DEF WalkRecord, WalkSet, Made
      <4>2. x.cursor + 1 = w.cursor + 1 /\ w.cursor + 1 \in Nat \ {0} /\ 0 \in Nat  BY <1>2, <1>10
      <4>3. v = Made("walk", w.kind, w.size, w.old, 0, w.cursor + 1, g)  BY <4>1, <4>2
      <4>4. w.kind \in Kinds \cup {"none"} /\ w.size \in HeySizes \cup {1} /\ "walk" \in {"idle", "walk", "end"}  BY <1>2
      <4>5. v \in WalkRecord /\ MadeOf(v, "walk", w.kind, w.size, w.old, 0, w.cursor + 1, g)
        <5>1. PICK z \in Nat, o \in Nat \ {0} : z = 0 /\ o = w.cursor + 1  BY <4>2
        <5>2. v = Made("walk", w.kind, w.size, w.old, z, o, g)  BY <4>3, <5>1
        <5>3. v \in WalkRecord /\ MadeOf(v, "walk", w.kind, w.size, w.old, z, o, g)  BY <1>2, <1>8, <4>4, <5>2, WalkIsIn
        <5> QED BY <5>1, <5>3
      <4> QED BY <4>5 DEF MadeOf
    <3>3. ~OnePage(w) /\ ~OnePage(v)  BY <2>5, <3>2 DEF OnePage, HasMore
    <3>4. PageStart(v) = PageEnd(w)
      <4>1. PageStart(v) = Least((v.cursor - 1) * ToolPage, AllRows) /\ v.cursor - 1 = w.cursor
        <5>1. v.cursor - 1 = w.cursor
          <6>1. w.cursor \in Nat /\ v.cursor = w.cursor + 1  BY <1>2, <3>2
          <6> QED BY <6>1
        <5> QED BY <3>3, <5>1 DEF PageStart
      <4>2. PageEnd(w) = Least((w.cursor - 1) * ToolPage + ToolPage, AllRows)  BY <3>3 DEF PageEnd, OnePage
      <4> QED BY <2>4, <4>1, <4>2
    <3>5. PageRows(v) \in Seq(RowSet) /\ Len(PageRows(v)) \in Nat /\ Upto(v.kind, PageStart(v)) \in Seq(RowSet)
      <4>1. v.kind \in Kinds /\ v.old \in BOOLEAN /\ v.cursor \in Nat \ {0}  BY <1>2, <3>2
      <4> QED BY <3>3, <4>1, PageRowsAre
    <3>6. v.got = Upto(v.kind, PageStart(v)) \o SubSeq(PageRows(v), 1, v.offset)
      <4>1. Upto(v.kind, PageStart(v)) = g  BY <2>1, <3>2, <3>4
      <4>2. g \o SubSeq(PageRows(v), 1, 0) = g  BY <3>5, <4>1, NoneCut
      <4> QED BY <3>2, <4>1, <4>2
    <3>7. v.offset <= Len(PageRows(v))  BY <3>2, <3>5
    <3> QED BY <1>2, <3>2, <3>3, <3>6, <3>7 DEF WalkOk, WholeWalk
  <2>6. CASE ~(IF w.kind = "search" THEN Len(rows) > 0 ELSE HasMore(w))
    <3>1. v = [x EXCEPT !.at = "end"]  BY <1>10, <1>11, <1>13, <2>2, <2>3, <2>6 DEF Following
    <3>2. /\ v \in WalkRecord /\ v.at = "end" /\ v.kind = w.kind /\ v.old = w.old /\ v.cursor = w.cursor /\ v.got = g
      BY <1>2, <1>10, <3>1 DEF WalkRecord, WalkSet
    <3>3. WholeWalk(v)
      <4>1. CASE w.kind = "search"
        <5>1. Everything(v) = Upto("search", AllRows)
          <6>1. v.kind = "search" /\ v.kind \in Kinds  BY <1>2, <3>2, <4>1
          <6> QED BY <6>1, AllIs
        <5>2. PICK n \in 0..AllRows : n = PageEnd(w)  BY <1>1, <1>2, PageIs
        <5>3. Upto("search", n) \in Seq(RowSet) /\ Upto("search", AllRows) \in Seq(RowSet) /\ AllRows \in 0..AllRows
          BY <2>4, UptoIs
        <5>4. PICK q \in Seq(RowSet) : Upto("search", AllRows) = Upto("search", n) \o q
          <6>1. Cut("search", n, AllRows, SubSeq(HeyRows, n + 1, AllRows), Wanted("search", SubSeq(HeyRows, n + 1, AllRows)))
            BY <5>2, <5>3, ListingIs
          <6>2. Listing("search", SubSeq(HeyRows, n + 1, AllRows)) \in Seq(RowSet)  BY <6>1 DEF Cut
          <6>2a. n \in 0..AllRows /\ AllRows \in 0..AllRows /\ n <= AllRows  BY <2>4, <5>2
          <6>3. Upto("search", AllRows) = Upto("search", n) \o Listing("search", SubSeq(HeyRows, n + 1, AllRows))
            BY <6>2a, PageJoins
          <6> QED BY <6>2, <6>3
        <5>5. PICK s, t : s = Upto("search", n) /\ t = Upto("search", AllRows)  OBVIOUS
        <5>6. s = SubSeq(t, 1, Len(s)) /\ Len(s) \in 0..Len(t)
          <6>1. s \in Seq(RowSet) /\ q \in Seq(RowSet) /\ t = s \o q  BY <5>3, <5>4, <5>5
          <6> QED BY <6>1
        <5>7. Listing("search", ToolRows(v)) = <<>>
          <6>1. ToolRows(v) = ToolRows(w)  BY <3>2 DEF ToolRows
          <6>2. Len(rows) = 0  BY <1>4, <2>6, <4>1
          <6> QED BY <1>4, <4>1, <6>1, <6>2 DEF PageRows
        <5> QED BY <2>1, <3>2, <4>1, <5>1, <5>2, <5>5, <5>6, <5>7 DEF WholeWalk
      <4>2. CASE w.kind # "search"
        <5>1. ~HasMore(w)  BY <2>6, <4>2
        <5>2. PageEnd(w) = IF w.kind = "unseen" THEN Least(UnseenCap, AllRows) ELSE AllRows
          <6>1. CASE OnePage(w)  BY <6>1 DEF PageEnd, OnePage
          <6>2. CASE ~OnePage(w)
            <7>1. ~(w.cursor * ToolPage < AllRows)  BY <2>4, <5>1, <6>2 DEF HasMore, OnePage
            <7>2. PageEnd(w) = Least((w.cursor - 1) * ToolPage + ToolPage, AllRows)  BY <6>2 DEF PageEnd, OnePage
            <7> QED BY <2>4, <6>2, <7>1, <7>2 DEF Least, OnePage
          <6> QED BY <6>1, <6>2
        <5>3. Everything(v) = Upto(w.kind, PageEnd(w))  BY <1>2, <3>2, <5>2, AllIs
        <5> QED BY <2>1, <3>2, <4>2, <5>3 DEF WholeWalk
      <4> QED BY <4>1, <4>2
    <3> QED BY <3>2, <3>3 DEF WalkOk
  <2> QED BY <2>5, <2>6
<1> QED BY <1>12, <1>13

LEMMA WalkStarts == WalkOk(NoWalk)
<1>1. <<>> \in RowLists  BY DEF RowLists
<1>2. NoWalk \in WalkRecord /\ NoWalk.at = "idle"
  <2>1. PICK z \in Nat, o \in Nat \ {0}, s \in HeySizes \cup {1} : z = 0 /\ o = 1 /\ s = 1  OBVIOUS
  <2>2. "idle" \in {"idle", "walk", "end"} /\ "none" \in Kinds \cup {"none"} /\ FALSE \in BOOLEAN  OBVIOUS
  <2>3. NoWalk = Made("idle", "none", s, FALSE, z, o, <<>>)  BY <2>1 DEF NoWalk, Made
  <2>4. NoWalk \in WalkRecord /\ MadeOf(NoWalk, "idle", "none", s, FALSE, z, o, <<>>)  BY <1>1, <2>2, <2>3, WalkIsIn
  <2> QED BY <2>4 DEF MadeOf
<1> QED BY <1>2 DEF WalkOk, WholeWalk

LEMMA WalkBegins ==
  ASSUME NEW kind \in Kinds, NEW size \in HeySizes, NEW old \in BOOLEAN,
         NEW v, v = [NoWalk EXCEPT !.at = "walk", !.kind = kind, !.size = size, !.old = old]
  PROVE  WalkOk(v)
<1>1. /\ v = Made("walk", kind, size, old, 0, 1, <<>>)  BY DEF NoWalk, Made
<1>2. <<>> \in RowLists  BY DEF RowLists
<1>3. v \in WalkRecord /\ v.at = "walk" /\ v.kind = kind /\ v.size = size /\ v.old = old /\ v.offset = 0 /\ v.cursor = 1 /\ v.got = <<>>
  <2>1. kind \in Kinds \cup {"none"} /\ size \in HeySizes \cup {1} /\ "walk" \in {"idle", "walk", "end"} /\ 0 \in Nat /\ 1 \in Nat \ {0}
    OBVIOUS
  <2>2. v \in WalkRecord /\ MadeOf(v, "walk", kind, size, old, 0, 1, <<>>)
    <3>1. PICK z \in Nat, o \in Nat \ {0} : z = 0 /\ o = 1  BY <2>1
    <3>2. v = Made("walk", kind, size, old, z, o, <<>>)  BY <1>1, <3>1
    <3>3. v \in WalkRecord /\ MadeOf(v, "walk", kind, size, old, z, o, <<>>)  BY <1>2, <2>1, <3>2, WalkIsIn
    <3> QED BY <3>1, <3>3
  <2> QED BY <2>2 DEF MadeOf
<1>4. PageStart(v) = 0
  <2>1. AllRows \in Nat /\ ToolPage \in Nat  BY RowsAre, HeyBounds
  <2>2. (v.cursor - 1) * ToolPage = 0  BY <1>3, <2>1
  <2> QED BY <2>1, <2>2 DEF PageStart, Least
<1>5. PageRows(v) \in Seq(RowSet) /\ Len(PageRows(v)) \in Nat
  <2>1. v.kind \in Kinds /\ v.old \in BOOLEAN /\ v.cursor \in Nat \ {0} /\ (OnePage(v) => v.cursor = 1)  BY <1>3
  <2> QED BY <2>1, PageRowsAre
<1>6. Upto(v.kind, 0) = <<>>
  <2>1. 0 \in 0..AllRows  BY RowsAre
  <2> QED BY <2>1, WholeIs
<1>7. v.got = Upto(v.kind, PageStart(v)) \o SubSeq(PageRows(v), 1, v.offset)
  <2>1. <<>> \o SubSeq(PageRows(v), 1, 0) = <<>>  BY <1>2, <1>5, NoneCut DEF RowLists
  <2> QED BY <1>3, <1>4, <1>6, <2>1
<1>8. v.offset <= Len(PageRows(v)) /\ v.kind \in Kinds /\ v.size \in HeySizes /\ v.cursor = 1  BY <1>3, <1>5
<1> QED BY <1>3, <1>7, <1>8 DEF WalkOk, WholeWalk

(* The pages of a list are the list. *)
THEOREM HeyListsAreWhole == HeySpec => []HeyListIsWhole
<1>1. HeyInit => WalkOk(hyWalk)  BY WalkStarts DEF HeyInit
<1>2. WalkOk(hyWalk) /\ [HeyCallNext \/ HeyListNext]_heyVars => WalkOk(hyWalk)'
  <2> SUFFICES ASSUME WalkOk(hyWalk), [HeyCallNext \/ HeyListNext]_heyVars PROVE WalkOk(hyWalk')  OBVIOUS
  <2>1. CASE UNCHANGED hyWalk  BY <2>1
  <2>2. CASE NextPage
    <3>1. PICK rows, last : /\ rows = Listing(hyWalk.kind, ToolRows(hyWalk))
                            /\ last = IF hyWalk.offset + hyWalk.size < Len(rows) THEN hyWalk.offset + hyWalk.size ELSE Len(rows)
      OBVIOUS
    <3>2. hyWalk.at = "walk" /\ hyWalk' = Following([hyWalk EXCEPT !.got = @ \o SubSeq(rows, hyWalk.offset + 1, last)], Len(rows))
      BY <2>2, <3>1 DEF NextPage
    <3>3. rows = PageRows(hyWalk)  BY <3>1 DEF PageRows
    <3> QED BY <3>1, <3>2, <3>3, WalkStep
  <2>3. ASSUME NEW k \in Kinds, NEW s \in HeySizes, NEW old \in BOOLEAN, StartWalk(k, s, old) PROVE WalkOk(hyWalk')
    BY <2>3, WalkBegins DEF StartWalk
  <2>4. CASE HeyCallNext
    BY <2>1, <2>4 DEF HeyCallNext, LoginStart, LoginPoll, LoginCancel, LoginEnds, HeyLogout, HeyLogoutRun, Mutate, MutateRefused,
       BindCall, AskHelp, Negotiate, ReadThread, Replace
  <2> QED BY <2>1, <2>2, <2>3, <2>4 DEF HeyListNext, heyVars
<1>3. WalkOk(hyWalk) => HeyListIsWhole  BY DEF WalkOk, WholeWalk, HeyListIsWhole
<1> QED BY <1>1, <1>2, <1>3, PTL DEF HeySpec

------------------------------------
(* One run of a provider's program *)

ProcessSpec == ProcessInit /\ [][ProcessNext]_runVars

RunOps == {"in", "out", "err"} \cup Heirs
\* While the run goes on, what was written was read or is in the pipe.
RunTyped == /\ prPlan \in Seq(RunOps) /\ prAlive \in {"run", "ok", "bad", "killed"} /\ prHeirs \subseteq Heirs
            /\ prLeft \in Nat /\ prPipe \in [{"in", "out", "err"} -> Nat] /\ prSaid \in Nat /\ prGot \in [{"out", "err"} -> Nat]
RunInv == RunTyped /\ (RunGoesOn => prGot["out"] + prPipe["out"] = prSaid) /\ AnswerWholeGroupGone

LEMMA RunStarts == ProcessInit => RunInv
<1> SUFFICES ASSUME ProcessInit PROVE RunInv  OBVIOUS
<1>1. prPlan \in Seq(RunOps) /\ prLeft \in Nat  BY ProcessBounds DEF ProcessInit, RunOps
<1>2. prPipe \in [{"in", "out", "err"} -> Nat] /\ prGot \in [{"out", "err"} -> Nat] /\ prGot["out"] = 0 /\ prPipe["out"] = 0 /\ prSaid = 0
  BY DEF ProcessInit
<1>3. prAlive = "run" /\ prHeirs = {} /\ prResult = "none"  BY DEF ProcessInit
<1>4. RunTyped
  <2>1. prSaid \in Nat /\ prAlive \in {"run", "ok", "bad", "killed"} /\ prHeirs \subseteq Heirs  BY <1>2, <1>3
  <2> QED BY <1>1, <1>2, <2>1 DEF RunTyped
<1>5. prGot["out"] + prPipe["out"] = prSaid  BY <1>2
<1>6. AnswerWholeGroupGone  BY <1>3 DEF RunGoesOn, AnswerWholeGroupGone
<1> QED BY <1>4, <1>5, <1>6 DEF RunInv

LEMMA RunEnds ==
  ASSUME RunInv, RunGoesOn, NEW result, EndRun(result), result # "none",
         result \in {"ok", "bad"} => prGot["out"] = prSaid /\ prLeft = 0 /\ ~PipesHeld
  PROVE  RunInv'
<1>1. /\ prResult' = result /\ prAlive' = (IF prAlive = "run" THEN "killed" ELSE prAlive) /\ prHeirs' = prHeirs \ GroupHeirs
      /\ UNCHANGED <<prPlan, prLeft, prPipe, prSaid, prGot>>
  BY DEF EndRun, TreeKilled
<1>2. RunTyped'  BY <1>1 DEF RunInv, RunTyped
<1>3. prAlive' # "run" /\ prHeirs' \cap GroupHeirs = {} /\ (~PipesHeld => ~PipesHeld')  BY <1>1 DEF PipesHeld
<1> QED BY <1>1, <1>2, <1>3 DEF RunInv, RunGoesOn, AnswerWholeGroupGone

LEMMA RunKeeps == RunInv /\ [ProcessNext]_runVars => RunInv'
<1> SUFFICES ASSUME RunInv, [ProcessNext]_runVars PROVE RunInv'  OBVIOUS
<1>0. /\ prPipe \in [{"in", "out", "err"} -> Nat] /\ prGot \in [{"out", "err"} -> Nat] /\ prSaid \in Nat /\ prLeft \in Nat
      /\ prAlive \in {"run", "ok", "bad", "killed"} /\ prPlan \in Seq(RunOps) /\ prHeirs \subseteq Heirs
      /\ (prAlive = "run" => RunGoesOn) /\ (RunGoesOn => prGot["out"] + prPipe["out"] = prSaid)
  BY DEF RunInv, RunTyped, AnswerWholeGroupGone
<1>1. CASE ProgramStep
  <2>1. /\ prAlive = "run" /\ prPlan # <<>> /\ prPlan' = Tail(prPlan) /\ UNCHANGED <<prAlive, prLeft, prGot, prResult>>
    BY <1>1 DEF ProgramStep
  <2>2. PICK h : h = Head(prPlan)  OBVIOUS
  <2>3. h \in RunOps /\ prPlan' \in Seq(RunOps)  BY <1>0, <2>1, <2>2
  <2>4. prPipe' \in [{"in", "out", "err"} -> Nat] /\ prSaid' \in Nat /\ prHeirs' \subseteq Heirs /\ prGot["out"] + prPipe'["out"] = prSaid'
    <3>1. CASE h = "in"
      <4>1. prPipe' = [prPipe EXCEPT !["in"] = IF @ > 0 THEN @ - 1 ELSE 0] /\ UNCHANGED <<prHeirs, prSaid>>
        BY <1>1, <2>2, <3>1 DEF ProgramStep, Heirs
      <4>2. (IF prPipe["in"] > 0 THEN prPipe["in"] - 1 ELSE 0) \in Nat  BY <1>0
      <4> QED BY <1>0, <2>1, <4>1, <4>2
    <3>2. CASE h \in Heirs
      <4>1. prHeirs' = prHeirs \cup {h} /\ UNCHANGED <<prPipe, prSaid>>  BY <1>1, <2>2, <3>2 DEF ProgramStep, Heirs
      <4> QED BY <1>0, <2>1, <3>2, <4>1
    <3>3. CASE h \in {"out", "err"}
      <4>1. /\ prPipe' = [prPipe EXCEPT ![h] = @ + 1] /\ prSaid' = prSaid + (IF h = "out" THEN 1 ELSE 0) /\ UNCHANGED prHeirs
        BY <1>1, <2>2, <3>3 DEF ProgramStep, Heirs
      <4> QED BY <1>0, <2>1, <3>3, <4>1
    <3> QED BY <2>3, <3>1, <3>2, <3>3 DEF RunOps
  <2> QED BY <1>0, <2>1, <2>3, <2>4 DEF RunInv, RunTyped, RunGoesOn, AnswerWholeGroupGone
<1>2. CASE ProgramExit  BY <1>0, <1>2 DEF ProgramExit, RunInv, RunTyped, RunGoesOn, AnswerWholeGroupGone
<1>3. CASE WriteInput
  <2>1. CASE prAlive # "run" /\ EndRun("input_failed")  BY <1>3, <2>1, RunEnds DEF WriteInput
  <2>2. CASE ~(prAlive # "run" /\ EndRun("input_failed"))
    <3>1. /\ prPipe' = [prPipe EXCEPT !["in"] = @ + 1] /\ prLeft' = prLeft - 1 /\ prLeft > 0 /\ RunGoesOn
          /\ UNCHANGED <<prPlan, prAlive, prHeirs, prSaid, prGot, prResult>>
      BY <1>3, <2>2 DEF WriteInput
    <3>2. prPipe' \in [{"in", "out", "err"} -> Nat] /\ prPipe'["out"] = prPipe["out"] /\ prLeft' \in Nat  BY <1>0, <3>1
    <3> QED BY <1>0, <3>1, <3>2 DEF RunInv, RunTyped, RunGoesOn, AnswerWholeGroupGone
  <2> QED BY <2>1, <2>2
<1>4. ASSUME NEW p \in {"out", "err"}, NEW limit, ReadOutput(p, limit) PROVE RunInv'
  <2>1. CASE prGot[p] = limit  BY <1>4, <2>1, RunEnds DEF ReadOutput
  <2>2. CASE prGot[p] # limit
    <3>1. /\ prPipe' = [prPipe EXCEPT ![p] = @ - 1] /\ prGot' = [prGot EXCEPT ![p] = @ + 1] /\ prPipe[p] > 0 /\ RunGoesOn
          /\ UNCHANGED <<prPlan, prAlive, prHeirs, prLeft, prSaid, prResult>>
      BY <1>4, <2>2 DEF ReadOutput, MayRead
    <3>2. /\ prPipe' \in [{"in", "out", "err"} -> Nat] /\ prGot' \in [{"out", "err"} -> Nat] /\ prGot'["out"] + prPipe'["out"] = prSaid
      BY <1>0, <1>4, <3>1
    <3> QED BY <1>0, <3>1, <3>2 DEF RunInv, RunTyped, RunGoesOn, AnswerWholeGroupGone
  <2> QED BY <2>1, <2>2
<1>5. CASE RunJoined
  <2>1. RunGoesOn /\ prLeft = 0 /\ prPipe["out"] = 0 /\ EndRun(prAlive) /\ ~PipesHeld  BY <1>5 DEF RunJoined, AtEnd
  <2>2. prGot["out"] = prSaid /\ prAlive # "none"  BY <1>0, <2>1 DEF PipesHeld
  <2> QED BY <2>1, <2>2, RunEnds
<1>6. CASE RunTimesOut  BY <1>6, RunEnds DEF RunTimesOut
<1>7. ASSUME NEW h \in Heirs, HeirEnds(h) PROVE RunInv'
  <2>1. /\ h \in prHeirs /\ prHeirs' = prHeirs \ {h} /\ UNCHANGED <<prPlan, prAlive, prLeft, prGot, prResult>>
        /\ \/ UNCHANGED <<prPipe, prSaid>>
           \/ h \in PipeHeirs /\ prPipe' = [prPipe EXCEPT !["out"] = @ + 1] /\ prSaid' = prSaid + 1
    BY <1>7 DEF HeirEnds
  <2>2. RunTyped' /\ (RunGoesOn => prGot["out"] + prPipe'["out"] = prSaid')  BY <1>0, <2>1 DEF RunTyped
  <2>3. prResult \in {"ok", "bad"} => prSaid' = prSaid /\ ~PipesHeld'  BY <2>1 DEF RunInv, AnswerWholeGroupGone, PipesHeld
  <2> QED BY <2>1, <2>2, <2>3 DEF RunInv, RunGoesOn, AnswerWholeGroupGone
<1>8. CASE UNCHANGED runVars  BY <1>8 DEF runVars, RunInv, RunTyped, RunGoesOn, PipesHeld, AnswerWholeGroupGone
<1> QED BY <1>1, <1>2, <1>3, <1>4, <1>5, <1>6, <1>7, <1>8 DEF ProcessNext

(* The answer of a provider's program was read to its end, and no process of its group outlives the run. *)
THEOREM RunsLeaveNothing == ProcessSpec => []AnswerWholeGroupGone
<1>1. RunInv => AnswerWholeGroupGone  BY DEF RunInv
<1> QED BY <1>1, RunStarts, RunKeeps, PTL DEF ProcessSpec

(* A program that waits for input or for room and the run that feeds and reads it never wait on each other, for pipes
   of any size and programs that read and write in any order. *)
THEOREM RunsNeverStick == ProcessSpec => []NeverBothWaiting
<1>1. RunInv => NeverBothWaiting
  <2> SUFFICES ASSUME RunInv, ProgramWaits, InputWaits PROVE MayRead("out") \/ MayRead("err")  BY DEF NeverBothWaiting
  <2>1. prPipe \in [{"in", "out", "err"} -> Nat] /\ prLeft \in Nat /\ PipeCap \in Nat /\ PipeCap # 0
    BY ProcessBounds DEF RunInv, RunTyped
  <2>2. CASE prPipe["in"] = 0 /\ prLeft > 0  BY <2>1, <2>2 DEF InputWaits
  <2>3. ASSUME NEW p \in {"out", "err"}, prPipe[p] >= PipeCap PROVE MayRead(p)  BY <2>1, <2>3 DEF MayRead
  <2> QED BY <2>2, <2>3 DEF ProgramWaits
<1> QED BY <1>1, RunStarts, RunKeeps, PTL DEF ProcessSpec

------------------------------------
(* The composition: each client keeps its promise among the others. *)

LEMMA MovesJmapSession == ProvidersSpec => JmapSessionSpec
<1>1. ProvidersInit => JmapSessionInit  BY DEF ProvidersInit
<1>2. [ProvidersNext]_providersVars => [JmapSessionNext]_jmapSessionVars  BY DEF ProvidersNext, Rest, providersVars
<1>. QED  BY <1>1, <1>2, PTL DEF ProvidersSpec, JmapSessionSpec

LEMMA MovesDiscovery == ProvidersSpec => DiscoverySpec
<1>1. ProvidersInit => DiscoveryInit  BY DEF ProvidersInit
<1>2. [ProvidersNext]_providersVars => [DiscoveryNext]_discoveryVars  BY DEF ProvidersNext, Rest, providersVars
<1>. QED  BY <1>1, <1>2, PTL DEF ProvidersSpec, DiscoverySpec

LEMMA MovesJmapMail == ProvidersSpec => JmapMailSpec
<1>1. ProvidersInit => JmapMailInit  BY DEF ProvidersInit
<1>2. [ProvidersNext]_providersVars => [JmapMailNext]_jmapMailVars  BY DEF ProvidersNext, Rest, providersVars
<1>. QED  BY <1>1, <1>2, PTL DEF ProvidersSpec, JmapMailSpec

LEMMA MovesCompose == ProvidersSpec => ComposeSpec
<1>1. ProvidersInit => ComposeInit  BY DEF ProvidersInit
<1>2. [ProvidersNext]_providersVars => [ComposeNext]_composeVars  BY DEF ProvidersNext, Rest, providersVars
<1>. QED  BY <1>1, <1>2, PTL DEF ProvidersSpec, ComposeSpec

LEMMA MovesPages == ProvidersSpec => PagesSpec
<1>1. ProvidersInit => PagesInit  BY DEF ProvidersInit
<1>2. [ProvidersNext]_providersVars => [PagesNext]_pagesVars  BY DEF ProvidersNext, Rest, providersVars
<1>. QED  BY <1>1, <1>2, PTL DEF ProvidersSpec, PagesSpec

LEMMA MovesPush == ProvidersSpec => PushSpec
<1>1. ProvidersInit => PushInit  BY DEF ProvidersInit
<1>2. [ProvidersNext]_providersVars => [PushNext]_pushVars  BY DEF ProvidersNext, Rest, providersVars
<1>. QED  BY <1>1, <1>2, PTL DEF ProvidersSpec, PushSpec

LEMMA MovesSign == ProvidersSpec => SignSpec
<1>1. ProvidersInit => SignInit  BY DEF ProvidersInit
<1>2. [ProvidersNext]_providersVars => [SignNext]_signVars  BY DEF ProvidersNext, Rest, providersVars, SignNext
<1>. QED  BY <1>1, <1>2, PTL DEF ProvidersSpec, SignSpec

(* What is reported of a change over JMAP is so, a draft is never lost, the pages of a mailbox are whole, news
   reach the panel, and a credential goes only where a document of its own sent it: whatever the others do. *)
THEOREM ProvidersJmapTrue == ProvidersSpec => []JmapTrue
BY MovesDiscovery, MovesJmapMail, MovesCompose, MovesPages, MovesPush, CredentialsStayHome, JmapChangesAreTrue,
   ComposedIsSafe, PagesStayWhole, UntaughtIsReached, PTL DEF JmapTrue

(* A session that was replaced is over, with each provider that has sessions. *)
THEOREM ProvidersEndSessions == ProvidersSpec => SessionsOver
BY MovesJmapSession, MovesSign, RetiredStaysQuiet, SignOutIsKept, NoOldAccess, GrantsAreOwn, PTL DEF SessionsOver

LEMMA MovesGmail == ProvidersSpec => GmailSpec
<1>1. ProvidersInit => GmailInit  BY DEF ProvidersInit
<1>2. [ProvidersNext]_providersVars => [GmailNext]_gmailVars  BY DEF ProvidersNext, Rest, providersVars
<1>. QED  BY <1>1, <1>2, PTL DEF ProvidersSpec, GmailSpec

LEMMA MovesBucket == ProvidersSpec => BucketSpec
<1>1. ProvidersInit => BucketInit  BY DEF ProvidersInit
<1>2. [ProvidersNext]_providersVars => [BucketNext]_bucketVars  BY DEF ProvidersNext, Rest, providersVars
<1>. QED  BY <1>1, <1>2, PTL DEF ProvidersSpec, BucketSpec

LEMMA MovesRequests == ProvidersSpec => RequestSpec
<1>1. ProvidersInit => RequestInit  BY DEF ProvidersInit
<1>2. [ProvidersNext]_providersVars => [RequestNext]_requestVars  BY DEF ProvidersNext, Rest, providersVars
<1>. QED  BY <1>1, <1>2, PTL DEF ProvidersSpec, RequestSpec

(* Google carries mutations out in the order they were booked and each at most once, a lost grant is refreshed
   once, and the quota and the time of a call hold, whatever the other clients do. *)
THEOREM ProvidersGmailOrdered == ProvidersSpec => []GmailOrdered
BY MovesGmail, MovesBucket, MovesRequests, GmailKeepsOrder, RefreshesCoalesce, QuotaHolds, RequestsAreBounded, PTL
   DEF GmailOrdered

LEMMA MovesMail == ProvidersSpec => MailSpec
<1>1. ProvidersInit => MailInit  BY DEF ProvidersInit
<1>2. [ProvidersNext]_providersVars => [MailNext]_mailVars  BY DEF ProvidersNext, Rest, providersVars
<1>. QED  BY <1>1, <1>2, PTL DEF ProvidersSpec, MailSpec

LEMMA MovesHey == ProvidersSpec => HeySpec
<1>1. ProvidersInit => HeyInit  BY DEF ProvidersInit
<1>2. [ProvidersNext]_providersVars => [HeyCallNext \/ HeyListNext]_heyVars  BY DEF ProvidersNext, Rest, providersVars
<1>. QED  BY <1>1, <1>2, PTL DEF ProvidersSpec, HeySpec

LEMMA MovesRun == ProvidersSpec => ProcessSpec
<1>1. ProvidersInit => ProcessInit  BY DEF ProvidersInit
<1>2. [ProvidersNext]_providersVars => [ProcessNext]_runVars  BY DEF ProvidersNext, Rest, providersVars
<1>. QED  BY <1>1, <1>2, PTL DEF ProvidersSpec, ProcessSpec

(* What is reported of an action on messages is what happened and a list is the whole list, with every provider and
   through the program HEY is reached by, of whose runs no answer is cut off and no process of the group left behind: whatever the others do. *)
THEOREM ProvidersReport == ProvidersSpec => []MailReported
<1>1. LogoutHolds /\ MutatesOnce /\ HeyListIsWhole => HeyIsTrue  BY DEF HeyIsTrue
<1>2. ReportIsTrue /\ ListIsWhole /\ HeyIsTrue /\ AnswerWholeGroupGone /\ NeverBothWaiting => MailReported  BY DEF MailReported
<1>. QED  BY <1>1, <1>2, MovesMail, MovesHey, MovesRun, ReportsAreTrue, ListsAreWhole, HeyCallsAreSafe, HeyListsAreWhole,
             RunsLeaveNothing, RunsNeverStick, PTL
=============================================================================
