----------------------------- MODULE StoreProofs -----------------------------
(***************************************************************************)
(* Proofs about the IMAP client and about the stores of the services.       *)
(* IMAP, for any messages, UIDs, windows, pages and bounds.  Changes        *)
(* (ImapChanges): every message keeps a copy, what a report calls done is   *)
(* done, the text of a draft outlives the exchange of its copies, and a     *)
(* sending says sent, or not sent, only when it was so.  Pages (ImapPages): *)
(* rows once shown stay first, no match is skipped, and summaries come in   *)
(* the order they were asked for.  Files (CacheFiles): the budget of the    *)
(* disk through crashes, which files go and which stay, and the count of    *)
(* the rendered messages.  Reader (MailReader): the stores of an open       *)
(* message, and that a request that was cut off writes nothing.  Registry   *)
(* (AccountViews): no account is lost to an older copy.  Rows (AnswerStream, *)
(* AccountViews): a message shows the best of its jobs, the list of several *)
(* accounts has no hole, scrolling only appends, and optimistic edits come  *)
(* to what the server has, a refusal changing its own messages only.        *)
(***************************************************************************)
EXTENDS ImapChanges, ImapPages, CacheFiles, MailReader, AccountViews, AnswerStream,
        FiniteSetTheorems, FunctionTheorems, SequenceTheorems, TLAPS

------------------------------------
(* Changes of messages, drafts and sendings: types, chains of commands and the
   invariant. *)

ImBoxes == {"INBOX", "Archive", "Trash"}
CopyRecord == [msg : ChMail, box : ImBoxes, uid : Nat, seen : BOOLEAN, deleted : BOOLEAN]
DraftRecord == [version : Nat, uid : Nat, deleted : BOOLEAN]
IdRecord == [uid : Nat, box : ImBoxes]
ImapServerType == /\ imServer \in [copies : SUBSET CopyRecord, drafts : SUBSET DraftRecord, next : Nat, moves : BOOLEAN]
                  /\ IsFiniteSet(imServer.copies)
CommandNames == {"select", "add", "remove", "move", "copy", "mark", "expunge"}
Has(left, command) == \E i \in 1..Len(left) : left[i] = command
\* No command comes twice, and those of a move without MOVE come in their order.
InTurn(left) ==
    /\ \A i, j \in 1..Len(left) : left[i] = left[j] => i = j
    /\ \A i, j \in 1..Len(left) : left[i] = "copy" /\ left[j] \in {"mark", "expunge"} => i < j
    /\ \A i, j \in 1..Len(left) : left[i] = "mark" /\ left[j] = "expunge" => i < j
    /\ \A i, j \in 1..Len(left) : left[i] \in {"add", "remove"} /\ left[j] \in {"move", "copy", "mark", "expunge"} => i < j
Relocates(kind, box) == ImapPlan[kind].to \notin {"", box}

KindNames == {"read", "unread", "archive", "readAndFile", "trash", "untrash"}
\* The kinds of change, and what each asks of a message.
LEMMA KindsAre == ChangeKinds = KindNames
BY DEF ChangeKinds, ImapPlan, KindNames

\* What each kind of change sends, and in which order.
LEMMA PlansAre == \A kind \in KindNames :
    /\ ImapPlan[kind].add = (IF kind \in {"read", "readAndFile"} THEN {"seen"} ELSE {})
    /\ ImapPlan[kind].remove = (IF kind = "unread" THEN {"seen"} ELSE IF kind = "untrash" THEN {"deleted"} ELSE {})
    /\ ImapPlan[kind].to = (IF kind \in {"read", "unread"} THEN "" ELSE IF kind \in {"archive", "readAndFile"} THEN "Archive"
                            ELSE IF kind = "trash" THEN "Trash" ELSE "INBOX")
<1> SUFFICES ASSUME NEW kind \in KindNames
             PROVE  /\ ImapPlan[kind].add = (IF kind \in {"read", "readAndFile"} THEN {"seen"} ELSE {})
                    /\ ImapPlan[kind].remove = (IF kind = "unread" THEN {"seen"} ELSE IF kind = "untrash" THEN {"deleted"} ELSE {})
                    /\ ImapPlan[kind].to = (IF kind \in {"read", "unread"} THEN ""
                                            ELSE IF kind \in {"archive", "readAndFile"} THEN "Archive"
                                            ELSE IF kind = "trash" THEN "Trash" ELSE "INBOX")
  OBVIOUS
<1>1. CASE kind = "read"
  <2>1. ImapPlan[kind].add = {"seen"} /\ ImapPlan[kind].remove = {} /\ ImapPlan[kind].to = ""  BY <1>1 DEF ImapPlan
  <2> QED BY <1>1, <2>1
<1>2. CASE kind = "unread"
  <2>1. ImapPlan[kind].add = {} /\ ImapPlan[kind].remove = {"seen"} /\ ImapPlan[kind].to = ""  BY <1>2 DEF ImapPlan
  <2> QED BY <1>2, <2>1
<1>3. CASE kind = "archive"
  <2>1. ImapPlan[kind].add = {} /\ ImapPlan[kind].remove = {} /\ ImapPlan[kind].to = "Archive"  BY <1>3 DEF ImapPlan
  <2> QED BY <1>3, <2>1
<1>4. CASE kind = "readAndFile"
  <2>1. ImapPlan[kind].add = {"seen"} /\ ImapPlan[kind].remove = {} /\ ImapPlan[kind].to = "Archive"  BY <1>4 DEF ImapPlan
  <2> QED BY <1>4, <2>1
<1>5. CASE kind = "trash"
  <2>1. ImapPlan[kind].add = {} /\ ImapPlan[kind].remove = {} /\ ImapPlan[kind].to = "Trash"  BY <1>5 DEF ImapPlan
  <2> QED BY <1>5, <2>1
<1>6. CASE kind = "untrash"
  <2>1. ImapPlan[kind].add = {} /\ ImapPlan[kind].remove = {"deleted"} /\ ImapPlan[kind].to = "INBOX"  BY <1>6 DEF ImapPlan
  <2> QED BY <1>6, <2>1
<1> QED BY <1>1, <1>2, <1>3, <1>4, <1>5, <1>6 DEF KindNames

\* Nothing of s comes again in t, and nothing that goes before something of s.
Precedes(s, t) == \A i \in 1..Len(s), j \in 1..Len(t) :
    /\ s[i] # t[j] /\ ~(t[j] = "copy" /\ s[i] \in {"mark", "expunge"}) /\ ~(t[j] = "mark" /\ s[i] = "expunge")
    /\ ~(t[j] \in {"add", "remove"} /\ s[i] \in {"move", "copy", "mark", "expunge"})

\* Two chains of commands put together keep their order.
LEMMA JoinedInTurn ==
  ASSUME NEW s \in Seq(CommandNames), NEW t \in Seq(CommandNames), InTurn(s), InTurn(t), Precedes(s, t)
  PROVE  /\ s \o t \in Seq(CommandNames) /\ InTurn(s \o t)
         /\ \A command : Has(s \o t, command) <=> Has(s, command) \/ Has(t, command)
<1>1. /\ Len(s) \in Nat /\ Len(t) \in Nat /\ Len(s \o t) = Len(s) + Len(t) /\ s \o t \in Seq(CommandNames)
      /\ \A i \in 1..Len(s) + Len(t) : (s \o t)[i] = IF i <= Len(s) THEN s[i] ELSE t[i - Len(s)]
  OBVIOUS
<1>2. ASSUME NEW command PROVE Has(s \o t, command) <=> Has(s, command) \/ Has(t, command)
  <2>1. ASSUME NEW j \in 1..Len(t) PROVE j + Len(s) \in 1..Len(s \o t) /\ (s \o t)[j + Len(s)] = t[j]  BY <1>1
  <2>2. ASSUME NEW j \in 1..Len(s) PROVE j \in 1..Len(s \o t) /\ (s \o t)[j] = s[j]  BY <1>1
  <2>3. ASSUME NEW j \in 1..Len(s \o t) PROVE \/ j \in 1..Len(s) /\ (s \o t)[j] = s[j]
                                              \/ j - Len(s) \in 1..Len(t) /\ (s \o t)[j] = t[j - Len(s)]
    BY <1>1
  <2> QED BY <2>1, <2>2, <2>3 DEF Has
<1>3. InTurn(s \o t)
  <2>1. ASSUME NEW i \in 1..Len(s \o t) PROVE \/ i \in 1..Len(s) /\ (s \o t)[i] = s[i]
                                              \/ i > Len(s) /\ i - Len(s) \in 1..Len(t) /\ (s \o t)[i] = t[i - Len(s)]
    BY <1>1
  <2>2. ASSUME NEW i \in 1..Len(s \o t), NEW j \in 1..Len(s \o t), (s \o t)[i] = (s \o t)[j] PROVE i = j
    BY <1>1, <2>1, <2>2 DEF InTurn, Precedes
  <2>3. ASSUME NEW i \in 1..Len(s \o t), NEW j \in 1..Len(s \o t),
               \/ (s \o t)[i] = "copy" /\ (s \o t)[j] \in {"mark", "expunge"}
               \/ (s \o t)[i] = "mark" /\ (s \o t)[j] = "expunge"
        PROVE  i < j
    BY <1>1, <2>1, <2>3 DEF InTurn, Precedes
  <2>4. ASSUME NEW i \in 1..Len(s \o t), NEW j \in 1..Len(s \o t),
               (s \o t)[i] \in {"add", "remove"}, (s \o t)[j] \in {"move", "copy", "mark", "expunge"}
        PROVE  i < j
    BY <1>1, <2>1, <2>4 DEF InTurn, Precedes
  <2> QED BY <2>2, <2>3, <2>4 DEF InTurn
<1> QED BY <1>1, <1>2, <1>3

\* Chains of one, two and three commands in their order.
LEMMA ShortInTurn ==
  /\ <<>> \in Seq(CommandNames) /\ InTurn(<<>>) /\ \A command : ~Has(<<>>, command)
  /\ \A name \in CommandNames : <<name>> \in Seq(CommandNames) /\ InTurn(<<name>>) /\ \A command : Has(<<name>>, command) <=> command = name
  /\ <<"copy", "mark", "expunge">> \in Seq(CommandNames) /\ InTurn(<<"copy", "mark", "expunge">>)
  /\ \A command : Has(<<"copy", "mark", "expunge">>, command) <=> command \in {"copy", "mark", "expunge"}
BY DEF CommandNames, InTurn, Has

\* What a request of messages sends for a folder: its chain.
LEMMA CommandsAre ==
  ASSUME NEW kind \in KindNames, NEW box \in ImBoxes, imServer.moves \in BOOLEAN
  PROVE  LET left == Commands(kind, box) IN
         /\ left \in Seq(CommandNames) /\ left # <<>> /\ InTurn(left)
         /\ Has(left, "add") <=> ImapPlan[kind].add # {}
         /\ Has(left, "remove") <=> ImapPlan[kind].remove # {}
         /\ Has(left, "move") <=> Relocates(kind, box) /\ imServer.moves
         /\ \A command \in {"copy", "mark", "expunge"} : Has(left, command) <=> Relocates(kind, box) /\ ~imServer.moves
<1> DEFINE a == IF ImapPlan[kind].add = {} THEN <<>> ELSE <<"add">>
           r == IF ImapPlan[kind].remove = {} THEN <<>> ELSE <<"remove">>
           m == IF ImapPlan[kind].to \in {"", box} THEN <<>> ELSE IF imServer.moves THEN <<"move">> ELSE <<"copy", "mark", "expunge">>
           HasRow(s, names) == s \in Seq(CommandNames) /\ InTurn(s) /\ \A command : Has(s, command) <=> command \in names
<1>1. Commands(kind, box) = <<"select">> \o a \o r \o m  BY DEF Commands, Relocate
<1>2. HasRow(a, IF ImapPlan[kind].add = {} THEN {} ELSE {"add"})  BY ShortInTurn DEF CommandNames
<1>3. HasRow(r, IF ImapPlan[kind].remove = {} THEN {} ELSE {"remove"})  BY ShortInTurn DEF CommandNames
<1>4. HasRow(m, IF ~Relocates(kind, box) THEN {} ELSE IF imServer.moves THEN {"move"} ELSE {"copy", "mark", "expunge"})
  BY ShortInTurn DEF CommandNames, Relocates
<1>5. HasRow(<<"select">>, {"select"})  BY ShortInTurn DEF CommandNames
<1> HIDE DEF a, r, m
<1>6. ASSUME NEW s, NEW t, NEW S, NEW T, HasRow(s, S), HasRow(t, T), \A x \in S, y \in T :
                /\ x # y /\ ~(y = "copy" /\ x \in {"mark", "expunge"}) /\ ~(y = "mark" /\ x = "expunge")
                /\ ~(y \in {"add", "remove"} /\ x \in {"move", "copy", "mark", "expunge"})
      PROVE  HasRow(s \o t, S \cup T)
  <2>1. Precedes(s, t)
    <3>1. \A i \in 1..Len(s) : s[i] \in S  BY <1>6 DEF Has
    <3>2. \A i \in 1..Len(t) : t[i] \in T  BY <1>6 DEF Has
    <3> QED BY <1>6, <3>1, <3>2 DEF Precedes
  <2> QED BY <1>6, <2>1, JoinedInTurn
<1> DEFINE A == IF ImapPlan[kind].add = {} THEN {} ELSE {"add"}
           R == IF ImapPlan[kind].remove = {} THEN {} ELSE {"remove"}
           M == IF ~Relocates(kind, box) THEN {} ELSE IF imServer.moves THEN {"move"} ELSE {"copy", "mark", "expunge"}
<1>7. A \subseteq {"add"} /\ R \subseteq {"remove"} /\ M \subseteq {"move", "copy", "mark", "expunge"}  OBVIOUS
<1>7a. HasRow(a, A) /\ HasRow(r, R) /\ HasRow(m, M)  BY <1>2, <1>3, <1>4
<1>7b. /\ "add" \in A <=> ImapPlan[kind].add # {}
       /\ "remove" \in R <=> ImapPlan[kind].remove # {}
       /\ "move" \in M <=> Relocates(kind, box) /\ imServer.moves
       /\ \A command \in {"copy", "mark", "expunge"} : command \in M <=> Relocates(kind, box) /\ ~imServer.moves
  OBVIOUS
<1> HIDE DEF A, R, M, HasRow
<1>8. HasRow(<<"select">> \o a, {"select"} \cup A)  BY <1>5, <1>6, <1>7, <1>7a
<1>9. HasRow((<<"select">> \o a) \o r, ({"select"} \cup A) \cup R)  BY <1>6, <1>7, <1>7a, <1>8
<1>10. HasRow(((<<"select">> \o a) \o r) \o m, (({"select"} \cup A) \cup R) \cup M)  BY <1>6, <1>7, <1>7a, <1>9
<1>11. HasRow(Commands(kind, box), (({"select"} \cup A) \cup R) \cup M)  BY <1>1, <1>10
<1>12. Has(Commands(kind, box), "select") => Commands(kind, box) # <<>>  BY ShortInTurn
<1> QED BY <1>7, <1>7b, <1>11, <1>12 DEF HasRow

\* The image of a finite set is finite, and as large when the function is one to one.
LEMMA ImageOf ==
  ASSUME NEW S, NEW R, NEW f \in [S -> R], IsFiniteSet(S), \A y \in R : \E x \in S : f[x] = y
  PROVE  /\ IsFiniteSet(R)
         /\ (\A x, y \in S : f[x] = f[y] => x = y) => Cardinality(R) = Cardinality(S)
<1>1. f \in Surjection(S, R)  BY DEF Surjection
<1>2. IsFiniteSet(R) /\ (Cardinality(R) = Cardinality(S) <=> f \in Injection(S, R))  BY <1>1, FS_Surjection
<1>3. (\A x, y \in S : f[x] = f[y] => x = y) => f \in Injection(S, R)  BY <1>1 DEF Injection, Surjection, IsInjective
<1> QED BY <1>2, <1>3

\* A finite set put in a sequence: each member once.
LEMMA InSeq ==
  ASSUME NEW S, IsFiniteSet(S)
  PROVE  /\ Cardinality(S) \in Nat /\ SetToSeq(S) \in [1..Cardinality(S) -> S]
         /\ DOMAIN SetToSeq(S) = 1..Cardinality(S)
         /\ \A i, j \in 1..Cardinality(S) : SetToSeq(S)[i] = SetToSeq(S)[j] => i = j
         /\ \A x \in S : \E i \in 1..Cardinality(S) : SetToSeq(S)[i] = x
<1> DEFINE n == Cardinality(S)
<1>1. n \in Nat /\ ExistsBijection(1..n, S)  BY FS_CardinalityType
<1>2. \E f \in [1..n -> S] : IsInjective(f)  BY <1>1 DEF ExistsBijection, Bijection, Injection
<1>3. SetToSeq(S) \in [1..n -> S] /\ IsInjective(SetToSeq(S))  BY <1>2 DEF SetToSeq
<1>4. SetToSeq(S) \in Injection(1..n, S)  BY <1>3 DEF Injection
<1>5. Cardinality(1..n) = n  BY <1>1, FS_Interval
<1>6. SetToSeq(S) \in Surjection(1..n, S)  BY <1>4, <1>5, FS_Injection
<1> QED BY <1>1, <1>3, <1>6 DEF Surjection, IsInjective

\* What the copies in a folder become: of each message there is one, with its flags and a UID from the counter.
LEMMA CopiesAre ==
  ASSUME ImapServerType, NEW to \in ImBoxes
  PROVE  /\ IsFiniteSet(Copies(to)) /\ Copies(to) \subseteq CopyRecord /\ Cardinality(Copies(to)) \in Nat
         /\ \A x \in Copies(to) : /\ x.uid >= imServer.next /\ x.uid < imServer.next + Cardinality(Copies(to)) /\ x.box = to
         /\ \A c \in imServer.copies : Named(c) => \E x \in Copies(to) : x.msg = c.msg /\ x.deleted = c.deleted
<1> DEFINE N == {c \in imServer.copies : Named(c)}
           n == Cardinality(N)
           s == SetToSeq(N)
           f == [i \in 1..n |-> [s[i] EXCEPT !.box = to, !.uid = imServer.next + i - 1]]
<1>1. IsFiniteSet(N) /\ N \subseteq CopyRecord /\ imServer.next \in Nat  BY FS_Subset DEF ImapServerType
<1>2. n \in Nat /\ s \in [1..n -> N] /\ DOMAIN s = 1..n /\ \A x \in N : \E i \in 1..n : s[i] = x  BY <1>1, InSeq
<1>3. Copies(to) = {f[i] : i \in 1..n}  BY <1>2 DEF Copies
<1>4. ASSUME NEW i \in 1..n
      PROVE  /\ f[i] \in CopyRecord /\ f[i].box = to /\ f[i].uid = imServer.next + i - 1
             /\ f[i].msg = s[i].msg /\ f[i].deleted = s[i].deleted
  <2>1. s[i] \in CopyRecord /\ imServer.next + i - 1 \in Nat  BY <1>1, <1>2
  <2> QED BY <2>1 DEF CopyRecord
<1> HIDE DEF f, s, N, n
<1>5. f \in [1..n -> CopyRecord]  BY <1>4 DEF f
<1>6. \A i, j \in 1..n : f[i] = f[j] => i = j
  <2> SUFFICES ASSUME NEW i \in 1..n, NEW j \in 1..n, f[i] = f[j] PROVE i = j  OBVIOUS
  <2>1. imServer.next + i - 1 = imServer.next + j - 1  BY <1>4
  <2> QED BY <2>1, <1>1, <1>2
<1>7. IsFiniteSet(1..n) /\ Cardinality(1..n) = n  BY <1>2, FS_Interval
<1>8. IsFiniteSet(Copies(to)) /\ Cardinality(Copies(to)) = n
  <2>1. f \in [1..n -> Copies(to)] /\ \A y \in Copies(to) : \E i \in 1..n : f[i] = y  BY <1>3, <1>5
  <2> QED BY <1>6, <1>7, <2>1, ImageOf
<1>9. ASSUME NEW x \in Copies(to) PROVE x.uid >= imServer.next /\ x.uid < imServer.next + n /\ x.box = to /\ x \in CopyRecord
  <2>1. PICK i \in 1..n : x = f[i]  BY <1>3
  <2> QED BY <2>1, <1>1, <1>2, <1>4
<1>10. ASSUME NEW c \in imServer.copies, Named(c) PROVE \E x \in Copies(to) : x.msg = c.msg /\ x.deleted = c.deleted
  <2>1. PICK i \in 1..n : s[i] = c  BY <1>2, <1>10 DEF N
  <2> QED BY <2>1, <1>3, <1>4
<1> QED BY <1>2, <1>8, <1>9, <1>10

ImapDone(kind, c) ==
    /\ ImapPlan[kind].to \in {"", c.box}
    /\ "seen" \in ImapPlan[kind].add => c.seen
    /\ "seen" \in ImapPlan[kind].remove => ~c.seen
OfGroup(w, c) == IdOf(c) \in w.ids /\ c.box = w.box
\* What the commands that are left say of a request w and a server s.
ChainOrder(w) ==
    /\ w.left \in Seq(CommandNames) /\ InTurn(w.left)
    /\ \A command \in {"move", "copy", "mark", "expunge"} : Has(w.left, command) => Relocates(w.kind, w.box)
    /\ Has(w.left, "add") \/ Has(w.left, "remove") => (Has(w.left, "expunge") => Has(w.left, "copy"))
    /\ (Has(w.left, "copy") => Has(w.left, "mark")) /\ (Has(w.left, "mark") => Has(w.left, "expunge"))
FlagsSet(w, s) == \A c \in s.copies : OfGroup(w, c) =>
    /\ "seen" \in ImapPlan[w.kind].add /\ ~Has(w.left, "add") => c.seen
    /\ "seen" \in ImapPlan[w.kind].remove /\ ~Has(w.left, "remove") => ~c.seen
Leaving(w, s) == \A c \in s.copies : OfGroup(w, c) =>
    /\ Relocates(w.kind, w.box) => Has(w.left, "move") \/ Has(w.left, "expunge")
    /\ Has(w.left, "expunge") /\ ~Has(w.left, "mark") => c.deleted
MailIn(s) == \A m \in ChMail : \E c \in s.copies : c.msg = m /\ ~c.deleted
CopiedFirst(w, s) == Has(w.left, "expunge") /\ ~Has(w.left, "copy") =>
    \A m \in ChMail : \E c \in s.copies : c.msg = m /\ ~c.deleted /\ ~OfGroup(w, c)
GroupSettled(w, s) == \A c \in s.copies : IdOf(c) \in w.ids /\ c.box \in w.completed => ImapDone(w.kind, c)
GroupsFit(w, s) ==
    /\ w.kind \in KindNames /\ w.box \in ImBoxes /\ w.ids \subseteq IdRecord
    /\ w.groups \subseteq ImBoxes /\ w.completed \subseteq ImBoxes
    /\ w.box \notin w.completed \cup w.groups /\ w.groups \cap w.completed = {}
    /\ \A id \in w.ids : id.uid < s.next /\ id.box \in w.completed \cup w.groups \cup {w.box}
ChainFits(w, s) == GroupsFit(w, s) /\ ChainOrder(w) /\ FlagsSet(w, s) /\ Leaving(w, s) /\ CopiedFirst(w, s) /\ GroupSettled(w, s)
ServerOK(s) == /\ s \in [copies : SUBSET CopyRecord, drafts : SUBSET DraftRecord, next : Nat, moves : BOOLEAN]
               /\ IsFiniteSet(s.copies) /\ (\A c \in s.copies : c.uid < s.next) /\ (\A d \in s.drafts : d.uid < s.next)

\* Dropping the first command leaves every other that was there.
LEMMA TailHas ==
  ASSUME NEW left \in Seq(CommandNames), InTurn(left), left # <<>>
  PROVE  /\ Tail(left) \in Seq(CommandNames) /\ InTurn(Tail(left)) /\ Head(left) \in CommandNames
         /\ \A command : Has(Tail(left), command) <=> Has(left, command) /\ command # Head(left)
         /\ Has(left, Head(left))
         /\ Head(left) = "mark" => ~Has(left, "copy")
         /\ Head(left) = "copy" => ~Has(left, "add") /\ ~Has(left, "remove")
         /\ Head(left) = "expunge" => ~Has(left, "copy") /\ ~Has(left, "mark")
<1>1. /\ Len(left) \in Nat \ {0} /\ Head(left) = left[1] /\ 1 \in 1..Len(left) /\ Tail(left) \in Seq(CommandNames)
      /\ Len(Tail(left)) = Len(left) - 1 /\ \A i \in 1..Len(left) - 1 : Tail(left)[i] = left[i + 1]
  OBVIOUS
<1>2. InTurn(Tail(left))
  <2>1. ASSUME NEW i \in 1..Len(Tail(left)) PROVE i + 1 \in 1..Len(left) /\ Tail(left)[i] = left[i + 1]  BY <1>1
  <2> QED BY <2>1, <1>1 DEF InTurn
<1>3. ASSUME NEW command PROVE Has(Tail(left), command) <=> Has(left, command) /\ command # Head(left)
  <2>1. ASSUME NEW i \in 1..Len(Tail(left)) PROVE i + 1 \in 1..Len(left) /\ Tail(left)[i] = left[i + 1] /\ left[i + 1] # left[1]
    BY <1>1 DEF InTurn
  <2>2. ASSUME NEW i \in 1..Len(left), left[i] # left[1] PROVE i - 1 \in 1..Len(Tail(left)) /\ Tail(left)[i - 1] = left[i]
    BY <1>1, <2>2
  <2> QED BY <1>1, <2>1, <2>2 DEF Has
<1>4. Has(left, Head(left)) /\ Head(left) \in CommandNames  BY <1>1 DEF Has
<1>5. Head(left) = "mark" => ~Has(left, "copy")  BY <1>1 DEF InTurn, Has
<1>6. Head(left) = "expunge" => ~Has(left, "copy") /\ ~Has(left, "mark")  BY <1>1 DEF InTurn, Has
<1>7. Head(left) = "copy" => ~Has(left, "add") /\ ~Has(left, "remove")  BY <1>1 DEF InTurn, Has
<1> QED BY <1>1, <1>2, <1>3, <1>4, <1>5, <1>6, <1>7

\* What a command that sets flags makes of the copies of the group; the others stay.
FlagsOnly(flags, value, s) ==
    /\ s = [imServer EXCEPT !.copies = s.copies] /\ ServerOK(s)
    /\ \A x \in s.copies : \E c \in imServer.copies :
          /\ IdOf(x) = IdOf(c) /\ x.box = c.box /\ x.msg = c.msg
          /\ Named(c) => /\ x.seen = (IF "seen" \in flags THEN value ELSE c.seen)
                         /\ x.deleted = (IF "deleted" \in flags THEN value ELSE c.deleted)
          /\ ~Named(c) => x = c
    /\ \A c \in imServer.copies : \E x \in s.copies :
          /\ IdOf(x) = IdOf(c) /\ x.box = c.box /\ x.msg = c.msg
          /\ Named(c) => x.deleted = (IF "deleted" \in flags THEN value ELSE c.deleted)
          /\ ~Named(c) => x = c

\* Setting a flag on the copies of a group changes that flag on those copies, and nothing else.
LEMMA FlaggedAre ==
  ASSUME ServerOK(imServer), NEW flags, NEW value \in BOOLEAN,
         NEW s, s = [imServer EXCEPT !.copies = {IF Named(c) THEN Flagged(c, flags, value) ELSE c : c \in imServer.copies}]
  PROVE  FlagsOnly(flags, value, s)
<1> DEFINE f == [c \in imServer.copies |-> IF Named(c) THEN Flagged(c, flags, value) ELSE c]
<1>1. /\ imServer.copies \subseteq CopyRecord /\ IsFiniteSet(imServer.copies) /\ imServer.next \in Nat
      /\ s.copies = {f[c] : c \in imServer.copies} /\ s = [imServer EXCEPT !.copies = s.copies]
      /\ s.drafts = imServer.drafts /\ s.next = imServer.next /\ s.moves = imServer.moves
  BY DEF ServerOK
<1>2. ASSUME NEW c \in imServer.copies
      PROVE  /\ f[c] \in CopyRecord /\ IdOf(f[c]) = IdOf(c) /\ f[c].box = c.box /\ f[c].msg = c.msg /\ f[c].uid = c.uid
             /\ Named(c) => /\ f[c].seen = (IF "seen" \in flags THEN value ELSE c.seen)
                            /\ f[c].deleted = (IF "deleted" \in flags THEN value ELSE c.deleted)
             /\ ~Named(c) => f[c] = c
  <2>1. c \in CopyRecord  BY <1>1
  <2> QED BY <2>1 DEF Flagged, IdOf, CopyRecord
<1>3. f \in [imServer.copies -> CopyRecord]  BY <1>2
<1> HIDE DEF f
<1>4. IsFiniteSet(s.copies)
  <2>1. f \in [imServer.copies -> s.copies] /\ \A y \in s.copies : \E c \in imServer.copies : f[c] = y  BY <1>1, <1>3
  <2> QED BY <1>1, <2>1, ImageOf
<1>5. ServerOK(s)
  <2>1. s.copies \subseteq CopyRecord /\ \A x \in s.copies : x.uid < s.next  BY <1>1, <1>2 DEF ServerOK
  <2>2. s \in [copies : SUBSET CopyRecord, drafts : SUBSET DraftRecord, next : Nat, moves : BOOLEAN]  BY <1>1, <2>1 DEF ServerOK
  <2> QED BY <1>1, <1>4, <2>1, <2>2 DEF ServerOK
<1>6. ASSUME NEW x \in s.copies
      PROVE  \E c \in imServer.copies :
                /\ IdOf(x) = IdOf(c) /\ x.box = c.box /\ x.msg = c.msg
                /\ Named(c) => /\ x.seen = (IF "seen" \in flags THEN value ELSE c.seen)
                               /\ x.deleted = (IF "deleted" \in flags THEN value ELSE c.deleted)
                /\ ~Named(c) => x = c
  <2>1. PICK c \in imServer.copies : x = f[c]  BY <1>1
  <2> QED BY <1>2, <2>1
<1>7. ASSUME NEW c \in imServer.copies
      PROVE  \E x \in s.copies :
                /\ IdOf(x) = IdOf(c) /\ x.box = c.box /\ x.msg = c.msg
                /\ Named(c) => x.deleted = (IF "deleted" \in flags THEN value ELSE c.deleted)
                /\ ~Named(c) => x = c
  <2>1. f[c] \in s.copies  BY <1>1
  <2> QED BY <1>2, <2>1
<1>8. s = [imServer EXCEPT !.copies = s.copies]  BY <1>1
<1> QED BY <1>5, <1>6, <1>7, <1>8, Zenon DEF FlagsOnly

\* The copies named by the request at work are those of its group.
LEMMA NamedIs == ASSUME NEW c PROVE Named(c) <=> OfGroup(imWork, c)
BY DEF Named, OfGroup, IdOf

\* The work w is what is left of the request after its first command.
CommandGoes(w) == /\ w.kind = imWork.kind /\ w.ids = imWork.ids /\ w.box = imWork.box
           /\ w.groups = imWork.groups /\ w.completed = imWork.completed /\ w.left = Tail(imWork.left)
ChainGoes(w, s) == ServerOK(s) /\ MailIn(s) /\ ChainFits(w, s) /\ imServer.next <= s.next /\ s.drafts = imServer.drafts
                   /\ s.moves = imServer.moves

\* A chain keeps its order when its first command has been answered.
LEMMA OrderGoes ==
  ASSUME ChainFits(imWork, imServer), imWork.left # <<>>, NEW w, CommandGoes(w)
  PROVE  /\ ChainOrder(w) /\ Head(imWork.left) \in CommandNames /\ Has(imWork.left, Head(imWork.left))
         /\ \A command : Has(w.left, command) <=> Has(imWork.left, command) /\ command # Head(imWork.left)
         /\ Head(imWork.left) = "mark" => ~Has(imWork.left, "copy") /\ Has(imWork.left, "expunge")
         /\ Head(imWork.left) = "copy" => Has(imWork.left, "mark") /\ Has(imWork.left, "expunge")
         /\ Head(imWork.left) \in {"add", "remove"} /\ Has(imWork.left, "expunge") => Has(imWork.left, "copy") /\ Has(imWork.left, "mark")
         /\ Head(imWork.left) = "expunge" => ~Has(imWork.left, "copy") /\ ~Has(imWork.left, "mark")
         /\ Head(imWork.left) \in {"move", "copy", "mark", "expunge"} => Relocates(imWork.kind, imWork.box)
<1>1. imWork.left \in Seq(CommandNames) /\ InTurn(imWork.left)  BY DEF ChainFits, ChainOrder
<1>2. /\ w.left \in Seq(CommandNames) /\ InTurn(w.left) /\ Head(imWork.left) \in CommandNames
      /\ \A command : Has(w.left, command) <=> Has(imWork.left, command) /\ command # Head(imWork.left)
      /\ Has(imWork.left, Head(imWork.left))
      /\ Head(imWork.left) = "mark" => ~Has(imWork.left, "copy")
      /\ Head(imWork.left) = "copy" => ~Has(imWork.left, "add") /\ ~Has(imWork.left, "remove")
      /\ Head(imWork.left) = "expunge" => ~Has(imWork.left, "copy") /\ ~Has(imWork.left, "mark")
  BY <1>1, TailHas DEF CommandGoes
<1> QED BY <1>2 DEF ChainFits, ChainOrder, CommandGoes

\* Flags of the group, of one request: nothing is moved.
LEMMA FlagsGo ==
  ASSUME ServerOK(imServer), MailIn(imServer), ChainFits(imWork, imServer), imWork.left # <<>>, NEW w, CommandGoes(w),
         NEW s, NEW flags, NEW value \in BOOLEAN, FlagsOnly(flags, value, s),
         \/ Head(imWork.left) = "add" /\ flags = ImapPlan[imWork.kind].add /\ value = TRUE
         \/ Head(imWork.left) = "remove" /\ flags = ImapPlan[imWork.kind].remove /\ value = FALSE
         \/ Head(imWork.left) = "mark" /\ flags = {"deleted"} /\ value = TRUE
  PROVE  ChainGoes(w, s)
<1>1. /\ s.drafts = imServer.drafts /\ s.next = imServer.next /\ s.moves = imServer.moves /\ ServerOK(s)
      /\ imServer.next \in Nat
  BY DEF FlagsOnly, ServerOK
<1>2. /\ ChainOrder(w) /\ \A command : Has(w.left, command) <=> Has(imWork.left, command) /\ command # Head(imWork.left)
      /\ Head(imWork.left) = "mark" => ~Has(imWork.left, "copy") /\ Has(imWork.left, "expunge")
      /\ Head(imWork.left) \in {"add", "remove"} /\ Has(imWork.left, "expunge") => Has(imWork.left, "copy") /\ Has(imWork.left, "mark")
  BY OrderGoes
<1>3. GroupsFit(w, s)  BY <1>1 DEF ChainFits, GroupsFit, CommandGoes
<1>4. imWork.kind \in KindNames  BY DEF ChainFits, GroupsFit
<1>5. /\ "deleted" \notin ImapPlan[imWork.kind].add
      /\ ~("seen" \in ImapPlan[imWork.kind].add /\ "seen" \in ImapPlan[imWork.kind].remove)
  <2>1. ImapPlan[imWork.kind].add = IF imWork.kind \in {"read", "readAndFile"} THEN {"seen"} ELSE {}  BY <1>4, PlansAre
  <2>2. ImapPlan[imWork.kind].remove = IF imWork.kind = "unread" THEN {"seen"} ELSE IF imWork.kind = "untrash" THEN {"deleted"} ELSE {}
    BY <1>4, PlansAre
  <2> QED BY <2>1, <2>2
<1>6. ASSUME NEW x \in s.copies
      PROVE  \E c \in imServer.copies :
                /\ IdOf(x) = IdOf(c) /\ x.box = c.box /\ x.msg = c.msg
                /\ OfGroup(w, x) <=> OfGroup(imWork, c)
                /\ OfGroup(w, x) => /\ x.seen = (IF "seen" \in flags THEN value ELSE c.seen)
                                    /\ x.deleted = (IF "deleted" \in flags THEN value ELSE c.deleted)
                /\ ~OfGroup(w, x) => x = c
  BY NamedIs DEF FlagsOnly, OfGroup, CommandGoes
<1>7. FlagsSet(w, s)
  <2> SUFFICES ASSUME NEW x \in s.copies, OfGroup(w, x)
               PROVE  /\ "seen" \in ImapPlan[w.kind].add /\ ~Has(w.left, "add") => x.seen
                      /\ "seen" \in ImapPlan[w.kind].remove /\ ~Has(w.left, "remove") => ~x.seen
    BY DEF FlagsSet
  <2>1. PICK c \in imServer.copies : OfGroup(imWork, c) /\ x.seen = (IF "seen" \in flags THEN value ELSE c.seen)  BY <1>6
  <2>2. /\ "seen" \in ImapPlan[imWork.kind].add /\ ~Has(imWork.left, "add") => c.seen
        /\ "seen" \in ImapPlan[imWork.kind].remove /\ ~Has(imWork.left, "remove") => ~c.seen
    BY <2>1 DEF ChainFits, FlagsSet
  <2>3. w.kind = imWork.kind  BY DEF CommandGoes
  <2> QED BY <1>2, <1>5, <2>1, <2>2, <2>3
<1>8. Leaving(w, s)
  <2> SUFFICES ASSUME NEW x \in s.copies, OfGroup(w, x)
               PROVE  /\ Relocates(w.kind, w.box) => Has(w.left, "move") \/ Has(w.left, "expunge")
                      /\ Has(w.left, "expunge") /\ ~Has(w.left, "mark") => x.deleted
    BY DEF Leaving
  <2>1. PICK c \in imServer.copies : OfGroup(imWork, c) /\ x.deleted = (IF "deleted" \in flags THEN value ELSE c.deleted)  BY <1>6
  <2>2. /\ Relocates(imWork.kind, imWork.box) => Has(imWork.left, "move") \/ Has(imWork.left, "expunge")
        /\ Has(imWork.left, "expunge") /\ ~Has(imWork.left, "mark") => c.deleted
    BY <2>1 DEF ChainFits, Leaving
  <2>3. w.kind = imWork.kind /\ w.box = imWork.box  BY DEF CommandGoes
  <2> QED BY <1>2, <1>5, <2>1, <2>2, <2>3
<1>9. GroupSettled(w, s)
  <2> SUFFICES ASSUME NEW x \in s.copies, IdOf(x) \in w.ids, x.box \in w.completed PROVE ImapDone(w.kind, x)  BY DEF GroupSettled
  <2>1. ~OfGroup(w, x)  BY <1>3 DEF OfGroup, GroupsFit
  <2>2. x \in imServer.copies  BY <1>6, <2>1
  <2> QED BY <2>2 DEF ChainFits, GroupSettled, CommandGoes
<1>10. MailIn(s) /\ CopiedFirst(w, s)
  <2> SUFFICES ASSUME NEW m \in ChMail
               PROVE  /\ \E x \in s.copies : x.msg = m /\ ~x.deleted
                      /\ Has(w.left, "expunge") /\ ~Has(w.left, "copy") =>
                            \E x \in s.copies : x.msg = m /\ ~x.deleted /\ ~OfGroup(w, x)
    BY DEF MailIn, CopiedFirst
  <2>1. ASSUME NEW c \in imServer.copies, c.msg = m, ~c.deleted, ~OfGroup(imWork, c)
        PROVE  \E x \in s.copies : x.msg = m /\ ~x.deleted /\ ~OfGroup(w, x)
    <3>1. \E x \in s.copies : x = c  BY <2>1, NamedIs DEF FlagsOnly
    <3> QED BY <2>1, <3>1 DEF OfGroup, CommandGoes
  <2>2. CASE Head(imWork.left) = "mark"
    <3>1. \E c \in imServer.copies : c.msg = m /\ ~c.deleted /\ ~OfGroup(imWork, c)  BY <1>2, <2>2 DEF ChainFits, CopiedFirst
    <3> QED BY <2>1, <3>1
  <2>3. CASE Head(imWork.left) # "mark"
    <3>1. PICK c \in imServer.copies : c.msg = m /\ ~c.deleted  BY DEF MailIn
    <3>2. "deleted" \in flags => value = FALSE  BY <1>5, <2>3
    <3>3. \E x \in s.copies : x.msg = m /\ ~x.deleted  BY <3>1, <3>2 DEF FlagsOnly
    <3>4. Has(w.left, "expunge") => Has(w.left, "copy")  BY <1>2, <2>3
    <3> QED BY <3>3, <3>4
  <2> QED BY <2>2, <2>3
<1> QED BY <1>1, <1>2, <1>3, <1>7, <1>8, <1>9, <1>10 DEF ChainGoes, ChainFits

\* Copies go, and new ones come with new UIDs.
NewCopies(s) ==
    /\ s \in [copies : SUBSET CopyRecord, drafts : SUBSET DraftRecord, next : Nat, moves : BOOLEAN]
    /\ IsFiniteSet(s.copies) /\ s.drafts = imServer.drafts /\ s.moves = imServer.moves /\ imServer.next <= s.next
    /\ \A x \in s.copies : x \in imServer.copies \/ (x.uid >= imServer.next /\ x.uid < s.next)

\* Copies made by a COPY are new: their UIDs were not given before.
LEMMA CopiesGo ==
  ASSUME ServerOK(imServer), ChainFits(imWork, imServer), imWork.left # <<>>, NEW w, CommandGoes(w), NEW s, NewCopies(s),
         Head(imWork.left) \notin {"add", "remove"}
  PROVE  /\ ServerOK(s) /\ GroupsFit(w, s) /\ FlagsSet(w, s) /\ GroupSettled(w, s)
         /\ \A x \in s.copies : OfGroup(w, x) => x \in imServer.copies /\ OfGroup(imWork, x)
<1>1. imServer.next \in Nat /\ s.next \in Nat /\ s.next >= imServer.next  BY DEF ServerOK, NewCopies
<1>2. ServerOK(s)
  <2>1. ASSUME NEW x \in s.copies PROVE x.uid < s.next
    <3>1. CASE x \in imServer.copies
      <4>1. x.uid \in Nat /\ x.uid < imServer.next  BY <3>1 DEF ServerOK, CopyRecord
      <4> QED BY <4>1, <1>1
    <3> QED BY <3>1 DEF NewCopies
  <2>2. ASSUME NEW x \in s.drafts PROVE x.uid < s.next
    <3>1. x.uid \in Nat /\ x.uid < imServer.next  BY DEF ServerOK, DraftRecord, NewCopies
    <3> QED BY <3>1, <1>1
  <2> QED BY <2>1, <2>2 DEF ServerOK, NewCopies
<1>3. \A id \in imWork.ids : id.uid \in Nat /\ id.uid < imServer.next  BY DEF ChainFits, GroupsFit, IdRecord
<1>4. GroupsFit(w, s)  BY <1>1, <1>3 DEF ChainFits, GroupsFit, CommandGoes
<1>5. ASSUME NEW x \in s.copies, IdOf(x) \in imWork.ids PROVE x \in imServer.copies
  <2>1. IdOf(x).uid = x.uid  BY DEF IdOf
  <2>2. x.uid < imServer.next /\ x.uid \in Nat  BY <1>3, <1>5, <2>1
  <2> QED BY <1>1, <2>2 DEF NewCopies
<1>6. \A x \in s.copies : OfGroup(w, x) => x \in imServer.copies /\ OfGroup(imWork, x)  BY <1>5 DEF OfGroup, CommandGoes
<1>7. \A command \in {"add", "remove"} : Has(w.left, command) <=> Has(imWork.left, command)  BY OrderGoes
<1>8. FlagsSet(w, s)  BY <1>6, <1>7 DEF ChainFits, FlagsSet, CommandGoes
<1>9. GroupSettled(w, s)  BY <1>5 DEF ChainFits, GroupSettled, CommandGoes
<1> QED BY <1>2, <1>4, <1>6, <1>8, <1>9

\* SELECT changes no copy.
LEMMA SelectGoes ==
  ASSUME ServerOK(imServer), MailIn(imServer), ChainFits(imWork, imServer), imWork.left # <<>>, NEW w, CommandGoes(w),
         Head(imWork.left) = "select"
  PROVE  ChainGoes(w, imServer)
<1>1. NewCopies(imServer)  BY DEF NewCopies, ServerOK
<1>2. /\ ServerOK(imServer) /\ GroupsFit(w, imServer) /\ FlagsSet(w, imServer) /\ GroupSettled(w, imServer)
      /\ \A x \in imServer.copies : OfGroup(w, x) => x \in imServer.copies /\ OfGroup(imWork, x)
  BY <1>1, CopiesGo
<1>3. ChainOrder(w) /\ \A command : Has(w.left, command) <=> Has(imWork.left, command) /\ command # "select"  BY OrderGoes
<1>4. Leaving(w, imServer) /\ CopiedFirst(w, imServer)  BY <1>2, <1>3 DEF ChainFits, Leaving, CopiedFirst, CommandGoes
<1> QED BY <1>1, <1>2, <1>3, <1>4 DEF ChainGoes, ChainFits, NewCopies

\* COPY: every message of the group is then in the target folder.
LEMMA CopyGoes ==
  ASSUME ServerOK(imServer), MailIn(imServer), ChainFits(imWork, imServer), imWork.left # <<>>, NEW w, CommandGoes(w),
         Head(imWork.left) = "copy", NEW to \in ImBoxes,
         NEW s, s = [imServer EXCEPT !.copies = @ \cup Copies(to), !.next = @ + Cardinality(Copies(to))]
  PROVE  ChainGoes(w, s)
<1>1. /\ IsFiniteSet(Copies(to)) /\ Copies(to) \subseteq CopyRecord /\ Cardinality(Copies(to)) \in Nat
      /\ \A x \in Copies(to) : x.uid >= imServer.next /\ x.uid < imServer.next + Cardinality(Copies(to)) /\ x.box = to
      /\ \A c \in imServer.copies : Named(c) => \E x \in Copies(to) : x.msg = c.msg /\ x.deleted = c.deleted
  BY CopiesAre DEF ServerOK, ImapServerType
<1>2. /\ s.copies = imServer.copies \cup Copies(to) /\ s.next = imServer.next + Cardinality(Copies(to))
      /\ s.drafts = imServer.drafts /\ s.moves = imServer.moves /\ imServer.next \in Nat
  BY DEF ServerOK
<1>3. NewCopies(s)
  <2>1. IsFiniteSet(s.copies)  BY <1>1, <1>2, FS_Union DEF ServerOK
  <2>2. s \in [copies : SUBSET CopyRecord, drafts : SUBSET DraftRecord, next : Nat, moves : BOOLEAN]
    <3>1. imServer.next + Cardinality(Copies(to)) \in Nat /\ s.copies \subseteq CopyRecord  BY <1>1, <1>2 DEF ServerOK
    <3> QED BY <1>2, <3>1 DEF ServerOK
  <2> QED BY <1>1, <1>2, <2>1, <2>2 DEF NewCopies
<1>4. /\ ServerOK(s) /\ GroupsFit(w, s) /\ FlagsSet(w, s) /\ GroupSettled(w, s)
      /\ \A x \in s.copies : OfGroup(w, x) => x \in imServer.copies /\ OfGroup(imWork, x)
  BY <1>3, CopiesGo
<1>5. ChainOrder(w) /\ \A command : Has(w.left, command) <=> Has(imWork.left, command) /\ command # "copy"  BY OrderGoes
<1>6. Leaving(w, s)  BY <1>4, <1>5 DEF ChainFits, Leaving, CommandGoes
<1>7. ASSUME NEW m \in ChMail PROVE \E c \in s.copies : c.msg = m /\ ~c.deleted /\ ~OfGroup(w, c)
  <2>1. PICK c \in imServer.copies : c.msg = m /\ ~c.deleted  BY DEF MailIn
  <2>2. CASE Named(c)
    <3>1. PICK x \in Copies(to) : x.msg = m /\ x.deleted = c.deleted  BY <1>1, <2>1, <2>2
    <3>2. x.uid >= imServer.next /\ x \in s.copies  BY <1>1, <1>2
    <3>3. ~OfGroup(w, x)
      <4> SUFFICES ASSUME OfGroup(w, x) PROVE FALSE  OBVIOUS
      <4>1. x \in imServer.copies  BY <1>4, <3>2
      <4>2. x.uid \in Nat /\ x.uid < imServer.next  BY <4>1 DEF ServerOK, CopyRecord
      <4> QED BY <1>2, <3>2, <4>2
    <3> QED BY <2>1, <3>1, <3>2, <3>3
  <2>3. CASE ~Named(c)
    <3>1. ~OfGroup(w, c)  BY <2>3, NamedIs DEF OfGroup, CommandGoes
    <3> QED BY <1>2, <2>1, <3>1
  <2> QED BY <2>2, <2>3
<1>8. MailIn(s) /\ CopiedFirst(w, s)  BY <1>7 DEF MailIn, CopiedFirst
<1> QED BY <1>3, <1>4, <1>5, <1>6, <1>8 DEF ChainGoes, ChainFits, NewCopies

\* MOVE: every message of the group goes to the target folder, in one step.
LEMMA MoveGoes ==
  ASSUME ServerOK(imServer), MailIn(imServer), ChainFits(imWork, imServer), imWork.left # <<>>, NEW w, CommandGoes(w),
         Head(imWork.left) = "move", NEW to \in ImBoxes,
         NEW s, s = [imServer EXCEPT !.copies = {c \in @ : ~Named(c)} \cup Copies(to), !.next = @ + Cardinality(Copies(to))]
  PROVE  ChainGoes(w, s)
<1>1. /\ IsFiniteSet(Copies(to)) /\ Copies(to) \subseteq CopyRecord /\ Cardinality(Copies(to)) \in Nat
      /\ \A x \in Copies(to) : x.uid >= imServer.next /\ x.uid < imServer.next + Cardinality(Copies(to)) /\ x.box = to
      /\ \A c \in imServer.copies : Named(c) => \E x \in Copies(to) : x.msg = c.msg /\ x.deleted = c.deleted
  BY CopiesAre DEF ServerOK, ImapServerType
<1>2. /\ s.copies = {c \in imServer.copies : ~Named(c)} \cup Copies(to) /\ s.next = imServer.next + Cardinality(Copies(to))
      /\ s.drafts = imServer.drafts /\ s.moves = imServer.moves /\ imServer.next \in Nat
  BY DEF ServerOK
<1>3. NewCopies(s)
  <2>1. IsFiniteSet(s.copies)
    <3> DEFINE K == {c \in imServer.copies : ~Named(c)}
    <3>1. IsFiniteSet(K)  BY FS_Subset DEF ServerOK
    <3> HIDE DEF K
    <3>2. IsFiniteSet(K \cup Copies(to))  BY <1>1, <3>1, FS_Union
    <3> QED BY <1>2, <3>2 DEF K
  <2>2. s \in [copies : SUBSET CopyRecord, drafts : SUBSET DraftRecord, next : Nat, moves : BOOLEAN]
    <3>1. imServer.next + Cardinality(Copies(to)) \in Nat /\ s.copies \subseteq CopyRecord  BY <1>1, <1>2 DEF ServerOK
    <3> QED BY <1>2, <3>1 DEF ServerOK
  <2>3. s.next >= imServer.next  BY <1>1, <1>2
  <2>4. ASSUME NEW x \in s.copies PROVE x \in imServer.copies \/ (x.uid >= imServer.next /\ x.uid < s.next)
    <3>1. CASE x \in Copies(to)  BY <1>1, <1>2, <3>1
    <3> QED BY <1>2, <3>1
  <2> QED BY <1>2, <2>1, <2>2, <2>3, <2>4 DEF NewCopies
<1>4. /\ ServerOK(s) /\ GroupsFit(w, s) /\ FlagsSet(w, s) /\ GroupSettled(w, s)
      /\ \A x \in s.copies : OfGroup(w, x) => x \in imServer.copies /\ OfGroup(imWork, x)
  BY <1>3, CopiesGo
<1>5. ChainOrder(w) /\ \A command : Has(w.left, command) <=> Has(imWork.left, command) /\ command # "move"  BY OrderGoes
<1>6. ASSUME NEW c \in s.copies PROVE ~OfGroup(w, c)
  <2>1. CASE c \in Copies(to)
    <3>1. c \in imServer.copies => c.uid \in Nat /\ c.uid < imServer.next  BY DEF ServerOK, CopyRecord
    <3>2. c.uid >= imServer.next  BY <1>1, <2>1
    <3> QED BY <1>2, <1>4, <3>1, <3>2
  <2>2. CASE ~Named(c)  BY <2>2, <1>4, NamedIs
  <2> QED BY <1>2, <2>1, <2>2
<1>7. Leaving(w, s)  BY <1>6 DEF Leaving
<1>8. ASSUME NEW m \in ChMail PROVE \E c \in s.copies : c.msg = m /\ ~c.deleted
  <2>1. PICK c \in imServer.copies : c.msg = m /\ ~c.deleted  BY DEF MailIn
  <2>2. CASE Named(c)
    <3>1. PICK x \in Copies(to) : x.msg = m /\ x.deleted = c.deleted  BY <1>1, <2>1, <2>2
    <3> QED BY <1>2, <2>1, <3>1
  <2>3. CASE ~Named(c)  BY <1>2, <2>1, <2>3
  <2> QED BY <2>2, <2>3
<1>9. MailIn(s) /\ CopiedFirst(w, s)  BY <1>6, <1>8 DEF MailIn, CopiedFirst
<1> QED BY <1>3, <1>4, <1>5, <1>7, <1>9 DEF ChainGoes, ChainFits, NewCopies

\* EXPUNGE comes after COPY: what it takes away has been copied.
LEMMA ExpungeGoes ==
  ASSUME ServerOK(imServer), MailIn(imServer), ChainFits(imWork, imServer), imWork.left # <<>>, NEW w, CommandGoes(w),
         Head(imWork.left) = "expunge",
         NEW s, s = [imServer EXCEPT !.copies = {c \in @ : ~(Named(c) /\ c.deleted)}]
  PROVE  ChainGoes(w, s)
<1>1. /\ s.copies = {c \in imServer.copies : ~(Named(c) /\ c.deleted)} /\ s.next = imServer.next
      /\ s.drafts = imServer.drafts /\ s.moves = imServer.moves /\ imServer.next \in Nat
  BY DEF ServerOK
<1>2. NewCopies(s)
  <2>1. IsFiniteSet(s.copies)  BY <1>1, FS_Subset DEF ServerOK
  <2>2. s \in [copies : SUBSET CopyRecord, drafts : SUBSET DraftRecord, next : Nat, moves : BOOLEAN]  BY DEF ServerOK
  <2> QED BY <1>1, <2>1, <2>2 DEF NewCopies
<1>3. /\ ServerOK(s) /\ GroupsFit(w, s) /\ FlagsSet(w, s) /\ GroupSettled(w, s)
      /\ \A x \in s.copies : OfGroup(w, x) => x \in imServer.copies /\ OfGroup(imWork, x)
  BY <1>2, CopiesGo
<1>4. /\ ChainOrder(w) /\ \A command : Has(w.left, command) <=> Has(imWork.left, command) /\ command # "expunge"
      /\ ~Has(imWork.left, "copy") /\ ~Has(imWork.left, "mark") /\ Has(imWork.left, "expunge")
  BY OrderGoes
<1>5. ASSUME NEW c \in s.copies PROVE ~OfGroup(w, c)
  <2> SUFFICES ASSUME OfGroup(w, c) PROVE FALSE  OBVIOUS
  <2>1. c \in imServer.copies /\ OfGroup(imWork, c)  BY <1>3
  <2>2. c.deleted  BY <1>4, <2>1 DEF ChainFits, Leaving
  <2> QED BY <1>1, <2>1, <2>2, NamedIs
<1>6. Leaving(w, s)  BY <1>5 DEF Leaving
<1>7. ASSUME NEW m \in ChMail PROVE \E c \in s.copies : c.msg = m /\ ~c.deleted
  <2>1. PICK c \in imServer.copies : c.msg = m /\ ~c.deleted  BY DEF MailIn
  <2> QED BY <1>1, <2>1
<1>8. MailIn(s) /\ CopiedFirst(w, s)  BY <1>4, <1>7 DEF MailIn, CopiedFirst
<1> QED BY <1>2, <1>3, <1>4, <1>6, <1>8 DEF ChainGoes, ChainFits, NewCopies

\* Whatever the first command is, the request goes on as it should.
LEMMA HeadGoes ==
  ASSUME ServerOK(imServer), MailIn(imServer), ChainFits(imWork, imServer), imWork.left # <<>>, NEW w, CommandGoes(w)
  PROVE  ChainGoes(w, Done(Head(imWork.left)))
<1> DEFINE h == Head(imWork.left)
           plan == ImapPlan[imWork.kind]
<1>1. h \in CommandNames /\ (h \in {"move", "copy"} => plan.to \in ImBoxes)
  <2>1. imWork.kind \in KindNames  BY DEF ChainFits, GroupsFit
  <2>2. plan.to = (IF imWork.kind \in {"read", "unread"} THEN "" ELSE IF imWork.kind \in {"archive", "readAndFile"} THEN "Archive"
                   ELSE IF imWork.kind = "trash" THEN "Trash" ELSE "INBOX")
    BY <2>1, PlansAre
  <2>3. h \in CommandNames /\ (h \in {"move", "copy"} => Relocates(imWork.kind, imWork.box))  BY OrderGoes
  <2> QED BY <2>2, <2>3 DEF Relocates, ImBoxes
<1>2. CASE h = "select"
  <2>1. Done(h) = imServer  BY <1>2 DEF Done
  <2> QED BY <1>2, <2>1, SelectGoes
<1>3. CASE h = "add"
  <2>1. Done(h) = [imServer EXCEPT !.copies = {IF Named(c) THEN Flagged(c, plan.add, TRUE) ELSE c : c \in imServer.copies}]
    BY <1>3 DEF Done, EachNamed
  <2>2. FlagsOnly(plan.add, TRUE, Done(h))  BY <2>1, FlaggedAre
  <2> QED BY <1>3, <2>2, FlagsGo
<1>4. CASE h = "remove"
  <2>1. Done(h) = [imServer EXCEPT !.copies = {IF Named(c) THEN Flagged(c, plan.remove, FALSE) ELSE c : c \in imServer.copies}]
    BY <1>4 DEF Done, EachNamed
  <2>2. FlagsOnly(plan.remove, FALSE, Done(h))  BY <2>1, FlaggedAre
  <2> QED BY <1>4, <2>2, FlagsGo
<1>5. CASE h = "mark"
  <2>1. Done(h) = [imServer EXCEPT !.copies = {IF Named(c) THEN Flagged(c, {"deleted"}, TRUE) ELSE c : c \in imServer.copies}]
    BY <1>5 DEF Done, EachNamed
  <2>2. FlagsOnly({"deleted"}, TRUE, Done(h))  BY <2>1, FlaggedAre
  <2> QED BY <1>5, <2>2, FlagsGo
<1>6. CASE h = "copy"
  <2>1. Done(h) = [imServer EXCEPT !.copies = @ \cup Copies(plan.to), !.next = @ + Cardinality(Copies(plan.to))]  BY <1>6 DEF Done
  <2> QED BY <1>1, <1>6, <2>1, CopyGoes
<1>7. CASE h = "move"
  <2>1. Done(h) = [imServer EXCEPT !.copies = {c \in @ : ~Named(c)} \cup Copies(plan.to), !.next = @ + Cardinality(Copies(plan.to))]
    BY <1>7 DEF Done
  <2> QED BY <1>1, <1>7, <2>1, MoveGoes
<1>8. CASE h = "expunge"
  <2>1. Done(h) = [imServer EXCEPT !.copies = {c \in @ : ~(Named(c) /\ c.deleted)}]  BY <1>8 DEF Done
  <2> QED BY <1>8, <2>1, ExpungeGoes
<1> QED BY <1>1, <1>2, <1>3, <1>4, <1>5, <1>6, <1>7, <1>8 DEF CommandNames

AllCommands == CommandNames \cup {"append", "mark draft", "expunge draft"}
WorkKinds == KindNames \cup {"none", "save draft", "delete draft", "envelope", "message", "replied", "refused", "sent"}
WorkRecord == [kind : WorkKinds, ids : SUBSET (Nat \cup IdRecord), groups : SUBSET ImBoxes, box : ImBoxes \cup {""},
               left : Seq(AllCommands), completed : SUBSET ImBoxes]

\* The commands of messages are commands of the client.
LEMMA AllWider == \A left \in Seq(CommandNames) : left \in Seq(AllCommands)
<1> SUFFICES ASSUME NEW left \in Seq(CommandNames) PROVE left \in Seq(AllCommands)  OBVIOUS
<1>1. Len(left) \in Nat /\ left \in [1..Len(left) -> CommandNames]  OBVIOUS
<1>2. CommandNames \subseteq AllCommands  BY DEF AllCommands
<1>3. left \in [1..Len(left) -> AllCommands]  BY <1>1, <1>2
<1> QED BY <1>1, <1>3

\* The folder that a request takes next is one of those left.
LEMMA FirstBoxIn == \A boxes \in SUBSET ImBoxes : boxes # {} => FirstBox(boxes) \in boxes
<1> SUFFICES ASSUME NEW boxes \in SUBSET ImBoxes, boxes # {} PROVE FirstBox(boxes) \in boxes  OBVIOUS
<1>1. Rank["Archive"] = 1 /\ Rank["INBOX"] = 2 /\ Rank["Trash"] = 3  BY DEF Rank
<1>2. CASE "Archive" \in boxes
  <2>1. \A c \in boxes : Rank["Archive"] <= Rank[c]  BY <1>1 DEF ImBoxes
  <2> QED BY <1>2, <2>1 DEF FirstBox
<1>3. CASE "Archive" \notin boxes /\ "INBOX" \in boxes
  <2>1. \A c \in boxes : Rank["INBOX"] <= Rank[c]  BY <1>1, <1>3 DEF ImBoxes
  <2> QED BY <1>3, <2>1 DEF FirstBox
<1>4. CASE "Archive" \notin boxes /\ "INBOX" \notin boxes
  <2>1. \A c \in boxes : c = "Trash"  BY <1>4 DEF ImBoxes
  <2>2. \A c \in boxes : Rank["Trash"] <= Rank[c]  BY <1>1, <2>1
  <2> QED BY <2>1, <2>2 DEF FirstBox
<1> QED BY <1>2, <1>3, <1>4

\* What a request must be like to go on with its next group.
GroupsLeft(w, s) ==
    /\ w \in WorkRecord /\ w.kind \in KindNames /\ w.ids \subseteq IdRecord
    /\ w.groups # {} /\ w.groups \cap w.completed = {} /\ GroupSettled(w, s)
    /\ \A id \in w.ids : id.uid < s.next /\ id.box \in w.completed \cup w.groups

\* A group begins with its whole chain to send and nothing done.
LEMMA GroupBegins ==
  ASSUME NEW w, NEW s, GroupsLeft(w, s), imServer.moves \in BOOLEAN
  PROVE  LET v == BeginGroup(w, w.groups) IN
         /\ v \in WorkRecord /\ v.kind = w.kind /\ v.left # <<>> /\ ChainFits(v, s)
<1> DEFINE b == FirstBox(w.groups)
           v == BeginGroup(w, w.groups)
           left == Commands(w.kind, b)
<1>1. b \in w.groups /\ b \in ImBoxes  BY FirstBoxIn DEF GroupsLeft, WorkRecord
<1>2. /\ left \in Seq(CommandNames) /\ left # <<>> /\ InTurn(left)
      /\ Has(left, "add") <=> ImapPlan[w.kind].add # {}
      /\ Has(left, "remove") <=> ImapPlan[w.kind].remove # {}
      /\ Has(left, "move") <=> Relocates(w.kind, b) /\ imServer.moves
      /\ \A command \in {"copy", "mark", "expunge"} : Has(left, command) <=> Relocates(w.kind, b) /\ ~imServer.moves
  BY <1>1, CommandsAre DEF GroupsLeft
<1>3. left \in Seq(AllCommands)  BY <1>2, AllWider
<1> HIDE DEF b
<1>4. /\ v.kind = w.kind /\ v.ids = w.ids /\ v.box = b /\ v.left = left /\ v.groups = w.groups \ {b} /\ v.completed = w.completed
      /\ v \in WorkRecord
  BY <1>1, <1>3 DEF BeginGroup, GroupsLeft, WorkRecord, b
<1> HIDE DEF v, left
<1>5. GroupsFit(v, s)  BY <1>1, <1>4 DEF GroupsFit, GroupsLeft, WorkRecord
<1>6. ChainOrder(v)  BY <1>2, <1>4 DEF ChainOrder
<1>7. FlagsSet(v, s) /\ Leaving(v, s) /\ CopiedFirst(v, s)  BY <1>2, <1>4 DEF FlagsSet, Leaving, CopiedFirst
<1>8. GroupSettled(v, s)  BY <1>4 DEF GroupSettled, GroupsLeft
<1> QED BY <1>2, <1>4, <1>5, <1>6, <1>7, <1>8 DEF ChainFits, v

\* A group whose commands have all been answered is done with.
LEMMA GroupEnds ==
  ASSUME NEW w, NEW s, ChainFits(w, s), w.left = <<>>, NEW v, v.kind = w.kind, v.ids = w.ids, v.completed = w.completed \cup {w.box}
  PROVE  GroupSettled(v, s)
<1> SUFFICES ASSUME NEW c \in s.copies, IdOf(c) \in w.ids, c.box \in w.completed \cup {w.box} PROVE ImapDone(w.kind, c)
  BY DEF GroupSettled
<1>1. CASE c.box \in w.completed  BY <1>1 DEF ChainFits, GroupSettled
<1>2. CASE c.box = w.box
  <2>1. OfGroup(w, c) /\ \A command : ~Has(w.left, command)  BY <1>2, ShortInTurn DEF OfGroup
  <2>2. ImapPlan[w.kind].to \in {"", c.box}  BY <1>2, <2>1 DEF ChainFits, Leaving, Relocates
  <2> QED BY <2>1, <2>2 DEF ChainFits, FlagsSet, ImapDone
<1> QED BY <1>1, <1>2

\* What an answer says of a server.
ReportFits(r, s) == r.kind \in KindNames =>
    /\ \A id \in r.succeeded : id \in IdRecord /\ id.uid < s.next
    /\ \A id \in r.succeeded, c \in s.copies : IdOf(c) = id => ImapDone(r.kind, c)
    /\ ~r.error => r.failed = {}

\* A report says of a message that it went wrong unless its change is there.
LEMMA ReportIs ==
  ASSUME NEW w, NEW s, NEW error, w.ids \subseteq IdRecord, GroupSettled(w, s), \A id \in w.ids : id.uid < s.next,
         ~error => \A id \in w.ids : id.box \in w.completed
  PROVE  ReportFits(Report(w, error), s)
<1> DEFINE r == Report(w, error)
<1>1. /\ r.succeeded = {id \in w.ids : id.box \in w.completed} /\ r.kind = w.kind /\ r.error = error
      /\ r.failed = w.ids \ r.succeeded
  BY DEF Report
<1> HIDE DEF r
<1>2. ASSUME NEW id \in r.succeeded, NEW c \in s.copies, IdOf(c) = id PROVE ImapDone(r.kind, c)
  <2>1. IdOf(c).box = c.box  BY DEF IdOf
  <2> QED BY <1>1, <1>2, <2>1 DEF GroupSettled
<1>3. ~r.error => r.failed = {}  BY <1>1
<1>4. \A id \in r.succeeded : id \in IdRecord /\ id.uid < s.next  BY <1>1
<1>5. ReportFits(r, s)  BY <1>2, <1>3, <1>4 DEF ReportFits
<1> QED BY <1>5 DEF r

SendKinds == {"envelope", "message", "replied", "refused", "sent"}
\* The new text is in the folder, and the request does not name it.
NewDraft(w, s, made) == \E d \in s.drafts : d.version = made.draft /\ ~d.deleted /\ d.uid \notin w.ids
DraftFits(w, s, made) ==
    /\ w.kind \in DraftKinds /\ w.ids \subseteq Nat /\ \A uid \in w.ids : uid < s.next
    /\ w.left \in {<<"append">>, AppendFirst, CleanUp, <<"expunge draft">>}
    /\ w.kind = "delete draft" => made.saved = 0
    /\ w.left \in {CleanUp, <<"expunge draft">>} => w.kind = "delete draft" \/ NewDraft(w, s, made)
WorkFits(w, s, made) ==
    \/ w = NoWork
    \/ w.kind \in KindNames /\ w.left # <<>> /\ ChainFits(w, s)
    \/ DraftFits(w, s, made)
    \/ w.kind \in SendKinds /\ made.delivered = (IF w.kind \in {"replied", "sent"} THEN 1 ELSE 0)
MadeFits(made, s) ==
    /\ made \in [requests : Nat, foreign : Nat, draft : Nat, saved : Nat, delivered : Nat]
    /\ made.saved <= made.draft /\ \A d \in s.drafts : d.version <= made.draft
    /\ made.saved # 0 => \E d \in s.drafts : d.version >= made.saved /\ ~d.deleted
SendFits(r, made) == /\ r.kind = "not sent" => made.delivered = 0
                     /\ r.kind = "sent" => made.delivered = 1
ImInv == /\ ServerOK(imServer) /\ MailIn(imServer) /\ imWork \in WorkRecord /\ WorkFits(imWork, imServer, imMade)
         /\ MadeFits(imMade, imServer) /\ ReportFits(imReport, imServer) /\ SendFits(imReport, imMade)
         /\ imWork # NoWork => imReport = NoImapReport

\* Before a report there is nothing it could get wrong.
LEMMA NothingReported == /\ \A s : ReportFits(NoImapReport, s) /\ \A made : SendFits(NoImapReport, made)
                         /\ NoWork \in WorkRecord /\ NoWork.kind = "none" /\ \A kind \in WorkKinds : [NoWork EXCEPT !.kind = kind] \in WorkRecord
<1>1. <<>> \in Seq(AllCommands)  OBVIOUS
<1>2. NoImapReport.kind = "none" /\ "none" \notin KindNames  BY DEF NoImapReport, KindNames
<1>3. NoWork \in WorkRecord /\ NoWork.kind = "none"  BY <1>1 DEF NoWork, WorkRecord, WorkKinds
<1>4. \A kind \in WorkKinds : [NoWork EXCEPT !.kind = kind] \in WorkRecord  BY <1>3 DEF WorkRecord
<1> QED BY <1>2, <1>3, <1>4 DEF ReportFits, SendFits

\* Requests ask for something only when nothing runs; the kinds are apart.
LEMMA KindsApart == /\ KindNames \cap DraftKinds = {} /\ KindNames \cap SendKinds = {} /\ DraftKinds \cap SendKinds = {}
                    /\ "none" \notin KindNames \cup DraftKinds \cup SendKinds /\ NoWork.kind = "none"
                    /\ WorkKinds = KindNames \cup DraftKinds \cup SendKinds \cup {"none"}
                    /\ NoImapReport.kind = "none" /\ {"sent", "not sent", "delivery unknown"} \cap (KindNames \cup DraftKinds) = {}
BY DEF KindNames, DraftKinds, SendKinds, NoWork, WorkKinds, NoImapReport

\* The commands left of a request are commands.
LEMMA TailOfAll ==
  ASSUME NEW left \in Seq(AllCommands), left # <<>>
  PROVE  Tail(left) \in Seq(AllCommands) /\ Len(left) \in Nat /\ (Len(left) = 1 <=> Tail(left) = <<>>)
<1> DEFINE S == AllCommands
           rest == Tail(left)
<1>1. left \in Seq(S)  OBVIOUS
<1> HIDE DEF S
<1>2. Len(left) \in Nat \ {0} /\ rest \in Seq(S) /\ Len(rest) = Len(left) - 1  BY <1>1
<1> HIDE DEF rest
<1>3. Len(rest) = 0 <=> rest = <<>>  BY <1>2
<1>4. Len(left) = 1 <=> rest = <<>>  BY <1>2, <1>3
<1> QED BY <1>2, <1>4 DEF S, rest

\* At first nothing is asked, and nothing has changed.
LEMMA ChangesBegin == ImapChangesInit => ImInv
<1> SUFFICES ASSUME ImapChangesInit PROVE ImInv  OBVIOUS
<1> DEFINE n == Cardinality(ChMail)
           Orders == {nth \in [ChMail -> 1..n] : \A m, k \in ChMail : nth[m] = nth[k] => m = k}
           nth == CHOOSE nth \in [ChMail -> 1..n] : \A m, k \in ChMail : nth[m] = nth[k] => m = k
<1>1. IsFiniteSet(ChMail) /\ n \in Nat  BY ChangeAssumption, FS_CardinalityType
<1>2. nth \in [ChMail -> 1..n]
  <2>1. ExistsBijection(ChMail, 1..n)  BY <1>1, FS_CardinalityType, Fun_ExistsBijSymmetric
  <2>2. PICK f \in Bijection(ChMail, 1..n) : TRUE  BY <2>1 DEF ExistsBijection
  <2>3. f \in [ChMail -> 1..n] /\ \A m, k \in ChMail : f[m] = f[k] => m = k  BY <2>2 DEF Bijection, Injection, IsInjective
  <2> QED BY <2>3
<1> HIDE DEF nth, n
<1>3. PICK where \in [ChMail -> ChBoxes], moves \in BOOLEAN :
        imServer = [copies |-> {[msg |-> m, box |-> where[m], uid |-> nth[m], seen |-> FALSE, deleted |-> FALSE] : m \in ChMail},
                    drafts |-> {}, next |-> n + 1, moves |-> moves]
  BY DEF ImapChangesInit, nth, n
<1> DEFINE f == [m \in ChMail |-> [msg |-> m, box |-> where[m], uid |-> nth[m], seen |-> FALSE, deleted |-> FALSE]]
<1>4. imServer.copies = {f[m] : m \in ChMail} /\ imServer.drafts = {} /\ imServer.next = n + 1 /\ imServer.moves \in BOOLEAN
  BY <1>3
<1>5. ASSUME NEW m \in ChMail
      PROVE  f[m] \in CopyRecord /\ f[m].uid < n + 1 /\ f[m].msg = m /\ ~f[m].deleted
  <2>1. where[m] \in ImBoxes /\ nth[m] \in 1..n  BY <1>2, ChangeAssumption DEF ImBoxes
  <2> QED BY <1>1, <2>1 DEF CopyRecord
<1> HIDE DEF f
<1>6. IsFiniteSet(imServer.copies)
  <2>1. f \in [ChMail -> imServer.copies]  BY <1>4 DEF f
  <2> QED BY <1>1, <1>4, <2>1, ImageOf
<1>7. imServer.copies \subseteq CopyRecord /\ \A c \in imServer.copies : c.uid < n + 1  BY <1>4, <1>5
<1>8. ServerOK(imServer)
  <2>1. imServer \in [copies : SUBSET CopyRecord, drafts : SUBSET DraftRecord, next : Nat, moves : BOOLEAN]
    <3>1. n + 1 \in Nat  BY <1>1
    <3>2. imServer = [copies |-> imServer.copies, drafts |-> {}, next |-> n + 1, moves |-> moves]  BY <1>3
    <3> QED BY <1>7, <3>1, <3>2
  <2> QED BY <1>4, <1>6, <1>7, <2>1 DEF ServerOK
<1>9. MailIn(imServer)
  <2> SUFFICES ASSUME NEW m \in ChMail PROVE \E c \in imServer.copies : c.msg = m /\ ~c.deleted  BY DEF MailIn
  <2> QED BY <1>4, <1>5
<1>10. imWork = NoWork /\ imReport = NoImapReport /\ imMade = [requests |-> 0, foreign |-> 0, draft |-> 0, saved |-> 0, delivered |-> 0]
  BY DEF ImapChangesInit
<1>11. MadeFits(imMade, imServer)  BY <1>4, <1>10 DEF MadeFits
<1> QED BY <1>8, <1>9, <1>10, <1>11, NothingReported DEF ImInv, WorkFits

\* A request to change messages begins with the folders it names.
LEMMA ChangeAsked == ASSUME ImInv, NEW kind \in ChangeKinds, AskChange(kind) PROVE ImInv'
<1>1. PICK ids \in (SUBSET {IdOf(c) : c \in imServer.copies}) \ {{}} :
         imWork' = BeginGroup([NoWork EXCEPT !.kind = kind, !.ids = ids], BoxesOf(ids))
  BY DEF AskChange
<1>2. imServer' = imServer /\ imReport' = NoImapReport /\ imMade' = [imMade EXCEPT !.requests = @ + 1] /\ kind \in KindNames
  BY KindsAre DEF AskChange
<1> DEFINE w == [NoWork EXCEPT !.kind = kind, !.ids = ids, !.groups = BoxesOf(ids)]
<1>3. ASSUME NEW id \in ids PROVE id \in IdRecord /\ id.uid < imServer.next
  <2>1. PICK c \in imServer.copies : id = IdOf(c)  BY <1>1
  <2>2. c \in CopyRecord /\ c.uid < imServer.next  BY DEF ImInv, ServerOK
  <2> QED BY <2>1, <2>2 DEF IdOf, IdRecord, CopyRecord
<1>4. BoxesOf(ids) \subseteq ImBoxes /\ BoxesOf(ids) # {} /\ \A id \in ids : id.box \in BoxesOf(ids)
  BY <1>1, <1>3 DEF BoxesOf, IdRecord
<1>5. /\ w.kind = kind /\ w.ids = ids /\ w.groups = BoxesOf(ids) /\ w.completed = {} /\ w \in WorkRecord
      /\ BeginGroup(w, BoxesOf(ids)) = BeginGroup([NoWork EXCEPT !.kind = kind, !.ids = ids], BoxesOf(ids))
  <2>1. kind \in WorkKinds /\ ids \in SUBSET (Nat \cup IdRecord) /\ BoxesOf(ids) \in SUBSET ImBoxes /\ NoWork \in WorkRecord
    BY <1>2, <1>3, <1>4, NothingReported DEF WorkKinds
  <2>2. w.kind = kind /\ w.ids = ids /\ w.groups = BoxesOf(ids) /\ w.completed = {} /\ w \in WorkRecord
    BY <2>1 DEF NoWork, WorkRecord
  <2>3. BeginGroup(w, BoxesOf(ids)) = BeginGroup([NoWork EXCEPT !.kind = kind, !.ids = ids], BoxesOf(ids))
    BY DEF BeginGroup, NoWork
  <2> QED BY <2>2, <2>3
<1> HIDE DEF w
<1>6. GroupsLeft(w, imServer)  BY <1>2, <1>3, <1>4, <1>5 DEF GroupsLeft, GroupSettled
<1>7. imWork' \in WorkRecord /\ imWork'.kind = kind /\ imWork'.left # <<>> /\ ChainFits(imWork', imServer)
  <2>1. imServer.moves \in BOOLEAN  BY DEF ImInv, ServerOK
  <2> QED BY <1>1, <1>5, <1>6, <2>1, GroupBegins
<1>8. MadeFits(imMade', imServer)  BY <1>2 DEF ImInv, MadeFits
<1>9. WorkFits(imWork', imServer', imMade')  BY <1>2, <1>7 DEF WorkFits
<1> QED BY <1>2, <1>7, <1>8, <1>9, NothingReported DEF ImInv

\* A request of messages: its commands are those of a group.
LEMMA ChainRuns ==
  ASSUME ImInv, imWork.kind \in ChangeKinds, imWork.left # <<>>
  PROVE  /\ ChainFits(imWork, imServer) /\ imWork.kind \in KindNames /\ imWork.ids \subseteq IdRecord
         /\ LET w == [imWork EXCEPT !.left = Tail(@)] IN w \in WorkRecord /\ CommandGoes(w)
<1>1. imWork.kind \in KindNames  BY KindsAre
<1>2. ChainFits(imWork, imServer)  BY <1>1, KindsApart DEF ImInv, WorkFits, DraftFits
<1>3. imWork \in WorkRecord /\ Tail(imWork.left) \in Seq(AllCommands)
  <2>1. imWork \in WorkRecord /\ imWork.left \in Seq(AllCommands)  BY DEF ImInv, WorkRecord
  <2> QED BY <2>1, TailOfAll
<1>4. LET w == [imWork EXCEPT !.left = Tail(@)] IN w \in WorkRecord /\ CommandGoes(w)  BY <1>3 DEF WorkRecord, CommandGoes
<1> QED BY <1>1, <1>2, <1>4 DEF ChainFits, GroupsFit

\* The drafts stay as they are while messages are changed.
LEMMA MadeStays ==
  ASSUME ImInv, NEW s, s.drafts = imServer.drafts PROVE MadeFits(imMade, s)
BY DEF ImInv, MadeFits

\* A command that fails, done by the server or not, ends the request with an error that names what it cannot vouch for.
LEMMA ChangeFails == ASSUME ImInv, NEW done \in BOOLEAN, CommandFails(done) PROVE ImInv'
<1> DEFINE w == [imWork EXCEPT !.left = Tail(@)]
<1>1. /\ imWork.kind \in ChangeKinds /\ imWork.left # <<>> /\ imWork' = NoWork /\ imMade' = imMade
      /\ imReport' = Report(imWork, TRUE)
      /\ imServer' = IF done THEN Done(Head(imWork.left)) ELSE imServer
  BY DEF CommandFails
<1>2. ChainFits(imWork, imServer) /\ imWork.kind \in KindNames /\ imWork.ids \subseteq IdRecord /\ CommandGoes(w)
  BY <1>1, ChainRuns
<1> HIDE DEF w
<1>3. /\ ServerOK(imServer') /\ MailIn(imServer') /\ imServer'.drafts = imServer.drafts /\ GroupSettled(imWork, imServer')
      /\ \A id \in imWork.ids : id.uid < imServer'.next
  <2>1. CASE done
    <3>1. ChainGoes(w, imServer')  BY <1>1, <1>2, <2>1, HeadGoes DEF ImInv
    <3>2. w.ids = imWork.ids /\ w.completed = imWork.completed /\ w.kind = imWork.kind  BY <1>2 DEF CommandGoes
    <3> QED BY <3>1, <3>2 DEF ChainGoes, ChainFits, GroupsFit, GroupSettled
  <2>2. CASE ~done  BY <1>1, <1>2, <2>2 DEF ImInv, ChainFits, GroupsFit
  <2> QED BY <2>1, <2>2
<1>4. ReportFits(imReport', imServer')  BY <1>1, <1>2, <1>3, ReportIs
<1>5. SendFits(imReport', imMade')  BY <1>1, <1>2, KindsApart DEF SendFits, Report
<1>6. MadeFits(imMade', imServer')  BY <1>1, <1>3, MadeStays
<1> QED BY <1>1, <1>3, <1>4, <1>5, <1>6, NothingReported DEF ImInv, WorkFits

\* A command answered takes the chain one step on; the last of a group takes up the next folder.
LEMMA ChainAnswered == ASSUME ImInv, CommandAnswered PROVE ImInv'
<1> DEFINE w == [imWork EXCEPT !.left = Tail(@)]
           v == [imWork EXCEPT !.left = Tail(@), !.completed = Ledger(imWork)]
           over == v.left = <<>> /\ v.groups = {}
<1>1. /\ imWork.kind \in ChangeKinds /\ imWork.left # <<>> /\ imMade' = imMade /\ imServer' = Done(Head(imWork.left))
      /\ imWork' = IF over THEN NoWork ELSE IF v.left = <<>> THEN BeginGroup(v, v.groups) ELSE v
      /\ imReport' = IF over THEN Report(v, FALSE) ELSE imReport
  BY DEF CommandAnswered
<1>2. /\ ChainFits(imWork, imServer) /\ imWork.kind \in KindNames /\ imWork.ids \subseteq IdRecord
      /\ w \in WorkRecord /\ CommandGoes(w) /\ imWork # NoWork
  BY <1>1, ChainRuns, KindsApart
<1>3. /\ imWork \in WorkRecord /\ Len(imWork.left) \in Nat /\ (Len(imWork.left) = 1 <=> Tail(imWork.left) = <<>>)
      /\ imWork.box \in ImBoxes /\ imReport = NoImapReport /\ Tail(imWork.left) \in Seq(AllCommands)
      /\ imWork.completed \in SUBSET ImBoxes
  <2>1. imWork \in WorkRecord /\ imWork.left \in Seq(AllCommands) /\ imWork.completed \in SUBSET ImBoxes  BY DEF ImInv, WorkRecord
  <2>2. imWork.box \in ImBoxes /\ imReport = NoImapReport  BY <1>2 DEF ImInv, ChainFits, GroupsFit
  <2> QED BY <1>1, <2>1, <2>2, TailOfAll
<1>4. /\ v.kind = imWork.kind /\ v.ids = imWork.ids /\ v.groups = imWork.groups /\ v.left = Tail(imWork.left) /\ v.box = imWork.box
      /\ v.completed = IF Tail(imWork.left) = <<>> THEN imWork.completed \cup {imWork.box} ELSE imWork.completed
      /\ Tail(imWork.left) # <<>> => v = w
      /\ v \in WorkRecord
  <2>1. Ledger(imWork) = IF Tail(imWork.left) = <<>> THEN imWork.completed \cup {imWork.box} ELSE imWork.completed
    BY <1>3 DEF Ledger
  <2>2. Ledger(imWork) \in SUBSET ImBoxes /\ Tail(imWork.left) \in Seq(AllCommands)  BY <1>3, <2>1
  <2>3. /\ v.kind = imWork.kind /\ v.ids = imWork.ids /\ v.groups = imWork.groups /\ v.left = Tail(imWork.left) /\ v.box = imWork.box
        /\ v.completed = Ledger(imWork) /\ v \in WorkRecord
    BY <1>3, <2>2 DEF WorkRecord
  <2>4. Tail(imWork.left) # <<>> => v = w
    <3> SUFFICES ASSUME Tail(imWork.left) # <<>> PROVE v = w  OBVIOUS
    <3>1. Ledger(imWork) = imWork.completed  BY <2>1
    <3> QED BY <1>3, <3>1 DEF WorkRecord
  <2> QED BY <2>1, <2>3, <2>4
<1>5. ChainGoes(w, imServer')  BY <1>1, <1>2, HeadGoes DEF ImInv
<1>6. /\ w.kind = imWork.kind /\ w.ids = imWork.ids /\ w.box = imWork.box
      /\ w.groups = imWork.groups /\ w.completed = imWork.completed /\ w.left = Tail(imWork.left)
  BY <1>2 DEF CommandGoes
<1> HIDE DEF w, v
<1>7. /\ ServerOK(imServer') /\ MailIn(imServer') /\ ChainFits(w, imServer') /\ imServer'.moves = imServer.moves
      /\ MadeFits(imMade', imServer')
  BY <1>1, <1>5, MadeStays DEF ChainGoes
<1>8. CASE v.left # <<>>
  <2>1. imWork' = w /\ imReport' = NoImapReport  BY <1>1, <1>3, <1>4, <1>8
  <2>2. WorkFits(imWork', imServer', imMade')  BY <1>2, <1>4, <1>6, <1>7, <1>8, <2>1 DEF WorkFits
  <2> QED BY <1>2, <1>7, <2>1, <2>2, NothingReported DEF ImInv
<1>9. CASE v.left = <<>>
  <2>1. w.left = <<>> /\ v.completed = w.completed \cup {w.box}  BY <1>4, <1>6, <1>9
  <2>2. GroupSettled(v, imServer')  BY <1>4, <1>6, <1>7, <2>1, GroupEnds
  <2>3. /\ \A id \in v.ids : id.uid < imServer'.next /\ id.box \in v.completed \cup v.groups
        /\ v.groups \cap v.completed = {}
    BY <1>4, <1>6, <1>7, <2>1 DEF ChainFits, GroupsFit
  <2>4. CASE v.groups # {}
    <3>1. imWork' = BeginGroup(v, v.groups) /\ imReport' = NoImapReport  BY <1>1, <1>3, <1>9, <2>4
    <3>2. GroupsLeft(v, imServer')  BY <1>2, <1>4, <2>2, <2>3, <2>4 DEF GroupsLeft
    <3>3. imWork' \in WorkRecord /\ imWork'.kind = v.kind /\ imWork'.left # <<>> /\ ChainFits(imWork', imServer')
      <4>1. imServer.moves \in BOOLEAN  BY DEF ImInv, ServerOK
      <4> QED BY <3>1, <3>2, <4>1, GroupBegins
    <3>4. WorkFits(imWork', imServer', imMade')  BY <1>2, <1>4, <3>3 DEF WorkFits
    <3> QED BY <1>7, <3>1, <3>3, <3>4, NothingReported DEF ImInv
  <2>5. CASE v.groups = {}
    <3>1. imWork' = NoWork /\ imReport' = Report(v, FALSE)  BY <1>1, <1>9, <2>5
    <3>2. ReportFits(imReport', imServer')
      <4>1. v.ids \subseteq IdRecord /\ \A id \in v.ids : id.box \in v.completed  BY <1>2, <1>4, <2>3, <2>5
      <4> QED BY <2>2, <2>3, <3>1, <4>1, ReportIs
    <3>3. SendFits(imReport', imMade')  BY <1>2, <1>4, <3>1, KindsApart DEF SendFits, Report
    <3> QED BY <1>7, <3>1, <3>2, <3>3, NothingReported DEF ImInv, WorkFits
  <2> QED BY <2>4, <2>5
<1> QED BY <1>8, <1>9

\* Another client moves a message while a request is at work.
LEMMA ForeignMoved ==
  ASSUME ImInv, NEW c \in imServer.copies, NEW to \in DOMAIN Rank, ForeignMove(c, to)
  PROVE  ImInv'
<1> DEFINE x0 == [c EXCEPT !.box = to, !.uid = imServer.next]
           s == imServer'
<1>1. /\ s = [imServer EXCEPT !.copies = (@ \ {c}) \cup {x0}, !.next = @ + 1]
      /\ imMade' = [imMade EXCEPT !.foreign = @ + 1] /\ imWork' = imWork /\ imReport' = imReport
  BY DEF ForeignMove
<1>2. ServerOK(imServer) /\ c \in CopyRecord /\ imServer.next \in Nat /\ to \in ImBoxes  BY DEF ImInv, ServerOK, Rank, ImBoxes
<1>3. /\ x0 \in CopyRecord /\ x0.uid = imServer.next /\ x0.msg = c.msg /\ x0.deleted = c.deleted  BY <1>2 DEF CopyRecord
<1>4. /\ s.copies = (imServer.copies \ {c}) \cup {x0} /\ s.next = imServer.next + 1
      /\ s.drafts = imServer.drafts /\ s.moves = imServer.moves
  BY <1>1, <1>2 DEF ServerOK
<1> HIDE DEF s, x0
<1>5. ServerOK(s)
  <2>1. IsFiniteSet(s.copies)
    <3>1. IsFiniteSet(imServer.copies \ {c})  BY <1>2, FS_Difference DEF ServerOK
    <3>2. IsFiniteSet((imServer.copies \ {c}) \cup {x0})  BY <3>1, FS_AddElement
    <3> QED BY <1>4, <3>2
  <2>2. s \in [copies : SUBSET CopyRecord, drafts : SUBSET DraftRecord, next : Nat, moves : BOOLEAN]
    <3>1. s.copies \subseteq CopyRecord  BY <1>2, <1>3, <1>4 DEF ServerOK
    <3>2. imServer.next + 1 \in Nat  BY <1>2
    <3>3. imServer \in [copies : SUBSET CopyRecord, drafts : SUBSET DraftRecord, next : Nat, moves : BOOLEAN]  BY <1>2 DEF ServerOK
    <3>4. s = [imServer EXCEPT !.copies = s.copies, !.next = imServer.next + 1]  BY <1>1, <1>4, <3>3 DEF s
    <3> QED BY <3>1, <3>2, <3>3, <3>4
  <2>3. \A y \in s.copies : y.uid < s.next
    <3> SUFFICES ASSUME NEW y \in s.copies PROVE y.uid < s.next  OBVIOUS
    <3>1. CASE y \in imServer.copies
      <4>1. y.uid \in Nat /\ y.uid < imServer.next  BY <1>2, <3>1 DEF ServerOK, CopyRecord
      <4> QED BY <1>2, <1>4, <4>1
    <3>2. CASE y = x0  BY <1>2, <1>3, <1>4, <3>2
    <3> QED BY <1>4, <3>1, <3>2
  <2>4. \A d \in s.drafts : d.uid < s.next
    <3> SUFFICES ASSUME NEW d \in s.drafts PROVE d.uid < s.next  OBVIOUS
    <3>1. d.uid \in Nat /\ d.uid < imServer.next  BY <1>2, <1>4 DEF ServerOK, DraftRecord
    <3> QED BY <1>2, <1>4, <3>1
  <2> QED BY <2>1, <2>2, <2>3, <2>4 DEF ServerOK
\* The copy that came is named by no request and no answer.
<1>6. ASSUME NEW ids, \A id \in ids : id.uid \in Nat /\ id.uid < imServer.next
      PROVE  IdOf(x0) \notin ids /\ \A y \in s.copies : IdOf(y) \in ids => y \in imServer.copies
  <2>1. IdOf(x0).uid = imServer.next  BY <1>3 DEF IdOf
  <2>2. IdOf(x0) \notin ids  BY <1>2, <1>6, <2>1
  <2> QED BY <1>4, <2>2
<1>7. MailIn(s)
  <2> SUFFICES ASSUME NEW m \in ChMail PROVE \E y \in s.copies : y.msg = m /\ ~y.deleted  BY DEF MailIn
  <2>1. PICK y \in imServer.copies : y.msg = m /\ ~y.deleted  BY DEF ImInv, MailIn
  <2>2. CASE y = c  BY <1>3, <1>4, <2>1, <2>2
  <2>3. CASE y # c  BY <1>4, <2>1, <2>3
  <2> QED BY <2>2, <2>3
<1>8. imServer.next <= s.next /\ s.next \in Nat  BY <1>2, <1>4
<1>9. ASSUME ChainFits(imWork, imServer) PROVE ChainFits(imWork, s)
  <2>1. \A id \in imWork.ids : id.uid \in Nat /\ id.uid < imServer.next  BY <1>9 DEF ChainFits, GroupsFit, IdRecord
  <2>2. IdOf(x0) \notin imWork.ids /\ \A y \in s.copies : IdOf(y) \in imWork.ids => y \in imServer.copies  BY <1>6, <2>1
  <2>3. \A id \in imWork.ids : id.uid < s.next  BY <1>2, <1>8, <2>1
  <2>4. GroupsFit(imWork, s)  BY <1>9, <2>3 DEF ChainFits, GroupsFit
  <2>5. FlagsSet(imWork, s) /\ Leaving(imWork, s) /\ GroupSettled(imWork, s)
    BY <1>9, <2>2 DEF ChainFits, FlagsSet, Leaving, GroupSettled, OfGroup
  <2>6. CopiedFirst(imWork, s)
    <3> SUFFICES ASSUME Has(imWork.left, "expunge"), ~Has(imWork.left, "copy"), NEW m \in ChMail
                 PROVE  \E y \in s.copies : y.msg = m /\ ~y.deleted /\ ~OfGroup(imWork, y)
      BY DEF CopiedFirst
    <3>1. PICK y \in imServer.copies : y.msg = m /\ ~y.deleted /\ ~OfGroup(imWork, y)  BY <1>9 DEF ChainFits, CopiedFirst
    <3>2. CASE y = c
      <4>1. ~OfGroup(imWork, x0)  BY <2>2 DEF OfGroup
      <4> QED BY <1>3, <1>4, <3>1, <3>2, <4>1
    <3>3. CASE y # c  BY <1>4, <3>1, <3>3
    <3> QED BY <3>2, <3>3
  <2> QED BY <1>9, <2>4, <2>5, <2>6 DEF ChainFits
<1>10. /\ imMade'.delivered = imMade.delivered /\ imMade'.draft = imMade.draft /\ imMade'.saved = imMade.saved
       /\ MadeFits(imMade', s)
  <2>1. imMade'.delivered = imMade.delivered /\ imMade'.draft = imMade.draft /\ imMade'.saved = imMade.saved
    BY <1>1 DEF ImInv, MadeFits
  <2>2. MadeFits(imMade', s)  BY <1>1, <1>4 DEF ImInv, MadeFits
  <2> QED BY <2>1, <2>2
<1>11. ASSUME DraftFits(imWork, imServer, imMade) PROVE DraftFits(imWork, s, imMade')
  <2>1. \A uid \in imWork.ids : uid \in Nat /\ uid < imServer.next  BY <1>11 DEF DraftFits
  <2>2. \A uid \in imWork.ids : uid < s.next  BY <1>2, <1>8, <2>1
  <2> QED BY <1>4, <1>10, <1>11, <2>2 DEF DraftFits, NewDraft
<1>12. WorkFits(imWork', s, imMade')  BY <1>1, <1>9, <1>10, <1>11 DEF ImInv, WorkFits
<1>13. ReportFits(imReport', s)
  <2> SUFFICES ASSUME imReport.kind \in KindNames
               PROVE  /\ \A id \in imReport.succeeded : id \in IdRecord /\ id.uid < s.next
                      /\ \A id \in imReport.succeeded, y \in s.copies : IdOf(y) = id => ImapDone(imReport.kind, y)
                      /\ ~imReport.error => imReport.failed = {}
    BY <1>1 DEF ReportFits
  <2>1. \A id \in imReport.succeeded : id \in IdRecord /\ id.uid \in Nat /\ id.uid < imServer.next
    BY DEF ImInv, ReportFits, IdRecord
  <2>2. \A y \in s.copies : IdOf(y) \in imReport.succeeded => y \in imServer.copies  BY <1>6, <2>1
  <2>3. \A id \in imReport.succeeded : id.uid < s.next  BY <1>2, <1>8, <2>1
  <2> QED BY <2>1, <2>2, <2>3 DEF ImInv, ReportFits
<1>14. SendFits(imReport', imMade')  BY <1>1, <1>10 DEF ImInv, SendFits
<1> QED BY <1>1, <1>5, <1>7, <1>10, <1>12, <1>13, <1>14 DEF ImInv, s

------------------------------------
\* Sequences alike at every place are equal.
LEMMA SeqSame ==
  ASSUME NEW S, NEW s \in Seq(S), NEW t \in Seq(S), Len(s) = Len(t), \A i \in 1..Len(s) : s[i] = t[i]
  PROVE  s = t
OBVIOUS

\* The tail of a sequence, place by place.
LEMMA TailOne ==
  ASSUME NEW S, NEW s \in Seq(S), NEW n \in Nat, Len(s) = n + 1
  PROVE  Tail(s) \in Seq(S) /\ Len(Tail(s)) = n /\ Head(s) = s[1] /\ \A i \in 1..n : Tail(s)[i] = s[i + 1]
OBVIOUS

\* What the chains of a draft leave to do.
LEMMA DraftLefts ==
  /\ Head(<<"append">>) = "append" /\ Tail(<<"append">>) = <<>> /\ Len(<<"append">>) = 1
  /\ Head(AppendFirst) = "append" /\ Tail(AppendFirst) = CleanUp /\ Len(AppendFirst) = 3
  /\ Head(CleanUp) = "mark draft" /\ Tail(CleanUp) = <<"expunge draft">> /\ Len(CleanUp) = 2
  /\ Head(<<"expunge draft">>) = "expunge draft" /\ Len(<<"expunge draft">>) = 1
  /\ {<<"append">>, AppendFirst, CleanUp, <<"expunge draft">>} \subseteq Seq(AllCommands)
  /\ "append" \in ToSet(<<"append">>) /\ "append" \in ToSet(AppendFirst)
  /\ "append" \notin ToSet(CleanUp) /\ "append" \notin ToSet(<<"expunge draft">>) /\ "append" \notin ToSet(<<>>)
<1> DEFINE C == AllCommands
           u == <<"append">>
           v == <<"expunge draft">>
<1>1. Head(u) = "append" /\ Tail(u) = <<>> /\ Head(v) = "expunge draft"  OBVIOUS
<1>2. Len(u) = 1 /\ Len(v) = 1 /\ Len(CleanUp) = 2  BY DEF CleanUp
<1>3. u \in Seq(C) /\ v \in Seq(C) /\ CleanUp \in Seq(C)  BY DEF AllCommands, CleanUp
<1>4. u[1] = "append" /\ v[1] = "expunge draft"  OBVIOUS
<1>4a. CleanUp[1] = "mark draft" /\ CleanUp[2] = "expunge draft" /\ Head(CleanUp) = "mark draft"  BY DEF CleanUp
<1>5. AppendFirst = u \o CleanUp  BY DEF AppendFirst
<1>5a. "append" \in ToSet(u)  BY DEF ToSet
<1>5c. "append" \notin ToSet(<<>>)  BY DEF ToSet
<1> HIDE DEF C, u, v
<1>5b. "append" \notin ToSet(v)
  <2>1. DOMAIN v = {1}  BY <1>2, <1>3
  <2>2. ToSet(v) = {v[i] : i \in {1}}  BY <2>1 DEF ToSet
  <2>3. v[1] # "append"  BY <1>4
  <2> QED BY <2>2, <2>3
<1>6. AppendFirst \in Seq(C) /\ Len(AppendFirst) = 3
  <2>1. u \o CleanUp \in Seq(C) /\ Len(u \o CleanUp) = Len(u) + Len(CleanUp)  BY <1>3
  <2> QED BY <1>2, <1>5, <2>1
<1>6a. ASSUME NEW i \in 1..3 PROVE AppendFirst[i] = IF i <= 1 THEN u[i] ELSE CleanUp[i - 1]
  <2>1. \A k \in 1..Len(u) + Len(CleanUp) : (u \o CleanUp)[k] = IF k <= Len(u) THEN u[k] ELSE CleanUp[k - Len(u)]  BY <1>3
  <2>2. Len(u) + Len(CleanUp) = 3  BY <1>2
  <2>3. (u \o CleanUp)[i] = IF i <= 1 THEN u[i] ELSE CleanUp[i - 1]  BY <1>2, <2>1, <2>2
  <2> QED BY <1>5, <2>3
<1>7. AppendFirst[1] = u[1] /\ AppendFirst[2] = CleanUp[1] /\ AppendFirst[3] = CleanUp[2]  BY <1>6a
<1>8. Head(AppendFirst) = AppendFirst[1] /\ Tail(AppendFirst) = CleanUp
  <2>1. /\ Tail(AppendFirst) \in Seq(C) /\ Len(Tail(AppendFirst)) = 2 /\ Head(AppendFirst) = AppendFirst[1]
        /\ \A i \in 1..2 : Tail(AppendFirst)[i] = AppendFirst[i + 1]
    <3>1. AppendFirst \in Seq(C) /\ Len(AppendFirst) = 2 + 1  BY <1>6
    <3> QED BY <3>1, TailOne
  <2>2. ASSUME NEW i \in 1..2 PROVE Tail(AppendFirst)[i] = CleanUp[i]
    <3>1. Tail(AppendFirst)[i] = AppendFirst[i + 1]  BY <2>1
    <3>2. i + 1 \in 1..3 /\ ~(i + 1 <= 1) /\ (i + 1) - 1 = i  OBVIOUS
    <3> QED BY <1>6a, <3>1, <3>2
  <2> QED BY <1>2, <1>3, <2>1, <2>2, SeqSame
<1>9. Tail(CleanUp) = v
  <2>1. /\ Tail(CleanUp) \in Seq(C) /\ Len(Tail(CleanUp)) = 1
        /\ \A i \in 1..1 : Tail(CleanUp)[i] = CleanUp[i + 1]
    BY <1>2, <1>3, TailOne
  <2>2. Tail(CleanUp)[1] = CleanUp[2]  BY <2>1
  <2>3. Tail(CleanUp)[1] = v[1]  BY <1>4, <1>4a, <2>2
  <2>4. ASSUME NEW i \in 1..1 PROVE Tail(CleanUp)[i] = v[i]
    <3>1. i = 1  OBVIOUS
    <3> QED BY <2>3, <3>1
  <2> QED BY <1>2, <1>3, <2>1, <2>4, SeqSame
<1>10. "append" \in ToSet(AppendFirst)
  <2>1. 1 \in DOMAIN AppendFirst  BY <1>6
  <2> QED BY <1>4, <1>7, <2>1 DEF ToSet
<1>11. "append" \notin ToSet(CleanUp)
  <2>1. DOMAIN CleanUp = {1, 2}  BY <1>2, <1>3
  <2>2. ToSet(CleanUp) = {CleanUp[i] : i \in {1, 2}}  BY <2>1 DEF ToSet
  <2>3. CleanUp[1] # "append" /\ CleanUp[2] # "append"  BY <1>4a
  <2> QED BY <2>2, <2>3
<1>12. Head(AppendFirst) = "append"  BY <1>4, <1>7, <1>8
<1> QED BY <1>1, <1>2, <1>3, <1>4a, <1>5a, <1>5b, <1>5c, <1>6, <1>8, <1>9, <1>10, <1>11, <1>12, Zenon DEF C, u, v

\* Saving or discarding a draft begins with its whole chain.
LEMMA DraftAsked == ASSUME ImInv, NEW kind \in DraftKinds, AskDraft(kind) PROVE ImInv'
<1>1. PICK old \in {{}} \cup {{d.uid} : d \in imServer.drafts} :
         /\ kind = "delete draft" => old # {}
         /\ imWork' = [NoWork EXCEPT !.kind = kind, !.ids = old,
              !.left = IF kind = "delete draft" THEN CleanUp ELSE IF old = {} THEN <<"append">> ELSE AppendFirst]
  BY DEF AskDraft
<1>2. /\ imServer' = imServer /\ imReport' = NoImapReport
      /\ imMade' = [imMade EXCEPT !.requests = @ + 1, !.draft = IF kind = "save draft" THEN @ + 1 ELSE @,
                                  !.saved = IF kind = "delete draft" THEN 0 ELSE @]
  BY DEF AskDraft
<1>3. \A uid \in old : uid \in Nat /\ uid < imServer.next  BY <1>1 DEF ImInv, ServerOK, DraftRecord
<1> DEFINE left == IF kind = "delete draft" THEN CleanUp ELSE IF old = {} THEN <<"append">> ELSE AppendFirst
<1>4. left \in Seq(AllCommands) /\ left \in {<<"append">>, AppendFirst, CleanUp, <<"expunge draft">>}  BY DraftLefts, Zenon
<1>5. left \in {CleanUp, <<"expunge draft">>} => kind = "delete draft"
  <2> SUFFICES ASSUME left \in {CleanUp, <<"expunge draft">>}, kind # "delete draft" PROVE FALSE  OBVIOUS
  <2>1. Head(left) = "append"  BY DraftLefts
  <2>2. Head(left) \in {"mark draft", "expunge draft"}  BY DraftLefts
  <2> QED BY <2>1, <2>2
<1>6. kind \in WorkKinds  BY DEF DraftKinds, WorkKinds
<1>7. imWork' = [NoWork EXCEPT !.kind = kind, !.ids = old, !.left = left]  BY <1>1
<1> HIDE DEF left
<1>8. imWork' \in WorkRecord /\ imWork'.kind = kind /\ imWork'.ids = old /\ imWork'.left = left
  <2>1. NoWork \in WorkRecord  BY NothingReported
  <2> QED BY <1>3, <1>4, <1>6, <1>7, <2>1 DEF WorkRecord
<1>9. kind = "delete draft" => imMade'.saved = 0  BY <1>2 DEF ImInv, MadeFits
<1>10. MadeFits(imMade', imServer)
  <2>1. imMade.draft \in Nat /\ imMade.saved \in Nat /\ imMade.requests \in Nat /\ imMade.saved <= imMade.draft
        /\ \A d \in imServer.drafts : d.version <= imMade.draft /\ d.version \in Nat
    BY DEF ImInv, MadeFits, ServerOK, DraftRecord
  <2> DEFINE draft == IF kind = "save draft" THEN imMade.draft + 1 ELSE imMade.draft
             saved == IF kind = "delete draft" THEN 0 ELSE imMade.saved
             requests == imMade.requests + 1
  <2>2. imMade' = [imMade EXCEPT !.requests = requests, !.draft = draft, !.saved = saved]  BY <1>2
  <2>3. draft = imMade.draft \/ draft = imMade.draft + 1  OBVIOUS
  <2>4. saved = imMade.saved \/ saved = 0  OBVIOUS
  <2>5. requests \in Nat  BY <2>1
  <2> HIDE DEF draft, saved, requests
  <2>6. draft \in Nat /\ saved \in Nat /\ saved <= draft /\ imMade.draft <= draft  BY <2>1, <2>3, <2>4
  <2>7. \A d \in imServer.drafts : d.version <= draft  BY <2>1, <2>6
  <2> QED BY <2>2, <2>4, <2>5, <2>6, <2>7 DEF ImInv, MadeFits
<1>11. DraftFits(imWork', imServer', imMade')  BY <1>2, <1>3, <1>4, <1>5, <1>8, <1>9 DEF DraftFits
<1> QED BY <1>2, <1>8, <1>10, <1>11, NothingReported DEF ImInv, WorkFits

\* What the commands of a draft do to the folder: the messages stay, and so does the new text.
LEMMA DraftGoes ==
  ASSUME ImInv, DraftFits(imWork, imServer, imMade), NEW s, s \in {imServer, Done(Head(imWork.left))}
  PROVE  /\ ServerOK(s) /\ s.copies = imServer.copies /\ imServer.next <= s.next /\ MadeFits(imMade, s)
         /\ imWork.kind = "save draft" /\ (Head(imWork.left) # "append" \/ s # imServer) => NewDraft(imWork, s, imMade)
<1> DEFINE h == Head(imWork.left)
<1>1. ServerOK(imServer) /\ imServer.next \in Nat /\ MadeFits(imMade, imServer) /\ imMade.draft \in Nat /\ imMade.saved \in Nat
      /\ imMade.saved <= imMade.draft
  BY DEF ImInv, ServerOK, MadeFits
<1>2. h \in {"append", "mark draft", "expunge draft"} /\ (h # "append" => imWork.kind = "delete draft" \/ NewDraft(imWork, imServer, imMade))
  <2>1. CASE imWork.left \in {<<"append">>, AppendFirst}  BY <2>1, DraftLefts
  <2>2. CASE imWork.left \in {CleanUp, <<"expunge draft">>}
    <3>1. h \in {"mark draft", "expunge draft"}  BY <2>2, DraftLefts
    <3> QED BY <2>2, <3>1 DEF DraftFits
  <2> QED BY <2>1, <2>2 DEF DraftFits
<1>3. CASE s = imServer
  <2>1. imServer.next <= s.next  BY <1>1, <1>3
  <2>2. imWork.kind = "save draft" /\ h # "append" => NewDraft(imWork, s, imMade)  BY <1>2, <1>3
  <2> HIDE DEF h
  <2>3. (h # "append" \/ s # imServer) => h # "append"  BY <1>3
  <2> QED BY <1>1, <1>3, <2>1, <2>2, <2>3 DEF h
<1>4. CASE h = "append" /\ s = Done(h)
  <2> DEFINE d0 == [version |-> imMade.draft, uid |-> imServer.next, deleted |-> FALSE]
  <2>1. s = [imServer EXCEPT !.drafts = @ \cup {d0}, !.next = @ + 1]  BY <1>4 DEF Done
  <2>2. s.copies = imServer.copies /\ s.drafts = imServer.drafts \cup {d0} /\ s.next = imServer.next + 1  BY <1>1, <2>1 DEF ServerOK
  <2>3. d0 \in DraftRecord /\ d0.version = imMade.draft /\ d0.uid = imServer.next /\ ~d0.deleted  BY <1>1 DEF DraftRecord
  <2> HIDE DEF d0
  <2>4. s \in [copies : SUBSET CopyRecord, drafts : SUBSET DraftRecord, next : Nat, moves : BOOLEAN]
    <3>1. imServer.next + 1 \in Nat /\ imServer.drafts \cup {d0} \in SUBSET DraftRecord  BY <1>1, <2>3 DEF ServerOK
    <3> QED BY <1>1, <2>1, <3>1 DEF ServerOK
  <2>5. \A c \in s.copies : c.uid < s.next
    <3> SUFFICES ASSUME NEW c \in imServer.copies PROVE c.uid < imServer.next + 1  BY <2>2
    <3>1. c.uid \in Nat /\ c.uid < imServer.next  BY <1>1 DEF ServerOK, CopyRecord
    <3> QED BY <1>1, <3>1
  <2>6. \A d \in s.drafts : d.uid < s.next
    <3> SUFFICES ASSUME NEW d \in s.drafts PROVE d.uid < imServer.next + 1  BY <2>2
    <3>1. CASE d \in imServer.drafts
      <4>1. d.uid \in Nat /\ d.uid < imServer.next  BY <1>1, <3>1 DEF ServerOK, DraftRecord
      <4> QED BY <1>1, <4>1
    <3>2. CASE d = d0  BY <1>1, <2>3, <3>2
    <3> QED BY <2>2, <3>1, <3>2
  <2>7. ServerOK(s)  BY <1>1, <2>2, <2>4, <2>5, <2>6 DEF ServerOK
  <2>8. NewDraft(imWork, s, imMade)
    <3>1. d0.uid \notin imWork.ids
      <4> SUFFICES ASSUME imServer.next \in imWork.ids PROVE FALSE  BY <2>3
      <4>1. imServer.next < imServer.next  BY DEF DraftFits
      <4> QED BY <1>1, <4>1
    <3> QED BY <2>2, <2>3, <3>1 DEF NewDraft
  <2>9. MadeFits(imMade, s)
    <3>1. \A d \in s.drafts : d.version <= imMade.draft  BY <1>1, <2>2, <2>3 DEF MadeFits
    <3> QED BY <1>1, <2>2, <3>1 DEF MadeFits
  <2>10. imServer.next <= s.next  BY <1>1, <2>2
  <2> QED BY <2>2, <2>7, <2>8, <2>9, <2>10
<1>5. CASE h # "append" /\ s = Done(h)
  <2> DEFINE Mark(d) == IF d.uid \in imWork.ids THEN [d EXCEPT !.deleted = TRUE] ELSE d
  <2>1. /\ s = [imServer EXCEPT !.drafts = s.drafts]
        /\ \/ s.drafts = {Mark(d) : d \in imServer.drafts}
           \/ s.drafts = {d \in imServer.drafts : ~(d.uid \in imWork.ids /\ d.deleted)}
    <3>1. CASE h = "mark draft"
      <4>1. s = [imServer EXCEPT !.drafts = {Mark(d) : d \in imServer.drafts}]  BY <1>5, <3>1 DEF Done
      <4> QED BY <1>1, <4>1 DEF ServerOK
    <3>2. CASE h = "expunge draft"
      <4>1. s = [imServer EXCEPT !.drafts = {d \in imServer.drafts : ~(d.uid \in imWork.ids /\ d.deleted)}]  BY <1>5, <3>2 DEF Done
      <4> QED BY <1>1, <4>1 DEF ServerOK
    <3> QED BY <1>2, <1>5, <3>1, <3>2
  <2>2. ASSUME NEW d \in imServer.drafts
        PROVE  Mark(d) \in DraftRecord /\ Mark(d).version = d.version /\ Mark(d).uid = d.uid /\ (d.uid \notin imWork.ids => Mark(d) = d)
    <3>1. d \in DraftRecord  BY <1>1 DEF ServerOK
    <3> QED BY <3>1 DEF DraftRecord
  <2>3. ASSUME NEW d \in s.drafts PROVE d \in DraftRecord /\ \E e \in imServer.drafts : d.version = e.version /\ d.uid = e.uid
    <3>1. imServer.drafts \subseteq DraftRecord  BY <1>1 DEF ServerOK
    <3> HIDE DEF Mark
    <3> QED BY <2>1, <2>2, <3>1
  <2>4. ASSUME NEW d \in imServer.drafts, d.uid \notin imWork.ids PROVE d \in s.drafts
    <3> HIDE DEF Mark
    <3>1. Mark(d) = d  BY <2>2, <2>4
    <3> QED BY <2>1, <2>4, <3>1
  <2>5. s.copies = imServer.copies /\ s.next = imServer.next  BY <1>1, <2>1 DEF ServerOK
  <2>6. ServerOK(s)
    <3>1. s.drafts \subseteq DraftRecord  BY <2>3
    <3>2. s \in [copies : SUBSET CopyRecord, drafts : SUBSET DraftRecord, next : Nat, moves : BOOLEAN]
      BY <1>1, <2>1, <3>1 DEF ServerOK
    <3>3. \A d \in s.drafts : d.uid < s.next  BY <1>1, <2>3, <2>5 DEF ServerOK
    <3> QED BY <1>1, <2>5, <3>2, <3>3 DEF ServerOK
  <2>7. imWork.kind = "save draft" => NewDraft(imWork, s, imMade)  BY <1>2, <1>5, <2>4 DEF NewDraft
  <2>8. imMade.saved # 0 => NewDraft(imWork, s, imMade)  BY <2>7 DEF DraftFits, DraftKinds
  <2>9. MadeFits(imMade, s)
    <3>1. \A d \in s.drafts : d.version <= imMade.draft  BY <1>1, <2>3 DEF MadeFits
    <3>2. imMade.saved # 0 => \E d \in s.drafts : d.version >= imMade.saved /\ ~d.deleted  BY <1>1, <2>8 DEF NewDraft
    <3> QED BY <1>1, <3>1, <3>2 DEF MadeFits
  <2>10. imServer.next <= s.next  BY <1>1, <2>5
  <2> QED BY <2>5, <2>6, <2>7, <2>9, <2>10
<1> QED BY <1>3, <1>4, <1>5

\* What holds of a draft request while it runs.
LEMMA DraftRuns == ASSUME ImInv, imWork.kind \in DraftKinds PROVE DraftFits(imWork, imServer, imMade) /\ imWork # NoWork /\ imReport = NoImapReport
BY KindsApart DEF ImInv, WorkFits

\* A draft request that ends leaves the folder with the text it made.
LEMMA DraftEnds ==
  ASSUME ImInv, imWork.kind \in DraftKinds, NEW s, ServerOK(s), s.copies = imServer.copies, MadeFits(imMade, s), imServer' = s,
         NEW left, NEW error, EndDraft(left, error), Appended(left) => NewDraft(imWork, s, imMade)
  PROVE  ImInv'
<1>1. /\ imReport' = [NoImapReport EXCEPT !.kind = imWork.kind, !.error = error /\ ~Appended(left)]
      /\ imMade' = (IF Appended(left) THEN [imMade EXCEPT !.saved = imMade.draft] ELSE imMade) /\ imWork' = NoWork
  BY DEF EndDraft
<1>2. imReport'.kind = imWork.kind  BY <1>1 DEF NoImapReport
<1>3. ReportFits(imReport', s) /\ SendFits(imReport', imMade')  BY <1>2, KindsApart DEF ReportFits, SendFits
<1>4. MadeFits(imMade', s)
  <2>1. CASE Appended(left)
    <3>1. /\ imMade \in [requests : Nat, foreign : Nat, draft : Nat, saved : Nat, delivered : Nat]
          /\ imMade' = [imMade EXCEPT !.saved = imMade.draft] /\ \A d \in s.drafts : d.version <= imMade.draft
      BY <1>1, <2>1 DEF MadeFits
    <3>2. PICK d \in s.drafts : d.version = imMade.draft /\ ~d.deleted  BY <2>1 DEF NewDraft
    <3>3. /\ imMade'.saved = imMade.draft /\ imMade'.draft = imMade.draft
          /\ imMade' \in [requests : Nat, foreign : Nat, draft : Nat, saved : Nat, delivered : Nat]
      BY <3>1
    <3>4. \E e \in s.drafts : e.version >= imMade'.saved /\ ~e.deleted  BY <3>1, <3>2, <3>3
    <3> QED BY <3>1, <3>3, <3>4 DEF MadeFits
  <2>2. CASE ~Appended(left)  BY <1>1, <2>2
  <2> QED BY <2>1, <2>2
<1>5. MailIn(s)  BY DEF ImInv, MailIn
<1> QED BY <1>1, <1>3, <1>4, <1>5, NothingReported DEF ImInv, WorkFits

\* A command of a draft answered: the new text is in the folder before the old one is taken away.
LEMMA DraftAnswered == ASSUME ImInv, DraftCommand PROVE ImInv'
<1> DEFINE s == Done(Head(imWork.left))
<1>1. /\ imWork.kind \in DraftKinds /\ imServer' = s
      /\ IF Len(imWork.left) = 1 THEN EndDraft(<<>>, FALSE)
         ELSE imWork' = [imWork EXCEPT !.left = Tail(@)] /\ UNCHANGED <<imReport, imMade>>
  BY DEF DraftCommand
<1>2. DraftFits(imWork, imServer, imMade) /\ imReport = NoImapReport  BY <1>1, DraftRuns
<1> HIDE DEF s
<1>3. /\ ServerOK(s) /\ s.copies = imServer.copies /\ imServer.next <= s.next /\ MadeFits(imMade, s)
      /\ imWork.kind = "save draft" => NewDraft(imWork, s, imMade)
  <2>1. s # imServer \/ Head(imWork.left) # "append"
    <3>1. Head(imWork.left) = "append" => s.next = imServer.next + 1  BY DEF s, Done, ImInv, ServerOK
    <3> QED BY <3>1 DEF ImInv, ServerOK
  <2> QED BY <1>2, <2>1, DraftGoes DEF s
<1>4. CASE Len(imWork.left) = 1
  <2>1. EndDraft(<<>>, FALSE)  BY <1>1, <1>4
  <2>2. Appended(<<>>) => NewDraft(imWork, s, imMade)  BY <1>3 DEF Appended
  <2> QED BY <1>1, <1>3, <2>1, <2>2, DraftEnds
<1>5. CASE Len(imWork.left) # 1
  <2>1. imWork' = [imWork EXCEPT !.left = Tail(@)] /\ imReport' = NoImapReport /\ imMade' = imMade  BY <1>1, <1>2, <1>5
  <2>2. /\ Tail(imWork.left) \in {CleanUp, <<"expunge draft">>}
        /\ Tail(imWork.left) \in {<<"append">>, AppendFirst, CleanUp, <<"expunge draft">>}
        /\ Tail(imWork.left) \in Seq(AllCommands)
    <3>1. imWork.left = AppendFirst \/ imWork.left = CleanUp  BY <1>2, <1>5, DraftLefts DEF DraftFits
    <3>2. Tail(imWork.left) \in {CleanUp, <<"expunge draft">>}  BY <3>1, DraftLefts, Zenon
    <3> QED BY <3>2, DraftLefts, Zenon
  <2>3. imWork \in WorkRecord  BY DEF ImInv
  <2>4. imWork' \in WorkRecord /\ imWork'.kind = imWork.kind /\ imWork'.ids = imWork.ids /\ imWork'.left = Tail(imWork.left)
    BY <2>1, <2>2, <2>3 DEF WorkRecord
  <2>5. DraftFits(imWork', s, imMade')
    <3>1. \A uid \in imWork.ids : uid < s.next
      <4> SUFFICES ASSUME NEW uid \in imWork.ids PROVE uid < s.next  OBVIOUS
      <4>1. uid \in Nat /\ uid < imServer.next  BY <1>2 DEF DraftFits
      <4>2. imServer.next \in Nat /\ s.next \in Nat  BY <1>3 DEF ImInv, ServerOK
      <4>3. imServer.next <= s.next  BY <1>3
      <4> QED BY <4>1, <4>2, <4>3
    <3>2. imWork.kind \in {"save draft", "delete draft"} /\ imWork.ids \subseteq Nat /\ (imWork.kind = "delete draft" => imMade.saved = 0)
      BY <1>2 DEF DraftFits, DraftKinds
    <3> QED BY <1>1, <1>3, <2>1, <2>2, <2>4, <3>1, <3>2 DEF DraftFits, NewDraft
  <2>6. MailIn(s)  BY <1>3 DEF ImInv, MailIn
  <2> QED BY <1>1, <1>3, <2>1, <2>4, <2>5, <2>6, NothingReported DEF ImInv, WorkFits
<1> QED BY <1>4, <1>5

\* A command of a draft that fails, done by the server or not, leaves a text of the draft in the folder.
LEMMA DraftFailed == ASSUME ImInv, NEW done \in BOOLEAN, DraftFails(done) PROVE ImInv'
<1> DEFINE s == IF done THEN Done(Head(imWork.left)) ELSE imServer
<1>1. imWork.kind \in DraftKinds /\ imServer' = s /\ EndDraft(imWork.left, TRUE)  BY DEF DraftFails
<1>2. DraftFits(imWork, imServer, imMade)  BY <1>1, DraftRuns
<1>3. s \in {imServer, Done(Head(imWork.left))}  OBVIOUS
<1> HIDE DEF s
<1>4. /\ ServerOK(s) /\ s.copies = imServer.copies /\ MadeFits(imMade, s)
      /\ imWork.kind = "save draft" /\ Head(imWork.left) # "append" => NewDraft(imWork, s, imMade)
  BY <1>2, <1>3, DraftGoes
<1>5. Appended(imWork.left) => NewDraft(imWork, s, imMade)
  <2> SUFFICES ASSUME Appended(imWork.left) PROVE NewDraft(imWork, s, imMade)  OBVIOUS
  <2>1. imWork.kind = "save draft" /\ imWork.left \in {CleanUp, <<"expunge draft">>}  BY <1>2, DraftLefts DEF DraftFits, Appended
  <2>2. Head(imWork.left) # "append"  BY <2>1, DraftLefts
  <2> QED BY <1>4, <2>1, <2>2
<1> QED BY <1>1, <1>4, <1>5, DraftEnds

------------------------------------
\* A sending begins with nothing sent.
LEMMA SendAsked == ASSUME ImInv, AskSend PROVE ImInv'
<1>1. /\ imWork' = [NoWork EXCEPT !.kind = "envelope"] /\ imReport' = NoImapReport /\ imServer' = imServer
      /\ imMade' = [imMade EXCEPT !.requests = @ + 1, !.delivered = 0]
  BY DEF AskSend
<1>2. imWork' \in WorkRecord /\ imWork'.kind = "envelope" /\ "envelope" \in WorkKinds
  BY <1>1, NothingReported DEF NoWork, WorkKinds
<1>3. MadeFits(imMade', imServer) /\ imMade'.delivered = 0
  <2>1. PICK requests \in Nat : requests = imMade.requests + 1  BY DEF ImInv, MadeFits
  <2>2. imMade' = [imMade EXCEPT !.requests = requests, !.delivered = 0]  BY <1>1, <2>1
  <2> QED BY <2>2 DEF ImInv, MadeFits
<1>4. WorkFits(imWork', imServer', imMade')  BY <1>2, <1>3 DEF WorkFits, SendKinds
<1> QED BY <1>1, <1>2, <1>3, <1>4, NothingReported DEF ImInv

\* A step of a send: it goes on with a kind the deliveries allow, or it is answered so.
LEMMA SendStep ==
  ASSUME ImInv, imWork.kind \in SendKinds, imServer' = imServer, MadeFits(imMade', imServer),
         \/ \E kind \in SendKinds : SendAt(kind) /\ imMade'.delivered = (IF kind \in {"replied", "sent"} THEN 1 ELSE 0)
         \/ \E answer \in {"sent", "not sent", "delivery unknown"} :
               /\ TellSmtp(answer)
               /\ (answer = "not sent" => imMade'.delivered = 0) /\ (answer = "sent" => imMade'.delivered = 1)
  PROVE  ImInv'
<1>1. imReport = NoImapReport  BY KindsApart DEF ImInv
<1>2. CASE \E kind \in SendKinds : SendAt(kind) /\ imMade'.delivered = (IF kind \in {"replied", "sent"} THEN 1 ELSE 0)
  <2>1. PICK kind \in SendKinds : SendAt(kind) /\ imMade'.delivered = (IF kind \in {"replied", "sent"} THEN 1 ELSE 0)  BY <1>2
  <2>2. kind \in WorkKinds /\ imWork' = [NoWork EXCEPT !.kind = kind] /\ imReport' = NoImapReport
    BY <1>1, <2>1, KindsApart DEF SendAt
  <2>3. imWork' \in WorkRecord /\ imWork'.kind = kind  BY <2>2, NothingReported DEF NoWork
  <2>4. WorkFits(imWork', imServer', imMade')  BY <2>1, <2>3 DEF WorkFits
  <2> QED BY <2>2, <2>3, <2>4, NothingReported DEF ImInv
<1>3. CASE \E answer \in {"sent", "not sent", "delivery unknown"} :
               /\ TellSmtp(answer)
               /\ (answer = "not sent" => imMade'.delivered = 0) /\ (answer = "sent" => imMade'.delivered = 1)
  <2>1. PICK answer \in {"sent", "not sent", "delivery unknown"} :
               /\ TellSmtp(answer)
               /\ (answer = "not sent" => imMade'.delivered = 0) /\ (answer = "sent" => imMade'.delivered = 1)
    BY <1>3
  <2>2. imWork' = NoWork /\ imReport'.kind = answer  BY <2>1 DEF TellSmtp, NoImapReport
  <2>3. SendFits(imReport', imMade')  BY <2>1, <2>2 DEF SendFits
  <2>4. ReportFits(imReport', imServer')  BY <2>1, <2>2, KindsApart DEF ReportFits
  <2> QED BY <2>2, <2>3, <2>4, NothingReported DEF ImInv, WorkFits
<1> QED BY <1>2, <1>3

\* A message was delivered once its data was taken, and never before.
LEMMA SendRuns == ASSUME ImInv, imWork.kind \in SendKinds PROVE imMade.delivered = IF imWork.kind \in {"replied", "sent"} THEN 1 ELSE 0
BY KindsApart DEF ImInv, WorkFits, DraftFits

\* The envelope goes, or is refused before any data.
LEMMA EnvelopeWent == ASSUME ImInv, EnvelopeGoes PROVE ImInv'
<1>1. /\ imWork.kind = "envelope" /\ imWork.kind \in SendKinds /\ imServer' = imServer /\ imMade' = imMade
      /\ SendAt("message") \/ TellSmtp("not sent") \/ TellSmtp("delivery unknown")
  BY DEF EnvelopeGoes, SendKinds
<1>2. imMade.delivered = 0 /\ MadeFits(imMade, imServer)  BY <1>1, SendRuns DEF ImInv
<1>3. "message" \in SendKinds  BY DEF SendKinds
<1> QED BY <1>1, <1>2, <1>3, SendStep

\* The message goes; its answer may be lost.
LEMMA MessageWent == ASSUME ImInv, NEW delivered \in BOOLEAN, MessageGoes(delivered) PROVE ImInv'
<1>1. /\ imWork.kind = "message" /\ imWork.kind \in SendKinds /\ imServer' = imServer
      /\ imMade' = [imMade EXCEPT !.delivered = IF delivered THEN @ + 1 ELSE @]
      /\ SendAt(IF delivered THEN "replied" ELSE "refused") \/ TellSmtp("delivery unknown")
  BY DEF MessageGoes, SendKinds
<1>2. imMade.delivered = 0  BY <1>1, SendRuns
<1>3. MadeFits(imMade', imServer) /\ imMade'.delivered = IF delivered THEN 1 ELSE 0
  <2>1. PICK n \in {0, 1} : n = IF delivered THEN imMade.delivered + 1 ELSE imMade.delivered  BY <1>2
  <2>2. n \in Nat /\ n = IF delivered THEN 1 ELSE 0  BY <1>2, <2>1
  <2>3. imMade' = [imMade EXCEPT !.delivered = n]
    <3>1. CASE delivered  BY <1>1, <2>1, <3>1
    <3>2. CASE ~delivered  BY <1>1, <2>1, <3>2
    <3> QED BY <3>1, <3>2
  <2> QED BY <2>2, <2>3 DEF ImInv, MadeFits
<1>4. "replied" \in SendKinds /\ "refused" \in SendKinds  BY DEF SendKinds
<1> QED BY <1>1, <1>3, <1>4, SendStep

\* The answer to the data comes, or is lost: then the delivery is not known.
LEMMA ReplyCame == ASSUME ImInv, ReplyComes PROVE ImInv'
<1>1. /\ imWork.kind \in {"replied", "refused"} /\ imWork.kind \in SendKinds /\ imServer' = imServer /\ imMade' = imMade
      /\ (imWork.kind = "replied" /\ SendAt("sent")) \/ TellSmtp("delivery unknown")
  BY DEF ReplyComes, SendKinds, AfterData
<1>2. imMade.delivered = (IF imWork.kind = "replied" THEN 1 ELSE 0) /\ MadeFits(imMade, imServer)  BY <1>1, SendRuns DEF ImInv
<1>3. "sent" \in SendKinds  BY DEF SendKinds
<1> QED BY <1>1, <1>2, <1>3, SendStep

\* The Sent copy, made or failed, ends a sending that was delivered.
LEMMA SentFiled == ASSUME ImInv, SentCopy PROVE ImInv'
<1>1. imWork.kind = "sent" /\ imWork.kind \in SendKinds /\ imServer' = imServer /\ imMade' = imMade /\ TellSmtp("sent")
  BY DEF SentCopy, SendKinds
<1>2. imMade.delivered = 1 /\ MadeFits(imMade, imServer)  BY <1>1, SendRuns DEF ImInv
<1> QED BY <1>1, <1>2, SendStep

------------------------------------
\* Every step keeps the invariant of the changes.
LEMMA ImapChangesStep == ASSUME ImInv, [ImapChangesNext]_changeVars PROVE ImInv'
<1>1. CASE UNCHANGED changeVars  BY <1>1 DEF changeVars, ImInv
<1>2. CASE ImapChangesNext
  BY <1>2, ChangeAsked, ChainAnswered, ChangeFails, ForeignMoved, DraftAsked, DraftAnswered, DraftFailed,
     SendAsked, EnvelopeWent, MessageWent, ReplyCame, SentFiled DEF ImapChangesNext
<1> QED BY <1>1, <1>2

\* The invariant of the changes holds what a reader is told.
LEMMA ImInvSafe == ImInv => ImapChangesAreSafe
<1> SUFFICES ASSUME ImInv PROVE ImapChangesAreSafe  OBVIOUS
<1>1. ImapMailKept  BY DEF ImInv, MailIn, ImapMailKept
<1>2. ImapReportTrue
  <2> SUFFICES ASSUME imReport.kind \in KindNames
               PROVE  /\ \A id \in imReport.succeeded, c \in imServer.copies : IdOf(c) = id =>
                            /\ ImapPlan[imReport.kind].to \in {"", id.box}
                            /\ "seen" \in ImapPlan[imReport.kind].add => c.seen
                            /\ "seen" \in ImapPlan[imReport.kind].remove => ~c.seen
                      /\ ~imReport.error => imReport.failed = {}
    BY KindsAre DEF ImapReportTrue
  <2>1. /\ \A id \in imReport.succeeded, c \in imServer.copies : IdOf(c) = id => ImapDone(imReport.kind, c)
        /\ ~imReport.error => imReport.failed = {}
    BY DEF ImInv, ReportFits
  <2>2. ASSUME NEW id \in imReport.succeeded, NEW c \in imServer.copies, IdOf(c) = id
        PROVE  /\ ImapPlan[imReport.kind].to \in {"", id.box}
               /\ "seen" \in ImapPlan[imReport.kind].add => c.seen
               /\ "seen" \in ImapPlan[imReport.kind].remove => ~c.seen
    <3>1. IdOf(c).box = c.box  BY DEF IdOf
    <3> QED BY <2>1, <2>2, <3>1 DEF ImapDone
  <2> QED BY <2>1, <2>2
<1>3. ImapDraftKept  BY DEF ImInv, MadeFits, ImapDraftKept
<1>4. ImapSendTrue  BY DEF ImInv, SendFits, ImapSendTrue
<1> QED BY <1>1, <1>2, <1>3, <1>4 DEF ImapChangesAreSafe

(* Whatever a server refuses or an answer loses, every message keeps a copy that is not marked for deletion, what
   change_messages reports as succeeded is done, a saved draft is in its folder, and "sent" and "not sent" are true. *)
THEOREM ImapChangesHold == ImapChangesSpec => []ImapChangesAreSafe
BY ChangesBegin, ImapChangesStep, ImInvSafe, PTL DEF ImapChangesSpec

------------------------------------
(* Pages and summaries: the rows of a set of UIDs, the invariant and its steps. *)

\* The rows of a page: what was found from the newest, as far as the page goes.
Falls(lines) == \A i, j \in 1..Len(lines) : i < j => lines[i] > lines[j]
FoundUids(S) == S \subseteq 1..MaxUid

\* A set of UIDs is a finite set of numbers.
LEMMA UidsAre ==
  ASSUME NEW S, FoundUids(S)
  PROVE  IsFiniteSet(S) /\ S \subseteq Nat /\ Cardinality(S) \in Nat
<1>1. MaxUid \in Nat  BY PageAssumption
<1>2. IsFiniteSet(1..MaxUid) /\ 1..MaxUid \subseteq Nat  BY <1>1, FS_Interval
<1> QED BY <1>2, FS_Subset, FS_CardinalityType DEF FoundUids

\* The rows of a page: the newest that were found, from the newest; one that is left out is older than the last of a full page.
LEMMA RowsAre ==
  ASSUME NEW S, FoundUids(S)
  PROVE  LET lines == ImapRowsFor(S) IN
         /\ lines \in Seq(1..MaxUid) /\ Falls(lines) /\ Len(lines) \in Nat
         /\ Len(lines) <= Cardinality(S)
         /\ \A i \in 1..Len(lines) : lines[i] \in S /\ Cardinality({v \in S : v > lines[i]}) = i - 1
         /\ Len(lines) < PageLimit => Len(lines) = Cardinality(S)
         /\ Len(lines) < PageLimit => \A u \in S : \E i \in 1..Len(lines) : lines[i] = u
         /\ \A u \in S : (\E i \in 1..Len(lines) : lines[i] = u) \/ (Len(lines) >= PageLimit /\ u < lines[Len(lines)])
<1> DEFINE n == Cardinality(S)
           f == Falling(S)
           m == IF Len(f) < PageLimit THEN Len(f) ELSE PageLimit
           lines == ImapRowsFor(S)
<1>1. n \in Nat /\ S \subseteq Nat /\ PageLimit \in Nat /\ PageLimit # 0  BY UidsAre, PageAssumption
<1>2. /\ f \in [1..n -> S] /\ \A i \in 1..n : Cardinality({v \in S : v > f[i]}) = i - 1
      /\ \A i, j \in 1..n : i < j => f[i] > f[j]
      /\ \A u \in S : \E i \in 1..n : f[i] = u
  BY UidsAre, FallingIs
<1>3. lines = SubSeq(f, 1, m)  BY DEF ImapRowsFor
<1> HIDE DEF n, f, lines
<1>4. f \in Seq(S) /\ Len(f) = n  BY <1>1, <1>2, FunIsSeq
<1>5. m \in Nat /\ m <= n /\ (m < PageLimit => m = n) /\ m <= PageLimit  BY <1>1, <1>4
<1> HIDE DEF m
<1>6. lines \in Seq(S) /\ Len(lines) = m /\ \A i \in 1..m : lines[i] = f[i]  BY <1>3, <1>4, <1>5, CutIs
<1>7. lines \in Seq(1..MaxUid)  BY <1>6, SeqWider DEF FoundUids
<1>8. \A i \in 1..m : i \in 1..n  BY <1>1, <1>5
<1>9. Falls(lines)  BY <1>2, <1>6, <1>8 DEF Falls
<1>10. ASSUME NEW i \in 1..m PROVE lines[i] \in S /\ Cardinality({v \in S : v > lines[i]}) = i - 1
  <2>1. lines[i] = f[i] /\ i \in 1..n  BY <1>6, <1>8
  <2> QED BY <1>2, <2>1
<1>11. ASSUME NEW u \in S PROVE (\E i \in 1..m : lines[i] = u) \/ (m >= PageLimit /\ u < lines[m])
  <2>1. PICK i \in 1..n : f[i] = u  BY <1>2
  <2>2. CASE i <= m
    <3>1. i \in 1..m  BY <1>1, <1>5, <2>2
    <3> QED BY <1>6, <2>1, <3>1
  <2>3. CASE i > m
    <3>1. m = PageLimit /\ m \in 1..m /\ m \in 1..n /\ m < i  BY <1>1, <1>5, <2>3
    <3>2. lines[m] = f[m] /\ f[m] > f[i]  BY <1>2, <1>6, <3>1
    <3>3. lines[m] \in Nat /\ u \in Nat  BY <1>1, <1>10, <3>1
    <3>4. u < lines[m]  BY <2>1, <3>2, <3>3
    <3>5. m >= PageLimit  BY <1>1, <3>1
    <3> QED BY <3>4, <3>5
  <2> QED BY <1>1, <1>5, <2>2, <2>3
<1>12. m < PageLimit => m = n /\ \A u \in S : \E i \in 1..m : lines[i] = u
  <2> SUFFICES ASSUME m < PageLimit PROVE m = n /\ \A u \in S : \E i \in 1..m : lines[i] = u  OBVIOUS
  <2>1. ~(m >= PageLimit)  BY <1>1, <1>5
  <2> QED BY <1>5, <1>11, <2>1
<1> QED BY <1>5, <1>6, <1>7, <1>9, <1>10, <1>11, <1>12 DEF lines, n

\* Rows that are all newer than a ceiling stay first when older ones are found.
LEMMA RowsBegin ==
  ASSUME NEW S, FoundUids(S), NEW c \in Nat
  PROVE  IsPrefix(ImapRowsFor({u \in S : u > c}), ImapRowsFor(S))
<1> DEFINE S0 == {u \in S : u > c}
           p == ImapRowsFor(S0)
           lines == ImapRowsFor(S)
<1>1. FoundUids(S0) /\ S0 \in SUBSET S  BY DEF FoundUids
<1>2. IsFiniteSet(S) /\ S \subseteq Nat /\ PageLimit \in Nat /\ Cardinality(S0) <= Cardinality(S)
      /\ Cardinality(S) \in Nat /\ Cardinality(S0) \in Nat
  BY <1>1, UidsAre, FS_Subset, PageAssumption
<1>2a. p \in Seq(1..MaxUid) /\ lines \in Seq(1..MaxUid) /\ Len(p) \in Nat /\ Len(lines) \in Nat  BY <1>1, RowsAre
<1>3. Len(p) <= Cardinality(S0) /\ (Len(lines) < PageLimit => Len(lines) = Cardinality(S)) /\ Len(p) <= PageLimit
  <2>1. Len(p) <= PageLimit
    <3> DEFINE f == Falling(S0)
    <3>1. f \in [1..Cardinality(S0) -> S0]  BY <1>1, UidsAre, FallingIs
    <3> HIDE DEF f
    <3>2. f \in Seq(S0) /\ Len(f) \in Nat  BY <1>2, <3>1, FunIsSeq
    <3> DEFINE m == IF Len(f) < PageLimit THEN Len(f) ELSE PageLimit
    <3>3. m \in Nat /\ m <= Len(f) /\ m <= PageLimit  BY <1>2, <3>2
    <3>4. p = SubSeq(f, 1, m)  BY DEF ImapRowsFor, f
    <3> HIDE DEF m, p
    <3> QED BY <3>2, <3>3, <3>4, CutIs
  <2> QED BY <1>1, <2>1, RowsAre
<1>4. Len(p) <= Len(lines)
  <2> HIDE DEF p, lines, S0
  <2> QED BY <1>2, <1>2a, <1>3
<1>5. ASSUME NEW i \in 1..Len(p) PROVE p[i] = lines[i]
  <2>1. p[i] \in S0 /\ Cardinality({v \in S0 : v > p[i]}) = i - 1  BY <1>1, RowsAre
  <2>2. {v \in S0 : v > p[i]} = {v \in S : v > p[i]}
    <3>1. p[i] \in Nat /\ p[i] > c  BY <1>2, <2>1
    <3>2. \A v \in S : v > p[i] => v > c  BY <1>2, <3>1
    <3> QED BY <3>2
  <2>3. PICK j \in 1..Cardinality(S) : Falling(S)[j] = p[i]  BY <1>2, <2>1, FallingIs
  <2>4. Cardinality({v \in S : v > p[i]}) = j - 1  BY <1>2, <2>3, FallingIs
  <2>5. i \in Nat /\ j \in Nat  BY <1>2, <1>2a
  <2>6. j = i
    <3>1. i - 1 = j - 1  BY <2>1, <2>2, <2>4
    <3> HIDE DEF p
    <3> QED BY <2>5, <3>1
  <2>7. i \in 1..Len(lines)  BY <1>2a, <1>4
  <2>8. lines[i] = Falling(S)[i]
    <3> DEFINE f == Falling(S)
               m == IF Len(f) < PageLimit THEN Len(f) ELSE PageLimit
    <3>1. f \in [1..Cardinality(S) -> S]  BY <1>2, FallingIs
    <3>2. lines = SubSeq(f, 1, m)  BY DEF ImapRowsFor
    <3> HIDE DEF f
    <3>3. f \in Seq(S) /\ Len(f) \in Nat  BY <1>2, <3>1, FunIsSeq
    <3>4. m \in Nat /\ m <= Len(f)  BY <1>2, <3>3
    <3> HIDE DEF m, lines
    <3>5. Len(lines) = m /\ \A k \in 1..m : lines[k] = f[k]  BY <3>2, <3>3, <3>4, CutIs
    <3>6. lines[i] = f[i]  BY <2>7, <3>5
    <3> QED BY <3>6 DEF f
  <2> QED BY <2>3, <2>6, <2>8
<1> HIDE DEF p, lines, S0
<1>6. SubSeq(p, 1, Len(p)) = SubSeq(lines, 1, Len(p))
  <2>1. SubSeq(p, 1, Len(p)) \in Seq(1..MaxUid) /\ Len(SubSeq(p, 1, Len(p))) = Len(p) /\ \A i \in 1..Len(p) : SubSeq(p, 1, Len(p))[i] = p[i]
    <3>1. Len(p) <= Len(p)  BY <1>2a
    <3> QED BY <1>2a, <3>1, CutIs
  <2>2. SubSeq(lines, 1, Len(p)) \in Seq(1..MaxUid) /\ Len(SubSeq(lines, 1, Len(p))) = Len(p) /\ \A i \in 1..Len(p) : SubSeq(lines, 1, Len(p))[i] = lines[i]
    BY <1>2a, <1>4, CutIs
  <2> DEFINE s == SubSeq(p, 1, Len(p))
             t == SubSeq(lines, 1, Len(p))
  <2>3. \A i \in 1..Len(s) : s[i] = t[i]  BY <1>5, <2>1, <2>2
  <2>4. s \in Seq(1..MaxUid) /\ t \in Seq(1..MaxUid) /\ Len(s) = Len(t)  BY <2>1, <2>2
  <2> HIDE DEF s, t
  <2>5. s = t  BY <2>3, <2>4
  <2> QED BY <2>5 DEF s, t
<1> QED BY <1>4, <1>6 DEF IsPrefix, p, lines, S0

\* A chunk takes the newest UIDs that are left, one at least.
LEMMA ChunkIs ==
  ASSUME NEW left, FoundUids(left), left # {}
  PROVE  LastChunk(left) \subseteq left /\ LastChunk(left) # {}
<1> DEFINE n == Cardinality(left)
           f == Rising(left)
           from == ((n - 1) \div Window) * Window
<1>1. n \in Nat /\ Window \in Nat /\ Window > 0 /\ IsFiniteSet(left) /\ left \subseteq Nat  BY UidsAre, PageAssumption
<1>2. /\ f \in [1..n -> left] /\ \A i \in 1..n : Cardinality({v \in left : v < f[i]}) = i - 1
      /\ \A u \in left : \E i \in 1..n : f[i] = u
  BY <1>1, RisingIs
<1> HIDE DEF n, f
<1>3. n \in 1..n
  <2>1. PICK u \in left, i \in 1..n : f[i] = u  BY <1>2
  <2> QED BY <1>1, <2>1
<1>4. n - 1 >= from  BY <1>1, <1>3
<1>5. f[n] \in left /\ Cardinality({v \in left : v < f[n]}) = n - 1  BY <1>2, <1>3
<1>6. LastChunk(left) = {u \in left : Cardinality({v \in left : v < u}) >= from}  BY DEF LastChunk, n
<1> HIDE DEF from
<1>7. f[n] \in LastChunk(left)  BY <1>4, <1>5, <1>6
<1> QED BY <1>6, <1>7

PageUids == SUBSET (1..MaxUid)
ListRecord == [at : {"idle", "window", "token", "scan", "chunks"}, found : PageUids, ceiling : Nat, left : PageUids, since : PageUids]
PageRecord == [rows : Seq(1..MaxUid), settled : BOOLEAN, warning : BOOLEAN, since : PageUids]
SummaryRecord == [at : {"idle", "batch", "ordered", "over"}, ids : Seq(1..MaxUid), offset : Nat, got : PageUids,
               rows : Seq(1..MaxUid), warning : BOOLEAN]
\* The mail that a listing must not skip.
Due(since, gone) == (since \cap Matching) \ gone
ListingFits(call, partial, uids, gone) ==
    /\ call \in ListRecord /\ partial \in Seq(1..MaxUid) /\ call.found \subseteq uids \cup gone
    /\ call.at # "idle" => call.since \subseteq uids \cup gone
    /\ call.at = "window" => call.left # {} /\ call.left = call.since
    /\ call.at \in {"token", "scan", "chunks"} =>
          /\ partial = ImapRowsFor({u \in call.found : u > call.ceiling})
          /\ \A u \in Due(call.since, gone) : u > call.ceiling => u \in call.found
    /\ call.at = "chunks" => /\ \A u \in call.left : u <= call.ceiling
                             /\ Due(call.since, gone) \subseteq call.found \cup call.left
HasRow(lines, u) == \E i \in 1..Len(lines) : lines[i] = u
PageFits(page, partial, uids, gone) ==
    /\ page \in PageRecord /\ Falls(page.rows) /\ \A i \in 1..Len(page.rows) : page.rows[i] \in uids \cup gone
    /\ page.settled => IsPrefix(partial, page.rows)
    /\ page.settled /\ ~page.warning => \A u \in Due(page.since, gone) :
          HasRow(page.rows, u) \/ (Len(page.rows) >= PageLimit /\ u < page.rows[Len(page.rows)])
EndOf(rd) == IF rd.offset + BatchSize < Len(rd.ids) THEN rd.offset + BatchSize ELSE Len(rd.ids)
ReadFits(rd, uids, gone) ==
    /\ rd \in SummaryRecord /\ Falls(rd.ids) /\ rd.offset <= Len(rd.ids)
    /\ \A k \in 1..Len(rd.ids) : rd.ids[k] \in uids \cup gone
    /\ \A n \in 1..Len(rd.rows) : \E k \in 1..rd.offset : rd.rows[n] = rd.ids[k]
    /\ \A m, n \in 1..Len(rd.rows), k, l \in 1..rd.offset : m < n /\ rd.rows[m] = rd.ids[k] /\ rd.rows[n] = rd.ids[l] => k < l
    /\ rd.at = "batch" => ~rd.warning
    /\ ~rd.warning => \A k \in 1..rd.offset : rd.ids[k] \in gone \/ HasRow(rd.rows, rd.ids[k])
    /\ rd.at = "ordered" /\ ~rd.warning => \A k \in rd.offset + 1..EndOf(rd) : rd.ids[k] \in rd.got \cup gone
    /\ rd.at = "over" /\ ~rd.warning => rd.offset = Len(rd.ids)
PagesInv == /\ FoundUids(ipUids) /\ FoundUids(ipGone)
            /\ ListingFits(ipCall, ipPartial, ipUids, ipGone) /\ PageFits(ipPage, ipPartial, ipUids, ipGone)
            /\ ReadFits(ipRead, ipUids, ipGone)

\* The empty list of rows.
LEMMA NoRows == /\ <<>> \in Seq(1..MaxUid) /\ Len(<<>>) = 0 /\ Falls(<<>>) /\ \A lines \in Seq(1..MaxUid) : IsPrefix(<<>>, lines) /\ IsPrefix(lines, lines)
<1>1. <<>> \in Seq(1..MaxUid) /\ Len(<<>>) = 0  OBVIOUS
<1>2. Falls(<<>>)  BY <1>1 DEF Falls
<1>3. ASSUME NEW lines \in Seq(1..MaxUid) PROVE IsPrefix(<<>>, lines) /\ IsPrefix(lines, lines)
  <2>1. Len(lines) \in Nat /\ Len(lines) <= Len(lines) /\ 0 <= Len(lines)  OBVIOUS
  <2>2. IsPrefix(lines, lines)  BY <2>1 DEF IsPrefix
  <2>3. SubSeq(<<>>, 1, 0) = <<>> /\ SubSeq(lines, 1, 0) = <<>>  OBVIOUS
  <2> QED BY <1>1, <2>1, <2>2, <2>3 DEF IsPrefix
<1> QED BY <1>1, <1>2, <1>3

\* Of no UIDs there are no rows.
LEMMA NoneFound == ImapRowsFor({}) = <<>>
<1> DEFINE lines == ImapRowsFor({})
<1>1. FoundUids({})  BY DEF FoundUids
<1>2. lines \in Seq(1..MaxUid) /\ Len(lines) \in Nat /\ Len(lines) <= Cardinality({})  BY <1>1, RowsAre
<1>3. Cardinality({}) = 0  BY FS_EmptySet
<1> HIDE DEF lines
<1>4. Len(lines) = 0  BY <1>2, <1>3
<1>5. lines = <<>>  BY <1>2, <1>4
<1> QED BY <1>5 DEF lines

\* At first nothing is listed.
LEMMA PagesBegin == ImapPagesInit => PagesInv
<1> SUFFICES ASSUME ImapPagesInit PROVE PagesInv  OBVIOUS
<1>1. ipUids = FirstUids /\ ipGone = {} /\ ipCall = NoListing /\ ipPartial = <<>> /\ ipPage = NoImapPage /\ ipRead = NoRead
  BY DEF ImapPagesInit
<1>2. FirstUids \subseteq 1..MaxUid /\ MaxUid \in Nat  BY PageAssumption
<1>3. FoundUids(ipUids) /\ FoundUids(ipGone)  BY <1>1, <1>2 DEF FoundUids
<1>4. ListingFits(ipCall, ipPartial, ipUids, ipGone)  BY <1>1, <1>2, NoRows DEF ListingFits, NoListing, ListRecord, PageUids
<1>5. PageFits(ipPage, ipPartial, ipUids, ipGone)  BY <1>1, NoRows DEF PageFits, NoImapPage, PageRecord, PageUids
<1>6. ReadFits(ipRead, ipUids, ipGone)
  <2>1. NoRead \in SummaryRecord  BY NoRows DEF NoRead, SummaryRecord, PageUids
  <2>2. NoRead.ids = <<>> /\ NoRead.rows = <<>> /\ NoRead.offset = 0 /\ NoRead.at = "idle"  BY DEF NoRead
  <2> QED BY <1>1, <2>1, <2>2, NoRows DEF ReadFits
<1> QED BY <1>3, <1>4, <1>5, <1>6 DEF PagesInv

\* Mail comes and goes: what was in the folder is there or gone.
LEMMA MailChanges ==
  ASSUME PagesInv, FoundUids(ipUids'), FoundUids(ipGone'), ipUids \cup ipGone \subseteq ipUids' \cup ipGone', ipGone \subseteq ipGone',
         UNCHANGED <<ipCall, ipPartial, ipPage, ipRead>>
  PROVE  PagesInv'
<1>1. \A since : Due(since, ipGone') \subseteq Due(since, ipGone)  BY DEF Due
<1>2. ListingFits(ipCall, ipPartial, ipUids', ipGone')  BY <1>1 DEF PagesInv, ListingFits
<1>3. PageFits(ipPage, ipPartial, ipUids', ipGone')  BY <1>1 DEF PagesInv, PageFits
<1>4. ReadFits(ipRead, ipUids', ipGone')  BY DEF PagesInv, ReadFits
<1> QED BY <1>2, <1>3, <1>4 DEF PagesInv

\* A message arrives with a UID above all that the folder ever had.
LEMMA MailArrives == ASSUME PagesInv, NEW u \in 1..MaxUid, MessageArrives(u) PROVE PagesInv'
BY MailChanges DEF MessageArrives, PagesInv, FoundUids

\* A message that is expunged is gone for good.
LEMMA MailExpunged == ASSUME PagesInv, NEW u \in 1..MaxUid, MessageExpunged(u) PROVE PagesInv'
BY MailChanges DEF MessageExpunged, PagesInv, FoundUids

\* A listing begins with the folder as it is.
LEMMA ListingStarts == ASSUME PagesInv, NEW progressive \in BOOLEAN, StartList(progressive) PROVE PagesInv'
<1>1. /\ ipCall' = [NoListing EXCEPT !.at = IF ipUids = {} \/ ~progressive THEN "scan" ELSE "window",
                                     !.ceiling = MaxUid, !.left = ipUids, !.since = ipUids]
      /\ ipPartial' = <<>> /\ ipPage' = NoImapPage /\ UNCHANGED <<ipUids, ipGone, ipRead>>
  BY DEF StartList
<1>2. FoundUids(ipUids) /\ MaxUid \in Nat  BY PageAssumption DEF PagesInv
<1>3. /\ ipCall' \in ListRecord /\ ipCall'.found = {} /\ ipCall'.ceiling = MaxUid /\ ipCall'.left = ipUids /\ ipCall'.since = ipUids
      /\ ipCall'.at = IF ipUids = {} \/ ~progressive THEN "scan" ELSE "window"
  BY <1>1, <1>2 DEF NoListing, ListRecord, PageUids, FoundUids
<1>4. {u \in ipCall'.found : u > ipCall'.ceiling} = {}  BY <1>3
<1>5. \A u \in ipUids : ~(u > MaxUid)  BY <1>2 DEF FoundUids
<1>6. ipCall'.at \in {"scan", "window"} /\ (ipCall'.at = "window" => ipUids # {})  BY <1>3
<1>7. ListingFits(ipCall', ipPartial', ipUids, ipGone)  BY <1>1, <1>3, <1>4, <1>5, <1>6, NoRows, NoneFound DEF ListingFits, Due
<1>8. PageFits(ipPage', ipPartial', ipUids, ipGone)  BY <1>1, NoRows DEF PageFits, NoImapPage, PageRecord, PageUids
<1> QED BY <1>1, <1>7, <1>8 DEF PagesInv

\* The newest window: it settles the page when it is full or reaches the oldest UID, else its rows wait under a ceiling.
LEMMA WindowAsked == ASSUME PagesInv, AskWindow PROVE PagesInv'
<1> DEFINE top   == Max(ipCall.left)
           first == FirstOf(top)
           found == Search(first, top)
           lines  == ImapRowsFor(found)
           done  == Len(lines) >= PageLimit \/ first = 1
<1>1. /\ ipCall.at = "window"
      /\ ipCall' = IF done THEN NoListing
                   ELSE [ipCall EXCEPT !.at = "token", !.found = found, !.ceiling = Ceiling(first), !.left = {}]
      /\ ipPartial' = IF done THEN <<>> ELSE lines
      /\ ipPage' = [NoImapPage EXCEPT !.rows = lines, !.settled = done, !.since = ipCall.since]
      /\ UNCHANGED <<ipUids, ipGone, ipRead>>
  BY DEF AskWindow
<1>2. /\ ipCall \in ListRecord /\ ipCall.left # {} /\ ipCall.left = ipCall.since /\ ipCall.since \subseteq ipUids \cup ipGone
      /\ FoundUids(ipUids) /\ FoundUids(ipGone) /\ FoundUids(ipCall.left)
  BY <1>1 DEF PagesInv, ListingFits, FoundUids, ListRecord, PageUids
<1>3. top \in ipCall.left /\ \A u \in ipCall.left : u <= top
  <2>1. IsFiniteSet(ipCall.left) /\ ipCall.left \subseteq Nat  BY <1>2, UidsAre
  <2>2. top \in ipCall.left /\ \A u \in ipCall.left : top >= u  BY <1>2, <2>1, EndsAre
  <2> QED BY <2>1, <2>2
<1>4. /\ top \in Nat /\ top >= 1 /\ top <= MaxUid /\ MaxUid \in Nat /\ Window \in Nat /\ Window >= 1 /\ PageLimit \in Nat /\ PageLimit >= 1
  BY <1>2, <1>3, PageAssumption DEF FoundUids
<1> HIDE DEF top
<1>5. first \in Nat /\ first >= 1 /\ first <= top  BY <1>4 DEF FirstOf
<1> HIDE DEF first
<1>6. found = ipUids \cap Matching \cap first..top /\ FoundUids(found)  BY <1>2 DEF Search, FoundUids
<1> HIDE DEF found
<1>7. /\ lines \in Seq(1..MaxUid) /\ Falls(lines) /\ Len(lines) \in Nat
      /\ \A i \in 1..Len(lines) : lines[i] \in found
      /\ \A u \in found : HasRow(lines, u) \/ (Len(lines) >= PageLimit /\ u < lines[Len(lines)])
  BY <1>6, RowsAre DEF HasRow
<1> HIDE DEF lines
<1>8. ASSUME NEW u \in Due(ipCall.since, ipGone) PROVE u \in found \/ (u \in Nat /\ u < first)
  <2>1. u \in ipUids /\ u \in Matching /\ u \in ipCall.left  BY <1>2 DEF Due
  <2>2. u \in Nat /\ u <= top  BY <1>2, <1>3, <2>1 DEF FoundUids
  <2>3. u >= first => u \in first..top  BY <1>4, <1>5, <2>2
  <2>4. u >= first \/ u < first  BY <1>5, <2>2
  <2> QED BY <1>6, <2>1, <2>2, <2>3, <2>4
<1>9. /\ ipPage' \in PageRecord /\ ipPage'.rows = lines /\ ipPage'.settled = done /\ ipPage'.since = ipCall.since
      /\ ipPage'.warning = FALSE
  <2>1. NoImapPage \in PageRecord /\ NoImapPage.warning = FALSE  BY NoRows DEF NoImapPage, PageRecord, PageUids
  <2>2. ipCall.since \in PageUids /\ done \in BOOLEAN  BY <1>2 DEF ListRecord
  <2> HIDE DEF done
  <2> QED BY <1>1, <1>7, <2>1, <2>2 DEF PageRecord
<1>10. \A i \in 1..Len(lines) : lines[i] \in ipUids \cup ipGone  BY <1>6, <1>7
<1>11. CASE done
  <2>1. ipPartial' = <<>> /\ ipCall' = NoListing  BY <1>1, <1>11
  <2>2. ASSUME NEW u \in Due(ipCall.since, ipGone) PROVE HasRow(lines, u) \/ (Len(lines) >= PageLimit /\ u < lines[Len(lines)])
    <3>1. CASE u \in found  BY <1>7, <3>1
    <3>2. CASE u \in Nat /\ u < first
      <4>1. first # 1
        <5>1. u \in ipCall.left /\ u \in 1..MaxUid  BY <1>2 DEF Due, FoundUids
        <5>2. u >= 1 /\ u < first  BY <1>4, <3>2, <5>1
        <5> QED BY <1>5, <3>2, <5>2
      <4>2. Len(lines) >= PageLimit  BY <1>11, <4>1
      <4>3. Len(lines) \in 1..Len(lines)  BY <1>4, <1>7, <4>2
      <4>4. lines[Len(lines)] \in first..top  BY <1>6, <1>7, <4>3
      <4> QED BY <1>4, <1>5, <3>2, <4>2, <4>4
    <3> QED BY <1>8, <3>1, <3>2
  <2>3. PageFits(ipPage', ipPartial', ipUids, ipGone)  BY <1>7, <1>9, <1>10, <2>1, <2>2, NoRows DEF PageFits
  <2>4. ListingFits(ipCall', ipPartial', ipUids, ipGone)  BY <2>1, <1>4, NoRows DEF ListingFits, NoListing, ListRecord, PageUids
  <2> QED BY <1>1, <2>3, <2>4 DEF PagesInv
<1>12. CASE ~done
  <2>1. ipPartial' = lines /\ ipCall' = [ipCall EXCEPT !.at = "token", !.found = found, !.ceiling = first - 1, !.left = {}]
    BY <1>1, <1>12 DEF Ceiling
  <2>2. /\ ipCall' \in ListRecord /\ ipCall'.at = "token" /\ ipCall'.found = found /\ ipCall'.ceiling = first - 1
        /\ ipCall'.since = ipCall.since
    <3>1. first - 1 \in Nat /\ found \in PageUids /\ {} \in PageUids  BY <1>5, <1>6 DEF FoundUids, PageUids
    <3> QED BY <1>2, <2>1, <3>1 DEF ListRecord
  <2>3. \A u \in found : u > first - 1  BY <1>4, <1>5, <1>6
  <2>4. {u \in ipCall'.found : u > ipCall'.ceiling} = found  BY <2>2, <2>3
  <2>5. \A u \in Due(ipCall.since, ipGone) : u > first - 1 => u \in found  BY <1>5, <1>8
  <2>6. ListingFits(ipCall', ipPartial', ipUids, ipGone)  BY <1>2, <1>6, <1>7, <2>1, <2>2, <2>4, <2>5 DEF ListingFits, lines
  <2>7. PageFits(ipPage', ipPartial', ipUids, ipGone)  BY <1>7, <1>9, <1>10, <1>12 DEF PageFits
  <2> QED BY <1>1, <2>6, <2>7 DEF PagesInv
<1> QED BY <1>11, <1>12

\* The token brings back what was found above the ceiling.
LEMMA ListingResumes == ASSUME PagesInv, Resume PROVE PagesInv'
<1>1. ipCall.at = "token" /\ ipCall' = [ipCall EXCEPT !.at = "scan"] /\ UNCHANGED <<ipUids, ipGone, ipPartial, ipPage, ipRead>>
  BY DEF Resume
<1>2. /\ ipCall' \in ListRecord /\ ipCall'.at = "scan" /\ ipCall'.found = ipCall.found /\ ipCall'.ceiling = ipCall.ceiling
      /\ ipCall'.since = ipCall.since
  BY <1>1 DEF PagesInv, ListingFits, ListRecord
<1>3. ListingFits(ipCall', ipPartial, ipUids, ipGone)  BY <1>1, <1>2 DEF PagesInv, ListingFits
<1> QED BY <1>1, <1>3 DEF PagesInv

\* The snapshot takes the UIDs under the ceiling: with those found above it, none is missing.
LEMMA SnapshotTaken == ASSUME PagesInv, TakeSnapshot PROVE PagesInv'
<1>1. /\ ipCall.at = "scan" /\ ipCall' = [ipCall EXCEPT !.at = "chunks", !.left = UidSnapshot]
      /\ UNCHANGED <<ipUids, ipGone, ipPartial, ipPage, ipRead>>
  BY DEF TakeSnapshot
<1>2. UidSnapshot = {u \in ipUids : u <= ipCall.ceiling} /\ UidSnapshot \in PageUids /\ FoundUids(ipUids)
  BY DEF UidSnapshot, PagesInv, FoundUids, PageUids
<1>3. /\ ipCall' \in ListRecord /\ ipCall'.at = "chunks" /\ ipCall'.found = ipCall.found /\ ipCall'.ceiling = ipCall.ceiling
      /\ ipCall'.since = ipCall.since /\ ipCall'.left = UidSnapshot
  BY <1>1, <1>2 DEF PagesInv, ListingFits, ListRecord
<1>4. Due(ipCall.since, ipGone) \subseteq ipCall.found \cup UidSnapshot
  <2> SUFFICES ASSUME NEW u \in Due(ipCall.since, ipGone) PROVE u \in ipCall.found \cup UidSnapshot  OBVIOUS
  <2>1. u \in ipUids /\ (u > ipCall.ceiling => u \in ipCall.found)  BY <1>1 DEF PagesInv, ListingFits, Due
  <2>2. u \in Nat /\ ipCall.ceiling \in Nat  BY <1>2, <2>1 DEF FoundUids, PagesInv, ListingFits, ListRecord
  <2> QED BY <1>2, <2>1, <2>2
<1>5. ListingFits(ipCall', ipPartial, ipUids, ipGone)  BY <1>1, <1>2, <1>3, <1>4 DEF PagesInv, ListingFits
<1> QED BY <1>1, <1>5 DEF PagesInv

\* A chunk scanned: the matching UIDs between its ends that are still in the folder are found.
LEMMA ChunkScanned == ASSUME PagesInv, ScanChunk PROVE PagesInv'
<1> DEFINE chunk == LastChunk(ipCall.left)
           more == Search(Min(chunk), Max(chunk))
<1>1. /\ ipCall.at = "chunks" /\ ipCall.left # {}
      /\ ipCall' = [ipCall EXCEPT !.found = @ \cup more, !.left = @ \ chunk]
      /\ UNCHANGED <<ipUids, ipGone, ipPartial, ipPage, ipRead>>
  BY DEF ScanChunk
<1>2. ipCall \in ListRecord /\ FoundUids(ipCall.left) /\ FoundUids(ipUids) /\ ipCall.ceiling \in Nat
  BY DEF PagesInv, ListingFits, ListRecord, FoundUids, PageUids
<1>3. chunk \subseteq ipCall.left /\ chunk # {} /\ FoundUids(chunk)  BY <1>1, <1>2, ChunkIs DEF FoundUids
<1> HIDE DEF chunk
<1>4. Max(chunk) \in chunk /\ Min(chunk) \in chunk /\ \A v \in chunk : v \in Min(chunk)..Max(chunk)
  <2>1. IsFiniteSet(chunk) /\ chunk \subseteq Nat  BY <1>3, UidsAre
  <2>2. /\ Max(chunk) \in chunk /\ \A v \in chunk : Max(chunk) >= v
        /\ Min(chunk) \in chunk /\ \A v \in chunk : Min(chunk) <= v
    BY <1>3, <2>1, EndsAre
  <2> QED BY <2>1, <2>2
<1>5. more = ipUids \cap Matching \cap Min(chunk)..Max(chunk)  BY DEF Search
<1> HIDE DEF more
<1>6. \A u \in more : u \in ipUids /\ u <= ipCall.ceiling
  <2> SUFFICES ASSUME NEW u \in more PROVE u \in ipUids /\ u <= ipCall.ceiling  OBVIOUS
  <2>1. Max(chunk) \in Nat /\ Max(chunk) <= ipCall.ceiling /\ Min(chunk) \in Nat
    BY <1>1, <1>3, <1>4 DEF PagesInv, ListingFits, FoundUids
  <2>2. u \in Nat /\ u <= Max(chunk) /\ u \in ipUids  BY <1>2, <1>5, <2>1 DEF FoundUids
  <2> QED BY <1>2, <2>1, <2>2
<1>7. /\ ipCall' \in ListRecord /\ ipCall'.at = "chunks" /\ ipCall'.found = ipCall.found \cup more /\ ipCall'.ceiling = ipCall.ceiling
      /\ ipCall'.since = ipCall.since /\ ipCall'.left = ipCall.left \ chunk
  <2>1. ipCall.found \cup more \in PageUids /\ ipCall.left \ chunk \in PageUids  BY <1>2, <1>6 DEF ListRecord, PageUids, FoundUids
  <2> QED BY <1>1, <1>2, <2>1 DEF ListRecord
<1>8. {u \in ipCall'.found : u > ipCall'.ceiling} = {u \in ipCall.found : u > ipCall.ceiling}
  <2>1. ASSUME NEW u \in more PROVE ~(u > ipCall.ceiling)
    <3>1. u \in 1..MaxUid /\ u <= ipCall.ceiling /\ MaxUid \in Nat  BY <1>2, <1>6, PageAssumption DEF FoundUids
    <3>2. u \in Nat  BY <3>1
    <3> HIDE DEF more
    <3> QED BY <1>2, <3>1, <3>2
  <2> QED BY <1>7, <2>1
<1>9. Due(ipCall.since, ipGone) \subseteq ipCall'.found \cup ipCall'.left
  <2> SUFFICES ASSUME NEW u \in Due(ipCall.since, ipGone) PROVE u \in ipCall'.found \cup ipCall'.left  OBVIOUS
  <2>1. u \in ipUids /\ u \in Matching /\ u \in ipCall.found \cup ipCall.left  BY <1>1 DEF PagesInv, ListingFits, Due
  <2>2. u \in chunk => u \in more  BY <1>4, <1>5, <2>1
  <2> QED BY <1>7, <2>1, <2>2
<1>10. ListingFits(ipCall', ipPartial, ipUids, ipGone)
  <2>1. ipCall'.found \subseteq ipUids \cup ipGone  BY <1>6, <1>7 DEF PagesInv, ListingFits
  <2>2. \A u \in ipCall'.left : u <= ipCall'.ceiling  BY <1>1, <1>7 DEF PagesInv, ListingFits
  <2>3. \A u \in Due(ipCall.since, ipGone) : u > ipCall'.ceiling => u \in ipCall'.found  BY <1>1, <1>7 DEF PagesInv, ListingFits
  <2>4. ipPartial = ImapRowsFor({u \in ipCall.found : u > ipCall.ceiling}) /\ ipPartial \in Seq(1..MaxUid) /\ ipCall.since \subseteq ipUids \cup ipGone
    BY <1>1 DEF PagesInv, ListingFits
  <2>5. ipPartial = ImapRowsFor({u \in ipCall'.found : u > ipCall'.ceiling})  BY <1>8, <2>4
  <2> QED BY <1>7, <1>9, <2>1, <2>2, <2>3, <2>4, <2>5 DEF ListingFits
<1> QED BY <1>1, <1>10 DEF PagesInv

\* A page settles with rows that begin with those shown.
LEMMA PageSettles ==
  ASSUME PagesInv, NEW lines, NEW warning \in BOOLEAN, SettlePage(lines, warning), lines \in Seq(1..MaxUid), Falls(lines),
         \A i \in 1..Len(lines) : lines[i] \in ipUids \cup ipGone, IsPrefix(ipPartial, lines),
         ~warning => \A u \in Due(ipCall.since, ipGone) : HasRow(lines, u) \/ (Len(lines) >= PageLimit /\ u < lines[Len(lines)])
  PROVE  PagesInv'
<1>1. /\ ipPage' = [rows |-> lines, settled |-> TRUE, warning |-> warning, since |-> ipCall.since]
      /\ ipCall' = NoListing /\ UNCHANGED <<ipUids, ipGone, ipPartial, ipRead>>
  BY DEF SettlePage
<1>2. ListingFits(ipCall', ipPartial, ipUids, ipGone)
  BY <1>1, PageAssumption DEF PagesInv, ListingFits, NoListing, ListRecord, PageUids
<1>3. ipPage' \in PageRecord /\ ipPage'.rows = lines /\ ipPage'.warning = warning /\ ipPage'.since = ipCall.since
  <2>1. ipCall.since \in PageUids  BY DEF PagesInv, ListingFits, ListRecord
  <2> QED BY <1>1, <2>1 DEF PageRecord
<1>4. PageFits(ipPage', ipPartial, ipUids, ipGone)  BY <1>3 DEF PageFits
<1> QED BY <1>1, <1>2, <1>4 DEF PagesInv

\* A scan that ends gives the newest of all it found.
LEMMA ScanEnded == ASSUME PagesInv, ScanEnds PROVE PagesInv'
<1>1. ipCall.at = "chunks" /\ ipCall.left = {} /\ SettlePage(ImapRowsFor(ipCall.found), FALSE)  BY DEF ScanEnds
<1> DEFINE lines == ImapRowsFor(ipCall.found)
<1>2. /\ FoundUids(ipCall.found) /\ ipCall.ceiling \in Nat /\ ipCall.found \subseteq ipUids \cup ipGone
      /\ Due(ipCall.since, ipGone) \subseteq ipCall.found
      /\ ipPartial = ImapRowsFor({u \in ipCall.found : u > ipCall.ceiling})
  BY <1>1 DEF PagesInv, ListingFits, FoundUids, ListRecord, PageUids
<1>3. IsPrefix(ipPartial, lines)  BY <1>2, RowsBegin
<1>4. /\ lines \in Seq(1..MaxUid) /\ Falls(lines) /\ \A i \in 1..Len(lines) : lines[i] \in ipCall.found
      /\ \A u \in ipCall.found : HasRow(lines, u) \/ (Len(lines) >= PageLimit /\ u < lines[Len(lines)])
  BY <1>2, RowsAre DEF HasRow
<1> HIDE DEF lines
<1>5. SettlePage(lines, FALSE)  BY <1>1 DEF lines
<1> QED BY <1>2, <1>3, <1>4, <1>5, PageSettles

\* A scan that fails keeps the rows shown.
LEMMA ScanFailed == ASSUME PagesInv, ScanFails PROVE PagesInv'
<1>1. ipCall.at \in {"scan", "chunks"} /\ SettlePage(ipPartial, TRUE)  BY DEF ScanFails
<1> DEFINE S == {u \in ipCall.found : u > ipCall.ceiling}
<1>2. FoundUids(S) /\ S \subseteq ipUids \cup ipGone /\ ipPartial = ImapRowsFor(S)
  BY <1>1 DEF PagesInv, ListingFits, FoundUids, ListRecord, PageUids
<1> HIDE DEF S
<1>3. ipPartial \in Seq(1..MaxUid) /\ Falls(ipPartial) /\ \A i \in 1..Len(ipPartial) : ipPartial[i] \in ipUids \cup ipGone
  BY <1>2, RowsAre
<1>4. IsPrefix(ipPartial, ipPartial)  BY <1>3, NoRows
<1> QED BY <1>1, <1>3, <1>4, PageSettles

\* What a sequence holds at a place is of its set.
LEMMA RowIn == ASSUME NEW S, NEW s \in Seq(S) PROVE \A k \in 1..Len(s) : s[k] \in S
OBVIOUS

\* What a part of the ids holds: the id at each of its places, and no other.
LEMMA PartHolds ==
  ASSUME NEW S, NEW s \in Seq(S), NEW m \in Nat, NEW n \in Nat, m <= n, n <= Len(s)
  PROVE  \A k \in m + 1..n : s[k] \in ToSet(SubSeq(s, m + 1, n))
<1> SUFFICES ASSUME NEW k \in m + 1..n PROVE s[k] \in ToSet(SubSeq(s, m + 1, n))  OBVIOUS
<1> DEFINE t == SubSeq(s, m + 1, n)
<1>1. k \in Nat /\ m < k /\ k <= n /\ Len(s) \in Nat  OBVIOUS
<1>2. Len(t) = n - m /\ t[k - m] = s[k] /\ k - m \in 1..n - m
  <2>1. k - m \in 1..n - m  BY <1>1
  <2>2. Len(t) = n - m  BY <1>1
  <2>3. t[k - m] = s[(m + 1) + (k - m) - 1]  BY <1>1, <2>1
  <2>4. (m + 1) + (k - m) - 1 = k  BY <1>1
  <2> QED BY <2>1, <2>2, <2>3, <2>4
<1>3. t \in Seq(S)  BY <1>1
<1> HIDE DEF t
<1>4. k - m \in DOMAIN t  BY <1>2, <1>3
<1>5. s[k] \in ToSet(t)  BY <1>2, <1>4 DEF ToSet
<1> QED BY <1>5 DEF t

\* Where a batch ends, and what its request asks for.
LEMMA BatchIs ==
  ASSUME PagesInv
  PROVE  /\ BatchEnd = EndOf(ipRead) /\ BatchEnd \in Nat /\ ipRead.offset <= BatchEnd /\ BatchEnd <= Len(ipRead.ids)
         /\ ipRead.offset \in Nat /\ Len(ipRead.ids) \in Nat /\ ipRead.ids \in Seq(1..MaxUid) /\ ipRead \in SummaryRecord
         /\ \A k \in ipRead.offset + 1..BatchEnd : ipRead.ids[k] \in Batch
<1>1. ipRead \in SummaryRecord /\ ipRead.offset <= Len(ipRead.ids)  BY DEF PagesInv, ReadFits
<1>2. ipRead.offset \in Nat /\ ipRead.ids \in Seq(1..MaxUid) /\ Len(ipRead.ids) \in Nat  BY <1>1 DEF SummaryRecord
<1>3. BatchEnd = EndOf(ipRead)  BY DEF BatchEnd, EndOf
<1>4. BatchEnd \in Nat /\ ipRead.offset <= BatchEnd /\ BatchEnd <= Len(ipRead.ids)  BY <1>1, <1>2, PageAssumption DEF BatchEnd
<1>5. \A k \in ipRead.offset + 1..BatchEnd : ipRead.ids[k] \in Batch  BY <1>2, <1>4, PartHolds DEF Batch
<1> QED BY <1>1, <1>2, <1>3, <1>4, <1>5

\* The rows of a batch: the ids answered, from the places of the batch and in their order.
LEMMA OrderedIs ==
  ASSUME PagesInv
  PROVE  LET o == Ordered(ipRead.got) IN
         /\ o \in Seq(1..MaxUid) /\ Len(o) \in Nat
         /\ \E kept \in [1..Len(o) -> ipRead.offset + 1..BatchEnd] :
               /\ \A n \in 1..Len(o) : o[n] = ipRead.ids[kept[n]]
               /\ \A m, n \in 1..Len(o) : m < n => kept[m] < kept[n]
               /\ \A k \in ipRead.offset + 1..BatchEnd : ipRead.ids[k] \in ipRead.got => \E n \in 1..Len(o) : kept[n] = k
<1> DEFINE o == Ordered(ipRead.got)
           K == {k \in ipRead.offset + 1..BatchEnd : ipRead.ids[k] \in ipRead.got}
           kept == Rising(K)
           n == Cardinality(K)
<1>1. /\ BatchEnd \in Nat /\ ipRead.offset \in Nat /\ ipRead.ids \in Seq(1..MaxUid) /\ BatchEnd <= Len(ipRead.ids)
      /\ Len(ipRead.ids) \in Nat
  BY BatchIs
<1>2. IsFiniteSet(K) /\ K \subseteq Nat
  <2>1. ipRead.offset + 1 \in Int /\ BatchEnd \in Int  BY <1>1
  <2>2. IsFiniteSet(ipRead.offset + 1..BatchEnd)  BY <2>1, FS_Interval
  <2>3. K \in SUBSET (ipRead.offset + 1..BatchEnd)  OBVIOUS
  <2>4. IsFiniteSet(K)  BY <2>2, <2>3, FS_Subset
  <2> QED BY <1>1, <2>4
<1>3. /\ n \in Nat /\ kept \in [1..n -> K] /\ \A i, j \in 1..n : i < j => kept[i] < kept[j]
      /\ \A k \in K : \E i \in 1..n : kept[i] = k
  BY <1>2, RisingIs
<1>4. o = [i \in 1..n |-> ipRead.ids[kept[i]]]
  <2>1. DOMAIN kept = 1..n  BY <1>3
  <2>2. o = [i \in DOMAIN kept |-> ipRead.ids[kept[i]]]  BY DEF Ordered
  <2> HIDE DEF kept, n, o
  <2> QED BY <2>1, <2>2
<1>5. \A i \in 1..n : kept[i] \in ipRead.offset + 1..BatchEnd  BY <1>3
<1>6. \A k \in ipRead.offset + 1..BatchEnd : ipRead.ids[k] \in ipRead.got => \E i \in 1..n : kept[i] = k  BY <1>3
<1> HIDE DEF o, K, kept, n
<1>7. \A i \in 1..n : ipRead.ids[kept[i]] \in 1..MaxUid
  <2> SUFFICES ASSUME NEW i \in 1..n PROVE ipRead.ids[kept[i]] \in 1..MaxUid  OBVIOUS
  <2>1. kept[i] \in 1..Len(ipRead.ids)  BY <1>1, <1>5
  <2>2. \A k \in 1..Len(ipRead.ids) : ipRead.ids[k] \in 1..MaxUid  BY <1>1, RowIn
  <2> QED BY <2>1, <2>2
<1>8. o \in [1..n -> 1..MaxUid] /\ \A i \in 1..n : o[i] = ipRead.ids[kept[i]]  BY <1>4, <1>7
<1>9. o \in Seq(1..MaxUid) /\ Len(o) = n  BY <1>3, <1>8, FunIsSeq
<1>10. kept \in [1..n -> ipRead.offset + 1..BatchEnd]  BY <1>3 DEF K
<1> QED BY <1>3, <1>6, <1>8, <1>9, <1>10 DEF o

\* The summaries begin with the rows of the page.
LEMMA SummariesStart == ASSUME PagesInv, StartSummaries PROVE PagesInv'
<1>1. /\ ipRead' = [NoRead EXCEPT !.at = "batch", !.ids = ipPage.rows]
      /\ UNCHANGED <<ipUids, ipGone, ipCall, ipPartial, ipPage>>
  BY DEF StartSummaries
<1>2. ipPage \in PageRecord /\ Falls(ipPage.rows) /\ \A i \in 1..Len(ipPage.rows) : ipPage.rows[i] \in ipUids \cup ipGone
  BY DEF PagesInv, PageFits
<1>3. ipPage.rows \in Seq(1..MaxUid) /\ Len(ipPage.rows) \in Nat  BY <1>2 DEF PageRecord
<1>4. /\ ipRead' \in SummaryRecord /\ ipRead'.ids = ipPage.rows /\ ipRead'.offset = 0 /\ ipRead'.rows = <<>> /\ ipRead'.at = "batch"
      /\ ipRead'.warning = FALSE
  <2>1. NoRead \in SummaryRecord /\ NoRead.offset = 0 /\ NoRead.rows = <<>> /\ NoRead.warning = FALSE
    BY NoRows DEF NoRead, SummaryRecord, PageUids
  <2> QED BY <1>1, <1>3, <2>1 DEF SummaryRecord
<1>5. ReadFits(ipRead', ipUids, ipGone)  BY <1>2, <1>3, <1>4, NoRows DEF ReadFits
<1> QED BY <1>1, <1>5 DEF PagesInv

\* A batch is answered with what the folder still has of it, or fails.
LEMMA FetchAnswered == ASSUME PagesInv, NEW ok \in BOOLEAN, FetchAnswers(ok) PROVE PagesInv'
<1> DEFINE got == IF ok THEN Parsed(Batch) ELSE {}
<1>1. /\ ipRead.at = "batch" /\ ipRead' = [ipRead EXCEPT !.at = "ordered", !.warning = ~ok, !.got = got]
      /\ UNCHANGED <<ipUids, ipGone, ipCall, ipPartial, ipPage>>
  BY DEF FetchAnswers
<1>2. ReadFits(ipRead, ipUids, ipGone) /\ FoundUids(ipUids)  BY DEF PagesInv
<1>3. got \in PageUids  BY <1>2 DEF Parsed, FoundUids, PageUids
<1>4. ok => \A k \in ipRead.offset + 1..EndOf(ipRead) : ipRead.ids[k] \in got \cup ipGone
  <2> SUFFICES ASSUME ok, NEW k \in ipRead.offset + 1..EndOf(ipRead) PROVE ipRead.ids[k] \in got \cup ipGone  OBVIOUS
  <2>1. ipRead.ids[k] \in Batch /\ k \in 1..Len(ipRead.ids)  BY BatchIs
  <2>2. ipRead.ids[k] \in ipUids \cup ipGone  BY <1>2, <2>1 DEF ReadFits
  <2> QED BY <2>1, <2>2 DEF Parsed
<1> HIDE DEF got
<1>5. /\ ipRead' \in SummaryRecord /\ ipRead'.ids = ipRead.ids /\ ipRead'.offset = ipRead.offset /\ ipRead'.rows = ipRead.rows
      /\ ipRead'.at = "ordered" /\ ipRead'.warning = ~ok /\ ipRead'.got = got
  <2>1. ipRead \in SummaryRecord /\ (~ok) \in BOOLEAN  BY <1>2 DEF ReadFits
  <2> QED BY <1>1, <1>3, <2>1 DEF SummaryRecord
<1>6. EndOf(ipRead') = EndOf(ipRead)  BY <1>5 DEF EndOf
<1>7. ~ipRead.warning  BY <1>1, <1>2 DEF ReadFits
<1>8. ReadFits(ipRead', ipUids, ipGone)  BY <1>2, <1>4, <1>5, <1>6, <1>7 DEF ReadFits
<1> QED BY <1>1, <1>8 DEF PagesInv

\* The rows of a batch follow those of the batches before it.
LEMMA BatchGiven == ASSUME PagesInv, GiveBatch PROVE PagesInv'
<1> DEFINE ids   == ipRead.ids
           from  == ipRead.offset
           end   == BatchEnd
           old   == ipRead.rows
           o     == Ordered(ipRead.got)
           next  == IF BatchEnd < Len(ipRead.ids) /\ ~ipRead.warning THEN "batch" ELSE "over"
           lines  == old \o o
           L     == Len(old)
<1>1. /\ ipRead.at = "ordered"
      /\ ipRead' = [ipRead EXCEPT !.rows = lines, !.got = {}, !.offset = end, !.at = next]
      /\ UNCHANGED <<ipUids, ipGone, ipCall, ipPartial, ipPage>>
  BY DEF GiveBatch, NextOffset
<1>2. ReadFits(ipRead, ipUids, ipGone)  BY DEF PagesInv
<1>3. /\ end = EndOf(ipRead) /\ end \in Nat /\ from <= end /\ end <= Len(ids)
      /\ from \in Nat /\ Len(ids) \in Nat /\ ids \in Seq(1..MaxUid) /\ ipRead \in SummaryRecord
  BY BatchIs
<1>4. o \in Seq(1..MaxUid) /\ Len(o) \in Nat  BY OrderedIs
<1>5. PICK kept \in [1..Len(o) -> from + 1..end] :
        /\ \A n \in 1..Len(o) : o[n] = ids[kept[n]]
        /\ \A m, n \in 1..Len(o) : m < n => kept[m] < kept[n]
        /\ \A k \in from + 1..end : ids[k] \in ipRead.got => \E n \in 1..Len(o) : kept[n] = k
  BY OrderedIs
<1>6. old \in Seq(1..MaxUid) /\ L \in Nat  BY <1>3 DEF SummaryRecord
<1>7. /\ next = "over" => ipRead.warning \/ ~(end < Len(ids))
      /\ next = "batch" => ~ipRead.warning
      /\ next \in {"batch", "over"}
  OBVIOUS
<1>8. /\ lines \in Seq(1..MaxUid) /\ Len(lines) = L + Len(o)
      /\ \A n \in 1..L : lines[n] = old[n]
      /\ \A n \in 1..Len(o) : lines[L + n] = o[n]
  <2> HIDE DEF old, o
  <2> QED BY <1>4, <1>6
<1> HIDE DEF next, lines, o, old, end
<1>9. /\ ipRead' \in SummaryRecord /\ ipRead'.ids = ids /\ ipRead'.offset = end /\ ipRead'.rows = lines
      /\ ipRead'.at = next /\ ipRead'.warning = ipRead.warning
  BY <1>1, <1>3, <1>7, <1>8 DEF SummaryRecord, PageUids
<1> HIDE DEF L
\* The places of a row: an old one has its id before the batch, a new one in it.
<1>10. ASSUME NEW n \in 1..Len(lines)
       PROVE  \/ n \in 1..L /\ lines[n] = old[n]
              \/ ~(n <= L) /\ n - L \in 1..Len(o) /\ lines[n] = ids[kept[n - L]] /\ kept[n - L] \in from + 1..end
  <2>1. CASE n <= L
    <3>1. n \in 1..L  BY <1>6, <2>1
    <3> QED BY <1>8, <3>1
  <2>2. CASE ~(n <= L)
    <3>1. n - L \in 1..Len(o) /\ L + (n - L) = n  BY <1>4, <1>6, <1>8, <2>2
    <3>2. lines[L + (n - L)] = o[n - L]  BY <1>8, <3>1
    <3>3. kept[n - L] \in from + 1..end  BY <1>5, <3>1
    <3> HIDE DEF from, ids
    <3> QED BY <1>5, <2>2, <3>1, <3>2, <3>3
  <2> QED BY <2>1, <2>2
<1> HIDE DEF ids, from
<1>11. /\ \A n \in 1..L : \E k \in 1..from : old[n] = ids[k]
       /\ \A m, n \in 1..L, k, l \in 1..from : m < n /\ old[m] = ids[k] /\ old[n] = ids[l] => k < l
       /\ ~ipRead.warning => \A k \in 1..from : ids[k] \in ipGone \/ HasRow(old, ids[k])
       /\ ~ipRead.warning => \A k \in from + 1..end : ids[k] \in ipRead.got \cup ipGone
  BY <1>1, <1>2, <1>3 DEF ReadFits, ids, from, old, L
<1>12. \A k, l \in 1..Len(ids) : ids[k] = ids[l] => k = l
  <2> SUFFICES ASSUME NEW k \in 1..Len(ids), NEW l \in 1..Len(ids), ids[k] = ids[l] PROVE k = l  OBVIOUS
  <2>1. \A i, j \in 1..Len(ids) : i < j => ids[i] > ids[j]  BY <1>2 DEF ReadFits, Falls, ids
  <2>2. ids[k] \in 1..MaxUid /\ MaxUid \in Nat  BY <1>3, RowIn, PageAssumption
  <2>3. ~(ids[k] > ids[k])  BY <2>2
  <2>4. ~(k < l) /\ ~(l < k)  BY <2>1, <2>3
  <2> QED BY <1>3, <2>4
<1>13. \A k \in 1..from : k \in 1..Len(ids) /\ k \in 1..end  BY <1>3
<1>14. \A k \in from + 1..end : k \in 1..Len(ids) /\ k \in 1..end /\ \A j \in 1..from : j < k  BY <1>3
<1>15. \A k \in 1..end : k \in 1..Len(ids) /\ (k \in 1..from \/ k \in from + 1..end)  BY <1>3
<1>16. \A n \in 1..Len(lines) : \E k \in 1..end : lines[n] = ids[k]  BY <1>10, <1>11, <1>13, <1>14
<1>17. ASSUME NEW m \in 1..Len(lines), NEW n \in 1..Len(lines), NEW k \in 1..end, NEW l \in 1..end,
              m < n, lines[m] = ids[k], lines[n] = ids[l]
       PROVE  k < l
  <2>1. CASE n \in 1..L /\ lines[n] = old[n]
    <3>1. m \in 1..L  BY <1>6, <1>4, <1>8, <1>17, <2>1
    <3>2. lines[m] = old[m]  BY <1>8, <3>1
    <3>3. PICK i \in 1..from : old[m] = ids[i]  BY <1>11, <3>1
    <3>4. PICK j \in 1..from : old[n] = ids[j]  BY <1>11, <2>1
    <3>5. i = k /\ j = l  BY <1>12, <1>13, <1>15, <1>17, <2>1, <3>2, <3>3, <3>4
    <3>6. i < j  BY <1>11, <1>17, <2>1, <3>1, <3>3, <3>4
    <3> QED BY <3>5, <3>6
  <2>2. CASE ~(n <= L) /\ n - L \in 1..Len(o) /\ lines[n] = ids[kept[n - L]] /\ kept[n - L] \in from + 1..end
    <3>1. l = kept[n - L]  BY <1>12, <1>14, <1>15, <1>17, <2>2
    <3>2. CASE m \in 1..L /\ lines[m] = old[m]
      <4>1. PICK i \in 1..from : old[m] = ids[i]  BY <1>11, <3>2
      <4>2. i = k  BY <1>12, <1>13, <1>15, <1>17, <3>2, <4>1
      <4> QED BY <1>14, <2>2, <3>1, <4>2
    <3>3. CASE ~(m <= L) /\ m - L \in 1..Len(o) /\ lines[m] = ids[kept[m - L]] /\ kept[m - L] \in from + 1..end
      <4>1. k = kept[m - L]  BY <1>12, <1>14, <1>15, <1>17, <3>3
      <4>2. m - L < n - L  BY <1>4, <1>6, <1>8, <1>17
      <4> QED BY <1>5, <2>2, <3>1, <3>3, <4>1, <4>2
    <3> QED BY <1>10, <3>2, <3>3
  <2> QED BY <1>10, <2>1, <2>2
<1>18. ASSUME ~ipRead.warning, NEW k \in 1..end PROVE ids[k] \in ipGone \/ HasRow(lines, ids[k])
  <2>1. CASE k \in 1..from
    <3>1. CASE HasRow(old, ids[k])
      <4>1. PICK i \in 1..L : old[i] = ids[k]  BY <3>1 DEF HasRow, L
      <4>2. i \in 1..Len(lines)  BY <1>4, <1>6, <1>8, <4>1
      <4>3. lines[i] = ids[k]  BY <1>8, <4>1
      <4> QED BY <4>2, <4>3 DEF HasRow
    <3> QED BY <1>11, <1>18, <2>1, <3>1
  <2>2. CASE k \in from + 1..end
    <3>1. CASE ids[k] \in ipRead.got
      <4>1. PICK i \in 1..Len(o) : kept[i] = k  BY <1>5, <2>2, <3>1 DEF ids, from
      <4>2. L + i \in 1..Len(lines)  BY <1>4, <1>6, <1>8
      <4>3. lines[L + i] = ids[k]  BY <1>5, <1>8, <4>1 DEF ids
      <4> QED BY <4>2, <4>3 DEF HasRow
    <3> QED BY <1>11, <1>18, <2>2, <3>1
  <2> QED BY <1>15, <2>1, <2>2
<1>19. next = "over" /\ ~ipRead.warning => end = Len(ids)
  <2>1. next = "over" /\ ~ipRead.warning => ~(end < Len(ids))  BY <1>7 DEF next
  <2> QED BY <1>3, <2>1
<1>20. next # "ordered" /\ (next = "batch" => ~ipRead.warning)  BY <1>7
<1>21. Falls(ids) /\ \A k \in 1..Len(ids) : ids[k] \in ipUids \cup ipGone  BY <1>2 DEF ReadFits, ids
<1>22. ReadFits(ipRead', ipUids, ipGone)
  <2>1. /\ ipRead' \in SummaryRecord /\ Falls(ipRead'.ids) /\ ipRead'.offset <= Len(ipRead'.ids)
        /\ \A k \in 1..Len(ipRead'.ids) : ipRead'.ids[k] \in ipUids \cup ipGone
    BY <1>3, <1>9, <1>21
  <2>2. \A n \in 1..Len(ipRead'.rows) : \E k \in 1..ipRead'.offset : ipRead'.rows[n] = ipRead'.ids[k]  BY <1>9, <1>16
  <2>3. \A m, n \in 1..Len(ipRead'.rows), k, l \in 1..ipRead'.offset :
           m < n /\ ipRead'.rows[m] = ipRead'.ids[k] /\ ipRead'.rows[n] = ipRead'.ids[l] => k < l
    BY <1>9, <1>17
  <2>4. ~ipRead'.warning => \A k \in 1..ipRead'.offset : ipRead'.ids[k] \in ipGone \/ HasRow(ipRead'.rows, ipRead'.ids[k])
    BY <1>9, <1>18
  <2>5. /\ ipRead'.at = "batch" => ~ipRead'.warning
        /\ ipRead'.at # "ordered"
        /\ ipRead'.at = "over" /\ ~ipRead'.warning => ipRead'.offset = Len(ipRead'.ids)
    BY <1>9, <1>19, <1>20
  <2> QED BY <2>1, <2>2, <2>3, <2>4, <2>5 DEF ReadFits
<1> QED BY <1>1, <1>22 DEF PagesInv

\* Every step keeps the invariant of the pages.
LEMMA PagesStep == PagesInv /\ [ImapPagesNext]_pageVars => PagesInv'
<1> SUFFICES ASSUME PagesInv, [ImapPagesNext]_pageVars PROVE PagesInv'  OBVIOUS
<1>1. CASE UNCHANGED pageVars  BY <1>1 DEF pageVars, PagesInv
<1>2. CASE \E u \in 1..MaxUid : MessageArrives(u) \/ MessageExpunged(u)  BY <1>2, MailArrives, MailExpunged
<1>3. CASE \E progressive \in BOOLEAN : StartList(progressive)  BY <1>3, ListingStarts
<1>4. CASE \E ok \in BOOLEAN : FetchAnswers(ok)  BY <1>4, FetchAnswered
<1> QED BY <1>1, <1>2, <1>3, <1>4, WindowAsked, ListingResumes, SnapshotTaken, ChunkScanned, ScanEnded, ScanFailed,
           SummariesStart, BatchGiven DEF ImapPagesNext

\* A row at some place of a list is among its rows.
LEMMA RowsHold == ASSUME NEW lines \in Seq(1..MaxUid) PROVE DOMAIN lines = 1..Len(lines) /\ \A u : HasRow(lines, u) => u \in ToSet(lines)
<1>1. DOMAIN lines = 1..Len(lines)  OBVIOUS
<1> QED BY <1>1 DEF HasRow, ToSet

\* The invariant of the pages holds what a reader sees.
LEMMA PagesInvWhole == PagesInv => ImapPagesWhole
<1> SUFFICES ASSUME PagesInv PROVE ImapPagesWhole  OBVIOUS
<1>1. PageFits(ipPage, ipPartial, ipUids, ipGone) /\ ipPage.rows \in Seq(1..MaxUid)  BY DEF PagesInv, PageFits, PageRecord
<1>2. PrefixIsFinal  BY <1>1 DEF PrefixIsFinal, PageFits
<1>3. NoMatchSkipped
  <2> SUFFICES ASSUME ipPage.settled, ~ipPage.warning, NEW u \in (ipPage.since \cap Matching) \ ipGone
               PROVE  u \in ToSet(ipPage.rows) \/ (Len(ipPage.rows) >= PageLimit /\ u < Last(ipPage.rows))
    BY DEF NoMatchSkipped
  <2>1. HasRow(ipPage.rows, u) \/ (Len(ipPage.rows) >= PageLimit /\ u < ipPage.rows[Len(ipPage.rows)])  BY <1>1 DEF PageFits, Due
  <2>2. HasRow(ipPage.rows, u) => u \in ToSet(ipPage.rows)  BY <1>1, RowsHold
  <2> QED BY <2>1, <2>2 DEF Last
<1>4. SummariesInOrder
  <2>1. ReadFits(ipRead, ipUids, ipGone) /\ ipRead.rows \in Seq(1..MaxUid) /\ ipRead.ids \in Seq(1..MaxUid)
    BY DEF PagesInv, ReadFits, SummaryRecord
  <2>2. DOMAIN ipRead.rows = 1..Len(ipRead.rows) /\ DOMAIN ipRead.ids = 1..Len(ipRead.ids)  BY <2>1, RowsHold
  <2>3. /\ \A n \in DOMAIN ipRead.rows : \E k \in 1..ipRead.offset : ipRead.rows[n] = ipRead.ids[k]
        /\ \A m, n \in DOMAIN ipRead.rows, k, l \in 1..ipRead.offset :
              m < n /\ ipRead.rows[m] = ipRead.ids[k] /\ ipRead.rows[n] = ipRead.ids[l] => k < l
    BY <2>1, <2>2 DEF ReadFits
  <2>4. ASSUME ipRead.at = "over", ~ipRead.warning PROVE ToSet(ipRead.ids) \subseteq ToSet(ipRead.rows) \cup ipGone
    <3> SUFFICES ASSUME NEW k \in 1..Len(ipRead.ids) PROVE ipRead.ids[k] \in ToSet(ipRead.rows) \cup ipGone  BY <2>2 DEF ToSet
    <3>1. ipRead.ids[k] \in ipGone \/ HasRow(ipRead.rows, ipRead.ids[k])  BY <2>1, <2>4 DEF ReadFits
    <3> QED BY <2>1, <3>1, RowsHold
  <2> QED BY <2>3, <2>4 DEF SummariesInOrder
<1> QED BY <1>2, <1>3, <1>4 DEF ImapPagesWhole

(* list, page and messages: the rows of a continued search begin with those already shown, no message that was there
   all along is skipped, and summaries keep the order of the ids, without a repeat. *)
THEOREM ImapPagesHold == ImapPagesSpec => []ImapPagesWhole
<1>1. ImapPagesSpec => []PagesInv  BY PagesBegin, PagesStep, PTL DEF ImapPagesSpec
<1> QED BY <1>1, PagesInvWhole, PTL

------------------------------------
(* Sequences of which one element becomes the last. *)

\* An element that becomes the last: the same elements at other places.
LEMMA MovedLast ==
  ASSUME NEW S, NEW s \in Seq(S), NEW i \in 1..Len(s)
  PROVE  LET t == Append(RemoveAt(s, i), s[i])
         IN  t \in Seq(S) /\ Len(t) = Len(s) /\ Drawn(t, s) /\ Drawn(s, t)
<1> DEFINE a == SubSeq(s, 1, i - 1)
           b == SubSeq(s, i + 1, Len(s))
           r == a \o b
           t == Append(r, s[i])
           l == Len(s)
           to == [k \in 1..l |-> IF k < i THEN k ELSE IF k < l THEN k + 1 ELSE i]
           back == [k \in 1..l |-> IF k < i THEN k ELSE IF k = i THEN l ELSE k - 1]
<1>1. l \in Nat /\ i \in Nat /\ 1 <= i /\ i <= l /\ s[i] \in S  OBVIOUS
<1>2. a \in Seq(S) /\ Len(a) = i - 1 /\ \A k \in 1..(i - 1) : a[k] = s[k]
  <2>1. i - 1 \in Nat /\ i - 1 <= Len(s)  BY <1>1
  <2> QED BY <2>1, CutIs
<1>3. b \in Seq(S) /\ Len(b) = l - i /\ \A k \in 1..(l - i) : b[k] = s[i + k]
  <2>1. b = [k \in 1..(l - i) |-> s[i + k]]  BY <1>1
  <2>2. l - i \in Nat /\ \A k \in 1..(l - i) : i + k \in 1..l /\ s[i + k] \in S  BY <1>1
  <2> HIDE DEF b
  <2>3. b \in [1..(l - i) -> S]  BY <2>1, <2>2
  <2> QED BY <2>1, <2>2, <2>3, FunIsSeq
<1> HIDE DEF a, b
<1>4. r \in Seq(S) /\ Len(r) = l - 1 /\ \A k \in 1..(l - 1) : r[k] = IF k < i THEN s[k] ELSE s[k + 1]
  <2>1. r \in Seq(S) /\ Len(r) = l - 1
    <3>0. a \in Seq(S) /\ b \in Seq(S)  BY <1>2, <1>3
    <3>1. r \in Seq(S) /\ Len(r) = Len(a) + Len(b)  BY <3>0
    <3> HIDE DEF r
    <3>2. (i - 1) + (l - i) = l - 1  BY <1>1
    <3> QED BY <1>2, <1>3, <3>1, <3>2
  <2>2. ASSUME NEW k \in 1..(l - 1), k < i PROVE r[k] = s[k]
    <3>1. k \in 1..Len(a)  BY <1>1, <1>2, <2>2
    <3> QED BY <1>2, <1>3, <3>1
  <2>3. ASSUME NEW k \in 1..(l - 1), ~(k < i) PROVE r[k] = s[k + 1]
    <3>1. k - (i - 1) \in 1..(l - i) /\ i + (k - (i - 1)) = k + 1 /\ k > Len(a) /\ k \in 1..(Len(a) + Len(b))
      BY <1>1, <1>2, <1>3, <2>3
    <3>2. r[k] = b[k - (i - 1)]  BY <1>2, <1>3, <3>1
    <3> QED BY <1>3, <3>1, <3>2
  <2> QED BY <2>1, <2>2, <2>3
<1> HIDE DEF r
<1>5. t \in Seq(S) /\ Len(t) = l /\ t[l] = s[i] /\ \A k \in 1..(l - 1) : t[k] = r[k]  BY <1>1, <1>4
<1> HIDE DEF t
<1>6. DrawnBy(t, s, to)
  <2>1. to \in [1..l -> 1..l]  BY <1>1
  <2>2. \A m, n \in 1..l : to[m] = to[n] => m = n  BY <1>1
  <2>3. ASSUME NEW n \in 1..l PROVE t[n] = s[to[n]]
    <3>1. CASE n = l
      <4>1. ~(n < i) /\ to[n] = i  BY <1>1, <3>1
      <4> QED BY <1>5, <3>1, <4>1
    <3>2. CASE n # l
      <4>1. n \in 1..(l - 1) /\ n < l  BY <1>1, <3>2
      <4>2. to[n] = IF n < i THEN n ELSE n + 1  BY <4>1
      <4> QED BY <1>4, <1>5, <4>1, <4>2
    <3> QED BY <3>1, <3>2
  <2> HIDE DEF to, l
  <2> QED BY <1>5, <2>1, <2>2, <2>3 DEF DrawnBy, l
<1>7. DrawnBy(s, t, back)
  <2>1. back \in [1..l -> 1..l]  BY <1>1
  <2>2. \A m, n \in 1..l : back[m] = back[n] => m = n  BY <1>1
  <2>3. ASSUME NEW n \in 1..l PROVE s[n] = t[back[n]]
    <3>1. CASE n = i
      <4>1. back[n] = l  BY <1>1, <3>1
      <4> QED BY <1>5, <3>1, <4>1
    <3>2. CASE n < i
      <4>1. back[n] = n /\ n \in 1..(l - 1)  BY <1>1, <3>2
      <4> QED BY <1>4, <1>5, <3>2, <4>1
    <3>3. CASE n > i
      <4>1. back[n] = n - 1 /\ n - 1 \in 1..(l - 1) /\ ~(n - 1 < i) /\ (n - 1) + 1 = n  BY <1>1, <3>3
      <4> QED BY <1>4, <1>5, <3>3, <4>1
    <3> QED BY <1>1, <3>1, <3>2, <3>3
  <2> HIDE DEF back, l
  <2> QED BY <1>5, <2>1, <2>2, <2>3 DEF DrawnBy, l
<1>8. t = Append(RemoveAt(s, i), s[i])  BY DEF t, r, a, b, RemoveAt
<1> QED BY <1>5, <1>6, <1>7, <1>8 DEF Drawn

------------------------------------
(***************************************************************************)
(* The files of the cache and the rendered messages (CacheFiles), for any   *)
(* limits and any sizes.                                                    *)
(***************************************************************************)

CachedFile == [kind : Kinds, account : FAccounts, id : CacheIds, size : Sizes, at : 1..MaxClock, temp : BOOLEAN]
HeldWrite == [at : {"reserved", "temporary"}, kind : Kinds, account : FAccounts, id : CacheIds, size : Sizes]
FilesAre(set) == set \subseteq CachedFile /\ IsFiniteSet(set)

\* The room a write has reserved is there until its file is, and its file until the rename.
WriteHasRoom == /\ write = NoWrite \/ write \in HeldWrite
                /\ write.at = "reserved" => clock < MaxClock /\ FitsDisk(cached, write.size)
                /\ write.at = "temporary" => Target(TRUE, clock) \in cached
DiskInv == /\ FilesAre(cached) /\ clock \in 0..MaxClock /\ \A f \in cached : f.at <= clock
           /\ WriteHasRoom /\ BudgetHolds

LEMMA SizesAre == ASSUME NEW f \in CachedFile PROVE f.size \in Nat /\ f.at \in 1..MaxClock /\ f.at \in Nat /\ f.temp \in BOOLEAN
<1>1. f.size \in Sizes /\ f.at \in 1..MaxClock /\ f.temp \in BOOLEAN  BY DEF CachedFile
<1>2. Sizes \subseteq Nat /\ MaxClock \in Nat  BY FilesAssumption
<1>3. f.size \in Nat  BY <1>1, <1>2
<1>4. f.at \in Nat  BY <1>1, <1>2
<1> QED BY <1>1, <1>3, <1>4

\* What some of the files take is no more than what all of them take.
LEMMA FewerFiles ==
  ASSUME NEW T, FilesAre(T), NEW S, S \subseteq T
  PROVE  /\ FilesAre(S) /\ TotalSize(S) \in Nat /\ TotalSize(T) \in Nat /\ TotalSize(S) <= TotalSize(T)
         /\ Cardinality(S) \in Nat /\ Cardinality(T) \in Nat /\ Cardinality(S) <= Cardinality(T)
<1> DEFINE sf == [f \in S |-> f.size]
           tf == [f \in T |-> f.size]
           h == [f \in S |-> f]
<1>1. IsFiniteSet(T) /\ IsFiniteSet(S) /\ Cardinality(S) <= Cardinality(T)  BY FS_Subset DEF FilesAre
<1>2. \A f \in T : f.size \in Nat  BY SizesAre DEF FilesAre
<1>3. sf \in [S -> Nat] /\ tf \in [T -> Nat] /\ h \in [S -> T] /\ (\A x, y \in S : h[x] = h[y] => x = y) /\ \A x \in S : sf[x] <= tf[h[x]]
  BY <1>2
<1>4. Total(sf) \in Nat /\ Total(tf) \in Nat /\ Total(sf) <= Total(tf)
  <2> HIDE DEF sf, tf, h
  <2> QED BY <1>1, <1>3, TotalLess
<1> QED BY <1>1, <1>4, FS_CardinalityType DEF TotalSize, FilesAre

\* One more file takes its size and one place.
LEMMA OneMoreFile ==
  ASSUME NEW T, FilesAre(T), NEW t \in CachedFile, t \notin T
  PROVE  /\ FilesAre(T \cup {t}) /\ TotalSize(T \cup {t}) = TotalSize(T) + t.size
         /\ Cardinality(T \cup {t}) = Cardinality(T) + 1
<1> DEFINE D == T \cup {t}
           df == [f \in D |-> f.size]
           tf == [f \in T |-> f.size]
<1>1. IsFiniteSet(D) /\ Cardinality(D) = Cardinality(T) + 1  BY FS_AddElement DEF FilesAre
<1>2. D \subseteq CachedFile  BY DEF FilesAre
<1>3. \A f \in D : f.size \in Nat  BY <1>2, SizesAre
<1>4. DOMAIN df = D /\ DOMAIN tf = T /\ df[t] = t.size /\ T = D \ {t} /\ \A f \in T : df[f] = tf[f]  OBVIOUS
<1>5. Counts(df) /\ Counts(tf)  BY <1>3 DEF Counts
<1> HIDE DEF df, tf
<1>6. OneMore(tf, df, t)  BY <1>1, <1>4 DEF OneMore
<1>7. Total(df) = Total(tf) + t.size  BY <1>4, <1>5, <1>6, TotalAdds
<1> QED BY <1>1, <1>2, <1>7 DEF TotalSize, FilesAre, df, tf

\* There are always the oldest of some files.
LEMMA OldestIs ==
  ASSUME NEW set, FilesAre(set), NEW n \in 0..Cardinality(set)
  PROVE  /\ Oldest(set, n) \in SUBSET set /\ Cardinality(Oldest(set, n)) = n
         /\ \A f \in Oldest(set, n), g \in set \ Oldest(set, n) : f.at <= g.at
<1> DEFINE First(old, m) == Cardinality(old) = m /\ \A f \in old, g \in set \ old : f.at <= g.at
           Good(m) == \E old \in SUBSET set : First(old, m)
           Bad == {m \in 0..n : ~Good(m)}
<1>1. IsFiniteSet(set) /\ Cardinality(set) \in Nat /\ n \in Nat /\ n <= Cardinality(set)  BY FS_CardinalityType DEF FilesAre
<1>2. \A f \in set : f \in CachedFile /\ f.at \in Nat /\ f.at \in 1..MaxClock  BY SizesAre DEF FilesAre
<1>3. Bad = {}
  <2> SUFFICES ASSUME Bad # {} PROVE FALSE  OBVIOUS
  <2>1. Bad \subseteq 0..n /\ Bad \subseteq Nat  BY <1>1
  <2>2. IsFiniteSet(Bad)
    <3>1. 0 \in Int /\ n \in Int  BY <1>1
    <3>2. IsFiniteSet(0..n)  BY <3>1, FS_Interval
    <3> HIDE DEF Bad
    <3> QED BY <2>1, <3>2, FS_Subset
  <2> DEFINE m == Min(Bad)
  <2>3. m \in Bad /\ \A v \in Bad : m <= v
    <3> HIDE DEF Bad
    <3> QED BY <2>1, <2>2, EndsAre
  <2> HIDE DEF m
  <2>4. m \in 0..n /\ ~Good(m)  BY <2>3
  <2>5. Good(0)
    <3>1. First({}, 0)  BY FS_EmptySet
    <3> HIDE DEF First
    <3> QED BY <3>1
  <2>6. m # 0 /\ m - 1 \in 0..n /\ ~(m <= m - 1)
    <3> HIDE DEF Good
    <3> QED BY <1>1, <2>4, <2>5
  <2>7. Good(m - 1)
    <3> HIDE DEF Good
    <3> QED BY <2>3, <2>6
  <2> HIDE DEF Bad
  <2>8. PICK old \in SUBSET set : First(old, m - 1)  BY <2>7
  <2> DEFINE A == {f.at : f \in set \ old}
  <2>9. set \ old # {} /\ IsFiniteSet(old) /\ Cardinality(old) = m - 1
    <3>1. IsFiniteSet(old) /\ Cardinality(old) = m - 1  BY <1>1, <2>8, FS_Subset
    <3>2. old # set  BY <1>1, <2>4, <3>1
    <3> QED BY <3>1, <3>2
  <2>10. A \subseteq 1..MaxClock /\ A \subseteq Nat /\ A # {}  BY <1>2, <2>9
  <2>11. IsFiniteSet(A)
    <3>1. 1 \in Int /\ MaxClock \in Int  BY FilesAssumption
    <3>2. IsFiniteSet(1..MaxClock)  BY <3>1, FS_Interval
    <3> HIDE DEF A
    <3> QED BY <2>10, <3>2, FS_Subset
  <2>12. Min(A) \in A /\ \A v \in A : Min(A) <= v
    <3> HIDE DEF A
    <3> QED BY <2>10, <2>11, EndsAre
  <2>13. PICK x \in set \ old : x.at = Min(A)  BY <2>12
  <2>14. \A g \in set \ old : x.at <= g.at  BY <2>12, <2>13
  <2> HIDE DEF A
  <2>15. Cardinality(old \cup {x}) = m
    <3>1. Cardinality(old \cup {x}) = Cardinality(old) + 1  BY <2>9, <2>13, FS_AddElement
    <3> QED BY <1>1, <2>4, <2>9, <3>1
  <2>16. First(old \cup {x}, m)  BY <2>8, <2>14, <2>15
  <2>17. Good(m)
    <3> HIDE DEF First
    <3> QED BY <2>13, <2>16
  <2> QED BY <2>4, <2>17
<1>4. Good(n)
  <2>1. n \in 0..n  BY <1>1
  <2> HIDE DEF Good
  <2> QED BY <1>3, <2>1
<1>5. PICK old \in SUBSET set : Cardinality(old) = n /\ \A f \in old, g \in set \ old : f.at <= g.at  BY <1>4
<1> HIDE DEF First, Good, Bad
<1> QED BY <1>5 DEF Oldest

\* A reservation takes some of the oldest of the files that may go.
LEMMA ReservedIs ==
  ASSUME FilesAre(cached), NEW kind, NEW a, NEW i, NEW size
  PROVE  /\ Reserved(kind, a, i, size) \subseteq cached
         /\ \A f \in cached : f \notin Reserved(kind, a, i, size) => f \in Spare(kind, a, i)
         /\ \A f \in cached \ Reserved(kind, a, i, size), g \in Reserved(kind, a, i, size) :
              g \in Spare(kind, a, i) => f.at <= g.at
<1> DEFINE spare == Spare(kind, a, i)
           top == Cardinality(spare)
           Fit(n) == FitsDisk(cached \ Oldest(spare, n), size)
           C == {n \in 0..top : n = top \/ Fit(n)}
           Least(n) == (n = top \/ Fit(n)) /\ \A m \in 0..(n - 1) : ~Fit(m)
           n0 == CHOOSE n \in 0..top : Least(n)
<1>1. spare \subseteq cached  BY DEF Spare
<1>2. FilesAre(spare) /\ top \in Nat
  <2> HIDE DEF spare
  <2> QED BY <1>1, FewerFiles
<1> HIDE DEF spare
<1> HIDE DEF top
<1> HIDE DEF Fit
<1>3. C \subseteq 0..top /\ C \subseteq Nat /\ C # {}  BY <1>2
<1>4. IsFiniteSet(C)
  <2>1. 0 \in Int /\ top \in Int  BY <1>2
  <2>2. IsFiniteSet(0..top)  BY <2>1, FS_Interval
  <2> HIDE DEF C
  <2> QED BY <1>3, <2>2, FS_Subset
<1>5. Min(C) \in C /\ \A v \in C : Min(C) <= v
  <2> HIDE DEF C
  <2> QED BY <1>3, <1>4, EndsAre
<1>6. \E n \in 0..top : Least(n)
  <2> DEFINE l == Min(C)
  <2> HIDE DEF l
  <2>1. l \in C /\ \A v \in C : l <= v  BY <1>5 DEF l
  <2>2. l \in 0..top /\ (l = top \/ Fit(l))  BY <2>1
  <2>3. ASSUME NEW m \in 0..(l - 1) PROVE ~Fit(m)
    <3>1. m \in 0..top /\ ~(l <= m)  BY <1>2, <2>2
    <3> QED BY <2>1, <3>1
  <2> QED BY <2>2, <2>3
<1>7. n0 \in 0..top /\ Least(n0)
  <2> HIDE DEF Least
  <2> QED BY <1>6
<1>8. Reserved(kind, a, i, size) = cached \ Oldest(spare, n0)  BY DEF Reserved, spare, top, Fit
<1> HIDE DEF n0, Least, C
<1>9. /\ Oldest(spare, n0) \in SUBSET spare
      /\ \A f \in Oldest(spare, n0), g \in spare \ Oldest(spare, n0) : f.at <= g.at
  BY <1>2, <1>7, OldestIs DEF top
<1> QED BY <1>1, <1>8, <1>9 DEF spare

\* One file in the place of another of the same size, whatever else goes with it.
LEMMA SwapFile ==
  ASSUME NEW T, FilesAre(T), NEW old \in T, NEW keep, keep \subseteq T \ {old},
         NEW new \in CachedFile, new \notin keep, new.size = old.size,
         TotalSize(T) <= DiskLimit, Cardinality(T) <= DiskEntries
  PROVE  /\ FilesAre(keep \cup {new}) /\ TotalSize(keep \cup {new}) <= DiskLimit
         /\ Cardinality(keep \cup {new}) <= DiskEntries
<1>1. FilesAre(T \ {old}) /\ FilesAre(keep) /\ keep \subseteq T  BY FewerFiles
<1>2. /\ TotalSize(keep) \in Nat /\ TotalSize(T \ {old}) \in Nat /\ TotalSize(keep) <= TotalSize(T \ {old})
      /\ Cardinality(keep) \in Nat /\ Cardinality(T \ {old}) \in Nat /\ Cardinality(keep) <= Cardinality(T \ {old})
  BY <1>1, FewerFiles
<1>3. old \in CachedFile /\ (T \ {old}) \cup {old} = T /\ old \notin T \ {old}  BY DEF FilesAre
<1>4. TotalSize(T) = TotalSize(T \ {old}) + old.size /\ Cardinality(T) = Cardinality(T \ {old}) + 1
  <2> DEFINE R == T \ {old}
  <2>1. FilesAre(R) /\ old \notin R /\ R \cup {old} = T /\ old \in CachedFile  BY <1>1, <1>3
  <2> HIDE DEF R
  <2>2. TotalSize(R \cup {old}) = TotalSize(R) + old.size /\ Cardinality(R \cup {old}) = Cardinality(R) + 1  BY <2>1, OneMoreFile
  <2> QED BY <2>1, <2>2 DEF R
<1>5. /\ FilesAre(keep \cup {new}) /\ TotalSize(keep \cup {new}) = TotalSize(keep) + new.size
      /\ Cardinality(keep \cup {new}) = Cardinality(keep) + 1
  BY <1>1, OneMoreFile
<1>6. old.size \in Nat /\ DiskLimit \in Nat /\ DiskEntries \in Nat  BY <1>3, SizesAre, FilesAssumption
<1> QED BY <1>2, <1>4, <1>5, <1>6

LEMMA DiskStarts == FilesInit => DiskInv
<1> SUFFICES ASSUME FilesInit PROVE DiskInv  OBVIOUS
<1> USE DEF FilesInit
<1>1. FilesAre({}) /\ Cardinality({}) = 0  BY FS_EmptySet DEF FilesAre
<1>2. TotalSize({}) = 0
  <2>1. [f \in {} |-> f.size] \in [{} -> Nat]  OBVIOUS
  <2>2. Total([f \in {} |-> f.size]) = 0  BY <1>1, <2>1, TotalIs DEF FilesAre
  <2> QED BY <2>2 DEF TotalSize
<1>3. DiskLimit \in Nat /\ DiskEntries \in Nat /\ MaxClock \in Nat  BY FilesAssumption
<1> QED BY <1>1, <1>2, <1>3 DEF DiskInv, WriteHasRoom, NoWrite, BudgetHolds

\* Files that go and a write that ends leave the invariant.
LEMMA FilesGo == ASSUME DiskInv, cached' \subseteq cached, write' = NoWrite, clock' = clock PROVE DiskInv'
<1>1. FilesAre(cached)  BY DEF DiskInv
<1>2. /\ FilesAre(cached') /\ TotalSize(cached') \in Nat /\ TotalSize(cached) \in Nat /\ TotalSize(cached') <= TotalSize(cached)
      /\ Cardinality(cached') \in Nat /\ Cardinality(cached) \in Nat /\ Cardinality(cached') <= Cardinality(cached)
  BY <1>1, FewerFiles
<1>3. DiskLimit \in Nat /\ DiskEntries \in Nat  BY FilesAssumption
<1>4. TotalSize(cached') <= DiskLimit /\ Cardinality(cached') <= DiskEntries  BY <1>2, <1>3 DEF DiskInv, BudgetHolds
<1> QED BY <1>2, <1>4 DEF DiskInv, WriteHasRoom, NoWrite, BudgetHolds

LEMMA DiskPutBegin ==
  ASSUME DiskInv, NEW kind \in Kinds, NEW a \in FAccounts, NEW i \in CacheIds, NEW size \in Sizes, PutBegin(kind, a, i, size)
  PROVE  DiskInv'
<1>1. FilesAre(cached)  BY DEF DiskInv
<1>2. cached' \subseteq cached /\ clock' = clock /\ clock < MaxClock  BY <1>1, ReservedIs DEF PutBegin
<1>3. CASE write' = NoWrite  BY <1>2, <1>3, FilesGo
<1>4. CASE write' # NoWrite
  <2>1. write' = [at |-> "reserved", kind |-> kind, account |-> a, id |-> i, size |-> size] /\ FitsDisk(cached', size)
    BY <1>4 DEF PutBegin
  <2>2. /\ FilesAre(cached') /\ TotalSize(cached') \in Nat /\ Cardinality(cached') \in Nat
        /\ TotalSize(cached') <= TotalSize(cached) /\ Cardinality(cached') <= Cardinality(cached)
        /\ TotalSize(cached) \in Nat /\ Cardinality(cached) \in Nat
    BY <1>1, <1>2, FewerFiles
  <2>3. DiskLimit \in Nat /\ DiskEntries \in Nat  BY FilesAssumption
  <2>4. TotalSize(cached') <= DiskLimit /\ Cardinality(cached') <= DiskEntries  BY <2>2, <2>3 DEF DiskInv, BudgetHolds
  <2>5. write' \in HeldWrite /\ write'.at = "reserved" /\ write'.size = size  BY <2>1 DEF HeldWrite
  <2>6. WriteHasRoom'  BY <1>2, <2>1, <2>5 DEF WriteHasRoom
  <2>7. clock' \in 0..MaxClock /\ \A f \in cached' : f.at <= clock'  BY <1>2 DEF DiskInv
  <2> QED BY <2>2, <2>4, <2>6, <2>7 DEF DiskInv, BudgetHolds
<1> QED BY <1>3, <1>4

\* The clock goes one on; the new file is none of those there.
LEMMA NewStamp ==
  ASSUME DiskInv, clock < MaxClock
  PROVE  /\ clock + 1 \in 0..MaxClock /\ clock + 1 \in 1..MaxClock
         /\ \A f \in cached : f.at <= clock + 1 /\ f.at # clock + 1 /\ f \in CachedFile
<1>1. clock \in Nat /\ MaxClock \in Nat /\ FilesAre(cached) /\ \A f \in cached : f.at <= clock  BY FilesAssumption DEF DiskInv
<1>2. \A f \in cached : f.at \in Nat /\ f \in CachedFile  BY <1>1, SizesAre DEF FilesAre
<1> QED BY <1>1, <1>2

LEMMA DiskPutTemporary == ASSUME DiskInv, PutTemporary PROVE DiskInv'
<1> DEFINE t == Target(TRUE, clock + 1)
<1>1. write \in HeldWrite /\ write.at = "reserved" /\ clock < MaxClock /\ FitsDisk(cached, write.size) /\ FilesAre(cached)
  BY DEF PutTemporary, DiskInv, WriteHasRoom, NoWrite
<1>2. /\ clock + 1 \in 0..MaxClock /\ clock + 1 \in 1..MaxClock
      /\ \A f \in cached : f.at <= clock + 1 /\ f.at # clock + 1
  BY <1>1, NewStamp
<1>3. t \in CachedFile /\ t \notin cached /\ t.size = write.size /\ t.at = clock + 1
  <2>1. t.at = clock + 1 /\ t.size = write.size  BY DEF Target
  <2>2. t \in CachedFile  BY <1>1, <1>2 DEF Target, CachedFile, HeldWrite
  <2> HIDE DEF t
  <2> QED BY <1>2, <2>1, <2>2
<1>4. cached' = cached \cup {t} /\ clock' = clock + 1 /\ write' = [write EXCEPT !.at = "temporary"]  BY DEF PutTemporary
<1>5. /\ FilesAre(cached') /\ TotalSize(cached') = TotalSize(cached) + write.size
      /\ Cardinality(cached') = Cardinality(cached) + 1
  <2> HIDE DEF t
  <2> QED BY <1>1, <1>3, <1>4, OneMoreFile
<1>6. TotalSize(cached') <= DiskLimit /\ Cardinality(cached') <= DiskEntries  BY <1>1, <1>5 DEF FitsDisk
<1>7. write' \in HeldWrite /\ write'.at = "temporary" /\ Target(TRUE, clock)' = t  BY <1>1, <1>4 DEF HeldWrite, Target
<1>8. WriteHasRoom'  BY <1>4, <1>7 DEF WriteHasRoom
<1>9. clock' \in 0..MaxClock /\ \A f \in cached' : f.at <= clock'
  <2> HIDE DEF t
  <2>1. clock + 1 <= clock + 1  BY <1>2
  <2> QED BY <1>2, <1>3, <1>4, <2>1
<1> QED BY <1>5, <1>6, <1>8, <1>9 DEF DiskInv, BudgetHolds

LEMMA DiskPutRename == ASSUME DiskInv, PutRename PROVE DiskInv'
<1> DEFINE old == Target(TRUE, clock)
           new == Target(FALSE, clock)
<1>1. write \in HeldWrite /\ write.at = "temporary" /\ old \in cached /\ FilesAre(cached)
  <2>1. write.at = "temporary"  BY DEF PutRename
  <2>2. write # NoWrite /\ WriteHasRoom /\ FilesAre(cached)  BY <2>1 DEF DiskInv, NoWrite
  <2>3. write \in HeldWrite /\ Target(TRUE, clock) \in cached  BY <2>1, <2>2 DEF WriteHasRoom
  <2> QED BY <2>1, <2>2, <2>3
<1>2. old.size = new.size /\ old.at = clock /\ new.at = clock /\ Is(new, write.kind, write.account, write.id)  BY DEF Target, Is
<1>3. PICK extra : cached' = {f \in cached : /\ f # old /\ f \notin extra
                                            /\ ~Is(f, write.kind, write.account, write.id)} \cup {new}
  BY DEF PutRename
<1> DEFINE keep == {f \in cached : f # old /\ f \notin extra /\ ~Is(f, write.kind, write.account, write.id)}
<1>4. keep \subseteq cached \ {old} /\ new \notin keep /\ cached' = keep \cup {new}  BY <1>2, <1>3
<1>5. clock \in 1..MaxClock /\ clock \in 0..MaxClock
  <2>1. old \in CachedFile  BY <1>1 DEF FilesAre
  <2>2. old.at \in 1..MaxClock
    <3> HIDE DEF old
    <3> QED BY <2>1, SizesAre
  <2> QED BY <1>2, <2>2 DEF DiskInv
<1>6. new \in CachedFile  BY <1>1, <1>5 DEF Target, CachedFile, HeldWrite
<1>7. TotalSize(cached) <= DiskLimit /\ Cardinality(cached) <= DiskEntries /\ \A f \in cached : f.at <= clock
  BY DEF DiskInv, BudgetHolds
<1> HIDE DEF old, new, keep
<1>8. FilesAre(cached') /\ TotalSize(cached') <= DiskLimit /\ Cardinality(cached') <= DiskEntries
  BY <1>1, <1>2, <1>4, <1>6, <1>7, SwapFile
<1>9. write' = NoWrite /\ clock' = clock  BY DEF PutRename
<1>10. \A f \in cached' : f.at <= clock'
  <2>1. clock <= clock  BY <1>5
  <2> QED BY <1>2, <1>4, <1>7, <1>9, <2>1
<1> QED BY <1>5, <1>8, <1>9, <1>10 DEF DiskInv, WriteHasRoom, NoWrite, BudgetHolds

LEMMA DiskTouch == ASSUME DiskInv, NEW f \in cached, Touch(f) PROVE DiskInv'
<1> DEFINE new == [f EXCEPT !.at = clock + 1]
           keep == cached \ {f}
<1>1. FilesAre(cached) /\ write = NoWrite /\ clock < MaxClock /\ cached' = keep \cup {new} /\ clock' = clock + 1 /\ write' = write
  BY DEF Touch, DiskInv
<1>2. /\ clock + 1 \in 0..MaxClock /\ clock + 1 \in 1..MaxClock
      /\ \A g \in cached : g.at <= clock + 1 /\ g.at # clock + 1 /\ g \in CachedFile
  BY <1>1, NewStamp
<1>3. new \in CachedFile /\ new.size = f.size /\ new.at = clock + 1  BY <1>2 DEF CachedFile
<1> HIDE DEF new
<1>4. new \notin keep /\ keep \subseteq cached \ {f}  BY <1>2, <1>3
<1> HIDE DEF keep
<1>5. FilesAre(cached') /\ TotalSize(cached') <= DiskLimit /\ Cardinality(cached') <= DiskEntries
  BY <1>1, <1>3, <1>4, SwapFile DEF DiskInv, BudgetHolds
<1>6. \A g \in cached' : g.at <= clock'
  <2>1. clock + 1 <= clock + 1  BY <1>2
  <2> QED BY <1>1, <1>2, <1>3, <1>4, <2>1
<1> QED BY <1>1, <1>2, <1>5, <1>6 DEF DiskInv, WriteHasRoom, NoWrite, BudgetHolds

LEMMA DiskStep == DiskInv /\ [FilesNext]_filesVars => DiskInv'
<1> SUFFICES ASSUME DiskInv, [FilesNext]_filesVars PROVE DiskInv'  OBVIOUS
<1>1. CASE UNCHANGED diskVars  BY <1>1 DEF diskVars, DiskInv, WriteHasRoom, BudgetHolds, Target
<1>2. CASE \E kind \in Kinds, a \in FAccounts, i \in CacheIds, size \in Sizes : PutBegin(kind, a, i, size)  BY <1>2, DiskPutBegin
<1>3. CASE PutCancelled \/ Crash \/ \E a \in FAccounts, kinds \in {{"resources"}, Kinds} : Clear(a, kinds)
  <2>1. cached' \subseteq cached /\ write' = NoWrite /\ clock' = clock  BY <1>3 DEF PutCancelled, Crash, Clear
  <2> QED BY <2>1, FilesGo
<1>4. CASE PutTemporary \/ PutRename \/ \E f \in cached : Touch(f)  BY <1>4, DiskPutTemporary, DiskPutRename, DiskTouch
<1>5. CASE RenderNext  BY <1>1, <1>5 DEF RenderNext, RenderGet, RenderPut, RenderInvalidate
<1> QED BY <1>1, <1>2, <1>3, <1>4, <1>5 DEF FilesNext, DiskNext, filesVars, diskVars

\* The files are within their budget at every moment, and the types are kept.
THEOREM DiskIsWithin == FilesSpec => []DiskInv
BY DiskStarts, DiskStep, PTL DEF FilesSpec

\* A write never takes the file it replaces before it has put the new one in its place.
LEMMA OldCopyStep ==
  ASSUME DiskInv, [FilesNext]_filesVars, write'.at # "none", NEW f \in cached, Is(f, write'.kind, write'.account, write'.id)
  PROVE  f \in cached'
<1>0. FilesAre(cached)  BY DEF DiskInv
<1>1. CASE \E kind \in Kinds, a \in FAccounts, i \in CacheIds, size \in Sizes : PutBegin(kind, a, i, size)
  <2>1. PICK kind \in Kinds, a \in FAccounts, i \in CacheIds, size \in Sizes : PutBegin(kind, a, i, size)  BY <1>1
  <2>2. write'.kind = kind /\ write'.account = a /\ write'.id = i /\ cached' = Reserved(kind, a, i, size)
    BY <2>1 DEF PutBegin, NoWrite
  <2>3. f \notin Spare(kind, a, i)  BY <2>2 DEF Spare
  <2> QED BY <1>0, <2>2, <2>3, ReservedIs
<1>2. CASE cached \subseteq cached' \/ write' = NoWrite  BY <1>2 DEF NoWrite
<1>3. ASSUME NEW g \in cached, Touch(g) PROVE write' = NoWrite  BY <1>3 DEF Touch
<1>4. ASSUME NEW a, NEW kinds, Clear(a, kinds) PROVE write' = NoWrite  BY <1>4 DEF Clear
<1>5. CASE PutCancelled \/ Crash \/ PutRename \/ PutTemporary \/ UNCHANGED diskVars
  BY <1>2, <1>5 DEF PutCancelled, Crash, PutRename, PutTemporary, diskVars
<1>6. CASE RenderNext  BY <1>5, <1>6 DEF RenderNext, RenderGet, RenderPut, RenderInvalidate
<1> QED BY <1>1, <1>2, <1>3, <1>4, <1>5, <1>6 DEF FilesNext, DiskNext, filesVars, diskVars

LEMMA OldestStep ==
  ASSUME DiskInv, [FilesNext]_filesVars, write = NoWrite, write'.at = "reserved",
         NEW f \in cached \ cached', NEW g \in cached'
  PROVE  f.at <= g.at \/ Is(g, write'.kind, write'.account, write'.id)
<1>0. FilesAre(cached)  BY DEF DiskInv
<1>1. CASE \E kind \in Kinds, a \in FAccounts, i \in CacheIds, size \in Sizes : PutBegin(kind, a, i, size)
  <2>1. PICK kind \in Kinds, a \in FAccounts, i \in CacheIds, size \in Sizes : PutBegin(kind, a, i, size)  BY <1>1
  <2>2. write'.kind = kind /\ write'.account = a /\ write'.id = i /\ cached' = Reserved(kind, a, i, size)
    BY <2>1 DEF PutBegin, NoWrite
  <2>3. g \in cached /\ (g \in Spare(kind, a, i) => f.at <= g.at)  BY <1>0, <2>2, ReservedIs
  <2>4. g \in Spare(kind, a, i) \/ Is(g, kind, a, i)  BY <2>3 DEF Spare
  <2> QED BY <2>2, <2>3, <2>4
<1>2. CASE cached \subseteq cached' \/ write' = NoWrite  BY <1>2 DEF NoWrite
<1>3. ASSUME NEW h \in cached, Touch(h) PROVE write' = NoWrite  BY <1>3 DEF Touch
<1>4. ASSUME NEW a, NEW kinds, Clear(a, kinds) PROVE write' = NoWrite  BY <1>4 DEF Clear
<1>5. CASE PutCancelled \/ Crash \/ PutRename \/ PutTemporary \/ UNCHANGED diskVars
  BY <1>2, <1>5 DEF PutCancelled, Crash, PutRename, PutTemporary, diskVars
<1>6. CASE RenderNext  BY <1>5, <1>6 DEF RenderNext, RenderGet, RenderPut, RenderInvalidate
<1> QED BY <1>1, <1>2, <1>3, <1>4, <1>5, <1>6 DEF FilesNext, DiskNext, filesVars, diskVars

\* A write that is cancelled or cut short leaves the old copy.
THEOREM OldCopyStays == FilesSpec => OldCopyKept
<1>1. DiskInv /\ [FilesNext]_filesVars =>
        [write'.at # "none" => \A f \in cached : Is(f, write'.kind, write'.account, write'.id) => f \in cached']_filesVars
  BY OldCopyStep
<1> QED BY <1>1, DiskIsWithin, PTL DEF FilesSpec, OldCopyKept

\* Only the oldest files make room.
THEOREM OldestMakeRoom == FilesSpec => OldestGoFirst
<1>1. DiskInv /\ [FilesNext]_filesVars =>
        [write = NoWrite /\ write'.at = "reserved" =>
           \A f \in cached \ cached', g \in cached' :
             f.at <= g.at \/ Is(g, write'.kind, write'.account, write'.id)]_filesVars
  BY OldestStep
<1> QED BY <1>1, DiskIsWithin, PTL DEF FilesSpec, OldestGoFirst

------------------------------------
(* The rendered messages. *)

RenderEntry == [account : FAccounts, id : CacheIds, key : {1, 2}, size : Sizes]
OneEach(s) == \A m, n \in DOMAIN s : s[m].account = s[n].account /\ s[m].id = s[n].id => m = n
OwnWithin(s) == \A a \in FAccounts : Cardinality(RenderedOf(s, a)) <= RenderPerAccount
RenderInv == rendered \in Seq(RenderEntry) /\ RenderAccounts

LEMMA EntriesAre ==
  ASSUME NEW s \in Seq(RenderEntry)
  PROVE  /\ Len(s) \in Nat /\ DOMAIN s = 1..Len(s) /\ \A n \in 1..Len(s) : s[n] \in RenderEntry /\ s[n].size \in Nat
         /\ [n \in DOMAIN s |-> s[n].size] \in [1..Len(s) -> Nat] /\ RenderSize(s) \in Nat
         /\ \A a : RenderedOf(s, a) \subseteq 1..Len(s) /\ IsFiniteSet(RenderedOf(s, a)) /\ Cardinality(RenderedOf(s, a)) \in Nat
<1>1. Len(s) \in Nat /\ DOMAIN s = 1..Len(s) /\ \A n \in 1..Len(s) : s[n] \in RenderEntry  OBVIOUS
<1>2. \A e \in RenderEntry : e.size \in Nat
  <2>1. Sizes \subseteq Nat  BY FilesAssumption
  <2> QED BY <2>1 DEF RenderEntry
<1>3. [n \in DOMAIN s |-> s[n].size] \in [1..Len(s) -> Nat]  BY <1>1, <1>2
<1>4. RenderSize(s) \in Nat
  <2> DEFINE f == [n \in DOMAIN s |-> s[n].size]
             D == 1..Len(s)
  <2>1. f \in [D -> Nat] /\ IsFiniteSet(D)  BY <1>1, <1>3, PlacesAre
  <2> HIDE DEF f, D
  <2>2. Total(f) \in Nat  BY <2>1, TotalIs
  <2> QED BY <2>2 DEF RenderSize, f
<1>5. ASSUME NEW a PROVE RenderedOf(s, a) \subseteq 1..Len(s) /\ IsFiniteSet(RenderedOf(s, a)) /\ Cardinality(RenderedOf(s, a)) \in Nat
  <2>1. RenderedOf(s, a) \subseteq 1..Len(s)  BY <1>1 DEF RenderedOf
  <2> QED BY <1>1, <2>1, PlacesAre
<1> QED BY <1>1, <1>2, <1>3, <1>4, <1>5

\* A part of the entries takes no more, in all and for each account.
LEMMA EntriesDrawn ==
  ASSUME NEW s \in Seq(RenderEntry), NEW t \in Seq(RenderEntry), Drawn(t, s)
  PROVE  /\ RenderSize(t) <= RenderSize(s) /\ Len(t) <= Len(s) /\ (OneEach(s) => OneEach(t))
         /\ \A a : Cardinality(RenderedOf(t, a)) <= Cardinality(RenderedOf(s, a))
         /\ \A n \in 1..Len(t) : \E m \in 1..Len(s) : t[n] = s[m]
<1>1. PICK h : DrawnBy(t, s, h)  BY DEF Drawn
<1>2. /\ Len(s) \in Nat /\ DOMAIN s = 1..Len(s) /\ [n \in DOMAIN s |-> s[n].size] \in [1..Len(s) -> Nat]
      /\ Len(t) \in Nat /\ DOMAIN t = 1..Len(t) /\ [n \in DOMAIN t |-> t[n].size] \in [1..Len(t) -> Nat]
      /\ RenderSize(s) \in Nat /\ RenderSize(t) \in Nat
  BY EntriesAre
<1>3. \A n \in 1..Len(t) : h[n] \in 1..Len(s) /\ t[n] = s[h[n]]  BY <1>1 DEF DrawnBy
<1>4. \A m, n \in 1..Len(t) : h[m] = h[n] => m = n  BY <1>1 DEF DrawnBy
<1>5. RenderSize(t) <= RenderSize(s)
  <2> DEFINE f == [n \in DOMAIN s |-> s[n].size]
             g == [n \in DOMAIN t |-> t[n].size]
  <2>1. Counts(f) /\ Counts(g) /\ DOMAIN f = 1..Len(s) /\ DOMAIN g = 1..Len(t)  BY <1>2, EntriesAre DEF Counts
  <2>2. \A n \in 1..Len(t) : g[n] = f[h[n]]  BY <1>2, <1>3
  <2>3. IsFiniteSet(1..Len(s)) /\ h \in [1..Len(t) -> 1..Len(s)]  BY <1>1, <1>2, PlacesAre DEF DrawnBy
  <2> HIDE DEF f, g
  <2>4. GoesInto(g, f, h)  BY <1>4, <2>1, <2>2, <2>3 DEF GoesInto
  <2>5. Total(g) <= Total(f)  BY <2>1, <2>4, TotalDrawn
  <2> QED BY <2>5 DEF RenderSize, f, g
<1>6. ASSUME NEW a PROVE Cardinality(RenderedOf(t, a)) <= Cardinality(RenderedOf(s, a))
  <2>1. RenderedOf(t, a) \subseteq 1..Len(t) /\ RenderedOf(s, a) \subseteq 1..Len(s)  BY EntriesAre
  <2>2. \A n \in RenderedOf(t, a) : h[n] \in RenderedOf(s, a)  BY <1>2, <1>3 DEF RenderedOf
  <2> QED BY <1>1, <1>2, <2>1, <2>2, DrawnFewer
<1>7. OneEach(s) => OneEach(t)
  <2> SUFFICES ASSUME OneEach(s), NEW m \in 1..Len(t), NEW n \in 1..Len(t), t[m].account = t[n].account, t[m].id = t[n].id
               PROVE  m = n
    BY <1>2 DEF OneEach
  <2>1. h[m] \in DOMAIN s /\ h[n] \in DOMAIN s /\ t[m] = s[h[m]] /\ t[n] = s[h[n]]  BY <1>2, <1>3
  <2>2. h[m] = h[n]  BY <2>1 DEF OneEach
  <2> QED BY <1>4, <2>2
<1>8. Len(t) <= Len(s)  BY <1>1, <1>2, DrawnLen DEF Drawn
<1> QED BY <1>3, <1>5, <1>6, <1>7, <1>8

LEMMA EntryAdds ==
  ASSUME NEW s \in Seq(RenderEntry), NEW e \in RenderEntry
  PROVE  LET t == Append(s, e) IN
         /\ t \in Seq(RenderEntry) /\ Len(t) = Len(s) + 1 /\ RenderSize(t) = RenderSize(s) + e.size
         /\ \A a : a # e.account => Cardinality(RenderedOf(t, a)) = Cardinality(RenderedOf(s, a))
         /\ Cardinality(RenderedOf(t, e.account)) = Cardinality(RenderedOf(s, e.account)) + 1
         /\ OneEach(s) /\ (\A n \in 1..Len(s) : ~(s[n].account = e.account /\ s[n].id = e.id)) => OneEach(t)
<1> DEFINE t == Append(s, e)
           x == Len(s) + 1
           D == 1..Len(t)
           E == 1..Len(s)
<1>1. /\ t \in Seq(RenderEntry) /\ Len(t) = Len(s) + 1 /\ t[x] = e /\ (\A n \in E : t[n] = s[n])
      /\ E = D \ {x} /\ x \in D /\ IsFiniteSet(D) /\ IsFiniteSet(E) /\ D = E \cup {x} /\ x \notin E
  BY OnePlaceMore
<1> HIDE DEF t
<1>2. /\ DOMAIN s = E /\ [n \in DOMAIN s |-> s[n].size] \in [E -> Nat]
      /\ DOMAIN t = D /\ [n \in DOMAIN t |-> t[n].size] \in [D -> Nat]
  BY <1>1, EntriesAre
<1> HIDE DEF D, E, x
<1>3. RenderSize(t) = RenderSize(s) + e.size
  <2> DEFINE f == [n \in DOMAIN s |-> s[n].size]
             g == [n \in DOMAIN t |-> t[n].size]
  <2>1. Counts(f) /\ Counts(g) /\ DOMAIN f = E /\ DOMAIN g = D /\ g[x] = e.size  BY <1>1, <1>2 DEF Counts
  <2>2. \A n \in E : g[n] = f[n]  BY <1>1, <1>2
  <2> HIDE DEF f, g
  <2>3. OneMore(f, g, x)  BY <1>1, <2>1, <2>2 DEF OneMore
  <2>4. Total(g) = Total(f) + g[x]  BY <2>1, <2>3, TotalAdds
  <2> QED BY <2>1, <2>4 DEF RenderSize, f, g
<1>4. ASSUME NEW a, a # e.account PROVE RenderedOf(t, a) = RenderedOf(s, a)  BY <1>1, <1>2, <1>4 DEF RenderedOf
<1>5. Cardinality(RenderedOf(t, e.account)) = Cardinality(RenderedOf(s, e.account)) + 1
  <2>1. RenderedOf(t, e.account) = RenderedOf(s, e.account) \cup {x} /\ x \notin RenderedOf(s, e.account)
    BY <1>1, <1>2 DEF RenderedOf
  <2>2. IsFiniteSet(RenderedOf(s, e.account))  BY EntriesAre
  <2> QED BY <2>1, <2>2, FS_AddElement
<1>6. OneEach(s) /\ (\A n \in E : ~(s[n].account = e.account /\ s[n].id = e.id)) => OneEach(t)  BY <1>1, <1>2 DEF OneEach
<1> QED BY <1>1, <1>3, <1>4, <1>5, <1>6 DEF t, x, E

LEMMA RenderNone ==
  /\ <<>> \in Seq(RenderEntry) /\ Len(<<>>) = 0 /\ RenderSize(<<>>) = 0 /\ OneEach(<<>>)
  /\ RenderLimit \in Nat /\ RenderEntries \in Nat /\ RenderPerAccount \in Nat /\ \A a : Cardinality(RenderedOf(<<>>, a)) = 0
<1>1. <<>> \in Seq(RenderEntry) /\ DOMAIN <<>> = {} /\ Len(<<>>) = 0  OBVIOUS
<1>2. RenderSize(<<>>) = 0
  <2>1. [n \in DOMAIN <<>> |-> <<>>[n].size] \in [{} -> Nat]  BY <1>1
  <2>2. Total([n \in DOMAIN <<>> |-> <<>>[n].size]) = 0  BY <2>1, TotalIs, FS_EmptySet
  <2> QED BY <2>2 DEF RenderSize
<1>3. \A a : Cardinality(RenderedOf(<<>>, a)) = 0
  <2>1. \A a : RenderedOf(<<>>, a) = {}  BY <1>1 DEF RenderedOf
  <2> QED BY <2>1, FS_EmptySet
<1>4. OneEach(<<>>)  BY <1>1 DEF OneEach
<1>5. RenderLimit \in Nat /\ RenderEntries \in Nat /\ RenderPerAccount \in Nat  BY FilesAssumption
<1> QED BY <1>1, <1>2, <1>3, <1>4, <1>5

LEMMA RenderStarts == FilesInit => RenderInv
<1> SUFFICES ASSUME FilesInit PROVE RenderInv  OBVIOUS
<1>1. rendered = <<>> /\ bytes = 0  BY DEF FilesInit
<1>2. /\ 0 = RenderSize(rendered) /\ Len(rendered) = 0 /\ OneEach(rendered) /\ rendered \in Seq(RenderEntry)
      /\ RenderLimit \in Nat /\ RenderEntries \in Nat /\ RenderPerAccount \in Nat /\ \A a : Cardinality(RenderedOf(rendered, a)) = 0
  BY <1>1, RenderNone
<1> QED BY <1>1, <1>2 DEF RenderInv, RenderAccounts, OneEach

\* Fewer entries keep every limit.
LEMMA PartWithin ==
  ASSUME RenderInv, NEW t \in Seq(RenderEntry), Drawn(t, rendered)
  PROVE  /\ RenderSize(t) \in Nat /\ RenderSize(t) <= RenderLimit /\ Len(t) <= RenderEntries /\ OwnWithin(t) /\ OneEach(t)
         /\ RenderSize(rendered) \in Nat /\ bytes = RenderSize(rendered)
<1>1. /\ rendered \in Seq(RenderEntry) /\ bytes = RenderSize(rendered) /\ bytes <= RenderLimit
      /\ Len(rendered) <= RenderEntries /\ OwnWithin(rendered) /\ OneEach(rendered)
  BY DEF RenderInv, RenderAccounts, OwnWithin, OneEach
<1>2. /\ RenderSize(t) <= RenderSize(rendered) /\ Len(t) <= Len(rendered) /\ OneEach(t)
      /\ \A a : Cardinality(RenderedOf(t, a)) <= Cardinality(RenderedOf(rendered, a))
  BY <1>1, EntriesDrawn
<1>3. /\ RenderSize(t) \in Nat /\ RenderSize(rendered) \in Nat /\ Len(t) \in Nat /\ Len(rendered) \in Nat
      /\ \A a : Cardinality(RenderedOf(t, a)) \in Nat /\ Cardinality(RenderedOf(rendered, a)) \in Nat
  BY <1>1, EntriesAre
<1>4. RenderLimit \in Nat /\ RenderEntries \in Nat /\ RenderPerAccount \in Nat  BY FilesAssumption
<1>5. RenderSize(t) <= RenderLimit /\ Len(t) <= RenderEntries  BY <1>1, <1>2, <1>3, <1>4
<1>6. OwnWithin(t)
  <2> SUFFICES ASSUME NEW a \in FAccounts PROVE Cardinality(RenderedOf(t, a)) <= RenderPerAccount  BY DEF OwnWithin
  <2>1. Cardinality(RenderedOf(rendered, a)) <= RenderPerAccount  BY <1>1 DEF OwnWithin
  <2> QED BY <1>2, <1>3, <1>4, <2>1
<1> QED BY <1>1, <1>2, <1>3, <1>5, <1>6

LEMMA WithoutIs ==
  ASSUME NEW s \in Seq(RenderEntry), NEW a, NEW ids
  PROVE  /\ Without(s, a, ids) \in Seq(RenderEntry) /\ Drawn(Without(s, a, ids), s)
         /\ \A n \in 1..Len(Without(s, a, ids)) : ~(Without(s, a, ids)[n].account = a /\ Without(s, a, ids)[n].id \in ids)
<1> DEFINE K == {n \in DOMAIN s : ~(s[n].account = a /\ s[n].id \in ids)}
           t == Without(s, a, ids)
<1>1. K \subseteq 1..Len(s) /\ t = Picked(s, K)  BY DEF Without
<1>2. \A n \in K : ~(s[n].account = a /\ s[n].id \in ids)  OBVIOUS
<1> HIDE DEF K, t
<1>3. t \in Seq(RenderEntry) /\ DrawnBy(t, s, Rising(K)) /\ Rising(K) \in [1..Len(t) -> K]  BY <1>1, PickedIs
<1>4. \A n \in 1..Len(t) : Rising(K)[n] \in K /\ t[n] = s[Rising(K)[n]]  BY <1>3 DEF DrawnBy
<1> QED BY <1>2, <1>3, <1>4 DEF t, Drawn

LEMMA RenderGetStep == ASSUME RenderInv, NEW n \in DOMAIN rendered, RenderGet(n) PROVE RenderInv'
<1>1. rendered \in Seq(RenderEntry) /\ n \in 1..Len(rendered)  BY DEF RenderInv
<1>2. rendered' \in Seq(RenderEntry) /\ Drawn(rendered', rendered) /\ Drawn(rendered, rendered')  BY <1>1, MovedLast DEF RenderGet
<1>3. /\ RenderSize(rendered') \in Nat /\ RenderSize(rendered') <= RenderLimit /\ Len(rendered') <= RenderEntries
      /\ OwnWithin(rendered') /\ OneEach(rendered') /\ RenderSize(rendered) \in Nat /\ bytes = RenderSize(rendered)
  BY <1>2, PartWithin
<1>4. RenderSize(rendered') = RenderSize(rendered)
  <2>1. RenderSize(rendered') <= RenderSize(rendered) /\ RenderSize(rendered) <= RenderSize(rendered')  BY <1>1, <1>2, EntriesDrawn
  <2> QED BY <1>3, <2>1
<1>5. bytes' = bytes  BY DEF RenderGet
<1> QED BY <1>2, <1>3, <1>4, <1>5 DEF RenderInv, RenderAccounts, OwnWithin, OneEach

LEMMA RenderInvalidateStep == ASSUME RenderInv, NEW a, NEW ids, RenderInvalidate(a, ids) PROVE RenderInv'
<1>1. rendered \in Seq(RenderEntry)  BY DEF RenderInv
<1>2. rendered' \in Seq(RenderEntry) /\ Drawn(rendered', rendered)  BY <1>1, WithoutIs DEF RenderInvalidate
<1>3. /\ RenderSize(rendered') \in Nat /\ RenderSize(rendered') <= RenderLimit /\ Len(rendered') <= RenderEntries
      /\ OwnWithin(rendered') /\ OneEach(rendered') /\ RenderSize(rendered) \in Nat /\ bytes = RenderSize(rendered)
  BY <1>2, PartWithin
<1>4. bytes' = bytes - (RenderSize(rendered) - RenderSize(rendered'))  BY DEF RenderInvalidate
<1>5. bytes' = RenderSize(rendered')  BY <1>3, <1>4
<1> QED BY <1>2, <1>3, <1>5 DEF RenderInv, RenderAccounts, OwnWithin, OneEach

\* Room is made for one more entry of the account, and for its size.
LEMMA RoomIs ==
  ASSUME NEW s \in Seq(RenderEntry), NEW a
  PROVE  /\ RoomForOwn(s, a) \in Seq(RenderEntry) /\ Drawn(RoomForOwn(s, a), s)
         /\ Cardinality(RenderedOf(RoomForOwn(s, a), a)) < RenderPerAccount
<1> DEFINE hits == RenderedOf(s, a)
           W == WithoutOldest(s, hits)
           G == {t \in W : Cardinality(RenderedOf(t, a)) < RenderPerAccount}
           last == Picked(s, (1..Len(s)) \ hits)
<1>1. hits \subseteq 1..Len(s) /\ Len(s) \in Nat /\ DOMAIN s = 1..Len(s)  BY EntriesAre
<1>2. (\A t \in W : t \in Seq(RenderEntry) /\ Len(t) \in 0..Len(s) /\ Drawn(t, s)) /\ last \in W
  <2> HIDE DEF hits
  <2> QED BY <1>1, OldestCut
<1>3. last \in G
  <2> DEFINE K == (1..Len(s)) \ hits
  <2>1. K \subseteq 1..Len(s) /\ \A n \in K : s[n].account # a  BY <1>1 DEF RenderedOf
  <2> HIDE DEF K, hits
  <2>2. last \in Seq(RenderEntry) /\ DrawnBy(last, s, Rising(K)) /\ Rising(K) \in [1..Len(last) -> K]  BY <2>1, PickedIs DEF K
  <2> HIDE DEF last
  <2>3. \A n \in 1..Len(last) : last[n].account # a  BY <2>1, <2>2 DEF DrawnBy
  <2>4. RenderedOf(last, a) = {}  BY <2>2, <2>3 DEF RenderedOf
  <2>5. Cardinality(RenderedOf(last, a)) < RenderPerAccount
    <3>1. RenderPerAccount \in Nat /\ RenderPerAccount >= 1  BY FilesAssumption
    <3> QED BY <2>4, <3>1, FS_EmptySet
  <2> QED BY <1>2, <2>5
<1> HIDE DEF last
<1>4. RoomForOwn(s, a) = Longest(G)  BY DEF RoomForOwn
<1>5. G # {} /\ \A t \in G : Len(t) \in 0..Len(s)  BY <1>2, <1>3
<1>6. Longest(G) \in G
  <2> HIDE DEF G
  <2> QED BY <1>1, <1>5, LongestIs
<1>7. RoomForOwn(s, a) \in W /\ Cardinality(RenderedOf(RoomForOwn(s, a), a)) < RenderPerAccount  BY <1>4, <1>6
<1> QED BY <1>2, <1>7

LEMMA RoomForAllIs ==
  ASSUME NEW s \in Seq(RenderEntry), NEW size \in Nat, size <= RenderLimit
  PROVE  LET t == RoomForAll(s, size) IN
         t \in Seq(RenderEntry) /\ Drawn(t, s) /\ RenderSize(t) + size <= RenderLimit /\ Len(t) < RenderEntries
<1> DEFINE W == WithoutOldest(s, DOMAIN s)
           G == {t \in W : RenderSize(t) + size <= RenderLimit /\ Len(t) < RenderEntries}
           last == Picked(s, (1..Len(s)) \ (1..Len(s)))
<1>1. Len(s) \in Nat /\ DOMAIN s = 1..Len(s) /\ 1..Len(s) \subseteq 1..Len(s)  BY EntriesAre
<1>2. (\A t \in W : t \in Seq(RenderEntry) /\ Len(t) \in 0..Len(s) /\ Drawn(t, s)) /\ last \in W  BY <1>1, OldestCut
<1>3. last \in G
  <2>1. (1..Len(s)) \ (1..Len(s)) = {} /\ {} \subseteq 1..Len(s)  OBVIOUS
  <2>2. last = Picked(s, {})  BY <2>1
  <2>3. Picked(s, {}) \in Seq(RenderEntry) /\ Len(Picked(s, {})) = Cardinality({})  BY <2>1, PickedIs
  <2>4. last \in Seq(RenderEntry) /\ Len(last) = 0 /\ DOMAIN last = {}  BY <2>2, <2>3, FS_EmptySet
  <2> HIDE DEF last
  <2>5. RenderSize(last) = 0
    <3>1. [n \in DOMAIN last |-> last[n].size] \in [{} -> Nat]  BY <2>4
    <3>2. Total([n \in DOMAIN last |-> last[n].size]) = 0  BY <3>1, TotalIs, FS_EmptySet
    <3> QED BY <3>2 DEF RenderSize
  <2>6. RenderEntries \in Nat /\ RenderEntries >= 1 /\ RenderLimit \in Nat  BY FilesAssumption
  <2>7. RenderSize(last) + size <= RenderLimit /\ Len(last) < RenderEntries  BY <2>4, <2>5, <2>6
  <2> QED BY <1>2, <2>7
<1> HIDE DEF last
<1>4. RoomForAll(s, size) = Longest(G)  BY DEF RoomForAll
<1>5. G # {} /\ \A t \in G : Len(t) \in 0..Len(s)  BY <1>2, <1>3
<1>6. Longest(G) \in G
  <2> HIDE DEF G
  <2> QED BY <1>1, <1>5, LongestIs
<1>7. /\ RoomForAll(s, size) \in W
      /\ RenderSize(RoomForAll(s, size)) + size <= RenderLimit /\ Len(RoomForAll(s, size)) < RenderEntries
  BY <1>4, <1>6
<1> QED BY <1>2, <1>7

LEMMA RenderPutStep ==
  ASSUME RenderInv, NEW a \in FAccounts, NEW i \in CacheIds, NEW key \in {1, 2}, NEW size \in Sizes, RenderPut(a, i, key, size)
  PROVE  RenderInv'
<1>0. RenderLimit \in Nat /\ RenderEntries \in Nat /\ RenderPerAccount \in Nat /\ size \in Nat
  <2>1. Sizes \subseteq Nat  BY FilesAssumption
  <2> QED BY <2>1, FilesAssumption
<1>1. CASE 2 * size > RenderLimit  BY <1>1 DEF RenderPut, renderVars, RenderInv, RenderAccounts
<1>2. CASE ~(2 * size > RenderLimit)
  <2> DEFINE w == Without(rendered, a, {i})
             own == RoomForOwn(w, a)
             all == RoomForAll(own, size)
             e == [account |-> a, id |-> i, key |-> key, size |-> size]
  <2>1. rendered \in Seq(RenderEntry) /\ size <= RenderLimit  BY <1>0, <1>2 DEF RenderInv
  <2>2. rendered' = Append(all, e) /\ bytes' = bytes - (RenderSize(rendered) - RenderSize(all)) + size  BY <1>2 DEF RenderPut
  <2>3. e \in RenderEntry /\ e.account = a /\ e.id = i /\ e.size = size  BY DEF RenderEntry
  <2> HIDE DEF e
  <2>4. w \in Seq(RenderEntry) /\ Drawn(w, rendered) /\ \A n \in 1..Len(w) : ~(w[n].account = a /\ w[n].id = i)  BY <2>1, WithoutIs
  <2> HIDE DEF w
  <2>5. own \in Seq(RenderEntry) /\ Drawn(own, w) /\ Cardinality(RenderedOf(own, a)) < RenderPerAccount  BY <2>4, RoomIs
  <2> HIDE DEF own
  <2>6. all \in Seq(RenderEntry) /\ Drawn(all, own) /\ RenderSize(all) + size <= RenderLimit /\ Len(all) < RenderEntries
    BY <1>0, <2>1, <2>5, RoomForAllIs
  <2> HIDE DEF all
  <2>7. Drawn(all, w) /\ Drawn(all, rendered)  BY <2>4, <2>5, <2>6, DrawnTwice
  <2>8. /\ RenderSize(all) \in Nat /\ OwnWithin(all) /\ OneEach(all) /\ RenderSize(rendered) \in Nat /\ bytes = RenderSize(rendered)
    BY <2>6, <2>7, PartWithin
  <2>9. /\ rendered' \in Seq(RenderEntry) /\ Len(rendered') = Len(all) + 1 /\ RenderSize(rendered') = RenderSize(all) + size
        /\ \A b : b # a => Cardinality(RenderedOf(rendered', b)) = Cardinality(RenderedOf(all, b))
        /\ Cardinality(RenderedOf(rendered', a)) = Cardinality(RenderedOf(all, a)) + 1
        /\ OneEach(all) /\ (\A n \in 1..Len(all) : ~(all[n].account = a /\ all[n].id = i)) => OneEach(rendered')
    BY <2>2, <2>3, <2>6, EntryAdds
  <2>10. \A n \in 1..Len(all) : ~(all[n].account = a /\ all[n].id = i)
    <3>1. \A n \in 1..Len(all) : \E m \in 1..Len(w) : all[n] = w[m]  BY <2>4, <2>6, <2>7, EntriesDrawn
    <3> QED BY <2>4, <3>1
  <2>11. bytes' = RenderSize(rendered') /\ bytes' <= RenderLimit /\ Len(rendered') <= RenderEntries
    <3>1. Len(all) \in Nat  BY <2>6, EntriesAre
    <3> QED BY <1>0, <2>2, <2>6, <2>8, <2>9, <3>1
  <2>12. OwnWithin(rendered')
    <3> SUFFICES ASSUME NEW b \in FAccounts PROVE Cardinality(RenderedOf(rendered', b)) <= RenderPerAccount  BY DEF OwnWithin
    <3>1. CASE b # a  BY <2>8, <2>9, <3>1 DEF OwnWithin
    <3>2. CASE b = a
      <4>1. Cardinality(RenderedOf(all, a)) <= Cardinality(RenderedOf(own, a))  BY <2>5, <2>6, EntriesDrawn
      <4>2. Cardinality(RenderedOf(all, a)) \in Nat /\ Cardinality(RenderedOf(own, a)) \in Nat  BY <2>5, <2>6, EntriesAre
      <4> QED BY <1>0, <2>5, <2>9, <3>2, <4>1, <4>2
    <3> QED BY <3>1, <3>2
  <2> QED BY <2>8, <2>9, <2>10, <2>11, <2>12 DEF RenderInv, RenderAccounts, OwnWithin, OneEach
<1> QED BY <1>1, <1>2

LEMMA RenderStep == RenderInv /\ [FilesNext]_filesVars => RenderInv'
<1> SUFFICES ASSUME RenderInv, [FilesNext]_filesVars PROVE RenderInv'  OBVIOUS
<1>1. CASE UNCHANGED renderVars  BY <1>1 DEF renderVars, RenderInv, RenderAccounts
<1>2. CASE RenderNext  BY <1>2, RenderGetStep, RenderPutStep, RenderInvalidateStep DEF RenderNext
<1>3. CASE Crash
  <2>1. rendered' = <<>> /\ bytes' = 0  BY <1>3 DEF Crash
  <2>2. /\ 0 = RenderSize(rendered') /\ Len(rendered') = 0 /\ OneEach(rendered') /\ rendered' \in Seq(RenderEntry)
        /\ RenderLimit \in Nat /\ RenderEntries \in Nat /\ RenderPerAccount \in Nat /\ \A a : Cardinality(RenderedOf(rendered', a)) = 0
    BY <2>1, RenderNone
  <2> QED BY <2>1, <2>2 DEF RenderInv, RenderAccounts, OneEach
<1>4. CASE DiskNext /\ ~Crash
  <2>1. UNCHANGED renderVars  BY <1>4 DEF DiskNext, PutBegin, PutCancelled, PutTemporary, PutRename, Touch, Clear
  <2> QED BY <1>1, <2>1
<1> QED BY <1>1, <1>2, <1>3, <1>4 DEF FilesNext, filesVars, renderVars

\* The rendered messages keep their limits and their count.
THEOREM RenderIsWithin == FilesSpec => []RenderAccounts
<1>1. FilesSpec => []RenderInv  BY RenderStarts, RenderStep, PTL DEF FilesSpec
<1>2. RenderInv => RenderAccounts  BY DEF RenderInv
<1> QED BY <1>1, <1>2, PTL

LEMMA DiskAndRender == DiskInv /\ RenderInv => FilesTypeOK /\ BudgetHolds
<1> SUFFICES ASSUME DiskInv, RenderInv PROVE FilesTypeOK /\ BudgetHolds  OBVIOUS
<1>1. cached \subseteq CachedFile /\ clock \in 0..MaxClock /\ BudgetHolds  BY DEF DiskInv, FilesAre
<1>2. write.at \in {"none", "reserved", "temporary"}  BY DEF DiskInv, WriteHasRoom, NoWrite, HeldWrite
<1>3. bytes \in Nat  BY EntriesAre DEF RenderInv, RenderAccounts
<1> QED BY <1>1, <1>2, <1>3 DEF FilesTypeOK, CachedFile

(* The files of the cache are what they should be and keep to the budget, crashes in the middle of a write and the
   temporary files they leave included. *)
THEOREM FilesAreWithin == FilesSpec => [](FilesTypeOK /\ BudgetHolds)
<1>1. FilesSpec => []RenderInv  BY RenderStarts, RenderStep, PTL DEF FilesSpec
<1> QED BY <1>1, DiskIsWithin, DiskAndRender, PTL

------------------------------------
(* Opening a message (MailReader), for any messages, requests and limits. *)

ReaderEntry == [mail : ReaderMails, key : Nat, by : Opens]
OpenRecord == [pc : {"new", "fetch", "disk", "store", "render", "done"}, mail : ReaderMails \cup {NoMail}, cache : BOOLEAN,
               live : BOOLEAN, future : BOOLEAN,
               answer : {"none", "refused", "failed", "null", "cancelled", "opened", "cut"}]
OpenRecords == {o \in OpenRecord : o.pc \in {"fetch", "disk", "store", "render"} => o.mail \in ReaderMails}
\* Who is cut off is not live, and no more are registered than the limit.
OpensInv == /\ rdOpen \in [Opens -> OpenRecords]
            /\ IsFiniteSet(OpenRegistered) /\ Cardinality(OpenRegistered) <= JobCap
            /\ rdCut \subseteq Opens /\ \A r \in Opens : rdOpen[r].live => r \notin rdCut
KeysWithin(s, last) == \A n \in DOMAIN s : s[n].key <= last
OneOfKey(s) == \A i, j \in DOMAIN s : s[i].key = s[j].key => i = j
ShareWithin(s) == \A m \in ReaderMails : Cardinality(OfAccount(s, m.acc)) <= StoreShare
KeptInv == /\ rdStore \in Seq(ReaderEntry) /\ rdSequence \in Nat /\ KeysWithin(rdStore, rdSequence)
           /\ rdBytes = SumBytes(rdStore) /\ rdBytes <= StoreBytes /\ Len(rdStore) <= StoreCap
           /\ ShareWithin(rdStore) /\ OneOfKey(rdStore)
TombsInv == rdTombs \in Seq(Opens) /\ Len(rdTombs) <= TombCap
ReaderInv == OpensInv /\ KeptInv /\ TombsInv /\ DOMAIN rdDisk = ReaderMails

LEMMA OpenChanges ==
  ASSUME OpensInv, NEW r \in Opens, NEW o \in OpenRecords, rdOpen' = [rdOpen EXCEPT ![r] = o],
         o.future => rdOpen[r].future \/ Cardinality(OpenRegistered) < JobCap,
         o.live => r \notin rdCut', rdCut' \subseteq rdCut \cup {r}
  PROVE  OpensInv'
<1>1. rdOpen \in [Opens -> OpenRecords] /\ IsFiniteSet(OpenRegistered) /\ Cardinality(OpenRegistered) <= JobCap  BY DEF OpensInv
<1>2. rdOpen' \in [Opens -> OpenRecords] /\ rdOpen'[r] = o /\ \A q \in Opens \ {r} : rdOpen'[q] = rdOpen[q]  BY <1>1
<1>3. OpenRegistered' \subseteq OpenRegistered \cup (IF o.future THEN {r} ELSE {})  BY <1>2 DEF OpenRegistered
<1>4. CASE o.future => rdOpen[r].future
  <2>1. OpenRegistered' \in SUBSET OpenRegistered  BY <1>3, <1>4 DEF OpenRegistered
  <2>2. IsFiniteSet(OpenRegistered') /\ Cardinality(OpenRegistered') <= Cardinality(OpenRegistered)  BY <1>1, <2>1, FS_Subset
  <2>3. Cardinality(OpenRegistered') \in Nat /\ Cardinality(OpenRegistered) \in Nat /\ JobCap \in Nat
    BY <1>1, <2>2, FS_CardinalityType, ReaderBounds
  <2>4. Cardinality(OpenRegistered') <= JobCap  BY <1>1, <2>2, <2>3
  <2>5. rdCut' \subseteq Opens /\ \A q \in Opens : rdOpen'[q].live => q \notin rdCut'  BY <1>2 DEF OpensInv
  <2> QED BY <1>2, <2>2, <2>4, <2>5 DEF OpensInv
<1>5. CASE o.future /\ ~rdOpen[r].future
  <2>1. OpenRegistered' \in SUBSET (OpenRegistered \cup {r})  BY <1>3, <1>5
  <2>2. IsFiniteSet(OpenRegistered \cup {r}) /\ Cardinality(OpenRegistered \cup {r}) = Cardinality(OpenRegistered) + 1
    <3>1. r \notin OpenRegistered  BY <1>5 DEF OpenRegistered
    <3> QED BY <1>1, <3>1, FS_AddElement
  <2>3. IsFiniteSet(OpenRegistered') /\ Cardinality(OpenRegistered') <= Cardinality(OpenRegistered) + 1  BY <2>1, <2>2, FS_Subset
  <2>4. Cardinality(OpenRegistered') \in Nat /\ Cardinality(OpenRegistered) \in Nat /\ JobCap \in Nat
    BY <1>1, <2>3, FS_CardinalityType, ReaderBounds
  <2>5. Cardinality(OpenRegistered') <= JobCap
    <3>1. Cardinality(OpenRegistered) < JobCap  BY <1>5
    <3> QED BY <2>3, <2>4, <3>1
  <2>6. rdCut' \subseteq Opens /\ \A q \in Opens : rdOpen'[q].live => q \notin rdCut'  BY <1>2 DEF OpensInv
  <2> QED BY <1>2, <2>3, <2>5, <2>6 DEF OpensInv
<1> QED BY <1>4, <1>5

LEMMA MailsAre ==
  ASSUME NEW s \in Seq(ReaderEntry)
  PROVE  /\ Len(s) \in Nat /\ DOMAIN s = 1..Len(s)
         /\ \A n \in 1..Len(s) : s[n] \in ReaderEntry /\ s[n].mail.size \in Nat /\ s[n].key \in Nat
         /\ SumBytes(s) \in Nat
         /\ \A a : OfAccount(s, a) \subseteq 1..Len(s) /\ IsFiniteSet(OfAccount(s, a)) /\ Cardinality(OfAccount(s, a)) \in Nat
<1>1. Len(s) \in Nat /\ DOMAIN s = 1..Len(s) /\ \A n \in 1..Len(s) : s[n] \in ReaderEntry  OBVIOUS
<1>2. \A e \in ReaderEntry : e.mail.size \in Nat /\ e.key \in Nat
  <2>1. \A m \in ReaderMails : m.size \in Nat  BY ReaderBounds
  <2> QED BY <2>1 DEF ReaderEntry
<1>3. SumBytes(s) \in Nat
  <2> DEFINE f == [n \in DOMAIN s |-> s[n].mail.size]
             D == 1..Len(s)
  <2>1. f \in [D -> Nat] /\ IsFiniteSet(D)  BY <1>1, <1>2, PlacesAre
  <2> HIDE DEF f, D
  <2>2. Total(f) \in Nat  BY <2>1, TotalIs
  <2> QED BY <2>2 DEF SumBytes, f
<1>4. ASSUME NEW a PROVE OfAccount(s, a) \subseteq 1..Len(s) /\ IsFiniteSet(OfAccount(s, a)) /\ Cardinality(OfAccount(s, a)) \in Nat
  <2>1. OfAccount(s, a) \subseteq 1..Len(s)  BY <1>1 DEF OfAccount
  <2> QED BY <1>1, <2>1, PlacesAre
<1> QED BY <1>1, <1>2, <1>3, <1>4

LEMMA MailsDrawn ==
  ASSUME NEW s \in Seq(ReaderEntry), NEW t \in Seq(ReaderEntry), Drawn(t, s)
  PROVE  /\ SumBytes(t) <= SumBytes(s) /\ Len(t) <= Len(s) /\ (OneOfKey(s) => OneOfKey(t))
         /\ \A a : Cardinality(OfAccount(t, a)) <= Cardinality(OfAccount(s, a))
         /\ \A n \in 1..Len(t) : \E m \in 1..Len(s) : t[n] = s[m]
<1>1. PICK h : DrawnBy(t, s, h)  BY DEF Drawn
<1>2. Len(s) \in Nat /\ DOMAIN s = 1..Len(s) /\ Len(t) \in Nat /\ DOMAIN t = 1..Len(t)  BY MailsAre
<1>3. \A n \in 1..Len(t) : h[n] \in 1..Len(s) /\ t[n] = s[h[n]]  BY <1>1 DEF DrawnBy
<1>4. \A m, n \in 1..Len(t) : h[m] = h[n] => m = n  BY <1>1 DEF DrawnBy
<1>5. SumBytes(t) <= SumBytes(s)
  <2> DEFINE f == [n \in DOMAIN s |-> s[n].mail.size]
             g == [n \in DOMAIN t |-> t[n].mail.size]
  <2>1. Counts(f) /\ Counts(g) /\ DOMAIN f = 1..Len(s) /\ DOMAIN g = 1..Len(t)  BY <1>2, MailsAre DEF Counts
  <2>2. \A n \in 1..Len(t) : g[n] = f[h[n]]  BY <1>2, <1>3
  <2>3. IsFiniteSet(1..Len(s)) /\ h \in [1..Len(t) -> 1..Len(s)]  BY <1>1, <1>2, PlacesAre DEF DrawnBy
  <2> HIDE DEF f, g
  <2>4. GoesInto(g, f, h)  BY <1>4, <2>1, <2>2, <2>3 DEF GoesInto
  <2>5. Total(g) <= Total(f)  BY <2>1, <2>4, TotalDrawn
  <2> QED BY <2>5 DEF SumBytes, f, g
<1>6. ASSUME NEW a PROVE Cardinality(OfAccount(t, a)) <= Cardinality(OfAccount(s, a))
  <2>1. OfAccount(t, a) \subseteq 1..Len(t) /\ OfAccount(s, a) \subseteq 1..Len(s)  BY MailsAre
  <2>2. \A n \in OfAccount(t, a) : h[n] \in OfAccount(s, a)  BY <1>2, <1>3 DEF OfAccount
  <2> QED BY <1>1, <1>2, <2>1, <2>2, DrawnFewer
<1>7. OneOfKey(s) => OneOfKey(t)
  <2> SUFFICES ASSUME OneOfKey(s), NEW m \in 1..Len(t), NEW n \in 1..Len(t), t[m].key = t[n].key PROVE m = n  BY <1>2 DEF OneOfKey
  <2>1. h[m] \in DOMAIN s /\ h[n] \in DOMAIN s /\ t[m] = s[h[m]] /\ t[n] = s[h[n]]  BY <1>2, <1>3
  <2>2. h[m] = h[n]  BY <2>1 DEF OneOfKey
  <2> QED BY <1>4, <2>2
<1>8. Len(t) <= Len(s)  BY <1>1, <1>2, DrawnLen DEF Drawn
<1> QED BY <1>3, <1>5, <1>6, <1>7, <1>8

LEMMA MailAdds ==
  ASSUME NEW s \in Seq(ReaderEntry), NEW e \in ReaderEntry
  PROVE  LET t == Append(s, e) IN
         /\ t \in Seq(ReaderEntry) /\ Len(t) = Len(s) + 1 /\ SumBytes(t) = SumBytes(s) + e.mail.size
         /\ \A a : a # e.mail.acc => Cardinality(OfAccount(t, a)) = Cardinality(OfAccount(s, a))
         /\ Cardinality(OfAccount(t, e.mail.acc)) = Cardinality(OfAccount(s, e.mail.acc)) + 1
         /\ \A n \in 1..Len(t) : t[n] = e \/ \E m \in 1..Len(s) : t[n] = s[m]
         /\ OneOfKey(s) /\ (\A n \in 1..Len(s) : s[n].key # e.key) => OneOfKey(t)
<1> DEFINE t == Append(s, e)
           x == Len(s) + 1
           D == 1..Len(t)
           E == 1..Len(s)
<1>1. /\ t \in Seq(ReaderEntry) /\ Len(t) = Len(s) + 1 /\ t[x] = e /\ (\A n \in E : t[n] = s[n])
      /\ E = D \ {x} /\ x \in D /\ IsFiniteSet(D) /\ IsFiniteSet(E) /\ D = E \cup {x} /\ x \notin E
  BY OnePlaceMore
<1> HIDE DEF t
<1>2. DOMAIN s = E /\ DOMAIN t = D  BY <1>1, MailsAre
<1>3. (\A n \in E : s[n].mail.size \in Nat) /\ \A n \in D : t[n].mail.size \in Nat  BY <1>1, MailsAre
<1> HIDE DEF D, E, x
<1>4. SumBytes(t) = SumBytes(s) + e.mail.size
  <2> DEFINE f == [n \in DOMAIN s |-> s[n].mail.size]
             g == [n \in DOMAIN t |-> t[n].mail.size]
  <2>1. Counts(f) /\ Counts(g) /\ DOMAIN f = E /\ DOMAIN g = D /\ g[x] = e.mail.size  BY <1>1, <1>2, <1>3 DEF Counts
  <2>2. \A n \in E : g[n] = f[n]  BY <1>1, <1>2
  <2> HIDE DEF f, g
  <2>3. OneMore(f, g, x)  BY <1>1, <2>1, <2>2 DEF OneMore
  <2>4. Total(g) = Total(f) + g[x]  BY <2>1, <2>3, TotalAdds
  <2> QED BY <2>1, <2>4 DEF SumBytes, f, g
<1>5. ASSUME NEW a, a # e.mail.acc PROVE OfAccount(t, a) = OfAccount(s, a)  BY <1>1, <1>2, <1>5 DEF OfAccount
<1>6. Cardinality(OfAccount(t, e.mail.acc)) = Cardinality(OfAccount(s, e.mail.acc)) + 1
  <2>1. OfAccount(t, e.mail.acc) = OfAccount(s, e.mail.acc) \cup {x} /\ x \notin OfAccount(s, e.mail.acc)
    BY <1>1, <1>2 DEF OfAccount
  <2>2. IsFiniteSet(OfAccount(s, e.mail.acc))  BY MailsAre
  <2> QED BY <2>1, <2>2, FS_AddElement
<1>7. OneOfKey(s) /\ (\A n \in E : s[n].key # e.key) => OneOfKey(t)  BY <1>1, <1>2 DEF OneOfKey
<1>8. \A n \in D : t[n] = e \/ \E m \in E : t[n] = s[m]  BY <1>1
<1> QED BY <1>1, <1>4, <1>5, <1>6, <1>7, <1>8 DEF t, x, E, D

LEMMA NoMails == <<>> \in Seq(ReaderEntry) /\ Len(<<>>) = 0 /\ DOMAIN <<>> = {} /\ SumBytes(<<>>) = 0 /\ \A a : Cardinality(OfAccount(<<>>, a)) = 0
<1>1. <<>> \in Seq(ReaderEntry) /\ DOMAIN <<>> = {} /\ Len(<<>>) = 0  OBVIOUS
<1>2. SumBytes(<<>>) = 0
  <2>1. [n \in DOMAIN <<>> |-> <<>>[n].mail.size] \in [{} -> Nat]  BY <1>1
  <2>2. Total([n \in DOMAIN <<>> |-> <<>>[n].mail.size]) = 0  BY <2>1, TotalIs, FS_EmptySet
  <2> QED BY <2>2 DEF SumBytes
<1>3. \A a : Cardinality(OfAccount(<<>>, a)) = 0
  <2>1. \A a : OfAccount(<<>>, a) = {}  BY <1>1 DEF OfAccount
  <2> QED BY <2>1, FS_EmptySet
<1> QED BY <1>1, <1>2, <1>3

\* The evictions for a message that is no larger than the store end with room for it.
LEMMA EvictedIs ==
  ASSUME rdStore \in Seq(ReaderEntry), NEW m \in ReaderMails, m.size <= StoreBytes
  PROVE  Evicted(m) \in Seq(ReaderEntry) /\ Drawn(Evicted(m), rdStore) /\ Fits(Evicted(m), m)
<1> DEFINE l == Len(rdStore)
           hits == OfAccount(rdStore, m.acc)
           A == WithoutOldest(rdStore, hits)
           others == Others(m)
           B == WithoutOldest(others, DOMAIN others)
           G == {s \in A \cup B : Fits(s, m)}
<1>1. l \in Nat /\ DOMAIN rdStore = 1..l /\ hits \subseteq 1..l  BY MailsAre
<1>2. \A t \in A : t \in Seq(ReaderEntry) /\ Len(t) \in 0..l /\ Drawn(t, rdStore)
  <2> HIDE DEF hits
  <2> QED BY <1>1, OldestCut
<1>3. others \in Seq(ReaderEntry) /\ Len(others) <= l /\ Drawn(others, rdStore)
  <2> DEFINE K == DOMAIN rdStore \ hits
  <2>1. K \subseteq 1..l  BY <1>1
  <2> HIDE DEF K
  <2>2. Picked(rdStore, K) \in Seq(ReaderEntry) /\ Len(Picked(rdStore, K)) <= l /\ DrawnBy(Picked(rdStore, K), rdStore, Rising(K))
    BY <2>1, PickedIs
  <2>3. others = Picked(rdStore, K)  BY DEF Others, K
  <2> QED BY <2>2, <2>3 DEF Drawn
<1> HIDE DEF others
<1>4. Len(others) \in Nat /\ DOMAIN others = 1..Len(others)  BY <1>3, MailsAre
<1>5. /\ \A t \in B : t \in Seq(ReaderEntry) /\ Len(t) \in 0..Len(others) /\ Drawn(t, others)
      /\ Picked(others, (1..Len(others)) \ (1..Len(others))) \in B
  <2>1. 1..Len(others) \subseteq 1..Len(others)  OBVIOUS
  <2> QED BY <1>3, <1>4, <2>1, OldestCut
<1>6. ASSUME NEW t \in A \cup B PROVE t \in Seq(ReaderEntry) /\ Len(t) \in 0..l /\ Drawn(t, rdStore)
  <2>1. CASE t \in A  BY <1>2, <2>1
  <2>2. CASE t \in B
    <3>1. t \in Seq(ReaderEntry) /\ Len(t) \in 0..Len(others) /\ Drawn(t, others)  BY <1>5, <2>2
    <3>2. Len(t) \in 0..l  BY <1>1, <1>3, <1>4, <3>1
    <3> QED BY <1>3, <3>1, <3>2, DrawnTwice
  <2> QED BY <2>1, <2>2
<1>7. <<>> \in B
  <2>1. (1..Len(others)) \ (1..Len(others)) = {} /\ {} \subseteq 1..Len(others)  OBVIOUS
  <2>2. Picked(others, {}) \in Seq(ReaderEntry) /\ Len(Picked(others, {})) = Cardinality({})  BY <1>3, <2>1, PickedIs
  <2>3. Picked(others, {}) = <<>>  BY <2>2, FS_EmptySet
  <2> QED BY <1>5, <2>1, <2>3
<1>8. Fits(<<>>, m)
  <2>1. StoreCap \in Nat \ {0} /\ StoreShare \in Nat \ {0} /\ m.size \in Nat  BY ReaderBounds
  <2> QED BY <2>1, NoMails DEF Fits
<1> HIDE DEF A, B
<1>9. G # {} /\ \A t \in G : Len(t) \in 0..l  BY <1>6, <1>7, <1>8
<1>10. Longest(G) \in G
  <2> HIDE DEF G
  <2> QED BY <1>1, <1>9, LongestIs
<1>11. Evicted(m) = Longest(G)  BY DEF Evicted, EvictionsFor, A, B, others
<1> QED BY <1>6, <1>10, <1>11

\* A part of the store keeps what the store keeps.
LEMMA PartKeeps ==
  ASSUME KeptInv, NEW t \in Seq(ReaderEntry), Drawn(t, rdStore)
  PROVE  /\ SumBytes(t) \in Nat /\ SumBytes(t) <= StoreBytes /\ Len(t) <= StoreCap /\ ShareWithin(t) /\ OneOfKey(t)
         /\ KeysWithin(t, rdSequence) /\ SumBytes(rdStore) \in Nat
         /\ \A n \in 1..Len(t) : \E k \in 1..Len(rdStore) : t[n] = rdStore[k]
<1>1. /\ rdStore \in Seq(ReaderEntry) /\ SumBytes(rdStore) <= StoreBytes /\ Len(rdStore) <= StoreCap /\ ShareWithin(rdStore)
      /\ OneOfKey(rdStore) /\ KeysWithin(rdStore, rdSequence)
  BY DEF KeptInv
<1>2. /\ SumBytes(t) <= SumBytes(rdStore) /\ Len(t) <= Len(rdStore) /\ OneOfKey(t)
      /\ \A a : Cardinality(OfAccount(t, a)) <= Cardinality(OfAccount(rdStore, a))
      /\ \A n \in 1..Len(t) : \E k \in 1..Len(rdStore) : t[n] = rdStore[k]
  BY <1>1, MailsDrawn
<1>3. /\ SumBytes(t) \in Nat /\ SumBytes(rdStore) \in Nat /\ Len(t) \in Nat /\ Len(rdStore) \in Nat
      /\ DOMAIN t = 1..Len(t) /\ DOMAIN rdStore = 1..Len(rdStore)
      /\ \A a : Cardinality(OfAccount(t, a)) \in Nat /\ Cardinality(OfAccount(rdStore, a)) \in Nat
  BY <1>1, MailsAre
<1>4. StoreBytes \in Nat /\ StoreCap \in Nat /\ StoreShare \in Nat  BY ReaderBounds
<1>5. SumBytes(t) <= StoreBytes /\ Len(t) <= StoreCap  BY <1>1, <1>2, <1>3, <1>4
<1>6. ShareWithin(t)
  <2> SUFFICES ASSUME NEW m \in ReaderMails PROVE Cardinality(OfAccount(t, m.acc)) <= StoreShare  BY DEF ShareWithin
  <2>1. Cardinality(OfAccount(rdStore, m.acc)) <= StoreShare  BY <1>1 DEF ShareWithin
  <2>2. Cardinality(OfAccount(t, m.acc)) \in Nat /\ Cardinality(OfAccount(rdStore, m.acc)) \in Nat  BY <1>3
  <2> QED BY <1>2, <1>4, <2>1, <2>2
<1>7. KeysWithin(t, rdSequence)
  <2> SUFFICES ASSUME NEW n \in DOMAIN t PROVE t[n].key <= rdSequence  BY DEF KeysWithin
  <2>1. PICK k \in 1..Len(rdStore) : t[n] = rdStore[k]  BY <1>2, <1>3
  <2> QED BY <1>1, <1>3, <2>1 DEF KeysWithin
<1> QED BY <1>2, <1>3, <1>5, <1>6, <1>7

\* A message that is put into the store.
LEMMA KeptPut ==
  ASSUME KeptInv, NEW r \in Opens, NEW m \in ReaderMails, m.size <= StoreBytes,
         rdStore' = Append(Evicted(m), [mail |-> m, key |-> rdSequence + 1, by |-> r]),
         rdBytes' = SumBytes(Evicted(m)) + m.size, rdSequence' = rdSequence + 1
  PROVE  KeptInv' /\ \A n \in DOMAIN rdStore' : rdStore'[n].by = r \/ \E k \in DOMAIN rdStore : rdStore'[n] = rdStore[k]
<1> DEFINE s == Evicted(m)
           e == [mail |-> m, key |-> rdSequence + 1, by |-> r]
<1>1. rdStore \in Seq(ReaderEntry) /\ rdSequence \in Nat  BY DEF KeptInv
<1>2. s \in Seq(ReaderEntry) /\ Drawn(s, rdStore) /\ Fits(s, m)  BY <1>1, EvictedIs
<1>3. e \in ReaderEntry /\ e.mail = m /\ e.key = rdSequence + 1 /\ e.by = r  BY <1>1 DEF ReaderEntry
<1>4. rdStore' = Append(s, e) /\ rdBytes' = SumBytes(s) + m.size  OBVIOUS
<1> HIDE DEF s, e
<1>5. /\ SumBytes(s) \in Nat /\ ShareWithin(s) /\ OneOfKey(s) /\ KeysWithin(s, rdSequence)
      /\ \A n \in 1..Len(s) : \E k \in 1..Len(rdStore) : s[n] = rdStore[k]
  BY <1>2, PartKeeps
<1>6. /\ Len(s) \in Nat /\ DOMAIN s = 1..Len(s) /\ (\A n \in 1..Len(s) : s[n].key \in Nat)
      /\ Cardinality(OfAccount(s, m.acc)) \in Nat /\ DOMAIN rdStore = 1..Len(rdStore)
  BY <1>1, <1>2, MailsAre
<1>7. /\ rdStore' \in Seq(ReaderEntry) /\ Len(rdStore') = Len(s) + 1 /\ SumBytes(rdStore') = SumBytes(s) + m.size
      /\ \A a : a # m.acc => Cardinality(OfAccount(rdStore', a)) = Cardinality(OfAccount(s, a))
      /\ Cardinality(OfAccount(rdStore', m.acc)) = Cardinality(OfAccount(s, m.acc)) + 1
      /\ \A n \in 1..Len(rdStore') : rdStore'[n] = e \/ \E k \in 1..Len(s) : rdStore'[n] = s[k]
      /\ OneOfKey(s) /\ (\A n \in 1..Len(s) : s[n].key # e.key) => OneOfKey(rdStore')
  <2> DEFINE t == Append(s, e)
  <2>1. /\ t \in Seq(ReaderEntry) /\ Len(t) = Len(s) + 1 /\ SumBytes(t) = SumBytes(s) + e.mail.size
        /\ \A a : a # e.mail.acc => Cardinality(OfAccount(t, a)) = Cardinality(OfAccount(s, a))
        /\ Cardinality(OfAccount(t, e.mail.acc)) = Cardinality(OfAccount(s, e.mail.acc)) + 1
        /\ \A n \in 1..Len(t) : t[n] = e \/ \E k \in 1..Len(s) : t[n] = s[k]
        /\ OneOfKey(s) /\ (\A n \in 1..Len(s) : s[n].key # e.key) => OneOfKey(t)
    <3>1. s \in Seq(ReaderEntry) /\ e \in ReaderEntry  BY <1>2, <1>3
    <3> HIDE DEF KeptInv
    <3> QED BY <3>1, MailAdds
  <2>2. t = rdStore'  BY <1>4
  <2> HIDE DEF t
  <2> QED BY <1>3, <2>1, <2>2
<1>8. \A n \in 1..Len(s) : s[n].key <= rdSequence /\ s[n].key # rdSequence + 1 /\ s[n].key <= rdSequence + 1
  <2> SUFFICES ASSUME NEW n \in 1..Len(s) PROVE s[n].key <= rdSequence /\ s[n].key # rdSequence + 1 /\ s[n].key <= rdSequence + 1
    OBVIOUS
  <2>1. s[n].key <= rdSequence /\ s[n].key \in Nat  BY <1>5, <1>6 DEF KeysWithin
  <2> QED BY <1>1, <2>1
<1>9. OneOfKey(rdStore')  BY <1>3, <1>5, <1>7, <1>8
<1>10. DOMAIN rdStore' = 1..Len(rdStore')  BY <1>7, MailsAre
<1>11. KeysWithin(rdStore', rdSequence')
  <2> SUFFICES ASSUME NEW n \in 1..Len(rdStore') PROVE rdStore'[n].key <= rdSequence + 1  BY <1>10 DEF KeysWithin
  <2>1. CASE rdStore'[n] = e
    <3>1. rdStore'[n].key = rdSequence + 1  BY <1>3, <2>1
    <3> QED BY <1>1, <3>1
  <2>2. CASE \E k \in 1..Len(s) : rdStore'[n] = s[k]  BY <1>8, <2>2
  <2> QED BY <1>7, <2>1, <2>2
<1>12. SumBytes(rdStore') <= StoreBytes /\ Len(rdStore') <= StoreCap /\ Cardinality(OfAccount(rdStore', m.acc)) <= StoreShare
  <2>1. SumBytes(s) + m.size <= StoreBytes /\ Len(s) < StoreCap /\ Cardinality(OfAccount(s, m.acc)) < StoreShare  BY <1>2 DEF Fits
  <2>2. StoreCap \in Nat /\ StoreShare \in Nat  BY ReaderBounds
  <2> QED BY <1>6, <1>7, <2>1, <2>2
<1>13. ShareWithin(rdStore')
  <2> SUFFICES ASSUME NEW k \in ReaderMails PROVE Cardinality(OfAccount(rdStore', k.acc)) <= StoreShare  BY DEF ShareWithin
  <2>1. CASE k.acc = m.acc  BY <1>12, <2>1
  <2>2. CASE k.acc # m.acc  BY <1>5, <1>7, <2>2 DEF ShareWithin
  <2> QED BY <2>1, <2>2
<1>14. \A n \in DOMAIN rdStore' : rdStore'[n].by = r \/ \E k \in DOMAIN rdStore : rdStore'[n] = rdStore[k]
  <2> SUFFICES ASSUME NEW n \in 1..Len(rdStore'), rdStore'[n] # e PROVE \E k \in DOMAIN rdStore : rdStore'[n] = rdStore[k]
    BY <1>3, <1>10
  <2>1. PICK k \in 1..Len(s) : rdStore'[n] = s[k]  BY <1>7
  <2>2. PICK j \in 1..Len(rdStore) : s[k] = rdStore[j]  BY <1>5
  <2> QED BY <1>6, <2>1, <2>2
<1>15. rdBytes' = SumBytes(rdStore') /\ rdSequence' \in Nat  BY <1>1, <1>4, <1>7
<1> QED BY <1>7, <1>9, <1>11, <1>12, <1>13, <1>14, <1>15 DEF KeptInv

\* An entry that becomes the youngest.
LEMMA KeptMoved ==
  ASSUME KeptInv, NEW i \in DOMAIN rdStore, rdStore' = Append(RemoveAt(rdStore, i), rdStore[i]),
         rdBytes' = rdBytes, rdSequence' = rdSequence
  PROVE  KeptInv' /\ \A n \in DOMAIN rdStore' : \E k \in DOMAIN rdStore : rdStore'[n] = rdStore[k]
<1>1. rdStore \in Seq(ReaderEntry) /\ i \in 1..Len(rdStore) /\ rdSequence \in Nat  BY DEF KeptInv
<1>2. rdStore' \in Seq(ReaderEntry) /\ Drawn(rdStore', rdStore) /\ Drawn(rdStore, rdStore')  BY <1>1, MovedLast
<1>3. /\ SumBytes(rdStore') \in Nat /\ SumBytes(rdStore') <= StoreBytes /\ Len(rdStore') <= StoreCap /\ ShareWithin(rdStore')
      /\ OneOfKey(rdStore') /\ KeysWithin(rdStore', rdSequence) /\ SumBytes(rdStore) \in Nat
      /\ \A n \in 1..Len(rdStore') : \E k \in 1..Len(rdStore) : rdStore'[n] = rdStore[k]
  BY <1>2, PartKeeps
<1>4. SumBytes(rdStore') = SumBytes(rdStore)
  <2>1. SumBytes(rdStore') <= SumBytes(rdStore) /\ SumBytes(rdStore) <= SumBytes(rdStore')  BY <1>1, <1>2, MailsDrawn
  <2> QED BY <1>3, <2>1
<1>5. DOMAIN rdStore' = 1..Len(rdStore') /\ DOMAIN rdStore = 1..Len(rdStore)  BY <1>1, <1>2, MailsAre
<1>6. rdBytes' = SumBytes(rdStore')  BY <1>4 DEF KeptInv
<1> QED BY <1>1, <1>2, <1>3, <1>5, <1>6 DEF KeptInv

LEMMA ReaderStarts == ReaderInit => ReaderInv
<1> SUFFICES ASSUME ReaderInit PROVE ReaderInv  OBVIOUS
<1> DEFINE o == [pc |-> "new", mail |-> NoMail, cache |-> FALSE, live |-> FALSE, future |-> FALSE, answer |-> "none"]
<1>1. o \in OpenRecords /\ o.live = FALSE /\ o.future = FALSE  BY DEF OpenRecords, OpenRecord
<1>2. rdOpen = [r \in Opens |-> o]  BY DEF ReaderInit
<1> HIDE DEF o
<1>3. OpensInv
  <2>1. OpenRegistered = {}  BY <1>1, <1>2 DEF OpenRegistered
  <2>2. JobCap \in Nat  BY ReaderBounds
  <2>3. rdOpen \in [Opens -> OpenRecords] /\ rdCut = {} /\ \A r \in Opens : ~rdOpen[r].live  BY <1>1, <1>2 DEF ReaderInit
  <2> QED BY <2>1, <2>2, <2>3, FS_EmptySet DEF OpensInv
<1>4. rdStore = <<>> /\ rdBytes = 0 /\ rdSequence = 0 /\ rdTombs = <<>> /\ DOMAIN rdDisk = ReaderMails  BY DEF ReaderInit
<1>5. StoreBytes \in Nat /\ StoreCap \in Nat /\ StoreShare \in Nat /\ TombCap \in Nat  BY ReaderBounds
<1>6. KeptInv
  <2>1. /\ rdStore \in Seq(ReaderEntry) /\ Len(rdStore) = 0 /\ DOMAIN rdStore = {} /\ SumBytes(rdStore) = 0
        /\ \A a : Cardinality(OfAccount(rdStore, a)) = 0
    BY <1>4, NoMails
  <2> QED BY <1>4, <1>5, <2>1 DEF KeptInv, KeysWithin, ShareWithin, OneOfKey
<1>7. TombsInv  BY <1>4, <1>5 DEF TombsInv
<1> QED BY <1>3, <1>4, <1>6, <1>7 DEF ReaderInv

\* The ends of an open: no longer live, or as it was.
LEMMA EndsAreOpens ==
  ASSUME OpensInv, NEW r \in Opens,
         NEW answer \in {"none", "failed", "null", "cancelled", "opened"},
         rdOpen' = EndOpen(r, answer) \/ rdOpen' = EndThread(r, answer), rdCut' = rdCut
  PROVE  /\ OpensInv' /\ \A q \in Opens : rdOpen'[q].answer = rdOpen[q].answer \/ (q = r /\ rdOpen'[q].answer = answer)
<1> DEFINE o == IF rdOpen' = EndOpen(r, answer)
                THEN [rdOpen[r] EXCEPT !.pc = "done", !.live = FALSE, !.future = FALSE, !.answer = answer]
                ELSE [rdOpen[r] EXCEPT !.pc = "done"]
<1>1. rdOpen \in [Opens -> OpenRecords]  BY DEF OpensInv
<1>2. rdOpen' = [rdOpen EXCEPT ![r] = o]  BY DEF EndOpen, EndThread
<1>3. rdOpen[r] \in OpenRecord  BY <1>1 DEF OpenRecords
<1>4. o \in OpenRecords  BY <1>3 DEF OpenRecord, OpenRecords
<1>5. (o.live => rdOpen[r].live) /\ (o.future => rdOpen[r].future) /\ (o.answer = answer \/ o.answer = rdOpen[r].answer)
  BY <1>3 DEF OpenRecord
<1> HIDE DEF o
<1>6. o.live => r \notin rdCut'  BY <1>5 DEF OpensInv
<1>7. OpensInv'  BY <1>2, <1>4, <1>5, <1>6, OpenChanges
<1>8. rdOpen'[r] = o /\ \A q \in Opens \ {r} : rdOpen'[q] = rdOpen[q]  BY <1>1, <1>2
<1> QED BY <1>5, <1>7, <1>8

\* What each step keeps, and what it must not leave of an open that was cut off.
NothingLeft == /\ \A n \in DOMAIN rdStore' : rdStore'[n] \notin ToSet(rdStore) => rdStore'[n].by \notin rdCut
               /\ \A m \in ReaderMails : rdDisk'[m] # rdDisk[m] => rdDisk'[m] \notin rdCut
               /\ \A r \in Opens : r \in rdCut /\ rdOpen'[r].answer = "opened" => rdOpen[r].answer = "opened"

LEMMA InStore == \A n \in DOMAIN rdStore : rdStore[n] \in ToSet(rdStore)
BY DEF ToSet

LEMMA ReaderOpen ==
  ASSUME ReaderInv, NEW r \in Opens, NEW m \in ReaderMails, NEW c \in BOOLEAN, OpenMail(r, m, c) PROVE ReaderInv' /\ NothingLeft
<1> DEFINE o == IF r \in ToSet(rdTombs) \/ Cardinality(OpenRegistered) >= JobCap
                THEN [rdOpen[r] EXCEPT !.pc = "done", !.answer = "refused"]
                ELSE [rdOpen[r] EXCEPT !.pc = "fetch", !.mail = m, !.cache = c, !.live = TRUE, !.future = TRUE]
<1>1. rdOpen \in [Opens -> OpenRecords] /\ OpensInv /\ IsFiniteSet(OpenRegistered)  BY DEF OpensInv, ReaderInv
<1>2. rdOpen' = [rdOpen EXCEPT ![r] = o]  BY DEF OpenMail
<1>3. rdOpen[r] \in OpenRecord  BY <1>1 DEF OpenRecords
<1>4. o \in OpenRecords  BY <1>3 DEF OpenRecord, OpenRecords
<1>5. rdCut' = IF r \in ToSet(rdTombs) THEN rdCut ELSE rdCut \ {r}  BY DEF OpenMail
<1>6. CASE r \in ToSet(rdTombs) \/ Cardinality(OpenRegistered) >= JobCap
  <2>1. o = [rdOpen[r] EXCEPT !.pc = "done", !.answer = "refused"]  BY <1>6
  <2>2. o.live = rdOpen[r].live /\ o.future = rdOpen[r].future /\ o.answer # "opened"  BY <1>3, <2>1 DEF OpenRecord
  <2> HIDE DEF o
  <2>3. (o.live => r \notin rdCut') /\ rdCut' \subseteq rdCut \cup {r}  BY <1>5, <2>2 DEF OpensInv, ReaderInv
  <2>4. OpensInv'  BY <1>1, <1>2, <1>4, <2>2, <2>3, OpenChanges
  <2> QED BY <1>1, <1>2, <2>2, <2>4, InStore DEF ReaderInv, KeptInv, TombsInv, OpenMail, NothingLeft
<1>7. CASE ~(r \in ToSet(rdTombs) \/ Cardinality(OpenRegistered) >= JobCap)
  <2>1. o = [rdOpen[r] EXCEPT !.pc = "fetch", !.mail = m, !.cache = c, !.live = TRUE, !.future = TRUE]  BY <1>7
  <2>2. o.answer = rdOpen[r].answer  BY <1>3, <2>1 DEF OpenRecord
  <2> HIDE DEF o
  <2>3. r \notin rdCut' /\ rdCut' \subseteq rdCut \cup {r}  BY <1>5, <1>7
  <2>4. Cardinality(OpenRegistered) < JobCap
    <3>1. Cardinality(OpenRegistered) \in Nat /\ JobCap \in Nat  BY <1>1, FS_CardinalityType, ReaderBounds
    <3> QED BY <1>7, <3>1
  <2>5. OpensInv'  BY <1>1, <1>2, <1>4, <2>3, <2>4, OpenChanges
  <2> QED BY <1>1, <1>2, <2>2, <2>5, InStore DEF ReaderInv, KeptInv, TombsInv, OpenMail, NothingLeft
<1> QED BY <1>6, <1>7

LEMMA ReaderFetched == ASSUME ReaderInv, NEW r \in Opens, Fetched(r) PROVE ReaderInv' /\ NothingLeft
<1>1. OpensInv /\ rdOpen \in [Opens -> OpenRecords] /\ rdCut' = rdCut  BY DEF ReaderInv, OpensInv, Fetched
<1>2. OpensInv' /\ \A q \in Opens : q \in rdCut /\ rdOpen'[q].answer = "opened" => rdOpen[q].answer = "opened"
  <2>1. CASE rdOpen' = EndOpen(r, "failed")  BY <1>1, <2>1, EndsAreOpens
  <2>2. CASE rdOpen' = EndOpen(r, "null")  BY <1>1, <2>2, EndsAreOpens
  <2>3. CASE \E pc \in {"store", "disk"} : rdOpen' = [rdOpen EXCEPT ![r].pc = pc]
    <3>1. PICK pc \in {"store", "disk"} : rdOpen' = [rdOpen EXCEPT ![r].pc = pc]  BY <2>3
    <3> DEFINE o == [rdOpen[r] EXCEPT !.pc = pc]
    <3>2. rdOpen' = [rdOpen EXCEPT ![r] = o]  BY <3>1
    <3>3. rdOpen[r].pc = "fetch" /\ rdOpen[r] \in OpenRecord /\ rdOpen[r].mail \in ReaderMails
      <4>1. rdOpen[r].pc = "fetch"  BY DEF Fetched
      <4> QED BY <1>1, <4>1 DEF OpenRecords
    <3>4. o \in OpenRecords /\ o.live = rdOpen[r].live /\ o.future = rdOpen[r].future /\ o.answer = rdOpen[r].answer
      BY <3>3 DEF OpenRecord, OpenRecords
    <3> HIDE DEF o
    <3>5. OpensInv'
      <4>1. o.live => r \notin rdCut'  BY <1>1, <3>4 DEF OpensInv
      <4> QED BY <1>1, <3>2, <3>4, <4>1, OpenChanges
    <3> QED BY <1>1, <3>2, <3>4, <3>5
  <2>4. \/ rdOpen' = EndOpen(r, "failed") \/ rdOpen' = EndOpen(r, "null")
        \/ \E pc \in {"store", "disk"} : rdOpen' = [rdOpen EXCEPT ![r].pc = pc]
    BY DEF Fetched
  <2> QED BY <2>1, <2>2, <2>3, <2>4
<1> QED BY <1>2, InStore DEF ReaderInv, KeptInv, TombsInv, Fetched, NothingLeft

LEMMA ReaderDisk == ASSUME ReaderInv, NEW r \in Opens, DiskWrite(r) PROVE ReaderInv' /\ NothingLeft
<1>1. OpensInv /\ rdOpen \in [Opens -> OpenRecords] /\ rdCut' = rdCut /\ DOMAIN rdDisk = ReaderMails
  BY DEF ReaderInv, OpensInv, DiskWrite
<1>2. rdOpen[r].pc = "disk" /\ rdOpen[r] \in OpenRecord /\ rdOpen[r].mail \in ReaderMails
  <2>1. rdOpen[r].pc = "disk"  BY DEF DiskWrite
  <2> QED BY <1>1, <2>1 DEF OpenRecords
<1>3. OpensInv' /\ \A q \in Opens : q \in rdCut /\ rdOpen'[q].answer = "opened" => rdOpen[q].answer = "opened"
  <2>1. CASE rdOpen[r].future
    <3> DEFINE o == [rdOpen[r] EXCEPT !.pc = "store"]
    <3>1. rdOpen' = [rdOpen EXCEPT ![r] = o]  BY <2>1 DEF DiskWrite
    <3>2. o \in OpenRecords /\ o.live = rdOpen[r].live /\ o.future = rdOpen[r].future /\ o.answer = rdOpen[r].answer
      BY <1>2 DEF OpenRecord, OpenRecords
    <3> HIDE DEF o
    <3>3. OpensInv'
      <4>1. o.live => r \notin rdCut'  BY <1>1, <3>2 DEF OpensInv
      <4> QED BY <1>1, <3>1, <3>2, <4>1, OpenChanges
    <3> QED BY <1>1, <3>1, <3>2, <3>3
  <2>2. CASE ~rdOpen[r].future
    <3>1. rdOpen' = EndThread(r, "none")  BY <2>2 DEF DiskWrite
    <3> QED BY <1>1, <3>1, EndsAreOpens
  <2> QED BY <2>1, <2>2
<1>4. DOMAIN rdDisk' = ReaderMails /\ \A m \in ReaderMails : rdDisk'[m] # rdDisk[m] => rdDisk'[m] \notin rdCut
  <2>1. CASE rdDisk' = rdDisk  BY <1>1, <2>1
  <2>2. CASE rdOpen[r].live /\ rdDisk' = [rdDisk EXCEPT ![rdOpen[r].mail] = r]
    <3>1. r \notin rdCut  BY <1>1, <2>2 DEF OpensInv
    <3> QED BY <1>1, <1>2, <2>2, <3>1
  <2> QED BY <2>1, <2>2 DEF DiskWrite, MayWrite
<1> QED BY <1>3, <1>4, InStore DEF ReaderInv, KeptInv, TombsInv, DiskWrite, NothingLeft

LEMMA ReaderStorePut == ASSUME ReaderInv, NEW r \in Opens, StorePut(r) PROVE ReaderInv' /\ NothingLeft
<1> DEFINE m == rdOpen[r].mail
<1>1. OpensInv /\ KeptInv /\ rdOpen \in [Opens -> OpenRecords] /\ rdCut' = rdCut /\ rdDisk' = rdDisk /\ rdTombs' = rdTombs
  BY DEF ReaderInv, OpensInv, StorePut
<1>2. rdOpen[r].pc = "store" /\ rdOpen[r] \in OpenRecord /\ m \in ReaderMails
  <2>1. rdOpen[r].pc = "store"  BY DEF StorePut
  <2> QED BY <1>1, <2>1 DEF OpenRecords
<1>3. CASE ~MayWrite(r) \/ m.size > StoreBytes
  <2>1. UNCHANGED <<rdStore, rdBytes, rdSequence>> /\ \E answer \in {"failed", "cancelled"} : rdOpen' = EndThread(r, answer)
    BY <1>3 DEF StorePut
  <2>2. OpensInv' /\ \A q \in Opens : q \in rdCut /\ rdOpen'[q].answer = "opened" => rdOpen[q].answer = "opened"
    BY <1>1, <2>1, EndsAreOpens
  <2> QED BY <1>1, <2>1, <2>2, InStore DEF ReaderInv, KeptInv, TombsInv, NothingLeft
<1>4. CASE ~(~MayWrite(r) \/ m.size > StoreBytes)
  <2>1. /\ rdStore' = Append(Evicted(m), [mail |-> m, key |-> rdSequence + 1, by |-> r])
        /\ rdBytes' = SumBytes(Evicted(m)) + m.size /\ rdSequence' = rdSequence + 1
        /\ rdOpen' = [rdOpen EXCEPT ![r].pc = "render"]
    BY <1>4 DEF StorePut
  <2>2. m.size <= StoreBytes /\ rdOpen[r].live
    <3>1. m.size \in Nat /\ StoreBytes \in Nat  BY <1>2, ReaderBounds
    <3> QED BY <1>4, <3>1 DEF MayWrite
  <2>3. KeptInv' /\ \A n \in DOMAIN rdStore' : rdStore'[n].by = r \/ \E k \in DOMAIN rdStore : rdStore'[n] = rdStore[k]
    <3> HIDE DEF m
    <3> QED BY <1>1, <1>2, <2>1, <2>2, KeptPut
  <2>4. r \notin rdCut  BY <1>1, <2>2 DEF OpensInv
  <2>5. \A n \in DOMAIN rdStore' : rdStore'[n] \notin ToSet(rdStore) => rdStore'[n].by \notin rdCut  BY <2>3, <2>4, InStore
  <2> DEFINE o == [rdOpen[r] EXCEPT !.pc = "render"]
  <2>6. rdOpen' = [rdOpen EXCEPT ![r] = o]  BY <2>1
  <2>7. o \in OpenRecords /\ o.live = rdOpen[r].live /\ o.future = rdOpen[r].future /\ o.answer = rdOpen[r].answer
    BY <1>2 DEF OpenRecord, OpenRecords
  <2> HIDE DEF o
  <2>8. OpensInv'  BY <1>1, <2>4, <2>6, <2>7, OpenChanges
  <2>9. \A q \in Opens : q \in rdCut /\ rdOpen'[q].answer = "opened" => rdOpen[q].answer = "opened"  BY <1>1, <2>6, <2>7
  <2> QED BY <1>1, <2>3, <2>5, <2>8, <2>9 DEF ReaderInv, TombsInv, NothingLeft
<1> QED BY <1>3, <1>4

LEMMA ReaderRendered == ASSUME ReaderInv, NEW r \in Opens, RenderOpened(r) PROVE ReaderInv' /\ NothingLeft
<1>1. OpensInv /\ rdOpen \in [Opens -> OpenRecords] /\ rdCut' = rdCut  BY DEF ReaderInv, OpensInv, RenderOpened
<1>2. PICK answer \in {"opened", "cancelled"} : rdOpen' = EndThread(r, answer) /\ (answer = "opened" => rdOpen[r].live)
  BY DEF RenderOpened
<1>3. OpensInv' /\ \A q \in Opens : rdOpen'[q].answer = rdOpen[q].answer \/ (q = r /\ rdOpen'[q].answer = answer)
  BY <1>1, <1>2, EndsAreOpens
<1>4. \A q \in Opens : q \in rdCut /\ rdOpen'[q].answer = "opened" => rdOpen[q].answer = "opened"  BY <1>1, <1>2, <1>3 DEF OpensInv
<1> QED BY <1>3, <1>4, InStore DEF ReaderInv, KeptInv, TombsInv, RenderOpened, NothingLeft

LEMMA ReaderCut == ASSUME ReaderInv, NEW r \in Opens, CutOff(r) PROVE ReaderInv' /\ NothingLeft
<1> DEFINE o == [rdOpen[r] EXCEPT !.live = FALSE, !.future = FALSE, !.answer = "cut",
                               !.pc = IF rdOpen[r].pc = "fetch" THEN "done" ELSE rdOpen[r].pc]
<1>1. OpensInv /\ rdOpen \in [Opens -> OpenRecords] /\ rdCut' = rdCut \cup {r} /\ rdOpen' = [rdOpen EXCEPT ![r] = o]
  <2>1. OpensInv /\ rdOpen \in [Opens -> OpenRecords]  BY DEF ReaderInv, OpensInv
  <2>2. rdCut' = rdCut \cup {r} /\ rdOpen' = [rdOpen EXCEPT ![r] = [@ EXCEPT !.live = FALSE, !.future = FALSE, !.answer = "cut",
                                        !.pc = IF rdOpen[r].pc = "fetch" THEN "done" ELSE rdOpen[r].pc]]
    BY DEF CutOff
  <2>3. rdOpen' = [rdOpen EXCEPT ![r] = o]  BY <2>2
  <2> QED BY <2>1, <2>2, <2>3
<1>2. rdOpen[r] \in OpenRecord /\ (rdOpen[r].pc \in {"disk", "store", "render"} => rdOpen[r].mail \in ReaderMails)
  BY <1>1 DEF OpenRecords
<1>3. o \in OpenRecords /\ o.live = FALSE /\ o.future = FALSE /\ o.answer = "cut"  BY <1>2 DEF OpenRecord, OpenRecords
<1> HIDE DEF o
<1>4. OpensInv'  BY <1>1, <1>3, OpenChanges
<1>5. \A q \in Opens : q \in rdCut /\ rdOpen'[q].answer = "opened" => rdOpen[q].answer = "opened"  BY <1>1, <1>3
<1> QED BY <1>4, <1>5, InStore DEF ReaderInv, KeptInv, TombsInv, CutOff, NothingLeft

\* A queue of tombstones with one more at its end, the first gone when it is full.
LEMMA TombsStep ==
  ASSUME TombsInv, NEW r \in Opens
  PROVE  LET t == Append(IF Len(rdTombs) >= TombCap THEN Tail(rdTombs) ELSE rdTombs, r)
         IN  t \in Seq(Opens) /\ Len(t) <= TombCap
<1>1. rdTombs \in Seq(Opens) /\ Len(rdTombs) <= TombCap /\ TombCap \in Nat /\ TombCap >= 1 /\ Len(rdTombs) \in Nat
  BY ReaderBounds DEF TombsInv
<1>2. CASE Len(rdTombs) >= TombCap
  <2>1. rdTombs # <<>>  BY <1>1, <1>2
  <2>2. Tail(rdTombs) \in Seq(Opens) /\ Len(Tail(rdTombs)) = Len(rdTombs) - 1  BY <1>1, <2>1
  <2>3. Append(Tail(rdTombs), r) \in Seq(Opens) /\ Len(Append(Tail(rdTombs), r)) = Len(Tail(rdTombs)) + 1  BY <2>2
  <2> QED BY <1>1, <1>2, <2>2, <2>3
<1>3. CASE ~(Len(rdTombs) >= TombCap)
  <2>1. Append(rdTombs, r) \in Seq(Opens) /\ Len(Append(rdTombs, r)) = Len(rdTombs) + 1  BY <1>1
  <2> QED BY <1>1, <1>3, <2>1
<1> QED BY <1>2, <1>3

LEMMA ReaderCancel == ASSUME ReaderInv, NEW r \in Opens, CancelOpen(r) PROVE ReaderInv' /\ NothingLeft
<1> DEFINE o == [rdOpen[r] EXCEPT !.live = FALSE]
<1>1. OpensInv /\ rdOpen \in [Opens -> OpenRecords] /\ rdCut' = rdCut \cup {r} /\ rdOpen' = [rdOpen EXCEPT ![r] = o]
  <2>1. OpensInv /\ rdOpen \in [Opens -> OpenRecords]  BY DEF ReaderInv, OpensInv
  <2>2. rdCut' = rdCut \cup {r} /\ rdOpen' = [rdOpen EXCEPT ![r].live = FALSE]  BY DEF CancelOpen
  <2>3. rdOpen' = [rdOpen EXCEPT ![r] = o]  BY <2>2
  <2> QED BY <2>1, <2>2, <2>3
<1>2. rdOpen[r] \in OpenRecord /\ (rdOpen[r].pc \in {"fetch", "disk", "store", "render"} => rdOpen[r].mail \in ReaderMails)
  BY <1>1 DEF OpenRecords
<1>3. o \in OpenRecords /\ o.live = FALSE /\ o.future = rdOpen[r].future /\ o.answer = rdOpen[r].answer
  BY <1>2 DEF OpenRecord, OpenRecords
<1> HIDE DEF o
<1>4. OpensInv'  BY <1>1, <1>3, OpenChanges
<1>5. \A q \in Opens : q \in rdCut /\ rdOpen'[q].answer = "opened" => rdOpen[q].answer = "opened"  BY <1>1, <1>3
<1>6. TombsInv'
  <2>1. TombsInv  BY DEF ReaderInv
  <2>2. CASE r \in ToSet(rdTombs)
    <3>1. rdTombs' = rdTombs  BY <2>2 DEF CancelOpen
    <3> QED BY <2>1, <3>1 DEF TombsInv
  <2>3. CASE r \notin ToSet(rdTombs)
    <3>1. rdTombs' = Append(IF Len(rdTombs) >= TombCap THEN Tail(rdTombs) ELSE rdTombs, r)  BY <2>3 DEF CancelOpen
    <3>2. rdTombs' \in Seq(Opens) /\ Len(rdTombs') <= TombCap  BY <2>1, <3>1, TombsStep
    <3> QED BY <3>2 DEF TombsInv
  <2> QED BY <2>2, <2>3
<1> QED BY <1>4, <1>5, <1>6, InStore DEF ReaderInv, KeptInv, CancelOpen, NothingLeft

LEMMA ReaderExpires == ASSUME ReaderInv, ReaderTombExpires PROVE ReaderInv' /\ NothingLeft
<1>1. TombsInv'
  <2>1. rdTombs \in Seq(Opens) /\ Len(rdTombs) <= TombCap /\ rdTombs # <<>> /\ rdTombs' = Tail(rdTombs)
    BY DEF ReaderInv, TombsInv, ReaderTombExpires
  <2>2. rdTombs' \in Seq(Opens) /\ Len(rdTombs') = Len(rdTombs) - 1 /\ Len(rdTombs) \in Nat /\ TombCap \in Nat
    BY <2>1, ReaderBounds
  <2>3. Len(rdTombs') <= TombCap  BY <2>1, <2>2
  <2> QED BY <2>2, <2>3 DEF TombsInv
<1>2. OpensInv'  BY DEF ReaderInv, OpensInv, OpenRegistered, ReaderTombExpires
<1> QED BY <1>1, <1>2, InStore DEF ReaderInv, KeptInv, ReaderTombExpires, NothingLeft

LEMMA ReaderAgain == ASSUME ReaderInv, NEW m, NEW key, RenderAgain(m, key) PROVE ReaderInv' /\ NothingLeft
<1>1. PICK i \in DOMAIN rdStore : rdStore' = Append(RemoveAt(rdStore, i), rdStore[i])  BY DEF RenderAgain
<1>2. KeptInv' /\ \A n \in DOMAIN rdStore' : \E k \in DOMAIN rdStore : rdStore'[n] = rdStore[k]
  BY <1>1, KeptMoved DEF ReaderInv, RenderAgain
<1>3. OpensInv'  BY DEF ReaderInv, OpensInv, OpenRegistered, RenderAgain
<1>4. \A n \in DOMAIN rdStore' : rdStore'[n] \in ToSet(rdStore)  BY <1>2, InStore
<1> QED BY <1>2, <1>3, <1>4 DEF ReaderInv, TombsInv, RenderAgain, NothingLeft

LEMMA ReaderStep == ASSUME ReaderInv, [ReaderNext]_readerVars PROVE ReaderInv' /\ NothingLeft
<1>1. CASE UNCHANGED readerVars
  BY <1>1, InStore DEF readerVars, ReaderInv, OpensInv, OpenRegistered, KeptInv, TombsInv, NothingLeft
<1>2. CASE ReaderNext
  <2>1. CASE \E r \in Opens, m \in ReaderMails, c \in BOOLEAN : OpenMail(r, m, c)  BY <2>1, ReaderOpen
  <2>2. CASE \E r \in Opens : Fetched(r) \/ DiskWrite(r) \/ StorePut(r) \/ RenderOpened(r) \/ CutOff(r) \/ CancelOpen(r)
    BY <2>2, ReaderFetched, ReaderDisk, ReaderStorePut, ReaderRendered, ReaderCut, ReaderCancel
  <2>3. CASE ReaderTombExpires \/ \E m \in ReaderMails, k \in 1..rdSequence : RenderAgain(m, k)  BY <2>3, ReaderExpires, ReaderAgain
  <2> QED BY <1>2, <2>1, <2>2, <2>3 DEF ReaderNext
<1> QED BY <1>1, <1>2

ReaderSpec == ReaderInit /\ [][ReaderNext]_readerVars

\* The store of prepared messages, the registered opens and the tombstones keep their limits.
THEOREM ReaderIsWithin == ReaderSpec => []ReaderInv
<1>1. ReaderInv /\ [ReaderNext]_readerVars => ReaderInv'  BY ReaderStep
<1> QED BY <1>1, ReaderStarts, PTL DEF ReaderSpec

LEMMA ReaderInvBudget == ReaderInv => ReaderBudget
<1> SUFFICES ASSUME ReaderInv PROVE ReaderBudget  OBVIOUS
<1> QED BY DEF ReaderInv, OpensInv, KeptInv, TombsInv, ReaderBudget, ShareWithin, OneOfKey

\* An open that was cancelled or ran out of time leaves nothing behind.
LEMMA CutStep ==
  ASSUME ReaderInv, [ReaderNext]_readerVars
  PROVE  /\ \A e \in ToSet(rdStore') \ ToSet(rdStore) : e.by \notin rdCut
         /\ \A m \in ReaderMails : rdDisk'[m] # rdDisk[m] => rdDisk'[m] \notin rdCut
         /\ \A r \in rdCut : rdOpen'[r].answer = "opened" => rdOpen[r].answer = "opened"
<1>1. NothingLeft /\ ReaderInv /\ ReaderInv'  BY ReaderStep
<1>2. ASSUME NEW e \in ToSet(rdStore') \ ToSet(rdStore) PROVE e.by \notin rdCut
  <2>1. PICK n \in DOMAIN rdStore' : e = rdStore'[n]  BY DEF ToSet
  <2> QED BY <1>1, <2>1 DEF NothingLeft
<1>3. \A r \in rdCut : rdOpen'[r].answer = "opened" => rdOpen[r].answer = "opened"  BY <1>1 DEF NothingLeft, ReaderInv, OpensInv
<1> QED BY <1>1, <1>2, <1>3 DEF NothingLeft

THEOREM CutOffStaysOff == ReaderSpec => CutLeavesNothing
<1>1. ReaderInv /\ [ReaderNext]_readerVars =>
        [/\ \A e \in ToSet(rdStore') \ ToSet(rdStore) : e.by \notin rdCut
         /\ \A m \in ReaderMails : rdDisk'[m] # rdDisk[m] => rdDisk'[m] \notin rdCut
         /\ \A r \in rdCut : rdOpen'[r].answer = "opened" => rdOpen[r].answer = "opened"]_readerVars
  BY CutStep
<1> QED BY <1>1, ReaderIsWithin, PTL DEF ReaderSpec, CutLeavesNothing

------------------------------------
(***************************************************************************)
(* The registry of the accounts (AccountViews, accounts.json), for any      *)
(* processes and accounts.                                                  *)
(***************************************************************************)

RegistrySpec == RegistryInit /\ [][RegistryNext]_registryVars

\* Who has the lock is the one that checks and replaces; what it checked is still so when it replaces the file.
EditOf(S) == [pc : S, from : S, next : S, released : S, drop : S, answer : S]
Shaped(e) == \E S : e \in EditOf(S)
EditShape == \A w \in RegWriters : Shaped(arEdit[w])
RegistryInv == /\ arEdit = [w \in RegWriters |-> arEdit[w]] /\ EditShape
               /\ arKnown = [w \in RegWriters |-> arKnown[w]]
               /\ \A w \in RegWriters : /\ arEdit[w].pc \in {"check", "replace"} => arLock = w
                                        /\ arEdit[w].pc # "idle" => arEdit[w].from \in arKnown[w]
                                        /\ arEdit[w].pc = "replace" => SameRevision(w) /\ NothingLost(w)

LEMMA Widens == ASSUME NEW r, Shaped(r), NEW T PROVE \E S : T \subseteq S /\ r \in EditOf(S)
<1>1. PICK S : r \in EditOf(S)  BY DEF Shaped
<1>2. r \in EditOf(S \cup T)  BY <1>1 DEF EditOf
<1> QED BY <1>2
LEMMA NoEditIs == Shaped(NoEdit) /\ NoEdit.pc = "idle"
<1>1. NoEdit \in EditOf({"idle", "none", <<>>, {}, FALSE})  BY DEF NoEdit, EditOf
<1> QED BY <1>1 DEF Shaped, NoEdit

LEMMA RegistryStarts == RegistryInit => RegistryInv
<1> SUFFICES ASSUME RegistryInit PROVE RegistryInv  OBVIOUS
<1>1. arEdit = [w \in RegWriters |-> NoEdit] /\ arKnown = [w \in RegWriters |-> {}]  BY DEF RegistryInit
<1>2. \A w \in RegWriters : arEdit[w] = NoEdit  BY <1>1
<1> QED BY <1>1, <1>2, NoEditIs DEF RegistryInv, EditShape

\* A step of one process that leaves the file and the other processes as they were.
LEMMA OneEdits ==
  ASSUME RegistryInv, NEW w \in RegWriters, NEW e, Shaped(e), arEdit' = [arEdit EXCEPT ![w] = e], UNCHANGED arFile,
         arKnown' = [v \in RegWriters |-> arKnown'[v]], \A v \in RegWriters : arKnown[v] \subseteq arKnown'[v],
         e.pc \in {"check", "replace"} => arLock' = w,
         \A v \in RegWriters \ {w} : arEdit[v].pc \in {"check", "replace"} => arLock' = v,
         e.pc # "idle" => e.from \in arKnown'[w],
         e.pc = "replace" => e.from = arFile /\ (e.drop \/ ToSet(arFile) \subseteq ToSet(e.next) \cup e.released)
  PROVE  RegistryInv'
<1>1. /\ arEdit = [v \in RegWriters |-> arEdit[v]] /\ EditShape
      /\ \A v \in RegWriters : /\ arEdit[v].pc \in {"check", "replace"} => arLock = v
                               /\ arEdit[v].pc # "idle" => arEdit[v].from \in arKnown[v]
                               /\ arEdit[v].pc = "replace" => SameRevision(v) /\ NothingLost(v)
  BY DEF RegistryInv
<1>2. arEdit'[w] = e /\ (\A v \in RegWriters \ {w} : arEdit'[v] = arEdit[v]) /\ DOMAIN arEdit' = RegWriters  BY <1>1
<1>3. arEdit' = [v \in RegWriters |-> arEdit'[v]]  BY <1>1
<1>4. EditShape'  BY <1>1, <1>2 DEF EditShape
<1>5. ASSUME NEW v \in RegWriters
      PROVE  /\ arEdit'[v].pc \in {"check", "replace"} => arLock' = v
             /\ arEdit'[v].pc # "idle" => arEdit'[v].from \in arKnown'[v]
             /\ arEdit'[v].pc = "replace" => SameRevision(v)' /\ NothingLost(v)'
  <2>1. CASE v = w  BY <1>2, <2>1 DEF SameRevision, NothingLost
  <2>2. CASE v # w  BY <1>1, <1>2, <2>2 DEF SameRevision, NothingLost
  <2> QED BY <2>1, <2>2
<1> QED BY <1>2, <1>3, <1>4, <1>5 DEF RegistryInv

\* The processes that work on the file are the ones the lock names.
LEMMA OneHolder == ASSUME RegistryInv, NEW w \in RegWriters, NEW v \in RegWriters, arEdit[w].pc \in {"check", "replace"},
                          arEdit[v].pc \in {"check", "replace"}
                   PROVE  v = w
BY DEF RegistryInv

LEMMA RegistryStays == RegistryInv /\ [RegistryNext]_registryVars => RegistryInv'
<1> SUFFICES ASSUME RegistryInv, [RegistryNext]_registryVars PROVE RegistryInv'  OBVIOUS
<1>1. CASE UNCHANGED registryVars
  <2>1. arFile' = arFile /\ arLock' = arLock /\ arEdit' = arEdit /\ arKnown' = arKnown  BY <1>1 DEF registryVars
  <2>2. ASSUME NEW w \in RegWriters, SameRevision(w) /\ NothingLost(w) PROVE SameRevision(w)' /\ NothingLost(w)'
    BY <2>1, <2>2 DEF SameRevision, NothingLost
  <2> QED BY <2>1, <2>2 DEF RegistryInv, EditShape
<1>2. ASSUME NEW w \in RegWriters PROVE
        /\ Shaped(arEdit[w])
        /\ arEdit = [v \in RegWriters |-> arEdit[v]] /\ arKnown = [v \in RegWriters |-> arKnown[v]]
        /\ arEdit[w].pc \in {"check", "replace"} => arLock = w
        /\ arEdit[w].pc # "idle" => arEdit[w].from \in arKnown[w]
        /\ arEdit[w].pc = "replace" => SameRevision(w) /\ NothingLost(w)
        /\ \A v \in RegWriters \ {w} : arEdit[v].pc \in {"check", "replace"} => arLock = v
        /\ "free" # w
  BY RegistryBounds DEF RegistryInv, EditShape
<1>3. ASSUME NEW w \in RegWriters, ReadRegistry(w) PROVE RegistryInv'
  <2>1. PICK e : e = [NoEdit EXCEPT !.pc = "edit", !.from = arFile]  OBVIOUS
  <2>2. Shaped(e) /\ e.pc = "edit" /\ e.from = arFile
    <3>1. PICK S : {"edit", arFile} \subseteq S /\ NoEdit \in EditOf(S)  BY NoEditIs, Widens
    <3>2. e \in EditOf(S) /\ e.pc = "edit" /\ e.from = arFile  BY <2>1, <3>1 DEF EditOf
    <3> QED BY <3>2 DEF Shaped
  <2>3. arEdit' = [arEdit EXCEPT ![w] = e] /\ arKnown' = [arKnown EXCEPT ![w] = @ \cup {arFile}] /\ UNCHANGED <<arFile, arLock>>
    BY <1>3, <2>1 DEF ReadRegistry
  <2>4. /\ arKnown' = [v \in RegWriters |-> arKnown'[v]] /\ \A v \in RegWriters : arKnown[v] \subseteq arKnown'[v]
        /\ arFile \in arKnown'[w]
    BY <1>2, <2>3
  <2> QED BY <1>2, <2>2, <2>3, <2>4, OneEdits
<1>4. ASSUME NEW w \in RegWriters, NEW next, NEW released, NEW drop, AskSave(w, next, released, drop) PROVE RegistryInv'
  <2>1. PICK e : e = IF next = <<>> THEN [arEdit[w] EXCEPT !.pc = "idle", !.answer = "accounts_setup_replacement"]
                     ELSE [arEdit[w] EXCEPT !.pc = "lock", !.next = next, !.released = released, !.drop = drop]
    OBVIOUS
  <2>2. /\ Shaped(e)
        /\ e.pc \in {"idle", "lock"} /\ e.from = arEdit[w].from
    <3>1. CASE e = [arEdit[w] EXCEPT !.pc = "idle", !.answer = "accounts_setup_replacement"]
      <4>8. PICK S : {"idle", "accounts_setup_replacement"} \subseteq S /\ arEdit[w] \in EditOf(S)  BY <1>2, Widens
      <4>9. e \in EditOf(S) /\ e.pc = "idle" /\ e.from = arEdit[w].from  BY <3>1, <4>8 DEF EditOf
      <4> QED BY <4>9 DEF Shaped
    <3>2. CASE e = [arEdit[w] EXCEPT !.pc = "lock", !.next = next, !.released = released, !.drop = drop]
      <4>8. PICK S : {"lock", next, released, drop} \subseteq S /\ arEdit[w] \in EditOf(S)  BY <1>2, Widens
      <4>9. e \in EditOf(S) /\ e.pc = "lock" /\ e.from = arEdit[w].from  BY <3>2, <4>8 DEF EditOf
      <4> QED BY <4>9 DEF Shaped
    <3> QED BY <2>1, <3>1, <3>2
  <2>3. arEdit' = [arEdit EXCEPT ![w] = e] /\ arEdit[w].pc = "edit" /\ UNCHANGED <<arFile, arLock, arKnown>>
    <3>1. w \in DOMAIN arEdit  BY DEF RegistryInv
    <3> QED BY <1>4, <2>1, <3>1 DEF AskSave
  <2> QED BY <1>2, <2>2, <2>3, OneEdits
<1>5. ASSUME NEW w \in RegWriters, TakeLock(w) PROVE RegistryInv'
  <2>1. PICK e : e = IF arLock = "free" THEN [arEdit[w] EXCEPT !.pc = "check"]
                     ELSE [arEdit[w] EXCEPT !.pc = "idle", !.answer = "accounts_busy"]
    OBVIOUS
  <2>2. /\ Shaped(e)
        /\ e.pc = (IF arLock = "free" THEN "check" ELSE "idle") /\ e.from = arEdit[w].from
    <3>1. CASE arLock = "free"
      <4>1. e = [arEdit[w] EXCEPT !.pc = "check"]  BY <2>1, <3>1
      <4>8. PICK S : {"check"} \subseteq S /\ arEdit[w] \in EditOf(S)  BY <1>2, Widens
      <4>9. e \in EditOf(S) /\ e.pc = "check" /\ e.from = arEdit[w].from  BY <4>1, <4>8 DEF EditOf
      <4> QED BY <3>1, <4>9 DEF Shaped
    <3>2. CASE arLock # "free"
      <4>1. e = [arEdit[w] EXCEPT !.pc = "idle", !.answer = "accounts_busy"]  BY <2>1, <3>2
      <4>8. PICK S : {"idle", "accounts_busy"} \subseteq S /\ arEdit[w] \in EditOf(S)  BY <1>2, Widens
      <4>9. e \in EditOf(S) /\ e.pc = "idle" /\ e.from = arEdit[w].from  BY <4>1, <4>8 DEF EditOf
      <4> QED BY <3>2, <4>9 DEF Shaped
    <3> QED BY <3>1, <3>2
  <2>3. /\ arEdit' = [arEdit EXCEPT ![w] = e] /\ arEdit[w].pc = "lock" /\ UNCHANGED <<arFile, arKnown>>
        /\ arLock' = IF arLock = "free" THEN w ELSE arLock
    <3>1. w \in DOMAIN arEdit  BY DEF RegistryInv
    <3> QED BY <1>5, <2>1, <3>1 DEF TakeLock
  <2>4. \A v \in RegWriters \ {w} : arEdit[v].pc \in {"check", "replace"} => arLock' = v  BY <1>2, <2>3
  <2> QED BY <1>2, <2>2, <2>3, <2>4, OneEdits
<1>6. ASSUME NEW w \in RegWriters, CheckSave(w) PROVE RegistryInv'
  <2>1. PICK verdict : verdict = IF ~SameRevision(w) THEN "accounts_conflict"
                                 ELSE IF ~NothingLost(w) THEN "accounts_unexpected_removal" ELSE "none"
    OBVIOUS
  <2>2. PICK e : e = IF verdict = "none" THEN [arEdit[w] EXCEPT !.pc = "replace"]
                     ELSE [arEdit[w] EXCEPT !.pc = "idle", !.answer = verdict]
    OBVIOUS
  <2>3. /\ Shaped(e)
        /\ e.pc = (IF verdict = "none" THEN "replace" ELSE "idle") /\ e.from = arEdit[w].from
        /\ e.next = arEdit[w].next /\ e.released = arEdit[w].released /\ e.drop = arEdit[w].drop
    <3>1. CASE verdict = "none"
      <4>1. e = [arEdit[w] EXCEPT !.pc = "replace"]  BY <2>2, <3>1
      <4>8. PICK S : {"replace"} \subseteq S /\ arEdit[w] \in EditOf(S)  BY <1>2, Widens
      <4>9. e \in EditOf(S) /\ e.pc = "replace" /\ e.from = arEdit[w].from /\ e.next = arEdit[w].next /\ e.released = arEdit[w].released /\ e.drop = arEdit[w].drop
        BY <4>1, <4>8 DEF EditOf
      <4> QED BY <3>1, <4>9 DEF Shaped
    <3>2. CASE verdict # "none"
      <4>1. e = [arEdit[w] EXCEPT !.pc = "idle", !.answer = verdict]  BY <2>2, <3>2
      <4>8. PICK S : {"idle", verdict} \subseteq S /\ arEdit[w] \in EditOf(S)  BY <1>2, Widens
      <4>9. e \in EditOf(S) /\ e.pc = "idle" /\ e.from = arEdit[w].from /\ e.next = arEdit[w].next /\ e.released = arEdit[w].released /\ e.drop = arEdit[w].drop
        BY <4>1, <4>8 DEF EditOf
      <4> QED BY <3>2, <4>9 DEF Shaped
    <3> QED BY <3>1, <3>2
  <2>4. /\ arEdit' = [arEdit EXCEPT ![w] = e] /\ arEdit[w].pc = "check" /\ UNCHANGED <<arFile, arKnown>>
        /\ arLock' = IF verdict = "none" THEN arLock ELSE "free"
    <3>1. w \in DOMAIN arEdit  BY DEF RegistryInv
    <3> QED BY <1>6, <2>1, <2>2, <3>1 DEF CheckSave
  <2>5. e.pc = "replace" => e.from = arFile /\ (e.drop \/ ToSet(arFile) \subseteq ToSet(e.next) \cup e.released)
    BY <2>1, <2>3 DEF SameRevision, NothingLost
  <2>6. e.pc \in {"check", "replace"} => arLock' = w  BY <1>2, <2>3, <2>4
  <2>7. \A v \in RegWriters \ {w} : arEdit[v].pc \notin {"check", "replace"}  BY <2>4, OneHolder
  <2> QED BY <1>2, <2>3, <2>4, <2>5, <2>6, <2>7, OneEdits
<1>7. ASSUME NEW w \in RegWriters, KillWriter(w) PROVE RegistryInv'
  <2>2. arEdit' = [arEdit EXCEPT ![w] = NoEdit] /\ UNCHANGED <<arFile, arKnown>> /\ arLock' = IF arLock = w THEN "free" ELSE arLock
    BY <1>7 DEF KillWriter
  <2>3. \A v \in RegWriters \ {w} : arEdit[v].pc \in {"check", "replace"} => arLock' = v  BY <1>2, <2>2
  <2> QED BY <1>2, <2>2, <2>3, NoEditIs, OneEdits
<1>8. ASSUME NEW w \in RegWriters, NEW renamed \in BOOLEAN, NEW synced \in BOOLEAN, ReplaceFile(w, renamed, synced)
     PROVE RegistryInv'
  <2>1. PICK e : e = [arEdit[w] EXCEPT !.pc = "idle", !.answer = IF synced THEN "saved" ELSE "accounts_write_failed"]  OBVIOUS
  <2>2. Shaped(e) /\ e.pc = "idle"
    <3>8. PICK S : {"idle", "saved", "accounts_write_failed"} \subseteq S /\ arEdit[w] \in EditOf(S)  BY <1>2, Widens
    <3>9. e \in EditOf(S) /\ e.pc = "idle"  BY <2>1, <3>8 DEF EditOf
    <3> QED BY <3>9 DEF Shaped
  <2>3. DOMAIN arEdit = RegWriters /\ arKnown = [v \in RegWriters |-> arKnown[v]] /\ arEdit[w].pc = "replace"
    BY <1>8 DEF RegistryInv, ReplaceFile
  <2>4. arEdit' = [arEdit EXCEPT ![w] = e]  BY <1>8, <2>1, <2>3 DEF ReplaceFile
  <2>5. arEdit'[w] = e /\ (\A v \in RegWriters \ {w} : arEdit'[v] = arEdit[v]) /\ DOMAIN arEdit' = RegWriters
        /\ arEdit' = [v \in RegWriters |-> arEdit'[v]]
    BY <2>3, <2>4
  <2>6. /\ arKnown' = [v \in RegWriters |-> arKnown'[v]] /\ \A v \in RegWriters \ {w} : arKnown'[v] = arKnown[v]
    BY <1>8, <2>3 DEF ReplaceFile
  <2>7. \A v \in RegWriters \ {w} : arEdit[v].pc \notin {"check", "replace"}  BY <2>3, OneHolder
  <2>8. EditShape'  BY <1>2, <2>2, <2>5 DEF EditShape
  <2>9. ASSUME NEW v \in RegWriters
        PROVE  /\ arEdit'[v].pc \notin {"check", "replace"}
               /\ arEdit'[v].pc # "idle" => arEdit'[v].from \in arKnown'[v]
    BY <1>2, <2>2, <2>5, <2>6, <2>7
  <2> QED BY <2>5, <2>6, <2>8, <2>9 DEF RegistryInv
<1> QED BY <1>1, <1>3, <1>4, <1>5, <1>6, <1>7, <1>8 DEF RegistryNext

\* A save that takes an account out of the file was made from that file, and released it or was allowed to.
LEMMA LossIsAsked ==
  ASSUME RegistryInv, [RegistryNext]_registryVars, NEW a \in ToSet(arFile) \ ToSet(arFile')
  PROVE  \E w \in RegWriters : arFile \in arKnown[w] /\ (a \in arEdit[w].released \/ arEdit[w].drop)
<1>1. PICK w \in RegWriters : \E renamed, synced \in BOOLEAN : ReplaceFile(w, renamed, synced)
  <2>1. arFile' # arFile  OBVIOUS
  <2>2. ASSUME NEW w \in RegWriters, ReadRegistry(w) \/ TakeLock(w) \/ CheckSave(w) \/ KillWriter(w) PROVE FALSE
    BY <2>1, <2>2 DEF ReadRegistry, TakeLock, CheckSave, KillWriter
  <2>3. ASSUME NEW w \in RegWriters, NEW next, NEW r, NEW d, AskSave(w, next, r, d) PROVE FALSE
    BY <2>1, <2>3 DEF AskSave
  <2> QED BY <2>1, <2>2, <2>3 DEF RegistryNext, registryVars
<1>2. arFile' = arEdit[w].next /\ arEdit[w].pc = "replace"
  <2>1. arFile' # arFile  OBVIOUS
  <2> QED BY <1>1, <2>1 DEF ReplaceFile
<1>3. arEdit[w].from \in arKnown[w] /\ arEdit[w].from = arFile
      /\ (arEdit[w].drop \/ ToSet(arFile) \subseteq ToSet(arEdit[w].next) \cup arEdit[w].released)
  BY <1>2 DEF RegistryInv, SameRevision, NothingLost
<1> QED BY <1>2, <1>3

(* No account is lost to a save made from an older copy, whatever processes are killed where. *)
THEOREM AccountsStay == RegistrySpec => NoAccountLost
<1>1. RegistryInv /\ [RegistryNext]_registryVars =>
        [\A a \in ToSet(arFile) \ ToSet(arFile') :
           \E w \in RegWriters : /\ arFile \in arKnown[w]
                                 /\ a \in arEdit[w].released \/ arEdit[w].drop]_registryVars
  BY LossIsAsked
<1> QED BY <1>1, RegistryStarts, RegistryStays, PTL DEF RegistrySpec, NoAccountLost
------------------------------------
(* The rows of the assistant's jobs *)

ViewsSpec == ViewsInit /\ [][ViewsNext]_viewVars

\* The row that is shown when one more is looked at, and all that are shown on the way.
NextBest(row, b) == IF b = NoRow \/ Wins(row, b) THEN row ELSE b
Fold(list, N, f) == f = [k \in 0..N |-> IF k = 0 THEN NoRow ELSE NextBest(list[k], f[k - 1])]

LEMMA FoldsExist == ASSUME NEW list, NEW N \in Nat PROVE \E f : Fold(list, N, f)
<1> DEFINE G == {n \in Nat : \E f : Fold(list, n, f)}
<1>1. 0 \in G
  <2> DEFINE f == [k \in 0..0 |-> NoRow]
  <2>1. Fold(list, 0, f)  BY DEF Fold
  <2> QED BY <2>1
<1>2. ASSUME NEW n \in 0..N - 1, n \in G PROVE n + 1 \in G
  <2>1. PICK f : Fold(list, n, f)  BY <1>2
  <2> DEFINE last == NextBest(list[n + 1], f[n])
             g == [k \in 0..n + 1 |-> IF k = n + 1 THEN last ELSE f[k]]
  <2>2. n \in Nat /\ n + 1 \in Nat  OBVIOUS
  <2>3. DOMAIN f = 0..n /\ \A k \in 0..n : f[k] = IF k = 0 THEN NoRow ELSE NextBest(list[k], f[k - 1])  BY <2>1 DEF Fold
  <2> HIDE DEF last
  <2>4. ASSUME NEW k \in 0..n + 1 PROVE g[k] = IF k = 0 THEN NoRow ELSE NextBest(list[k], g[k - 1])
    <3>1. CASE k = n + 1
      <4>1. g[k] = last /\ k # 0 /\ k - 1 = n /\ g[n] = f[n]  BY <2>2, <3>1
      <4> QED BY <3>1, <4>1 DEF last
    <3>2. CASE k # n + 1
      <4>1. k \in 0..n /\ g[k] = f[k] /\ (k # 0 => g[k - 1] = f[k - 1])  BY <2>2, <3>2
      <4> QED BY <2>3, <4>1
    <3> QED BY <3>1, <3>2
  <2>5. Fold(list, n + 1, g)  BY <2>4 DEF Fold
  <2> QED BY <2>2, <2>5
<1> HIDE DEF G
<1>3. \A n \in 0..N : n \in G  BY <1>1, <1>2, ClimbTo
<1> QED BY <1>3 DEF G

LEMMA ChosenIs ==
  ASSUME NEW list, Len(list) \in Nat
  PROVE  \E f : /\ f[0] = NoRow /\ \A k \in 1..Len(list) : f[k] = NextBest(list[k], f[k - 1])
                /\ Chosen(list) = f[Len(list)]
<1> DEFINE N == Len(list)
           f == CHOOSE h : Fold(list, N, h)
<1>1. Fold(list, N, f)  BY FoldsExist
<1>2. Chosen(list) = f[N]  BY DEF Chosen, Fold, NextBest
<1> HIDE DEF f
<1>3. f[0] = NoRow /\ \A k \in 1..N : f[k] = NextBest(list[k], f[k - 1])  BY <1>1 DEF Fold
<1> QED BY <1>2, <1>3

\* The best of the first rows.
BestOf(list, n, b) ==
  IF n = 0 THEN b = NoRow
  ELSE /\ \E i \in 1..n : b = list[i]
       /\ (\E i \in 1..n : IsActive(list[i])) => IsActive(b)
       /\ (\A i \in 1..n : ~IsActive(list[i])) => \A i \in 1..n : list[i].order <= b.order

LEMMA OneMoreRow ==
  ASSUME NEW list \in Seq(Row), NEW n \in 1..Len(list), NEW b, BestOf(list, n - 1, b)
  PROVE  BestOf(list, n, NextBest(list[n], b))
<1>1. /\ n \in Nat /\ n - 1 \in Nat /\ n # 0 /\ n \in 1..n /\ 1..n = (1..n - 1) \cup {n}
      /\ \A i \in 1..n : list[i] \in Row /\ list[i].order \in Int /\ list[i] # NoRow
  <2>1. n \in Nat /\ n - 1 \in Nat /\ n # 0 /\ n \in 1..n /\ 1..n = (1..n - 1) \cup {n}  OBVIOUS
  <2>2. \A i \in 1..n : list[i] \in Row  OBVIOUS
  <2>3. \A r \in Row : r.order \in Int /\ r.state # "none"  BY ViewsAssumption DEF Row
  <2>4. \A r \in Row : r # NoRow  BY <2>3 DEF NoRow
  <2> QED BY <2>1, <2>2, <2>3, <2>4
<1> DEFINE c == NextBest(list[n], b)
<1>2. CASE n - 1 = 0
  <2>1. b = NoRow /\ c = list[n] /\ n = 1 /\ 1..n = {1}  BY <1>1, <1>2 DEF BestOf, NextBest
  <2>2. list[1].order <= list[1].order  BY <1>1, <2>1
  <2> HIDE DEF c
  <2>3. BestOf(list, n, c)  BY <1>1, <2>1, <2>2 DEF BestOf
  <2> QED BY <2>3 DEF c
<1>3. CASE n - 1 # 0
  <2>1. /\ \E i \in 1..n - 1 : b = list[i]
        /\ (\E i \in 1..n - 1 : IsActive(list[i])) => IsActive(b)
        /\ (\A i \in 1..n - 1 : ~IsActive(list[i])) => \A i \in 1..n - 1 : list[i].order <= b.order
    BY <1>3 DEF BestOf
  <2>2. PICK m \in 1..n - 1 : b = list[m]  BY <2>1
  <2>3. b # NoRow /\ b.order \in Int /\ list[n].order \in Int /\ m \in 1..n /\ IsActive(b) \in BOOLEAN  BY <1>1, <2>2 DEF IsActive
  <2>4. c = IF IsActive(list[n]) \/ (~IsActive(b) /\ list[n].order > b.order) THEN list[n] ELSE b  BY <2>3 DEF NextBest, Wins
  <2> HIDE DEF c
  <2>5. \E i \in 1..n : c = list[i]  BY <1>1, <2>2, <2>3, <2>4
  <2>6. (\E i \in 1..n : IsActive(list[i])) => IsActive(c)  BY <1>1, <2>1, <2>4
  <2>7. ASSUME \A i \in 1..n : ~IsActive(list[i]), NEW i \in 1..n PROVE list[i].order <= c.order
    <3>1. ~IsActive(list[n]) /\ ~IsActive(b) /\ \A k \in 1..n - 1 : list[k].order <= b.order  BY <1>1, <2>1, <2>2, <2>3, <2>7
    <3>2. c.order >= b.order /\ c.order >= list[n].order /\ c.order \in Int  BY <2>3, <2>4, <3>1
    <3>3. CASE i = n  BY <2>3, <3>2, <3>3
    <3>4. CASE i # n
      <4>1. i \in 1..n - 1 /\ list[i].order \in Int /\ list[i].order <= b.order  BY <1>1, <2>7, <3>1, <3>4
      <4> QED BY <2>3, <3>2, <4>1
    <3> QED BY <3>3, <3>4
  <2>8. BestOf(list, n, c)  BY <1>1, <2>5, <2>6, <2>7 DEF BestOf
  <2> QED BY <2>8 DEF c
<1> QED BY <1>2, <1>3

LEMMA ChosenIsBest == ASSUME NEW list \in Seq(Row) PROVE BestOf(list, Len(list), Chosen(list))
<1>1. Len(list) \in Nat  OBVIOUS
<1>2. PICK f : /\ f[0] = NoRow /\ \A k \in 1..Len(list) : f[k] = NextBest(list[k], f[k - 1])
               /\ Chosen(list) = f[Len(list)]
  BY <1>1, ChosenIs
<1> DEFINE G == {n \in 0..Len(list) : BestOf(list, n, f[n])}
<1>3. 0 \in G  BY <1>1, <1>2 DEF BestOf
<1>4. ASSUME NEW n \in 0..Len(list) - 1, n \in G PROVE n + 1 \in G
  <2>1. n + 1 \in 1..Len(list) /\ (n + 1) - 1 = n /\ BestOf(list, n, f[n])  BY <1>1, <1>4
  <2>2. BestOf(list, n + 1, NextBest(list[n + 1], f[n]))  BY <2>1, OneMoreRow
  <2>3. f[n + 1] = NextBest(list[n + 1], f[n])  BY <1>2, <2>1
  <2> QED BY <1>1, <2>1, <2>2, <2>3
<1> HIDE DEF G
<1>5. Len(list) \in G
  <2>1. \A n \in 0..Len(list) : n \in G  BY <1>1, <1>3, <1>4, ClimbTo
  <2> QED BY <1>1, <2>1
<1> QED BY <1>2, <1>5 DEF G

\* Among the rows at some places of the listing, the one that is chosen is the best.
LEMMA BestAt == ASSUME rows \in Seq(Row), NEW P, P \subseteq 1..Len(rows) PROVE Best(P, Chosen(Picked(rows, P)))
<1> DEFINE t == Picked(rows, P)
           h == Rising(P)
           b == Chosen(t)
<1>1. /\ t \in Seq(Row) /\ Len(t) = Cardinality(P) /\ DrawnBy(t, rows, h) /\ h \in [1..Len(t) -> P] /\ IsFiniteSet(P)
      /\ \A k \in P : \E n \in 1..Len(t) : h[n] = k
  <2>1. t = Picked(rows, P) /\ h = Rising(P)  OBVIOUS
  <2> HIDE DEF t, h
  <2>2. P \subseteq 1..Len(rows) /\ rows \in Seq(Row)  OBVIOUS
  <2>3. t \in Seq(Row) /\ Len(t) = Cardinality(P) /\ IsFiniteSet(P)  BY <2>1, <2>2, PickedIs
  <2>4. DrawnBy(t, rows, h) /\ h \in [1..Len(t) -> P]  BY <2>1, <2>2, PickedIs
  <2>5. \A k \in P : \E n \in 1..Len(t) : h[n] = k
    <3>1. P \subseteq Nat  BY <2>2
    <3>2. \A u \in P : \E i \in 1..Cardinality(P) : Rising(P)[i] = u  BY <2>3, <3>1, RisingIs
    <3> QED BY <2>1, <2>3, <3>2
  <2> QED BY <2>3, <2>4, <2>5
<1>0. Len(t) \in Nat  BY <1>1
<1>2. \A n \in 1..Len(t) : t[n] = rows[h[n]] /\ h[n] \in P  BY <1>1 DEF DrawnBy
<1>3. BestOf(t, Len(t), b)  BY <1>1, ChosenIsBest
<1> HIDE DEF t, h, b
<1>4. CASE P = {}
  <2>1. Len(t) = 0  BY <1>1, <1>4, FS_EmptySet
  <2> QED BY <1>3, <1>4, <2>1 DEF Best, BestOf, b, t
<1>5. CASE P # {}
  <2>1. Len(t) # 0
    <3>1. PICK k \in P : TRUE  BY <1>5
    <3>2. PICK n \in 1..Len(t) : h[n] = k  BY <1>1, <3>1
    <3> QED BY <1>0, <3>2
  <2>2. /\ \E n \in 1..Len(t) : b = t[n]
        /\ (\E n \in 1..Len(t) : IsActive(t[n])) => IsActive(b)
        /\ (\A n \in 1..Len(t) : ~IsActive(t[n])) => \A n \in 1..Len(t) : t[n].order <= b.order
    BY <1>3, <2>1 DEF BestOf
  <2>3. \E i \in P : b = rows[i]  BY <1>2, <2>2
  <2>4. (\E i \in P : IsActive(rows[i])) => IsActive(b)  BY <1>1, <1>2, <2>2
  <2>5. ASSUME \A i \in P : ~IsActive(rows[i]), NEW i \in P PROVE rows[i].order <= b.order
    <3>1. \A n \in 1..Len(t) : ~IsActive(t[n])  BY <1>2, <2>5
    <3> QED BY <1>1, <1>2, <2>2, <3>1
  <2> QED BY <1>5, <2>3, <2>4, <2>5 DEF Best, b, t
<1> QED BY <1>4, <1>5

LEMMA RowsFit == ViewsSpec => [](rows \in Seq(Row))
<1>1. ViewsInit => rows \in Seq(Row)  BY DEF ViewsInit
<1>2. rows \in Seq(Row) /\ [ViewsNext]_viewVars => (rows \in Seq(Row))'  BY DEF ViewsNext, AddRow, viewVars
<1> QED BY <1>1, <1>2, PTL DEF ViewsSpec

(* Whatever the order of the listing, a message shows a job that runs when one does and the newest one when none
   does, for any accounts, messages and number of rows (agent/jobs.rs: projection). *)
THEOREM MessagesShowBest == ViewsSpec => []MessageShowsBest
<1>1. rows \in Seq(Row) => MessageShowsBest
  <2> SUFFICES ASSUME rows \in Seq(Row), NEW a \in ViewAccounts, NEW m \in ViewMessages
               PROVE  Best(Works(a, m), ByMessage(a, m)) /\ Best(Looks(a, m), EventLook(a, m))
    BY DEF MessageShowsBest
  <2>1. Works(a, m) \subseteq 1..Len(rows) /\ Looks(a, m) \subseteq 1..Len(rows)  BY DEF Works, Looks, For
  <2> QED BY <2>1, BestAt DEF ByMessage, EventLook
<1> QED BY <1>1, RowsFit, PTL

(* What a message shows and what the panel of a selection with it shows agree: the message never shows a job that
   settled beside a live one of the selection, nor an older one. *)
THEOREM RowsDoAgree == ViewsSpec => []RowsAgree
<1>1. rows \in Seq(Row) => RowsAgree
  <2> SUFFICES ASSUME rows \in Seq(Row), NEW a \in ViewAccounts, NEW key \in (SUBSET ViewMessages) \ {{}},
                      ScopeJob(a, key) # NoRow, NEW m \in key
               PROVE  LET shown == ScopeJob(a, key) row == ByMessage(a, m)
                      IN IsActive(row) \/ (~IsActive(shown) /\ shown.order <= row.order)
    BY DEF RowsAgree
  <2> DEFINE group == Scope(a, key)
             live == {i \in group : IsActive(rows[i])}
             P == Works(a, m)
             row == ByMessage(a, m)
  <2>1. group \subseteq P /\ P \subseteq 1..Len(rows) /\ live \subseteq group  BY DEF Scope, Works, For
  <2>2. Best(P, row)  BY <2>1, BestAt DEF ByMessage
  <2>3. ScopeJob(a, key) = IF live # {} THEN rows[Min(live)]
                           ELSE IF group = {} THEN NoRow ELSE rows[CHOOSE i \in group : \A k \in group : rows[k].order <= rows[i].order]
    BY DEF ScopeJob
  <2> HIDE DEF group, live, P, row
  <2>4. CASE live # {}
    <3>1. \E i \in P : IsActive(rows[i])  BY <2>1, <2>4 DEF live
    <3>2. IsActive(row)  BY <2>2, <3>1 DEF Best
    <3> QED BY <3>2 DEF row
  <2>5. CASE live = {} /\ ~IsActive(row)
    <3>1. group # {} /\ P # {}  BY <2>1, <2>3, <2>5
    <3>2. \A i \in P : ~IsActive(rows[i]) /\ rows[i].order <= row.order  BY <2>2, <2>5, <3>1 DEF Best
    <3>3. \E i \in group : \A k \in group : rows[k].order <= rows[i].order
      <4> DEFINE orders == {rows[i].order : i \in group}
      <4>1. \A i \in group : rows[i].order \in Nat
        <5>1. \A i \in 1..Len(rows) : rows[i] \in Row  OBVIOUS
        <5>2. \A r \in Row : r.order \in Nat  BY ViewsAssumption DEF Row
        <5> QED BY <2>1, <5>1, <5>2
      <4>2. IsFiniteSet(group)
        <5>1. Len(rows) \in Nat /\ group \subseteq 1..Len(rows)  BY <2>1
        <5> QED BY <5>1, PlacesAre
      <4>3. IsFiniteSet(orders) /\ orders \subseteq Nat /\ orders # {}
        <5> DEFINE f == [i \in group |-> rows[i].order]
        <5>1. IsFiniteSet({f[i] : i \in group})
          <6> DEFINE R == {f[i] : i \in group}
          <6>1. f \in [group -> R] /\ \A y \in R : \E x \in group : f[x] = y  OBVIOUS
          <6> HIDE DEF f, R
          <6>2. IsFiniteSet(R)  BY <4>2, <6>1, ImageOf
          <6> QED BY <6>2 DEF R
        <5>2. orders = {f[i] : i \in group}  OBVIOUS
        <5> QED BY <3>1, <4>1, <5>1, <5>2
      <4>4. Max(orders) \in orders /\ \A v \in orders : Max(orders) >= v  BY <4>3, EndsAre
      <4> QED BY <4>1, <4>4
    <3>4. PICK i \in group : ScopeJob(a, key) = rows[i]  BY <2>3, <2>5, <3>1, <3>3
    <3>5. ~IsActive(rows[i]) /\ rows[i].order <= row.order  BY <2>1, <3>2
    <3> QED BY <3>4, <3>5 DEF row
  <2>6. IsActive(row) \in BOOLEAN  BY DEF IsActive
  <2> QED BY <2>4, <2>5, <2>6 DEF row
<1> QED BY <1>1, RowsFit, PTL
------------------------------------
(* The list of several accounts *)

AccountViewsSpec == AccountViewsInit /\ [][AccountViewsNext]_viewsVars

\* An accounts' messages so far, with those at hand and the list made of them.
Handed(loaded) == loaded \in [UnifiedAccounts -> Nat] /\ \A a \in UnifiedAccounts : loaded[a] <= Len(UnifiedMail[a])
ListInv == Handed(uvLoaded) /\ uvShown = Merged(uvLoaded)

LEMMA MailIs ==
  /\ \A a \in UnifiedAccounts : Len(UnifiedMail[a]) \in Nat /\ \A i \in 1..Len(UnifiedMail[a]) : UnifiedMail[a][i] \in DOMAIN MailTime
  /\ \A m \in DOMAIN MailTime : m \in Nat /\ MailTime[m] \in Nat
<1>1. \A a \in UnifiedAccounts : UnifiedMail[a] \in Seq(DOMAIN MailTime)  BY ViewBounds
<1>2. \A s \in Seq(DOMAIN MailTime) : Len(s) \in Nat /\ \A i \in 1..Len(s) : s[i] \in DOMAIN MailTime  OBVIOUS
<1> QED BY <1>1, <1>2, ViewBounds

\* The rows at hand are a finite set of messages, each of an account and at a place that was handed over.
LEMMA RowsAt ==
  ASSUME NEW loaded, Handed(loaded)
  PROVE  /\ RowsOf(loaded) \subseteq DOMAIN MailTime /\ IsFiniteSet(RowsOf(loaded))
         /\ \A m : m \in RowsOf(loaded) <=> \E a \in UnifiedAccounts : \E i \in 1..loaded[a] : m = UnifiedMail[a][i]
<1> DEFINE of == [a \in UnifiedAccounts |-> {UnifiedMail[a][i] : i \in 1..loaded[a]}]
<1>1. \A m : m \in RowsOf(loaded) <=> \E a \in UnifiedAccounts : \E i \in 1..loaded[a] : m = UnifiedMail[a][i]  BY DEF RowsOf
<1>2. \A a \in UnifiedAccounts : loaded[a] \in Nat /\ 1..loaded[a] \subseteq 1..Len(UnifiedMail[a])  BY MailIs DEF Handed
<1>3. RowsOf(loaded) \subseteq DOMAIN MailTime  BY <1>1, <1>2, MailIs
<1>4. ASSUME NEW a \in UnifiedAccounts PROVE IsFiniteSet(of[a])
  <2> DEFINE f == [i \in 1..loaded[a] |-> UnifiedMail[a][i]]
             R == {UnifiedMail[a][i] : i \in 1..loaded[a]}
  <2>1. f \in [1..loaded[a] -> R] /\ \A y \in R : \E x \in 1..loaded[a] : f[x] = y  OBVIOUS
  <2>2. IsFiniteSet(1..loaded[a])  BY <1>2, PlacesAre
  <2>3. of[a] = R  OBVIOUS
  <2> HIDE DEF f, R, of
  <2> QED BY <2>1, <2>2, <2>3, ImageOf
<1>5. IsFiniteSet({of[a] : a \in UnifiedAccounts})
  <2> DEFINE R == {of[a] : a \in UnifiedAccounts}
  <2>1. of \in [UnifiedAccounts -> R] /\ \A y \in R : \E x \in UnifiedAccounts : of[x] = y  OBVIOUS
  <2>2. IsFiniteSet(UnifiedAccounts)  BY ViewBounds
  <2> HIDE DEF R, of
  <2>3. IsFiniteSet(R)  BY <2>1, <2>2, ImageOf
  <2> QED BY <2>3 DEF R
<1>6. IsFiniteSet(UNION {of[a] : a \in UnifiedAccounts})
  <2>1. \A x \in {of[a] : a \in UnifiedAccounts} : IsFiniteSet(x)  BY <1>4
  <2> HIDE DEF of
  <2> QED BY <1>5, <2>1, FS_UNION
<1>7. UNION {of[a] : a \in UnifiedAccounts} = RowsOf(loaded)  BY DEF RowsOf
<1> QED BY <1>1, <1>3, <1>6, <1>7

\* The floor: no account with more to come has its last row above it, and it is one of these or nothing.
LEMMA FloorIs ==
  ASSUME NEW loaded, Handed(loaded)
  PROVE  /\ FloorOf(loaded) \in Nat
         /\ \A a \in UnifiedAccounts : loaded[a] > 0 /\ HasMore(loaded, a) => MailTime[UnifiedMail[a][loaded[a]]] <= FloorOf(loaded)
         /\ FloorOf(loaded) = 0 \/ \E a \in UnifiedAccounts : /\ loaded[a] > 0 /\ HasMore(loaded, a)
                                                             /\ FloorOf(loaded) = MailTime[UnifiedMail[a][loaded[a]]]
<1> DEFINE B == {b \in UnifiedAccounts : loaded[b] > 0 /\ HasMore(loaded, b)}
           f == [a \in B |-> MailTime[UnifiedMail[a][loaded[a]]]]
           R == {f[a] : a \in B}
           S == {0} \cup R
<1>1. \A a \in B : f[a] \in Nat
  <2> SUFFICES ASSUME NEW a \in B PROVE MailTime[UnifiedMail[a][loaded[a]]] \in Nat  OBVIOUS
  <2>1. a \in UnifiedAccounts /\ loaded[a] \in 1..Len(UnifiedMail[a])  BY MailIs DEF Handed
  <2> QED BY <2>1, MailIs
<1>2. IsFiniteSet(B)
  <2>1. B \subseteq UnifiedAccounts  OBVIOUS
  <2> QED BY <2>1, ViewBounds, FS_Subset
<1>3. f \in [B -> R] /\ \A y \in R : \E x \in B : f[x] = y  OBVIOUS
<1>4. FloorOf(loaded) = Max(S)
  <2>1. S = {0} \cup {MailTime[UnifiedMail[a][loaded[a]]] : a \in {b \in UnifiedAccounts : loaded[b] > 0 /\ HasMore(loaded, b)}}
    OBVIOUS
  <2> HIDE DEF S
  <2> QED BY <2>1 DEF FloorOf
<1>5. \A a \in UnifiedAccounts : loaded[a] > 0 /\ HasMore(loaded, a) => a \in B /\ f[a] = MailTime[UnifiedMail[a][loaded[a]]]
  OBVIOUS
<1>6. \A a \in B : /\ a \in UnifiedAccounts /\ loaded[a] > 0 /\ HasMore(loaded, a)
                   /\ f[a] = MailTime[UnifiedMail[a][loaded[a]]]
  OBVIOUS
<1>6a. \A a \in B : f[a] \in S  OBVIOUS
<1>6b. \A v \in S : v = 0 \/ \E a \in B : v = f[a]  OBVIOUS
<1> HIDE DEF B, f
<1>7. IsFiniteSet(R)
  <2> HIDE DEF R
  <2> QED BY <1>2, <1>3, ImageOf
<1>8. IsFiniteSet(S) /\ S \subseteq Nat /\ S # {}
  <2>1. IsFiniteSet({0}) /\ R \subseteq Nat  BY <1>1, FS_Singleton
  <2> HIDE DEF R
  <2>2. IsFiniteSet({0} \cup R)  BY <1>7, <2>1, FS_Union
  <2> QED BY <2>1, <2>2
<1> HIDE DEF S
<1>9. Max(S) \in S /\ \A v \in S : Max(S) >= v  BY <1>8, EndsAre
<1>10. FloorOf(loaded) \in S /\ FloorOf(loaded) \in Nat /\ \A v \in S : v \in Nat /\ FloorOf(loaded) >= v  BY <1>4, <1>8, <1>9
<1>11. \A a \in B : f[a] <= FloorOf(loaded)  BY <1>6a, <1>10
<1> QED BY <1>5, <1>6, <1>6b, <1>10, <1>11

\* What is shown are the rows from the floor on, in their order.
LEMMA MergedIs ==
  ASSUME NEW loaded, Handed(loaded)
  PROVE  LET U == Unhidden(loaded) s == Merged(loaded) IN
         /\ IsFiniteSet(U) /\ U \subseteq Nat /\ Cardinality(U) \in Nat /\ s \in [1..Cardinality(U) -> U] /\ Len(s) = Cardinality(U)
         /\ ToSet(s) = U
         /\ \A i \in 1..Cardinality(U) : Cardinality({v \in U : v < s[i]}) = i - 1
         /\ \A u \in U : \E i \in 1..Cardinality(U) : s[i] = u
<1> DEFINE U == Unhidden(loaded)
           s == Merged(loaded)
<1>1. U \subseteq RowsOf(loaded) /\ s = Rising(U)  BY DEF Unhidden, Merged
<1> HIDE DEF U, s
<1>2. IsFiniteSet(U) /\ U \subseteq Nat
  <2>1. IsFiniteSet(RowsOf(loaded)) /\ RowsOf(loaded) \subseteq Nat  BY RowsAt, MailIs
  <2> QED BY <1>1, <2>1, FS_Subset
<1>3. /\ Cardinality(U) \in Nat /\ s \in [1..Cardinality(U) -> U]
      /\ \A i \in 1..Cardinality(U) : Cardinality({v \in U : v < s[i]}) = i - 1
  BY <1>1, <1>2, RisingIs
<1>4. \A u \in U : \E i \in 1..Cardinality(U) : s[i] = u  BY <1>1, <1>2, RisingIs
<1>5. Len(s) = Cardinality(U) /\ s \in Seq(U)  BY <1>3, FunIsSeq
<1>6. ToSet(s) = U  BY <1>3, <1>4 DEF ToSet
<1> QED BY <1>2, <1>3, <1>4, <1>5, <1>6 DEF U, s

\* Above the floor every message of every account is there.
LEMMA NothingHidden ==
  ASSUME NEW loaded, Handed(loaded), Begun(loaded), NEW m \in AllMail, MailTime[m] > FloorOf(loaded)
  PROVE  m \in Unhidden(loaded)
<1>1. PICK a \in UnifiedAccounts : \E i \in 1..Len(UnifiedMail[a]) : m = UnifiedMail[a][i]  BY DEF AllMail, RowsOf
<1>2. PICK i \in 1..Len(UnifiedMail[a]) : m = UnifiedMail[a][i]  BY <1>1
<1>3. loaded[a] \in Nat /\ loaded[a] <= Len(UnifiedMail[a]) /\ Len(UnifiedMail[a]) \in Nat /\ i \in Nat /\ i >= 1
  BY MailIs DEF Handed
<1>4. FloorOf(loaded) \in Nat /\ MailTime[m] \in Nat  BY <1>2, FloorIs, MailIs
<1>5. CASE i <= loaded[a]
  <2>1. m \in RowsOf(loaded)  BY <1>2, <1>3, <1>5, RowsAt
  <2> QED BY <1>4, <2>1 DEF Unhidden
<1>6. CASE loaded[a] < i
  <2>1. loaded[a] < Len(UnifiedMail[a])  BY <1>3, <1>6
  <2>2. HasMore(loaded, a) /\ loaded[a] > 0  BY <2>1 DEF Begun, HasMore
  <2> DEFINE last == UnifiedMail[a][loaded[a]]
  <2>3. loaded[a] \in 1..Len(UnifiedMail[a])  BY <1>3, <2>2
  <2>4. last \in DOMAIN MailTime /\ MailTime[last] \in Nat /\ MailTime[last] >= MailTime[m]  BY <1>2, <1>6, <2>3, MailIs, ViewBounds
  <2>5. MailTime[last] <= FloorOf(loaded)  BY <2>2, FloorIs
  <2> HIDE DEF last
  <2> QED BY <1>4, <2>4, <2>5
<1> QED BY <1>3, <1>5, <1>6

\* A page of an account: what is new is no newer than the floor was, and the floor does not rise.
LEMMA PageBelow ==
  ASSUME NEW loaded, Handed(loaded), Begun(loaded), NEW a \in UnifiedAccounts, NEW upTo \in 1..Len(UnifiedMail[a]),
         loaded[a] < upTo
  PROVE  LET next == [loaded EXCEPT ![a] = upTo] IN
         /\ Handed(next) /\ FloorOf(next) <= FloorOf(loaded)
         /\ RowsOf(loaded) \subseteq RowsOf(next)
         /\ \A m \in RowsOf(next) : m \notin RowsOf(loaded) => MailTime[m] <= FloorOf(loaded)
<1> DEFINE next == [loaded EXCEPT ![a] = upTo]
<1>1. /\ next[a] = upTo /\ \A b \in UnifiedAccounts : b # a => next[b] = loaded[b]
      /\ \A b \in UnifiedAccounts : loaded[b] \in Nat /\ loaded[b] <= Len(UnifiedMail[b]) /\ Len(UnifiedMail[b]) \in Nat
      /\ upTo \in Nat /\ upTo <= Len(UnifiedMail[a])
  BY MailIs DEF Handed
<1>2. Handed(next)
  <2>1. next \in [UnifiedAccounts -> Nat]  BY <1>1 DEF Handed
  <2>2. \A b \in UnifiedAccounts : next[b] <= Len(UnifiedMail[b])  BY <1>1
  <2> HIDE DEF next
  <2> QED BY <2>1, <2>2 DEF Handed
<1> HIDE DEF next
<1>3. HasMore(loaded, a) /\ loaded[a] > 0
  <2>1. HasMore(loaded, a)  BY <1>1 DEF HasMore
  <2> QED BY <2>1 DEF Begun
<1> DEFINE last == UnifiedMail[a][loaded[a]]
<1>4. last \in DOMAIN MailTime /\ MailTime[last] \in Nat /\ MailTime[last] <= FloorOf(loaded) /\ loaded[a] \in 1..Len(UnifiedMail[a])
  <2>1. loaded[a] \in 1..Len(UnifiedMail[a])  BY <1>1, <1>3
  <2> QED BY <1>3, <2>1, FloorIs, MailIs
<1>5. \A i \in 1..Len(UnifiedMail[a]) : i > loaded[a] =>
        MailTime[UnifiedMail[a][i]] \in Nat /\ MailTime[UnifiedMail[a][i]] <= MailTime[last]
  <2> SUFFICES ASSUME NEW i \in 1..Len(UnifiedMail[a]), i > loaded[a]
               PROVE  MailTime[UnifiedMail[a][i]] \in Nat /\ MailTime[UnifiedMail[a][i]] <= MailTime[last]
    OBVIOUS
  <2>1. MailTime[UnifiedMail[a][i]] \in Nat  BY MailIs
  <2>2. loaded[a] < i  BY <1>1
  <2>3. MailTime[UnifiedMail[a][loaded[a]]] >= MailTime[UnifiedMail[a][i]]  BY <1>4, <2>2, ViewBounds
  <2> QED BY <1>4, <2>1, <2>3
<1> HIDE DEF last
<1>6. FloorOf(loaded) \in Nat /\ FloorOf(next) \in Nat  BY <1>2, FloorIs
<1>7. \A i \in 1..Len(UnifiedMail[a]) : i > loaded[a] => MailTime[UnifiedMail[a][i]] <= FloorOf(loaded)  BY <1>4, <1>5, <1>6
<1>8. FloorOf(next) <= FloorOf(loaded)
  <2>1. CASE FloorOf(next) = 0  BY <1>6, <2>1
  <2>2. ASSUME NEW b \in UnifiedAccounts, next[b] > 0, HasMore(next, b), FloorOf(next) = MailTime[UnifiedMail[b][next[b]]]
        PROVE  FloorOf(next) <= FloorOf(loaded)
    <3>1. CASE b = a
      <4>1. FloorOf(next) = MailTime[UnifiedMail[a][upTo]] /\ upTo \in 1..Len(UnifiedMail[a]) /\ upTo > loaded[a]
        BY <1>1, <2>2, <3>1
      <4> QED BY <1>7, <4>1
    <3>2. CASE b # a
      <4>1. next[b] = loaded[b] /\ loaded[b] > 0 /\ HasMore(loaded, b)  BY <1>1, <2>2, <3>2 DEF HasMore
      <4> QED BY <2>2, <4>1, FloorIs
    <3> QED BY <3>1, <3>2
  <2> QED BY <1>2, <2>1, <2>2, FloorIs
<1>9. RowsOf(loaded) \subseteq RowsOf(next)
  <2> SUFFICES ASSUME NEW m \in RowsOf(loaded) PROVE m \in RowsOf(next)  OBVIOUS
  <2>1. PICK b \in UnifiedAccounts : \E i \in 1..loaded[b] : m = UnifiedMail[b][i]  BY RowsAt
  <2>1a. PICK i \in 1..loaded[b] : m = UnifiedMail[b][i]  BY <2>1
  <2>2. i \in 1..next[b]
    <3>1. loaded[b] \in Nat /\ next[b] \in Nat /\ loaded[b] <= next[b]  BY <1>1
    <3> QED BY <3>1
  <2> QED BY <1>2, <2>1a, <2>2, RowsAt
<1>10. ASSUME NEW m \in RowsOf(next), m \notin RowsOf(loaded) PROVE MailTime[m] <= FloorOf(loaded)
  <2>1. PICK b \in UnifiedAccounts : \E i \in 1..next[b] : m = UnifiedMail[b][i]  BY <1>2, <1>10, RowsAt
  <2>1a. PICK i \in 1..next[b] : m = UnifiedMail[b][i]  BY <2>1
  <2>2. ~(i \in 1..loaded[b])  BY <1>10, <2>1a, RowsAt
  <2>3. b = a  BY <1>1, <2>2
  <2>4. i \in 1..Len(UnifiedMail[a]) /\ i > loaded[a]  BY <1>1, <2>2, <2>3
  <2> QED BY <1>7, <2>1a, <2>3, <2>4
<1> QED BY <1>2, <1>8, <1>9, <1>10 DEF next

LEMMA ListStarts == AccountViewsInit => ListInv
<1> SUFFICES ASSUME AccountViewsInit PROVE ListInv  OBVIOUS
<1>1. uvLoaded = [a \in UnifiedAccounts |-> 0] /\ uvShown = <<>>  BY DEF AccountViewsInit
<1>2. Handed(uvLoaded)  BY <1>1, MailIs DEF Handed
<1>3. Unhidden(uvLoaded) = {}
  <2>1. RowsOf(uvLoaded) = {}  BY <1>1, <1>2, RowsAt
  <2> QED BY <2>1 DEF Unhidden
<1>4. Cardinality(Unhidden(uvLoaded)) = 0 /\ Merged(uvLoaded) \in Seq(Unhidden(uvLoaded)) /\ Len(Merged(uvLoaded)) = 0
  BY <1>2, <1>3, MergedIs, FS_EmptySet, FunIsSeq
<1>5. Merged(uvLoaded) = <<>>  BY <1>4
<1> QED BY <1>1, <1>2, <1>5 DEF ListInv

LEMMA ListKeeps == ListInv /\ [AccountViewsNext]_viewsVars => ListInv'
<1> SUFFICES ASSUME ListInv, [AccountViewsNext]_viewsVars PROVE ListInv'  OBVIOUS
<1>1. ASSUME NEW a \in UnifiedAccounts, NEW upTo \in 1..Len(UnifiedMail[a]), PageArrives(a, upTo) PROVE ListInv'
  <2>1. uvLoaded' = [uvLoaded EXCEPT ![a] = upTo] /\ uvShown' = Merged(uvLoaded')  BY <1>1 DEF PageArrives
  <2>2. upTo \in Nat /\ upTo <= Len(UnifiedMail[a])  BY MailIs
  <2>3. Handed(uvLoaded)  BY DEF ListInv
  <2>4. Handed(uvLoaded')
    <3>1. uvLoaded' \in [UnifiedAccounts -> Nat]  BY <2>1, <2>2, <2>3 DEF Handed
    <3>2. \A b \in UnifiedAccounts : uvLoaded'[b] <= Len(UnifiedMail[b])  BY <2>1, <2>2, <2>3 DEF Handed
    <3> QED BY <3>1, <3>2 DEF Handed
  <2> QED BY <2>1, <2>4 DEF ListInv
<1>2. CASE UNCHANGED <<uvLoaded, uvShown>>  BY <1>2 DEF ListInv
<1>3. AccountViewsNext => UNCHANGED <<uvLoaded, uvShown>> \/ \E a \in UnifiedAccounts : \E upTo \in 1..Len(UnifiedMail[a]) : PageArrives(a, upTo)
  BY DEF AccountViewsNext, SelectMessage, MergeSummaries, SeedSummaries
<1> QED BY <1>1, <1>2, <1>3 DEF viewsVars

(* Above the floor no message of any account is missing from the unified list, for any accounts, pages and dates
   (account/unified.rs: merge). *)
THEOREM NoHole == AccountViewsSpec => []ListHasNoHole
<1>1. ListInv => ListHasNoHole  BY NothingHidden, MergedIs DEF ListInv, ListHasNoHole
<1> QED BY <1>1, ListStarts, ListKeeps, PTL DEF AccountViewsSpec

\* One step of the list: what shows stays, and what is above the floor does not move.
Stays(shown, next, floor) ==
  /\ ToSet(shown) \subseteq ToSet(next)
  /\ \A n \in 1..Len(shown) : MailTime[shown[n]] > floor => n <= Len(next) /\ next[n] = shown[n]

LEMMA RowsStayBelow ==
  ASSUME NEW loaded, Handed(loaded), Begun(loaded), NEW a \in UnifiedAccounts, NEW upTo \in 1..Len(UnifiedMail[a]),
         loaded[a] < upTo
  PROVE  Stays(Merged(loaded), Merged([loaded EXCEPT ![a] = upTo]), FloorOf(loaded))
<1> DEFINE next == [loaded EXCEPT ![a] = upTo]
           U == Unhidden(loaded)
           W == Unhidden(next)
           s == Merged(loaded)
           t == Merged(next)
<1>1. /\ Handed(next) /\ FloorOf(next) <= FloorOf(loaded) /\ RowsOf(loaded) \subseteq RowsOf(next)
      /\ \A m \in RowsOf(next) : m \notin RowsOf(loaded) => MailTime[m] <= FloorOf(loaded)
  BY PageBelow
<1> HIDE DEF next
<1>2. FloorOf(loaded) \in Nat /\ FloorOf(next) \in Nat  BY <1>1, FloorIs
<1>3. \A m \in RowsOf(next) : m \in DOMAIN MailTime /\ MailTime[m] \in Nat /\ m \in Nat  BY <1>1, RowsAt, MailIs
<1>4. U \subseteq W /\ U \subseteq RowsOf(next) /\ W \subseteq RowsOf(next)  BY <1>1, <1>2, <1>3 DEF Unhidden
<1>5. \A w \in W : w \notin U => MailTime[w] <= FloorOf(loaded)
  <2> SUFFICES ASSUME NEW w \in W, w \notin U PROVE MailTime[w] <= FloorOf(loaded)  OBVIOUS
  <2>1. w \in RowsOf(next) /\ MailTime[w] \in Nat  BY <1>3, <1>4
  <2>2. CASE w \in RowsOf(loaded)  BY <1>2, <2>1, <2>2 DEF Unhidden
  <2> QED BY <1>1, <2>1, <2>2
<1>6. ToSet(s) = U /\ ToSet(t) = W  BY <1>1, MergedIs
<1>7. /\ IsFiniteSet(U) /\ Cardinality(U) \in Nat /\ s \in [1..Cardinality(U) -> U] /\ Len(s) = Cardinality(U)
      /\ \A i \in 1..Cardinality(U) : Cardinality({v \in U : v < s[i]}) = i - 1
  BY MergedIs
<1>8. /\ IsFiniteSet(W) /\ Cardinality(W) \in Nat /\ t \in [1..Cardinality(W) -> W] /\ Len(t) = Cardinality(W)
      /\ \A i \in 1..Cardinality(W) : Cardinality({v \in W : v < t[i]}) = i - 1
      /\ \A u \in W : \E i \in 1..Cardinality(W) : t[i] = u
  BY <1>1, MergedIs
<1> HIDE DEF U, W, s, t
<1>9. ASSUME NEW n \in 1..Len(s), MailTime[s[n]] > FloorOf(loaded) PROVE n <= Len(t) /\ t[n] = s[n]
  <2> DEFINE u == s[n]
  <2>1. u \in U /\ u \in W /\ u \in DOMAIN MailTime /\ MailTime[u] \in Nat /\ u \in Nat  BY <1>3, <1>4, <1>7
  <2>2. MailTime[u] > FloorOf(loaded)  BY <1>9
  <2>3. Cardinality({v \in U : v < u}) = n - 1 /\ n \in Nat  BY <1>7
  <2> HIDE DEF u
  <2>4. {v \in W : v < u} = {v \in U : v < u}
    <3> SUFFICES ASSUME NEW w \in W, w \notin U PROVE ~(w < u)  BY <1>4
    <3>1. MailTime[w] <= FloorOf(loaded) /\ w \in DOMAIN MailTime /\ MailTime[w] \in Nat /\ w \in Nat  BY <1>3, <1>4, <1>5
    <3>2. MailTime[u] > MailTime[w]  BY <1>2, <2>1, <2>2, <3>1
    <3>3. u < w  BY <2>1, <3>1, <3>2, ViewBounds
    <3> QED BY <2>1, <3>1, <3>3
  <2>5. PICK i \in 1..Cardinality(W) : t[i] = u  BY <1>8, <2>1
  <2>6. i - 1 = n - 1 /\ i \in Nat  BY <1>8, <2>3, <2>4, <2>5
  <2>7. i = n  BY <2>3, <2>6
  <2> QED BY <1>8, <2>5, <2>7 DEF u
<1> QED BY <1>4, <1>6, <1>9 DEF Stays, s, t, next

(* Once every account has handed over a page, a step of the unified list takes nothing away and moves nothing that is
   above the floor, for any accounts, pages and dates. *)
THEOREM RowsOnlyFollow == AccountViewsSpec => ScrollOnlyAppends
<1>1. ListInv /\ [AccountViewsNext]_viewsVars =>
        (Begun(uvLoaded) => Stays(uvShown, uvShown', FloorOf(uvLoaded)))
  <2> SUFFICES ASSUME ListInv, [AccountViewsNext]_viewsVars, Begun(uvLoaded) PROVE Stays(uvShown, uvShown', FloorOf(uvLoaded))
    OBVIOUS
  <2>1. ASSUME NEW a \in UnifiedAccounts, NEW upTo \in 1..Len(UnifiedMail[a]), PageArrives(a, upTo)
        PROVE  Stays(uvShown, uvShown', FloorOf(uvLoaded))
    <3>1. Handed(uvLoaded) /\ uvShown = Merged(uvLoaded)  BY DEF ListInv
    <3>2. uvLoaded' = [uvLoaded EXCEPT ![a] = upTo] /\ uvShown' = Merged(uvLoaded') /\ uvLoaded[a] < upTo  BY <2>1 DEF PageArrives
    <3> QED BY <3>1, <3>2, RowsStayBelow
  <2>2. CASE uvShown' = uvShown
    <3>1. Len(uvShown) \in Nat  BY MergedIs DEF ListInv
    <3> QED BY <2>2, <3>1 DEF Stays
  <2>3. AccountViewsNext => uvShown' = uvShown \/ \E a \in UnifiedAccounts : \E upTo \in 1..Len(UnifiedMail[a]) : PageArrives(a, upTo)
    BY DEF AccountViewsNext, SelectMessage, MergeSummaries, SeedSummaries
  <2> QED BY <2>1, <2>2, <2>3 DEF viewsVars
<1>2. ListInv /\ [AccountViewsNext]_viewsVars =>
        [Begun(uvLoaded) => /\ ToSet(uvShown) \subseteq ToSet(uvShown')
                            /\ \A n \in 1..Len(uvShown) : MailTime[uvShown[n]] > FloorOf(uvLoaded) =>
                                  n <= Len(uvShown') /\ uvShown'[n] = uvShown[n]]_viewsVars
  BY <1>1 DEF Stays
<1> QED BY <1>2, ListStarts, ListKeeps, PTL DEF AccountViewsSpec, ScrollOnlyAppends

(* A summary that is known of a member of the open conversation stays known while it is open, however many batches
   arrive and whatever the memory holds. *)
THEOREM MembersStayKnown == AccountViewsSpec => RailRemembers
<1>1. [AccountViewsNext]_viewsVars => (cvThread' = cvThread => cvKnown \cap ToSet(cvThread) \subseteq cvKnown')
  BY DEF AccountViewsNext, PageArrives, SelectMessage, MergeSummaries, SeedSummaries, Keeps, viewsVars
<1>2. [AccountViewsNext]_viewsVars => [cvThread' = cvThread => cvKnown \cap ToSet(cvThread) \subseteq cvKnown']_viewsVars  BY <1>1
<1> QED BY <1>2, PTL DEF AccountViewsSpec, RailRemembers
------------------------------------
(* Optimistic actions: the runs of the ledger *)

IntentSpec == IntentInit /\ [][IntentNext]_intentVars

\* One item on the server, and the runs of the folds over items and over edits.
ItemSent(l, e, n) == IF e.items[n].failed THEN l ELSE Labelled(l, e.action, e.items[n].targets)
SentRun(f, l, e, N) == f = [n \in 0..N |-> IF n = 0 THEN l ELSE ItemSent(f[n - 1], e, n)]
AgainRun(f, r, e, N) == f = [n \in 0..N |-> IF n = 0 THEN r ELSE Again(f[n - 1], e, e.items[n])]
SentRuns(f, l, list, N) == f = [n \in 0..N |-> IF n = 0 THEN l ELSE EditSent(f[n - 1], list[n])]
AgainRuns(f, r, list, N) == f = [n \in 0..N |-> IF n = 0 THEN r ELSE EditAgain(f[n - 1], list[n])]
MadeRun(f, edit, ids, N) ==
  f = [n \in 0..N |-> IF n = 0 THEN [view |-> view, items |-> <<>>] ELSE WithMessage(f[n - 1], edit, ids[n])]

\* The steps of a run.
SentTo(f, l, e, N) == f[0] = l /\ \A n \in 0..N - 1 : f[n + 1] = ItemSent(f[n], e, n + 1)
SentsTo(f, l, list, N) == f[0] = l /\ \A n \in 0..N - 1 : f[n + 1] = EditSent(f[n], list[n + 1])
AgainTo(f, r, e, N) == f[0] = r /\ \A n \in 0..N - 1 : f[n + 1] = Again(f[n], e, e.items[n + 1])
AgainsTo(f, r, list, N) == f[0] = r /\ \A n \in 0..N - 1 : f[n + 1] = EditAgain(f[n], list[n + 1])
MadeTo(f, edit, ids, N) ==
  f[0] = [view |-> view, items |-> <<>>] /\ \A n \in 0..N - 1 : f[n + 1] = WithMessage(f[n], edit, ids[n + 1])

\* A function of the first numbers, and one with another value behind.
Longer(f, N, last) == [n \in 0..N + 1 |-> IF n = N + 1 THEN last ELSE f[n]]
LEMMA LongerIs ==
  ASSUME NEW N \in Nat, NEW f, NEW last
  PROVE  /\ N + 1 \in Nat /\ DOMAIN Longer(f, N, last) = 0..N + 1 /\ Longer(f, N, last)[N + 1] = last
         /\ \A n \in 0..N : n # N + 1 /\ n \in 0..N + 1 /\ Longer(f, N, last)[n] = f[n]
         /\ \A n \in 0..N + 1 : n # N + 1 => n \in 0..N /\ (n # 0 => n - 1 \in 0..N)
         /\ (N + 1) - 1 = N /\ N + 1 # 0 /\ N \in 0..N
<1>1. N + 1 \in Nat /\ N + 1 \in 0..N + 1 /\ \A n \in 0..N : n # N + 1 /\ n \in 0..N + 1  OBVIOUS
<1>2. (\A n \in 0..N + 1 : n # N + 1 => n \in 0..N /\ (n # 0 => n - 1 \in 0..N)) /\ (N + 1) - 1 = N /\ N + 1 # 0 /\ N \in 0..N
  OBVIOUS
<1> QED BY <1>1, <1>2 DEF Longer

LEMMA SentRunExists == ASSUME NEW l, NEW e, NEW N \in Nat PROVE \E f : SentRun(f, l, e, N)
<1> DEFINE G == {n \in Nat : \E f : SentRun(f, l, e, n)}
<1>1. 0 \in G
  <2>1. SentRun([n \in 0..0 |-> l], l, e, 0)  BY DEF SentRun
  <2> QED BY <2>1
<1>2. ASSUME NEW n \in 0..N - 1, n \in G PROVE n + 1 \in G
  <2>1. PICK f : SentRun(f, l, e, n)  BY <1>2
  <2>2. n \in Nat  OBVIOUS
  <2>3. \A k \in 0..n : f[k] = IF k = 0 THEN l ELSE ItemSent(f[k - 1], e, k)  BY <2>1 DEF SentRun
  <2> DEFINE g == Longer(f, n, ItemSent(f[n], e, n + 1))
  <2>4. \A k \in 0..n + 1 : g[k] = IF k = 0 THEN l ELSE ItemSent(g[k - 1], e, k)  BY <2>2, <2>3, LongerIs
  <2>5. g = [k \in 0..n + 1 |-> g[k]]  BY <2>2, LongerIs DEF Longer
  <2> HIDE DEF g
  <2>6. SentRun(g, l, e, n + 1)  BY <2>4, <2>5 DEF SentRun
  <2> QED BY <2>2, <2>6
<1> HIDE DEF G
<1>3. \A n \in 0..N : n \in G  BY <1>1, <1>2, ClimbTo
<1> QED BY <1>3 DEF G

LEMMA EditSentIs ==
  ASSUME NEW l, NEW e, Len(e.items) \in Nat
  PROVE  \E f : SentTo(f, l, e, Len(e.items)) /\ EditSent(l, e) = f[Len(e.items)]
<1> DEFINE N == Len(e.items)
           f == CHOOSE h : SentRun(h, l, e, N)
<1>1. SentRun(f, l, e, N)  BY SentRunExists
<1>2. EditSent(l, e) = f[N]  BY DEF EditSent, SentRun, ItemSent
<1> HIDE DEF f
<1>3. 0 \in 0..N /\ \A n \in 0..N - 1 : n + 1 \in 0..N /\ n + 1 # 0 /\ (n + 1) - 1 = n  OBVIOUS
<1>4. f[0] = l /\ \A n \in 0..N - 1 : f[n + 1] = ItemSent(f[n], e, n + 1)  BY <1>1, <1>3 DEF SentRun
<1>5. SentTo(f, l, e, Len(e.items))  BY <1>4 DEF SentTo
<1> QED BY <1>2, <1>5

LEMMA SentRunsExists == ASSUME NEW l, NEW list, NEW N \in Nat PROVE \E f : SentRuns(f, l, list, N)
<1> DEFINE G == {n \in Nat : \E f : SentRuns(f, l, list, n)}
<1>1. 0 \in G
  <2>1. SentRuns([n \in 0..0 |-> l], l, list, 0)  BY DEF SentRuns
  <2> QED BY <2>1
<1>2. ASSUME NEW n \in 0..N - 1, n \in G PROVE n + 1 \in G
  <2>1. PICK f : SentRuns(f, l, list, n)  BY <1>2
  <2>2. n \in Nat  OBVIOUS
  <2>3. \A k \in 0..n : f[k] = IF k = 0 THEN l ELSE EditSent(f[k - 1], list[k])  BY <2>1 DEF SentRuns
  <2> DEFINE g == Longer(f, n, EditSent(f[n], list[n + 1]))
  <2>4. \A k \in 0..n + 1 : g[k] = IF k = 0 THEN l ELSE EditSent(g[k - 1], list[k])  BY <2>2, <2>3, LongerIs
  <2>5. g = [k \in 0..n + 1 |-> g[k]]  BY <2>2, LongerIs DEF Longer
  <2> HIDE DEF g
  <2>6. SentRuns(g, l, list, n + 1)  BY <2>4, <2>5 DEF SentRuns
  <2> QED BY <2>2, <2>6
<1> HIDE DEF G
<1>3. \A n \in 0..N : n \in G  BY <1>1, <1>2, ClimbTo
<1> QED BY <1>3 DEF G

LEMMA SentIs ==
  ASSUME NEW l, NEW list, Len(list) \in Nat
  PROVE  \E f : SentsTo(f, l, list, Len(list)) /\ Sent(l, list) = f[Len(list)]
<1> DEFINE N == Len(list)
           f == CHOOSE h : SentRuns(h, l, list, N)
<1>1. SentRuns(f, l, list, N)  BY SentRunsExists
<1>2. Sent(l, list) = f[N]  BY DEF Sent, SentRuns
<1> HIDE DEF f
<1>3. 0 \in 0..N /\ \A n \in 0..N - 1 : n + 1 \in 0..N /\ n + 1 # 0 /\ (n + 1) - 1 = n  OBVIOUS
<1>4. f[0] = l /\ \A n \in 0..N - 1 : f[n + 1] = EditSent(f[n], list[n + 1])  BY <1>1, <1>3 DEF SentRuns
<1>5. SentsTo(f, l, list, Len(list))  BY <1>4 DEF SentsTo
<1> QED BY <1>2, <1>5

LEMMA AgainRunExists == ASSUME NEW r, NEW e, NEW N \in Nat PROVE \E f : AgainRun(f, r, e, N)
<1> DEFINE G == {n \in Nat : \E f : AgainRun(f, r, e, n)}
<1>1. 0 \in G
  <2>1. AgainRun([n \in 0..0 |-> r], r, e, 0)  BY DEF AgainRun
  <2> QED BY <2>1
<1>2. ASSUME NEW n \in 0..N - 1, n \in G PROVE n + 1 \in G
  <2>1. PICK f : AgainRun(f, r, e, n)  BY <1>2
  <2>2. n \in Nat  OBVIOUS
  <2>3. \A k \in 0..n : f[k] = IF k = 0 THEN r ELSE Again(f[k - 1], e, e.items[k])  BY <2>1 DEF AgainRun
  <2> DEFINE g == Longer(f, n, Again(f[n], e, e.items[n + 1]))
  <2>4. \A k \in 0..n + 1 : g[k] = IF k = 0 THEN r ELSE Again(g[k - 1], e, e.items[k])  BY <2>2, <2>3, LongerIs
  <2>5. g = [k \in 0..n + 1 |-> g[k]]  BY <2>2, LongerIs DEF Longer
  <2> HIDE DEF g
  <2>6. AgainRun(g, r, e, n + 1)  BY <2>4, <2>5 DEF AgainRun
  <2> QED BY <2>2, <2>6
<1> HIDE DEF G
<1>3. \A n \in 0..N : n \in G  BY <1>1, <1>2, ClimbTo
<1> QED BY <1>3 DEF G

LEMMA EditAgainIs ==
  ASSUME NEW r, NEW e, Len(e.items) \in Nat
  PROVE  \E f : AgainTo(f, r, e, Len(e.items)) /\ EditAgain(r, e) = f[Len(e.items)]
<1> DEFINE N == Len(e.items)
           f == CHOOSE h : AgainRun(h, r, e, N)
<1>1. AgainRun(f, r, e, N)  BY AgainRunExists
<1>2. EditAgain(r, e) = f[N]  BY DEF EditAgain, AgainRun
<1> HIDE DEF f
<1>3. 0 \in 0..N /\ \A n \in 0..N - 1 : n + 1 \in 0..N /\ n + 1 # 0 /\ (n + 1) - 1 = n  OBVIOUS
<1>4. f[0] = r /\ \A n \in 0..N - 1 : f[n + 1] = Again(f[n], e, e.items[n + 1])  BY <1>1, <1>3 DEF AgainRun
<1>5. AgainTo(f, r, e, Len(e.items))  BY <1>4 DEF AgainTo
<1> QED BY <1>2, <1>5

LEMMA AgainRunsExists == ASSUME NEW r, NEW list, NEW N \in Nat PROVE \E f : AgainRuns(f, r, list, N)
<1> DEFINE G == {n \in Nat : \E f : AgainRuns(f, r, list, n)}
<1>1. 0 \in G
  <2>1. AgainRuns([n \in 0..0 |-> r], r, list, 0)  BY DEF AgainRuns
  <2> QED BY <2>1
<1>2. ASSUME NEW n \in 0..N - 1, n \in G PROVE n + 1 \in G
  <2>1. PICK f : AgainRuns(f, r, list, n)  BY <1>2
  <2>2. n \in Nat  OBVIOUS
  <2>3. \A k \in 0..n : f[k] = IF k = 0 THEN r ELSE EditAgain(f[k - 1], list[k])  BY <2>1 DEF AgainRuns
  <2> DEFINE g == Longer(f, n, EditAgain(f[n], list[n + 1]))
  <2>4. \A k \in 0..n + 1 : g[k] = IF k = 0 THEN r ELSE EditAgain(g[k - 1], list[k])  BY <2>2, <2>3, LongerIs
  <2>5. g = [k \in 0..n + 1 |-> g[k]]  BY <2>2, LongerIs DEF Longer
  <2> HIDE DEF g
  <2>6. AgainRuns(g, r, list, n + 1)  BY <2>4, <2>5 DEF AgainRuns
  <2> QED BY <2>2, <2>6
<1> HIDE DEF G
<1>3. \A n \in 0..N : n \in G  BY <1>1, <1>2, ClimbTo
<1> QED BY <1>3 DEF G

LEMMA ReplayedIs ==
  ASSUME NEW v, NEW list, Len(list) \in Nat
  PROVE  \E f : AgainsTo(f, [view |-> v, drift |-> FALSE], list, Len(list)) /\ Replayed(v, list) = f[Len(list)]
<1> DEFINE N == Len(list)
           f == CHOOSE h : AgainRuns(h, [view |-> v, drift |-> FALSE], list, N)
<1>1. AgainRuns(f, [view |-> v, drift |-> FALSE], list, N)  BY AgainRunsExists
<1>2. Replayed(v, list) = f[N]  BY DEF Replayed, AgainRuns
<1> HIDE DEF f
<1>3. 0 \in 0..N /\ \A n \in 0..N - 1 : n + 1 \in 0..N /\ n + 1 # 0 /\ (n + 1) - 1 = n  OBVIOUS
<1>4. f[0] = [view |-> v, drift |-> FALSE] /\ \A n \in 0..N - 1 : f[n + 1] = EditAgain(f[n], list[n + 1])
  BY <1>1, <1>3 DEF AgainRuns
<1>5. AgainsTo(f, [view |-> v, drift |-> FALSE], list, Len(list))  BY <1>4 DEF AgainsTo
<1> QED BY <1>2, <1>5

LEMMA MadeRunExists == ASSUME NEW edit, NEW ids, NEW N \in Nat PROVE \E f : MadeRun(f, edit, ids, N)
<1> DEFINE G == {n \in Nat : \E f : MadeRun(f, edit, ids, n)}
<1>1. 0 \in G
  <2>1. MadeRun([n \in 0..0 |-> [view |-> view, items |-> <<>>]], edit, ids, 0)  BY DEF MadeRun
  <2> QED BY <2>1
<1>2. ASSUME NEW n \in 0..N - 1, n \in G PROVE n + 1 \in G
  <2>1. PICK f : MadeRun(f, edit, ids, n)  BY <1>2
  <2>2. n \in Nat  OBVIOUS
  <2>3. \A k \in 0..n : f[k] = IF k = 0 THEN [view |-> view, items |-> <<>>] ELSE WithMessage(f[k - 1], edit, ids[k])
    BY <2>1 DEF MadeRun
  <2> DEFINE g == Longer(f, n, WithMessage(f[n], edit, ids[n + 1]))
  <2>4. \A k \in 0..n + 1 : g[k] = IF k = 0 THEN [view |-> view, items |-> <<>>] ELSE WithMessage(g[k - 1], edit, ids[k])
    BY <2>2, <2>3, LongerIs
  <2>5. g = [k \in 0..n + 1 |-> g[k]]  BY <2>2, LongerIs DEF Longer
  <2> HIDE DEF g
  <2>6. MadeRun(g, edit, ids, n + 1)  BY <2>4, <2>5 DEF MadeRun
  <2> QED BY <2>2, <2>6
<1> HIDE DEF G
<1>3. \A n \in 0..N : n \in G  BY <1>1, <1>2, ClimbTo
<1> QED BY <1>3 DEF G

LEMMA MadeIs ==
  ASSUME NEW edit, NEW ids, Len(ids) \in Nat
  PROVE  \E f : MadeTo(f, edit, ids, Len(ids)) /\ Made(edit, ids) = f[Len(ids)]
<1> DEFINE N == Len(ids)
           f == CHOOSE h : MadeRun(h, edit, ids, N)
<1>1. MadeRun(f, edit, ids, N)  BY MadeRunExists
<1>2. Made(edit, ids) = f[N]  BY DEF Made, MadeRun
<1> HIDE DEF f
<1>3. 0 \in 0..N /\ \A n \in 0..N - 1 : n + 1 \in 0..N /\ n + 1 # 0 /\ (n + 1) - 1 = n  OBVIOUS
<1>4. f[0] = [view |-> view, items |-> <<>>] /\ \A n \in 0..N - 1 : f[n + 1] = WithMessage(f[n], edit, ids[n + 1])
  BY <1>1, <1>3 DEF MadeRun
<1>5. MadeTo(f, edit, ids, Len(ids))  BY <1>4 DEF MadeTo
<1> QED BY <1>2, <1>5

\* A sequence of some set, and one value more.
IsSeq(s) == \E S : s \in Seq(S)
LEMMA AppendIs ==
  ASSUME NEW s, IsSeq(s), NEW x
  PROVE  /\ IsSeq(Append(s, x)) /\ Len(s) \in Nat /\ Len(Append(s, x)) = Len(s) + 1 /\ Append(s, x)[Len(s) + 1] = x
         /\ \A n \in 1..Len(s) : Append(s, x)[n] = s[n]
<1>1. PICK S : s \in Seq(S)  BY DEF IsSeq
<1>2. s \in Seq(S \cup {x}) /\ x \in S \cup {x} /\ Len(s) \in Nat  BY <1>1
<1>3. Append(s, x) \in Seq(S \cup {x}) /\ Len(Append(s, x)) = Len(s) + 1 /\ Append(s, x)[Len(s) + 1] = x  BY <1>2
<1>4. \A n \in 1..Len(s) : Append(s, x)[n] = s[n]  BY <1>2
<1> QED BY <1>2, <1>3, <1>4 DEF IsSeq

LEMMA SeqIs == ASSUME NEW s, IsSeq(s) PROVE Len(s) \in Nat /\ DOMAIN s = 1..Len(s) /\ (s # <<>> => Len(s) # 0) /\ (Len(s) = 0 => s = <<>>)
BY DEF IsSeq

------------------------------------
(* Optimistic actions: what a replay makes of the labels *)

\* Labels of the messages, and a view that shows some.
IsLabels(l) == l = [x \in MailIds |-> l[x]]
IsView(v) == "labels" \in DOMAIN v /\ v = [f \in DOMAIN v |-> v[f]] /\ IsLabels(v.labels)

LEMMA LabelledIs ==
  ASSUME NEW l, NEW action, NEW ids
  PROVE  IsLabels(Labelled(l, action, ids)) /\ (IsLabels(l) => Labelled(l, action, {}) = l)
BY DEF Labelled, IsLabels

LEMMA OutcomeIs ==
  ASSUME NEW v, NEW edit, NEW x, IsView(v)
  PROVE  /\ IsView(Outcome(v, edit, x).view)
         /\ Outcome(v, edit, x).view.labels = Labelled(v.labels, edit.action, Outcome(v, edit, x).targets)
<1> DEFINE o == Outcome(v, edit, x)
<1>1. CASE RowsFor(v, x) = {} /\ x \in edit.reader /\ edit.action # "trash"
  <2>1. o = [row |-> x, targets |-> {x}, view |-> [v EXCEPT !.labels = Labelled(v.labels, edit.action, {x})]]  BY <1>1 DEF Outcome
  <2>2. o.targets = {x} /\ o.view = [v EXCEPT !.labels = Labelled(v.labels, edit.action, {x})]  BY <2>1
  <2> HIDE DEF o
  <2>3. IsView(o.view) /\ o.view.labels = Labelled(v.labels, edit.action, {x})  BY <2>2, LabelledIs DEF IsView
  <2> QED BY <2>2, <2>3 DEF o
<1>2. CASE RowsFor(v, x) = {} /\ ~(x \in edit.reader /\ edit.action # "trash")
  <2>1. o = [row |-> RowMissing, targets |-> {}, view |-> v]  BY <1>2 DEF Outcome
  <2>2. o.targets = {} /\ o.view = v  BY <2>1
  <2> HIDE DEF o
  <2>3. o.view.labels = Labelled(v.labels, edit.action, {})  BY <2>2, LabelledIs DEF IsView
  <2> QED BY <2>2, <2>3 DEF o
<1>3. CASE RowsFor(v, x) # {}
  <2> DEFINE p == RowOutcome(v, edit, x)
  <2>1. p.labels = Labelled(v.labels, edit.action, p.targets)  BY DEF RowOutcome
  <2> HIDE DEF p
  <2> DEFINE w == [v EXCEPT !.labels = p.labels, !.unread[p.row] = p.flags.unread, !.flagged[p.row] = p.flags.flagged,
                            !.listed = IF Survives(edit.action, p.unread) THEN @ ELSE @ \ {p.row},
                            !.preview = IF p.unread THEN @ ELSE @ \ {p.row}]
  <2>2. o.targets = p.targets /\ o.view = w  BY <1>3 DEF Outcome, p
  <2>3. w.labels = p.labels /\ w = [f \in DOMAIN v |-> w[f]] /\ DOMAIN w = DOMAIN v  BY DEF IsView
  <2> HIDE DEF o, w
  <2>4. IsView(w)  BY <2>1, <2>3, LabelledIs DEF IsView
  <2> QED BY <2>1, <2>2, <2>3, <2>4 DEF o
<1> QED BY <1>1, <1>2, <1>3

LEMMA AgainLabels ==
  ASSUME NEW r, NEW e, IsView(r.view), Len(e.items) \in Nat
  PROVE  /\ IsView(EditAgain(r, e).view)
         /\ ~EditAgain(r, e).drift => ~r.drift /\ EditAgain(r, e).view.labels = EditSent(r.view.labels, e)
<1> DEFINE N == Len(e.items)
<1>1. PICK f : /\ f[0] = r /\ \A n \in 0..N - 1 : f[n + 1] = Again(f[n], e, e.items[n + 1])
               /\ EditAgain(r, e) = f[N]
  <2>1. Len(e.items) \in Nat  OBVIOUS
  <2>2. PICK f : AgainTo(f, r, e, Len(e.items)) /\ EditAgain(r, e) = f[Len(e.items)]  BY <2>1, EditAgainIs
  <2> QED BY <2>2 DEF AgainTo
<1>2. PICK h : /\ h[0] = r.view.labels /\ \A n \in 0..N - 1 : h[n + 1] = ItemSent(h[n], e, n + 1)
               /\ EditSent(r.view.labels, e) = h[N]
  <2>1. Len(e.items) \in Nat  OBVIOUS
  <2>2. PICK h : SentTo(h, r.view.labels, e, Len(e.items)) /\ EditSent(r.view.labels, e) = h[Len(e.items)]  BY <2>1, EditSentIs
  <2> QED BY <2>2 DEF SentTo
<1> DEFINE G == {n \in Nat : IsView(f[n].view) /\ (~f[n].drift => ~r.drift /\ f[n].view.labels = h[n])}
<1>3. 0 \in G  BY <1>1, <1>2
<1>4. ASSUME NEW n \in 0..N - 1, n \in G PROVE n + 1 \in G
  <2>1. n \in Nat /\ n + 1 \in Nat  OBVIOUS
  <2>2. IsView(f[n].view) /\ (~f[n].drift => ~r.drift /\ f[n].view.labels = h[n])  BY <1>4
  <2>3. f[n + 1] = Again(f[n], e, e.items[n + 1]) /\ h[n + 1] = ItemSent(h[n], e, n + 1)  BY <1>1, <1>2
  <2>4. CASE e.items[n + 1].failed
    <3>1. f[n + 1] = f[n] /\ h[n + 1] = h[n]  BY <2>3, <2>4 DEF Again, ItemSent
    <3> QED BY <2>1, <2>2, <3>1
  <2>5. CASE ~e.items[n + 1].failed
    <3> DEFINE o == Outcome(f[n].view, e, e.items[n + 1].id)
    <3>1. f[n + 1] = [view |-> o.view, drift |-> f[n].drift \/ o.targets # e.items[n + 1].targets]  BY <2>3, <2>5 DEF Again
    <3>2. h[n + 1] = Labelled(h[n], e.action, e.items[n + 1].targets)  BY <2>3, <2>5 DEF ItemSent
    <3>3. IsView(o.view) /\ o.view.labels = Labelled(f[n].view.labels, e.action, o.targets)  BY <2>2, OutcomeIs
    <3> HIDE DEF o
    <3>4. f[n + 1].view = o.view /\ f[n + 1].drift = (f[n].drift \/ o.targets # e.items[n + 1].targets)  BY <3>1
    <3>5. ~f[n + 1].drift => ~f[n].drift /\ o.targets = e.items[n + 1].targets  BY <3>4, Zenon
    <3> QED BY <2>1, <2>2, <3>2, <3>3, <3>4, <3>5
  <2> QED BY <2>4, <2>5
<1> HIDE DEF G
<1>5. \A n \in 0..N : n \in G  BY <1>3, <1>4, ClimbTo
<1>6. N \in G  BY <1>5
<1> QED BY <1>1, <1>2, <1>6 DEF G

LEMMA ReplayLabels ==
  ASSUME NEW v, NEW list, IsView(v), Len(list) \in Nat, \A n \in 1..Len(list) : Len(list[n].items) \in Nat
  PROVE  ~Replayed(v, list).drift => Replayed(v, list).view.labels = Sent(v.labels, list)
<1> DEFINE N == Len(list)
           r == [view |-> v, drift |-> FALSE]
<1>1. PICK f : f[0] = r /\ (\A n \in 0..N - 1 : f[n + 1] = EditAgain(f[n], list[n + 1])) /\ Replayed(v, list) = f[N]
  <2>1. Len(list) \in Nat  OBVIOUS
  <2>2. PICK f : AgainsTo(f, [view |-> v, drift |-> FALSE], list, Len(list)) /\ Replayed(v, list) = f[Len(list)]
    BY <2>1, ReplayedIs
  <2> QED BY <2>2 DEF AgainsTo
<1>2. PICK h : /\ h[0] = v.labels /\ \A n \in 0..N - 1 : h[n + 1] = EditSent(h[n], list[n + 1])
               /\ Sent(v.labels, list) = h[N]
  <2>1. Len(list) \in Nat  OBVIOUS
  <2>2. PICK h : SentsTo(h, v.labels, list, Len(list)) /\ Sent(v.labels, list) = h[Len(list)]  BY <2>1, SentIs
  <2> QED BY <2>2 DEF SentsTo
<1> DEFINE G == {n \in Nat : IsView(f[n].view) /\ (~f[n].drift => f[n].view.labels = h[n])}
<1>3. 0 \in G  BY <1>1, <1>2
<1>4. ASSUME NEW n \in 0..N - 1, n \in G PROVE n + 1 \in G
  <2>1. n \in Nat /\ n + 1 \in Nat /\ n + 1 \in 1..N  OBVIOUS
  <2>2. IsView(f[n].view) /\ (~f[n].drift => f[n].view.labels = h[n])  BY <1>4
  <2>3. f[n + 1] = EditAgain(f[n], list[n + 1]) /\ h[n + 1] = EditSent(h[n], list[n + 1])  BY <1>1, <1>2
  <2>4. Len(list[n + 1].items) \in Nat  BY <2>1
  <2>5. /\ IsView(EditAgain(f[n], list[n + 1]).view)
        /\ ~EditAgain(f[n], list[n + 1]).drift =>
             ~f[n].drift /\ EditAgain(f[n], list[n + 1]).view.labels = EditSent(f[n].view.labels, list[n + 1])
    BY <2>2, <2>4, AgainLabels
  <2> QED BY <2>1, <2>2, <2>3, <2>5
<1> HIDE DEF G
<1>5. \A n \in 0..N : n \in G  BY <1>3, <1>4, ClimbTo
<1>6. N \in G  BY <1>5
<1> QED BY <1>1, <1>2, <1>6 DEF G

LEMMA ReplayIsView ==
  ASSUME NEW v, NEW list, IsView(v), Len(list) \in Nat, \A n \in 1..Len(list) : Len(list[n].items) \in Nat
  PROVE  IsView(Replayed(v, list).view)
<1> DEFINE N == Len(list)
           r == [view |-> v, drift |-> FALSE]
<1>1. PICK f : f[0] = r /\ (\A n \in 0..N - 1 : f[n + 1] = EditAgain(f[n], list[n + 1])) /\ Replayed(v, list) = f[N]
  <2>1. Len(list) \in Nat  OBVIOUS
  <2>2. PICK f : AgainsTo(f, [view |-> v, drift |-> FALSE], list, Len(list)) /\ Replayed(v, list) = f[Len(list)]
    BY <2>1, ReplayedIs
  <2> QED BY <2>2 DEF AgainsTo
<1> DEFINE G == {n \in Nat : IsView(f[n].view)}
<1>2. 0 \in G  BY <1>1
<1>3. ASSUME NEW n \in 0..N - 1, n \in G PROVE n + 1 \in G
  <2>1. n + 1 \in Nat /\ n + 1 \in 1..N /\ IsView(f[n].view) /\ f[n + 1] = EditAgain(f[n], list[n + 1])  BY <1>1, <1>3
  <2>2. Len(list[n + 1].items) \in Nat  BY <2>1
  <2> QED BY <2>1, <2>2, AgainLabels
<1> HIDE DEF G
<1>4. \A n \in 0..N : n \in G  BY <1>2, <1>3, ClimbTo
<1> QED BY <1>1, <1>4 DEF G

\* An item more, and an edit more.
LEMMA ItemMore ==
  ASSUME NEW l, NEW e, NEW d, NEW m, IsSeq(e.items), d.items = Append(e.items, m), d.action = e.action
  PROVE  EditSent(l, d) = IF m.failed THEN EditSent(l, e) ELSE Labelled(EditSent(l, e), e.action, m.targets)
<1> DEFINE N == Len(e.items)
<1>1. /\ N \in Nat /\ Len(d.items) = N + 1 /\ d.items[N + 1] = m /\ \A n \in 1..N : d.items[n] = e.items[n]  BY AppendIs
<1>2. PICK f : /\ f[0] = l /\ \A n \in 0..N - 1 : f[n + 1] = ItemSent(f[n], e, n + 1)
               /\ EditSent(l, e) = f[N]
  <2>1. Len(e.items) \in Nat  BY <1>1
  <2>2. PICK f : SentTo(f, l, e, Len(e.items)) /\ EditSent(l, e) = f[Len(e.items)]  BY <2>1, EditSentIs
  <2> QED BY <1>1, <2>2 DEF SentTo
<1>3. Len(d.items) \in Nat /\ N + 1 \in Nat /\ Len(d.items) - 1 = N  BY <1>1
<1>4. PICK h : /\ h[0] = l /\ \A n \in 0..N : h[n + 1] = ItemSent(h[n], d, n + 1)
               /\ EditSent(l, d) = h[N + 1]
  <2>1. Len(d.items) \in Nat  BY <1>1, <1>3
  <2>2. PICK h : SentTo(h, l, d, Len(d.items)) /\ EditSent(l, d) = h[Len(d.items)]  BY <2>1, EditSentIs
  <2> QED BY <1>1, <1>3, <2>2 DEF SentTo
<1> DEFINE G == {n \in Nat : h[n] = f[n]}
<1>5. 0 \in G  BY <1>2, <1>4
<1>6. ASSUME NEW n \in 0..N - 1, n \in G PROVE n + 1 \in G
  <2>1. n \in 0..N /\ n + 1 \in Nat /\ n + 1 \in 1..N /\ h[n] = f[n]  BY <1>1, <1>6
  <2>2. d.items[n + 1] = e.items[n + 1]  BY <1>1, <2>1
  <2>3. ItemSent(h[n], d, n + 1) = ItemSent(f[n], e, n + 1)  BY <2>1, <2>2 DEF ItemSent
  <2> QED BY <1>2, <1>4, <2>1, <2>3
<1> HIDE DEF G
<1>7. \A n \in 0..N : n \in G  BY <1>1, <1>5, <1>6, ClimbTo
<1>8. N \in 0..N  BY <1>1
<1>9. h[N] = f[N] /\ h[N + 1] = ItemSent(h[N], d, N + 1)  BY <1>4, <1>7, <1>8 DEF G
<1> QED BY <1>1, <1>2, <1>4, <1>9 DEF ItemSent

LEMMA EditMore ==
  ASSUME NEW l, NEW list, NEW e, IsSeq(list)
  PROVE  Sent(l, Append(list, e)) = EditSent(Sent(l, list), e)
<1> DEFINE N == Len(list)
           more == Append(list, e)
<1>1. N \in Nat /\ Len(more) = N + 1 /\ more[N + 1] = e /\ \A n \in 1..N : more[n] = list[n]  BY AppendIs
<1> HIDE DEF more
<1>2. PICK f : f[0] = l /\ (\A n \in 0..N - 1 : f[n + 1] = EditSent(f[n], list[n + 1])) /\ Sent(l, list) = f[N]
  <2>1. Len(list) \in Nat  BY <1>1
  <2>2. PICK f : SentsTo(f, l, list, Len(list)) /\ Sent(l, list) = f[Len(list)]  BY <2>1, SentIs
  <2> QED BY <1>1, <2>2 DEF SentsTo
<1>3. Len(more) \in Nat /\ N + 1 \in Nat /\ Len(more) - 1 = N  BY <1>1
<1>4. PICK h : h[0] = l /\ (\A n \in 0..N : h[n + 1] = EditSent(h[n], more[n + 1])) /\ Sent(l, more) = h[N + 1]
  <2>1. Len(more) \in Nat  BY <1>1, <1>3
  <2>2. PICK h : SentsTo(h, l, more, Len(more)) /\ Sent(l, more) = h[Len(more)]  BY <2>1, SentIs
  <2> QED BY <1>1, <1>3, <2>2 DEF SentsTo
<1> DEFINE G == {n \in Nat : h[n] = f[n]}
<1>5. 0 \in G  BY <1>2, <1>4
<1>6. ASSUME NEW n \in 0..N - 1, n \in G PROVE n + 1 \in G
  <2>1. n \in 0..N /\ n + 1 \in Nat /\ n + 1 \in 1..N /\ h[n] = f[n]  BY <1>1, <1>6
  <2>2. more[n + 1] = list[n + 1]  BY <1>1, <2>1
  <2> QED BY <1>2, <1>4, <2>1, <2>2
<1> HIDE DEF G
<1>7. \A n \in 0..N : n \in G  BY <1>1, <1>5, <1>6, ClimbTo
<1>8. N \in 0..N  BY <1>1
<1>9. h[N] = f[N] /\ h[N + 1] = EditSent(h[N], more[N + 1])  BY <1>4, <1>7, <1>8 DEF G
<1> QED BY <1>1, <1>2, <1>4, <1>9 DEF more

LEMMA SentNone ==
  ASSUME NEW l
  PROVE  Sent(l, <<>>) = l /\ \A e : e.items = <<>> => EditSent(l, e) = l
<1>1. Len(<<>>) = 0 /\ 0 \in Nat  OBVIOUS
<1>2. Sent(l, <<>>) = l
  <2>1. PICK f : SentsTo(f, l, <<>>, Len(<<>>)) /\ Sent(l, <<>>) = f[Len(<<>>)]  BY <1>1, SentIs
  <2> QED BY <1>1, <2>1 DEF SentsTo
<1>3. ASSUME NEW e, e.items = <<>> PROVE EditSent(l, e) = l
  <2>1. Len(e.items) = 0 /\ Len(e.items) \in Nat  BY <1>1, <1>3
  <2>2. PICK f : SentTo(f, l, e, Len(e.items)) /\ EditSent(l, e) = f[Len(e.items)]  BY <2>1, EditSentIs
  <2> QED BY <2>1, <2>2 DEF SentTo
<1> QED BY <1>2, <1>3

LEMMA EditSentIsLabels ==
  ASSUME NEW l, NEW e, IsLabels(l), Len(e.items) \in Nat
  PROVE  IsLabels(EditSent(l, e))
<1> DEFINE N == Len(e.items)
<1>1. PICK f : /\ f[0] = l /\ \A n \in 0..N - 1 : f[n + 1] = ItemSent(f[n], e, n + 1)
               /\ EditSent(l, e) = f[N]
  <2>1. Len(e.items) \in Nat  OBVIOUS
  <2>2. PICK f : SentTo(f, l, e, Len(e.items)) /\ EditSent(l, e) = f[Len(e.items)]  BY <2>1, EditSentIs
  <2> QED BY <2>2 DEF SentTo
<1> DEFINE G == {n \in Nat : IsLabels(f[n])}
<1>2. 0 \in G  BY <1>1
<1>3. ASSUME NEW n \in 0..N - 1, n \in G PROVE n + 1 \in G
  <2>1. n + 1 \in Nat /\ IsLabels(f[n]) /\ f[n + 1] = ItemSent(f[n], e, n + 1)  BY <1>1, <1>3
  <2>2. IsLabels(ItemSent(f[n], e, n + 1))  BY <2>1, LabelledIs DEF ItemSent
  <2> QED BY <2>1, <2>2
<1> HIDE DEF G
<1>4. \A n \in 0..N : n \in G  BY <1>2, <1>3, ClimbTo
<1> QED BY <1>1, <1>4 DEF G

LEMMA SentIsLabels ==
  ASSUME NEW l, NEW list, IsLabels(l), Len(list) \in Nat, \A n \in 1..Len(list) : Len(list[n].items) \in Nat
  PROVE  IsLabels(Sent(l, list))
<1> DEFINE N == Len(list)
<1>1. PICK f : /\ f[0] = l /\ \A n \in 0..N - 1 : f[n + 1] = EditSent(f[n], list[n + 1])
               /\ Sent(l, list) = f[N]
  <2>1. Len(list) \in Nat  OBVIOUS
  <2>2. PICK f : SentsTo(f, l, list, Len(list)) /\ Sent(l, list) = f[Len(list)]  BY <2>1, SentIs
  <2> QED BY <2>2 DEF SentsTo
<1> DEFINE G == {n \in Nat : IsLabels(f[n])}
<1>2. 0 \in G  BY <1>1
<1>3. ASSUME NEW n \in 0..N - 1, n \in G PROVE n + 1 \in G
  <2>1. n + 1 \in Nat /\ n + 1 \in 1..N /\ IsLabels(f[n]) /\ f[n + 1] = EditSent(f[n], list[n + 1])  BY <1>1, <1>3
  <2>2. Len(list[n + 1].items) \in Nat  BY <2>1
  <2> QED BY <2>1, <2>2, EditSentIsLabels
<1> HIDE DEF G
<1>4. \A n \in 0..N : n \in G  BY <1>2, <1>3, ClimbTo
<1> QED BY <1>1, <1>4 DEF G

\* Two edits that differ, for one message, in nothing.
Alike(e, d, x) == /\ d.action = e.action /\ Len(e.items) \in Nat /\ Len(d.items) = Len(e.items)
                  /\ \A n \in 1..Len(e.items) : /\ d.items[n].targets = e.items[n].targets
                                                /\ x \in e.items[n].targets => (d.items[n].failed <=> e.items[n].failed)
LEMMA EditSentAt ==
  ASSUME NEW l, NEW m, NEW e, NEW d, NEW x \in MailIds, Alike(e, d, x), l[x] = m[x]
  PROVE  EditSent(l, e)[x] = EditSent(m, d)[x]
<1> DEFINE N == Len(e.items)
<1>1. N \in Nat /\ Len(d.items) = N /\ d.action = e.action  BY DEF Alike
<1>2. PICK f : /\ f[0] = l /\ \A n \in 0..N - 1 : f[n + 1] = ItemSent(f[n], e, n + 1)
               /\ EditSent(l, e) = f[N]
  <2>1. Len(e.items) \in Nat  BY <1>1
  <2>2. PICK f : SentTo(f, l, e, Len(e.items)) /\ EditSent(l, e) = f[Len(e.items)]  BY <2>1, EditSentIs
  <2> QED BY <1>1, <2>2 DEF SentTo
<1>3. PICK h : /\ h[0] = m /\ \A n \in 0..N - 1 : h[n + 1] = ItemSent(h[n], d, n + 1)
               /\ EditSent(m, d) = h[N]
  <2>1. Len(d.items) \in Nat  BY <1>1
  <2>2. PICK h : SentTo(h, m, d, Len(d.items)) /\ EditSent(m, d) = h[Len(d.items)]  BY <2>1, EditSentIs
  <2> QED BY <1>1, <2>2 DEF SentTo
<1> DEFINE G == {n \in Nat : f[n][x] = h[n][x]}
<1>4. 0 \in G  BY <1>2, <1>3
<1>5. ASSUME NEW n \in 0..N - 1, n \in G PROVE n + 1 \in G
  <2>1. n + 1 \in Nat /\ n + 1 \in 1..N /\ f[n][x] = h[n][x]  BY <1>1, <1>5
  <2>2. f[n + 1] = ItemSent(f[n], e, n + 1) /\ h[n + 1] = ItemSent(h[n], d, n + 1)  BY <1>2, <1>3
  <2> DEFINE i == e.items[n + 1]
             j == d.items[n + 1]
  <2>3. j.targets = i.targets /\ (x \in i.targets => (j.failed <=> i.failed))  BY <2>1 DEF Alike
  <2>4. f[n + 1][x] = IF x \in i.targets /\ ~i.failed THEN (f[n][x] \ Dropped(e.action)) \cup Added(e.action) ELSE f[n][x]
    BY <2>2 DEF ItemSent, Labelled
  <2>5. h[n + 1][x] = IF x \in j.targets /\ ~j.failed THEN (h[n][x] \ Dropped(d.action)) \cup Added(d.action) ELSE h[n][x]
    BY <2>2 DEF ItemSent, Labelled
  <2> HIDE DEF i, j
  <2> QED BY <1>1, <2>1, <2>3, <2>4, <2>5
<1> HIDE DEF G
<1>6. \A n \in 0..N : n \in G  BY <1>1, <1>4, <1>5, ClimbTo
<1>7. N \in G  BY <1>1, <1>6
<1> QED BY <1>2, <1>3, <1>7 DEF G

AllAlike(list, other, x) == \A k \in 1..Len(list) : Alike(list[k], other[k], x)
LEMMA SentAt ==
  ASSUME NEW l, NEW list, NEW other, NEW x \in MailIds, Len(list) \in Nat, Len(other) = Len(list), AllAlike(list, other, x)
  PROVE  Sent(l, list)[x] = Sent(l, other)[x]
<1> DEFINE N == Len(list)
<1>1. PICK f : /\ f[0] = l /\ \A n \in 0..N - 1 : f[n + 1] = EditSent(f[n], list[n + 1])
               /\ Sent(l, list) = f[N]
  <2>1. Len(list) \in Nat  OBVIOUS
  <2>2. PICK f : SentsTo(f, l, list, Len(list)) /\ Sent(l, list) = f[Len(list)]  BY <2>1, SentIs
  <2> QED BY <2>2 DEF SentsTo
<1>2. PICK h : /\ h[0] = l /\ \A n \in 0..N - 1 : h[n + 1] = EditSent(h[n], other[n + 1])
               /\ Sent(l, other) = h[N]
  <2>1. Len(other) \in Nat  OBVIOUS
  <2>2. PICK h : SentsTo(h, l, other, Len(other)) /\ Sent(l, other) = h[Len(other)]  BY <2>1, SentIs
  <2> QED BY <2>2 DEF SentsTo
<1> DEFINE G == {n \in Nat : f[n][x] = h[n][x]}
<1>3. 0 \in G  BY <1>1, <1>2
<1>4. ASSUME NEW n \in 0..N - 1, n \in G PROVE n + 1 \in G
  <2>1. n + 1 \in Nat /\ n + 1 \in 1..N /\ f[n][x] = h[n][x]  BY <1>4
  <2>2. f[n + 1] = EditSent(f[n], list[n + 1]) /\ h[n + 1] = EditSent(h[n], other[n + 1])  BY <1>1, <1>2
  <2>3. Alike(list[n + 1], other[n + 1], x)  BY <2>1 DEF AllAlike
  <2> DEFINE p == f[n]
             q == h[n]
             e == list[n + 1]
             d == other[n + 1]
  <2>4. Alike(e, d, x) /\ p[x] = q[x]  BY <2>1, <2>3
  <2> HIDE DEF p, q, e, d
  <2>5. EditSent(p, e)[x] = EditSent(q, d)[x]  BY <2>4, EditSentAt
  <2>6. f[n + 1] = EditSent(p, e) /\ h[n + 1] = EditSent(q, d)  BY <2>2 DEF p, q, e, d
  <2> QED BY <2>1, <2>5, <2>6
<1> HIDE DEF G
<1>5. \A n \in 0..N : n \in G  BY <1>3, <1>4, ClimbTo
<1>6. N \in G  BY <1>5
<1> QED BY <1>1, <1>2, <1>6 DEF G

------------------------------------
(* Optimistic actions: an edit is made *)

IsItem(m) == m = [id |-> m.id, row |-> m.row, targets |-> m.targets, failed |-> m.failed]
IsItems(s) == IsSeq(s) /\ \A n \in 1..Len(s) : IsItem(s[n])
NoneFailed(s) == \A n \in 1..Len(s) : ~s[n].failed

LEMMA MadeLabels ==
  ASSUME NEW edit, NEW ids, Len(ids) \in Nat, IsView(view)
  PROVE  /\ IsView(Made(edit, ids).view) /\ IsItems(Made(edit, ids).items) /\ NoneFailed(Made(edit, ids).items)
         /\ \A d : d.items = Made(edit, ids).items /\ d.action = edit.action =>
                     EditSent(view.labels, d) = Made(edit, ids).view.labels
<1> DEFINE N == Len(ids)
           First == [view |-> view, items |-> <<>>]
           Good(m) == /\ IsView(m.view) /\ IsItems(m.items) /\ NoneFailed(m.items)
                      /\ \A d : d.items = m.items /\ d.action = edit.action => EditSent(view.labels, d) = m.view.labels
<1>1. PICK f : /\ f[0] = First /\ \A n \in 0..N - 1 : f[n + 1] = WithMessage(f[n], edit, ids[n + 1])
               /\ Made(edit, ids) = f[N]
  <2>1. Len(ids) \in Nat  OBVIOUS
  <2>2. PICK f : MadeTo(f, edit, ids, Len(ids)) /\ Made(edit, ids) = f[Len(ids)]  BY <2>1, MadeIs
  <2> QED BY <2>2 DEF MadeTo
<1>2. Good(First)
  <2>1. First.view = view /\ First.items = <<>>  OBVIOUS
  <2>2. IsSeq(<<>>) /\ Len(<<>>) = 0 /\ 1..0 = {}  BY DEF IsSeq
  <2>3. IsItems(<<>>) /\ NoneFailed(<<>>)  BY <2>2 DEF IsItems, NoneFailed
  <2>4. \A d : d.items = <<>> => EditSent(view.labels, d) = view.labels  BY SentNone
  <2> HIDE DEF First
  <2> QED BY <2>1, <2>3, <2>4
<1>3. ASSUME NEW m, NEW x, Good(m) PROVE Good(WithMessage(m, edit, x))
  <2> DEFINE o == Outcome(m.view, edit, x)
             item == [id |-> x, row |-> o.row, targets |-> o.targets, failed |-> FALSE]
             more == [view |-> o.view, items |-> Append(m.items, item)]
  <2>1. CASE o.row = RowMissing
    <3>1. WithMessage(m, edit, x) = m  BY <2>1 DEF WithMessage
    <3> QED BY <1>3, <3>1
  <2>2. CASE o.row # RowMissing
    <3>1. WithMessage(m, edit, x) = more  BY <2>2 DEF WithMessage
    <3>2. IsView(o.view) /\ o.view.labels = Labelled(m.view.labels, edit.action, o.targets)  BY <1>3, OutcomeIs
    <3>3. item.targets = o.targets /\ ~item.failed /\ IsItem(item)  BY DEF IsItem
    <3>4. more.view = o.view /\ more.items = Append(m.items, item)  OBVIOUS
    <3>5. IsSeq(m.items) /\ (\A n \in 1..Len(m.items) : IsItem(m.items[n]) /\ ~m.items[n].failed)  BY <1>3 DEF IsItems, NoneFailed
    <3> HIDE DEF o, item, more
    <3>6. /\ IsSeq(more.items) /\ Len(m.items) \in Nat /\ Len(more.items) = Len(m.items) + 1
          /\ more.items[Len(m.items) + 1] = item /\ \A n \in 1..Len(m.items) : more.items[n] = m.items[n]
      BY <3>4, <3>5, AppendIs
    <3>7. \A n \in 1..Len(more.items) : n \in 1..Len(m.items) \/ n = Len(m.items) + 1  BY <3>6
    <3>8. \A n \in 1..Len(more.items) : IsItem(more.items[n]) /\ ~more.items[n].failed  BY <3>3, <3>5, <3>6, <3>7
    <3>9. IsItems(more.items) /\ NoneFailed(more.items)  BY <3>6, <3>8 DEF IsItems, NoneFailed
    <3>10. ASSUME NEW d, d.items = more.items, d.action = edit.action PROVE EditSent(view.labels, d) = more.view.labels
      <4> DEFINE e == [action |-> edit.action, items |-> m.items]
      <4>1. e.action = edit.action /\ e.items = m.items  OBVIOUS
      <4> HIDE DEF e
      <4>2. EditSent(view.labels, e) = m.view.labels  BY <1>3, <4>1
      <4>3. EditSent(view.labels, d) = Labelled(EditSent(view.labels, e), e.action, item.targets)
        BY <3>3, <3>4, <3>5, <3>10, <4>1, ItemMore
      <4> QED BY <3>2, <3>3, <3>4, <4>1, <4>2, <4>3
    <3>11. Good(more)  BY <3>2, <3>4, <3>9, <3>10
    <3> QED BY <3>1, <3>11
  <2> QED BY <2>1, <2>2
<1> DEFINE G == {n \in Nat : Good(f[n])}
<1> HIDE DEF Good, First
<1>4. 0 \in G  BY <1>1, <1>2
<1>5. ASSUME NEW n \in 0..N - 1, n \in G PROVE n + 1 \in G
  <2>1. n + 1 \in Nat /\ Good(f[n]) /\ f[n + 1] = WithMessage(f[n], edit, ids[n + 1])  BY <1>1, <1>5
  <2>2. Good(f[n + 1])  BY <1>3, <2>1
  <2> QED BY <2>1, <2>2
<1> HIDE DEF G
<1>6. \A n \in 0..N : n \in G  BY <1>4, <1>5, ClimbTo
<1>7. Good(f[N])  BY <1>6 DEF G
<1>8. Good(Made(edit, ids))  BY <1>1, <1>7
<1> QED BY <1>8 DEF Good

------------------------------------
(* Optimistic actions: the ledger *)

IsEdit(e) == /\ e = [token |-> e.token, action |-> e.action, one |-> e.one, reader |-> e.reader,
                     settled |-> e.settled, items |-> e.items]
             /\ IsItems(e.items) /\ e.token \in Nat
             /\ ~e.settled => NoneFailed(e.items)
TokensRise(list) == \A j, k \in 1..Len(list) : j < k => list[j].token < list[k].token
IsLedger(list) == /\ IsSeq(list) /\ TokensRise(list)
                  /\ \A k \in 1..Len(list) : IsEdit(list[k]) /\ list[k].token <= tokens

(* What is asked of the server is what the ledger says, and unless a replay has gone another way, the view is the
   server's labels with the edits of the ledger upon them. *)
IntentInv == /\ tokens \in Nat /\ asked = edits /\ IsLedger(edits)
             /\ IsView(view) /\ IsLabels(truth) /\ (edits # <<>> => IsView(base))
             /\ ~drifted => view.labels = Sent(truth, edits) /\ (edits # <<>> => base.labels = truth)

LEMMA EditIs == ASSUME NEW e, IsEdit(e) PROVE IsSeq(e.items) /\ Len(e.items) \in Nat /\ DOMAIN e.items = 1..Len(e.items)
BY SeqIs DEF IsEdit, IsItems

LEMMA FreshIsView == ASSUME NEW l, IsLabels(l) PROVE IsView(FreshView(l)) /\ FreshView(l).labels = l
BY DEF FreshView, IsView

LEMMA FcnIsSeq ==
  ASSUME NEW s, NEW k \in Nat, s = [n \in 1..k |-> s[n]]
  PROVE  IsSeq(s) /\ Len(s) = k
<1>1. PICK T : \A n \in 1..k : s[n] \in T
  <2>1. \A n \in 1..k : s[n] \in {s[m] : m \in 1..k}  OBVIOUS
  <2> QED BY <2>1
<1>2. s \in Seq(T) /\ Len(s) = k  BY <1>1
<1>3. IsSeq(s)  BY <1>2 DEF IsSeq
<1> QED BY <1>2, <1>3

LEMMA RemoveAtIs ==
  ASSUME NEW s, IsSeq(s), NEW i \in 1..Len(s)
  PROVE  /\ IsSeq(RemoveAt(s, i)) /\ Len(RemoveAt(s, i)) = Len(s) - 1
         /\ \A n \in 1..Len(s) - 1 : RemoveAt(s, i)[n] = IF n < i THEN s[n] ELSE s[n + 1]
<1>1. PICK S : s \in Seq(S)  BY DEF IsSeq
<1>2. Len(s) \in Nat /\ i \in Nat /\ i - 1 \in 0..Len(s) /\ i + 1 \in Nat /\ Len(s) - 1 \in Nat  BY <1>1
<1> DEFINE a == SubSeq(s, 1, i - 1)
           b == SubSeq(s, i + 1, Len(s))
<1>3. a \in Seq(S) /\ Len(a) = i - 1 /\ \A n \in 1..i - 1 : a[n] = s[n]  BY <1>1, <1>2
<1>4. b \in Seq(S) /\ Len(b) = Len(s) - i /\ \A n \in 1..Len(s) - i : b[n] = s[n + i]  BY <1>1, <1>2
<1> HIDE DEF a, b
<1>0. /\ a \o b \in Seq(S) /\ Len(a \o b) = Len(a) + Len(b)
      /\ \A n \in 1..Len(a) + Len(b) : (a \o b)[n] = IF n <= Len(a) THEN a[n] ELSE b[n - Len(a)]
  BY <1>3, <1>4, ConcatProperties
<1>5. a \o b \in Seq(S) /\ Len(a \o b) = Len(s) - 1  BY <1>0, <1>2, <1>3, <1>4
<1>6. ASSUME NEW n \in 1..Len(s) - 1 PROVE (a \o b)[n] = IF n < i THEN s[n] ELSE s[n + 1]
  <2>0. n \in 1..Len(a) + Len(b) /\ n \in Nat  BY <1>2, <1>3, <1>4
  <2>3. (a \o b)[n] = IF n <= Len(a) THEN a[n] ELSE b[n - Len(a)]  BY <1>0, <2>0
  <2>1. CASE n < i
    <3>1. n \in 1..i - 1 /\ n <= Len(a)  BY <1>2, <1>3, <2>0, <2>1
    <3> QED BY <1>3, <2>1, <2>3, <3>1
  <2>2. CASE ~(n < i)
    <3>1. n - Len(a) \in 1..Len(s) - i /\ (n - Len(a)) + i = n + 1 /\ ~(n <= Len(a))  BY <1>2, <1>3, <2>0, <2>2
    <3>2. (a \o b)[n] = b[n - Len(a)]  BY <2>3, <3>1
    <3> QED BY <1>4, <2>2, <3>1, <3>2
  <2> QED BY <2>1, <2>2
<1>7. RemoveAt(s, i) = a \o b  BY DEF RemoveAt, a, b
<1> QED BY <1>5, <1>6, <1>7 DEF IsSeq

LEMMA LedgerItems ==
  ASSUME NEW list, IsLedger(list)
  PROVE  Len(list) \in Nat /\ DOMAIN list = 1..Len(list) /\ \A n \in 1..Len(list) : Len(list[n].items) \in Nat
BY SeqIs, EditIs DEF IsLedger

LEMMA IntentBegins == IntentInit => IntentInv
<1> SUFFICES ASSUME IntentInit PROVE IntentInv  OBVIOUS
<1>1. edits = <<>> /\ asked = <<>> /\ tokens = 0 /\ view = FreshView(truth)  BY DEF IntentInit
<1>2. PICK new \in SUBSET MailIds : truth = [x \in MailIds |-> {"INBOX"} \cup (IF x \in new THEN {"UNREAD"} ELSE {})]
  BY DEF IntentInit
<1>3. IsLabels(truth)  BY <1>2 DEF IsLabels
<1>4. IsSeq(<<>>) /\ Len(<<>>) = 0 /\ 1..0 = {}  BY DEF IsSeq
<1>5. IsLedger(edits)  BY <1>1, <1>4 DEF IsLedger, TokensRise
<1> QED BY <1>1, <1>3, <1>5, FreshIsView, SentNone DEF IntentInv

\* An edit is made.
LEMMA IntentBeginKeeps ==
  ASSUME IntentInv, NEW action, NEW ids, NEW one, NEW reader, Len(ids) \in Nat, IntentBegin(action, ids, one, reader)
  PROVE  IntentInv'
<1> DEFINE edit == [token |-> tokens + 1, action |-> action, one |-> one, reader |-> reader, settled |-> FALSE, items |-> <<>>]
           made == Made(edit, ids)
           e == [edit EXCEPT !.items = made.items]
<1>1. /\ base' = (IF edits = <<>> THEN view ELSE base) /\ view' = made.view
      /\ edits' = Append(edits, e) /\ asked' = Append(asked, e) /\ tokens' = tokens + 1
      /\ truth' = truth /\ drifted' = drifted
  BY DEF IntentBegin
<1>2. edit.action = action  OBVIOUS
<1>3. e = [token |-> tokens + 1, action |-> action, one |-> one, reader |-> reader, settled |-> FALSE, items |-> made.items]
  <2>1. PICK no, z, none : no = FALSE /\ z = tokens + 1 /\ none = <<>>  OBVIOUS
  <2>2. \A p, q : [[token |-> z, action |-> action, one |-> one, reader |-> reader, settled |-> no, items |-> p]
                     EXCEPT !.items = q]
                  = [token |-> z, action |-> action, one |-> one, reader |-> reader, settled |-> no, items |-> q]
    OBVIOUS
  <2>3. edit = [token |-> z, action |-> action, one |-> one, reader |-> reader, settled |-> no, items |-> none]  BY <2>1
  <2> HIDE DEF made, edit
  <2>4. e = [token |-> z, action |-> action, one |-> one, reader |-> reader, settled |-> no, items |-> made.items]  BY <2>2, <2>3
  <2> QED BY <2>1, <2>4
<1>4. e.items = made.items /\ e.action = action /\ e.token = tokens + 1 /\ ~e.settled  BY <1>3
<1>5. /\ tokens \in Nat /\ asked = edits /\ IsView(view) /\ IsLabels(truth) /\ (edits # <<>> => IsView(base))
      /\ IsSeq(edits) /\ TokensRise(edits) /\ \A k \in 1..Len(edits) : IsEdit(edits[k]) /\ edits[k].token <= tokens
  BY DEF IntentInv, IsLedger
<1> HIDE DEF e, edit
<1>6. /\ IsView(made.view) /\ IsItems(made.items) /\ NoneFailed(made.items)
      /\ \A d : d.items = made.items /\ d.action = edit.action => EditSent(view.labels, d) = made.view.labels
  BY <1>5, MadeLabels
<1>7. IsEdit(e)  BY <1>3, <1>4, <1>5, <1>6 DEF IsEdit
<1>8. EditSent(view.labels, e) = made.view.labels  BY <1>2, <1>4, <1>6
<1> HIDE DEF made
<1>9. /\ IsSeq(edits') /\ Len(edits) \in Nat /\ Len(edits') = Len(edits) + 1 /\ edits'[Len(edits) + 1] = e
      /\ \A n \in 1..Len(edits) : edits'[n] = edits[n]
  BY <1>1, <1>5, AppendIs
<1>10. \A n \in 1..Len(edits') : n \in 1..Len(edits) \/ n = Len(edits) + 1  BY <1>9
<1>11. tokens' \in Nat /\ \A t \in Nat : t <= tokens => t <= tokens' /\ t < tokens + 1  BY <1>1, <1>5
<1>12. \A k \in 1..Len(edits) : edits[k].token \in Nat  BY <1>5 DEF IsEdit
<1>13. \A k \in 1..Len(edits') : IsEdit(edits'[k]) /\ edits'[k].token <= tokens'
  <2> SUFFICES ASSUME NEW k \in 1..Len(edits') PROVE IsEdit(edits'[k]) /\ edits'[k].token <= tokens'  OBVIOUS
  <2>1. CASE k \in 1..Len(edits)  BY <1>5, <1>9, <1>11, <1>12, <2>1
  <2>2. CASE k = Len(edits) + 1
    <3>1. edits'[k] = e /\ e.token <= tokens'  BY <1>1, <1>4, <1>5, <1>9, <2>2
    <3> QED BY <1>7, <3>1
  <2> QED BY <1>10, <2>1, <2>2
<1>14. TokensRise(edits')
  <2> SUFFICES ASSUME NEW j \in 1..Len(edits'), NEW k \in 1..Len(edits'), j < k PROVE edits'[j].token < edits'[k].token
    BY DEF TokensRise
  <2>1. j \in 1..Len(edits)  BY <1>9
  <2>2. CASE k \in 1..Len(edits)  BY <1>5, <1>9, <2>1, <2>2 DEF TokensRise
  <2>3. CASE k = Len(edits) + 1
    <3>1. edits'[j].token \in Nat /\ edits'[j].token <= tokens  BY <1>5, <1>9, <1>12, <2>1
    <3>2. edits'[k].token = tokens + 1  BY <1>4, <1>9, <2>3
    <3> QED BY <1>11, <3>1, <3>2
  <2> QED BY <1>10, <2>2, <2>3
<1>15. IsLedger(edits)'  BY <1>9, <1>13, <1>14 DEF IsLedger, TokensRise
<1>16. edits' # <<>>
  <2>1. Len(<<>>) = 0  OBVIOUS
  <2> QED BY <1>9, <2>1
<1>17. IsView(base') /\ IsView(view') /\ IsLabels(truth')  BY <1>1, <1>5, <1>6
<1>18. ASSUME ~drifted' PROVE view'.labels = Sent(truth', edits') /\ base'.labels = truth'
  <2>1. view.labels = Sent(truth, edits) /\ (edits # <<>> => base.labels = truth)  BY <1>1, <1>18 DEF IntentInv
  <2>2. Sent(truth, edits') = EditSent(Sent(truth, edits), e)  BY <1>1, <1>5, EditMore
  <2>3. edits = <<>> => Sent(truth, edits) = truth  BY SentNone
  <2> QED BY <1>1, <1>8, <2>1, <2>2, <2>3
<1> HIDE DEF IsLedger, IsView, IsLabels
<1>19. asked' = edits'  BY <1>1, <1>5
<1> QED BY <1>11, <1>15, <1>17, <1>18, <1>19 DEF IntentInv, IsView, IsLabels

\* What a settlement makes of the ledger: the edit is settled, and its refused messages failed.
SettledItems(i, failed) == [n \in DOMAIN edits[i].items |-> [edits[i].items[n] EXCEPT !.failed = FailedItem(edits[i].items[n], failed)]]
SettledList(i, failed) == [edits EXCEPT ![i].settled = TRUE, ![i].items = SettledItems(i, failed)]

LEMMA SettledIs ==
  ASSUME IntentInv, NEW i \in DOMAIN edits, NEW failed
  PROVE  /\ Told(edits[i].items, failed) = SettledItems(i, failed)
         /\ Len(SettledItems(i, failed)) = Len(edits[i].items)
         /\ \A n \in 1..Len(edits[i].items) :
               /\ SettledItems(i, failed)[n].targets = edits[i].items[n].targets
               /\ SettledItems(i, failed)[n].failed = (edits[i].items[n].row \in failed)
         /\ IsLedger(SettledList(i, failed)) /\ Len(SettledList(i, failed)) = Len(edits)
         /\ DOMAIN SettledList(i, failed) = DOMAIN edits
         /\ \A k \in 1..Len(edits) : k # i => SettledList(i, failed)[k] = edits[k]
         /\ SettledList(i, failed)[i].items = SettledItems(i, failed)
         /\ SettledList(i, failed)[i].action = edits[i].action
         /\ SettledList(i, failed) = [edits EXCEPT ![i] = SettledList(i, failed)[i]]
         /\ SettledList(i, failed)[i] = [SettledList(i, failed)[i] EXCEPT !.items = SettledItems(i, failed)]
<1> DEFINE items == SettledItems(i, failed)
           old == edits[i].items
           now == SettledList(i, failed)
<1>1. IsSeq(edits) /\ TokensRise(edits) /\ DOMAIN edits = 1..Len(edits) /\ Len(edits) \in Nat  BY SeqIs DEF IntentInv, IsLedger
<1>2. IsEdit(edits[i]) /\ i \in 1..Len(edits)  BY <1>1 DEF IntentInv, IsLedger
<1>3. IsSeq(old) /\ Len(old) \in Nat /\ DOMAIN old = 1..Len(old) /\ \A n \in 1..Len(old) : IsItem(old[n])
  BY <1>2, EditIs DEF IsEdit, IsItems
<1>4. \A n \in 1..Len(old) : items[n] = [old[n] EXCEPT !.failed = FailedItem(old[n], failed)]  BY <1>3 DEF SettledItems
<1>5. ASSUME NEW n \in 1..Len(old)
      PROVE  items[n].targets = old[n].targets /\ items[n].failed = (old[n].row \in failed) /\ IsItem(items[n])
  <2> DEFINE m == old[n]
             b == FailedItem(old[n], failed)
  <2>1. IsItem(m) /\ items[n] = [m EXCEPT !.failed = b] /\ b = (m.row \in failed)  BY <1>3, <1>4 DEF FailedItem
  <2> HIDE DEF m, b, items, old
  <2>2. items[n] = [id |-> m.id, row |-> m.row, targets |-> m.targets, failed |-> b]  BY <2>1 DEF IsItem
  <2>3. items[n].id = m.id /\ items[n].row = m.row /\ items[n].targets = m.targets /\ items[n].failed = b  BY <2>2
  <2>4. IsItem(items[n])  BY <2>2, <2>3 DEF IsItem
  <2> QED BY <2>1, <2>3, <2>4 DEF m
<1>6. items = [n \in 1..Len(old) |-> items[n]]  BY <1>3 DEF SettledItems
<1>7. Told(old, failed) = items  BY DEF Told, SettledItems, FailedItem
<1>8. DOMAIN now = DOMAIN edits /\ \A k \in 1..Len(edits) : k # i => now[k] = edits[k]  BY <1>1 DEF SettledList
<1>9. now[i] = [edits[i] EXCEPT !.settled = TRUE, !.items = items]  BY <1>1, <1>2 DEF SettledList
<1>10. now = [k \in 1..Len(edits) |-> now[k]]  BY <1>1 DEF SettledList
<1>11. now = [edits EXCEPT ![i] = now[i]]  BY <1>1, <1>2 DEF SettledList
<1> HIDE DEF items, now
<1>12. IsSeq(items) /\ Len(items) = Len(old)  BY <1>3, <1>6, FcnIsSeq
<1>13. IsItems(items)  BY <1>5, <1>12 DEF IsItems
<1>14. IsSeq(now) /\ Len(now) = Len(edits)  BY <1>1, <1>10, FcnIsSeq
<1>15. PICK e, yes : e = edits[i] /\ yes = TRUE  OBVIOUS
<1>16. now[i] = [token |-> e.token, action |-> e.action, one |-> e.one, reader |-> e.reader, settled |-> yes, items |-> items]
  <2>1. IsEdit(e) /\ now[i] = [e EXCEPT !.settled = yes, !.items = items]  BY <1>2, <1>9, <1>15
  <2> QED BY <2>1 DEF IsEdit
<1>17. /\ now[i].token = e.token /\ now[i].action = e.action /\ now[i].one = e.one /\ now[i].reader = e.reader
       /\ now[i].settled = yes /\ now[i].items = items
  BY <1>16
<1>18. IsEdit(now[i])
  <2>1. now[i] = [token |-> now[i].token, action |-> now[i].action, one |-> now[i].one, reader |-> now[i].reader,
                  settled |-> now[i].settled, items |-> now[i].items]
    BY <1>16, <1>17
  <2>2. e.token \in Nat  BY <1>2, <1>15 DEF IsEdit
  <2> QED BY <1>13, <1>15, <1>17, <2>1, <2>2 DEF IsEdit
<1>19. now[i] = [now[i] EXCEPT !.items = items]  BY <1>16, <1>17
<1>20. \A k \in 1..Len(edits) : now[k].token = edits[k].token  BY <1>8, <1>15, <1>17
<1>21. TokensRise(now)  BY <1>1, <1>14, <1>20 DEF TokensRise
<1>22. \A k \in 1..Len(now) : IsEdit(now[k]) /\ now[k].token <= tokens  BY <1>8, <1>14, <1>18, <1>20 DEF IntentInv, IsLedger
<1>23. IsLedger(now)  BY <1>14, <1>21, <1>22 DEF IsLedger
<1> HIDE DEF IsLedger
<1>24. \A n \in 1..Len(old) : items[n].targets = old[n].targets /\ items[n].failed = (old[n].row \in failed)  BY <1>5
<1>25. now[i].items = items /\ now[i].action = edits[i].action  BY <1>15, <1>17
<1> HIDE DEF old
<1> QED BY <1>7, <1>8, <1>11, <1>12, <1>14, <1>19, <1>23, <1>24, <1>25 DEF items, now, old

\* What the server is told is what the ledger says, and is done when every edit is settled.
LEMMA SettleIs ==
  ASSUME IntentInv, NEW i \in DOMAIN edits, NEW failed, IntentSettle(i, failed)
  PROVE  LET now == SettledList(i, failed)
         IN /\ view' = Replayed(base, now).view /\ drifted' = (drifted \/ Replayed(base, now).drift)
            /\ base' = base /\ tokens' = tokens /\ ~edits[i].settled
            /\ refused' = UNION {edits[i].items[n].targets :
                                   n \in {m \in DOMAIN edits[i].items : edits[i].items[m].row \in failed}}
            /\ \/ edits' = <<>> /\ asked' = <<>> /\ truth' = Sent(truth, now)
               \/ edits' = now /\ asked' = now /\ truth' = truth
<1> DEFINE now == SettledList(i, failed)
           items == SettledItems(i, failed)
<1>1. /\ view' = Replayed(base, now).view /\ drifted' = (drifted \/ Replayed(base, now).drift)
      /\ base' = base /\ tokens' = tokens /\ ~edits[i].settled /\ edits' = Kept(now)
  BY DEF IntentSettle, SettledList, SettledItems
<1>2. refused' = UNION {edits[i].items[n].targets :
                          n \in {m \in DOMAIN edits[i].items : edits[i].items[m].row \in failed}}
  <2>1. DOMAIN items = DOMAIN edits[i].items  BY DEF SettledItems
  <2>2. refused' = UNION {edits[i].items[n].targets : n \in {m \in DOMAIN items : edits[i].items[m].row \in failed}}
    BY DEF IntentSettle, SettledItems
  <2> QED BY <2>1, <2>2
<1>3. PICK k \in DOMAIN asked :
         /\ asked[k].token = edits[i].token
         /\ LET told == [asked EXCEPT ![k] = [now[i] EXCEPT !.items = Told(asked[k].items, failed)]] IN
              IF \A n \in DOMAIN told : told[n].settled THEN truth' = Sent(truth, told) /\ asked' = <<>>
              ELSE asked' = told /\ truth' = truth
  BY DEF IntentSettle, SettledList, SettledItems
<1>4. asked = edits /\ TokensRise(edits) /\ DOMAIN edits = 1..Len(edits) /\ Len(edits) \in Nat
  BY LedgerItems DEF IntentInv, IsLedger
<1>5. \A j \in 1..Len(edits) : edits[j].token \in Nat  BY DEF IntentInv, IsLedger, IsEdit
<1>6. k = i
  <2>1. k \in 1..Len(edits) /\ i \in 1..Len(edits) /\ edits[k].token = edits[i].token  BY <1>3, <1>4
  <2>2. k < i \/ i < k \/ k = i  BY <1>4, <2>1
  <2>3. edits[k].token \in Nat /\ edits[i].token \in Nat  BY <1>5, <2>1
  <2> QED BY <1>4, <2>1, <2>2, <2>3 DEF TokensRise
<1>7. /\ Told(edits[i].items, failed) = items /\ now = [edits EXCEPT ![i] = now[i]] /\ now[i] = [now[i] EXCEPT !.items = items]
      /\ DOMAIN now = DOMAIN edits
  BY SettledIs
<1> HIDE DEF now, items
<1>8. [asked EXCEPT ![k] = [now[i] EXCEPT !.items = Told(asked[k].items, failed)]] = now  BY <1>4, <1>6, <1>7
<1>9. IF \A n \in DOMAIN now : now[n].settled THEN truth' = Sent(truth, now) /\ asked' = <<>>
      ELSE asked' = now /\ truth' = truth
  BY <1>3, <1>8
<1>10. edits' = IF \A n \in DOMAIN now : now[n].settled THEN <<>> ELSE now  BY <1>1 DEF Kept
<1> QED BY <1>1, <1>2, <1>9, <1>10 DEF now

\* A replay of a ledger is a view, and of the labels it says unless it went another way.
LEMMA ReplayOf ==
  ASSUME NEW list, IsLedger(list), IsView(base)
  PROVE  /\ IsView(Replayed(base, list).view)
         /\ ~Replayed(base, list).drift => Replayed(base, list).view.labels = Sent(base.labels, list)
BY LedgerItems, ReplayIsView, ReplayLabels

LEMMA EmptyLedger == IsLedger(<<>>)
<1>1. IsSeq(<<>>) /\ Len(<<>>) = 0 /\ 1..0 = {}  BY DEF IsSeq
<1> QED BY <1>1 DEF IsLedger, TokensRise

\* An edit settles.
LEMMA SettleKeeps ==
  ASSUME IntentInv, NEW i \in DOMAIN edits, NEW failed, IntentSettle(i, failed)
  PROVE  IntentInv'
<1> DEFINE now == SettledList(i, failed)
<1>1. /\ view' = Replayed(base, now).view /\ drifted' = (drifted \/ Replayed(base, now).drift)
      /\ base' = base /\ tokens' = tokens
      /\ \/ edits' = <<>> /\ asked' = <<>> /\ truth' = Sent(truth, now)
         \/ edits' = now /\ asked' = now /\ truth' = truth
  BY SettleIs
<1>2. IsLedger(now)  BY SettledIs
<1>3. edits # <<>>
  <2>1. DOMAIN <<>> = {}  OBVIOUS
  <2> QED BY <2>1
<1>4. IsView(base) /\ IsLabels(truth) /\ tokens \in Nat /\ (~drifted => base.labels = truth)  BY <1>3 DEF IntentInv
<1> HIDE DEF now
<1>5. /\ IsView(Replayed(base, now).view)
      /\ ~Replayed(base, now).drift => Replayed(base, now).view.labels = Sent(base.labels, now)
  BY <1>2, <1>4, ReplayOf
<1>6. IsLabels(Sent(truth, now))  BY <1>2, <1>4, LedgerItems, SentIsLabels
<1>7. IsLedger(edits') /\ asked' = edits'  BY <1>1, <1>2, EmptyLedger
<1>8. IsLedger(edits)'  BY <1>1, <1>7 DEF IsLedger, IsEdit, TokensRise
<1>9. IsView(view') /\ IsView(base') /\ IsLabels(truth') /\ tokens' \in Nat  BY <1>1, <1>4, <1>5, <1>6
<1>10. ASSUME ~drifted' PROVE view'.labels = Sent(truth', edits') /\ (edits' # <<>> => base'.labels = truth')
  <2>1. ~drifted /\ ~Replayed(base, now).drift  BY <1>1, <1>10, Zenon
  <2>2. view'.labels = Sent(truth, now) /\ base'.labels = truth  BY <1>1, <1>4, <1>5, <2>1
  <2>3. CASE edits' = <<>> /\ truth' = Sent(truth, now)  BY <2>2, <2>3, SentNone
  <2>4. CASE edits' = now /\ truth' = truth  BY <2>2, <2>4
  <2> QED BY <1>1, <2>3, <2>4
<1> HIDE DEF IsLedger, IsView, IsLabels
<1> QED BY <1>7, <1>8, <1>9, <1>10 DEF IntentInv, IsView, IsLabels

\* A repeat joins the edit before it.
LEMMA CoalesceKeeps ==
  ASSUME IntentInv, NEW old \in DOMAIN edits, NEW new \in DOMAIN edits, IntentCoalesce(old, new)
  PROVE  IntentInv' /\ Len(edits') # Len(edits)
<1> DEFINE list == RemoveAt(edits, new)
<1>1. /\ view' = Replayed(base, list).view /\ drifted' = (drifted \/ Replayed(base, list).drift)
      /\ base' = base /\ tokens' = tokens /\ truth' = truth /\ edits' = list /\ asked' = RemoveAt(asked, new)
  BY DEF IntentCoalesce
<1>2. IsSeq(edits) /\ TokensRise(edits) /\ DOMAIN edits = 1..Len(edits) /\ Len(edits) \in Nat /\ asked = edits
  BY LedgerItems DEF IntentInv, IsLedger
<1>3. /\ IsSeq(list) /\ Len(list) = Len(edits) - 1
      /\ \A n \in 1..Len(edits) - 1 : list[n] = IF n < new THEN edits[n] ELSE edits[n + 1]
  BY <1>2, RemoveAtIs
<1>4. edits # <<>>
  <2>1. DOMAIN <<>> = {}  OBVIOUS
  <2> QED BY <2>1
<1> HIDE DEF list
<1>5. \A k \in 1..Len(edits) : IsEdit(edits[k]) /\ edits[k].token <= tokens  BY DEF IntentInv, IsLedger
<1>6. \A n \in 1..Len(list) : n \in 1..Len(edits) - 1 /\ n \in 1..Len(edits) /\ n + 1 \in 1..Len(edits)  BY <1>2, <1>3
<1>7. \A k \in 1..Len(list) : IsEdit(list[k]) /\ list[k].token <= tokens  BY <1>3, <1>5, <1>6
<1>8. TokensRise(list)
  <2> SUFFICES ASSUME NEW j \in 1..Len(list), NEW k \in 1..Len(list), j < k PROVE list[j].token < list[k].token  BY DEF TokensRise
  <2> DEFINE p == IF j < new THEN j ELSE j + 1
             q == IF k < new THEN k ELSE k + 1
  <2>1. p \in 1..Len(edits) /\ q \in 1..Len(edits) /\ p < q  BY <1>2, <1>3
  <2>2. list[j] = edits[p] /\ list[k] = edits[q]  BY <1>3, <1>6
  <2> HIDE DEF p, q
  <2> QED BY <1>2, <2>1, <2>2 DEF TokensRise
<1>9. IsLedger(list)  BY <1>3, <1>7, <1>8 DEF IsLedger
<1>10. IsView(base) /\ IsLabels(truth) /\ tokens \in Nat /\ (~drifted => base.labels = truth)  BY <1>4 DEF IntentInv
<1>11. /\ IsView(Replayed(base, list).view)
       /\ ~Replayed(base, list).drift => Replayed(base, list).view.labels = Sent(base.labels, list)
  BY <1>9, <1>10, ReplayOf
<1>12. IsLedger(edits)' /\ asked' = edits'
  <2>1. asked' = edits'  BY <1>1, <1>2 DEF list
  <2> QED BY <1>1, <1>9, <2>1 DEF IsLedger, IsEdit, TokensRise
<1>13. IsView(view') /\ IsView(base') /\ IsLabels(truth') /\ tokens' \in Nat  BY <1>1, <1>10, <1>11
<1>14. ASSUME ~drifted' PROVE view'.labels = Sent(truth', edits') /\ base'.labels = truth'
  <2>1. ~drifted /\ ~Replayed(base, list).drift  BY <1>1, <1>14, Zenon
  <2> QED BY <1>1, <1>10, <1>11, <2>1
<1>15. Len(edits') # Len(edits)
  <2>1. Len(list) # Len(edits)
    <3>1. Len(edits) \in Nat /\ Len(list) = Len(edits) - 1  BY <1>2, <1>3
    <3> QED BY <3>1
  <2>2. edits' = list  BY <1>1
  <2> QED BY <2>1, <2>2
<1> HIDE DEF IsLedger, IsView, IsLabels
<1> QED BY <1>12, <1>13, <1>14, <1>15 DEF IntentInv, IsView, IsLabels

\* The ledger is dropped.
LEMMA ResetKeeps == ASSUME IntentInv, IntentReset PROVE IntentInv' /\ edits' = <<>> /\ edits # <<>>
<1>1. /\ edits # <<>> /\ edits' = <<>> /\ asked' = <<>> /\ view' = FreshView(truth)
      /\ base' = base /\ tokens' = tokens /\ truth' = truth
  BY DEF IntentReset
<1>2. IsLabels(truth) /\ tokens \in Nat  BY DEF IntentInv
<1>3. IsView(view') /\ view'.labels = truth'  BY <1>1, <1>2, FreshIsView
<1>4. IsLedger(edits)'  BY <1>1, EmptyLedger DEF IsLedger, IsEdit, TokensRise
<1>5. Sent(truth', edits') = truth'  BY <1>1, SentNone
<1> HIDE DEF IsLedger, IsView, IsLabels
<1> QED BY <1>1, <1>2, <1>3, <1>4, <1>5 DEF IntentInv, IsView, IsLabels

LEMMA IntentKeeps == IntentInv /\ [IntentNext]_intentVars => IntentInv'
<1> SUFFICES ASSUME IntentInv, [IntentNext]_intentVars PROVE IntentInv'  OBVIOUS
<1>1. ASSUME NEW action, NEW ids \in IdLists, NEW one, NEW reader, IntentBegin(action, ids, one, reader)
      PROVE  IntentInv'
  <2>1. Len(ids) \in Nat  BY DEF IdLists
  <2> QED BY <1>1, <2>1, IntentBeginKeeps
<1>2. CASE UNCHANGED intentVars  BY <1>2 DEF intentVars, IntentInv, IsLedger, IsEdit, TokensRise, IsView, IsLabels
<1> QED BY <1>1, <1>2, SettleKeeps, CoalesceKeeps, ResetKeeps DEF IntentNext

(* account/intents.rs: when no edit is open, every message shows what the server has, unless a replay made an edit on
   another row than it had been made on. *)
THEOREM RowsConverge == IntentSpec => []ConvergesToServer
<1>1. IntentInv => ConvergesToServer  BY SentNone DEF IntentInv, ConvergesToServer
<1> QED BY <1>1, IntentBegins, IntentKeeps, PTL DEF IntentSpec

\* A settlement that leaves an edit open changes the labels of what was refused only.
LEMMA SettleIsLocal ==
  ASSUME IntentInv, NEW i \in DOMAIN edits, NEW failed, IntentSettle(i, failed), Len(edits') = Len(edits), ~drifted',
         NEW x \in MailIds, x \notin refused'
  PROVE  view'.labels[x] = view.labels[x]
<1> DEFINE now == SettledList(i, failed)
           items == SettledItems(i, failed)
           old == edits[i].items
<1>1. /\ view' = Replayed(base, now).view /\ drifted' = (drifted \/ Replayed(base, now).drift)
      /\ ~edits[i].settled
      /\ \/ edits' = <<>>
         \/ edits' = now /\ truth' = truth
  BY SettleIs
<1>2. refused' = UNION {old[n].targets : n \in {m \in DOMAIN old : old[m].row \in failed}}  BY SettleIs
<1>3. /\ IsLedger(now) /\ Len(now) = Len(edits) /\ \A k \in 1..Len(edits) : k # i => now[k] = edits[k]
      /\ now[i].items = items /\ now[i].action = edits[i].action
  <2>1. IsLedger(now) /\ Len(now) = Len(edits) /\ now[i].items = items /\ now[i].action = edits[i].action  BY SettledIs
  <2>2. \A k \in 1..Len(edits) : k # i => now[k] = edits[k]
    <3>1. DOMAIN edits = 1..Len(edits)  BY LedgerItems DEF IntentInv
    <3> QED BY <3>1 DEF SettledList
  <2> HIDE DEF now, items
  <2> QED BY <2>1, <2>2
<1>4. /\ Len(items) = Len(old)
      /\ \A n \in 1..Len(old) : items[n].targets = old[n].targets /\ items[n].failed = (old[n].row \in failed)
  BY SettledIs
<1>5. IsLedger(edits) /\ Len(edits) \in Nat /\ DOMAIN edits = 1..Len(edits) /\ \A k \in 1..Len(edits) : IsEdit(edits[k])
  BY LedgerItems DEF IntentInv, IsLedger
<1>6. i \in 1..Len(edits) /\ edits # <<>>
  <2>1. DOMAIN <<>> = {}  OBVIOUS
  <2> QED BY <1>5, <2>1
<1>7. IsView(base) /\ ~drifted /\ ~Replayed(base, now).drift
  <2>1. ~drifted /\ ~Replayed(base, now).drift  BY <1>1, Zenon
  <2> QED BY <1>6, <2>1 DEF IntentInv
<1>8. view.labels = Sent(truth, edits) /\ base.labels = truth  BY <1>6, <1>7 DEF IntentInv
<1> HIDE DEF now, items, old
<1>9. view'.labels = Sent(truth, now)  BY <1>1, <1>3, <1>7, <1>8, ReplayOf
<1>10. Len(old) \in Nat /\ DOMAIN old = 1..Len(old) /\ NoneFailed(old)  BY <1>1, <1>5, <1>6, EditIs DEF old, IsEdit
<1>11. \A n \in 1..Len(old) : x \in old[n].targets => old[n].row \notin failed  BY <1>2, <1>10
<1>12. Alike(edits[i], now[i], x)
  <2>1. \A n \in 1..Len(old) : /\ items[n].targets = old[n].targets
                               /\ x \in old[n].targets => (items[n].failed <=> old[n].failed)
    BY <1>4, <1>10, <1>11 DEF NoneFailed
  <2> QED BY <1>3, <1>4, <1>10, <2>1 DEF Alike, old
<1>13. ASSUME NEW k \in 1..Len(edits) PROVE Alike(edits[k], now[k], x)
  <2>1. CASE k = i  BY <1>12, <2>1
  <2>2. CASE k # i
    <3>1. now[k] = edits[k] /\ Len(edits[k].items) \in Nat  BY <1>3, <1>5, <2>2, EditIs
    <3> QED BY <3>1 DEF Alike
  <2> QED BY <2>1, <2>2
<1>14. Sent(truth, edits)[x] = Sent(truth, now)[x]
  <2>1. AllAlike(edits, now, x)  BY <1>13 DEF AllAlike
  <2>2. Len(now) = Len(edits) /\ Len(edits) \in Nat  BY <1>3, <1>5
  <2> QED BY <2>1, <2>2, SentAt
<1> QED BY <1>8, <1>9, <1>14


(* account/intents.rs:1: a settlement changes the labels of no message but those it was told were refused, in whatever
   order edits settle, unless a replay makes an edit on another row than it had been made on. *)
THEOREM RefusalsAreLocal == IntentSpec => RefusalIsLocal
<1> DEFINE Local == edits' # edits /\ tokens' = tokens /\ Len(edits') = Len(edits) /\ ~drifted' =>
                      \A x \in MailIds : view'.labels[x] # view.labels[x] => x \in refused'
<1>1. ASSUME IntentInv, NEW i \in DOMAIN edits, NEW failed, IntentSettle(i, failed) PROVE Local  BY <1>1, SettleIsLocal
<1>2. ASSUME IntentInv, [IntentNext]_intentVars PROVE Local
  <2>1. ASSUME NEW action, NEW ids, NEW one, NEW reader, IntentBegin(action, ids, one, reader) PROVE Local
    <3>1. tokens' = tokens + 1 /\ tokens \in Nat  BY <1>2, <2>1 DEF IntentBegin, IntentInv
    <3>2. tokens' # tokens  BY <3>1
    <3> QED BY <3>2
  <2>2. ASSUME NEW old \in DOMAIN edits, NEW new \in DOMAIN edits, IntentCoalesce(old, new) PROVE Local
    BY <1>2, <2>2, CoalesceKeeps
  <2>3. ASSUME IntentReset PROVE Local
    <3>1. edits' = <<>> /\ edits # <<>> /\ IsSeq(edits)  BY <1>2, <2>3, ResetKeeps DEF IntentInv, IsLedger
    <3>2. Len(edits') = 0 /\ Len(edits) # 0
      <4>1. Len(<<>>) = 0  OBVIOUS
      <4> QED BY <3>1, <4>1, SeqIs
    <3> QED BY <3>2
  <2>4. CASE UNCHANGED intentVars  BY <2>4 DEF intentVars
  <2> HIDE DEF Local
  <2> QED BY <1>1, <1>2, <2>1, <2>2, <2>3, <2>4 DEF IntentNext
<1>3. IntentInv /\ [IntentNext]_intentVars => [Local]_intentVars  BY <1>2
<1> QED BY <1>3, IntentBegins, IntentKeeps, PTL DEF IntentSpec, RefusalIsLocal
=============================================================================
