------------------------------ MODULE MailQueue ------------------------------
(***************************************************************************)
(* What an outbox promises, without processes, files or locks: accepted    *)
(* messages wait in one line per account; a message leaves the line either *)
(* to be attempted, from the front and once, or withdrawn unsent; and      *)
(* nothing that has left the line comes back.                              *)
(***************************************************************************)
CONSTANTS Sends, AccountOf

VARIABLES
  waiting,   \* messages in a line
  ahead,     \* pairs of one line: the first was accepted before the second
  closed,    \* messages that are no longer waiting, or never will
  attempted  \* messages handed to a provider

queueVars == <<waiting, ahead, closed, attempted>>

\* The messages that wait in the line of m.
InLine(m) == {n \in waiting : AccountOf[n] = AccountOf[m]}

\* Some messages leave: those that stay keep their order.
Leave(ms) ==
  /\ waiting' = waiting \ ms
  /\ ahead' = {p \in ahead : p[1] \notin ms /\ p[2] \notin ms}
  /\ closed' = closed \cup ms

Init ==
  /\ waiting = {} /\ ahead = {}
  /\ closed = {}
  /\ attempted = {}

\* A new message goes to the end of its line.
Accept(m) ==
  /\ m \notin closed \cup waiting
  /\ waiting' = waiting \cup {m}
  /\ ahead' = ahead \cup (InLine(m) \X {m})
  /\ UNCHANGED <<closed, attempted>>

\* The front of a line is handed to the provider.
Attempt(m) ==
  /\ m \in waiting
  /\ \A n \in waiting : <<n, m>> \notin ahead
  /\ Leave({m})
  /\ attempted' = attempted \cup {m}

\* Some messages, waiting or not yet acknowledged, are given up together.
Withdraw(ms) ==
  /\ ms # {}
  /\ ms \cap closed = {}
  /\ Leave(ms)
  /\ UNCHANGED attempted

Next ==
  \/ \E m \in Sends : Accept(m) \/ Attempt(m)
  \/ \E ms \in SUBSET Sends : Withdraw(ms)

Spec == Init /\ [][Next]_queueVars
=============================================================================
