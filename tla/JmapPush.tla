------------------------------ MODULE JmapPush ------------------------------
(***************************************************************************)
(* The JMAP event stream (providers/jmap/stream.rs; jmap.watch in           *)
(* mailbox.rs; stream poll and close in mod.rs) from the server's state     *)
(* change to the panel's refresh.  The backend drops an event whose state   *)
(* some earlier reply already told it; the panel refreshes on "connected"   *)
(* and on "change" (ui/providers/JmapPush.qml, external).                   *)
(***************************************************************************)
EXTENDS Integers, Sequences

CONSTANTS ChannelCap,  \* mpsc::channel(8)
          MaxStates,   \* bound: states of the server's mail
          MaxLosses    \* bound: connections lost

ASSUME PushBounds == ChannelCap \in Nat \ {0} /\ {MaxStates, MaxLosses} \subseteq Nat

VARIABLES
    jhServer,   \* the server's Email state
    jhKnown,    \* known["Email"]: the newest state any reply brought
    jhListed,   \* the state the panel's list was read at
    jhTaught,   \* a reply other than the panel's listing brought a newer state
    jhStream,   \* the stream task: "off", "connecting", "open", "waiting", "ended"
    jhWire,     \* states the server has announced on this connection, unread
    jhChannel,  \* events for the next poll
    jhOwes,     \* the panel owes a refresh
    jhFailures, \* consecutive failures, and so the delay
    jhLosses

pushVars == <<jhServer, jhKnown, jhListed, jhTaught, jhStream, jhWire, jhChannel,
              jhOwes, jhFailures, jhLosses>>

PushInit ==
    /\ jhServer = 1 /\ jhKnown = 0 /\ jhListed = 0 /\ jhTaught = FALSE
    /\ jhStream = "off" /\ jhWire = <<>> /\ jhChannel = <<>>
    /\ jhOwes = FALSE /\ jhFailures = 0 /\ jhLosses = 0

\* Mail arrives; a connected stream is told.
ServerChanges ==
    /\ jhServer < MaxStates /\ jhServer' = jhServer + 1
    /\ jhWire' = IF jhStream = "open" THEN Append(jhWire, jhServer') ELSE jhWire
    /\ UNCHANGED <<jhKnown, jhListed, jhTaught, jhStream, jhChannel, jhOwes, jhFailures, jhLosses>>

\* jmap.watch: a stream of the same id is aborted and replaced.
Watch ==
    /\ jhStream' = "connecting" /\ jhWire' = <<>> /\ jhChannel' = <<>> /\ jhFailures' = 0
    /\ UNCHANGED <<jhServer, jhKnown, jhListed, jhTaught, jhOwes, jhLosses>>

\* connection: the first event of every connection says so.
Announced(channel) == Append(channel, "connected")
Connect ==
    /\ jhStream = "connecting" /\ Len(jhChannel) < ChannelCap
    /\ jhStream' = "open" /\ jhWire' = <<>> /\ jhChannel' = Announced(jhChannel)
    /\ UNCHANGED <<jhServer, jhKnown, jhListed, jhTaught, jhOwes, jhFailures, jhLosses>>

\* retry_delay: a connection that lasted and ended cleanly starts over at once;
\* one that was resumed from sleep too; anything else doubles the delay.
Settled(lasted, clean) == IF lasted /\ clean THEN 0 ELSE IF lasted THEN 1 ELSE jhFailures + 1
LoseConnection(lasted, clean) ==
    /\ jhStream \in {"connecting", "open"} /\ jhLosses < MaxLosses
    /\ lasted => jhStream = "open"
    /\ jhStream' = "waiting" /\ jhWire' = <<>>
    /\ jhFailures' = Settled(lasted, clean) /\ jhLosses' = jhLosses + 1
    /\ UNCHANGED <<jhServer, jhKnown, jhListed, jhTaught, jhChannel, jhOwes>>
Reconnect == /\ jhStream = "waiting" /\ jhStream' = "connecting"
             /\ UNCHANGED <<jhServer, jhKnown, jhListed, jhTaught, jhWire, jhChannel,
                            jhOwes, jhFailures, jhLosses>>

\* The account was signed in again or invalidated: the stream just ends.
RetireStream ==
    /\ jhStream \in {"connecting", "open"} /\ jhStream' = "ended" /\ jhWire' = <<>>
    /\ UNCHANGED <<jhServer, jhKnown, jhListed, jhTaught, jhChannel, jhOwes, jhFailures, jhLosses>>
\* jmap.stream.close.
CloseStream ==
    /\ jhStream # "off" /\ jhStream' = "off" /\ jhWire' = <<>> /\ jhChannel' = <<>>
    /\ UNCHANGED <<jhServer, jhKnown, jhListed, jhTaught, jhOwes, jhFailures, jhLosses>>

\* A refused credential ends the stream; only a new watch starts another.
RefuseStream ==
    /\ jhStream = "connecting" /\ jhLosses < MaxLosses /\ Len(jhChannel) < ChannelCap
    /\ jhStream' = "ended" /\ jhChannel' = Append(jhChannel, "rejected") /\ jhLosses' = jhLosses + 1
    /\ UNCHANGED <<jhServer, jhKnown, jhListed, jhTaught, jhWire, jhOwes, jhFailures>>

\* change_plan: an announced state that is already known is no change; the
\* stream waits while the channel is full.
ReadEvent ==
    /\ jhStream = "open" /\ jhWire # <<>>
    /\ jhWire' = Tail(jhWire)
    /\ \/ Head(jhWire) = jhKnown /\ UNCHANGED jhChannel
       \/ /\ Head(jhWire) # jhKnown /\ Len(jhChannel) < ChannelCap
          /\ jhChannel' = Append(jhChannel, "change")
    /\ UNCHANGED <<jhServer, jhKnown, jhListed, jhTaught, jhStream, jhOwes, jhFailures, jhLosses>>

\* stream.poll: everything waiting is delivered in one answer.
Poll ==
    /\ jhChannel # <<>> /\ jhChannel' = <<>>
    /\ jhOwes' = (jhOwes \/ Head(jhChannel) # "rejected")
    /\ UNCHANGED <<jhServer, jhKnown, jhListed, jhTaught, jhStream, jhWire, jhFailures, jhLosses>>

\* The panel lists again; api remembers the state the reply carried.
Refresh ==
    /\ jhOwes /\ jhOwes' = FALSE
    /\ jhListed' = jhServer /\ jhKnown' = jhServer /\ jhTaught' = FALSE
    /\ UNCHANGED <<jhServer, jhStream, jhWire, jhChannel, jhFailures, jhLosses>>

\* Any other call (a message opened, a flag set) brings the state as well.
OtherReply ==
    /\ jhKnown # jhServer
    /\ jhKnown' = jhServer /\ jhTaught' = TRUE
    /\ UNCHANGED <<jhServer, jhListed, jhStream, jhWire, jhChannel, jhOwes, jhFailures, jhLosses>>

PushNext ==
    \/ ServerChanges \/ Watch \/ Connect \/ Reconnect \/ RefuseStream \/ ReadEvent \/ Poll
    \/ Refresh \/ OtherReply
    \/ RetireStream \/ CloseStream
    \/ \E lasted, clean \in BOOLEAN : LoseConnection(lasted, clean)
PushSpec == PushInit /\ [][PushNext]_pushVars

------------------------------------
Quiet == jhStream = "open" /\ jhWire = <<>> /\ jhChannel = <<>> /\ ~jhOwes

\* docs/MAILBOXES.md:57: "a message that lands on the server is in the list
\* about a second later": once every announced event was taken in, the panel
\* has listed what the server holds.
PushReachesList == Quiet => jhListed = jhServer

\* The same, when no other reply told the backend of the new state first: mail
\* that arrives between two connections, or while a refresh runs, is listed.
PushReachesUntaught == Quiet /\ ~jhTaught => jhListed = jhServer
=============================================================================
