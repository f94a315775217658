--------------------------- MODULE BackendSession ---------------------------
(***************************************************************************)
(* The process behind `omamail serve`: backend/protocol.rs, rpc.rs,        *)
(* stdio.rs and upload.rs.  A thread reads frames, a dispatcher polls the  *)
(* requests and the notifications in one task, a writer owns the output,   *)
(* and the end of the input, a quit or a lost peer stops all three.        *)
(*                                                                         *)
(* A request may hold, across an await, a lock that the shutdown needs:    *)
(* the watch operations, the outbox state and the query accounts are one   *)
(* lock here.  Uploads are the large parameters of requests.               *)
(***************************************************************************)
EXTENDS Integers, Sequences, FiniteSets, SequencesExt

CONSTANTS MaxFrames,      \* bound on the frames of a session
          MaxNotices,     \* bound on its notifications
          FrameQueue,     \* mpsc::channel(16)
          ResponseQueue,  \* mpsc::channel(2)
          MaxInFlight,    \* 32
          PeerMayGo       \* whether the interface may die while the session runs

ASSUME SessionAssumption == /\ {MaxFrames, MaxNotices} \subseteq Nat
                            /\ {FrameQueue, ResponseQueue, MaxInFlight} \subseteq Nat \ {0}
                            /\ PeerMayGo \in BOOLEAN

VARIABLES peer,        \* whether the interface still reads
          reader,      \* "reading", or how the input ended: "eof", "quit", "bad" (a frame that ends the stream), "failed"
          submitted,   \* the number of frames read
          queue,       \* the frames on their way to the dispatcher
          requests,    \* frame -> its future in the dispatcher
          sessionLock, \* the request that holds the shared lock, 0: nobody
          dispatcher,  \* "serving", "stopping", "stopped"
          sending,     \* the value whose send the dispatcher awaits
          responses,   \* the values on their way to the writer
          writer,      \* "writing", "failed", "ended"
          written,     \* what the interface received, in order
          notices,     \* notifications published and not yet received
          told         \* the number of notifications ever published
sessionVars == <<peer, reader, submitted, queue, requests, sessionLock, dispatcher, sending, responses, writer, written, notices, told>>
inputVars == <<reader, submitted>>
outVars == <<responses, writer, written>>

Frames == 1..MaxFrames
Notice == 0
Nothing == -1
QuitReply == MaxFrames + 1
SessionInit ==
  /\ peer = TRUE /\ reader = "reading" /\ submitted = 0 /\ queue = <<>>
  /\ requests = [f \in Frames |-> "none"] /\ sessionLock = 0 /\ dispatcher = "serving" /\ sending = Nothing
  /\ responses = <<>> /\ writer = "writing" /\ written = <<>> /\ notices = 0 /\ told = 0

------------------------------------
(* The reader: submits whole frames, waits while the queue is full, and ends on EOF, on a truncated or oversized
   frame, on a frame that holds a quit, and when the output or the dispatcher is gone. *)
ReaderSubmits ==
  /\ reader = "reading" /\ submitted < MaxFrames
  /\ \/ dispatcher = "serving" /\ Len(queue) < FrameQueue
        /\ queue' = Append(queue, submitted + 1) /\ submitted' = submitted + 1 /\ UNCHANGED reader
     \/ dispatcher = "stopped" /\ reader' = "failed" /\ UNCHANGED <<queue, submitted>>
  /\ UNCHANGED <<peer, requests, sessionLock, dispatcher, sending, outVars, notices, told>>
ReaderEnds ==
  /\ reader = "reading"
  /\ \/ reader' \in {"eof", "bad", "quit"} /\ peer
     \/ reader' = "eof" /\ ~peer
     \/ reader' = "failed" /\ writer = "failed"
  /\ UNCHANGED <<peer, submitted, queue, requests, sessionLock, dispatcher, sending, outVars, notices, told>>

(* The dispatcher takes a frame while fewer than MaxInFlight are pending. *)
Pending == {f \in Frames : requests[f] \in {"new", "locked", "done"}}
Serving == dispatcher = "serving" /\ sending = Nothing
Accept ==
  /\ Serving /\ queue # <<>> /\ Cardinality(Pending) < MaxInFlight
  /\ requests' = [requests EXCEPT ![Head(queue)] = "new"] /\ queue' = Tail(queue)
  /\ UNCHANGED <<peer, inputVars, sessionLock, dispatcher, sending, outVars, notices, told>>

(* A request runs while the dispatcher polls it: it takes the lock or needs none; one whose deadline has passed
   ends without starting. *)
RequestStep(f) ==
  /\ Serving
  /\ \/ requests[f] = "new" /\ sessionLock = 0 /\ sessionLock' = f /\ requests' = [requests EXCEPT ![f] = "locked"]
     \/ requests[f] = "new" /\ requests' = [requests EXCEPT ![f] = "done"] /\ UNCHANGED sessionLock
     \/ requests[f] = "locked" /\ sessionLock' = 0 /\ requests' = [requests EXCEPT ![f] = "done"]
  /\ UNCHANGED <<peer, inputVars, queue, dispatcher, sending, outVars, notices, told>>

\* A finished request hands its response to the writer; until there is room nothing else is polled.
Respond(f) ==
  /\ Serving /\ requests[f] = "done"
  /\ sending' = f /\ requests' = [requests EXCEPT ![f] = "answered"]
  /\ UNCHANGED <<peer, inputVars, queue, sessionLock, dispatcher, outVars, notices, told>>
Notify ==
  /\ Serving /\ notices > 0
  /\ sending' = Notice /\ notices' = notices - 1
  /\ UNCHANGED <<peer, inputVars, queue, requests, sessionLock, dispatcher, outVars, told>>
PublishNotice ==
  /\ dispatcher # "stopped" /\ told < MaxNotices /\ notices' = notices + 1 /\ told' = told + 1
  /\ UNCHANGED <<peer, inputVars, queue, requests, sessionLock, dispatcher, sending, outVars>>

SendDone ==
  /\ sending # Nothing /\ writer = "writing" /\ Len(responses) < ResponseQueue
  /\ responses' = Append(responses, sending) /\ sending' = Nothing
  /\ UNCHANGED <<peer, inputVars, queue, requests, sessionLock, dispatcher, writer, written, notices, told>>

(* The writer is gone.  A failed response ends the scheduler, and its requests are dropped with what they hold;
   a failed notification only leaves the loop: the requests stay where they are and are polled no more. *)
SendFails ==
  /\ sending # Nothing /\ writer = "failed" /\ dispatcher = "serving"
  /\ dispatcher' = "stopping" /\ sending' = Nothing
  /\ IF sending = Notice THEN UNCHANGED <<requests, sessionLock>>
     ELSE /\ requests' = [f \in Frames |-> IF f \in Pending THEN "dropped" ELSE requests[f]]
          /\ sessionLock' = 0
  /\ UNCHANGED <<peer, inputVars, queue, outVars, notices, told>>

QueueEmpty == reader # "reading" /\ queue = <<>>
InputDone == reader # "reading" /\ queue = <<>> /\ Pending = {}
Drained ==
  /\ Serving /\ InputDone
  /\ dispatcher' = "stopping"
  /\ UNCHANGED <<peer, inputVars, queue, requests, sessionLock, sending, outVars, notices, told>>

\* mail, outbox and queries shut down, each under its lock; then the dispatcher returns and drops the rest.
Stop ==
  /\ dispatcher = "stopping" /\ sessionLock = 0
  /\ dispatcher' = "stopped" /\ queue' = <<>>
  /\ UNCHANGED <<peer, inputVars, requests, sessionLock, sending, outVars, notices, told>>

------------------------------------
WriterWrites ==
  /\ writer = "writing" /\ responses # <<>>
  /\ IF peer THEN /\ written' = Append(written, Head(responses)) /\ responses' = Tail(responses)
                  /\ UNCHANGED writer
             ELSE writer' = "failed" /\ responses' = <<>> /\ UNCHANGED written
  /\ UNCHANGED <<peer, inputVars, queue, requests, sessionLock, dispatcher, sending, notices, told>>
WriterEnds ==
  /\ writer = "writing" /\ responses = <<>> /\ dispatcher = "stopped"
  /\ writer' = "ended"
  /\ UNCHANGED <<peer, inputVars, queue, requests, sessionLock, dispatcher, sending, responses, written, notices, told>>

Joined == reader # "reading" /\ dispatcher = "stopped" /\ writer \in {"ended", "failed"}
Exited == Joined /\ (reader \in {"eof", "failed"} \/ writer = "failed" \/ ~peer \/ (written # <<>> /\ Last(written) = QuitReply))
(* After the threads are joined the main thread answers the frame that ended the stream: the quit, or an error. *)
FinalReply ==
  /\ Joined /\ ~Exited
  /\ written' = Append(written, QuitReply)
  /\ UNCHANGED <<peer, inputVars, queue, requests, sessionLock, dispatcher, sending, responses, writer, notices, told>>

PeerGoes ==
  /\ PeerMayGo /\ peer /\ peer' = FALSE
  /\ UNCHANGED <<inputVars, queue, requests, sessionLock, dispatcher, sending, outVars, notices, told>>

SessionNext ==
  \/ ReaderSubmits \/ ReaderEnds \/ Accept \/ (\E f \in Frames : RequestStep(f) \/ Respond(f))
  \/ Notify \/ PublishNotice \/ SendDone \/ SendFails \/ Drained \/ Stop
  \/ WriterWrites \/ WriterEnds \/ FinalReply \/ PeerGoes

(* Every thread runs, a request ends by its own deadlines, and a lost peer is seen by the reader. *)
SessionProgress == \/ ReaderEnds /\ (~peer \/ writer = "failed")
                   \/ Accept \/ (\E f \in Frames : RequestStep(f) \/ Respond(f)) \/ Notify
                   \/ SendDone \/ SendFails \/ Drained \/ Stop \/ WriterWrites \/ WriterEnds \/ FinalReply
SessionSafety == SessionInit /\ [][SessionNext]_sessionVars
SessionSpec == SessionSafety /\ WF_sessionVars(SessionProgress)

------------------------------------
SessionTypeOK ==
  /\ reader \in {"reading", "eof", "bad", "quit", "failed"} /\ submitted \in 0..MaxFrames
  /\ Len(queue) <= FrameQueue /\ Len(responses) <= ResponseQueue
  /\ requests \in [Frames -> {"none", "new", "locked", "done", "answered", "dropped"}] /\ sessionLock \in 0..MaxFrames
  /\ dispatcher \in {"serving", "stopping", "stopped"} /\ writer \in {"writing", "failed", "ended"}
  /\ sending \in {Nothing, Notice} \cup Frames /\ Cardinality(Pending) <= MaxInFlight

(* BACKEND.md:87: EOF and quit drain accepted work.  While the interface reads, the process ends only after
   every frame it took was answered, once. *)
AnsweredOnce == /\ \A m, n \in DOMAIN written : written[m] = written[n] /\ written[m] # Notice => m = n
                /\ Exited /\ peer => \A f \in 1..submitted : \E n \in DOMAIN written : written[n] = f

(* protocol.rs: nothing is written after the answer to a quit, not even by a watch that is still running. *)
QuitIsLast == [][written # <<>> /\ Last(written) = QuitReply => written' = written]_sessionVars

(* The end of the input ends the process, however full the queues are when it comes. *)
SessionEnds == (reader # "reading" /\ peer) ~> (Exited \/ ~peer)
=============================================================================
