------------------------------ MODULE Uploads -------------------------------
(***************************************************************************)
(* Large parameters: backend/upload.rs and the requests that consume an    *)
(* upload.  Chunks are numbered by their place in the content; appends     *)
(* come from different frames, so they arrive in any order and repeatedly. *)
(***************************************************************************)
EXTENDS Integers, Sequences, FiniteSets, FiniteSetsExt, Ranks

CONSTANTS UploadIds,     \* 1..n: upload-{sequence}
          MaxUpload,     \* MAX_UPLOAD, in chunks
          UploadSlots,   \* entries.len() >= 8
          Permits,       \* Semaphore::new(2)
          Consumers      \* the requests that consume an upload
ASSUME UploadAssumption == {MaxUpload, UploadSlots, Permits} \subseteq Nat \ {0} /\ UploadIds \subseteq Nat

VARIABLES uploads,   \* the entries of Uploads
          issued,    \* the sequence of upload ids
          consumer   \* request -> where it is, its upload and the bytes it took
uploadVars == <<uploads, issued, consumer>>

NoUpload == [size |-> 0, data |-> <<>>, open |-> FALSE]
UploadInit == /\ uploads = [u \in UploadIds |-> NoUpload] /\ issued = 0
              /\ consumer = [r \in Consumers |-> [at |-> "idle", upload |-> 0, size |-> 0, data |-> <<>>]]

Open == {u \in UploadIds : uploads[u].open}
ReservedChunks == Total([u \in Open |-> uploads[u].size])

UploadBegin(size) ==
  /\ issued + 1 \in UploadIds
  /\ size <= 2 * MaxUpload - ReservedChunks /\ Cardinality(Open) < UploadSlots
  /\ issued' = issued + 1
  /\ uploads' = [uploads EXCEPT ![issued + 1] = [size |-> size, data |-> <<>>, open |-> TRUE]]
  /\ UNCHANGED consumer

\* An append names the offset it continues; a repeated or early one is refused.
UploadAppend(u, chunk) ==
  /\ u \in Open /\ chunk - 1 = Len(uploads[u].data) /\ Len(uploads[u].data) < uploads[u].size
  /\ uploads' = [uploads EXCEPT ![u].data = Append(@, chunk)]
  /\ UNCHANGED <<issued, consumer>>

\* upload.discard, and the expiry of an entry untouched for 300 seconds.
UploadGone(u) == /\ u \in Open /\ uploads' = [uploads EXCEPT ![u] = NoUpload] /\ UNCHANGED <<issued, consumer>>

Held == {r \in Consumers : consumer[r].at \in {"permit", "running"}}
(* request.upload waits for one of two permits before it takes the bytes; storeUpload, bodyPutUpload and
   parseUpload take them at once. *)
Acquire(r, u) ==
  /\ consumer[r].at = "idle" /\ Cardinality(Held) < Permits
  /\ consumer' = [consumer EXCEPT ![r].at = "permit", ![r].upload = u]
  /\ UNCHANGED <<uploads, issued>>

Taken(u) == IF u \in Open /\ Len(uploads[u].data) = uploads[u].size THEN {uploads[u]} ELSE {}
Take(r) ==
  /\ consumer[r].at = "permit"
  /\ LET u == consumer[r].upload IN
     IF Taken(u) = {} THEN consumer' = [consumer EXCEPT ![r].at = "ended"] /\ UNCHANGED uploads
     ELSE /\ consumer' = [consumer EXCEPT ![r].at = "running", ![r].size = uploads[u].size, ![r].data = uploads[u].data]
          /\ uploads' = [uploads EXCEPT ![u] = NoUpload]
  /\ UNCHANGED issued

\* The request ends, or a Gmail request is dropped at its deadline, wherever it is: the permit comes back.
ConsumerEnds(r) ==
  /\ consumer[r].at \in {"permit", "running"}
  /\ consumer' = [consumer EXCEPT ![r].at = "ended"]
  /\ UNCHANGED <<uploads, issued>>

UploadNext == \/ \E size \in 0..MaxUpload : UploadBegin(size)
              \/ \E u \in UploadIds : UploadGone(u) \/ \E chunk \in 1..MaxUpload : UploadAppend(u, chunk)
              \/ \E r \in Consumers : Take(r) \/ ConsumerEnds(r) \/ \E u \in UploadIds : Acquire(r, u)
UploadSpec == UploadInit /\ [][UploadNext]_uploadVars

------------------------------------
(* BACKEND.md: uploads stay within their aggregate budget, and no more than two are decoded at a time. *)
UploadBudget == ReservedChunks <= 2 * MaxUpload /\ Cardinality(Open) <= UploadSlots /\ Cardinality(Held) <= Permits

(* A request runs on the whole content in order, however its chunks were repeated or reordered, and no upload
   runs twice. *)
UploadWhole == /\ \A r \in Consumers : consumer[r].at = "running" =>
                    consumer[r].data = [n \in 1..consumer[r].size |-> n]
               /\ \A r, s \in Consumers : consumer[r].at = "running" /\ consumer[s].at = "running"
                                           /\ consumer[r].upload = consumer[s].upload => r = s
=============================================================================
