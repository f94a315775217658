------------------------------ MODULE OutboxInv ------------------------------
(***************************************************************************)
(* The inductive strengthening of the outbox's safety properties.  The     *)
(* idea: call a copy of the queue live while it may still become what the  *)
(* outbox or a successor believes.  Every live copy fits what has really   *)
(* happened to each send, and a write can stop being live only by being    *)
(* overtaken by a newer one that is on disk.                               *)
(***************************************************************************)
EXTENDS Outbox

Held == lock.op # "free"

\* Sequences identify writes; a holder's write is the newest; once it is on
\* disk nothing older can follow it.
WriterInv ==
  /\ committed <= issued
  /\ \A w \in writes : w.seq <= issued
  /\ \A w, x \in writes : w.seq = x.seq => w = x
  /\ Held /\ lock.result = "writing" =>
       /\ committed < issued
       /\ [seq |-> issued, value |-> lock.next] \in writes
  /\ Held /\ lock.result = "saved" => committed = issued /\ disk = lock.next
  /\ Held /\ lock.result = "error" => \A w \in writes : w.seq # issued

\* What a call saves, relative to the memory it started from.
Evolves(v, next, m, promise) ==
  \A n \in Sends :
    /\ v[n].state # "absent" =>
         next[n].state # "absent" /\ next[n].body = v[n].body
    /\ v[n].state = "sending" => next[n].state = "sending"
    /\ v[n].state \in Terminal => next[n].state = v[n].state
    /\ next[n].state = "queued" =>
         v[n].state = "queued" \/ (n = m /\ promise # {})

LockInv ==
  /\ lock.op = "load" =>
       /\ ~loaded
       /\ \A m \in Sends : lock.next[m].state \notin {"queued", "sending"}
  /\ lock.op \notin {"free", "load"} => loaded
  /\ lock.op = "snapshot" =>
       lock.next = mem /\ mem[lock.send].state \in Terminal
  /\ lock.op = "commit" =>
       /\ Evolves(mem, lock.next, lock.send, lock.promise)
       /\ \A b \in lock.promise :
            lock.next[lock.send].state # "absent" /\ lock.next[lock.send].body = b
  /\ lock.op = "claim" =>
       /\ lock.next = [mem EXCEPT ![lock.send].state = "sending"]
       /\ mem[lock.send].state = "queued"
       /\ AccountOf[lock.send] = lock.account
       /\ pc[lock.account] = "ready"
  /\ lock.op = "settle" => pc[lock.account] = "sending"
  /\ lock.op = "stop" => stage # "up"

Settling(a) == lock.op = "settle" /\ lock.account = a
Claiming(a) == lock.op = "claim"  /\ lock.account = a

\* A worker that delivers holds the one "sending" entry it claimed, and
\* shutdown does not pass it by.
WorkerInv ==
  /\ \A a \in Accounts : pc[a] # "idle" => loaded
  /\ \A a \in Accounts : pc[a] = "sending" =>
       /\ AccountOf[cur[a]] = a
       /\ Settling(a) \/ mem[cur[a]].state = "sending"
  /\ stage # "up" =>
       \A a \in Accounts : pc[a] = "sending" \/ Claiming(a) => a \in doomed

WireInv ==
  \A m \in Sends :
    attempts[m] <= 1 /\ (attempts[m] = 0 <=> wire[m] = "none")

\* The entry `e` of send `m` is consistent with what happened to it.
Fits(e, m) ==
  /\ attempts[m] > 0 => e.state \notin {"absent", "queued", "cancelled"}
  /\ e.state = "failed" => wire[m] \in {"none", "refused"}
  /\ e.state = "sent" => wire[m] = "accepted"
  /\ \A b \in promised[m] : e.state # "absent" /\ e.body = b
  /\ told[m] # "none" => told[m] \in Terminal /\ e.state = told[m]
  /\ e.state # "absent" => e.payload \/ e.state = "sent" \/ e.ack

Sound(v) == \A m \in Sends : Fits(v[m], m)

\* `v` has everything memory has, with the same bodies.
Agrees(v) ==
  \A m \in Sends : mem[m].state # "absent" =>
    v[m].state # "absent" /\ v[m].body = mem[m].body

LiveInv ==
  /\ Sound(disk)
  /\ \A w \in writes : w.seq > committed => Sound(w.value)
  /\ loaded => Sound(mem)

AgreeInv ==
  loaded => /\ Agrees(disk)
            /\ \A w \in writes : w.seq > committed => Agrees(w.value)

FreshInv ==
  loaded => \A m \in Sends : mem[m].state = "queued" => m \in fresh

\* What delivery, answers and outcomes rest on.
CoreInv ==
  /\ WriterInv
  /\ LockInv
  /\ WorkerInv
  /\ WireInv
  /\ LiveInv
  /\ AgreeInv
  /\ FreshInv
  /\ Honest(mem)

------------------------------------
(* What every copy of the queue keeps to, also the one a lost write holds. *)

\* No more payloads than the limit, and every place in the list below its length.
Good(v) ==
  /\ Cardinality({m \in Sends : v[m].payload}) <= MaxRecoverable
  /\ \A m \in Present(v) : v[m].pos < Cardinality(Present(v))

CopiesInv == /\ Good(mem) /\ Good(disk) /\ Good(lock.next)
             /\ \A w \in writes : Good(w.value)

\* A call that saves takes messages out of the line or puts one at its end; the
\* list a process is loading is the one in the file.
Withdraws(v, next) ==
  \A n \in Sends : /\ next[n].pos = v[n].pos
                   /\ \/ next[n].state = v[n].state
                      \/ v[n].state = "queued" /\ next[n].state = "cancelled"
Joins(v, next, m) ==
  /\ v[m].state = "absent" /\ next[m].state = "queued"
  /\ next[m].pos = Cardinality(Present(v))
  /\ \A n \in Sends \ {m} : next[n] = v[n]

LineInv ==
  /\ lock.op = "commit" => \/ Withdraws(mem, lock.next)
                           \/ Joins(mem, lock.next, lock.send)
  /\ lock.op = "claim" => IsHead(mem, lock.account, lock.send)
  /\ ~loaded => \A w \in writes : Present(w.value) = Present(disk)

\* The inductive invariant.
IInv == CoreInv /\ CopiesInv /\ LineInv /\ OneWorker

------------------------------------
(* The outbox implements the abstract line of messages. *)

\* While a queue is loaded, what waits is what memory has queued, in the order
\* of the list.  Before that (and after a crash) nothing waits: whatever the
\* file still calls queued is already out of the line.
Waiting == IF loaded THEN {m \in Sends : mem[m].state = "queued"} ELSE {}

Ahead == {p \in Waiting \X Waiting :
            AccountOf[p[1]] = AccountOf[p[2]] /\ mem[p[1]].pos < mem[p[2]].pos}

Closed ==
  IF loaded
    THEN {m \in Sends : mem[m].state \notin {"absent", "queued"}}
    ELSE Present(disk)

Line == INSTANCE MailQueue WITH
          waiting   <- Waiting,
          ahead     <- Ahead,
          closed    <- Closed,
          attempted <- {m \in Sends : attempts[m] > 0}

\* Every step of the outbox is a step of the abstract queue or changes nothing
\* it shows: deliveries start in account order, from the front, once each, and
\* neither a restart, a lost write nor a dropped call puts a message back.
ImplementsMailQueue == Line!Spec
=============================================================================
