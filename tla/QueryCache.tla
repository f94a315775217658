----------------------------- MODULE QueryCache -----------------------------
(***************************************************************************)
(* The query cache of a session: cache/query.rs over cache/store.rs.  Each *)
(* account has one store in memory behind a lock of its own, saved to disk *)
(* 800 ms after a change; the windows of the interface change it under the *)
(* generation their restore returned, and background jobs put first pages  *)
(* into it through a blocking write that cancelling a job does not stop.   *)
(*                                                                         *)
(* A store is its owner and, for each key, the number of the change that   *)
(* wrote the entry; `ui` is the number of the last change a window made.   *)
(***************************************************************************)
EXTENDS Integers, FiniteSets, FiniteSetsExt

CONSTANTS QAccounts, Windows, Keys, Owners,
          MaxAccounts,   \* MAX_ACCOUNTS, 16
          MaxPages,      \* entries().take(12)
          MaxChanges     \* bound on the changes and restores of a run

ASSUME QueryAssumption == {MaxAccounts, MaxPages, MaxChanges} \subseteq Nat \ {0} /\ IsFiniteSet(Keys)

NoOwner == "none"
EmptyStore == [owner |-> NoOwner, pages |-> [k \in Keys |-> 0], ui |-> 0]
Absent == [in |-> FALSE, store |-> EmptyStore, gen |-> 0, loaded |-> FALSE, dirty |-> FALSE, saving |-> FALSE]
NoFetch == [at |-> "none", next |-> EmptyStore]

VARIABLES mem,       \* account -> its State in the map
          disk,      \* account -> the store file
          serial, changes,
          held,      \* window -> account -> the generation it was given
          fetch,     \* account -> the prefetch of its warm job
          last,      \* account -> the number of the last change accepted from a window, and that window
          overtaken  \* accounts whose file a timed-out prefetch wrote back to an older store
queryVars == <<mem, disk, serial, changes, held, fetch, last, overtaken>>

QueryInit == /\ mem = [a \in QAccounts |-> Absent] /\ disk = [a \in QAccounts |-> EmptyStore]
             /\ serial = 0 /\ changes = 0
             /\ held = [w \in Windows |-> [a \in QAccounts |-> 0]]
             /\ fetch = [a \in QAccounts |-> NoFetch]
             /\ last = [a \in QAccounts |-> [ui |-> 0, window |-> NoOwner, restored |-> NoOwner]]
             /\ overtaken = {}

Pages(s) == {k \in Keys : s.pages[k] # 0}
\* normalize_store keeps the newest entries.
Normalized(s) ==
  [s EXCEPT !.pages = [k \in Keys |-> IF Cardinality({j \in Keys : s.pages[j] > s.pages[k]}) < MaxPages THEN s.pages[k] ELSE 0]]

\* A store file of another owner is not shown to this account.
Foreign(a, s) == s.owner # NoOwner /\ s.owner # a
Loaded(a) == IF mem[a].loaded THEN mem[a].store
             ELSE IF Foreign(a, disk[a]) THEN [EmptyStore EXCEPT !.ui = disk[a].ui] ELSE disk[a]

Locked(a) == fetch[a].at \in {"write", "written"}
EvictsDirty(b) == mem[b].in /\ ~Locked(b) /\ ~mem[b].saving
Evictable(b) == mem[b].in /\ ~Locked(b) /\ ~mem[b].dirty /\ ~mem[b].saving

(* The map with account a in it: one idle, saved entry makes room (the code takes the least recently used one),
   and no entry does when all are busy. *)
Entered(a) == IF mem[a].in THEN {mem}
              ELSE LET new == [mem EXCEPT ![a] = [Absent EXCEPT !.in = TRUE]]
                   IN IF Cardinality({b \in QAccounts : mem[b].in}) < MaxAccounts THEN {new}
                      ELSE {[new EXCEPT ![b] = Absent] : b \in {b \in QAccounts : Evictable(b)}}

------------------------------------
QueryRestore(w, a) ==
  /\ ~Locked(a) /\ serial < MaxChanges
  /\ \E map \in Entered(a) :
       mem' = [map EXCEPT ![a].store = Loaded(a), ![a].loaded = TRUE, ![a].gen = serial + 1]
  /\ serial' = serial + 1
  /\ held' = [held EXCEPT ![w][a] = serial + 1]
  /\ last' = [last EXCEPT ![a].restored = w]
  /\ UNCHANGED <<disk, changes, fetch, overtaken>>

\* Any other call enters the account too, and is refused unless it carries the generation in force.
Accepts(w, a) == mem[a].loaded /\ held[w][a] # 0 /\ held[w][a] = mem[a].gen
Refused(w, a) ==
  /\ ~Locked(a) /\ ~Accepts(w, a) /\ ~mem[a].in
  /\ mem' \in Entered(a)
  /\ UNCHANGED <<disk, serial, changes, held, fetch, last, overtaken>>

Put(s, k, n) == [s EXCEPT !.pages[k] = n]
Invalidated(s, ks) == [s EXCEPT !.pages = [k \in Keys |-> IF ks = {} \/ k \in ks THEN 0 ELSE s.pages[k]]]
Bound(s, owner) == [(IF s.owner \in {NoOwner, owner} THEN s ELSE EmptyStore) EXCEPT !.owner = owner]

\* queryPut (queryLabels and querySession write entries of their own in the same way), queryProfile, queryBind,
\* queryClear and queryInvalidate.
StoreEdits(s, n) == {Put(s, k, n) : k \in Keys} \cup {[s EXCEPT !.owner = o] : o \in Owners}
               \cup {Bound(s, o) : o \in Owners} \cup {EmptyStore}
               \cup {Invalidated(s, ks) : ks \in SUBSET Keys}

QueryChange(w, a) ==
  /\ ~Locked(a) /\ Accepts(w, a) /\ changes < MaxChanges
  /\ changes' = changes + 1
  /\ \E next \in StoreEdits(mem[a].store, changes + 1) :
       mem' = [mem EXCEPT ![a].store = [Normalized(next) EXCEPT !.ui = changes + 1],
                          ![a].dirty = TRUE, ![a].saving = TRUE]
  /\ last' = [last EXCEPT ![a].ui = changes + 1, ![a].window = w]
  /\ UNCHANGED <<disk, serial, held, fetch, overtaken>>

\* persist, under the account's lock; a write that fails leaves the store dirty.
Persist(a, ok) == IF mem[a].dirty /\ ok
                  THEN disk' = [disk EXCEPT ![a] = mem[a].store] ELSE UNCHANGED disk
Saved(a, ok) == mem[a].dirty /\ ~ok

\* The delayed saver of a change, and queryFlush.
SaverRuns(a) ==
  /\ mem[a].saving /\ ~Locked(a)
  /\ \E ok \in BOOLEAN : Persist(a, ok) /\ mem' = [mem EXCEPT ![a].dirty = Saved(a, ok), ![a].saving = FALSE]
  /\ UNCHANGED <<serial, changes, held, fetch, last, overtaken>>

QueryFlush(w, a) ==
  /\ ~Locked(a) /\ Accepts(w, a) /\ mem[a].dirty
  /\ \E ok \in BOOLEAN : Persist(a, ok) /\ mem' = [mem EXCEPT ![a].dirty = Saved(a, ok)]
  /\ UNCHANGED <<serial, changes, held, fetch, last, overtaken>>

------------------------------------
(* prefetch: under the account's lock it computes the store with the new page, hands it to a blocking write that
   holds the job's live flag, and publishes it when the write is done. *)
PrefetchBegin(a) ==
  /\ fetch[a].at = "none" /\ changes < MaxChanges
  /\ \E map \in Entered(a), k \in Keys :
       /\ mem' = [map EXCEPT ![a].store = Loaded(a), ![a].loaded = TRUE]
       /\ fetch' = [fetch EXCEPT ![a] = [at |-> "write", next |-> Normalized(Put(Loaded(a), k, changes + 1))]]
  /\ changes' = changes + 1
  /\ UNCHANGED <<disk, serial, held, last, overtaken>>

\* The blocking write; "orphan" is the write of a job whose time ran out and whose flag still stands.
PrefetchWrites(a) ==
  /\ fetch[a].at \in {"write", "orphan"}
  /\ disk' = [disk EXCEPT ![a] = fetch[a].next]
  /\ overtaken' = IF fetch[a].next.ui < disk[a].ui THEN overtaken \cup {a} ELSE overtaken
  /\ fetch' = [fetch EXCEPT ![a] = IF @.at = "write" THEN [@ EXCEPT !.at = "written"] ELSE NoFetch]
  /\ UNCHANGED <<mem, serial, changes, held, last>>

PrefetchPublishes(a) ==
  /\ fetch[a].at = "written"
  /\ mem' = [mem EXCEPT ![a].store = fetch[a].next, ![a].dirty = FALSE]
  /\ fetch' = [fetch EXCEPT ![a] = NoFetch]
  /\ UNCHANGED <<disk, serial, changes, held, last, overtaken>>

\* The job is dropped: its flag falls before its task, so a write that has not begun does nothing.
PrefetchCancelled(a) ==
  /\ fetch[a].at \in {"write", "written"}
  /\ fetch' = [fetch EXCEPT ![a] = NoFetch]
  /\ UNCHANGED <<mem, disk, serial, changes, held, last, overtaken>>

\* 180 seconds pass: the task, and with it the lock, is gone before the flag falls.
PrefetchTimesOut(a) ==
  /\ fetch[a].at = "write"
  /\ fetch' = [fetch EXCEPT ![a].at = "orphan"]
  /\ UNCHANGED <<mem, disk, serial, changes, held, last, overtaken>>
FlagFalls(a) ==
  /\ fetch[a].at = "orphan"
  /\ fetch' = [fetch EXCEPT ![a] = NoFetch]
  /\ UNCHANGED <<mem, disk, serial, changes, held, last, overtaken>>

(* The end of a session, after the requests and the jobs: every dirty store is saved, and a failure is reported
   as the session's error.  A new session starts from the files. *)
QueryShutdown ==
  /\ \A a \in QAccounts : fetch[a].at = "none"
  /\ \E a \in QAccounts : mem[a].in
  /\ \E bad \in SUBSET {a \in QAccounts : mem[a].dirty} :
       /\ disk' = [a \in QAccounts |-> IF mem[a].dirty /\ a \notin bad THEN mem[a].store ELSE disk[a]]
       /\ last' = [a \in QAccounts |-> [last[a] EXCEPT !.ui = IF a \in bad THEN disk[a].ui ELSE @, !.restored = NoOwner]]
  /\ mem' = [a \in QAccounts |-> Absent]
  /\ held' = [w \in Windows |-> [a \in QAccounts |-> 0]]
  /\ UNCHANGED <<serial, changes, fetch, overtaken>>

QueryNext == \/ \E w \in Windows, a \in QAccounts : \/ QueryRestore(w, a) \/ Refused(w, a)
                                                    \/ QueryChange(w, a) \/ QueryFlush(w, a)
             \/ \E a \in QAccounts : \/ SaverRuns(a) \/ PrefetchBegin(a) \/ PrefetchWrites(a) \/ PrefetchPublishes(a)
                                     \/ PrefetchCancelled(a) \/ PrefetchTimesOut(a) \/ FlagFalls(a)
             \/ QueryShutdown

QuerySpec == QueryInit /\ [][QueryNext]_queryVars

------------------------------------
Stores == [owner : Owners \cup {NoOwner}, pages : [Keys -> 0..MaxChanges], ui : 0..MaxChanges]

(* Types, and the limits: no more accounts in memory than MAX_ACCOUNTS, no more pages in a store than 12. *)
QueryTypeOK ==
  /\ mem \in [QAccounts -> [in : BOOLEAN, store : Stores, gen : 0..MaxChanges, loaded : BOOLEAN,
                            dirty : BOOLEAN, saving : BOOLEAN]]
  /\ disk \in [QAccounts -> Stores] /\ serial \in 0..MaxChanges /\ changes \in 0..MaxChanges
  /\ fetch \in [QAccounts -> [at : {"none", "write", "written", "orphan"}, next : Stores]]
  /\ Cardinality({a \in QAccounts : mem[a].in}) <= MaxAccounts
  /\ \A a \in QAccounts : Cardinality(Pages(mem[a].store)) <= MaxPages

(* No change a window was told is accepted gets lost in memory, whatever the background jobs, the savers and the
   eviction of accounts do around it, and an account leaves memory only when its file has the change.  The one
   exception is a file that a timed-out prefetch wrote back. *)
NoLostChange == \A a \in QAccounts \ overtaken :
  IF mem[a].loaded THEN mem[a].store.ui = last[a].ui /\ (mem[a].dirty \/ disk[a].ui = last[a].ui)
                   ELSE disk[a].ui = last[a].ui

(* A change comes from the window that restored the account last: the generation of a window whose account
   was evicted, or restored by another window, is never accepted again. *)
NewestWindowOnly == [][\A a \in QAccounts : last'[a].ui > last[a].ui => last'[a].window = last[a].restored]_queryVars

(* BACKEND.md:274 calls queryFlush a durable flush: what is clean in memory is what the file holds. *)
FlushDurable == \A a \in QAccounts : mem[a].loaded /\ ~mem[a].dirty /\ ~Locked(a) => disk[a].ui = last[a].ui
=============================================================================
