----------------------------- MODULE CacheFiles -----------------------------
(***************************************************************************)
(* The disposable caches of omamail.  On disk: body and resource files     *)
(* under one budget (cache/mod.rs, resource.rs, disk.rs), every operation  *)
(* under the OPERATIONS lock, with writes that can be cancelled between    *)
(* the reservation and the rename and a process that can die inside one.   *)
(* In memory: the rendered messages (cache/render.rs).                     *)
(***************************************************************************)
EXTENDS Integers, Sequences, FiniteSets, FiniteSetsExt, SequencesExt, Ranks

CONSTANTS FAccounts, CacheIds, Sizes,
          DiskLimit,      \* MAX_DISK_BYTES, 256 MiB
          DiskEntries,    \* MAX_DISK_ENTRIES, 4096
          MaxBody,        \* MAX_BODY, 16 MiB
          DirEntries,     \* MAX_BODIES, 1000
          RenderLimit, RenderPerAccount, RenderEntries,
          MaxClock        \* bound on the writes and reads that stamp a file

ASSUME FilesAssumption == /\ {DiskLimit, DiskEntries, MaxBody, DirEntries, RenderLimit, RenderPerAccount,
                              RenderEntries, MaxClock} \subseteq Nat
                          /\ Sizes \subseteq Nat \ {0}
                          /\ 2 * MaxBody <= DiskLimit /\ DiskEntries >= 2
                          /\ RenderPerAccount >= 1 /\ RenderEntries >= 1
                          /\ IsFiniteSet(FAccounts) /\ IsFiniteSet(CacheIds)

VARIABLES cached,    \* the files: kind, account, id (a temporary file keeps its target's), size, time, temporary or not
          clock,
          write,    \* the write that holds OPERATIONS
          rendered, \* the entries of the render cache, the oldest first
          bytes     \* its byte counter
diskVars == <<cached, clock, write>>
renderVars == <<rendered, bytes>>
filesVars == <<cached, clock, write, rendered, bytes>>

Kinds == {"bodies", "resources"}
NoWrite == [at |-> "none"]
FilesInit == cached = {} /\ clock = 0 /\ write = NoWrite /\ rendered = <<>> /\ bytes = 0

TotalSize(set) == Total([f \in set |-> f.size])
Is(f, kind, a, i) == ~f.temp /\ f.kind = kind /\ f.account = a /\ f.id = i
Entries(kind, a) == {f \in cached : f.kind = kind /\ f.account = a /\ ~f.temp}
Oldest(set, n) == CHOOSE old \in SUBSET set : Cardinality(old) = n /\ \A f \in old, g \in set \ old : f.at <= g.at

(* reserve: the oldest files go, the protected one never, until the new bytes and the new entry fit; what is
   gone stays gone if they do not. *)
FitsBytes(set, size) == TotalSize(set) + size <= DiskLimit
FitsDisk(set, size) == TotalSize(set) + size <= DiskLimit /\ Cardinality(set) + 1 <= DiskEntries
AllSpare(kind, a, i) == cached
Spare(kind, a, i) == {f \in cached : ~Is(f, kind, a, i)}
Reserved(kind, a, i, size) ==
  LET spare == Spare(kind, a, i)
      n == CHOOSE n \in 0..Cardinality(spare) :
             /\ n = Cardinality(spare) \/ FitsDisk(cached \ Oldest(spare, n), size)
             /\ \A m \in 0..(n - 1) : ~FitsDisk(cached \ Oldest(spare, m), size)
  IN cached \ Oldest(spare, n)

\* bodyPut, put_upload, resourcePut and put_guarded, up to the reservation.
PutBegin(kind, a, i, size) ==
  /\ write = NoWrite /\ size <= MaxBody /\ clock < MaxClock
  /\ cached' = Reserved(kind, a, i, size)
  /\ write' = IF FitsDisk(cached', size) THEN [at |-> "reserved", kind |-> kind, account |-> a, id |-> i, size |-> size]
                                    ELSE NoWrite
  /\ UNCHANGED <<clock, renderVars>>

\* Only a resource write has a live flag; it is looked at once more before the file is made.
PutCancelled ==
  /\ write.at = "reserved" /\ write.kind = "resources"
  /\ write' = NoWrite
  /\ UNCHANGED <<cached, clock, renderVars>>

Target(temp, at) == [kind |-> write.kind, account |-> write.account, id |-> write.id, size |-> write.size, temp |-> temp, at |-> at]
PutTemporary ==
  /\ write.at = "reserved"
  /\ cached' = cached \cup {Target(TRUE, clock + 1)} /\ clock' = clock + 1
  /\ write' = [write EXCEPT !.at = "temporary"]
  /\ UNCHANGED renderVars

\* The rename, and the trim of the directory to the newest entries.
PutRename ==
  /\ write.at = "temporary"
  /\ LET others == {f \in Entries(write.kind, write.account) : f.id # write.id}
         extra == Oldest(others, Max({0, Cardinality(others) - (DirEntries - 1)}))
     IN cached' = {f \in cached : /\ f # Target(TRUE, clock) /\ f \notin extra
                                /\ ~Is(f, write.kind, write.account, write.id)} \cup {Target(FALSE, clock)}
  /\ write' = NoWrite
  /\ UNCHANGED <<clock, renderVars>>

\* A read of a body or a resource, and bodyTouch, stamp the file.
Touch(f) ==
  /\ write = NoWrite /\ ~f.temp /\ clock < MaxClock
  /\ cached' = (cached \ {f}) \cup {[f EXCEPT !.at = clock + 1]} /\ clock' = clock + 1
  /\ UNCHANGED <<write, renderVars>>

\* bodyClear removes both kinds, resourceClear one; temporary files stay.
Clear(a, kinds) ==
  /\ write = NoWrite
  /\ cached' = cached \ UNION {Entries(kind, a) : kind \in kinds}
  /\ UNCHANGED <<clock, write, renderVars>>

Crash == /\ write # NoWrite /\ write' = NoWrite
         /\ rendered' = <<>> /\ bytes' = 0
         /\ UNCHANGED <<cached, clock>>

------------------------------------
(* The render cache.  An entry is found under its account, message, source and options; a hit makes it the newest. *)
RenderGet(n) ==
  /\ rendered' = Append(RemoveAt(rendered, n), rendered[n])
  /\ UNCHANGED <<bytes, diskVars>>

RenderSize(seq) == Total([n \in DOMAIN seq |-> seq[n].size])
RenderedOf(seq, a) == {n \in DOMAIN seq : seq[n].account = a}
Without(seq, a, ids) == Picked(seq, {n \in DOMAIN seq : ~(seq[n].account = a /\ seq[n].id \in ids)})

\* The oldest entries of the account go, then the oldest of all, until there is room.
RoomForOwn(seq, a) == Longest({s \in WithoutOldest(seq, RenderedOf(seq, a)) : Cardinality(RenderedOf(s, a)) < RenderPerAccount})
RoomForAll(seq, size) == Longest({s \in WithoutOldest(seq, DOMAIN seq) : RenderSize(s) + size <= RenderLimit /\ Len(s) < RenderEntries})
RenderPut(a, i, key, size) ==
  /\ IF 2 * size > RenderLimit THEN UNCHANGED renderVars
     ELSE LET all == RoomForAll(RoomForOwn(Without(rendered, a, {i}), a), size)
          IN /\ rendered' = Append(all, [account |-> a, id |-> i, key |-> key, size |-> size])
             /\ bytes' = bytes - (RenderSize(rendered) - RenderSize(all)) + size
  /\ UNCHANGED diskVars

RenderInvalidate(a, ids) ==
  /\ rendered' = Without(rendered, a, ids)
  /\ bytes' = bytes - (RenderSize(rendered) - RenderSize(rendered'))
  /\ UNCHANGED diskVars

DiskNext == \/ \E kind \in Kinds, a \in FAccounts, i \in CacheIds, size \in Sizes : PutBegin(kind, a, i, size)
            \/ PutCancelled \/ PutTemporary \/ PutRename \/ Crash
            \/ \E f \in cached : Touch(f)
            \/ \E a \in FAccounts, kinds \in {{"resources"}, Kinds} : Clear(a, kinds)
RenderNext == \/ \E n \in DOMAIN rendered : RenderGet(n)
              \/ \E a \in FAccounts, i \in CacheIds, key \in {1, 2}, size \in Sizes : RenderPut(a, i, key, size)
              \/ \E a \in FAccounts : RenderInvalidate(a, CacheIds) \/ \E i \in CacheIds : RenderInvalidate(a, {i})
FilesNext == DiskNext \/ RenderNext
FilesSpec == FilesInit /\ [][FilesNext]_filesVars

------------------------------------
(* Types. *)
FilesTypeOK == /\ cached \subseteq [kind : Kinds, account : FAccounts, id : CacheIds, size : Sizes, at : 1..MaxClock, temp : BOOLEAN]
               /\ write.at \in {"none", "reserved", "temporary"} /\ clock \in 0..MaxClock /\ bytes \in Nat

(* BACKEND.md: bodies and resources share one quota, and the temporary files of interrupted writes count.  The
   budget holds at every moment, also while the old and the new copy of an entry are both there and after any
   number of crashes in the middle of a write. *)
BudgetHolds == TotalSize(cached) <= DiskLimit /\ Cardinality(cached) <= DiskEntries

(* The old copy of an entry is there until the rename of the new one, so that a write that is cancelled or cut
   short by a crash loses nothing: the reservation for an entry never removes that entry. *)
OldCopyKept == [][write'.at # "none" =>
                    \A f \in cached : Is(f, write'.kind, write'.account, write'.id) => f \in cached']_filesVars
(* Only the oldest files make room: whatever a reservation keeps was used after everything it removed, except
   the entry that is being written. *)
OldestGoFirst == [][write = NoWrite /\ write'.at = "reserved" =>
                      \A f \in cached \ cached', g \in cached' :
                        f.at <= g.at \/ Is(g, write'.kind, write'.account, write'.id)]_filesVars

(* The byte counter of the render cache is the sum of its entries whatever was put, evicted and invalidated, and
   no account and no message holds more than its share. *)
RenderAccounts == /\ bytes = RenderSize(rendered) /\ bytes <= RenderLimit /\ Len(rendered) <= RenderEntries
                  /\ \A a \in FAccounts : Cardinality(RenderedOf(rendered, a)) <= RenderPerAccount
                  /\ \A m, n \in DOMAIN rendered :
                       rendered[m].account = rendered[n].account /\ rendered[m].id = rendered[n].id => m = n
=============================================================================
