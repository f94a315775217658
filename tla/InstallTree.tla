---------------------------- MODULE InstallTree ----------------------------
(***************************************************************************)
(* shell/scripts/install-tree-transaction.py: the leaves of a staged tree  *)
(* replace those of the installed one, one after the other.  What a leaf   *)
(* replaces is moved to a backup beside the tree; an error on the way puts *)
(* everything back, and the backup is deleted in either case.  Any call    *)
(* may fail, an interrupt from the keyboard may come between any two of    *)
(* them, and the process may be killed (which stands for an interrupt of   *)
(* the deletion of the backup, too).                                       *)
(*                                                                         *)
(* Left out: the directories that are made and removed again, and the      *)
(* temporary name a leaf is copied under before it is renamed in place.    *)
(***************************************************************************)
EXTENDS Naturals, Sequences

CONSTANTS MaxLeaves,   \* leaves of the staged tree, in their order
          MaxTroubles  \* errors and interrupts

ASSUME TreeAssumption == MaxLeaves \in Nat /\ MaxTroubles \in Nat

VARIABLES itOld,       \* the leaves that were installed before
          itDisk,      \* what each leaf of the installed tree is
          itBackup,    \* the leaves whose old content is in the backup
          itReplaced,  \* what the transaction remembers to put back: the leaf, and whether it was saved
          itPc, itAt,  \* where the transaction is, and at which leaf
          itTroubles,  \* history: errors and interrupts so far
          itGap        \* history: an interrupt came between a move and its entry in itReplaced
treeVars == <<itOld, itDisk, itBackup, itReplaced, itPc, itAt, itTroubles, itGap>>

Leaves == 1..MaxLeaves
Before(l) == IF l \in itOld THEN "old" ELSE "none"

TreeInit ==
    /\ itOld \in SUBSET Leaves /\ itDisk = [l \in Leaves |-> Before(l)] /\ itBackup = {} /\ itReplaced = <<>>
    /\ itPc = "leaf" /\ itAt = 1 /\ itTroubles = 0 /\ itGap = FALSE

------------------------------------
(* install_tree *)
MoveAway ==
    /\ itPc = "leaf" /\ itAt <= MaxLeaves
    /\ IF itDisk[itAt] = "none" THEN UNCHANGED <<itDisk, itBackup>>
       ELSE itBackup' = itBackup \cup {itAt} /\ itDisk' = [itDisk EXCEPT ![itAt] = "none"]
    /\ itPc' = "remember"
    /\ UNCHANGED <<itOld, itReplaced, itAt, itTroubles, itGap>>
Remember ==
    /\ itPc = "remember" /\ itReplaced' = Append(itReplaced, [leaf |-> itAt, saved |-> itAt \in itBackup]) /\ itPc' = "copy"
    /\ UNCHANGED <<itOld, itDisk, itBackup, itAt, itTroubles, itGap>>
CopyLeaf ==
    /\ itPc = "copy" /\ itDisk' = [itDisk EXCEPT ![itAt] = "new"]
    /\ itAt' = itAt + 1 /\ itPc' = "leaf"
    /\ UNCHANGED <<itOld, itBackup, itReplaced, itTroubles, itGap>>
AllReplaced ==
    /\ itPc = "leaf" /\ itAt > MaxLeaves /\ itPc' = "dropNew"
    /\ UNCHANGED <<itOld, itDisk, itBackup, itReplaced, itAt, itTroubles, itGap>>

\* An error of a call, or an interrupt, sends the transaction to its rollback.  Between the move and its entry no call
\* is made that could fail, but an interrupt may come.
Trouble ==
    /\ itPc \in {"leaf", "remember", "copy"} /\ itTroubles < MaxTroubles
    /\ itPc' = "undo" /\ itTroubles' = itTroubles + 1 /\ itGap' = (itPc = "remember" /\ itAt \in itBackup)
    /\ UNCHANGED <<itOld, itDisk, itBackup, itReplaced, itAt>>
LatestEntry == itReplaced[Len(itReplaced)]
\* The newest entry first: what is there goes, and what was saved comes back.
Unlink ==
    /\ itPc = "undo" /\ itReplaced # <<>> /\ itPc' = "restore"
    /\ itDisk' = [itDisk EXCEPT ![LatestEntry.leaf] = "none"]
    /\ UNCHANGED <<itOld, itBackup, itReplaced, itAt, itTroubles, itGap>>
Restore ==
    /\ itPc = "restore" /\ itPc' = "undo"
    /\ IF LatestEntry.saved THEN itDisk' = [itDisk EXCEPT ![LatestEntry.leaf] = "old"] /\ itBackup' = itBackup \ {LatestEntry.leaf}
       ELSE UNCHANGED <<itDisk, itBackup>>
    /\ itReplaced' = SubSeq(itReplaced, 1, Len(itReplaced) - 1)
    /\ UNCHANGED <<itOld, itAt, itTroubles, itGap>>
RolledBack ==
    /\ itPc = "undo" /\ itReplaced = <<>> /\ itPc' = "dropOld"
    /\ UNCHANGED <<itOld, itDisk, itBackup, itReplaced, itAt, itTroubles, itGap>>
\* A second error leaves the rollback where it is.
RollbackFails ==
    /\ itPc \in {"undo", "restore"} /\ itTroubles < MaxTroubles /\ itTroubles' = itTroubles + 1 /\ itPc' = "dropHalf"
    /\ UNCHANGED <<itOld, itDisk, itBackup, itReplaced, itAt, itGap>>

\* finally: the backup goes, leaf by leaf, whatever happened.
DropBackup ==
    /\ itPc \in {"dropNew", "dropOld", "dropHalf"}
    /\ IF itBackup = {} THEN itPc' = (CASE itPc = "dropNew" -> "new" [] itPc = "dropOld" -> "old" [] OTHER -> "half") /\ UNCHANGED itBackup
       ELSE \E l \in itBackup : itBackup' = itBackup \ {l} /\ UNCHANGED itPc
    /\ UNCHANGED <<itOld, itDisk, itReplaced, itAt, itTroubles, itGap>>
TreeKilled ==
    /\ itPc \notin {"new", "old", "half", "killed"} /\ itPc' = "killed"
    /\ UNCHANGED <<itOld, itDisk, itBackup, itReplaced, itAt, itTroubles, itGap>>

TreeNext == \/ MoveAway \/ Remember \/ CopyLeaf \/ AllReplaced \/ Trouble
            \/ Unlink \/ Restore \/ RolledBack \/ RollbackFails \/ DropBackup \/ TreeKilled
TreeSpec == TreeInit /\ [][TreeNext]_treeVars

------------------------------------
\* A transaction that ends ended on one side: all of the new tree, or, after one
\* error, exactly the old one; an interrupt in the gap is the exception.
TreeIsWhole ==
    /\ itPc = "new" => \A l \in Leaves : itDisk[l] = "new"
    /\ itPc = "old" /\ ~itGap => \A l \in Leaves : itDisk[l] = Before(l)

\* Until the whole tree is new, an old leaf is in its place or in the backup,
\* even where the process is killed.  The two exceptions are those of the code:
\* the gap, and a rollback that fails in turn, after which the backup goes too.
NothingOldIsLost ==
    (itTroubles <= 1 /\ ~itGap) =>
        \A l \in itOld : itDisk[l] = "old" \/ l \in itBackup \/ \A k \in Leaves : itDisk[k] = "new"
TreeHolds == TreeIsWhole /\ NothingOldIsLost
=============================================================================
