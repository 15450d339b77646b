---------------------------- MODULE BranchCleanup ----------------------------
(***************************************************************************)
(* The removal of the branches of release work once the release is out     *)
(* (scripts/ga/cleanup_stale_release_work.py): a cleaner lists branches    *)
(* and pull requests, notes the commit of every stale branch, refuses      *)
(* while one has an open pull request, reads each commit again, deletes,    *)
(* looks again and writes its audit.  When something fails it creates the   *)
(* branches it has deleted once more, at the commits it noted.             *)
(*                                                                         *)
(* Developers go on pushing; calls fail, with or without effect; the       *)
(* cleaner's process may die.                                              *)
(***************************************************************************)
EXTENDS Naturals, FiniteSets

CONSTANTS
    Cleaners,    \* processes that run the cleanup
    Branches,    \* branches with a stale prefix, numbered as their names sort
    Commits,
    NoRef,
    MaxUpsets    \* bound: failing calls, deaths and what developers do

ASSUME CleanupAssumption ==
    Branches \subseteq Nat /\ IsFiniteSet(Branches) /\ NoRef \notin Commits /\ MaxUpsets \in Nat

VARIABLES
    refs,     \* per branch: its commit
    pulls,    \* branches that are the head of an open pull request
    cleaner,  \* per cleaner: where run_operation is
    removed,  \* history: pairs of a branch and the commit it had when deleted,
              \* until it is restored
    audited,  \* history: the pairs that PASS receipts name
    excused,  \* history: pairs removed by a call whose answer was lost, or of
              \* a process that died, or that were pushed after the last look
    upsets    \* how many there were

cleanupVars == <<refs, pulls, cleaner, removed, audited, excused, upsets>>

Planning == {"branches", "pulls", "tips", "refuse", "again"}
Deleting == {"look", "delete", "branchesAfter", "pullsAfter", "audit"}

\* plan: the noted commits; current: what it saw last; todo: branches the current loop has before it;
\* deleted: what it has to restore; failed: rollback_errors.
Cleaner == [at: {"idle", "restore"} \cup Planning \cup Deleting,
            plan: [Branches -> Commits \cup {NoRef}], current: Commits \cup {NoRef},
            stale: BOOLEAN,
            todo: SUBSET Branches, deleted: SUBSET Branches, failed: SUBSET Branches]
IdleCleaner == [at |-> "idle", plan |-> [b \in Branches |-> NoRef], current |-> NoRef,
                stale |-> FALSE, todo |-> {}, deleted |-> {}, failed |-> {}]

CleanupTypeOK ==
    /\ refs \in [Branches -> Commits \cup {NoRef}]
    /\ pulls \subseteq Branches
    /\ cleaner \in [Cleaners -> Cleaner]
    /\ \A c \in Cleaners : cleaner[c].at \in {"idle"} \cup Planning => cleaner[c].deleted = {}
    /\ removed \cup audited \cup excused \subseteq Branches \X Commits

CleanupInit ==
    /\ refs \in [Branches -> Commits \cup {NoRef}]
    /\ pulls = {}
    /\ cleaner = [c \in Cleaners |-> IdleCleaner]
    /\ removed = {} /\ audited = {} /\ excused = {} /\ upsets = 0

-----------------------------------------------------------------------------
Existing == {b \in Branches : refs[b] # NoRef}
CleanerAt(c, place) == cleaner[c].at = place
Works(c) == ~CleanerAt(c, "idle")
IsNext(c, b) == b \in cleaner[c].todo /\ \A d \in cleaner[c].todo : b <= d

\* The rollback goes through the deleted branches backwards.
IsLast(c, b) == b \in cleaner[c].todo /\ \A d \in cleaner[c].todo : d <= b

Becomes(c, changed) == cleaner' = [cleaner EXCEPT ![c] = changed]
Enters(c, place, todo) == Becomes(c, [cleaner[c] EXCEPT !.at = place, !.todo = todo])

\* Mutant of Fails: what was deleted stays so, and is not forgotten.
FailsUnrestored(c) == Enters(c, "idle", {})

\* An exception: before the first deletion the operation is refused, after it
\* the branches come back.
Fails(c) ==
    IF cleaner[c].at \in Deleting /\ cleaner[c].deleted # {}
    THEN Enters(c, "restore", cleaner[c].deleted)
    ELSE Becomes(c, IdleCleaner)

ReadsOnly == UNCHANGED <<refs, pulls, removed, audited, excused, upsets>>

BeginCleanup(c) == CleanerAt(c, "idle") /\ Enters(c, "branches", {}) /\ ReadsOnly

\* _collect_stale, on the answers of two calls.
ListBranches(c) == CleanerAt(c, "branches") /\ Enters(c, "pulls", Existing) /\ ReadsOnly
ListPulls(c) ==
    /\ CleanerAt(c, "pulls")
    /\ Becomes(c, [cleaner[c] EXCEPT !.at = "tips", !.stale = pulls # {}])
    /\ ReadsOnly

\* _branch_ref for every stale branch; a branch that has gone is an error.
NoteTip(c, b) ==
    /\ CleanerAt(c, "tips") /\ IsNext(c, b)
    /\ IF refs[b] = NoRef THEN Fails(c)
       ELSE Becomes(c, [cleaner[c] EXCEPT !.plan[b] = refs[b], !.todo = @ \ {b}])
    /\ ReadsOnly

Planned(c) == {b \in Branches : cleaner[c].plan[b] # NoRef}

RefuseOpenPulls(c) ==
    /\ CleanerAt(c, "tips") /\ cleaner[c].todo = {}
    /\ IF cleaner[c].stale THEN Fails(c) ELSE Enters(c, "again", Planned(c))
    /\ ReadsOnly

\* Mutant of SameTip: it is enough that the branch is there.
StillThere(c, b) == refs[b] # NoRef

SameTip(c, b) == refs[b] = cleaner[c].plan[b]

\* The plan is compared with the repository before anything is deleted.
CheckTip(c, b) ==
    /\ CleanerAt(c, "again") /\ IsNext(c, b)
    /\ IF SameTip(c, b) THEN Enters(c, "again", cleaner[c].todo \ {b}) ELSE Fails(c)
    /\ ReadsOnly

StartDeleting(c) ==
    /\ CleanerAt(c, "again") /\ cleaner[c].todo = {}
    /\ Enters(c, "look", Planned(c))
    /\ ReadsOnly

LookAgain(c, b) ==
    /\ CleanerAt(c, "look") /\ IsNext(c, b)
    /\ IF SameTip(c, b)
       THEN Becomes(c, [cleaner[c] EXCEPT !.at = "delete", !.current = refs[b]])
       ELSE Fails(c)
    /\ ReadsOnly

\* What GitHub does: the deletion is not conditional on a commit.
RefGoes(c, b) ==
    /\ refs' = [refs EXCEPT ![b] = NoRef]
    /\ pulls' = pulls \ {b}
    /\ removed' = removed \cup {<<b, refs[b]>>}
    /\ excused' = IF refs[b] = cleaner[c].current THEN excused ELSE excused \cup {<<b, refs[b]>>}

DeleteRef(c, b) ==
    /\ CleanerAt(c, "delete") /\ IsNext(c, b)
    /\ IF refs[b] = NoRef
       THEN Fails(c) /\ UNCHANGED <<refs, pulls, removed, excused>>
       ELSE /\ RefGoes(c, b)
            /\ Becomes(c, [cleaner[c] EXCEPT !.at = "look", !.current = NoRef,
                                              !.todo = @ \ {b}, !.deleted = @ \cup {b}])
    /\ UNCHANGED <<audited, upsets>>

\* Nothing stale may be left, and no pull request of it.
ListBranchesAfter(c) ==
    /\ CleanerAt(c, "look") /\ cleaner[c].todo = {}
    /\ IF Existing = {} THEN Enters(c, "pullsAfter", {}) ELSE Fails(c)
    /\ ReadsOnly
ListPullsAfter(c) ==
    /\ CleanerAt(c, "pullsAfter")
    /\ IF pulls = {} THEN Enters(c, "audit", {}) ELSE Fails(c)
    /\ ReadsOnly

\* _finalize_reserved_outputs: both files are on disk.
FinalizeAudit(c) ==
    /\ CleanerAt(c, "audit")
    /\ audited' = audited \cup {<<b, cleaner[c].plan[b]>> : b \in cleaner[c].deleted}
    /\ Becomes(c, IdleCleaner)
    /\ UNCHANGED <<refs, pulls, removed, excused, upsets>>

Restorable(c, b) == CleanerAt(c, "restore") /\ IsLast(c, b)

RefReturns(c, b) ==
    /\ refs[b] = NoRef
    /\ refs' = [refs EXCEPT ![b] = cleaner[c].plan[b]]
    /\ removed' = removed \ {<<b, cleaner[c].plan[b]>>}

NotRestored(c, b) == Becomes(c, [cleaner[c] EXCEPT !.todo = @ \ {b}, !.failed = @ \cup {b}])

\* A branch that exists again cannot be created: it is named in the error.
RestoreRef(c, b) ==
    /\ Restorable(c, b)
    /\ \/ /\ RefReturns(c, b)
          /\ Becomes(c, [cleaner[c] EXCEPT !.todo = @ \ {b}, !.deleted = @ \ {b}])
       \/ refs[b] # NoRef /\ NotRestored(c, b) /\ UNCHANGED <<refs, removed>>
    /\ UNCHANGED <<pulls, audited, excused, upsets>>

\* The error names the branches that did not come back.
FinishRollback(c) ==
    /\ CleanerAt(c, "restore") /\ cleaner[c].todo = {}
    /\ excused' = excused \cup {<<b, cleaner[c].plan[b]>> : b \in cleaner[c].failed}
    /\ Becomes(c, IdleCleaner)
    /\ UNCHANGED <<refs, pulls, removed, audited, upsets>>

-----------------------------------------------------------------------------
(* What goes wrong *)

\* A deletion that takes effect but whose answer is lost is not restored.
AnswerLost(c) ==
    \E b \in Branches :
        /\ CleanerAt(c, "delete") /\ IsNext(c, b) /\ refs[b] # NoRef
        /\ refs' = [refs EXCEPT ![b] = NoRef]
        /\ pulls' = pulls \ {b}
        /\ removed' = removed \cup {<<b, refs[b]>>}
        /\ excused' = excused \cup {<<b, refs[b]>>}

CleanupCallFails(c) ==
    /\ Works(c) /\ upsets < MaxUpsets
    /\ upsets' = upsets + 1
    /\ \/ ~CleanerAt(c, "restore") /\ Fails(c) /\ UNCHANGED <<refs, pulls, removed, excused>>
       \/ Fails(c) /\ AnswerLost(c)
       \/ \E b \in Branches :
             /\ Restorable(c, b) /\ NotRestored(c, b)
             /\ UNCHANGED <<refs, removed>> \/ RefReturns(c, b)
             /\ UNCHANGED <<pulls, excused>>
    /\ UNCHANGED audited

CleanerDies(c) ==
    /\ Works(c) /\ upsets < MaxUpsets
    /\ upsets' = upsets + 1
    /\ excused' = excused \cup {<<b, cleaner[c].plan[b]>> : b \in cleaner[c].deleted}
    /\ Becomes(c, IdleCleaner)
    /\ UNCHANGED <<refs, pulls, removed, audited>>

\* A developer pushes, or opens a pull request.
Develop(b) ==
    /\ upsets < MaxUpsets
    /\ upsets' = upsets + 1
    /\ \/ \E k \in Commits \ {refs[b]} : refs' = [refs EXCEPT ![b] = k] /\ UNCHANGED pulls
       \/ refs[b] # NoRef /\ b \notin pulls /\ pulls' = pulls \cup {b} /\ UNCHANGED refs
    /\ UNCHANGED <<cleaner, removed, audited, excused>>

CleansUp(c, b) ==
    NoteTip(c, b) \/ CheckTip(c, b) \/ LookAgain(c, b) \/ DeleteRef(c, b) \/ RestoreRef(c, b)

CleanupNext ==
    \/ \E c \in Cleaners :
          \/ BeginCleanup(c) \/ ListBranches(c) \/ ListPulls(c) \/ RefuseOpenPulls(c)
          \/ StartDeleting(c) \/ ListBranchesAfter(c) \/ ListPullsAfter(c)
          \/ FinalizeAudit(c) \/ FinishRollback(c)
          \/ CleanupCallFails(c) \/ CleanerDies(c)
          \/ \E b \in Branches : CleansUp(c, b)
    \/ \E b \in Branches : Develop(b)

CleanupSpec == CleanupInit /\ [][CleanupNext]_cleanupVars

-----------------------------------------------------------------------------
\* Work that the cleanup removes can be found again: the branch was created at
\* the commit once more, or a PASS receipt names the commit, or the cleaner is still at it,
\* unless the commit was pushed after its last look, the answer of the deletion
\* was lost, its process died, or its error names the branch.
CleanupSound ==
    \A pair \in removed :
        \/ pair \in audited \cup excused
        \/ \E c \in Cleaners : pair[1] \in cleaner[c].deleted /\ cleaner[c].plan[pair[1]] = pair[2]
=============================================================================
