------------------------- MODULE RepairTransaction -------------------------
(***************************************************************************)
(* Transactional repair of a project tree (src/psmatrix/repair.py).        *)
(*                                                                         *)
(* A patch bundle is bound to the contents it was proposed against.  An    *)
(* attempt takes the lock of its session file, replays the bundle against  *)
(* the tree while it backs the files up, replaces them one by one, writes  *)
(* transaction.json, runs the validation, rolls back unless the validation *)
(* passed, and appends itself to the session.  The lock belongs to the     *)
(* session file, not to the project: two sessions may work on one tree.    *)
(* A write may fail and a process may die between any two steps.           *)
(***************************************************************************)
EXTENDS Naturals, FiniteSets

CONSTANTS
    Attempts,     \* processes, each making one attempt
    Sessions,     \* session files over the project
    Files,        \* files of the project
    Versions,     \* what a file may hold
    MaxAttempts,  \* max_attempts of a session
    MaxFaults     \* bound: failed writes and killed processes

ASSUME RepairAssumption ==
    /\ IsFiniteSet(Attempts) /\ "nobody" \notin Attempts
    /\ MaxAttempts \in Nat \ {0} /\ MaxFaults \in Nat

VARIABLES
    tree,         \* the project's files
    attempt,      \* per process: its step, its session, its bundle, its files
    backup,       \* per process: the files its transaction directory holds
    session,      \* per session file: the attempts saved and who holds the lock
    validations,  \* history: validations that were run for each session
    good,         \* history: the tree that was last accepted
    faults,       \* history: writes that failed, processes that died
    overlap       \* history: two sessions worked on the tree at the same time

repairVars == <<tree, attempt, backup, session, validations, good, faults, overlap>>

Trees == [Files -> Versions]
NoHolder == "nobody"
NoSession == "none"
NoVersion == "absent"

\* Inside the lock: what apply_and_validate is about to do.
LockedSteps == {"replay", "write", "record", "validate", "rollback", "mark",
                "save", "restore"}
RepairSteps == {"idle", "proposed", "done", "dead"} \cup LockedSteps

\* before/after: the bundle; prepared, written: what apply_bundle did so far.
AttemptStates ==
    [step: RepairSteps, session: Sessions \cup {NoSession}, before: Trees, after: Trees,
     files: SUBSET Files, prepared: SUBSET Files, written: SUBSET Files,
     todo: SUBSET Files, accepted: BOOLEAN, unrestored: SUBSET Files]

RepairTypeOK ==
    /\ tree \in Trees /\ good \in Trees
    /\ attempt \in [Attempts -> AttemptStates]
    /\ backup \in [Attempts -> [Files -> Versions \cup {NoVersion}]]
    /\ session \in [Sessions -> [saved: Nat, lock: Attempts \cup {NoHolder}]]
    /\ validations \in [Sessions -> Nat]
    /\ faults \in 0..MaxFaults
    /\ overlap \in BOOLEAN

RepairInit ==
    /\ tree \in {[f \in Files |-> v] : v \in Versions}
    /\ good = tree
    /\ attempt = [p \in Attempts |->
           [step |-> "idle", session |-> NoSession, before |-> tree, after |-> tree,
            files |-> {}, prepared |-> {}, written |-> {}, todo |-> {},
            accepted |-> FALSE, unrestored |-> {}]]
    /\ backup = [p \in Attempts |-> [f \in Files |-> NoVersion]]
    /\ session = [s \in Sessions |-> [saved |-> 0, lock |-> NoHolder]]
    /\ validations = [s \in Sessions |-> 0]
    /\ faults = 0
    /\ overlap = FALSE

-----------------------------------------------------------------------------
At(p, step) == attempt[p].step = step
Inside(p) == attempt[p].step \in LockedSteps
SessionOf(p) == attempt[p].session
Unlocked(p) == [session EXCEPT ![SessionOf(p)].lock = NoHolder]

\* propose_patch: exact replacements in files as they are now, for an attempt
\* in some session.
Propose(p) ==
    /\ At(p, "idle")
    /\ \E after \in Trees, s \in Sessions :
          /\ after # tree
          /\ attempt' = [attempt EXCEPT ![p].step = "proposed", ![p].session = s,
                 ![p].before = tree, ![p].after = after,
                 ![p].files = {f \in Files : after[f] # tree[f]}]
    /\ UNCHANGED <<tree, backup, session, validations, good, faults, overlap>>

Exhausted(p) == session[SessionOf(p)].saved >= MaxAttempts

\* apply_and_validate takes the lock and reads the session file.
Begin(p) ==
    /\ At(p, "proposed") /\ session[SessionOf(p)].lock = NoHolder
    /\ IF Exhausted(p)
       THEN /\ attempt' = [attempt EXCEPT ![p].step = "done"]
            /\ UNCHANGED <<session, overlap>>
       ELSE /\ attempt' = [attempt EXCEPT ![p].step = "replay", ![p].todo = attempt[p].files]
            /\ session' = [session EXCEPT ![SessionOf(p)].lock = p]
            /\ overlap' = (overlap \/ \E q \in Attempts \ {p} : Inside(q))
    /\ UNCHANGED <<tree, backup, validations, good, faults>>

\* Mutant of BacksUp: no backup is made.
BacksUpNothing(p, f) == UNCHANGED backup

BacksUp(p, f) == backup' = [backup EXCEPT ![p][f] = tree[f]]

\* apply_bundle, first loop: _replay_action checks the hash, then the backup.
Replay(p, f) ==
    /\ At(p, "replay") /\ f \in attempt[p].todo
    /\ IF tree[f] = attempt[p].before[f]
       THEN /\ BacksUp(p, f)
            /\ attempt' = [attempt EXCEPT ![p].prepared = @ \cup {f},
                   ![p].todo = IF @ = {f} THEN attempt[p].files ELSE @ \ {f},
                   ![p].step = IF attempt[p].todo = {f} THEN "write" ELSE @]
       ELSE /\ attempt' = [attempt EXCEPT ![p].step = "restore",
                                          ![p].todo = attempt[p].prepared]
            /\ UNCHANGED backup
    /\ UNCHANGED <<tree, session, validations, good, faults, overlap>>

\* Second loop: each file is replaced atomically.
ReplaceFile(p, f) ==
    /\ At(p, "write") /\ f \in attempt[p].todo
    /\ tree' = [tree EXCEPT ![f] = attempt[p].after[f]]
    /\ attempt' = [attempt EXCEPT ![p].written = @ \cup {f}, ![p].todo = @ \ {f},
                       ![p].step = IF attempt[p].todo = {f} THEN "record" ELSE @]
    /\ UNCHANGED <<backup, session, validations, good, faults, overlap>>

RecordTransaction(p) ==
    /\ At(p, "record")
    /\ attempt' = [attempt EXCEPT ![p].step = "validate"]
    /\ UNCHANGED <<tree, backup, session, validations, good, faults, overlap>>

\* Mutant of ToRollBack: one file is left as it is.
ToRollBackAllButOne(p) == attempt[p].files \ {CHOOSE f \in Files : TRUE}

ToRollBack(p) == attempt[p].files

\* run_validation, and what it makes of the report.
Validate(p) ==
    /\ At(p, "validate")
    /\ validations' = [validations EXCEPT ![SessionOf(p)] = @ + 1]
    /\ \/ /\ attempt' = [attempt EXCEPT ![p].step = "save", ![p].accepted = TRUE]
          /\ good' = tree
       \/ /\ attempt' = [attempt EXCEPT ![p].step = "rollback",
                                        ![p].todo = ToRollBack(p)]
          /\ UNCHANGED good
    /\ UNCHANGED <<tree, backup, session, faults, overlap>>

\* rollback_transaction: the backup over whatever the file holds now.
RollBack(p, f) ==
    /\ At(p, "rollback") /\ f \in attempt[p].todo
    /\ tree' = [tree EXCEPT ![f] = backup[p][f]]
    /\ attempt' = [attempt EXCEPT ![p].written = @ \ {f}, ![p].todo = @ \ {f},
                       ![p].step = IF attempt[p].todo = {f} THEN "mark" ELSE @]
    /\ UNCHANGED <<backup, session, validations, good, faults, overlap>>

MarkRolledBack(p) ==
    /\ At(p, "mark")
    /\ attempt' = [attempt EXCEPT ![p].step = "save"]
    /\ UNCHANGED <<tree, backup, session, validations, good, faults, overlap>>

\* The attempt is appended to the session read under the lock.
SaveSession(p) ==
    /\ At(p, "save")
    /\ attempt' = [attempt EXCEPT ![p].step = "done"]
    /\ session' = [session EXCEPT ![SessionOf(p)] = [saved |-> @.saved + 1, lock |-> NoHolder]]
    /\ UNCHANGED <<tree, backup, validations, good, faults, overlap>>

-----------------------------------------------------------------------------
\* apply_bundle's except: every prepared file gets back the bytes that were
\* read, and the transaction directory is removed with its backups.
Removed(p) == backup' = [backup EXCEPT ![p] = [f \in Files |-> NoVersion]]

Restore(p, f) ==
    /\ At(p, "restore") /\ f \in attempt[p].todo
    /\ \/ /\ tree' = [tree EXCEPT ![f] = attempt[p].before[f]]
          /\ attempt' = [attempt EXCEPT ![p].todo = @ \ {f}, ![p].written = @ \ {f}]
          /\ UNCHANGED faults
       \/ \* the write fails and is passed over
          /\ faults < MaxFaults /\ faults' = faults + 1
          /\ attempt' = [attempt EXCEPT ![p].todo = @ \ {f}, ![p].unrestored = @ \cup {f}]
          /\ UNCHANGED tree
    /\ UNCHANGED <<backup, session, validations, good, overlap>>

GiveUpApply(p) ==
    /\ At(p, "restore") /\ attempt[p].todo = {}
    /\ attempt' = [attempt EXCEPT ![p].step = "done"]
    /\ Removed(p)
    /\ session' = Unlocked(p)
    /\ UNCHANGED <<tree, validations, good, faults, overlap>>

\* A write of apply_bundle fails: its handler restores.
ApplyFails(p) ==
    /\ attempt[p].step \in {"replay", "write", "record"} /\ faults < MaxFaults
    /\ faults' = faults + 1
    /\ attempt' = [attempt EXCEPT ![p].step = "restore", ![p].todo = attempt[p].prepared]
    /\ UNCHANGED <<tree, backup, session, validations, good, overlap>>

\* A write of the rollback or of the session fails: the error leaves
\* apply_and_validate and the attempt is not recorded.
LateWriteFails(p) ==
    /\ attempt[p].step \in {"rollback", "mark", "save"} /\ faults < MaxFaults
    /\ faults' = faults + 1
    /\ attempt' = [attempt EXCEPT ![p].step = "done"]
    /\ session' = Unlocked(p)
    /\ UNCHANGED <<tree, backup, validations, good, overlap>>

\* The process is killed: the kernel drops its lock, the directory stays.
AttemptDies(p) ==
    /\ Inside(p) /\ faults < MaxFaults
    /\ faults' = faults + 1
    /\ attempt' = [attempt EXCEPT ![p].step = "dead"]
    /\ session' = Unlocked(p)
    /\ UNCHANGED <<tree, backup, validations, good, overlap>>

FileStep(p, f) == Replay(p, f) \/ ReplaceFile(p, f) \/ RollBack(p, f) \/ Restore(p, f)

AttemptStep(p) ==
    \/ Propose(p) \/ Begin(p) \/ RecordTransaction(p) \/ Validate(p)
    \/ MarkRolledBack(p) \/ SaveSession(p) \/ GiveUpApply(p)
    \/ ApplyFails(p) \/ LateWriteFails(p) \/ AttemptDies(p)

RepairNext ==
    \E p \in Attempts : AttemptStep(p) \/ \E f \in Files : FileStep(p, f)

RepairSpec == RepairInit /\ [][RepairNext]_repairVars

-----------------------------------------------------------------------------
(* Properties *)

\* Whenever nobody is inside a repair, the project holds exactly the tree
\* that last passed a validation: every rejected, refused or failed attempt
\* was undone file by file.  Only a killed process, a failed write or two
\* sessions at work at the same time (the lock is per session) leave another.
OnlyFaultsAndOverlapsTearTheTree ==
    (\A p \in Attempts : ~Inside(p)) /\ faults = 0 /\ ~overlap => tree = good

\* A session never records more attempts than it allows, however many
\* processes race for it, and it runs more validations than that only when an
\* attempt ended by a fault after its validation and was never recorded.
SessionKeepsItsBudget ==
    \A s \in Sessions :
        /\ session[s].saved <= MaxAttempts
        /\ validations[s] <= MaxAttempts + faults

\* "All changed files are backed up before atomic replacement", and stay so:
\* while a file holds the patch of an attempt that was not accepted, the bytes
\* it replaced are in the attempt's directory, whatever died or failed, except
\* when the write that restores it failed in apply_bundle's handler, which
\* then removes the backups.
OnlyFailedRestoresLoseBackups ==
    \A p \in Attempts : \A f \in attempt[p].written :
        backup[p][f] = attempt[p].before[f] \/ f \in attempt[p].unrestored

\* The three together: what a repair session may leave on disk.
RepairsSound ==
    OnlyFaultsAndOverlapsTearTheTree /\ SessionKeepsItsBudget /\ OnlyFailedRestoresLoseBackups
=============================================================================
