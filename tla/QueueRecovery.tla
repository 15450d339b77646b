--------------------------- MODULE QueueRecovery ---------------------------
(***************************************************************************)
(* Loss of the queue database, and QueueRecovery (recovery.py): an online   *)
(* backup taken while the controllers work, and restore_latest, which puts  *)
(* the newest valid backup in place and then replays the mirror if that is  *)
(* newer.  docs/RECOVERY.md promises that this preserves every acknowledged *)
(* change made after the backup.                                           *)
(*                                                                         *)
(* An operator restores a queue that no controller has open, and starts no  *)
(* controller before restore_latest has returned; restore_latest itself may *)
(* die half way and is then run again.                                     *)
(***************************************************************************)
EXTENDS QueueMirror

VARIABLES
    intact,       \* the database file can be read
    backup,       \* the newest valid backup
    restore,      \* where restore_latest is
    promised,     \* history: what the callers were told of each job
    copied        \* history: the part of it that the mirror or the backup had

recoveryVars == <<intact, backup, restore, promised, copied>>
everyVar == <<allVars, recoveryVars>>

-----------------------------------------------------------------------------
Backup   == [gen : {-1} \cup Nat, rows : [Keys -> Row]]
NoBackup == [gen |-> -1, rows |-> NoRows]

RestoreSteps == {"none", "replay", "write", "interrupted"}
Promises     == {"nothing", "accepted", "settled"}

RecoveryTypeOK ==
    /\ intact \in BOOLEAN
    /\ backup \in Backup
    /\ restore \in RestoreSteps
    /\ promised \in [Keys -> Promises]
    /\ copied \in [Keys -> Promises]

RecoveryInit ==
    /\ MirrorInit
    /\ intact = TRUE
    /\ backup = NoBackup
    /\ restore = "none"
    /\ promised = [k \in Keys |-> "nothing"]
    /\ copied = [k \in Keys |-> "nothing"]

-----------------------------------------------------------------------------
(* The controllers.                                                        *)

\* A row of a job says at least what its callers were told.
Shows(row, promise) ==
    CASE promise = "accepted" -> row.state # "ABSENT"
      [] promise = "settled"  -> row.state \in Settled
      [] OTHER                -> TRUE

\* What the return of the call c has just mirrored tells its caller.  (An enqueue
\* that returns late takes nothing back of what another caller was told.)
Tells(c) ==
    call[c].phase = "saving" /\ call[c].op \in {"enqueue", "complete", "fail_no_retry"}

Told(c) ==
    LET k == call[c].key IN
    IF call[c].op = "enqueue" /\ ~(promised[k] = "settled" /\ Shows(jobs[k], "settled"))
      THEN "accepted"
      ELSE "settled"

\* What the copies have of it once one with these rows is made.
Copied(rows, told) ==
    [k \in Keys |-> IF Shows(rows[k], told[k]) THEN told[k] ELSE copied[k]]

CopyIsCurrent == mirror.gen = generation \/ backup.gen = generation

\* The steps that use the database.
UsesDatabase(c) ==
    \/ restore = "none" /\ Open(c)
    \/ BeginMirrored(c)
    \/ CommitMirrored(c)
    \/ TimeoutMirrored(c)
    \/ ReadGeneration(c)
    \/ ReadRows(c)

\* The steps that do not.
SparesDatabase(c) == CheckMirror(c) \/ FailSave(c) \/ Stop(c)

ReplaceAndReturn(c) ==
    /\ Replace(c)
    /\ IF Tells(c)
         THEN /\ promised' = [promised EXCEPT ![call[c].key] = Told(c)]
              /\ copied' = [Copied(save[c].rows, promised) EXCEPT ![call[c].key] = Told(c)]
         ELSE copied' = Copied(save[c].rows, promised) /\ UNCHANGED promised
    /\ UNCHANGED <<intact, backup, restore>>

\* enqueue finds the key, bound to the same job, and returns its row as a
\* success.  Nothing was changed, so no mirror is written.
AcknowledgeExisting(c) ==
    LET k == call[c].key
        told == IF jobs[k].state \in Settled THEN "settled" ELSE "accepted"
    IN
    /\ Waiting(c, "enqueue")
    /\ jobs[k].state # "ABSENT"
    /\ CommitMirrored(c)
    /\ promised' = [promised EXCEPT ![k] = told]
    /\ copied' = IF CopyIsCurrent THEN [copied EXCEPT ![k] = told] ELSE copied
    /\ UNCHANGED <<intact, backup, restore>>

\* UsesDatabase has the enqueue of a key bound to another job too, which raises.
Work(c) ==
    \/ intact /\ UsesDatabase(c) /\ UNCHANGED recoveryVars
    \/ intact /\ AcknowledgeExisting(c)
    \/ SparesDatabase(c) /\ UNCHANGED recoveryVars
    \/ ReplaceAndReturn(c)

-----------------------------------------------------------------------------
(* Backup, loss and restore.                                               *)

\* The SQLite backup is one consistent copy; its generation is read from it.
\* (One taken before restore_latest has replayed the mirror is not the newest.)
TakeBackup ==
    /\ intact
    /\ backup' = [gen |-> generation, rows |-> jobs]
    /\ copied' = IF mirror.gen > generation THEN copied ELSE Copied(jobs, promised)
    /\ UNCHANGED <<allVars, intact, restore, promised>>

\* Without a backup restore_latest refuses, and nothing is promised.
LoseDatabase ==
    /\ intact
    /\ restore = "none"
    /\ backup # NoBackup
    /\ intact' = FALSE
    /\ UNCHANGED <<allVars, backup, restore, promised, copied>>

AllStopped == \A c \in Clients : save[c].step = "closed"

\* Mutant of RestoreBackup: the mirror is rewritten before it is replayed.
RestoreBackupAndMirror ==
    /\ AllStopped
    /\ ~intact \/ restore = "interrupted"
    /\ jobs' = backup.rows
    /\ generation' = backup.gen
    /\ mirror' = backup
    /\ intact' = TRUE
    /\ restore' = "replay"
    /\ UNCHANGED <<call, held, save, backup, promised, copied>>

RestoreBackup ==
    /\ AllStopped
    /\ ~intact \/ restore = "interrupted"
    /\ jobs' = backup.rows
    /\ generation' = backup.gen
    /\ intact' = TRUE
    /\ restore' = "replay"
    /\ UNCHANGED <<call, held, mirror, save, backup, promised, copied>>

\* Mutant of ReplayMirror: the rows are replayed, the generation is not.
ReplayRowsOnly ==
    /\ restore = "replay"
    /\ restore' = "write"
    /\ jobs' = IF mirror.gen > backup.gen THEN mirror.rows ELSE jobs
    /\ UNCHANGED <<generation, call, held, mirror, save, intact, backup, promised, copied>>

ReplayMirror ==
    /\ restore = "replay"
    /\ restore' = "write"
    /\ IF mirror.gen > backup.gen
         THEN jobs' = mirror.rows /\ generation' = mirror.gen
         ELSE UNCHANGED <<jobs, generation>>
    /\ UNCHANGED <<call, held, mirror, save, intact, backup, promised, copied>>

WriteMirror ==
    /\ restore = "write"
    /\ restore' = "none"
    /\ mirror' = [gen |-> generation, rows |-> jobs]
    /\ UNCHANGED <<vars, generation, save, intact, backup, promised, copied>>

InterruptRestore ==
    /\ restore \in {"replay", "write"}
    /\ restore' = "interrupted"
    /\ UNCHANGED <<allVars, intact, backup, promised, copied>>

Restore == RestoreBackup \/ ReplayMirror \/ WriteMirror \/ InterruptRestore

\* Time stamps in the backup grow old as those in the queue do.
TickAll ==
    /\ TickMirrored
    /\ backup' = [backup EXCEPT !.rows = AgedRows(@)]
    /\ UNCHANGED <<intact, restore, promised, copied>>

RecoveryNext ==
    \/ \E c \in Clients : Work(c)
    \/ TakeBackup
    \/ LoseDatabase
    \/ Restore
    \/ TickAll

RecoverySpec == RecoveryInit /\ [][RecoveryNext]_everyVar

-----------------------------------------------------------------------------
(* Properties.                                                             *)

\* docs/RECOVERY.md, "Durable queue recovery": "Recovery restores the newest
\* valid backup and then replays a newer valid mirror, preserving jobs accepted
\* after the backup."  Whenever the queue is in service, a job whose enqueue
\* returned is there, and one that a caller saw settled is settled.
AcknowledgedJobsPreserved ==
    intact /\ restore = "none" => \A k \in Keys : Shows(jobs[k], promised[k])

\* The same page of what it gives as the reason, the mirror that is written
\* "before returning": no loss of the database takes back what the callers were
\* told and a copy had, made by the call itself or by another one since.  What it
\* leaves out is the enqueue whose mirror failed, and whose retry was acknowledged
\* from its row before any other copy was made.  It holds with one controller;
\* with two an older mirror may replace a newer one.
CopiedJobsPreserved ==
    intact /\ restore = "none" => \A k \in Keys : Shows(jobs[k], copied[k])

\* The mirror and the backup stay truthful through losses and restores: no two
\* different contents of the queue are ever recorded as the same generation.
CopiesHonest ==
    intact /\ restore = "none" =>
        /\ MirrorHonest
        /\ backup.gen <= generation
        /\ backup.gen = generation => backup.rows = jobs

\* While the queue is in service mirroring, backups and restores change nothing
\* for the callers: every step of the processes and the rows is one of FleetQueue.
ServedAsQueue == Init /\ [][intact /\ restore = "none" => [Next]_vars]_vars
=============================================================================
