-------------------------- MODULE ControllerStores --------------------------
(***************************************************************************)
(* The files of a fleet controller: the queue database with its mirror and *)
(* its backups, the journal, and the checkpoint and result cache of the    *)
(* test runs started from the same machine.                                *)
(*                                                                         *)
(* They share no file and no lock, so a property of one holds of them all  *)
(* if it holds while that one moves and the others stay as they started.   *)
(* That is what is checked: `moving` is the one that moves.  The queue      *)
(* moves twice: "queue" with losses and restores, when only the processes  *)
(* in Recovering work, and "mirror" with every process and neither.         *)
(***************************************************************************)
EXTENDS QueueRecovery, RecoveryJournal, ScheduledRun

CONSTANT Recovering    \* bound: the processes that work when a database is lost

ASSUME RecoveringAssumption == Recovering \subseteq Clients

VARIABLE moving

ControllerFiles == {"queue", "mirror", "journal", "run"}

controllerVars == <<everyVar, journalVars, runVars, moving>>

ControllerInit ==
    /\ moving \in ControllerFiles
    /\ RecoveryInit /\ JournalInit /\ RunInit
    \* the sources stay in one of their initial states
    /\ moving # "run" => \A s \in Sources : content[s] = CHOOSE c \in Contents : TRUE

QueueMoves ==
    /\ moving = "queue" /\ RecoveryNext
    /\ \A c \in Clients \ Recovering : UNCHANGED save[c]
MirrorMoves == moving = "mirror" /\ MirrorNext /\ UNCHANGED recoveryVars
JournalMoves == moving = "journal" /\ JournalNext
RunMoves == moving = "run" /\ RunNext

ControllerNext ==
    /\ UNCHANGED moving
    /\ \/ (QueueMoves \/ MirrorMoves) /\ UNCHANGED <<journalVars, runVars>>
       \/ JournalMoves /\ UNCHANGED <<everyVar, runVars>>
       \/ RunMoves /\ UNCHANGED <<everyVar, journalVars>>

ControllerSpec == ControllerInit /\ [][ControllerNext]_controllerVars

\* Every file of a controller has the values its code can give it: no record
\* of the journal without a place in the chain, no row of a backup that the
\* queue could not hold, no key without a report of the right kind.
ControllerTypeOK == RecoveryTypeOK /\ JournalTypeOK /\ RunTypeOK
=============================================================================
