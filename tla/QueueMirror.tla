---------------------------- MODULE QueueMirror ----------------------------
(***************************************************************************)
(* What the last step of a FleetQueue call does on disk: every change of    *)
(* the database bumps its generation, and _write_mirror copies the whole    *)
(* database into <queue>.mirror.json before the call returns.               *)
(*                                                                         *)
(* The copy is not one step.  The generation and the rows are two SELECTs   *)
(* outside any transaction, the payload is complete before the mirror lock  *)
(* is taken, and the file is replaced under the lock: other processes may   *)
(* commit, and write mirrors of their own, between any two of these.        *)
(*                                                                         *)
(* A process opens the queue before its first call, and opening it repairs  *)
(* a mirror that is missing, invalid or behind the database.                *)
(***************************************************************************)
EXTENDS FleetQueue

CONSTANT MaxGeneration    \* bound: no change is committed beyond it

ASSUME GenerationAssumption == MaxGeneration \in Nat

VARIABLES
    generation,   \* meta.generation of the database
    mirror,       \* <queue>.mirror.json
    save          \* where each process is in opening or mirroring the queue

mirrorVars == <<generation, mirror, save>>
allVars == <<vars, mirrorVars>>

-----------------------------------------------------------------------------
Steps  == {"closed", "check", "open", "generation", "rows", "replace"}
Saving == {"generation", "rows", "replace"}

NoRows == [k \in Keys |-> NoRow]

\* generation -1: there is no mirror, or not one whose digest is right.
Mirror   == [gen : {-1} \cup Nat, rows : [Keys -> Row]]
NoMirror == [gen |-> -1, rows |-> NoRows]

\* The payload _mirror_payload has read so far ("check": the generation that
\* _refresh_mirror_if_needed compares the mirror with).
Payload == [step : Steps, gen : Nat, rows : [Keys -> Row]]
At(step) == [step |-> step, gen |-> 0, rows |-> NoRows]

MirrorTypeOK ==
    /\ generation \in Nat
    /\ mirror \in Mirror
    /\ save \in [Clients -> Payload]

MirrorInit ==
    /\ Init
    /\ generation = 0
    /\ mirror = NoMirror
    /\ save = [c \in Clients |-> At("closed")]

Goto(c, step) == save' = [save EXCEPT ![c] = At(step)]

-----------------------------------------------------------------------------
(* Opening the queue.                                                      *)

Open(c) ==
    /\ save[c].step = "closed"
    /\ save' = [save EXCEPT ![c] = [At("check") EXCEPT !.gen = generation]]
    /\ UNCHANGED <<vars, generation, mirror>>

CheckMirror(c) ==
    /\ save[c].step = "check"
    /\ Goto(c, IF mirror.gen < save[c].gen THEN "generation" ELSE "open")
    /\ UNCHANGED <<vars, generation, mirror>>

-----------------------------------------------------------------------------
(* The calls of FleetQueue, made by a process that has opened the queue.   *)

BeginMirrored(c) ==
    /\ save[c].step = "open"
    /\ BeginCall(c)
    /\ UNCHANGED mirrorVars

\* Mutant of Bumps: reconcile forgets _bump_generation.
BumpsUnlessReconcile(c) ==
    call'[c].phase = "saving" /\ call[c].op # "reconcile"

\* _bump_generation is called in the transactions that change a row.
Bumps(c) == call'[c].phase = "saving"

CommitMirrored(c) ==
    /\ generation < MaxGeneration
    /\ CommitCall(c)
    /\ generation' = IF Bumps(c) THEN generation + 1 ELSE generation
    /\ IF call'[c].phase = "saving" THEN Goto(c, "generation")
                                    ELSE UNCHANGED save
    /\ UNCHANGED mirror

TimeoutMirrored(c) == LockTimeout(c) /\ UNCHANGED mirrorVars

-----------------------------------------------------------------------------
(* _write_mirror, for a call that changed the database or for an open.     *)

ReadGeneration(c) ==
    /\ save[c].step = "generation"
    /\ save' = [save EXCEPT ![c] = [At("rows") EXCEPT !.gen = generation]]
    /\ UNCHANGED <<vars, generation, mirror>>

ReadRows(c) ==
    /\ save[c].step = "rows"
    /\ save' = [save EXCEPT ![c].step = "replace", ![c].rows = jobs]
    /\ UNCHANGED <<vars, generation, mirror>>

\* Whatever mirror is there by now is replaced; then the call returns.
Replace(c) ==
    /\ save[c].step = "replace"
    /\ mirror' = [gen |-> save[c].gen, rows |-> save[c].rows]
    /\ Goto(c, "open")
    /\ IF call[c].phase = "saving" THEN SaveMirror(c) ELSE UNCHANGED vars
    /\ UNCHANGED generation

\* Mutant of FailSave: a call whose mirror failed is made once more.
RetryAfterFailedSave(c) ==
    /\ save[c].step \in Saving
    /\ call[c].phase = "saving"
    /\ call' = [call EXCEPT ![c].phase = "waiting"]
    /\ Goto(c, "open")
    /\ UNCHANGED <<jobs, held, generation, mirror>>

\* Any of the three may raise: the call, or the constructor, raises too.
FailSave(c) ==
    /\ save[c].step \in Saving
    /\ IF call[c].phase = "saving"
         THEN SaveFails(c) /\ Goto(c, "open")
         ELSE UNCHANGED vars /\ Goto(c, "closed")
    /\ UNCHANGED <<generation, mirror>>

-----------------------------------------------------------------------------
(* The rest of the world.                                                  *)

\* The process ends, in the middle of whatever it does.
Stop(c) ==
    /\ save[c].step # "closed"
    /\ Goto(c, "closed")
    /\ \/ Crash(c)
       \/ call[c] = Idle /\ held[c] = NoJob /\ UNCHANGED vars
    /\ UNCHANGED <<generation, mirror>>

\* The mirror file is deleted, or its digest is no longer right.
DamageMirror ==
    /\ mirror' = NoMirror
    /\ UNCHANGED <<vars, generation, save>>

AgedRows(rows) == [k \in Keys |-> Aged(rows[k])]

TickMirrored ==
    /\ Tick
    /\ mirror' = [mirror EXCEPT !.rows = AgedRows(@)]
    /\ save' = [c \in Clients |-> [save[c] EXCEPT !.rows = AgedRows(@)]]
    /\ UNCHANGED generation

ClientStep(c) ==
    \/ Open(c)
    \/ CheckMirror(c)
    \/ BeginMirrored(c)
    \/ CommitMirrored(c)
    \/ TimeoutMirrored(c)
    \/ ReadGeneration(c)
    \/ ReadRows(c)
    \/ Replace(c)
    \/ FailSave(c)
    \/ Stop(c)

MirrorNext ==
    \/ \E c \in Clients : ClientStep(c)
    \/ TickMirrored
    \/ DamageMirror

MirrorSpec == MirrorInit /\ [][MirrorNext]_allVars

-----------------------------------------------------------------------------
(* Properties.                                                             *)

\* A mirror never claims a generation the database has not reached, and one
\* that claims the current generation holds the current rows.  Opening the
\* queue and restoring it compare generations only, and leave such a mirror
\* alone or replay it.
MirrorHonest ==
    /\ mirror.gen <= generation
    /\ mirror.gen = generation => mirror.rows = jobs

\* Mirroring changes nothing for the callers of the queue: with it, every
\* behaviour of the processes and the rows is one of FleetQueue.
QueueSpec == Spec
=============================================================================
