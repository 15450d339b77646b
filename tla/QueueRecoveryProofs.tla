------------------------- MODULE QueueRecoveryProofs -------------------------
(***************************************************************************)
(* Theorems about QueueMirror and QueueRecovery: mirroring is invisible to  *)
(* the callers of the queue, so that what is proved of FleetQueue holds     *)
(* with it; the mirror and the backup are never mistaken for newer ones     *)
(* than they are, through losses and restores; and with one controller      *)
(* nothing is lost with the database that a caller was told and a copy had. *)
(***************************************************************************)
EXTENDS QueueRecovery, FleetQueueProofs

-----------------------------------------------------------------------------
(* Refinement of FleetQueue.                                               *)

LEMMA MirrorInitQueue == MirrorInit => Init
  BY DEF MirrorInit

LEMMA MirrorStepQueue == [MirrorNext]_allVars => [Next]_vars
  <1> SUFFICES ASSUME [MirrorNext]_allVars PROVE [Next]_vars
    OBVIOUS
  <1>1. CASE UNCHANGED allVars
    BY <1>1 DEF allVars
  <1>2. ASSUME NEW c \in Clients, ClientStep(c) PROVE [Next]_vars
    <2>1. CASE Open(c) \/ CheckMirror(c) \/ ReadGeneration(c) \/ ReadRows(c)
      BY <2>1 DEF Open, CheckMirror, ReadGeneration, ReadRows
    <2>2. CASE BeginMirrored(c)
      BY <2>2 DEF BeginMirrored, Next
    <2>3. CASE CommitMirrored(c)
      BY <2>3 DEF CommitMirrored, Next
    <2>4. CASE TimeoutMirrored(c)
      BY <2>4 DEF TimeoutMirrored, Next, EndCall
    <2>5. CASE Replace(c)
      BY <2>5 DEF Replace, Next, EndCall
    <2>6. CASE FailSave(c)
      BY <2>6 DEF FailSave, Next, EndCall
    <2>7. CASE Stop(c)
      BY <2>7 DEF Stop, Next, EndCall
    <2> QED
      BY <1>2, <2>1, <2>2, <2>3, <2>4, <2>5, <2>6, <2>7 DEF ClientStep
  <1>3. CASE TickMirrored
    BY <1>3 DEF TickMirrored, Next
  <1>4. CASE DamageMirror
    BY <1>4 DEF DamageMirror
  <1> QED
    BY <1>1, <1>2, <1>3, <1>4 DEF MirrorNext

\* However the mirror is written, lost and repaired, the calls and the rows
\* behave as FleetQueue says: _write_mirror and the constructor never change
\* what a caller of the queue can see.
THEOREM MirrorImplementsQueue == MirrorSpec => QueueSpec
  BY MirrorInitQueue, MirrorStepQueue, PTL DEF MirrorSpec, QueueSpec, Spec

\* What is proved of FleetQueue therefore holds of the mirrored queue.
COROLLARY MirroredRetryBudget == MirrorSpec => [](TypeOK /\ RetryBudget)
  BY MirrorImplementsQueue, TypeCorrect, RetryBudgetHolds, PTL DEF QueueSpec

-----------------------------------------------------------------------------
(* Type correctness.                                                       *)

LEMMA MirrorNullFacts ==
    /\ NoRows \in [Keys -> Row]
    /\ \A step \in Steps : At(step) \in Payload
    /\ NoMirror \in Mirror
  BY NullFacts DEF NoRows, At, Payload, NoMirror, Mirror

LEMMA AgedRowsType ==
    ASSUME NEW rows \in [Keys -> Row]
    PROVE  AgedRows(rows) \in [Keys -> Row]
  BY AgedType DEF AgedRows

LEMMA InitMirrorTypeOK == MirrorInit => MirrorTypeOK
  BY MirrorNullFacts DEF MirrorInit, MirrorTypeOK, Steps

LEMMA GotoType ==
    ASSUME MirrorTypeOK, NEW c \in Clients, NEW step \in Steps, Goto(c, step)
    PROVE  save' \in [Clients -> Payload]
  BY MirrorNullFacts DEF Goto, MirrorTypeOK

LEMMA NextMirrorTypeOK ==
    TypeOK /\ MirrorTypeOK /\ [MirrorNext]_allVars => MirrorTypeOK'
  <1> SUFFICES ASSUME TypeOK, MirrorTypeOK, [MirrorNext]_allVars
               PROVE  MirrorTypeOK'
    OBVIOUS
  <1>1. CASE UNCHANGED allVars
    BY <1>1 DEF allVars, mirrorVars, MirrorTypeOK
  <1>2. ASSUME NEW c \in Clients, ClientStep(c) PROVE MirrorTypeOK'
    <2> DEFINE p == [At("check") EXCEPT !.gen = generation]
               q == [At("rows") EXCEPT !.gen = generation]
    <2>0. p \in Payload /\ q \in Payload
      BY MirrorNullFacts DEF Payload, MirrorTypeOK, Steps
    <2>1. CASE Open(c)
      BY <2>0, <2>1 DEF Open, MirrorTypeOK
    <2>2. CASE CheckMirror(c)
      BY <2>2, GotoType DEF CheckMirror, MirrorTypeOK, Steps
    <2>3. CASE BeginMirrored(c) \/ TimeoutMirrored(c)
      BY <2>3 DEF BeginMirrored, TimeoutMirrored, mirrorVars, MirrorTypeOK
    <2>4. CASE CommitMirrored(c)
      <3>1. generation' \in Nat
        BY <2>4 DEF CommitMirrored, MirrorTypeOK
      <3>2. save' \in [Clients -> Payload]
        BY <2>4, GotoType DEF CommitMirrored, MirrorTypeOK, Steps
      <3> QED
        BY <2>4, <3>1, <3>2 DEF CommitMirrored, MirrorTypeOK
    <2>5. CASE ReadGeneration(c)
      BY <2>0, <2>5 DEF ReadGeneration, MirrorTypeOK
    <2>6. CASE ReadRows(c)
      <3>1. [save[c] EXCEPT !.step = "replace", !.rows = jobs] \in Payload
        BY DEF MirrorTypeOK, TypeOK, Payload, Steps
      <3>2. save' = [save EXCEPT ![c] = [save[c] EXCEPT !.step = "replace", !.rows = jobs]]
        BY <2>6 DEF ReadRows, MirrorTypeOK, Payload
      <3> QED
        BY <2>6, <3>1, <3>2 DEF ReadRows, MirrorTypeOK
    <2>7. CASE Replace(c)
      <3>1. mirror' \in Mirror
        BY <2>7 DEF Replace, MirrorTypeOK, Payload, Mirror
      <3>2. save' \in [Clients -> Payload]
        BY <2>7, GotoType DEF Replace, Steps
      <3> QED
        BY <2>7, <3>1, <3>2 DEF Replace, MirrorTypeOK
    <2>8. CASE FailSave(c)
      BY <2>8, GotoType DEF FailSave, MirrorTypeOK, Steps
    <2>9. CASE Stop(c)
      BY <2>9, GotoType DEF Stop, MirrorTypeOK, Steps
    <2> QED
      BY <1>2, <2>1, <2>2, <2>3, <2>4, <2>5, <2>6, <2>7, <2>8, <2>9 DEF ClientStep
  <1>3. CASE TickMirrored
    <2>1. mirror' \in Mirror
      BY <1>3, AgedRowsType DEF TickMirrored, MirrorTypeOK, Mirror
    <2>2. \A c \in Clients : [save[c] EXCEPT !.rows = AgedRows(@)] \in Payload
      BY AgedRowsType DEF MirrorTypeOK, Payload
    <2> QED
      BY <1>3, <2>1, <2>2 DEF TickMirrored, MirrorTypeOK
  <1>4. CASE DamageMirror
    BY <1>4, MirrorNullFacts DEF DamageMirror, MirrorTypeOK
  <1> QED
    BY <1>1, <1>2, <1>3, <1>4 DEF MirrorNext

\* The generation, the mirror file and every payload under way keep their
\* types.
THEOREM MirrorTypeCorrect == MirrorSpec => []MirrorTypeOK
  <1>1. MirrorSpec => []TypeOK
    BY MirrorImplementsQueue, TypeCorrect, PTL DEF QueueSpec
  <1> QED
    BY <1>1, InitMirrorTypeOK, NextMirrorTypeOK, PTL DEF MirrorSpec

-----------------------------------------------------------------------------
(* An honest mirror.  A payload takes its generation first and its rows     *)
(* later, so it may hold newer rows than it says, never older ones; and as  *)
(* every change bumps the generation, a payload that names the current      *)
(* generation was read since the last change.                              *)

PayloadHonest ==
    \A c \in Clients :
        /\ save[c].gen <= generation
        /\ save[c].step = "replace" /\ save[c].gen = generation
              => save[c].rows = jobs

Honest == MirrorHonest /\ PayloadHonest

LEMMA SweptNothing ==
    ASSUME TypeOK, NEW age, ExpiredKeys(jobs, age) = {}
    PROVE  RequeueExpired(jobs, age) = jobs
  BY DEF TypeOK, ExpiredKeys, RequeueExpired

\* A transaction that does not bump the generation leaves every row alone.
LEMMA UnbumpedCommit ==
    ASSUME TypeOK, NEW c \in Clients, CommitCall(c), call'[c].phase # "saving"
    PROVE  jobs' = jobs
  <1>1. ~Save(c)
    BY DEF Save, TypeOK, Call
  <1>2. ASSUME NEW k, NEW n, SaveClaim(c, k, n) PROVE FALSE
    BY <1>2 DEF SaveClaim, TypeOK, Idle
  <1>3. CASE CommitEnqueue(c)
    BY <1>1, <1>3 DEF CommitEnqueue
  <1>4. CASE CommitClaim(c)
    BY <1>2, <1>4, SweptNothing DEF CommitClaim
  <1>5. CASE CommitHeartbeat(c) \/ CommitFinish(c)
    BY <1>1, <1>5 DEF CommitHeartbeat, CommitFinish
  <1>6. CASE CommitReconcile(c)
    BY <1>1, <1>6, SweptNothing DEF CommitReconcile
  <1>7. CASE RefuseHeartbeat(c) \/ RefuseFinish(c)
    BY <1>7 DEF RefuseHeartbeat, RefuseFinish
  <1> QED
    BY <1>3, <1>4, <1>5, <1>6, <1>7 DEF CommitCall

LEMMA InitHonest == MirrorInit => Honest
  BY DEF MirrorInit, Honest, MirrorHonest, PayloadHonest, NoMirror, At

LEMMA QuietHonest ==
    ASSUME MirrorTypeOK, Honest, NEW c \in Clients, NEW step \in Steps \ {"replace"},
           Goto(c, step), UNCHANGED <<jobs, generation, mirror>>
    PROVE  Honest'
  BY DEF Honest, MirrorHonest, PayloadHonest, MirrorTypeOK, Goto, At

LEMMA NextHonest ==
    TypeOK /\ MirrorTypeOK /\ Honest /\ [MirrorNext]_allVars => Honest'
  <1> SUFFICES ASSUME TypeOK, MirrorTypeOK, Honest, [MirrorNext]_allVars
               PROVE  Honest'
    OBVIOUS
  <1> USE DEF Honest, MirrorHonest, PayloadHonest
  <1>1. CASE UNCHANGED allVars
    BY <1>1 DEF allVars, vars, mirrorVars
  <1>2. ASSUME NEW c \in Clients, ClientStep(c) PROVE Honest'
    <2>1. CASE Open(c)
      BY <2>1 DEF Open, MirrorTypeOK, At, vars
    <2>2. CASE CheckMirror(c)
      BY <2>2, QuietHonest DEF CheckMirror, Steps, vars
    <2>3. CASE BeginMirrored(c) \/ TimeoutMirrored(c)
      <3>1. jobs' = jobs
        BY <2>3 DEF BeginMirrored, TimeoutMirrored, BeginCall, BeginEnqueue,
                    BeginReconcile, BeginClaim, BeginHeartbeat, BeginFinish,
                    Begin, LockTimeout
      <3> QED
        BY <2>3, <3>1 DEF BeginMirrored, TimeoutMirrored, mirrorVars
    <2>4. CASE CommitMirrored(c)
      <3>1. CASE call'[c].phase = "saving"
        <4>1. /\ generation' = generation + 1
              /\ generation \in Nat
              /\ Goto(c, "generation")
              /\ mirror' = mirror
          BY <2>4, <3>1 DEF CommitMirrored, Bumps, MirrorTypeOK
        <4>2. mirror.gen \in Int /\ \A d \in Clients : save[d].gen \in Nat
          BY DEF MirrorTypeOK, Mirror, Payload
        <4> QED
          BY <4>1, <4>2 DEF Goto, At, MirrorTypeOK
      <3>2. CASE call'[c].phase # "saving"
        BY <2>4, <3>2, UnbumpedCommit DEF CommitMirrored, Bumps
      <3> QED
        BY <3>1, <3>2
    <2>5. CASE ReadGeneration(c)
      BY <2>5 DEF ReadGeneration, MirrorTypeOK, At, vars
    <2>6. CASE ReadRows(c)
      BY <2>6 DEF ReadRows, MirrorTypeOK, Payload, vars
    <2>7. CASE Replace(c)
      <3>1. jobs' = jobs
        BY <2>7 DEF Replace, SaveMirror, vars
      <3> QED
        BY <2>7, <3>1 DEF Replace, Goto, At, MirrorTypeOK
    <2>8. CASE FailSave(c) \/ Stop(c)
      <3>1. jobs' = jobs /\ UNCHANGED <<generation, mirror>>
        BY <2>8 DEF FailSave, Stop, SaveFails, Crash, vars
      <3>2. Goto(c, "open") \/ Goto(c, "closed")
        BY <2>8 DEF FailSave, Stop
      <3> QED
        BY <3>1, <3>2, QuietHonest DEF Steps
    <2> QED
      BY <1>2, <2>1, <2>2, <2>3, <2>4, <2>5, <2>6, <2>7, <2>8 DEF ClientStep
  <1>3. CASE TickMirrored
    <2>1. jobs' = AgedRows(jobs)
      BY <1>3 DEF TickMirrored, Tick, AgedRows
    <2>2. mirror'.gen = mirror.gen /\ mirror'.rows = AgedRows(mirror.rows)
      BY <1>3 DEF TickMirrored, MirrorTypeOK, Mirror
    <2>3. \A c \in Clients : /\ save'[c].step = save[c].step
                             /\ save'[c].gen = save[c].gen
                             /\ save'[c].rows = AgedRows(save[c].rows)
      BY <1>3 DEF TickMirrored, MirrorTypeOK, Payload
    <2> QED
      BY <1>3, <2>1, <2>2, <2>3 DEF TickMirrored
  <1>4. CASE DamageMirror
    BY <1>4 DEF DamageMirror, NoMirror, MirrorTypeOK, vars
  <1> QED
    BY <1>1, <1>2, <1>3, <1>4 DEF MirrorNext

\* The mirror never names a generation the database has not reached, and one
\* that names the current generation is an exact copy of the rows, however
\* many processes commit and mirror at once and wherever they die.
THEOREM MirrorHonestHolds == MirrorSpec => []MirrorHonest
  <1>1. MirrorSpec => []TypeOK
    BY MirrorImplementsQueue, TypeCorrect, PTL DEF QueueSpec
  <1>2. MirrorSpec => []Honest
    BY <1>1, MirrorTypeCorrect, InitHonest, NextHonest, PTL DEF MirrorSpec
  <1>3. Honest => MirrorHonest
    BY DEF Honest
  <1> QED
    BY <1>2, <1>3, PTL

-----------------------------------------------------------------------------
(* Recovery: what its steps are to the mirrored queue.                      *)

\* A step is one of the mirrored queue, or one of restore_latest's writes.
LEMMA RecoveryStep ==
    [RecoveryNext]_everyVar =>
        [MirrorNext]_allVars \/ RestoreBackup \/ ReplayMirror \/ WriteMirror
  <1> SUFFICES ASSUME [RecoveryNext]_everyVar
               PROVE  [MirrorNext]_allVars \/ RestoreBackup \/ ReplayMirror \/ WriteMirror
    OBVIOUS
  <1>1. ASSUME NEW c \in Clients, Work(c) PROVE MirrorNext
    BY <1>1 DEF Work, UsesDatabase, SparesDatabase, AcknowledgeExisting, ReplaceAndReturn, MirrorNext, ClientStep
  <1>2. CASE TickAll
    BY <1>2 DEF TickAll, MirrorNext
  <1>3. CASE TakeBackup \/ LoseDatabase \/ InterruptRestore \/ UNCHANGED everyVar
    BY <1>3 DEF TakeBackup, LoseDatabase, InterruptRestore, everyVar
  <1> QED
    BY <1>1, <1>2, <1>3 DEF RecoveryNext, Restore

\* The types of the queue, its mirror and its backup, and how the parts of a
\* call hang together, which restoring the queue leaves alone.
BackupThere ==
    /\ backup.gen \in Nat \/ backup = NoBackup
    /\ restore # "none" \/ ~intact => backup.gen \in Nat

RecoveryShape == TypeOK /\ CallInv /\ MirrorTypeOK /\ RecoveryTypeOK /\ BackupThere

LEMMA CopiedType ==
    ASSUME RecoveryTypeOK, NEW rows, NEW told \in [Keys -> Promises]
    PROVE  Copied(rows, told) \in [Keys -> Promises]
  BY DEF Copied, RecoveryTypeOK

LEMMA InitRecoveryShape == RecoveryInit => RecoveryShape
  <1> SUFFICES ASSUME RecoveryInit PROVE RecoveryShape
    OBVIOUS
  <1>1. Init /\ MirrorInit
    BY DEF RecoveryInit, MirrorInit
  <1>2. NoBackup \in Backup
    BY MirrorNullFacts DEF NoBackup, Backup
  <1> QED
    BY <1>1, <1>2, InitTypeOK, InitCallInv, InitMirrorTypeOK
       DEF RecoveryShape, RecoveryInit, RecoveryTypeOK, RestoreSteps, Promises, BackupThere

LEMMA NextRecoveryShape ==
    RecoveryShape /\ [RecoveryNext]_everyVar => RecoveryShape'
  <1> SUFFICES ASSUME RecoveryShape, [RecoveryNext]_everyVar
               PROVE  RecoveryShape'
    OBVIOUS
  <1>1. TypeOK' /\ CallInv' /\ MirrorTypeOK'
    <2>1. CASE [MirrorNext]_allVars
      BY <2>1, MirrorStepQueue, NextTypeOK, NextCallInv, NextMirrorTypeOK DEF RecoveryShape
    <2>2. CASE RestoreBackup \/ ReplayMirror
      <3>1. UNCHANGED <<call, held, save, mirror>>
        BY <2>2 DEF RestoreBackup, ReplayMirror
      <3>2. jobs' \in [Keys -> Row]
        BY <2>2 DEF RestoreBackup, ReplayMirror, RecoveryShape, RecoveryTypeOK, TypeOK,
                    Backup, MirrorTypeOK, Mirror
      <3>3. generation' \in Nat
        <4>1. CASE ReplayMirror
          BY <4>1 DEF ReplayMirror, RecoveryShape, RecoveryTypeOK, Backup, MirrorTypeOK, Mirror
        <4>2. CASE RestoreBackup
          BY <4>2 DEF RestoreBackup, RecoveryShape, BackupThere
        <4> QED
          BY <2>2, <4>1, <4>2
      <3> QED
        BY <3>1, <3>2, <3>3 DEF RecoveryShape, TypeOK, CallInv, MirrorTypeOK
    <2>3. CASE WriteMirror
      BY <2>3 DEF WriteMirror, vars, RecoveryShape, TypeOK, CallInv, MirrorTypeOK, Mirror
    <2> QED
      BY <2>1, <2>2, <2>3, RecoveryStep
  <1>2. RecoveryTypeOK' /\ BackupThere'
    <2>0. RecoveryTypeOK /\ BackupThere
      BY DEF RecoveryShape
    <2>1. ASSUME NEW c \in Clients, Work(c) PROVE RecoveryTypeOK' /\ BackupThere'
      <3>1. CASE UNCHANGED recoveryVars
        BY <2>0, <3>1 DEF recoveryVars, RecoveryTypeOK, BackupThere
      <3>2. CASE ReplaceAndReturn(c)
        <4>1. Told(c) \in Promises
          BY DEF Told, Promises
        <4>2. Copied(save[c].rows, promised) \in [Keys -> Promises]
          BY <2>0, CopiedType DEF RecoveryTypeOK
        <4>3. promised' \in [Keys -> Promises] /\ copied' \in [Keys -> Promises]
          BY <2>0, <3>2, <4>1, <4>2 DEF ReplaceAndReturn, RecoveryTypeOK
        <4> QED
          BY <2>0, <3>2, <4>3 DEF ReplaceAndReturn, RecoveryTypeOK, BackupThere
      <3>3. CASE AcknowledgeExisting(c)
        BY <2>0, <3>3 DEF AcknowledgeExisting, RecoveryTypeOK, Promises, BackupThere
      <3> QED
        BY <2>1, <3>1, <3>2, <3>3 DEF Work
    <2>2. CASE TakeBackup
      BY <2>0, <2>2, CopiedType DEF TakeBackup, RecoveryTypeOK, BackupThere, Backup, RecoveryShape,
                        TypeOK, MirrorTypeOK
    <2>3. CASE LoseDatabase
      BY <2>0, <2>3 DEF LoseDatabase, RecoveryTypeOK, BackupThere, Backup
    <2>4. CASE RestoreBackup \/ ReplayMirror \/ WriteMirror \/ InterruptRestore
      BY <2>0, <2>4 DEF RestoreBackup, ReplayMirror, WriteMirror, InterruptRestore,
                        RecoveryTypeOK, RestoreSteps, BackupThere
    <2>5. CASE TickAll
      <3>1. AgedRows(NoRows) = NoRows
        BY DEF AgedRows, NoRows, Aged, NoRow
      <3>2. backup' = [backup EXCEPT !.rows = AgedRows(backup.rows)]
        BY <2>5 DEF TickAll
      <3>3. backup = NoBackup => backup' = NoBackup
        BY <3>1, <3>2 DEF NoBackup
      <3> QED
        BY <2>0, <2>5, <3>2, <3>3, AgedRowsType DEF TickAll, RecoveryTypeOK, BackupThere, Backup
    <2>6. CASE UNCHANGED everyVar
      BY <2>0, <2>6 DEF everyVar, recoveryVars, RecoveryTypeOK, BackupThere
    <2> QED
      BY <2>1, <2>2, <2>3, <2>4, <2>5, <2>6 DEF RecoveryNext, Restore
  <1> QED
    BY <1>1, <1>2 DEF RecoveryShape

-----------------------------------------------------------------------------
(* Where the call of a process is while the process opens or mirrors the    *)
(* queue: only a process that has opened it has a call under way, and one   *)
(* whose call is being saved is mirroring.                                  *)

InPlace(c) ==
    /\ save[c].step \in {"closed", "check"} => call[c] = Idle
    /\ save[c].step \in Saving => call[c] = Idle \/ call[c].phase = "saving"
    /\ save[c].step = "open" => call[c].phase = "waiting"
    /\ save[c].step = "closed" => save[c].gen = 0

AllInPlace == \A c \in Clients : InPlace(c)

\* restore_latest works only while no controller has the queue open.
RestoreAlone == restore # "none" => intact /\ AllStopped

LEMMA CommittedCall ==
    ASSUME TypeOK, NEW c \in Clients, CommitCall(c)
    PROVE  /\ call[c].op # "idle" /\ call[c].phase = "waiting"
           /\ call'[c].phase = "saving" \/ call'[c] = Idle
           /\ \A d \in Clients \ {c} : call'[d] = call[d]
  <1> USE DEF Waiting, Finishes
  <1>1. CASE CommitEnqueue(c)
    <2>1. Waiting(c, "enqueue") /\ (Return(c) \/ Save(c))
      BY <1>1 DEF CommitEnqueue
    <2> QED
      BY <2>1 DEF Return, Save, TypeOK, Call
  <1>2. CASE CommitClaim(c)
    <2>1. Waiting(c, "claim") /\ (Return(c) \/ \E k, n : SaveClaim(c, k, n))
      BY <1>2 DEF CommitClaim
    <2>2. CASE Return(c)
      BY <2>1, <2>2 DEF Return, TypeOK
    <2>3. ASSUME NEW k, NEW n, SaveClaim(c, k, n)
          PROVE  /\ call'[c].phase = "saving"
                 /\ \A d \in Clients \ {c} : call'[d] = call[d]
      BY <2>3 DEF SaveClaim, TypeOK, Idle
    <2> QED
      BY <2>1, <2>2, <2>3
  <1>3. CASE CommitHeartbeat(c)
    BY <1>3 DEF CommitHeartbeat, Save, TypeOK, Call
  <1>4. CASE CommitFinish(c)
    BY <1>4 DEF CommitFinish, Save, TypeOK, Call
  <1>5. CASE CommitReconcile(c)
    BY <1>5 DEF CommitReconcile, Return, Save, TypeOK, Call
  <1>6. CASE RefuseHeartbeat(c) \/ RefuseFinish(c)
    BY <1>6 DEF RefuseHeartbeat, RefuseFinish, Return, TypeOK
  <1> QED
    BY <1>1, <1>2, <1>3, <1>4, <1>5, <1>6 DEF CommitCall

LEMMA NextInPlace ==
    TypeOK /\ MirrorTypeOK /\ AllInPlace /\ [MirrorNext]_allVars => AllInPlace'
  <1> SUFFICES ASSUME TypeOK, MirrorTypeOK, AllInPlace, [MirrorNext]_allVars
               PROVE  AllInPlace'
    OBVIOUS
  <1>0. /\ call \in [Clients -> Call] /\ save \in [Clients -> Payload]
        /\ Idle.phase = "waiting" /\ Idle.op = "idle"
    BY DEF TypeOK, MirrorTypeOK, Idle
  <1>same. ASSUME NEW d \in Clients, call'[d] = call[d], save'[d] = save[d]
           PROVE  InPlace(d)'
    BY <1>same DEF InPlace, AllInPlace
  <1>1. CASE UNCHANGED allVars
    BY <1>1, <1>same DEF allVars, vars, mirrorVars, AllInPlace
  <1>2. ASSUME NEW c \in Clients, ClientStep(c) PROVE AllInPlace'
    <2>1. \A d \in Clients \ {c} : call'[d] = call[d] /\ save'[d] = save[d]
      <3>1. \A d \in Clients \ {c} : save'[d] = save[d]
        BY <1>0, <1>2 DEF ClientStep, Open, CheckMirror, BeginMirrored, CommitMirrored,
           TimeoutMirrored, ReadGeneration, ReadRows, Replace, FailSave, Stop, Goto, mirrorVars
      <3>2. CASE BeginMirrored(c)
        BY <1>0, <3>1, <3>2 DEF BeginMirrored, BeginCall, BeginEnqueue, BeginReconcile,
           BeginClaim, BeginHeartbeat, BeginFinish, Begin
      <3>3. CASE CommitMirrored(c)
        BY <3>1, <3>3, CommittedCall DEF CommitMirrored
      <3>4. CASE ~BeginMirrored(c) /\ ~CommitMirrored(c)
        BY <1>0, <1>2, <3>1, <3>4 DEF ClientStep, Open, CheckMirror, TimeoutMirrored,
           ReadGeneration, ReadRows, Replace, FailSave, Stop, vars, LockTimeout, SaveMirror,
           SaveFails, Crash, Return
      <3> QED
        BY <3>2, <3>3, <3>4
    <2>2. InPlace(c)'
      <3>0. InPlace(c)
        BY DEF AllInPlace
      <3>1. CASE Open(c) \/ CheckMirror(c)
        BY <1>0, <3>0, <3>1 DEF Open, CheckMirror, Goto, At, vars, InPlace, Saving
      <3>2. CASE BeginMirrored(c)
        BY <1>0, <3>0, <3>2 DEF BeginMirrored, BeginCall, BeginEnqueue, BeginReconcile,
           BeginClaim, BeginHeartbeat, BeginFinish, Begin, mirrorVars, InPlace, Saving, Idle
      <3>3. CASE CommitMirrored(c)
        <4>1. save[c].step = "open"
          BY <1>0, <3>0, <3>3, CommittedCall DEF CommitMirrored, InPlace, Payload, Steps, Saving
        <4>2. call'[c].phase = "saving" \/ call'[c] = Idle
          BY <3>3, CommittedCall DEF CommitMirrored
        <4>3. IF call'[c].phase = "saving" THEN save'[c] = At("generation") ELSE save'[c] = save[c]
          BY <1>0, <3>3 DEF CommitMirrored, Goto
        <4> QED
          BY <1>0, <4>1, <4>2, <4>3 DEF InPlace, At, Saving
      <3>4. CASE TimeoutMirrored(c)
        BY <1>0, <3>0, <3>4 DEF TimeoutMirrored, LockTimeout, Return, mirrorVars, InPlace, Saving
      <3>5. CASE ReadGeneration(c) \/ ReadRows(c)
        BY <1>0, <3>0, <3>5 DEF ReadGeneration, ReadRows, At, vars, InPlace, Saving, Payload
      <3>6. CASE Replace(c) \/ FailSave(c) \/ Stop(c)
        BY <1>0, <3>0, <3>6 DEF Replace, FailSave, Stop, SaveMirror, SaveFails, Crash, Return,
           Goto, At, vars, InPlace, Saving
      <3> QED
        BY <1>2, <3>1, <3>2, <3>3, <3>4, <3>5, <3>6 DEF ClientStep
    <2> QED
      BY <1>same, <2>1, <2>2 DEF AllInPlace
  <1>3. CASE TickMirrored
    <2> SUFFICES ASSUME NEW d \in Clients PROVE InPlace(d)'
      BY DEF AllInPlace
    <2>1. save'[d].step = save[d].step /\ save'[d].gen = save[d].gen
      BY <1>0, <1>3 DEF TickMirrored, Payload
    <2>2. call'[d].phase = call[d].phase /\ (call[d] = Idle => call'[d] = Idle)
      BY <1>0, <1>3 DEF TickMirrored, Tick, IsWaiting, Call
    <2> QED
      BY <2>1, <2>2 DEF AllInPlace, InPlace
  <1>4. CASE DamageMirror
    BY <1>4, <1>same DEF DamageMirror, vars, AllInPlace
  <1> QED
    BY <1>1, <1>2, <1>3, <1>4 DEF MirrorNext

\* A process that has not opened the queue does nothing while it is restored.
LEMMA WorkInService ==
    ASSUME TypeOK, AllInPlace, RestoreAlone, NEW c \in Clients, Work(c)
    PROVE  restore = "none" /\ ClientStep(c) /\ UNCHANGED <<intact, backup, restore>>
  <1>1. SUFFICES ASSUME restore # "none" PROVE FALSE
    BY DEF Work, UsesDatabase, SparesDatabase, AcknowledgeExisting, ReplaceAndReturn, ClientStep, recoveryVars
  <1>2. save[c].step = "closed" /\ call[c].op = "idle" /\ call[c].phase = "waiting"
    BY <1>1 DEF RestoreAlone, AllStopped, AllInPlace, InPlace, Idle
  <1>3. ~CommitMirrored(c)
    BY <1>2, CommittedCall DEF CommitMirrored
  <1> QED
    BY <1>1, <1>2, <1>3 DEF Work, UsesDatabase, SparesDatabase, AcknowledgeExisting, ReplaceAndReturn, Open,
       BeginMirrored, TimeoutMirrored, LockTimeout, ReadGeneration, ReadRows, Replace,
       CheckMirror, FailSave, Stop, Saving

LEMMA NextRestoreAlone ==
    RecoveryShape /\ AllInPlace /\ RestoreAlone /\ [RecoveryNext]_everyVar
        => AllInPlace' /\ RestoreAlone'
  <1> SUFFICES ASSUME RecoveryShape, AllInPlace, RestoreAlone, [RecoveryNext]_everyVar
               PROVE  AllInPlace' /\ RestoreAlone'
    OBVIOUS
  <1>0. TypeOK /\ MirrorTypeOK
    BY DEF RecoveryShape
  <1>1. AllInPlace'
    <2>1. CASE [MirrorNext]_allVars
      BY <1>0, <2>1, NextInPlace
    <2>2. CASE RestoreBackup \/ ReplayMirror \/ WriteMirror
      BY <2>2 DEF RestoreBackup, ReplayMirror, WriteMirror, vars, AllInPlace, InPlace
    <2> QED
      BY <2>1, <2>2, RecoveryStep
  <1>2. RestoreAlone'
    <2>2. ASSUME NEW c \in Clients, Work(c)
          PROVE  RestoreAlone'
      BY <1>0, <2>2, WorkInService DEF RestoreAlone
    <2>3. CASE TakeBackup \/ LoseDatabase \/ UNCHANGED everyVar
      BY <2>3 DEF TakeBackup, LoseDatabase, everyVar, allVars, mirrorVars, recoveryVars,
                  RestoreAlone, AllStopped
    <2>4. CASE RestoreBackup \/ ReplayMirror \/ WriteMirror \/ InterruptRestore
      BY <2>4 DEF RestoreBackup, ReplayMirror, WriteMirror, InterruptRestore, allVars,
                  mirrorVars, RestoreAlone, AllStopped
    <2>5. CASE TickAll
      <3>1. \A c \in Clients : save'[c].step = save[c].step
        BY <1>0, <2>5 DEF TickAll, TickMirrored, MirrorTypeOK, Payload
      <3> QED
        BY <2>5, <3>1 DEF TickAll, RestoreAlone, AllStopped
    <2> QED
      BY <2>2, <2>3, <2>4, <2>5 DEF RecoveryNext, Restore
  <1> QED
    BY <1>1, <1>2

-----------------------------------------------------------------------------
(* Honest copies.  The backup is a copy as the mirror is: it never names a  *)
(* generation the database has not reached, and is exact if it names the    *)
(* current one.  While restore_latest works the database may be older than  *)
(* the mirror, until it has been replayed.                                  *)

BackupHonest ==
    /\ backup.gen <= generation
    /\ backup.gen = generation => backup.rows = jobs

CopiesInv ==
    /\ backup.gen <= generation
    /\ restore = "none" => Honest /\ BackupHonest
    /\ restore = "replay" => generation = backup.gen /\ jobs = backup.rows
    /\ restore = "write" => BackupHonest

RecoveryInv == RecoveryShape /\ AllInPlace /\ RestoreAlone /\ CopiesInv

LEMMA InitRecoveryInv == RecoveryInit => RecoveryInv
  <1> SUFFICES ASSUME RecoveryInit PROVE RecoveryInv
    OBVIOUS
  <1>1. AllInPlace /\ RestoreAlone
    BY DEF RecoveryInit, MirrorInit, Init, AllInPlace, InPlace, RestoreAlone, At, Idle, Saving
  <1>2. CopiesInv
    BY InitHonest DEF RecoveryInit, MirrorInit, CopiesInv, BackupHonest, NoBackup
  <1> QED
    BY <1>1, <1>2, InitRecoveryShape DEF RecoveryInv

\* A step of a process that changes the rows bumps the generation.
LEMMA RowsFollowGeneration ==
    ASSUME TypeOK, NEW c \in Clients, ClientStep(c)
    PROVE  \/ generation' = generation + 1
           \/ generation' = generation /\ jobs' = jobs
  <1>1. CASE CommitMirrored(c)
    BY <1>1, UnbumpedCommit DEF CommitMirrored, Bumps
  <1>2. CASE ~CommitMirrored(c)
    BY <1>2 DEF ClientStep, Open, CheckMirror, BeginMirrored, TimeoutMirrored, ReadGeneration,
       ReadRows, Replace, FailSave, Stop, BeginCall, BeginEnqueue, BeginReconcile, BeginClaim,
       BeginHeartbeat, BeginFinish, Begin, LockTimeout, SaveMirror, SaveFails, Crash, vars,
       mirrorVars
  <1> QED
    BY <1>1, <1>2

LEMMA NextCopiesInv ==
    RecoveryInv /\ [RecoveryNext]_everyVar => CopiesInv'
  <1> SUFFICES ASSUME RecoveryInv, [RecoveryNext]_everyVar
               PROVE  CopiesInv'
    OBVIOUS
  <1>0. /\ TypeOK /\ MirrorTypeOK /\ RecoveryTypeOK /\ BackupThere
        /\ AllInPlace /\ RestoreAlone /\ CopiesInv
        /\ backup.gen \in Int /\ generation \in Nat /\ mirror.gen \in Int
    BY DEF RecoveryInv, RecoveryShape, RecoveryTypeOK, Backup, MirrorTypeOK, Mirror
  <1>1. ASSUME NEW c \in Clients, Work(c) PROVE CopiesInv'
    <2>1. restore = "none" /\ ClientStep(c) /\ UNCHANGED <<backup, restore>>
      BY <1>0, <1>1, WorkInService
    <2>2. Honest'
      BY <1>0, <2>1, NextHonest DEF CopiesInv, MirrorNext
    <2>3. BackupHonest'
      BY <1>0, <2>1, RowsFollowGeneration DEF CopiesInv, BackupHonest
    <2> QED
      BY <2>1, <2>2, <2>3 DEF CopiesInv, BackupHonest
  <1>2. CASE TakeBackup
    BY <1>0, <1>2 DEF TakeBackup, allVars, vars, mirrorVars, CopiesInv, BackupHonest, Honest,
       MirrorHonest, PayloadHonest, RestoreAlone
  <1>3. CASE LoseDatabase \/ InterruptRestore \/ UNCHANGED everyVar
    BY <1>0, <1>3 DEF LoseDatabase, InterruptRestore, everyVar, recoveryVars, allVars, vars,
       mirrorVars, CopiesInv, BackupHonest, Honest, MirrorHonest, PayloadHonest
  <1>4. CASE RestoreBackup
    BY <1>0, <1>4 DEF RestoreBackup, CopiesInv
  <1>5. CASE ReplayMirror
    BY <1>0, <1>5 DEF ReplayMirror, CopiesInv, BackupHonest
  <1>6. CASE WriteMirror
    <2>1. BackupHonest' /\ MirrorHonest'
      BY <1>0, <1>6 DEF WriteMirror, CopiesInv, BackupHonest, MirrorHonest, vars
    <2>2. PayloadHonest'
      BY <1>0, <1>6 DEF WriteMirror, PayloadHonest, RestoreAlone, AllStopped, AllInPlace, InPlace
    <2> QED
      BY <1>6, <2>1, <2>2 DEF WriteMirror, CopiesInv, BackupHonest, Honest
  <1>7. CASE TickAll
    <2>1. jobs' = AgedRows(jobs) /\ generation' = generation /\ restore' = restore
      BY <1>7 DEF TickAll, TickMirrored, Tick, AgedRows
    <2>2. backup'.gen = backup.gen /\ backup'.rows = AgedRows(backup.rows)
      BY <1>0, <1>7 DEF TickAll, RecoveryTypeOK, Backup
    <2>3. restore = "none" => Honest'
      BY <1>0, <1>7, NextHonest DEF TickAll, MirrorNext, CopiesInv
    <2> QED
      BY <1>0, <2>1, <2>2, <2>3 DEF CopiesInv, BackupHonest
  <1> QED
    BY <1>1, <1>2, <1>3, <1>4, <1>5, <1>6, <1>7 DEF RecoveryNext, Restore

LEMMA NextRecoveryInv == RecoveryInv /\ [RecoveryNext]_everyVar => RecoveryInv'
  BY NextRecoveryShape, NextRestoreAlone, NextCopiesInv DEF RecoveryInv

LEMMA RecoveryInvHolds == RecoverySpec => []RecoveryInv
  BY InitRecoveryInv, NextRecoveryInv, PTL DEF RecoverySpec

\* The generation that the queue, its mirror and its backup carry identifies a
\* content, for any number of controllers and whenever the database is lost and
\* restore_latest dies: whenever the queue is in service neither copy claims a
\* generation that was not reached, and a copy of the current one is exact.
THEOREM CopiesHonestHolds == RecoverySpec => []CopiesHonest
  <1>1. RecoveryInv => CopiesHonest
    BY DEF RecoveryInv, CopiesInv, CopiesHonest, Honest, BackupHonest
  <1> QED
    BY <1>1, RecoveryInvHolds, PTL

LEMMA RecoveryServes ==
    [RecoveryNext]_everyVar => [intact /\ restore = "none" => [Next]_vars]_vars
  <1> SUFFICES ASSUME [RecoveryNext]_everyVar, intact, restore = "none"
               PROVE  [Next]_vars
    OBVIOUS
  <1>1. [MirrorNext]_allVars
    BY RecoveryStep DEF RestoreBackup, ReplayMirror, WriteMirror
  <1> QED
    BY <1>1, MirrorStepQueue

\* While the queue is in service the controllers cannot tell that it is mirrored,
\* backed up and restored: every step of theirs and of the rows is one of
\* FleetQueue, however often the database was lost before.
THEOREM ServedAsQueueHolds == RecoverySpec => ServedAsQueue
  <1>1. RecoveryInit => Init
    BY DEF RecoveryInit, MirrorInit
  <1> QED
    BY <1>1, RecoveryServes, PTL DEF RecoverySpec, ServedAsQueue

-----------------------------------------------------------------------------
(* One controller.  What it reads for a mirror is the content of the        *)
(* generation it read, as nobody else commits; so the newer of the mirror   *)
(* and the backup always holds what a copy ever had of the promises.        *)

SoleNext(c) == RecoveryNext /\ \A d \in Clients \ {c} : UNCHANGED save[d]
SoleSpec(c) == RecoveryInit /\ [][SoleNext(c)]_everyVar

KeptIn(rows) == \A k \in Keys : Shows(rows[k], copied[k])

\* What restore_latest makes of the two copies.
Newest == IF mirror.gen > backup.gen THEN mirror.rows ELSE backup.rows

ReadsCurrent(c) ==
    /\ save[c].step \in {"rows", "replace"} => save[c].gen = generation
    /\ save[c].step = "replace" => save[c].rows = jobs

\* What a call will tell its caller when it is saved is so already.
TellsTrue(c) ==
    Tells(c) =>
        /\ call[c].key \in Keys
        /\ call[c].op = "enqueue" => jobs[call[c].key].state # "ABSENT"
        /\ call[c].op # "enqueue" => jobs[call[c].key].state \in Settled

SoleInv(c) ==
    /\ \A d \in Clients \ {c} : save[d].step = "closed"
    /\ restore = "none" => ReadsCurrent(c) /\ TellsTrue(c)
    /\ restore = "write" => mirror.gen <= generation
    /\ mirror.gen <= generation => KeptIn(jobs)
    /\ backup.gen \in Nat => KeptIn(Newest)

LEMMA RowsOnlyAdvance ==
    ASSUME TypeOK, CallInv, [Next]_vars, NEW k \in Keys
    PROVE  /\ jobs[k].state # "ABSENT" => jobs'[k].state # "ABSENT"
           /\ jobs[k].state \in Settled => jobs'[k].state \in Settled
  BY NextSteps DEF RowStep, RowKept, Accepted, Freed, ClaimedBy, Settled

LEMMA ShownStays ==
    ASSUME TypeOK, CallInv, [Next]_vars, NEW k \in Keys, NEW promise \in Promises,
           Shows(jobs[k], promise)
    PROVE  Shows(jobs'[k], promise)
  BY RowsOnlyAdvance DEF Shows, Promises

LEMMA CommitTellsTrue ==
    ASSUME TypeOK, CallInv, NEW c \in Clients, CommitCall(c)
    PROVE  TellsTrue(c)'
  <1>0. /\ call \in [Clients -> Call] /\ jobs \in [Keys -> Row]
        /\ \A op \in {"enqueue"} \cup Finishes : Waiting(c, op) => call[c].key \in Keys
    BY DEF TypeOK, CallInv, Waiting
  <1>saved. ASSUME Save(c) PROVE call'[c].op = call[c].op /\ call'[c].key = call[c].key
    BY <1>0, <1>saved DEF Save, Call
  <1>returned. ASSUME Return(c) PROVE TellsTrue(c)'
    BY <1>0, <1>returned DEF Return, TellsTrue, Tells, Idle
  <1>1. CASE CommitEnqueue(c)
    <2>1. CASE jobs[call[c].key].state = "ABSENT"
      <3>1. Waiting(c, "enqueue") /\ Save(c) /\ jobs'[call[c].key].state = "QUEUED"
        BY <1>0, <1>1, <2>1 DEF CommitEnqueue, NoRow
      <3>2. call'[c].op = "enqueue" /\ call'[c].key = call[c].key
        BY <1>saved, <3>1 DEF Waiting
      <3> QED
        BY <1>0, <3>1, <3>2 DEF TellsTrue, Tells
    <2> QED
      BY <1>1, <1>returned, <2>1 DEF CommitEnqueue
  <1>2. CASE CommitFinish(c)
    <2>1. PICK op \in Finishes :
             /\ Waiting(c, op)
             /\ jobs' = [jobs EXCEPT ![call[c].key] =
                            Unleased(jobs[call[c].key], FinishState(op, jobs[call[c].key], call[c].key))]
      BY <1>2 DEF CommitFinish
    <2>2. jobs'[call[c].key].state = FinishState(op, jobs[call[c].key], call[c].key)
      BY <1>0, <2>1, UnleasedFields
    <2>3. Save(c)
      BY <1>2 DEF CommitFinish
    <2>4. call'[c].op = op /\ call'[c].key = call[c].key /\ call[c].key \in Keys
      BY <1>0, <1>saved, <2>1, <2>3 DEF Waiting
    <2>5. op \in {"complete", "fail_no_retry"} => jobs'[call[c].key].state \in Settled
      BY <2>2 DEF FinishState, Settled
    <2> QED
      BY <2>1, <2>4, <2>5 DEF TellsTrue, Tells, Finishes
  <1>3. CASE CommitClaim(c)
    <2>1. Return(c) \/ \E k, n : SaveClaim(c, k, n)
      BY <1>3 DEF CommitClaim
    <2>2. ASSUME NEW k, NEW n, SaveClaim(c, k, n) PROVE TellsTrue(c)'
      BY <1>0, <2>2 DEF SaveClaim, TellsTrue, Tells, Idle
    <2> QED
      BY <1>returned, <2>1, <2>2
  <1>4. CASE CommitHeartbeat(c) \/ CommitReconcile(c) \/ RefuseHeartbeat(c) \/ RefuseFinish(c)
    <2>1. Return(c) \/ (Save(c) /\ call[c].op \in {"heartbeat", "reconcile"})
      BY <1>4 DEF CommitHeartbeat, CommitReconcile, RefuseHeartbeat, RefuseFinish, Waiting
    <2> QED
      BY <1>returned, <1>saved, <2>1 DEF TellsTrue, Tells
  <1> QED
    BY <1>1, <1>2, <1>3, <1>4 DEF CommitCall

\* The acknowledgement of a key that is there changes nothing but the histories.
LEMMA AcknowledgementReads ==
    ASSUME TypeOK, CallInv, NEW c \in Clients, AcknowledgeExisting(c)
    PROVE  /\ call[c].key \in Keys
           /\ jobs' = jobs /\ generation' = generation /\ mirror' = mirror
  <1>1. /\ Waiting(c, "enqueue") /\ CommitMirrored(c)
        /\ jobs[call[c].key].state # "ABSENT"
    BY DEF AcknowledgeExisting
  <1>2. call[c].key \in Keys
    BY <1>1 DEF CallInv, Waiting, TypeOK
  <1>3. CommitEnqueue(c)
    BY <1>1 DEF CommitMirrored, CommitCall, CommitClaim, CommitHeartbeat, CommitFinish,
                CommitReconcile, RefuseHeartbeat, RefuseFinish, Waiting, Finishes
  <1>4. jobs' = jobs /\ Return(c)
    BY <1>1, <1>3 DEF CommitEnqueue
  <1>5. call'[c] = Idle
    BY <1>4 DEF Return, TypeOK
  <1> QED
    BY <1>1, <1>2, <1>4, <1>5 DEF CommitMirrored, Bumps, Idle

LEMMA InitSoleInv == ASSUME NEW c \in Clients PROVE RecoveryInit => SoleInv(c)
  BY DEF RecoveryInit, MirrorInit, Init, SoleInv, ReadsCurrent, TellsTrue, Tells, KeptIn, Shows,
         NoBackup, At, Idle

LEMMA NextSoleInv ==
    ASSUME NEW c \in Clients, RecoveryInv, SoleInv(c), [SoleNext(c)]_everyVar
    PROVE  SoleInv(c)'
  <1>0. /\ TypeOK /\ CallInv /\ MirrorTypeOK /\ RecoveryTypeOK /\ BackupThere
        /\ AllInPlace /\ RestoreAlone /\ CopiesInv
        /\ backup.gen \in Int /\ generation \in Nat /\ mirror.gen \in Int
        /\ call \in [Clients -> Call] /\ save \in [Clients -> Payload]
    BY DEF RecoveryInv, RecoveryShape, RecoveryTypeOK, Backup, MirrorTypeOK, Mirror, TypeOK
  <1>1. \A d \in Clients \ {c} : save'[d].step = "closed"
    <2>1. CASE UNCHANGED everyVar
      BY <2>1 DEF everyVar, allVars, mirrorVars, SoleInv
    <2>2. CASE SoleNext(c)
      BY <2>2 DEF SoleNext, SoleInv
    <2> QED
      BY <2>1, <2>2
  <1>2. ASSUME NEW d \in Clients \ {c}, Work(d), UNCHANGED save[d]
        PROVE  FALSE
    <2>1. save[d].step = "closed" /\ call[d].op = "idle" /\ call[d].phase = "waiting"
      BY <1>0 DEF SoleInv, AllInPlace, InPlace, Idle
    <2>2. ~CommitMirrored(d)
      BY <1>0, <2>1, CommittedCall DEF CommitMirrored
    <2>3. ~Open(d)
      BY <1>0, <1>2, <2>1 DEF Open, At
    <2> QED
      BY <1>2, <2>1, <2>2, <2>3 DEF Work, UsesDatabase, SparesDatabase, AcknowledgeExisting, ReplaceAndReturn,
         BeginMirrored, TimeoutMirrored, LockTimeout, ReadGeneration, ReadRows, Replace,
         CheckMirror, FailSave, Stop, Saving
  <1>3. CASE Work(c)
    <2>1. restore = "none" /\ ClientStep(c) /\ UNCHANGED <<intact, backup, restore>>
      BY <1>0, <1>3, WorkInService
    <2>2. [Next]_vars
      BY <2>1, MirrorStepQueue DEF MirrorNext
    <2>kept. ASSUME copied' = copied PROVE KeptIn(jobs)'
      <3>1. mirror.gen <= generation
        BY <1>0, <2>1 DEF CopiesInv, Honest, MirrorHonest
      <3> QED
        BY <1>0, <2>1, <3>1, <2>2, <2>kept, ShownStays DEF SoleInv, KeptIn, RecoveryTypeOK
    <2>newest. ASSUME copied' = copied, mirror' = mirror
               PROVE  backup'.gen \in Nat => KeptIn(Newest)'
      BY <2>1, <2>newest DEF SoleInv, KeptIn, Newest
    <2>3. CASE CommitMirrored(c)
      <3>0. save[c].step = "open"
        <4>1. call[c].op # "idle" /\ call[c].phase = "waiting"
          BY <1>0, <2>3, CommittedCall DEF CommitMirrored
        <4>2. save[c].step \in Steps /\ InPlace(c)
          BY <1>0 DEF Payload, AllInPlace
        <4> QED
          BY <4>1, <4>2 DEF InPlace, Steps, Saving, Idle
      <3>1. TellsTrue(c)'
        BY <1>0, <2>3, CommitTellsTrue DEF CommitMirrored
      <3>2. ReadsCurrent(c)'
        <4>1. save'[c].step \in {"open", "generation"}
          BY <1>0, <2>3, <3>0 DEF CommitMirrored, Goto, At
        <4> QED
          BY <4>1 DEF ReadsCurrent
      <3>3. mirror' = mirror
        BY <2>3 DEF CommitMirrored
      <3>4. KeptIn(jobs)' /\ (backup'.gen \in Nat => KeptIn(Newest)')
        <4>1. CASE copied' = copied
          BY <2>kept, <2>newest, <3>3, <4>1
        <4>2. CASE copied' # copied
          <5> DEFINE k == call[c].key
                     told == IF jobs[k].state \in Settled THEN "settled" ELSE "accepted"
          <5>1. AcknowledgeExisting(c)
            <6>1. ~ReplaceAndReturn(c)
              BY <3>0 DEF ReplaceAndReturn, Replace
            <6> QED
              BY <1>3, <4>2, <6>1 DEF Work, recoveryVars
          <5>2. k \in Keys /\ jobs' = jobs /\ generation' = generation
            BY <1>0, <5>1, AcknowledgementReads
          <5>3. /\ CopyIsCurrent /\ copied' = [copied EXCEPT ![k] = told]
                /\ Shows(jobs[k], told)
            BY <4>2, <5>1 DEF AcknowledgeExisting, Shows
          <5>4. KeptIn(jobs)'
            BY <1>0, <2>1, <5>2, <5>3
               DEF CopiesInv, Honest, MirrorHonest, SoleInv, KeptIn, RecoveryTypeOK
          <5>5. Newest' = jobs
            BY <1>0, <2>1, <3>3, <5>3
               DEF CopyIsCurrent, Newest, CopiesInv, Honest, MirrorHonest, BackupHonest
          <5> QED
            BY <5>2, <5>4, <5>5 DEF KeptIn
        <4> QED
          BY <4>1, <4>2
      <3> QED
        BY <1>1, <2>1, <3>1, <3>2, <3>3, <3>4 DEF SoleInv
    <2>4. CASE ReplaceAndReturn(c)
      <3>1. /\ save[c].gen = generation /\ save[c].rows = jobs
            /\ jobs' = jobs /\ generation' = generation
            /\ mirror' = [gen |-> generation, rows |-> jobs]
            /\ save'[c].step = "open"
        BY <1>0, <2>1, <2>4 DEF ReplaceAndReturn, Replace, SoleInv, ReadsCurrent, SaveMirror,
           vars, Goto, At
      <3>2. KeptIn(jobs)'
        <4>1. SUFFICES ASSUME NEW k \in Keys PROVE Shows(jobs[k], copied'[k])
          BY <3>1 DEF KeptIn
        <4>2. Shows(jobs[k], copied[k])
          BY <1>0, <2>1 DEF CopiesInv, Honest, MirrorHonest, SoleInv, KeptIn
        <4>3. CASE Tells(c) /\ call[c].key = k
          <5>1. copied'[k] = Told(c)
            BY <2>4, <4>3 DEF ReplaceAndReturn, Copied
          <5>2. TellsTrue(c)
            BY <2>1 DEF SoleInv
          <5> QED
            BY <4>3, <5>1, <5>2 DEF Told, Shows, TellsTrue, Tells
        <4>4. CASE ~(Tells(c) /\ call[c].key = k)
          <5>1. copied'[k] = Copied(jobs, promised)[k]
            BY <2>4, <3>1, <4>4 DEF ReplaceAndReturn, Copied
          <5> QED
            BY <4>2, <5>1 DEF Copied
        <4> QED
          BY <4>3, <4>4
      <3>3. backup'.gen \in Nat => KeptIn(Newest)'
        <4>1. Newest' = IF generation > backup.gen THEN jobs ELSE backup.rows
          BY <2>1, <3>1 DEF Newest
        <4>2. ~(generation > backup.gen) => backup.rows = jobs
          BY <1>0, <2>1 DEF CopiesInv, BackupHonest
        <4> QED
          BY <3>1, <3>2, <4>1, <4>2 DEF KeptIn
      <3>4. TellsTrue(c)' /\ ReadsCurrent(c)'
        <4>1. call'[c].phase = "waiting"
          BY <1>0, <2>4 DEF ReplaceAndReturn, Replace, SaveMirror, Return, Idle, vars, Call
        <4> QED
          BY <3>1, <4>1 DEF TellsTrue, Tells, ReadsCurrent
      <3> QED
        BY <1>1, <2>1, <3>2, <3>3, <3>4 DEF SoleInv
    <2>5. CASE ~CommitMirrored(c) /\ ~ReplaceAndReturn(c)
      <3>1. /\ copied' = copied /\ mirror' = mirror
            /\ jobs' = jobs /\ generation' = generation
        BY <1>3, <2>5 DEF Work, AcknowledgeExisting, UsesDatabase, SparesDatabase, Open, CheckMirror, BeginMirrored,
           TimeoutMirrored, ReadGeneration, ReadRows, FailSave, Stop, BeginCall, BeginEnqueue,
           BeginReconcile, BeginClaim, BeginHeartbeat, BeginFinish, Begin, LockTimeout,
           SaveFails, Crash, vars, mirrorVars, recoveryVars
      <3>2. ReadsCurrent(c)'
        <4>0. ReadsCurrent(c)
          BY <2>1 DEF SoleInv
        <4>1. CASE Open(c) \/ CheckMirror(c) \/ FailSave(c) \/ Stop(c)
          BY <1>0, <4>1 DEF Open, CheckMirror, FailSave, Stop, Goto, At, ReadsCurrent
        <4>2. CASE BeginMirrored(c) \/ TimeoutMirrored(c)
          BY <3>1, <4>0, <4>2 DEF BeginMirrored, TimeoutMirrored, mirrorVars, ReadsCurrent
        <4>3. CASE ReadGeneration(c) \/ ReadRows(c)
          BY <1>0, <3>1, <4>0, <4>3 DEF ReadGeneration, ReadRows, At, ReadsCurrent, Payload
        <4> QED
          BY <1>3, <2>5, <4>1, <4>2, <4>3 DEF Work, UsesDatabase, SparesDatabase, AcknowledgeExisting
      <3>3. call'[c] = call[c] \/ call'[c].phase = "waiting"
        <4>1. CASE BeginMirrored(c)
          BY <1>0, <4>1 DEF BeginMirrored, BeginCall, BeginEnqueue, BeginReconcile, BeginClaim,
             BeginHeartbeat, BeginFinish, Begin, Idle
        <4>2. CASE ~BeginMirrored(c)
          BY <1>0, <1>3, <2>5, <4>2 DEF Work, UsesDatabase, SparesDatabase, AcknowledgeExisting, Open, CheckMirror,
             TimeoutMirrored, ReadGeneration, ReadRows, FailSave, Stop, LockTimeout, SaveFails,
             Crash, Return, Idle, vars
        <4> QED
          BY <4>1, <4>2
      <3>4. TellsTrue(c)'
        BY <2>1, <3>1, <3>3 DEF SoleInv, TellsTrue, Tells
      <3> QED
        BY <1>1, <2>1, <2>kept, <2>newest, <3>1, <3>2, <3>4 DEF SoleInv
    <2> QED
      BY <2>3, <2>4, <2>5
  <1>4. CASE TakeBackup
    <2>1. /\ backup' = [gen |-> generation, rows |-> jobs]
          /\ UNCHANGED <<jobs, call, generation, mirror, save, restore>>
          /\ copied' = IF mirror.gen > generation THEN copied ELSE Copied(jobs, promised)
      BY <1>4 DEF TakeBackup, allVars, vars, mirrorVars
    <2>same. ASSUME KeptIn(jobs) PROVE KeptIn(jobs)'
      BY <2>1, <2>same DEF KeptIn, Copied
    <2>2. KeptIn(Newest)'
      <3>1. backup.gen \in Nat \/ mirror.gen <= generation
        BY <1>0 DEF BackupThere, CopiesInv, Honest, MirrorHonest
      <3>2. CASE mirror.gen > generation
        <4>1. KeptIn(mirror.rows)
          BY <1>0, <3>1, <3>2 DEF CopiesInv, SoleInv, Newest
        <4> QED
          BY <2>1, <3>2, <4>1 DEF KeptIn, Newest
      <3>3. CASE ~(mirror.gen > generation)
        <4>1. KeptIn(jobs)'
          BY <1>0, <2>same, <3>3 DEF SoleInv
        <4> QED
          BY <2>1, <3>3, <4>1 DEF KeptIn, Newest
      <3> QED
        BY <3>2, <3>3
    <2>3. (mirror.gen <= generation => KeptIn(jobs))'
      BY <2>1, <2>same DEF SoleInv
    <2> QED
      BY <1>1, <2>1, <2>2, <2>3 DEF SoleInv, ReadsCurrent, TellsTrue, Tells
  <1>5. CASE LoseDatabase \/ InterruptRestore \/ UNCHANGED everyVar
    BY <1>1, <1>5 DEF LoseDatabase, InterruptRestore, everyVar, recoveryVars, allVars, vars,
       mirrorVars, SoleInv, ReadsCurrent, TellsTrue, Tells, KeptIn, Newest
  <1>6. CASE RestoreBackup
    BY <1>0, <1>1, <1>6 DEF RestoreBackup, BackupThere, SoleInv, KeptIn, Newest, RestoreAlone
  <1>7. CASE ReplayMirror
    BY <1>0, <1>1, <1>7 DEF ReplayMirror, CopiesInv, BackupThere, SoleInv, KeptIn, Newest
  <1>8. CASE WriteMirror
    <2>1. /\ restore = "write" /\ restore' = "none"
          /\ mirror' = [gen |-> generation, rows |-> jobs]
          /\ UNCHANGED <<jobs, call, generation, save, backup, copied>>
      BY <1>8 DEF WriteMirror, vars
    <2>2. KeptIn(jobs)' /\ KeptIn(Newest)'
      BY <1>0, <2>1 DEF CopiesInv, BackupHonest, SoleInv, KeptIn, Newest
    <2>3. save[c].step = "closed" /\ call[c].phase = "waiting"
      BY <1>0, <2>1 DEF RestoreAlone, AllStopped, AllInPlace, InPlace, Idle
    <2> QED
      BY <1>1, <2>1, <2>2, <2>3 DEF SoleInv, ReadsCurrent, TellsTrue, Tells
  <1>9. CASE TickAll
    <2>1. /\ jobs' = AgedRows(jobs) /\ generation' = generation
          /\ restore' = restore /\ copied' = copied
      BY <1>9 DEF TickAll, TickMirrored, Tick, AgedRows
    <2>2. backup'.gen = backup.gen /\ backup'.rows = AgedRows(backup.rows)
      BY <1>0, <1>9 DEF TickAll, RecoveryTypeOK, Backup
    <2>3. mirror'.gen = mirror.gen /\ mirror'.rows = AgedRows(mirror.rows)
      BY <1>0, <1>9 DEF TickAll, TickMirrored, MirrorTypeOK, Mirror
    <2>4. /\ save'[c].step = save[c].step /\ save'[c].gen = save[c].gen
          /\ save'[c].rows = AgedRows(save[c].rows)
      BY <1>0, <1>9 DEF TickAll, TickMirrored, Payload
    <2>5. call'[c].phase = call[c].phase /\ call'[c].op = call[c].op /\ call'[c].key = call[c].key
      BY <1>0, <1>9 DEF TickAll, TickMirrored, Tick, Call
    <2>6. ASSUME NEW rows \in [Keys -> Row], NEW k \in Keys
          PROVE  AgedRows(rows)[k].state = rows[k].state
      BY DEF AgedRows, Aged, Row
    <2>7. jobs \in [Keys -> Row] /\ mirror.rows \in [Keys -> Row] /\ backup.rows \in [Keys -> Row]
      BY <1>0 DEF TypeOK, MirrorTypeOK, Mirror, RecoveryTypeOK, Backup
    <2>8. /\ KeptIn(jobs) => KeptIn(jobs)'
          /\ KeptIn(Newest) => KeptIn(Newest)'
      <3>1. ASSUME NEW rows \in [Keys -> Row], KeptIn(rows)
            PROVE  \A k \in Keys : Shows(AgedRows(rows)[k], copied[k])
        BY <2>6, <3>1 DEF KeptIn, Shows
      <3>2. jobs' = AgedRows(jobs) /\ Newest' = AgedRows(Newest) /\ Newest \in [Keys -> Row]
        BY <2>1, <2>2, <2>3, <2>7 DEF Newest
      <3> QED
        BY <2>1, <2>7, <3>1, <3>2 DEF KeptIn
    <2>9. ReadsCurrent(c) => ReadsCurrent(c)'
      BY <2>1, <2>4 DEF ReadsCurrent
    <2>10. TellsTrue(c) => TellsTrue(c)'
      <3>1. call[c].op \in {"enqueue", "complete", "fail_no_retry"} => call[c].key \in Keys
        BY <1>0 DEF CallInv, Finishes
      <3> QED
        BY <2>1, <2>5, <2>6, <2>7, <3>1 DEF TellsTrue, Tells
    <2> QED
      BY <1>1, <2>1, <2>2, <2>3, <2>8, <2>9, <2>10 DEF SoleInv
  <1> QED
    BY <1>2, <1>3, <1>4, <1>5, <1>6, <1>7, <1>8, <1>9 DEF SoleNext, RecoveryNext, Restore

LEMMA SoleKeepsCopied ==
    ASSUME NEW c \in Clients, RecoveryInv, SoleInv(c)
    PROVE  CopiedJobsPreserved
  BY DEF SoleInv, KeptIn, RecoveryInv, CopiesInv, Honest, MirrorHonest,
         CopiedJobsPreserved

\* What remains of docs/RECOVERY.md's promise, for one controller and whatever
\* happens to the database, the backup and restore_latest: while the queue is in
\* service, a job that a caller was told was accepted, or settled, is there, or
\* settled, if the call that said so had written the mirror, or an up-to-date
\* copy was there when it said so, or a copy that shows it was made since.  (What
\* enqueue acknowledges from an existing row after a failed mirror is not, and
\* two controllers do not keep even this: a run shows each counterexample.)
THEOREM CopiedJobsPreservedHolds ==
    ASSUME NEW c \in Clients
    PROVE  SoleSpec(c) => []CopiedJobsPreserved
  <1>1. SoleSpec(c) => RecoverySpec
    <2>1. [SoleNext(c)]_everyVar => [RecoveryNext]_everyVar
      BY DEF SoleNext
    <2> QED
      BY <2>1, PTL DEF SoleSpec, RecoverySpec
  <1>2. SoleSpec(c) => []SoleInv(c)
    <2>1. RecoveryInv /\ SoleInv(c) /\ [SoleNext(c)]_everyVar => SoleInv(c)'
      BY NextSoleInv
    <2> QED
      BY <1>1, <2>1, RecoveryInvHolds, InitSoleInv, PTL DEF SoleSpec
  <1>3. RecoveryInv /\ SoleInv(c) => CopiedJobsPreserved
    BY SoleKeepsCopied
  <1> QED
    BY <1>1, <1>2, <1>3, RecoveryInvHolds, PTL
=============================================================================
