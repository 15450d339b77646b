-------------------------- MODULE ManagedJobProofs --------------------------
(***************************************************************************)
(* Proofs about a managed job, for any workers, runners, labels, quarantine *)
(* threshold, requests, attempts, clocks and skews: first about the fleet   *)
(* transaction (ManagedFleet), then about the submission (RemoteExecution), *)
(* and at the end that ManagedJob, which has them side by side, implements  *)
(* both.                                                                   *)
(***************************************************************************)
EXTENDS ManagedJob, TLAPS

-----------------------------------------------------------------------------
(* Types.  A runner uses a worker that the labels of its jobs match.        *)

RunInv == \A r \in Runners : run[r].step # "idle" => run[r].worker \in WorkersFor[r]

TypeInv == TypeOK /\ RunInv

LEMMA RecordTypes ==
    ASSUME NEW rec \in Worker
    PROVE  Passed(rec) \in Worker /\ Failed(rec) \in Worker
<1>1. OneMore(rec.failures) \in 0 .. Threshold /\ 0 \in 0 .. Threshold
  BY FleetAssumption DEF Worker, OneMore
<1>2. Passed(rec) \in Worker
  BY <1>1 DEF Passed, Worker
<1>3. Failed(rec) \in Worker
  BY <1>1 DEF Failed, Worker, WorkerStates
<1> QED  BY <1>2, <1>3

LEMMA RecordHealthType ==
    ASSUME TypeOK, NEW w \in Workers, NEW passed \in BOOLEAN, RecordHealth(w, passed)
    PROVE  registry' \in [Workers -> Worker]
<1>1. Passed(registry[w]) \in Worker /\ Failed(registry[w]) \in Worker
  BY RecordTypes DEF TypeOK
<1> QED  BY <1>1 DEF TypeOK, RecordHealth

\* A runner at one of its steps has a worker.
LEMMA RunningType ==
    ASSUME TypeOK, NEW r \in Runners, run[r].step # "idle"
    PROVE  run[r] \in Run /\ run[r].worker \in Workers
BY DEF TypeOK, Run, Idle

LEMMA GotoType ==
    ASSUME TypeInv, NEW r \in Runners, run[r].step # "idle", NEW step \in Steps,
           Goto(r, step) \/ FailAt(r, step)
    PROVE  run' \in [Runners -> Run \cup {Idle}] /\ RunInv'
<1>1. run[r] \in Run
  BY RunningType DEF TypeInv
<1>2. PICK new \in Run : run' = [run EXCEPT ![r] = new] /\ new.worker = run[r].worker
  <2>1. CASE Goto(r, step)
    <3>1. [run[r] EXCEPT !.step = step] \in Run
      BY <1>1 DEF Run
    <3> QED  BY <1>1, <2>1, <3>1 DEF Goto, Run
  <2>2. CASE FailAt(r, step)
    <3> DEFINE new == [run[r] EXCEPT !.step = step, !.failed = TRUE]
    <3>1. new \in Run /\ new.worker = run[r].worker
      BY <1>1 DEF Run
    <3>2. run' = [run EXCEPT ![r] = new]
      BY <1>1, <2>2 DEF FailAt, TypeInv, TypeOK, Run
    <3> QED  BY <3>1, <3>2
  <2> QED  BY <2>1, <2>2
<1> QED  BY <1>2 DEF TypeInv, TypeOK, RunInv

LEMMA ForgetType ==
    ASSUME TypeOK, NEW r \in Runners, Forget(r)
    PROVE  machine' \in [Workers -> SUBSET (Runners \cup {Remains})]
BY DEF TypeOK, Forget

LEMMA EndType ==
    ASSUME TypeInv, NEW r \in Runners, End(r)
    PROVE  /\ run' \in [Runners -> Run \cup {Idle}]
           /\ RunInv'
           /\ machine' \in [Workers -> SUBSET (Runners \cup {Remains})]
BY ForgetType DEF TypeInv, TypeOK, RunInv, End, Idle

LEMMA RestoredType ==
    ASSUME TypeOK, NEW r \in Runners, Restored(r) \/ UNCHANGED machine
    PROVE  machine' \in [Workers -> SUBSET (Runners \cup {Remains})]
BY DEF TypeOK, Restored

LEMMA InitTypeInv == Init => TypeInv
BY FleetAssumption DEF Init, TypeInv, TypeOK, RunInv, Worker, WorkerStates, NoWorker,
                       Idle, Run

LEMMA OperatorTypeInv ==
    ASSUME TypeInv, NEW w \in Workers, Operator(w)
    PROVE  TypeInv'
<1>0. run' = run /\ machine' = machine
  BY DEF Operator, Enroll, Transition, OperatorProbe
<1>1. 0 \in 0 .. Threshold
  BY FleetAssumption
<1>2. CASE Enroll(w)
  <2>1. Enrolled \in Worker
    BY <1>1 DEF Enrolled, NoWorker, Worker, WorkerStates
  <2> QED  BY <1>0, <1>1, <1>2, <2>1 DEF Enroll, TypeInv, TypeOK, RunInv
<1>3. ASSUME NEW state \in WorkerStates \ {"ABSENT"}, Transition(w, state)
      PROVE  TypeInv'
  <2>1. PICK n \in 0 .. Threshold :
            registry' = [registry EXCEPT ![w] = [registry[w] EXCEPT
                            !.state = state, !.failures = n]]
    <3>1. registry[w] \in Worker
      BY DEF TypeInv, TypeOK
    <3> DEFINE n == IF state = "ACTIVE" THEN 0 ELSE registry[w].failures
    <3>2. n \in 0 .. Threshold
      BY <1>1, <3>1 DEF Worker
    <3>3. registry' = [registry EXCEPT ![w] = [registry[w] EXCEPT
                            !.state = state, !.failures = n]]
      BY <1>3, <3>1 DEF Transition, TypeInv, TypeOK, Worker
    <3> QED  BY <3>2, <3>3
  <2>3. registry' \in [Workers -> Worker]
    BY <2>1 DEF TypeInv, TypeOK, Worker
  <2>2. failing' \in [Workers -> 0 .. Threshold]
    BY <1>1, <1>3 DEF Transition, TypeInv, TypeOK
  <2> QED  BY <1>0, <2>2, <2>3 DEF TypeInv, TypeOK, RunInv
<1>4. ASSUME NEW passed \in BOOLEAN, OperatorProbe(w, passed)
      PROVE  TypeInv'
  <2>1. registry' \in [Workers -> Worker]
    BY <1>4, RecordHealthType DEF OperatorProbe, TypeInv
  <2>2. failing' \in [Workers -> 0 .. Threshold]
    BY <1>1, <1>4 DEF OperatorProbe, TypeInv, TypeOK
  <2> QED  BY <1>0, <2>1, <2>2 DEF TypeInv, TypeOK, RunInv
<1> QED  BY <1>2, <1>3, <1>4 DEF Operator

LEMMA ChooseTypeInv ==
    ASSUME TypeInv, NEW r \in Runners, NEW w \in Workers, Choose(r, w)
    PROVE  TypeInv'
<1>1. [step |-> "chosen", worker |-> w, failed |-> FALSE] \in Run
  BY DEF Run, Steps
<1>2. w \in WorkersFor[r]
  BY DEF Choose
<1> QED  BY <1>1, <1>2 DEF Choose, TypeInv, TypeOK, RunInv

LEMMA StepTypeInv ==
    ASSUME TypeInv, NEW r \in Runners, Step(r)
    PROVE  TypeInv'
<1>1. {"before", "probe", "submit", "running", "after", "record"} \subseteq Steps
  BY DEF Steps
<1>2. ASSUME NEW step \in Steps, run[r].step # "idle",
             Goto(r, step) \/ FailAt(r, step),
             registry' \in [Workers -> Worker],
             machine' \in [Workers -> SUBSET (Runners \cup {Remains})],
             failing' = failing
      PROVE  TypeInv'
  BY <1>2, GotoType DEF TypeInv, TypeOK
<1>3. ASSUME End(r), registry' \in [Workers -> Worker],
             failing' \in [Workers -> 0 .. Threshold]
      PROVE  TypeInv'
  BY <1>3, EndType DEF TypeInv, TypeOK
<1>4. /\ registry \in [Workers -> Worker]
      /\ machine \in [Workers -> SUBSET (Runners \cup {Remains})]
      /\ failing \in [Workers -> 0 .. Threshold]
  BY DEF TypeInv, TypeOK
<1>5. ASSUME NEW w \in Workers, Select(r, w) \/ Pin(r, w) PROVE TypeInv'
  BY <1>5, ChooseTypeInv DEF Select, Pin
<1>6. CASE Admit(r)
  BY <1>1, <1>2, <1>4, <1>6 DEF Admit, At
<1>7. CASE Decline(r)
  BY <1>3, <1>4, <1>7 DEF Decline
<1>8. CASE ResetBefore(r) \/ ResetBeforeFails(r)
  <2>1. machine' \in [Workers -> SUBSET (Runners \cup {Remains})]
    BY <1>8, RestoredType DEF ResetBefore, ResetBeforeFails, TypeInv
  <2> QED  BY <1>1, <1>2, <1>4, <1>8, <2>1 DEF ResetBefore, ResetBeforeFails, At
<1>9. CASE ProbePasses(r) \/ ProbeFails(r)
  <2>1. run[r].step # "idle"
    BY <1>9 DEF ProbePasses, ProbeFails, At
  <2>2. registry' \in [Workers -> Worker]
    BY <1>9, <2>1, RunningType, RecordHealthType DEF ProbePasses, ProbeFails, TypeInv
  <2> QED  BY <1>1, <1>2, <1>4, <1>9, <2>1, <2>2 DEF ProbePasses, ProbeFails
<1>10. CASE StartJob(r)
  <2>1. machine' \in [Workers -> SUBSET (Runners \cup {Remains})]
    BY <1>4, <1>10 DEF StartJob
  <2> QED  BY <1>1, <1>2, <1>4, <1>10, <2>1 DEF StartJob, At
<1>11. CASE JobEnds(r)
  BY <1>1, <1>2, <1>4, <1>11 DEF JobEnds, At
<1>12. CASE JobFails(r)
  BY <1>1, <1>2, <1>4, <1>12 DEF JobFails, At
<1>13. CASE ResetAfter(r) \/ ResetAfterFails(r)
  <2>1. machine' \in [Workers -> SUBSET (Runners \cup {Remains})]
    BY <1>13, RestoredType DEF ResetAfter, ResetAfterFails, TypeInv
  <2> QED  BY <1>1, <1>2, <1>4, <1>13, <2>1 DEF ResetAfter, ResetAfterFails, At
<1>14. CASE Accept(r) \/ Reject(r)
  <2>1. run[r].step # "idle"
    BY <1>14 DEF Accept, Reject, At
  <2>2. registry' \in [Workers -> Worker]
    BY <1>14, <2>1, RunningType, RecordHealthType DEF Accept, Reject, TypeInv
  <2>3. \A n \in 0 .. Threshold : OneMore(n) \in 0 .. Threshold
    BY FleetAssumption DEF OneMore
  <2>4. failing' \in [Workers -> 0 .. Threshold]
    <3>1. 0 \in 0 .. Threshold
      BY FleetAssumption
    <3>2. CASE Accept(r)
      BY <1>4, <3>1, <3>2 DEF Accept
    <3>3. CASE Reject(r)
      <4> DEFINE w == run[r].worker
                 n == IF Recordable(w) THEN OneMore(failing[w]) ELSE failing[w]
      <4>1. n \in 0 .. Threshold
        BY <1>4, <2>1, <2>3, RunningType DEF TypeInv
      <4>2. failing' = [failing EXCEPT ![w] = n]
        BY <3>3 DEF Reject
      <4> HIDE DEF n
      <4> QED  BY <1>4, <4>1, <4>2
    <3> QED  BY <1>14, <3>2, <3>3
  <2> QED  BY <1>3, <1>14, <2>2, <2>4 DEF Accept, Reject
<1>15. CASE Crash(r)
  BY <1>3, <1>4, <1>15 DEF Crash
<1> QED
  BY <1>5, <1>6, <1>7, <1>8, <1>9, <1>10, <1>11, <1>12, <1>13, <1>14, <1>15 DEF Step

LEMMA NextTypeInv == TypeInv /\ [Next]_vars => TypeInv'
<1> SUFFICES ASSUME TypeInv, [Next]_vars PROVE TypeInv'
  OBVIOUS
<1>1. CASE UNCHANGED vars
  BY <1>1 DEF vars, TypeInv, TypeOK, RunInv
<1> QED  BY <1>1, OperatorTypeInv, StepTypeInv DEF Next

LEMMA TypeInvHolds == Spec => []TypeInv
BY InitTypeInv, NextTypeInv, PTL DEF Spec

\* Registry, runners and machines keep their types, and no count of failures
\* exceeds the threshold.
THEOREM TypeCorrect == Spec => []TypeOK
<1>1. TypeInv => TypeOK
  BY DEF TypeInv
<1> QED  BY <1>1, TypeInvHolds, PTL

-----------------------------------------------------------------------------
(* What a step does to the record of a worker.                             *)

\* A runner, or a probe, may only record health, and not of a revoked worker.
OnlyRecorded(w) ==
    \/ registry'[w] = registry[w]
    \/ /\ Recordable(w)
       /\ registry'[w] \in {Passed(registry[w]), Failed(registry[w])}

LEMMA RecordedOnly ==
    ASSUME TypeOK, NEW v \in Workers, NEW passed \in BOOLEAN, RecordHealth(v, passed),
           NEW w \in Workers
    PROVE  OnlyRecorded(w)
<1>1. CASE v = w /\ Recordable(w)
  BY <1>1 DEF TypeOK, RecordHealth, OnlyRecorded
<1>2. CASE v # w \/ ~Recordable(w)
  BY <1>2 DEF TypeOK, RecordHealth, OnlyRecorded
<1> QED  BY <1>1, <1>2

LEMMA StepRecords ==
    ASSUME TypeInv, NEW r \in Runners, Step(r), NEW w \in Workers
    PROVE  OnlyRecorded(w)
<1>1. CASE ProbePasses(r) \/ ProbeFails(r) \/ Accept(r) \/ Reject(r)
  <2>1. run[r].worker \in Workers
    BY <1>1, RunningType DEF ProbePasses, ProbeFails, Accept, Reject, At, TypeInv
  <2>2. \E passed \in BOOLEAN : RecordHealth(run[r].worker, passed)
    BY <1>1 DEF ProbePasses, ProbeFails, Accept, Reject
  <2> QED  BY <2>1, <2>2, RecordedOnly DEF TypeInv
<1>2. CASE UNCHANGED registry
  BY <1>2 DEF OnlyRecorded
<1> QED
  BY <1>1, <1>2 DEF Step, Select, Pin, Choose, Admit, Decline, ResetBefore,
     ResetBeforeFails, StartJob, JobEnds, JobFails, ResetAfter, ResetAfterFails, Crash

LEMMA RecordedFields ==
    ASSUME TypeOK, NEW w \in Workers
    PROVE  /\ Passed(registry[w]).state = registry[w].state
           /\ Passed(registry[w]).failures = 0
           /\ Failed(registry[w]).failures = OneMore(registry[w].failures)
           /\ Failed(registry[w]).state =
                  IF OneMore(registry[w].failures) = Threshold THEN "QUARANTINED"
                                                               ELSE registry[w].state
<1>1. registry[w] \in Worker
  BY DEF TypeOK
<1> QED  BY <1>1 DEF Worker, Passed, Failed

LEMMA OperatorRecords ==
    ASSUME TypeInv, NEW v \in Workers, Operator(v), NEW w \in Workers
    PROVE  \/ OnlyRecorded(w)
           \/ Enroll(w) /\ registry'[w] = Enrolled
           \/ \E state \in WorkerStates \ {"ABSENT"} :
                 /\ Transition(w, state)
                 /\ registry'[w].state = state
                 /\ state = "ACTIVE" => registry'[w].failures = 0
<1>1. CASE Enroll(v)
  <2>1. CASE v = w
    BY <1>1, <2>1 DEF Enroll, TypeInv, TypeOK
  <2>2. CASE v # w
    BY <1>1, <2>2 DEF Enroll, TypeInv, TypeOK, OnlyRecorded
  <2> QED  BY <2>1, <2>2
<1>2. ASSUME NEW state \in WorkerStates \ {"ABSENT"}, Transition(v, state)
      PROVE  \/ OnlyRecorded(w)
             \/ /\ Transition(w, state)
                /\ registry'[w].state = state
                /\ state = "ACTIVE" => registry'[w].failures = 0
  <2>1. CASE v = w
    BY <1>2, <2>1 DEF Transition, TypeInv, TypeOK, Worker
  <2>2. CASE v # w
    BY <1>2, <2>2 DEF Transition, TypeInv, TypeOK, OnlyRecorded
  <2> QED  BY <2>1, <2>2
<1>3. ASSUME NEW passed \in BOOLEAN, OperatorProbe(v, passed)
      PROVE  OnlyRecorded(w)
  BY <1>3, RecordedOnly DEF OperatorProbe, TypeInv
<1> QED  BY <1>1, <1>2, <1>3 DEF Operator

-----------------------------------------------------------------------------
(* Quarantine.                                                             *)

LEMMA NextActiveBelowThreshold ==
    TypeInv /\ ActiveBelowThreshold /\ [Next]_vars => ActiveBelowThreshold'
<1> SUFFICES ASSUME TypeInv, ActiveBelowThreshold, [Next]_vars, NEW w \in Workers,
                    registry'[w].state = "ACTIVE"
             PROVE  registry'[w].failures < Threshold
  BY DEF ActiveBelowThreshold
<1>0. 0 < Threshold /\ registry[w].failures \in 0 .. Threshold
  BY FleetAssumption DEF TypeInv, TypeOK, Worker
<1>1. CASE OnlyRecorded(w)
  <2>1. OneMore(registry[w].failures) \in 0 .. Threshold
    BY <1>0, FleetAssumption DEF OneMore
  <2> QED
    BY <1>0, <1>1, <2>1, RecordedFields, FleetAssumption
       DEF OnlyRecorded, ActiveBelowThreshold, TypeInv
<1>2. CASE \E v \in Workers : Operator(v)
  <2>1. Enrolled.failures = 0
    BY DEF Enrolled, NoWorker
  <2> QED  BY <1>0, <1>1, <1>2, <2>1, OperatorRecords
<1>3. CASE \E r \in Runners : Step(r)
  BY <1>1, <1>3, StepRecords
<1>4. CASE UNCHANGED vars
  BY <1>1, <1>4 DEF vars, OnlyRecorded
<1> QED  BY <1>2, <1>3, <1>4 DEF Next

\* However many runners and operators record failures of a worker, none is
\* active with as many failures in a row as the threshold.
THEOREM ActiveBelowThresholdHolds == Spec => []ActiveBelowThreshold
<1>1. Init => ActiveBelowThreshold
  BY DEF Init, ActiveBelowThreshold, NoWorker
<1> QED  BY <1>1, NextActiveBelowThreshold, TypeInvHolds, PTL DEF Spec

\* What a runner records never brings a quarantined or a revoked worker back.
THEOREM OnlyOperatorsReadmitHolds == Spec => OnlyOperatorsReadmit
<1> DEFINE Readmitted ==
        \A w \in Workers :
            LET old == registry[w].state
                new == registry'[w].state
            IN  /\ old = "QUARANTINED" /\ new = "ACTIVE" =>
                      Enroll(w) \/ Transition(w, "ACTIVE")
                /\ old = "REVOKED" /\ new # "REVOKED" => Enroll(w)
<1>1. TypeInv /\ [Next]_vars => [Readmitted]_vars
  <2> SUFFICES ASSUME TypeInv, [Next]_vars, NEW w \in Workers
               PROVE  /\ registry[w].state = "QUARANTINED" /\ registry'[w].state = "ACTIVE"
                            => Enroll(w) \/ Transition(w, "ACTIVE")
                      /\ registry[w].state = "REVOKED" /\ registry'[w].state # "REVOKED"
                            => Enroll(w)
    OBVIOUS
  <2>1. CASE OnlyRecorded(w)
    BY <2>1, RecordedFields DEF OnlyRecorded, Recordable, TypeInv
  <2>2. CASE \E v \in Workers : Operator(v)
    <3>1. \A state : Transition(w, state) /\ registry[w].state = "REVOKED"
                        => state = "REVOKED"
      BY DEF Transition
    <3> QED  BY <2>1, <2>2, <3>1, OperatorRecords
  <2>3. CASE \E r \in Runners : Step(r)
    BY <2>1, <2>3, StepRecords
  <2>4. CASE UNCHANGED vars
    BY <2>1, <2>4 DEF vars, OnlyRecorded
  <2> QED  BY <2>2, <2>3, <2>4 DEF Next
<1> QED  BY <1>1, TypeInvHolds, PTL DEF Spec, OnlyOperatorsReadmit

-----------------------------------------------------------------------------
(* What a step of one runner does to the others and to the machines.       *)

LEMMA GotoMoves ==
    ASSUME TypeOK, NEW r \in Runners, run[r].step # "idle", NEW step \in Steps,
           Goto(r, step) \/ FailAt(r, step)
    PROVE  /\ run'[r].step = step
           /\ run'[r].worker = run[r].worker
           /\ FailAt(r, step) => run'[r].failed
           /\ \A q \in Runners \ {r} : run'[q] = run[q]
<1>1. run[r] \in Run
  BY RunningType
<1>2. CASE Goto(r, step)
  <2>1. FailAt(r, step) => run'[r].failed
    BY <1>1 DEF FailAt, TypeOK, Run
  <2> QED  BY <1>1, <1>2, <2>1 DEF Goto, TypeOK, Run
<1>3. CASE FailAt(r, step)
  BY <1>1, <1>3 DEF FailAt, TypeOK, Run
<1> QED  BY <1>2, <1>3

LEMMA EndMoves ==
    ASSUME TypeOK, NEW r \in Runners, End(r)
    PROVE  /\ run'[r] = Idle
           /\ \A q \in Runners \ {r} : run'[q] = run[q]
           /\ \A w \in Workers : /\ machine'[w] \subseteq machine[w] \cup {Remains}
                                 /\ r \notin machine[w] => machine'[w] = machine[w]
BY DEF End, Forget, TypeOK

\* The machine of r is restored, or nothing happens to any machine.
LEMMA RestoredMoves ==
    ASSUME TypeOK, NEW r \in Runners, Restored(r) \/ UNCHANGED machine,
           run[r].worker \in Workers
    PROVE  /\ Restored(r) => machine'[run[r].worker] = {}
           /\ \A w \in Workers : /\ machine'[w] \subseteq machine[w]
                                 /\ w # run[r].worker => machine'[w] = machine[w]
BY DEF Restored, TypeOK

\* A step of r leaves the other runners where they are, and a machine that is
\* not its own, and that its job has not used, as it is.
Elsewhere(r) ==
    /\ \A q \in Runners \ {r} : run'[q] = run[q]
    /\ \A w \in Workers :
          /\ machine'[w] \subseteq machine[w] \cup {r, Remains}
          /\ r \notin machine[w] /\ (run[r].step # "idle" => w # run[r].worker)
                => machine'[w] = machine[w]

LEMMA StepElsewhere ==
    ASSUME TypeInv, NEW r \in Runners, Step(r)
    PROVE  Elsewhere(r)
<1>1. {"before", "probe", "submit", "running", "after", "record"} \subseteq Steps
  BY DEF Steps
<1>2. ASSUME NEW step \in Steps, run[r].step # "idle",
             Goto(r, step) \/ FailAt(r, step),
             Restored(r) \/ UNCHANGED machine
      PROVE  Elsewhere(r)
  <2>1. run[r].worker \in Workers
    BY <1>2, RunningType DEF TypeInv
  <2> QED  BY <1>2, <2>1, GotoMoves, RestoredMoves DEF Elsewhere, TypeInv
<1>3. ASSUME End(r) PROVE Elsewhere(r)
  BY <1>3, EndMoves DEF Elsewhere, TypeInv
<1>4. ASSUME NEW w \in Workers, Select(r, w) \/ Pin(r, w) PROVE Elsewhere(r)
  BY <1>4 DEF Select, Pin, Choose, Elsewhere, TypeInv, TypeOK
<1>5. CASE StartJob(r)
  <2>1. run[r].step # "idle" /\ Goto(r, "running")
    BY <1>5 DEF StartJob, At
  <2>2. run[r].worker \in Workers
    BY <2>1, RunningType DEF TypeInv
  <2>3. \A w \in Workers : /\ machine'[w] \subseteq machine[w] \cup {r}
                           /\ w # run[r].worker => machine'[w] = machine[w]
    BY <1>5, <2>2 DEF StartJob, TypeInv, TypeOK
  <2>4. \A q \in Runners \ {r} : run'[q] = run[q]
    BY <1>1, <2>1, GotoMoves DEF TypeInv
  <2> QED  BY <2>1, <2>3, <2>4 DEF Elsewhere
<1>6. CASE Decline(r) \/ Accept(r) \/ Reject(r) \/ Crash(r)
  BY <1>3, <1>6 DEF Decline, Accept, Reject, Crash
<1>7. CASE \/ Admit(r) \/ ProbePasses(r) \/ ProbeFails(r) \/ JobEnds(r) \/ JobFails(r)
  BY <1>1, <1>2, <1>7 DEF Admit, ProbePasses, ProbeFails, JobEnds, JobFails, At
<1>8. CASE \/ ResetBefore(r) \/ ResetBeforeFails(r) \/ ResetAfter(r)
           \/ ResetAfterFails(r)
  BY <1>1, <1>2, <1>8 DEF ResetBefore, ResetBeforeFails, ResetAfter,
                          ResetAfterFails, At
<1> QED  BY <1>4, <1>5, <1>6, <1>7, <1>8 DEF Step

\* How r got to the step it is at, where the other proofs ask.
LEMMA Arrived ==
    ASSUME TypeInv, NEW r \in Runners, Step(r)
    PROVE  /\ run'[r].step = "probe" => ResetBefore(r)
           /\ run'[r].step = "submit" => ProbePasses(r)
           /\ run'[r].step = "running" => StartJob(r)
           /\ run'[r].step = "record" => ResetAfter(r) \/ run'[r].failed
<1>1. {"before", "probe", "submit", "running", "after", "record"} \subseteq Steps
  BY DEF Steps
<1>2. ASSUME NEW step \in Steps, run[r].step # "idle",
             Goto(r, step) \/ FailAt(r, step)
      PROVE  run'[r].step = step /\ (FailAt(r, step) => run'[r].failed)
  BY <1>2, GotoMoves DEF TypeInv
<1>3. End(r) => run'[r].step = "idle"
  BY EndMoves DEF TypeInv, Idle
<1>4. ASSUME NEW w \in Workers, Select(r, w) \/ Pin(r, w)
      PROVE  run'[r].step = "chosen"
  BY <1>4 DEF Select, Pin, Choose, TypeInv, TypeOK
<1>5. CASE Decline(r) \/ Accept(r) \/ Reject(r) \/ Crash(r)
  BY <1>3, <1>5 DEF Decline, Accept, Reject, Crash
<1>6. CASE Admit(r)
  BY <1>1, <1>2, <1>6 DEF Admit, At
<1>7. CASE ProbePasses(r) \/ ProbeFails(r)
  <2>1. CASE Goto(r, "submit") /\ ProbePasses(r)
    BY <1>1, <1>2, <2>1 DEF ProbePasses, At
  <2>2. CASE FailAt(r, "after")
    BY <1>1, <1>2, <1>7, <2>2 DEF ProbePasses, ProbeFails, At
  <2> QED  BY <1>7, <2>1, <2>2 DEF ProbePasses, ProbeFails
<1>8. CASE ResetBefore(r)
  BY <1>1, <1>2, <1>8 DEF ResetBefore, At
<1>9. CASE ResetAfter(r)
  BY <1>1, <1>2, <1>9 DEF ResetAfter, At
<1>10. CASE StartJob(r)
  BY <1>1, <1>2, <1>10 DEF StartJob, At
<1>11. CASE JobEnds(r) \/ JobFails(r)
  BY <1>1, <1>2, <1>11 DEF JobEnds, JobFails, At
<1>12. CASE ResetBeforeFails(r)
  BY <1>1, <1>2, <1>12 DEF ResetBeforeFails, At
<1>13. CASE ResetAfterFails(r)
  BY <1>1, <1>2, <1>13 DEF ResetAfterFails, At
<1> QED
  BY <1>4, <1>5, <1>6, <1>7, <1>8, <1>9, <1>10, <1>11, <1>12, <1>13 DEF Step

LEMMA OperatorsSpareRuns ==
    ASSUME NEW w \in Workers, Operator(w)
    PROVE  run' = run /\ machine' = machine
BY DEF Operator, Enroll, Transition, OperatorProbe

-----------------------------------------------------------------------------
(* Nothing is left behind.                                                 *)

LEMMA NextNothingLeftBehind ==
    TypeInv /\ NothingLeftBehind /\ [Next]_vars => NothingLeftBehind'
<1> SUFFICES ASSUME TypeInv, NothingLeftBehind, [Next]_vars, NEW q \in Runners,
                    run'[q].step = "record", ~run'[q].failed
             PROVE  q \notin machine'[run'[q].worker]
  BY DEF NothingLeftBehind, At, MachineOf
<1>1. CASE run' = run /\ machine' = machine
  BY <1>1 DEF NothingLeftBehind, At, MachineOf
<1>2. ASSUME NEW r \in Runners, Step(r)
      PROVE  q \notin machine'[run'[q].worker]
  <2>1. CASE q = r
    <3>1. ResetAfter(q)
      BY <1>2, <2>1, Arrived
    <3>2. run[q].step # "idle" /\ Goto(q, "record") /\ "record" \in Steps /\ Restored(q)
      BY <3>1 DEF ResetAfter, At, Steps
    <3>3. run[q].worker \in Workers /\ run'[q].worker = run[q].worker
      BY <3>2, RunningType, GotoMoves DEF TypeInv
    <3>4. machine'[run[q].worker] = {}
      BY <3>2, <3>3, RestoredMoves DEF TypeInv
    <3> QED  BY <3>3, <3>4
  <2>2. CASE q # r
    <3>1. run'[q] = run[q]
      BY <1>2, <2>2, StepElsewhere DEF Elsewhere
    <3>2. run[q].worker \in Workers /\ q \notin machine[run[q].worker]
      BY <3>1, RunningType DEF NothingLeftBehind, At, MachineOf, TypeInv
    <3>3. machine'[run[q].worker] \subseteq machine[run[q].worker] \cup {r, Remains}
      BY <1>2, <3>2, StepElsewhere DEF Elsewhere
    <3> QED  BY <2>2, <3>1, <3>2, <3>3, RemainsAssumption
  <2> QED  BY <2>1, <2>2
<1> QED  BY <1>1, <1>2, OperatorsSpareRuns DEF Next, vars

\* A job whose result is about to be accepted has left its machine, whatever
\* the other runners do there and whichever resets fail.
THEOREM NothingLeftBehindHolds == Spec => []NothingLeftBehind
<1>1. Init => NothingLeftBehind
  BY DEF Init, NothingLeftBehind, At, Idle
<1> QED  BY <1>1, NextNothingLeftBehind, TypeInvHolds, PTL DEF Spec

-----------------------------------------------------------------------------
(* Alone on a fresh machine.                                               *)

\* No other runner has jobs for the worker that r uses.
Private(r) == \A s \in Runners \ {r} : run[r].worker \notin WorkersFor[s]

\* From the reset on, the machine of a private worker holds the job of its
\* runner and nothing else.
FreshInv ==
    \A r \in Runners :
        Private(r) =>
            /\ run[r].step \in {"probe", "submit"} => machine[run[r].worker] = {}
            /\ run[r].step = "running" => machine[run[r].worker] \subseteq {r}

LEMMA NextFreshInv == TypeInv /\ FreshInv /\ [Next]_vars => FreshInv'
<1> SUFFICES ASSUME TypeInv, FreshInv, [Next]_vars, NEW q \in Runners, Private(q)'
             PROVE  /\ run'[q].step \in {"probe", "submit"} =>
                            machine'[run'[q].worker] = {}
                    /\ run'[q].step = "running" => machine'[run'[q].worker] \subseteq {q}
  BY DEF FreshInv
<1> DEFINE Goal == /\ run'[q].step \in {"probe", "submit"} =>
                            machine'[run'[q].worker] = {}
                   /\ run'[q].step = "running" => machine'[run'[q].worker] \subseteq {q}
<1>1. CASE run' = run /\ machine' = machine
  BY <1>1 DEF FreshInv, Private
<1>2. ASSUME NEW r \in Runners, Step(r)
      PROVE  Goal
  <2>1. CASE q = r
    <3>1. ASSUME run'[q].step = "probe" PROVE Goal
      <4>1. ResetBefore(q)
        BY <1>2, <2>1, <3>1, Arrived
      <4>2. run[q].step # "idle" /\ Goto(q, "probe") /\ "probe" \in Steps /\ Restored(q)
        BY <4>1 DEF ResetBefore, At, Steps
      <4>3. run[q].worker \in Workers /\ run'[q].worker = run[q].worker
        BY <4>2, RunningType, GotoMoves DEF TypeInv
      <4> QED  BY <3>1, <4>2, <4>3, RestoredMoves DEF TypeInv
    <3>2. ASSUME run'[q].step = "submit" PROVE Goal
      <4>1. ProbePasses(q)
        BY <1>2, <2>1, <3>2, Arrived
      <4>2. run[q].step = "probe" /\ machine' = machine
        BY <4>1 DEF ProbePasses, At
      <4>3. run'[q].worker = run[q].worker
        BY <4>1, <4>2, GotoMoves DEF ProbePasses, TypeInv, Steps
      <4> QED  BY <3>2, <4>2, <4>3 DEF FreshInv, Private
    <3>3. ASSUME run'[q].step = "running" PROVE Goal
      <4>1. StartJob(q)
        BY <1>2, <2>1, <3>3, Arrived
      <4>2. run[q].step = "submit" /\ Goto(q, "running")
            /\ machine' = [machine EXCEPT ![run[q].worker] = @ \cup {q}]
        BY <4>1 DEF StartJob, At
      <4>3. run[q].worker \in Workers /\ run'[q].worker = run[q].worker
        BY <4>2, RunningType, GotoMoves DEF TypeInv, Steps
      <4>4. machine[run[q].worker] = {}
        BY <4>2, <4>3 DEF FreshInv, Private
      <4> QED  BY <3>3, <4>2, <4>3, <4>4 DEF TypeInv, TypeOK
    <3> QED  BY <3>1, <3>2, <3>3
  <2>2. CASE q # r
    <3>1. run'[q] = run[q]
      BY <1>2, <2>2, StepElsewhere DEF Elsewhere
    <3>2. SUFFICES ASSUME run[q].step \in {"probe", "submit", "running"}
                   PROVE  Goal
      BY <3>1
    <3>3. Private(q) /\ run[q].worker \in Workers
      BY <3>1, <3>2, RunningType DEF Private, TypeInv
    <3>4. run[r].step # "idle" => run[q].worker # run[r].worker
      BY <2>2, <3>3 DEF Private, TypeInv, RunInv
    <3>5. r \notin machine[run[q].worker]
      BY <2>2, <3>2, <3>3 DEF FreshInv
    <3>6. machine'[run[q].worker] = machine[run[q].worker]
      BY <1>2, <3>3, <3>4, <3>5, StepElsewhere DEF Elsewhere
    <3> QED  BY <3>1, <3>3, <3>6 DEF FreshInv
  <2> QED  BY <2>1, <2>2
<1> QED  BY <1>1, <1>2, OperatorsSpareRuns DEF Next, vars

\* On a worker only one runner uses, a job that delivers a result has run alone
\* on a fresh machine, whatever crashed or failed there before it.
THEOREM RanAloneHolds == Spec => RanAlone
<1> DEFINE Alone ==
        \A r \in Runners :
            /\ JobEnds(r)
            /\ \A s \in Runners \ {r} : run[r].worker \notin WorkersFor[s]
            => MachineOf(r) = {r}
<1>1. Init => FreshInv
  BY DEF Init, FreshInv, Idle
<1>2. FreshInv => Alone
  BY DEF FreshInv, Private, JobEnds, At, MachineOf
<1>3. FreshInv /\ [Next]_vars => [Alone]_vars
  BY <1>2
<1> QED  BY <1>1, <1>3, NextFreshInv, TypeInvHolds, PTL DEF Spec, RanAlone

-----------------------------------------------------------------------------
(* Types.  Retry needs that a submission in backoff has attempts left, and  *)
(* Receive that one that waits has made an attempt.                        *)

AttemptInv ==
    \A q \in Requests :
        /\ controller[q].state = "waiting" => controller[q].attempt \in 1 .. Attempts
        /\ controller[q].state = "backoff" => controller[q].attempt < Attempts

RemoteTypeInv == RemoteTypeOK /\ AttemptInv

LEMMA RemoteInitTypeInv == RemoteInit => RemoteTypeInv
BY RemoteAssumption DEF RemoteInit, RemoteTypeInv, RemoteTypeOK, AttemptInv, Controller, Thread,
                        ThreadSteps, Results

LEMMA RemoteGotoType ==
    ASSUME RemoteTypeOK, NEW q \in Requests, NEW n \in 1 .. Attempts,
           NEW step \in ThreadSteps, Advance(q, n, step)
    PROVE  thread' \in [Requests -> [1 .. Attempts -> Thread]]
<1>1. thread[q][n] \in Thread
  BY DEF RemoteTypeOK
<1>2. [thread[q][n] EXCEPT !.step = step] \in Thread
  BY <1>1 DEF Thread
<1>3. thread' = [thread EXCEPT ![q] =
                    [thread[q] EXCEPT ![n] = [thread[q][n] EXCEPT !.step = step]]]
  BY DEF Advance, RemoteTypeOK
<1> QED  BY <1>2, <1>3 DEF RemoteTypeOK

LEMMA ReplyType ==
    ASSUME RemoteTypeOK, NEW q \in Requests, NEW n \in 1 .. Attempts,
           NEW result \in Results, Reply(q, n, result)
    PROVE  thread' \in [Requests -> [1 .. Attempts -> Thread]]
BY DEF RemoteTypeOK, Reply, Thread, ThreadSteps

LEMMA HalfWrittenType ==
    ASSUME RemoteTypeOK, NEW q \in Requests, NEW n \in 1 .. Attempts, HalfWritten(q, n)
    PROVE  cache' \in [Requests -> Results \cup {Unreadable}]
<1>1. thread[q][n].result \in Results
  BY DEF RemoteTypeOK, Thread
<1>2. PICK left \in {NoResult, thread[q][n].result, Unreadable} :
          cache' = [cache EXCEPT ![q] = left]
  BY DEF HalfWritten
<1>3. left \in Results \cup {Unreadable}
  BY <1>1 DEF Results
<1> QED  BY <1>2, <1>3 DEF RemoteTypeOK

\* Sending attempt n, for whatever reason.
LEMMA SendType ==
    ASSUME RemoteTypeInv, NEW q \in Requests, NEW n \in 1 .. Attempts, Send(q, n),
           age' \in [Requests -> Int], UNCHANGED <<nonces, cache, executions>>
    PROVE  RemoteTypeInv'
<1>1. thread' \in [Requests -> [1 .. Attempts -> Thread]]
  BY RemoteGotoType DEF Send, RemoteTypeInv, ThreadSteps
<1>2. controller' = [controller EXCEPT ![q].state = "waiting", ![q].attempt = n]
  BY DEF Send
<1>3. controller' \in [Requests -> Controller]
  <2>1. n \in 0 .. Attempts
    BY RemoteAssumption
  <2>2. [controller[q] EXCEPT !.state = "waiting", !.attempt = n] \in Controller
    BY <2>1 DEF RemoteTypeInv, RemoteTypeOK, Controller
  <2>3. controller' = [controller EXCEPT ![q] =
                          [controller[q] EXCEPT !.state = "waiting", !.attempt = n]]
    BY <1>2 DEF RemoteTypeInv, RemoteTypeOK
  <2> QED  BY <2>2, <2>3 DEF RemoteTypeInv, RemoteTypeOK
<1>4. AttemptInv'
  BY <1>2 DEF RemoteTypeInv, RemoteTypeOK, AttemptInv, Controller
<1> QED  BY <1>1, <1>3, <1>4 DEF RemoteTypeInv, RemoteTypeOK

LEMMA SubmitTypeInv ==
    ASSUME RemoteTypeInv, NEW q \in Requests, Submit(q)
    PROVE  RemoteTypeInv'
<1> USE RemoteAssumption
<1>1. CASE Issue(q)
  <2>1. PICK offset \in Offsets : age' = [age EXCEPT ![q] = offset]
    BY <1>1 DEF Issue
  <2>2. age' \in [Requests -> Int]
    BY <2>1 DEF RemoteTypeInv, RemoteTypeOK
  <2>3. 1 \in 1 .. Attempts
    OBVIOUS
  <2> QED  BY <1>1, <2>2, <2>3, SendType DEF Issue
<1>2. CASE ConnectionFails(q)
  BY <1>2 DEF ConnectionFails, RemoteTypeInv, RemoteTypeOK, AttemptInv, Controller, MayRetry
<1>3. CASE Retry(q)
  <2>1. controller[q].attempt + 1 \in 1 .. Attempts
    BY <1>3 DEF Retry, RemoteTypeInv, RemoteTypeOK, AttemptInv, Controller
  <2>2. age' \in [Requests -> Int]
    BY <1>3 DEF Retry, RemoteTypeInv, RemoteTypeOK
  <2> QED  BY <1>3, <2>1, <2>2, SendType DEF Retry
<1>4. CASE Receive(q)
  <2> DEFINE n == controller[q].attempt
  <2>1. n \in 1 .. Attempts
    BY <1>4 DEF Receive, RemoteTypeInv, AttemptInv
  <2>2. thread[q][n].result \in Results
    BY <2>1 DEF RemoteTypeInv, RemoteTypeOK, Thread
  <2>3. thread' \in [Requests -> [1 .. Attempts -> Thread]]
    BY <1>4, <2>1, RemoteGotoType DEF Receive, RemoteTypeInv, ThreadSteps
  <2>4. controller' \in [Requests -> Controller]
    BY <1>4, <2>2 DEF Receive, RemoteTypeInv, RemoteTypeOK, Controller
  <2>5. AttemptInv'
    BY <1>4 DEF Receive, RemoteTypeInv, RemoteTypeOK, AttemptInv, Controller
  <2> QED  BY <1>4, <2>3, <2>4, <2>5 DEF Receive, RemoteTypeInv, RemoteTypeOK
<1>5. CASE ReceiveRefusal(q)
  <2>1. controller[q].attempt \in 1 .. Attempts
    BY <1>5 DEF ReceiveRefusal, RemoteTypeInv, AttemptInv
  <2>2. thread' \in [Requests -> [1 .. Attempts -> Thread]]
    BY <1>5, <2>1, RemoteGotoType DEF ReceiveRefusal, RemoteTypeInv, ThreadSteps
  <2>3. controller' \in [Requests -> Controller] /\ AttemptInv'
    BY <1>5 DEF ReceiveRefusal, RemoteTypeInv, RemoteTypeOK, AttemptInv, Controller
  <2> QED  BY <1>5, <2>2, <2>3 DEF ReceiveRefusal, RemoteTypeInv, RemoteTypeOK
<1> QED  BY <1>1, <1>2, <1>3, <1>4, <1>5 DEF Submit

LEMMA ProcessTypeInv ==
    ASSUME RemoteTypeInv, NEW q \in Requests, NEW n \in 1 .. Attempts, Process(q, n)
    PROVE  RemoteTypeInv'
<1>1. controller' = controller /\ age' = age
  BY DEF Process, Deliver, Lookup, Verify, Consume, StartExecution, Sign, Abandon,
         FinishExecution, FinishFails
<1>2. AttemptInv'
  BY <1>1 DEF RemoteTypeInv, AttemptInv
<1>3. \A step \in ThreadSteps :
          Advance(q, n, step) => thread' \in [Requests -> [1 .. Attempts -> Thread]]
  BY RemoteGotoType DEF RemoteTypeInv
<1>4. \A result \in Results :
          Reply(q, n, result) => thread' \in [Requests -> [1 .. Attempts -> Thread]]
  BY ReplyType DEF RemoteTypeInv
<1>5. {"lookup", "verify", "consume", "execute", "running", "finish", "refuse"}
          \subseteq ThreadSteps
  BY DEF ThreadSteps
<1>6. CASE Deliver(q, n)
  BY <1>2, <1>3, <1>5, <1>6 DEF Deliver, RemoteTypeInv, RemoteTypeOK
<1>7. CASE Lookup(q, n)
  <2>1. cache[q] # Unreadable => cache[q] \in Results
    BY DEF RemoteTypeInv, RemoteTypeOK
  <2>2. thread' \in [Requests -> [1 .. Attempts -> Thread]]
    BY <1>3, <1>4, <1>5, <1>7, <2>1 DEF Lookup
  <2> QED  BY <1>2, <1>7, <2>2 DEF Lookup, RemoteTypeInv, RemoteTypeOK
<1>8. CASE Verify(q, n)
  BY <1>2, <1>3, <1>5, <1>8 DEF Verify, RemoteTypeInv, RemoteTypeOK
<1>9. CASE Consume(q, n)
  <2>1. thread' \in [Requests -> [1 .. Attempts -> Thread]]
    BY <1>3, <1>5, <1>9 DEF Consume
  <2>2. nonces' \subseteq Requests
    BY <1>9 DEF Consume, Unexpired, RemoteTypeInv, RemoteTypeOK
  <2> QED  BY <1>1, <1>2, <1>9, <2>1, <2>2 DEF Consume, RemoteTypeInv, RemoteTypeOK
<1>10. CASE StartExecution(q, n)
  BY <1>2, <1>3, <1>5, <1>10 DEF StartExecution, RemoteTypeInv, RemoteTypeOK
<1>11. CASE Sign(q, n)
  <2>1. [by |-> n, created |-> age[q]] \in Results
    BY DEF RemoteTypeInv, RemoteTypeOK, Results, Result
  <2>2. thread' \in [Requests -> [1 .. Attempts -> Thread]]
    BY <1>11, <2>1 DEF Sign, RemoteTypeInv, RemoteTypeOK, Thread, ThreadSteps
  <2> QED  BY <1>2, <1>11, <2>2 DEF Sign, RemoteTypeInv, RemoteTypeOK
<1>12. CASE Abandon(q, n)
  BY <1>2, <1>3, <1>5, <1>12 DEF Abandon, RemoteTypeInv, RemoteTypeOK
<1>13. CASE FinishExecution(q, n)
  <2>1. thread[q][n].result \in Results
    BY DEF RemoteTypeInv, RemoteTypeOK, Thread
  <2>2. thread' \in [Requests -> [1 .. Attempts -> Thread]]
    BY <1>3, <1>4, <1>5, <1>13, <2>1 DEF FinishExecution
  <2>3. cache' \in [Requests -> Results \cup {Unreadable}]
    BY <1>13, <2>1 DEF FinishExecution, RemoteTypeInv, RemoteTypeOK
  <2> QED  BY <1>2, <1>13, <2>2, <2>3 DEF FinishExecution, RemoteTypeInv, RemoteTypeOK
<1>14. CASE FinishFails(q, n)
  <2>1. cache' \in [Requests -> Results \cup {Unreadable}]
    BY <1>14, HalfWrittenType DEF FinishFails, RemoteTypeInv
  <2> QED  BY <1>2, <1>3, <1>5, <1>14, <2>1 DEF FinishFails, RemoteTypeInv, RemoteTypeOK
<1> QED
  BY <1>6, <1>7, <1>8, <1>9, <1>10, <1>11, <1>12, <1>13, <1>14 DEF Process

LEMMA RemoteNextTypeInv == RemoteTypeInv /\ [RemoteNext]_remoteVars => RemoteTypeInv'
<1> SUFFICES ASSUME RemoteTypeInv, [RemoteNext]_remoteVars PROVE RemoteTypeInv'
  OBVIOUS
<1>1. ASSUME NEW q \in Requests, Submit(q) PROVE RemoteTypeInv'
  BY <1>1, SubmitTypeInv
<1>2. ASSUME NEW q \in Requests, NEW n \in 1 .. Attempts, Process(q, n) PROVE RemoteTypeInv'
  BY <1>2, ProcessTypeInv
<1>3. CASE Restart
  <2>1. [step |-> "gone", result |-> NoResult] \in Thread
    BY DEF Thread, ThreadSteps, Results
  <2>2. thread' \in [Requests -> [1 .. Attempts -> Thread]]
    BY <1>3, <2>1 DEF Restart, RemoteTypeInv, RemoteTypeOK
  <2>3. cache' \in [Requests -> Results \cup {Unreadable}]
    BY <1>3, HalfWrittenType DEF Restart, RemoteTypeInv, RemoteTypeOK
  <2> QED  BY <1>3, <2>2, <2>3 DEF Restart, RemoteTypeInv, RemoteTypeOK, AttemptInv
<1>4. CASE Tick
  BY <1>4 DEF Tick, RemoteTypeInv, RemoteTypeOK, AttemptInv
<1>5. CASE UNCHANGED remoteVars
  BY <1>5 DEF remoteVars, RemoteTypeInv, RemoteTypeOK, AttemptInv
<1> QED  BY <1>1, <1>2, <1>3, <1>4, <1>5 DEF RemoteNext

LEMMA RemoteTypeInvHolds == RemoteSpec => []RemoteTypeInv
BY RemoteInitTypeInv, RemoteNextTypeInv, PTL DEF RemoteSpec

\* Controllers, threads, nonces and cache keep their types, whatever breaks.
THEOREM RemoteTypeCorrect == RemoteSpec => []RemoteTypeOK
<1>1. RemoteTypeInv => RemoteTypeOK
  BY DEF RemoteTypeInv
<1> QED  BY <1>1, RemoteTypeInvHolds, PTL

-----------------------------------------------------------------------------
(* How a step moves the threads.                                           *)

LEMMA RemoteGotoMoves ==
    ASSUME RemoteTypeOK, NEW q \in Requests, NEW n \in 1 .. Attempts, NEW step,
           Advance(q, n, step), NEW p \in Requests, NEW m \in 1 .. Attempts
    PROVE  /\ thread'[p][m].result = thread[p][m].result
           /\ p = q /\ m = n => thread'[p][m].step = step
           /\ ~(p = q /\ m = n) => thread'[p][m] = thread[p][m]
<1>1. thread[p][m] \in [step : ThreadSteps, result : Results]
  BY DEF RemoteTypeOK, Thread
<1>2. thread' = [thread EXCEPT ![q] =
                    [thread[q] EXCEPT ![n] = [thread[q][n] EXCEPT !.step = step]]]
  BY DEF Advance, RemoteTypeOK
<1>3. CASE p = q /\ m = n
  <2>1. thread'[p][m] = [thread[p][m] EXCEPT !.step = step]
    BY <1>2, <1>3 DEF RemoteTypeOK
  <2> QED  BY <1>1, <1>3, <2>1
<1>4. CASE ~(p = q /\ m = n)
  BY <1>2, <1>4 DEF RemoteTypeOK
<1> QED  BY <1>3, <1>4

LEMMA ReplyMoves ==
    ASSUME RemoteTypeOK, NEW q \in Requests, NEW n \in 1 .. Attempts, NEW result,
           Reply(q, n, result), NEW p \in Requests, NEW m \in 1 .. Attempts
    PROVE  /\ p = q /\ m = n => /\ thread'[p][m].result = result
                                /\ thread'[p][m].step = "reply"
           /\ ~(p = q /\ m = n) => thread'[p][m] = thread[p][m]
<1>1. thread' = [thread EXCEPT ![q] =
                    [thread[q] EXCEPT ![n] = [step |-> "reply", result |-> result]]]
  BY DEF Reply, RemoteTypeOK
<1> QED  BY <1>1 DEF RemoteTypeOK

-----------------------------------------------------------------------------
(* One answer.  A result that is in the cache stays there; a thread that    *)
(* replies, or is about to put its result into the cache, has one.          *)

AnswerInv ==
    \A q \in Requests :
        /\ \A n \in 1 .. Attempts :
              /\ ThreadAt(q, n, "finish") => thread[q][n].result \in Result
              /\ ThreadAt(q, n, "reply") => /\ thread[q][n].result = cache[q]
                                      /\ cache[q] \in Result
        /\ controller[q].state = "delivered" => /\ controller[q].result = cache[q]
                                                /\ cache[q] \in Result

CacheKept == \A q \in Requests : cache[q] \in Result => cache'[q] = cache[q]

\* A request is delivered with the result it had, or with the cached one.
DeliveredCached ==
    \A q \in Requests :
        controller'[q].state = "delivered" =>
            \/ /\ controller[q].state = "delivered"
               /\ controller'[q].result = controller[q].result
            \/ /\ controller'[q].result = cache[q]
               /\ cache[q] \in Result

LEMMA InitAnswerInv == RemoteInit => AnswerInv
BY DEF RemoteInit, AnswerInv, ThreadAt

LEMMA QuietAnswerInv ==
    ASSUME RemoteTypeOK, AnswerInv, NEW q \in Requests, NEW n \in 1 .. Attempts,
           NEW step \in ThreadSteps \ {"finish", "reply"}, Advance(q, n, step),
           CacheKept, DeliveredCached
    PROVE  AnswerInv'
<1>1. ASSUME NEW p \in Requests, NEW m \in 1 .. Attempts
      PROVE  /\ ThreadAt(p, m, "finish")' => thread'[p][m].result \in Result
             /\ ThreadAt(p, m, "reply")' => /\ thread'[p][m].result = cache'[p]
                                      /\ cache'[p] \in Result
  BY <1>1, RemoteGotoMoves DEF AnswerInv, ThreadAt, CacheKept
<1>2. ASSUME NEW p \in Requests, controller'[p].state = "delivered"
      PROVE  controller'[p].result = cache'[p] /\ cache'[p] \in Result
  BY <1>2 DEF AnswerInv, CacheKept, DeliveredCached
<1> QED  BY <1>1, <1>2 DEF AnswerInv

LEMMA ReplyAnswerInv ==
    ASSUME RemoteTypeOK, AnswerInv, NEW q \in Requests, NEW n \in 1 .. Attempts,
           NEW result \in Result, Reply(q, n, result), cache'[q] = result,
           CacheKept, UNCHANGED controller
    PROVE  AnswerInv'
<1>1. ASSUME NEW p \in Requests, NEW m \in 1 .. Attempts
      PROVE  /\ ThreadAt(p, m, "finish")' => thread'[p][m].result \in Result
             /\ ThreadAt(p, m, "reply")' => /\ thread'[p][m].result = cache'[p]
                                      /\ cache'[p] \in Result
  BY <1>1, ReplyMoves DEF AnswerInv, ThreadAt, CacheKept
<1>2. ASSUME NEW p \in Requests, controller'[p].state = "delivered"
      PROVE  controller'[p].result = cache'[p] /\ cache'[p] \in Result
  BY <1>2 DEF AnswerInv, CacheKept
<1> QED  BY <1>1, <1>2 DEF AnswerInv

\* A half-written entry never takes the place of a result.
LEMMA HalfWrittenKept ==
    ASSUME RemoteTypeOK, NEW q \in Requests, NEW n \in 1 .. Attempts, HalfWritten(q, n)
    PROVE  CacheKept
BY NoResultAssumption DEF HalfWritten, CacheKept, RemoteTypeOK

LEMMA SubmitAnswerInv ==
    ASSUME RemoteTypeInv, AnswerInv, NEW q \in Requests, Submit(q)
    PROVE  AnswerInv'
<1> USE RemoteAssumption
<1>1. CASE Issue(q)
  <2>1. 1 \in 1 .. Attempts /\ "sent" \in ThreadSteps \ {"finish", "reply"}
    BY DEF ThreadSteps
  <2>2. CacheKept /\ DeliveredCached /\ Advance(q, 1, "sent")
    BY <1>1 DEF Issue, Send, CacheKept, DeliveredCached, RemoteTypeInv, RemoteTypeOK, Controller
  <2> QED  BY <2>1, <2>2, QuietAnswerInv DEF RemoteTypeInv
<1>2. CASE ConnectionFails(q)
  <2>1. DeliveredCached /\ cache' = cache /\ thread' = thread
    BY <1>2 DEF ConnectionFails, DeliveredCached, RemoteTypeInv, RemoteTypeOK, Controller
  <2> QED  BY <2>1 DEF AnswerInv, ThreadAt, DeliveredCached
<1>3. CASE Retry(q)
  <2> DEFINE n == controller[q].attempt + 1
  <2>1. n \in 1 .. Attempts /\ "sent" \in ThreadSteps \ {"finish", "reply"}
    BY <1>3 DEF Retry, RemoteTypeInv, RemoteTypeOK, AttemptInv, Controller, ThreadSteps
  <2>2. CacheKept /\ DeliveredCached /\ Advance(q, n, "sent")
    BY <1>3 DEF Retry, Send, CacheKept, DeliveredCached, RemoteTypeInv, RemoteTypeOK, Controller
  <2> HIDE DEF n
  <2> QED  BY <2>1, <2>2, QuietAnswerInv DEF RemoteTypeInv
<1>4. CASE Receive(q)
  <2> DEFINE n == controller[q].attempt
  <2>1. n \in 1 .. Attempts /\ "gone" \in ThreadSteps \ {"finish", "reply"}
    BY <1>4 DEF Receive, RemoteTypeInv, AttemptInv, ThreadSteps
  <2>2. thread[q][n].result = cache[q] /\ cache[q] \in Result
    BY <1>4, <2>1 DEF Receive, AnswerInv
  <2>3. DeliveredCached
    BY <1>4, <2>2 DEF Receive, DeliveredCached, RemoteTypeInv, RemoteTypeOK, Controller
  <2>4. CacheKept /\ Advance(q, n, "gone")
    BY <1>4 DEF Receive, CacheKept
  <2> HIDE DEF n
  <2> QED  BY <2>1, <2>3, <2>4, QuietAnswerInv DEF RemoteTypeInv
<1>5. CASE ReceiveRefusal(q)
  <2> DEFINE n == controller[q].attempt
  <2>1. n \in 1 .. Attempts /\ "gone" \in ThreadSteps \ {"finish", "reply"}
    BY <1>5 DEF ReceiveRefusal, RemoteTypeInv, AttemptInv, ThreadSteps
  <2>2. CacheKept /\ DeliveredCached /\ Advance(q, n, "gone")
    BY <1>5 DEF ReceiveRefusal, CacheKept, DeliveredCached, RemoteTypeInv, RemoteTypeOK, Controller
  <2> HIDE DEF n
  <2> QED  BY <2>1, <2>2, QuietAnswerInv DEF RemoteTypeInv
<1> QED  BY <1>1, <1>2, <1>3, <1>4, <1>5 DEF Submit

LEMMA ProcessAnswerInv ==
    ASSUME RemoteTypeInv, AnswerInv, NEW q \in Requests, NEW n \in 1 .. Attempts,
           Process(q, n)
    PROVE  AnswerInv'
<1>1. controller' = controller /\ DeliveredCached
  BY DEF Process, Deliver, Lookup, Verify, Consume, StartExecution, Sign, Abandon,
         FinishExecution, FinishFails, DeliveredCached
<1>2. cache' = cache => CacheKept
  BY DEF CacheKept
<1>3. ASSUME NEW step \in ThreadSteps \ {"finish", "reply"}, Advance(q, n, step), CacheKept
      PROVE  AnswerInv'
  BY <1>1, <1>3, QuietAnswerInv DEF RemoteTypeInv
<1>4. {"lookup", "verify", "consume", "execute", "running", "refuse"}
          \subseteq ThreadSteps \ {"finish", "reply"}
  BY DEF ThreadSteps
<1>5. CASE Deliver(q, n)
  BY <1>2, <1>3, <1>4, <1>5 DEF Deliver
<1>6. CASE Lookup(q, n)
  <2>1. CASE cache[q] # Unreadable /\ cache[q] # NoResult /\ Reply(q, n, cache[q])
    <3>1. cache[q] \in Result
      BY <2>1 DEF RemoteTypeInv, RemoteTypeOK, Results
    <3> QED  BY <1>1, <1>2, <1>6, <2>1, <3>1, ReplyAnswerInv DEF Lookup, RemoteTypeInv
  <2>2. CASE Advance(q, n, "verify") \/ Advance(q, n, "refuse")
    BY <1>2, <1>3, <1>4, <1>6, <2>2 DEF Lookup
  <2> QED  BY <1>6, <2>1, <2>2 DEF Lookup
<1>7. CASE Verify(q, n)
  BY <1>2, <1>3, <1>4, <1>7 DEF Verify
<1>8. CASE Consume(q, n)
  BY <1>2, <1>3, <1>4, <1>8 DEF Consume
<1>9. CASE StartExecution(q, n)
  BY <1>2, <1>3, <1>4, <1>9 DEF StartExecution
<1>10. CASE Sign(q, n)
  <2> DEFINE new == [by |-> n, created |-> age[q]]
  <2>1. new \in Result
    BY DEF RemoteTypeInv, RemoteTypeOK, Result
  <2>2. thread' = [thread EXCEPT ![q] =
                      [thread[q] EXCEPT ![n] = [step |-> "finish", result |-> new]]]
    BY <1>10 DEF Sign, RemoteTypeInv, RemoteTypeOK
  <2> HIDE DEF new
  <2>3. ASSUME NEW p \in Requests, NEW m \in 1 .. Attempts
        PROVE  /\ ThreadAt(p, m, "finish")' => thread'[p][m].result \in Result
               /\ ThreadAt(p, m, "reply")' => /\ thread'[p][m].result = cache'[p]
                                        /\ cache'[p] \in Result
    <3>1. CASE p = q /\ m = n
      <4>1. thread'[p][m] = [step |-> "finish", result |-> new]
        BY <2>2, <3>1 DEF RemoteTypeInv, RemoteTypeOK
      <4> QED  BY <2>1, <4>1 DEF ThreadAt
    <3>2. CASE ~(p = q /\ m = n)
      <4>1. thread'[p][m] = thread[p][m]
        BY <2>2, <3>2 DEF RemoteTypeInv, RemoteTypeOK
      <4> QED  BY <1>10, <4>1 DEF ThreadAt, AnswerInv, Sign
    <3> QED  BY <3>1, <3>2
  <2> QED  BY <1>1, <1>10, <2>3 DEF AnswerInv, Sign
<1>11. CASE Abandon(q, n)
  BY <1>2, <1>3, <1>4, <1>11 DEF Abandon
<1>12. CASE FinishExecution(q, n)
  <2>1. thread[q][n].result \in Result
    BY <1>12 DEF FinishExecution, AnswerInv
  <2>2. CASE cache[q] = NoResult /\ cache' = [cache EXCEPT ![q] = thread[q][n].result]
             /\ Reply(q, n, thread[q][n].result)
    <3>1. CacheKept
      BY <2>2, NoResultAssumption DEF CacheKept, RemoteTypeInv, RemoteTypeOK
    <3>2. cache'[q] = thread[q][n].result
      BY <2>2 DEF RemoteTypeInv, RemoteTypeOK
    <3> QED  BY <1>1, <2>1, <2>2, <3>1, <3>2, ReplyAnswerInv DEF RemoteTypeInv
  <2>3. CASE Advance(q, n, "refuse") /\ UNCHANGED cache
    BY <1>2, <1>3, <1>4, <2>3
  <2> QED  BY <1>12, <2>2, <2>3 DEF FinishExecution
<1>13. CASE FinishFails(q, n)
  BY <1>3, <1>4, <1>13, HalfWrittenKept DEF FinishFails, RemoteTypeInv
<1> QED
  BY <1>5, <1>6, <1>7, <1>8, <1>9, <1>10, <1>11, <1>12, <1>13 DEF Process

LEMMA NextAnswerInv == RemoteTypeInv /\ AnswerInv /\ [RemoteNext]_remoteVars => AnswerInv'
<1> SUFFICES ASSUME RemoteTypeInv, AnswerInv, [RemoteNext]_remoteVars PROVE AnswerInv'
  OBVIOUS
<1>1. ASSUME NEW q \in Requests, Submit(q) PROVE AnswerInv'
  BY <1>1, SubmitAnswerInv
<1>2. ASSUME NEW q \in Requests, NEW n \in 1 .. Attempts, Process(q, n)
      PROVE  AnswerInv'
  BY <1>2, ProcessAnswerInv
<1>3. CASE Restart
  <2>1. CacheKept
    BY <1>3, HalfWrittenKept DEF Restart, RemoteTypeInv, CacheKept
  <2>2. \A q \in Requests : \A n \in 1 .. Attempts :
            thread'[q][n].step \in {"none", "gone"}
    BY <1>3 DEF Restart, ThreadAt
  <2> QED  BY <1>3, <2>1, <2>2 DEF Restart, AnswerInv, ThreadAt, CacheKept
<1>4. CASE Tick
  BY <1>4 DEF Tick, AnswerInv, ThreadAt
<1>5. CASE UNCHANGED remoteVars
  BY <1>5 DEF remoteVars, AnswerInv, ThreadAt
<1> QED  BY <1>1, <1>2, <1>3, <1>4, <1>5 DEF RemoteNext

\* Every answer of the worker, and every result a controller accepted, is the
\* cached one, for any number of attempts, overlaps and restarts.
THEOREM OneAnswerHolds == RemoteSpec => []OneAnswer
<1>1. AnswerInv => OneAnswer
  BY DEF AnswerInv, OneAnswer
<1> QED
  BY <1>1, InitAnswerInv, NextAnswerInv, RemoteTypeInvHolds, PTL DEF RemoteSpec

-----------------------------------------------------------------------------
(* One execution.  While a request has not expired its nonce stays, so that *)
(* at most one thread gets past Consume, before anything was executed.      *)

Once(q) ==
    /\ executions[q] <= 1
    /\ q \notin nonces => executions[q] = 0
    /\ \A n \in 1 .. Attempts : ThreadAt(q, n, "execute") => /\ q \in nonces
                                                       /\ executions[q] = 0
    /\ \A m, n \in 1 .. Attempts : ThreadAt(q, m, "execute") /\ ThreadAt(q, n, "execute") => m = n

OnceInv ==
    \A q \in Requests :
        /\ controller[q].state = "idle" => age[q] <= Ttl
        /\ age[q] <= Ttl => Once(q)

\* No thread gets to "execute", and no request gets younger.
Calm ==
    /\ UNCHANGED <<nonces, executions>>
    /\ \A q \in Requests :
          /\ age'[q] <= Ttl => age[q] <= Ttl
          /\ controller'[q].state = "idle" => /\ controller[q].state = "idle"
                                              /\ age'[q] = age[q]
          /\ \A n \in 1 .. Attempts :
                thread'[q][n].step = "execute" => ThreadAt(q, n, "execute")

LEMMA InitOnceInv == RemoteInit => OnceInv
BY RemoteAssumption DEF RemoteInit, OnceInv, Once, ThreadAt

LEMMA CalmOnceInv ==
    ASSUME OnceInv, Calm
    PROVE  OnceInv'
<1>1. ASSUME NEW q \in Requests
      PROVE  controller'[q].state = "idle" => age'[q] <= Ttl
  BY <1>1 DEF OnceInv, Calm
<1>2. ASSUME NEW q \in Requests, age'[q] <= Ttl
      PROVE  Once(q)'
  <2>1. Once(q)
    BY <1>2 DEF OnceInv, Calm
  <2>2. nonces' = nonces /\ executions' = executions
    BY DEF Calm
  <2>3. \A n \in 1 .. Attempts : ThreadAt(q, n, "execute")' => ThreadAt(q, n, "execute")
    BY <1>2 DEF Calm, ThreadAt
  <2> QED  BY <2>1, <2>2, <2>3 DEF Once
<1> QED  BY <1>1, <1>2 DEF OnceInv

\* Most steps of a controller or a thread only send a thread elsewhere.
LEMMA GotoCalm ==
    ASSUME RemoteTypeOK, NEW q \in Requests, NEW n \in 1 .. Attempts,
           NEW step \in ThreadSteps \ {"execute"}, Advance(q, n, step)
    PROVE  \A p \in Requests : \A m \in 1 .. Attempts :
               thread'[p][m].step = "execute" => ThreadAt(p, m, "execute")
<1> SUFFICES ASSUME NEW p \in Requests, NEW m \in 1 .. Attempts,
                    thread'[p][m].step = "execute"
             PROVE  ThreadAt(p, m, "execute")
  OBVIOUS
<1> QED  BY RemoteGotoMoves DEF ThreadAt

LEMMA SubmitOnceInv ==
    ASSUME RemoteTypeInv, OnceInv, NEW q \in Requests, Submit(q)
    PROVE  OnceInv'
<1> USE RemoteAssumption
<1>1. CASE Issue(q)
  <2>1. PICK offset \in Offsets : age' = [age EXCEPT ![q] = offset]
    BY <1>1 DEF Issue
  <2>2. /\ controller[q].state = "idle"
        /\ controller'[q].state = "waiting"
        /\ \A p \in Requests \ {q} : controller'[p] = controller[p]
        /\ nonces' = nonces /\ executions' = executions
    BY <1>1 DEF Issue, Send, RemoteTypeInv, RemoteTypeOK, Controller
  <2>3. 1 \in 1 .. Attempts /\ "sent" \in ThreadSteps \ {"execute"} /\ Advance(q, 1, "sent")
    BY <1>1 DEF Issue, Send, ThreadSteps
  <2>4. \A p \in Requests : \A m \in 1 .. Attempts :
            thread'[p][m].step = "execute" => ThreadAt(p, m, "execute")
    BY <2>3, GotoCalm DEF RemoteTypeInv
  <2>5. ASSUME NEW p \in Requests
        PROVE  /\ controller'[p].state = "idle" => age'[p] <= Ttl
               /\ age'[p] <= Ttl => age[p] <= Ttl
    BY <2>1, <2>2, <2>5 DEF OnceInv, RemoteTypeInv, RemoteTypeOK
  <2>6. ASSUME NEW p \in Requests, age'[p] <= Ttl
        PROVE  Once(p)'
    <3>1. Once(p)
      BY <2>5, <2>6 DEF OnceInv
    <3>2. \A n \in 1 .. Attempts : ThreadAt(p, n, "execute")' => ThreadAt(p, n, "execute")
      BY <2>4, <2>6 DEF ThreadAt
    <3> QED  BY <2>2, <3>1, <3>2 DEF Once
  <2> QED  BY <2>5, <2>6 DEF OnceInv
<1>2. CASE ConnectionFails(q)
  <2>1. Calm
    BY <1>2 DEF ConnectionFails, Calm, ThreadAt, RemoteTypeInv, RemoteTypeOK, Controller
  <2> QED  BY <2>1, CalmOnceInv
<1>3. CASE Retry(q)
  <2> DEFINE n == controller[q].attempt + 1
  <2>1. n \in 1 .. Attempts /\ "sent" \in ThreadSteps \ {"execute"}
    BY <1>3 DEF Retry, RemoteTypeInv, RemoteTypeOK, AttemptInv, Controller, ThreadSteps
  <2>2. Advance(q, n, "sent")
    BY <1>3 DEF Retry, Send
  <2> HIDE DEF n
  <2>3. \A p \in Requests : \A m \in 1 .. Attempts :
            thread'[p][m].step = "execute" => ThreadAt(p, m, "execute")
    BY <2>1, <2>2, GotoCalm DEF RemoteTypeInv
  <2>4. Calm
    BY <1>3, <2>3 DEF Retry, Send, Calm, RemoteTypeInv, RemoteTypeOK, Controller
  <2> QED  BY <2>4, CalmOnceInv
<1>4. CASE Receive(q) \/ ReceiveRefusal(q)
  <2> DEFINE n == controller[q].attempt
  <2>1. n \in 1 .. Attempts /\ "gone" \in ThreadSteps \ {"execute"}
    BY <1>4 DEF Receive, ReceiveRefusal, RemoteTypeInv, AttemptInv, ThreadSteps
  <2>2. Advance(q, n, "gone")
    BY <1>4 DEF Receive, ReceiveRefusal
  <2>3. /\ UNCHANGED <<age, nonces, executions>>
        /\ \A p \in Requests :
              controller'[p].state = "idle" => controller[p].state = "idle"
    BY <1>4 DEF Receive, ReceiveRefusal, RemoteTypeInv, RemoteTypeOK, Controller
  <2> HIDE DEF n
  <2>4. \A p \in Requests : \A m \in 1 .. Attempts :
            thread'[p][m].step = "execute" => ThreadAt(p, m, "execute")
    BY <2>1, <2>2, GotoCalm DEF RemoteTypeInv
  <2>5. Calm
    BY <2>3, <2>4 DEF Calm
  <2> QED  BY <2>5, CalmOnceInv
<1> QED  BY <1>1, <1>2, <1>3, <1>4 DEF Submit

LEMMA ProcessOnceInv ==
    ASSUME RemoteTypeInv, OnceInv, NEW q \in Requests, NEW n \in 1 .. Attempts,
           Process(q, n)
    PROVE  OnceInv'
<1>1. controller' = controller /\ age' = age
  BY DEF Process, Deliver, Lookup, Verify, Consume, StartExecution, Sign, Abandon,
         FinishExecution, FinishFails
<1>2. ASSUME UNCHANGED <<nonces, executions>>,
             \A p \in Requests : \A m \in 1 .. Attempts :
                 thread'[p][m].step = "execute" => ThreadAt(p, m, "execute")
      PROVE  OnceInv'
  <2>1. Calm
    BY <1>1, <1>2 DEF Calm
  <2> QED  BY <2>1, CalmOnceInv
<1>3. ASSUME UNCHANGED <<nonces, executions>>,
             NEW step \in ThreadSteps \ {"execute"}, Advance(q, n, step)
      PROVE  OnceInv'
  BY <1>2, <1>3, GotoCalm DEF RemoteTypeInv
<1>4. ASSUME UNCHANGED <<nonces, executions>>, NEW result, Reply(q, n, result)
      PROVE  OnceInv'
  <2>1. \A p \in Requests : \A m \in 1 .. Attempts :
            thread'[p][m].step = "execute" => ThreadAt(p, m, "execute")
    BY <1>4, ReplyMoves DEF RemoteTypeInv, ThreadAt
  <2> QED  BY <1>2, <1>4, <2>1
<1>5. {"lookup", "verify", "consume", "running", "refuse"}
          \subseteq ThreadSteps \ {"execute"}
  BY DEF ThreadSteps
<1>6. CASE Deliver(q, n)
  BY <1>3, <1>5, <1>6 DEF Deliver
<1>7. CASE Lookup(q, n)
  <2>1. CASE \E step \in {"verify", "refuse"} : Advance(q, n, step)
    BY <1>3, <1>5, <1>7, <2>1 DEF Lookup
  <2>2. CASE Reply(q, n, cache[q])
    BY <1>4, <1>7, <2>2 DEF Lookup
  <2> QED  BY <1>7, <2>1, <2>2 DEF Lookup
<1>8. CASE Verify(q, n)
  BY <1>3, <1>5, <1>8 DEF Verify
<1>9. CASE Consume(q, n)
  <2>1. CASE Advance(q, n, "refuse") /\ UNCHANGED nonces
    BY <1>3, <1>5, <1>9, <2>1 DEF Consume
  <2>2. CASE /\ q \notin Unexpired
             /\ nonces' = Unexpired \cup {q}
             /\ Advance(q, n, "execute")
    <3>1. executions' = executions
      BY <1>9 DEF Consume
    <3>2. ASSUME NEW p \in Requests, age'[p] <= Ttl
          PROVE  Once(p)'
      <4>1. Once(p) /\ age[p] <= Ttl
        BY <1>1, <3>2 DEF OnceInv
      <4>2. p \in nonces => p \in nonces'
        BY <2>2, <4>1 DEF Unexpired
      <4>3. CASE p = q
        <5>1. q \notin nonces
          BY <2>2, <4>1, <4>3 DEF Unexpired
        <5>2. executions[q] = 0 /\ \A m \in 1 .. Attempts : ~ThreadAt(q, m, "execute")
          BY <4>1, <4>3, <5>1 DEF Once
        <5>3. \A m \in 1 .. Attempts : ThreadAt(q, m, "execute")' => m = n
          BY <2>2, <5>2, RemoteGotoMoves DEF RemoteTypeInv, ThreadAt
        <5>4. q \in nonces'
          BY <2>2
        <5> QED  BY <3>1, <4>3, <5>2, <5>3, <5>4 DEF Once
      <4>4. CASE p # q
        <5>1. \A m \in 1 .. Attempts : ThreadAt(p, m, "execute")' => ThreadAt(p, m, "execute")
          BY <2>2, <4>4, RemoteGotoMoves DEF RemoteTypeInv, ThreadAt
        <5> QED  BY <3>1, <4>1, <4>2, <5>1 DEF Once
      <4> QED  BY <4>3, <4>4
    <3> QED  BY <1>1, <3>2 DEF OnceInv
  <2> QED  BY <1>9, <2>1, <2>2 DEF Consume
<1>10. CASE StartExecution(q, n)
  <2>1. /\ ThreadAt(q, n, "execute")
        /\ Advance(q, n, "running")
        /\ executions' = [executions EXCEPT ![q] = @ + 1]
        /\ nonces' = nonces
    BY <1>10 DEF StartExecution
  <2>2. ASSUME NEW p \in Requests, age'[p] <= Ttl
        PROVE  Once(p)'
    <3>1. Once(p)
      BY <1>1, <2>2 DEF OnceInv
    <3>2. CASE p = q
      <4>1. q \in nonces /\ executions[q] = 0
        BY <2>1, <3>1, <3>2 DEF Once
      <4>2. executions'[q] = 1
        BY <2>1, <4>1 DEF RemoteTypeInv, RemoteTypeOK
      <4>3. \A m \in 1 .. Attempts : ~ThreadAt(q, m, "execute")'
        <5> SUFFICES ASSUME NEW m \in 1 .. Attempts, ThreadAt(q, m, "execute")'
                     PROVE  FALSE
          OBVIOUS
        <5>1. CASE m = n
          BY <2>1, <5>1, RemoteGotoMoves DEF RemoteTypeInv, ThreadAt
        <5>2. CASE m # n
          <6>1. ThreadAt(q, m, "execute")
            BY <2>1, <5>2, RemoteGotoMoves DEF RemoteTypeInv, ThreadAt
          <6> QED  BY <2>1, <3>1, <3>2, <5>2, <6>1 DEF Once
        <5> QED  BY <5>1, <5>2
      <4> QED  BY <2>1, <3>2, <4>1, <4>2, <4>3 DEF Once
    <3>3. CASE p # q
      <4>1. executions'[p] = executions[p]
        BY <2>1, <3>3 DEF RemoteTypeInv, RemoteTypeOK
      <4>2. \A m \in 1 .. Attempts : ThreadAt(p, m, "execute")' => ThreadAt(p, m, "execute")
        BY <2>1, <3>3, RemoteGotoMoves DEF RemoteTypeInv, ThreadAt
      <4> QED  BY <2>1, <3>1, <4>1, <4>2 DEF Once
    <3> QED  BY <3>2, <3>3
  <2> QED  BY <1>1, <2>2 DEF OnceInv
<1>11. CASE Sign(q, n)
  <2>1. \A p \in Requests : \A m \in 1 .. Attempts :
            thread'[p][m].step = "execute" => ThreadAt(p, m, "execute")
    BY <1>11 DEF Sign, ThreadAt, RemoteTypeInv, RemoteTypeOK
  <2> QED  BY <1>2, <1>11, <2>1 DEF Sign
<1>12. CASE Abandon(q, n)
  BY <1>3, <1>5, <1>12 DEF Abandon
<1>13. CASE FinishExecution(q, n)
  BY <1>3, <1>4, <1>5, <1>13 DEF FinishExecution
<1>14. CASE FinishFails(q, n)
  BY <1>3, <1>5, <1>14 DEF FinishFails
<1> QED
  BY <1>6, <1>7, <1>8, <1>9, <1>10, <1>11, <1>12, <1>13, <1>14 DEF Process

LEMMA NextOnceInv == RemoteTypeInv /\ OnceInv /\ [RemoteNext]_remoteVars => OnceInv'
<1> SUFFICES ASSUME RemoteTypeInv, OnceInv, [RemoteNext]_remoteVars PROVE OnceInv'
  OBVIOUS
<1>1. ASSUME NEW q \in Requests, Submit(q) PROVE OnceInv'
  BY <1>1, SubmitOnceInv
<1>2. ASSUME NEW q \in Requests, NEW n \in 1 .. Attempts, Process(q, n)
      PROVE  OnceInv'
  BY <1>2, ProcessOnceInv
<1>3. CASE Restart
  <2>1. Calm
    BY <1>3 DEF Restart, Calm, ThreadAt
  <2> QED  BY <2>1, CalmOnceInv
<1>4. CASE Tick
  <2>1. ASSUME NEW q \in Requests
        PROVE  /\ age'[q] <= Ttl => age[q] <= Ttl
               /\ controller'[q].state = "idle" => age'[q] = age[q]
    BY <1>4, <2>1, RemoteAssumption DEF Tick, Issued, RemoteTypeInv, RemoteTypeOK
  <2>2. Calm
    BY <1>4, <2>1 DEF Tick, Calm, ThreadAt
  <2> QED  BY <2>2, CalmOnceInv
<1>5. CASE UNCHANGED remoteVars
  <2>1. Calm
    BY <1>5 DEF remoteVars, Calm, ThreadAt
  <2> QED  BY <2>1, CalmOnceInv
<1> QED  BY <1>1, <1>2, <1>3, <1>4, <1>5 DEF RemoteNext

\* Until it expires a request is executed at most once, for any number of
\* attempts, any clock offset and any skew, and however often the worker dies.
THEOREM ExecutedOnceUntilExpiryHolds == RemoteSpec => []ExecutedOnceUntilExpiry
<1>1. OnceInv => ExecutedOnceUntilExpiry
  BY DEF OnceInv, Once, ExecutedOnceUntilExpiry
<1> QED
  BY <1>1, InitOnceInv, NextOnceInv, RemoteTypeInvHolds, PTL DEF RemoteSpec

-----------------------------------------------------------------------------
(* The composition.                                                         *)

\* Every step of a managed job is one of the fleet transaction or of the
\* submission, and leaves the other alone.
THEOREM JobImplementsParts == JobSpec => Spec /\ RemoteSpec
  <1>1. JobInit => Init /\ RemoteInit
    BY DEF JobInit
  <1>2. [JobNext]_<<vars, remoteVars, acting>> => [Next]_vars /\ [RemoteNext]_remoteVars
    BY DEF JobNext
  <1> QED
    BY <1>1, <1>2, PTL DEF JobSpec, Spec, RemoteSpec

\* So a worker that failed often enough is not active, and a job that ended left
\* nothing behind, ...
COROLLARY JobInvariants ==
    JobSpec => /\ []ActiveBelowThreshold /\ []NothingLeftBehind
               /\ []OneAnswer /\ []ExecutedOnceUntilExpiry
  BY JobImplementsParts, ActiveBelowThresholdHolds, NothingLeftBehindHolds, OneAnswerHolds,
     ExecutedOnceUntilExpiryHolds, PTL

\* ... only operators bring a worker back, and a job of an unshared worker is alone.
COROLLARY JobSteps == JobSpec => OnlyOperatorsReadmit /\ RanAlone
  BY JobImplementsParts, OnlyOperatorsReadmitHolds, RanAloneHolds, PTL
=============================================================================
