---------------------------- MODULE ManagedFleet ----------------------------
(***************************************************************************)
(* The registry of Windows workers (fleet.py) and the managed fleet         *)
(* transaction (fleet_runner.py): several queue runners choose workers,     *)
(* reset their virtual machines before and after a job, probe them, run the *)
(* job and record how it went, while operators enroll, probe, quarantine,   *)
(* activate and revoke the same workers.                                    *)
(*                                                                         *)
(* Every change of the registry is one step: it is made under the registry  *)
(* lock and written in one replacement.  Nothing locks a worker: what a     *)
(* runner read of it may have changed by its next step.                     *)
(***************************************************************************)
EXTENDS Naturals, FiniteSets

CONSTANTS
    Workers,      \* worker ids
    Runners,      \* queue runners (one job at a time each)
    WorkersFor,   \* the workers the labels of a runner's jobs match
    Threshold,    \* quarantine_threshold of every command
    None

ASSUME FleetAssumption ==
    /\ WorkersFor \in [Runners -> SUBSET Workers]
    /\ Threshold \in Nat \ {0}
    /\ None \notin Workers

VARIABLES
    registry,     \* the record of each worker
    run,          \* where each runner is in execute_managed_fleet_job
    machine,      \* what has run on each machine since it was restored
    failing       \* history: failed jobs in a row, see RepeatedFailuresQuarantine

vars == <<registry, run, machine, failing>>

-----------------------------------------------------------------------------
WorkerStates == {"ABSENT", "ACTIVE", "QUARANTINED", "REVOKED"}

\* failures: consecutive_failures, counted up to the threshold.
Worker == [state    : WorkerStates,
           failures : 0 .. Threshold,
           health   : {"none", "passed", "failed"}]

NoWorker == [state |-> "ABSENT", failures |-> 0, health |-> "none"]
Enrolled == [NoWorker EXCEPT !.state = "ACTIVE"]

Steps == {"chosen", "before", "probe", "submit", "running", "after", "record"}
Run   == [step : Steps, worker : Workers, failed : BOOLEAN]
Idle  == [step |-> "idle", worker |-> None, failed |-> FALSE]

\* A machine holds the jobs of runners still in their transaction and, as
\* Remains, those of transactions that ended without a reset.
Remains == "remains"

ASSUME RemainsAssumption == Remains \notin Runners

TypeOK ==
    /\ registry \in [Workers -> Worker]
    /\ run \in [Runners -> Run \cup {Idle}]
    /\ machine \in [Workers -> SUBSET (Runners \cup {Remains})]
    /\ failing \in [Workers -> 0 .. Threshold]

Init ==
    /\ registry = [w \in Workers |-> NoWorker]
    /\ run = [r \in Runners |-> Idle]
    /\ machine = [w \in Workers |-> {}]
    /\ failing = [w \in Workers |-> 0]

-----------------------------------------------------------------------------
(* The operations of FleetRegistry.                                        *)

OneMore(n) == IF n < Threshold THEN n + 1 ELSE n

\* Mutant of Passed: a healthy worker leaves quarantine.
PassedReactivates(rec) ==
    [rec EXCEPT !.state = "ACTIVE", !.failures = 0, !.health = "passed"]

Passed(rec) == [rec EXCEPT !.failures = 0, !.health = "passed"]

\* Mutant of Failed: an off-by-one in the comparison with the threshold.
FailedOffByOne(rec) ==
    [rec EXCEPT !.failures = OneMore(@),
                !.health = "failed",
                !.state = IF rec.failures >= Threshold THEN "QUARANTINED" ELSE @]

Failed(rec) ==
    [rec EXCEPT !.failures = OneMore(@),
                !.health = "failed",
                !.state = IF OneMore(rec.failures) = Threshold THEN "QUARANTINED"
                                                               ELSE @]

\* record_health refuses a worker it does not know, and a revoked one.
Recordable(w) == registry[w].state \in {"ACTIVE", "QUARANTINED"}

RecordHealth(w, passed) ==
    registry' = IF Recordable(w)
                  THEN [registry EXCEPT ![w] = IF passed THEN Passed(@) ELSE Failed(@)]
                  ELSE registry

\* A new worker or, with --replace, one in any state, which starts anew.
Enroll(w) ==
    /\ registry' = [registry EXCEPT ![w] = Enrolled]
    /\ failing' = [failing EXCEPT ![w] = 0]
    /\ UNCHANGED <<run, machine>>

Transition(w, state) ==
    /\ registry[w].state # "ABSENT"
    /\ registry[w].state = "REVOKED" => state = "REVOKED"
    /\ registry' = [registry EXCEPT ![w].state = state,
                                    ![w].failures = IF state = "ACTIVE" THEN 0 ELSE @]
    /\ failing' = [failing EXCEPT ![w] = IF state = "ACTIVE" THEN 0 ELSE @]
    /\ UNCHANGED <<run, machine>>

\* probe_fleet_worker, called by an operator.
OperatorProbe(w, passed) ==
    /\ Recordable(w)
    /\ RecordHealth(w, passed)
    /\ failing' = [failing EXCEPT ![w] = IF passed THEN 0 ELSE @]
    /\ UNCHANGED <<run, machine>>

Operator(w) ==
    \/ Enroll(w)
    \/ \E state \in WorkerStates \ {"ABSENT"} : Transition(w, state)
    \/ \E passed \in BOOLEAN : OperatorProbe(w, passed)

-----------------------------------------------------------------------------
(* The transaction of a runner.                                            *)

At(r, step)  == run[r].step = step
MachineOf(r) == machine[run[r].worker]

Goto(r, step) == run' = [run EXCEPT ![r].step = step]
FailAt(r, step) == run' = [run EXCEPT ![r].step = step, ![r].failed = TRUE]

\* Whatever the job of r left on its machine outlives the transaction.
Forget(r) ==
    machine' = [w \in Workers |-> IF r \in machine[w]
                                    THEN (machine[w] \ {r}) \cup {Remains}
                                    ELSE machine[w]]

End(r) == run' = [run EXCEPT ![r] = Idle] /\ Forget(r)

Choose(r, w) ==
    /\ At(r, "idle")
    /\ w \in WorkersFor[r]
    /\ run' = [run EXCEPT ![r] = [step |-> "chosen", worker |-> w, failed |-> FALSE]]
    /\ UNCHANGED <<registry, machine, failing>>

\* A payload with a worker_id, or fleet test --worker-id, skips the selection.
Pin(r, w) == Choose(r, w)

\* select: the first by priority of the healthy workers that match the labels
\* of the job, which may be any of them.
Select(r, w) ==
    /\ registry[w].state = "ACTIVE"
    /\ registry[w].health = "passed"
    /\ Choose(r, w)

Admit(r) ==
    /\ At(r, "chosen")
    /\ registry[run[r].worker].state = "ACTIVE"
    /\ Goto(r, "before")
    /\ UNCHANGED <<registry, machine, failing>>

\* The worker is not active any more, or its endpoint file does not load:
\* both raise before the transaction begins.
Decline(r) ==
    /\ At(r, "chosen")
    /\ End(r)
    /\ UNCHANGED <<registry, failing>>

\* Restoring the snapshot ends whatever runs on the machine.
Restored(r) == machine' = [machine EXCEPT ![run[r].worker] = {}]

ResetBefore(r) ==
    /\ At(r, "before")
    /\ Restored(r)
    /\ Goto(r, "probe")
    /\ UNCHANGED <<registry, failing>>

\* Mutant of ResetBeforeFails: the failure is logged and the job goes on.
ResetBeforeIgnored(r) ==
    /\ At(r, "before")
    /\ Restored(r) \/ UNCHANGED machine
    /\ Goto(r, "probe")
    /\ UNCHANGED <<registry, failing>>

\* All attempts fail: the restore command, or the measurement after it.
ResetBeforeFails(r) ==
    /\ At(r, "before")
    /\ Restored(r) \/ UNCHANGED machine
    /\ FailAt(r, "after")
    /\ UNCHANGED <<registry, failing>>

\* Recording may be refused, which fails the probe; and a healthy worker may
\* report another runtime than the record the runner read.
ProbePasses(r) ==
    /\ At(r, "probe")
    /\ RecordHealth(run[r].worker, TRUE)
    /\ \/ Recordable(run[r].worker) /\ Goto(r, "submit")
       \/ FailAt(r, "after")
    /\ UNCHANGED <<machine, failing>>

ProbeFails(r) ==
    /\ At(r, "probe")
    /\ RecordHealth(run[r].worker, FALSE)
    /\ FailAt(r, "after")
    /\ UNCHANGED <<machine, failing>>

StartJob(r) ==
    /\ At(r, "submit")
    /\ machine' = [machine EXCEPT ![run[r].worker] = @ \cup {r}]
    /\ Goto(r, "running")
    /\ UNCHANGED <<registry, failing>>

\* A signed result arrives only from a job that no reset has ended.
JobEnds(r) ==
    /\ At(r, "running")
    /\ r \in MachineOf(r)
    /\ Goto(r, "after")
    /\ UNCHANGED <<registry, machine, failing>>

\* The submission fails, or no acceptable result arrives in time; the job may
\* still be running.
JobFails(r) ==
    /\ At(r, "submit") \/ At(r, "running")
    /\ FailAt(r, "after")
    /\ UNCHANGED <<registry, machine, failing>>

\* The finally block: also after a failure.
ResetAfter(r) ==
    /\ At(r, "after")
    /\ Restored(r)
    /\ Goto(r, "record")
    /\ UNCHANGED <<registry, failing>>

\* Mutant of ResetAfterFails: the exception of the finally block is dropped.
ResetAfterIgnored(r) ==
    /\ At(r, "after")
    /\ Restored(r) \/ UNCHANGED machine
    /\ Goto(r, "record")
    /\ UNCHANGED <<registry, failing>>

ResetAfterFails(r) ==
    /\ At(r, "after")
    /\ Restored(r) \/ UNCHANGED machine
    /\ FailAt(r, "record")
    /\ UNCHANGED <<registry, failing>>

\* The result is returned only if its health could be recorded.
Accept(r) ==
    /\ At(r, "record")
    /\ ~run[r].failed
    /\ Recordable(run[r].worker)
    /\ RecordHealth(run[r].worker, TRUE)
    /\ failing' = [failing EXCEPT ![run[r].worker] = 0]
    /\ End(r)

Reject(r) ==
    /\ At(r, "record")
    /\ run[r].failed \/ ~Recordable(run[r].worker)
    /\ RecordHealth(run[r].worker, FALSE)
    /\ failing' = [failing EXCEPT ![run[r].worker] =
                      IF Recordable(run[r].worker) THEN OneMore(@) ELSE @]
    /\ End(r)

\* The runner dies: no reset follows.
Crash(r) ==
    /\ ~At(r, "idle")
    /\ End(r)
    /\ UNCHANGED <<registry, failing>>

Step(r) ==
    \/ \E w \in Workers : Select(r, w) \/ Pin(r, w)
    \/ Admit(r)
    \/ Decline(r)
    \/ ResetBefore(r)
    \/ ResetBeforeFails(r)
    \/ ProbePasses(r)
    \/ ProbeFails(r)
    \/ StartJob(r)
    \/ JobEnds(r)
    \/ JobFails(r)
    \/ ResetAfter(r)
    \/ ResetAfterFails(r)
    \/ Accept(r)
    \/ Reject(r)
    \/ Crash(r)

Next ==
    \/ \E w \in Workers : Operator(w)
    \/ \E r \in Runners : Step(r)

Spec == Init /\ [][Next]_vars

-----------------------------------------------------------------------------
(* Properties.                                                             *)

\* Automatic quarantine cannot be outrun: however the failures recorded by
\* runners and operators interleave with activations and enrollments, no
\* worker is active with as many failures in a row as the threshold.
ActiveBelowThreshold ==
    \A w \in Workers :
        registry[w].state = "ACTIVE" => registry[w].failures < Threshold

\* A worker taken out of service comes back only by an operator's activate or
\* enroll, a revoked one only by enroll: never by what a runner records that
\* was in its transaction when the worker was quarantined or revoked.
OnlyOperatorsReadmit ==
    [][\A w \in Workers :
          LET old == registry[w].state
              new == registry'[w].state
          IN  /\ old = "QUARANTINED" /\ new = "ACTIVE" =>
                    Enroll(w) \/ Transition(w, "ACTIVE")
              /\ old = "REVOKED" /\ new # "REVOKED" => Enroll(w)]_vars

\* A result is accepted only when nothing of its job is left on the machine,
\* although other runners may use the machine, and resets may fail.
NothingLeftBehind ==
    \A r \in Runners :
        At(r, "record") /\ ~run[r].failed => r \notin MachineOf(r)

\* On a worker that only one runner uses, a job that delivers a result has
\* run alone on a fresh machine, whatever crashed or failed there before it.
RanAlone ==
    [][\A r \in Runners :
          /\ JobEnds(r)
          /\ \A s \in Runners \ {r} : run[r].worker \notin WorkersFor[s]
          => MachineOf(r) = {r}]_vars

\* docs/REMOTE_WORKERS.md, "Health and quarantine": "Repeated probe/job
\* failures automatically quarantine the worker."  failing counts the jobs
\* that failed one after the other, with no success, no operator's passed
\* probe, activation or enrollment in between.
RepeatedFailuresQuarantine ==
    \A w \in Workers :
        failing[w] = Threshold => registry[w].state # "ACTIVE"
=============================================================================
