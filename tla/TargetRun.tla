------------------------------ MODULE TargetRun ------------------------------
(***************************************************************************)
(* ScriptRunner.run (runner.py): one script on one runtime, from the       *)
(* resolution of its inputs to the status of its report.  Every command it *)
(* starts goes through run_process, whose outcome here is one of those     *)
(* ProcessSupervision allows: the command ended with an exit code, or a    *)
(* limit was exceeded, or its time was up.                                 *)
(*                                                                         *)
(* Options and contract are read where the code first needs them, so their *)
(* values are chosen there; what a command finds is chosen when it runs.   *)
(***************************************************************************)
EXTENDS Naturals

CONSTANTS MaxHooks   \* bound: setup hooks and teardown hooks

ASSUME HookAssumption == MaxHooks \in Nat

\* run_process: exit code 0, another one, resource_violation, timed_out.
Ends == {"ok", "bad", "limit", "late"}

Exceeds(end) == end \in {"limit", "late"}
Modes == {"auto", "required", "off"}

VARIABLES
    at,         \* the step run() is at
    work,       \* the copied workspace: "none", "made", "removed"
    keep,       \* keep_sandbox
    locked,     \* a dependency lock was loaded
    parse,      \* how the parser's run ended
    probe,      \* how the dependency probe ended
    hooks,      \* how many setup and teardown hooks there are
    setup,      \* setup hooks run, and whether one failed
    teardown,   \* teardown hooks run, and whether one failed
    script,     \* the run of the script and what its contract says of it
    pester,     \* the run of Pester and what the options ask of it
    status,     \* status of the report
    fault       \* where an exception left run(), or "none"

front == <<keep, locked, parse, probe, hooks>>
later == <<setup, teardown, script, pester>>
targetVars == <<at, work, front, later, status, fault>>

NoHooks == [run |-> 0, failed |-> FALSE]
NoScript == [end |-> "unrun", code |-> 0, stated |-> FALSE, expect |-> 0, offends |-> FALSE,
             envelope |-> FALSE, native |-> FALSE, checks |-> TRUE]
NoPester == [mode |-> "auto", end |-> "unrun", tests |-> "no-tests", short |-> FALSE]

TargetInit ==
    /\ at = "inputs" /\ work = "none" /\ keep \in BOOLEAN /\ locked = FALSE
    /\ parse = "unrun" /\ probe = "unrun"
    /\ hooks \in [setup : 0..MaxHooks, teardown : 0..MaxHooks]
    /\ setup = NoHooks /\ teardown = NoHooks
    /\ script = NoScript /\ pester = NoPester
    /\ status = "none" /\ fault = "none"

Cleaned == IF work = "made" /\ ~keep THEN "removed" ELSE work

\* A report ends the run; from "plan" on the finally clause removes the
\* workspace, before that each return has to.
Report(result) == at' = "done" /\ status' = result /\ work' = Cleaned
Continue(next) == at' = next /\ UNCHANGED <<status, work>>

\* An exception leaves run(): the caller records FAIL_WORKER.
Raise(place) ==
    /\ at' = "raised" /\ fault' = place
    /\ work' = IF place = "staging" THEN work ELSE Cleaned
    /\ UNCHANGED <<front, later, status>>

-----------------------------------------------------------------------------
(* Before the workspace exists. *)

ResolveInputs ==
    /\ at = "inputs"
    /\ Report("FAIL_INPUT") \/ Continue("dependencies")
    /\ UNCHANGED <<front, later, fault>>

\* The lock file: not there, or loaded and its modules found, or neither.
ResolveDependencies ==
    /\ at = "dependencies"
    /\ \E policy \in Modes, file \in {"absent", "good", "bad"} :
          /\ locked' = (policy # "off" /\ file = "good")
          /\ IF policy # "off" /\ (file = "bad" \/ (file = "absent" /\ policy = "required"))
             THEN Report("FAIL_DEPENDENCY")
             ELSE Continue("runtime")
    /\ UNCHANGED <<keep, parse, probe, hooks, later, fault>>

\* _resolve_runtime: native first, then OCI; under "auto" every failure of
\* both is "not found".
ResolveRuntime ==
    /\ at = "runtime"
    /\ \E backend \in {"auto", "native", "oci"}, native, oci \in {"ready", "missing", "broken"} :
          LET tried == CASE backend = "auto" -> {native, oci}
                         [] backend = "native" -> {native}
                         [] backend = "oci" -> {oci}
          IN  IF "ready" \in tried THEN Continue("workspace")
              ELSE Report(IF tried = {"broken"} /\ backend # "auto" THEN "FAIL_RUNTIME"
                                                                   ELSE "UNTESTED_RUNTIME")
    /\ UNCHANGED <<front, later, fault>>

-----------------------------------------------------------------------------
(* The workspace, its fixtures, hooks, modules and sandbox. *)

MakeWorkspace ==
    /\ at = "workspace"
    /\ work' \in {"none", "made"}
    /\ at' = "staging"
    /\ UNCHANGED <<front, later, status, fault>>

\* Mutant: the return for bad fixtures forgets the workspace.
StagedUncleaned ==
    /\ at = "staging"
    /\ (at' = "done" /\ status' = "FAIL_INPUT" /\ UNCHANGED work) \/ Continue("plan")
    /\ UNCHANGED <<front, later, fault>>

Staged ==
    /\ at = "staging"
    /\ Report("FAIL_INPUT") \/ Continue("plan")
    /\ UNCHANGED <<front, later, fault>>

\* Copying the project, the fixtures or the locked modules raises something
\* else than RunConfigurationError.
StagingRaises == at = "staging" /\ Raise("staging")

BuildPlan ==
    /\ at = "plan"
    /\ Report("FAIL_SANDBOX") \/ Continue("parse")
    /\ UNCHANGED <<front, later, fault>>

-----------------------------------------------------------------------------
(* Parser, analyzer, dependency probe and setup hooks. *)

\* _analyzer_failure: without a payload of the parser's run there is no
\* analyzer status either, which counts as unavailable.
AnalyzerFails(mode, found) ==
    mode # "off" /\ (found \in {"error", "findings"} \/ (found = "unavailable" /\ mode = "required"))

Parse ==
    /\ at = "parse"
    /\ \E end \in Ends, valid \in BOOLEAN, mode \in Modes,
          found \in {"unavailable", "error", "findings", "clean"} :
          /\ end # "ok" => ~valid /\ found = "unavailable"
          /\ parse' = IF valid THEN end ELSE IF end = "ok" THEN "invalid" ELSE end
          /\ IF AnalyzerFails(mode, found) THEN Report("FAIL_ANALYZER")
             ELSE IF ~valid THEN Report(IF Exceeds(end) THEN "FAIL_RESOURCE" ELSE "FAIL_PARSE")
             ELSE Continue(IF locked THEN "probe" ELSE "setup")
    /\ UNCHANGED <<keep, locked, probe, hooks, later, fault>>

\* _parse_dependency_result
Probe ==
    /\ at = "probe"
    /\ \E end \in Ends, answer \in {"satisfied", "unsatisfied", "invalid"} :
          LET satisfied == end = "ok" /\ answer = "satisfied"
          IN  /\ probe' = IF satisfied THEN "ok" ELSE "bad"
              /\ IF satisfied THEN Continue("setup") ELSE Report("FAIL_DEPENDENCY")
    /\ UNCHANGED <<keep, locked, parse, hooks, later, fault>>

Hooked(done, end) == [run |-> done.run + 1, failed |-> done.failed \/ end # "ok"]

\* _run_hooks("setup") stops at the first that fails.
SetupHook ==
    /\ at = "setup" /\ setup.run < hooks.setup /\ ~setup.failed
    /\ \E end \in Ends : setup' = Hooked(setup, end)
    /\ UNCHANGED <<at, work, front, teardown, script, pester, status, fault>>

SetupDone ==
    /\ at = "setup" /\ (setup.run = hooks.setup \/ setup.failed)
    /\ Continue(IF setup.failed THEN "undo" ELSE "execute")
    /\ UNCHANGED <<front, later, fault>>

\* _run_hooks("teardown") runs them all.
TeardownHook ==
    /\ at \in {"undo", "teardown"} /\ teardown.run < hooks.teardown
    /\ \E end \in Ends : teardown' = Hooked(teardown, end)
    /\ UNCHANGED <<at, work, front, setup, script, pester, status, fault>>

UndoDone ==
    /\ at = "undo" /\ teardown.run = hooks.teardown
    /\ Report("FAIL_SETUP")
    /\ UNCHANGED <<front, later, fault>>

-----------------------------------------------------------------------------
(* The script, Pester and the verdict. *)

\* The script runs.  offends: it left error records that the stream policy and
\* the contract do not allow; native: its native exit code breaks the policy;
\* checks: the postconditions hold.  The first two reach the report through
\* the observation file, written at the end and not at all when the process
\* is ended from inside.
ExecuteScript ==
    /\ at = "execute"
    /\ \E ran \in [end : Ends, code : 0..1, stated : BOOLEAN, expect : 0..1, offends : BOOLEAN,
                   envelope : BOOLEAN, native : BOOLEAN, checks : BOOLEAN] :
          /\ ran.code = 1 <=> ran.end = "bad"
          /\ ran.expect = 1 => ran.stated
          /\ Exceeds(ran.end) => ran = [NoScript EXCEPT !.end = ran.end]
          /\ script' = ran
    /\ Continue("pester")
    /\ UNCHANGED <<front, setup, teardown, pester, fault>>

\* _coverage_failure, from the mode, the threshold and what was collected.
CoverageFails(mode, covered, under) ==
    mode # "off" /\ IF covered THEN under = "missed" ELSE mode = "required" \/ under # "none"

\* Pester runs when it is installed (a smoke test is generated then), unless
\* it is off or the script exceeded a limit.  Only a run that answers can
\* have collected coverage.
RunPester ==
    /\ at = "pester"
    /\ \E mode, coverage \in Modes, installed, covered \in BOOLEAN, end \in Ends,
          answer \in {"error", "failed", "passed"}, under \in {"none", "met", "missed"} :
          LET runs == installed /\ mode # "off" /\ ~Exceeds(script.end)
          IN  /\ covered => runs /\ end = "ok" /\ answer # "error"
              /\ pester' = [mode |-> mode,
                            end |-> IF runs THEN end ELSE "unrun",
                            tests |-> CASE mode = "off" -> "skipped"
                                        [] mode # "off" /\ ~installed -> "unavailable"
                                        [] mode # "off" /\ installed /\ ~runs -> "no-tests"
                                        [] runs -> IF end = "ok" THEN answer ELSE "error",
                            short |-> CoverageFails(coverage, covered, under)]
    /\ Continue("verdict")
    /\ UNCHANGED <<front, setup, teardown, script, fault>>

\* _stream_failure sees what the observation file holds.
StreamFails == script.envelope /\ script.offends

\* verify: the independent checks, the contract's exit code among them.
CheckFails == ~script.checks \/ (script.stated /\ script.code # script.expect)

\* _pester_failure
PesterFails == /\ pester.mode # "off"
               /\ \/ pester.tests \in {"error", "failed"}
                  \/ pester.mode = "required" /\ pester.tests \in {"no-tests", "unavailable"}

Verdict == CASE script.end = "late" -> "FAIL_TIMEOUT"
             [] script.end = "limit" -> "FAIL_RESOURCE"
             [] OTHER ->
                IF script.code # 0 /\ script.code # script.expect THEN "FAIL_EXECUTION"
                ELSE IF StreamFails THEN "FAIL_STREAM"
                ELSE IF script.native THEN "FAIL_NATIVE"
                ELSE IF CheckFails THEN "FAIL_VERIFICATION"
                ELSE IF PesterFails THEN CASE pester.end = "late" -> "FAIL_TIMEOUT"
                                           [] pester.end = "limit" -> "FAIL_RESOURCE"
                                           [] OTHER -> "FAIL_TEST"
                ELSE IF pester.short THEN "FAIL_COVERAGE"
                ELSE "PASS"

Judge ==
    /\ at = "verdict"
    /\ status' = Verdict
    /\ at' = "teardown"
    /\ UNCHANGED <<work, front, later, fault>>

\* Mutant: what the teardown hooks did is not looked at.
TeardownDoneRegardless ==
    /\ at = "teardown" /\ teardown.run = hooks.teardown
    /\ Report(status)
    /\ UNCHANGED <<front, later, fault>>

TeardownDone ==
    /\ at = "teardown" /\ teardown.run = hooks.teardown
    /\ Report(IF teardown.failed /\ status = "PASS" THEN "FAIL_TEARDOWN" ELSE status)
    /\ UNCHANGED <<front, later, fault>>

\* Popen fails or an answer cannot be read: the finally clause still runs.
RunRaises == at \in {"parse", "probe", "setup", "undo", "execute", "pester", "teardown"} /\ Raise("run")

Ended == at \in {"done", "raised"} /\ UNCHANGED targetVars

TargetNext == \/ ResolveInputs \/ ResolveDependencies \/ ResolveRuntime
        \/ MakeWorkspace \/ Staged \/ StagingRaises \/ BuildPlan
        \/ Parse \/ Probe \/ SetupHook \/ SetupDone \/ TeardownHook \/ UndoDone
        \/ ExecuteScript \/ RunPester \/ Judge \/ TeardownDone \/ RunRaises \/ Ended

TargetSpec == TargetInit /\ [][TargetNext]_targetVars
-----------------------------------------------------------------------------
TargetPassed == at = "done" /\ status = "PASS"

\* A report that says PASS was earned at every step: the parser accepted the
\* source, a lock that was given is satisfied, every setup and teardown hook
\* ran and succeeded, the script ended within its limits with the exit code
\* its contract states (0 if none), its checks hold, and no test that ran
\* failed, none that is required is missing and coverage met its threshold.
\* Error records pass only unseen: when the process ended from inside, before
\* the observation file was written.  (README.md:109-111 has it that a target
\* passes only when its error signals satisfy the policy.)
PassIsEarned ==
    TargetPassed =>
        /\ parse = "ok" /\ (locked => probe = "ok")
        /\ setup = [run |-> hooks.setup, failed |-> FALSE]
        /\ teardown = [run |-> hooks.teardown, failed |-> FALSE]
        /\ script.end \in {"ok", "bad"} /\ script.code = script.expect /\ script.checks
        /\ pester.end \in {"ok", "unrun"} /\ pester.tests \notin {"failed", "error"}
        /\ pester.mode = "required" => pester.tests = "passed"
        /\ ~pester.short
        /\ script.offends => ~script.envelope

\* A report of a run that began its setup, or ran its script, was made after
\* every teardown hook had run, whatever failed in between.
TeardownFollowsSetup ==
    at = "done" /\ (setup.run > 0 \/ script # NoScript) => teardown.run = hooks.teardown

\* A workspace is left behind when the caller asked for it, and otherwise
\* only by an exception while it was being filled: those lines are before
\* the try whose finally clause removes it.
OnlyStagingLeaves ==
    at \in {"done", "raised"} /\ work = "made" => keep \/ fault = "staging"

\* Both: what a run began it undoes.
RunCleansUp == TeardownFollowsSetup /\ OnlyStagingLeaves

\* What a report says was earned, and what the run began is undone.
TargetSound == PassIsEarned /\ RunCleansUp
=============================================================================
