-------------------------- MODULE TargetExecution --------------------------
(***************************************************************************)
(* What a runner or a worker does to run one script: ScriptRunner.run, and  *)
(* run_process, which supervises each command the run starts.              *)
(*                                                                         *)
(* The run takes the outcome of a command as its input and allows for every *)
(* one; nothing else goes from one to the other.  A property of either      *)
(* therefore holds of both if it holds while that one moves and the other   *)
(* stays as it started: `acting` is the one that moves.                    *)
(***************************************************************************)
EXTENDS ProcessSupervision, TargetRun

VARIABLE acting

ExecutionInit ==
    /\ acting \in {"process", "target"}
    /\ SupervisionInit /\ TargetInit
    \* the one that stays is in one of its initial states
    /\ acting = "target" => ~nt /\ ~capped /\ ~feeding
    /\ acting = "process" => ~keep /\ hooks = [setup |-> 0, teardown |-> 0]

ExecutionNext ==
    \/ acting = "process" /\ SupervisionNext /\ UNCHANGED <<acting, targetVars>>
    \/ acting = "target" /\ TargetNext /\ UNCHANGED <<acting, supVars>>

ExecutionSpec == ExecutionInit /\ [][ExecutionNext]_<<supVars, targetVars, acting>>

\* As SupervisionFairness: the supervisor's thread goes on, time passes and a
\* deadline is met, while nothing is promised of the processes it supervises.
ExecutionFairness ==
    /\ WF_supVars(acting = "process" /\ Supervise)
    /\ WF_supVars(acting = "process" /\ Clock)
    /\ WF_supVars(/\ acting = "process"
                  /\ DrainDeadline /\ UNCHANGED <<given, tree, threads, late, since>>)

FairExecutionSpec == ExecutionSpec /\ ExecutionFairness

\* run_process returns, whatever the processes do: ignore SIGTERM, hang in the
\* kernel, leave the group with the pipes in their hands, never read.
CommandReturns == acting = "process" => AlwaysReturns
=============================================================================
