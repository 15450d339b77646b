----------------------- MODULE TargetExecutionProofs -----------------------
(***************************************************************************)
(* What a result of run_process and a report of ScriptRunner.run mean, for *)
(* any processes, streams, limits and numbers of hooks.  One inductive     *)
(* invariant says what the supervisor has seen to at each of its steps,    *)
(* another what a run has done; the last part lifts both to the            *)
(* composition the run target_execution checks.                            *)
(***************************************************************************)
EXTENDS TargetExecution, FiniteSetTheorems, TLAPS

-----------------------------------------------------------------------------
(* The supervisor.                                                         *)

Killing == {"term", "kill", "jobwait", "reap"}

\* The steps of the report, each with those after it.
AfterStdin == {"close", "return", "returned"}
AfterThreads == {"last", "stdin"} \cup AfterStdin
AfterCheck == {"join"} \cup AfterThreads
AfterDrain == {"drained"} \cup AfterCheck
AfterWorkspace == {"notices", "drain"} \cup AfterDrain
AfterPost == {"workspace"} \cup AfterWorkspace
AfterLeader == {"post"} \cup AfterPost
AfterLoop == {"exited"} \cup AfterLeader

\* Where the supervisor is, or will be once it has ended the tree.
Place == IF pc \in Killing THEN back ELSE pc

Processes == [state : {"none", "alive", "dead"}, inside : BOOLEAN, killed : BOOLEAN,
              holds : SUBSET Streams]

SupervisionTypes ==
    /\ nt \in BOOLEAN /\ capped \in BOOLEAN /\ proc \in [Procs -> Processes]
    /\ written \in [Streams -> Nat] /\ total \in [Streams -> Nat] /\ draining \subseteq Streams
    /\ feeding \in BOOLEAN /\ full \in BOOLEAN /\ rejected \in BOOLEAN /\ late \in BOOLEAN
    /\ terminated \in BOOLEAN
    /\ pc \in {"loop", "sample"} \cup Killing \cup AfterLoop
    /\ back \in {"loop"} \cup AfterLoop

\* The tree is ended once, for a reason; a reason found is a reason to end it,
\* at once or, after a sample and after the threads were joined, at the next
\* step.  Closing the handles of a job is the last thing of all.
Reasoned ==
    /\ pc \in {"loop", "sample"} => ~terminated
    /\ pc = "loop" => violation = {}
    /\ pc \in Killing => terminated /\ back \in AfterLoop
    /\ terminated => violation # {}
    /\ violation \ {"close"} # {} => terminated \/ pc \in {"sample", "last"}
    /\ "close" \in violation => pc = "returned"

\* Who has ended the tree has met every member of the group or job, and whoever
\* was not a member then cannot become one.
Contained ==
    terminated /\ pc \notin {"term", "kill", "jobwait"} =>
        "job" \in violation \/ \A p \in Members : proc[p].killed

\* A leader that was waited for is gone or reported, and nobody is killed without
\* a reason.
LeaderSeen == Place \in AfterLeader /\ Alive(Leader) => "leader" \in violation
NoneKilled == violation = {} => \A p \in Procs : ~proc[p].killed

\* A drain thread ends when there is nothing left to read and nobody left to
\* write; what has not ended by then, or was too much, is reported.
DrainedDry == \A s \in Streams \ draining : total[s] = written[s] /\ Writers(s) = {}
OutputSeen ==
    violation = {} =>
        /\ pc \in AfterDrain => draining = {}
        /\ pc \in AfterCheck => ~Exceeded
        /\ pc \in AfterStdin => ~feeding

\* A limit that has been exceeded since the leader exited is exceeded now; the
\* samples after the exit see it, and a Job Object never lets it happen.
JobLimited == nt /\ capped => Cardinality(Members) <= MaxProcesses
ExcessSeen ==
    /\ since \subseteq Over
    /\ violation = {} /\ pc \in AfterPost => "processes" \notin since
    /\ violation = {} /\ pc \in AfterWorkspace => since = {}

SupervisionInv ==
    /\ SupervisionTypes /\ Reasoned /\ Contained /\ LeaderSeen /\ NoneKilled
    /\ DrainedDry /\ OutputSeen /\ JobLimited /\ ExcessSeen

-----------------------------------------------------------------------------
(* The run of a script.                                                    *)

BeforeSetup == {"inputs", "dependencies", "runtime", "workspace", "staging", "plan", "parse", "probe"}
AfterExecution == {"pester", "verdict", "teardown"}
AfterSetup == {"execute"} \cup AfterExecution

Counted(done, most) == done \in [run : 0..most, failed : BOOLEAN]

TargetTypes ==
    /\ at \in BeforeSetup \cup {"setup", "undo"} \cup AfterSetup \cup {"done", "raised"}
    /\ work \in {"none", "made", "removed"} /\ keep \in BOOLEAN /\ locked \in BOOLEAN
    /\ hooks \in [setup : 0..MaxHooks, teardown : 0..MaxHooks]
    /\ Counted(setup, hooks.setup) /\ Counted(teardown, hooks.teardown)

\* What stands between the start and the script was passed, one by one.
PathFits ==
    /\ at \in BeforeSetup => setup = NoHooks
    /\ at \in BeforeSetup \cup {"setup", "execute"} => script = NoScript
    /\ at \notin {"undo", "teardown", "done", "raised"} => teardown = NoHooks
    /\ at \in {"probe", "setup"} \cup AfterSetup => parse = "ok"
    /\ at \in {"setup"} \cup AfterSetup => (locked => probe = "ok")
    /\ at \in AfterSetup => setup = [run |-> hooks.setup, failed |-> FALSE]

\* What a run of the script, and one of Pester, can have left.
ScriptFits ==
    /\ script.end \in Ends /\ (script.code = 1 <=> script.end = "bad") /\ script.code \in 0..1
    /\ script.expect \in 0..1 /\ (script.expect = 1 => script.stated)
PesterFits ==
    /\ pester.mode \in Modes
    /\ pester.tests \in {"skipped", "unavailable", "no-tests", "error", "failed", "passed"}
    /\ pester.mode = "off" => pester.tests = "skipped"
    /\ pester.end \in {"ok", "unrun"} \/ pester.tests = "error"
    /\ pester.tests = "skipped" => pester.mode = "off"

\* The verdict is of what ran; nothing changes it but a failed teardown.
Judged ==
    /\ at \in AfterExecution => ScriptFits
    /\ at \in {"verdict", "teardown"} => PesterFits
    /\ at = "teardown" => status = Verdict

TargetInv == TargetTypes /\ PathFits /\ Judged /\ TargetSound

-----------------------------------------------------------------------------
(* The supervisor's invariant is one.                                      *)

LEMMA LeaderFacts == Leader \in Procs /\ Children \subseteq Procs /\ Leader \notin Children
                     /\ IsFiniteSet(Procs)
  <1>1. IsFiniteSet(Children \cup {Leader})
    BY SupervisionAssumption, FS_AddElement
  <1> QED
    BY <1>1, SupervisionAssumption DEF Procs

LEMMA MembersFinite == IsFiniteSet(Members) /\ Cardinality(Members) \in Nat
  BY LeaderFacts, FS_Subset, FS_CardinalityType DEF Members

LEMMA SupervisionInvInit == SupervisionInit => SupervisionInv
  <1> SUFFICES ASSUME SupervisionInit PROVE SupervisionInv
    OBVIOUS
  <1>1. SupervisionTypes
    BY DEF SupervisionInit, SupervisionTypes, Processes, Started
  <1>2. Reasoned /\ Contained /\ LeaderSeen /\ OutputSeen /\ DrainedDry
    BY DEF SupervisionInit, Reasoned, Contained, LeaderSeen, OutputSeen, DrainedDry, Place, Killing,
           AfterLeader, AfterPost, AfterWorkspace, AfterDrain, AfterCheck, AfterThreads, AfterStdin
  <1>3. NoneKilled
    BY DEF SupervisionInit, NoneKilled, Started
  <1>4. JobLimited
    <2>1. Members \subseteq {Leader}
      BY DEF SupervisionInit, Members, Alive, Started
    <2>2. IsFiniteSet({Leader}) /\ Cardinality({Leader}) = 1
      BY FS_Singleton
    <2>3. Cardinality(Members) <= 1
      BY <2>1, <2>2, FS_Subset
    <2> QED
      BY <2>3, MembersFinite, SupervisionAssumption DEF JobLimited
  <1>5. ExcessSeen
    BY DEF SupervisionInit, ExcessSeen
  <1> QED
    BY <1>1, <1>2, <1>3, <1>4, <1>5 DEF SupervisionInv

\* The processes of the tree: a process that was met by the end of the tree
\* does nothing more, and only one that runs can start another.
ChildOf(within, pipes) == [Started EXCEPT !.inside = within, !.holds = pipes]

LEMMA ChildFacts ==
    ASSUME NEW within \in BOOLEAN, NEW pipes \in SUBSET Streams
    PROVE  /\ ChildOf(within, pipes) \in Processes
           /\ ChildOf(within, pipes).state = "alive" /\ ~ChildOf(within, pipes).killed
           /\ ChildOf(within, pipes).inside = within /\ ChildOf(within, pipes).holds = pipes
  BY DEF ChildOf, Started, Processes

LEMMA ForkOf ==
    ASSUME SupervisionTypes, NEW p \in Procs, NEW q \in Children, Fork(p, q), UNCHANGED given
    PROVE  /\ proc' \in [Procs -> Processes]
           /\ \A r \in Procs : proc'[r] = proc[r]
                               \/ /\ r = q /\ proc[r].state = "none" /\ ~proc'[r].killed
                                  /\ proc'[r].state = "alive"
                                  /\ proc'[r].inside = proc[p].inside
                                  /\ proc'[r].holds \subseteq proc[p].holds
           /\ nt /\ capped => proc' = proc \/ Cardinality(Members) < MaxProcesses
  <1>1. CASE proc' = proc
    BY <1>1 DEF SupervisionTypes
  <1>2. CASE proc' # proc
    <2>1. ~(nt /\ capped /\ Cardinality(Members) >= MaxProcesses)
      BY <1>2 DEF Fork
    <2>2. PICK pipes \in {{}, proc[p].holds} :
             proc' = [proc EXCEPT ![q] = ChildOf(proc[p].inside, pipes)]
      BY <2>1 DEF Fork, ChildOf
    <2>3. proc[p] \in Processes
      BY DEF SupervisionTypes
    <2> DEFINE new == ChildOf(proc[p].inside, pipes)
    <2>4. /\ new \in Processes /\ new.state = "alive" /\ ~new.killed
          /\ new.inside = proc[p].inside /\ new.holds = pipes
      <3>1. proc[p].inside \in BOOLEAN /\ pipes \in SUBSET Streams
        BY <2>2, <2>3 DEF Processes
      <3> QED
        BY <3>1, ChildFacts
    <2>5. proc' = [proc EXCEPT ![q] = new]
      BY <2>2
    <2> HIDE DEF new
    <2>6. new.holds \subseteq proc[p].holds
      BY <2>2, <2>4
    <2>7. proc' \in [Procs -> Processes]
      BY <2>4, <2>5, LeaderFacts DEF SupervisionTypes
    <2>8. q \in Procs /\ proc[q].state = "none"
      BY LeaderFacts DEF Fork
    <2>9. Cardinality(Members) < MaxProcesses \/ ~(nt /\ capped)
      BY <2>1, MembersFinite, SupervisionAssumption
    <2> QED
      BY <2>4, <2>6, <2>7, <2>8, <2>9, <2>5 DEF SupervisionTypes
  <1> QED
    BY <1>1, <1>2

\* What a step of the tree does to a process: nothing, it starts, it leaves the
\* group, or it exits.
TreeMoves(r) ==
    \/ proc'[r] = proc[r]
    \/ /\ proc[r].state = "none" /\ proc'[r].state = "alive" /\ ~proc'[r].killed /\ r # Leader
       /\ \E p \in Procs : Runs(p) /\ proc'[r].inside = proc[p].inside
                           /\ proc'[r].holds \subseteq proc[p].holds
    \/ /\ proc'[r].state = proc[r].state /\ proc'[r].killed = proc[r].killed
       /\ proc'[r].holds = proc[r].holds /\ ~proc'[r].inside
    \/ /\ proc[r].state = "alive" /\ proc'[r].state = "dead" /\ proc'[r].killed = proc[r].killed
       /\ proc'[r].holds = {}

LEMMA TreeSteps ==
    ASSUME SupervisionTypes, TreeStep
    PROVE  /\ proc' \in [Procs -> Processes]
           /\ \A r \in Procs : TreeMoves(r)
           /\ written' \in [Streams -> Nat]
           /\ \A s \in Streams : written'[s] # written[s] => \E p \in Procs : Runs(p) /\ s \in proc[p].holds
           /\ full' \in BOOLEAN /\ rejected' \in BOOLEAN
           /\ UNCHANGED <<given, threads, late, control>>
  <1> UNCHANGED <<given, threads, late, control>>
    BY DEF TreeStep
  <1>1. ASSUME NEW p \in Procs, NEW q \in Children, Fork(p, q)
        PROVE  /\ proc' \in [Procs -> Processes] /\ \A r \in Procs : TreeMoves(r)
               /\ written' = written /\ full' = full /\ rejected' \in BOOLEAN
    <2>1. Runs(p) /\ written' = written /\ full' = full /\ rejected' \in BOOLEAN
      BY <1>1 DEF Fork, SupervisionTypes
    <2> QED
      BY <1>1, <2>1, ForkOf, LeaderFacts DEF TreeMoves
  <1>2. ASSUME NEW p \in Procs, Escape(p)
        PROVE  /\ proc' \in [Procs -> Processes] /\ \A r \in Procs : TreeMoves(r)
               /\ written' = written /\ full' = full /\ rejected' = rejected
    BY <1>2 DEF Escape, TreeMoves, SupervisionTypes, Processes
  <1>3. ASSUME NEW p \in Procs, Exit(p)
        PROVE  /\ proc' \in [Procs -> Processes] /\ \A r \in Procs : TreeMoves(r)
               /\ written' = written /\ full' = full /\ rejected' = rejected
    BY <1>3 DEF Exit, Alive, TreeMoves, SupervisionTypes, Processes
  <1>4. ASSUME NEW p \in Procs, ChangeWorkspace(p)
        PROVE  /\ proc' = proc /\ written' = written /\ full' \in BOOLEAN /\ rejected' = rejected
    BY <1>4 DEF ChangeWorkspace, SupervisionTypes
  <1>5. ASSUME NEW p \in Procs, NEW s \in Streams, WriteOutput(p, s)
        PROVE  /\ proc' = proc /\ full' = full /\ rejected' = rejected
               /\ written' \in [Streams -> Nat]
               /\ \A x \in Streams : written'[x] # written[x] =>
                     \E w \in Procs : Runs(w) /\ x \in proc[w].holds
    BY <1>5 DEF WriteOutput, SupervisionTypes
  <1> QED
    BY <1>1, <1>2, <1>3, <1>4, <1>5 DEF TreeStep, TreeMoves, SupervisionTypes

LEMMA TreeKeeps ==
    ASSUME SupervisionInv, TreeStep
    PROVE  SupervisionInv'
  <1>0. /\ SupervisionTypes /\ Reasoned /\ Contained /\ LeaderSeen /\ NoneKilled
        /\ DrainedDry /\ OutputSeen /\ JobLimited /\ ExcessSeen
    BY DEF SupervisionInv
  <1>1. /\ UNCHANGED <<nt, capped, total, draining, feeding, late, pc, back, violation, terminated>>
        /\ \A r \in Procs : TreeMoves(r)
    BY <1>0, TreeSteps DEF given, threads, control
  <1>2. SupervisionTypes'
    BY <1>0, <1>1, TreeSteps DEF SupervisionTypes
  <1>3. Reasoned'
    BY <1>0, <1>1 DEF Reasoned
  <1>4. Contained'
    <2> SUFFICES ASSUME terminated, pc \notin {"term", "kill", "jobwait"}, "job" \notin violation,
                        NEW r \in Procs, proc'[r].state = "alive", proc'[r].inside
                 PROVE  proc'[r].killed
      BY <1>1 DEF Contained, Members, Alive
    <2>1. \A p \in Members : proc[p].killed
      BY <1>0 DEF Contained
    <2> QED
      BY <1>1, <2>1 DEF TreeMoves, Members, Alive, Runs
  <1>5. LeaderSeen'
    BY <1>0, <1>1, LeaderFacts DEF LeaderSeen, Place, Alive, TreeMoves
  <1>6. NoneKilled'
    BY <1>0, <1>1 DEF NoneKilled, TreeMoves
  <1>7. DrainedDry'
    <2> SUFFICES ASSUME NEW s \in Streams \ draining
                 PROVE  total'[s] = written'[s] /\ Writers(s)' = {}
      BY <1>1 DEF DrainedDry
    <2>1. total[s] = written[s] /\ Writers(s) = {}
      BY <1>0 DEF DrainedDry
    <2>2. written'[s] = written[s]
      BY <1>0, <2>1, TreeSteps DEF Writers, Runs
    <2>3. Writers(s)' = {}
      BY <1>1, <2>1 DEF Writers, Alive, Runs, TreeMoves
    <2> QED
      BY <1>1, <2>1, <2>2, <2>3
  <1>8. OutputSeen'
    BY <1>0, <1>1 DEF OutputSeen, Exceeded
  <1>9. JobLimited'
    <2> SUFFICES ASSUME nt, capped PROVE Cardinality(Members') <= MaxProcesses
      BY <1>1 DEF JobLimited
    <2>1. CASE \E p \in Procs, q \in Children : Fork(p, q)
      <3>1. PICK p \in Procs, q \in Children : Fork(p, q)
        BY <2>1
      <3>2. /\ \A r \in Procs : proc'[r] = proc[r] \/ r = q
            /\ proc' = proc \/ Cardinality(Members) < MaxProcesses
        BY <1>0, <1>1, <3>1, ForkOf DEF given
      <3>3. CASE proc' = proc
        BY <1>0, <3>3 DEF JobLimited, Members, Alive
      <3>4. CASE Cardinality(Members) < MaxProcesses
        <4>1. Members' \subseteq Members \cup {q}
          BY <3>2 DEF Members, Alive
        <4>2. /\ IsFiniteSet(Members \cup {q})
              /\ Cardinality(Members \cup {q}) \in {Cardinality(Members), Cardinality(Members) + 1}
          BY MembersFinite, FS_AddElement
        <4>3. Cardinality(Members') <= Cardinality(Members \cup {q}) /\ Cardinality(Members') \in Nat
          BY <4>1, <4>2, FS_Subset, FS_CardinalityType
        <4> QED
          BY <3>4, <4>2, <4>3, MembersFinite, SupervisionAssumption
      <3> QED
        BY <3>2, <3>3, <3>4
    <2>2. CASE ~ \E p \in Procs, q \in Children : Fork(p, q)
      <3>1. \A r \in Procs : proc'[r].state = "alive" => proc[r].state = "alive"
        BY <1>0, <2>2 DEF TreeStep, Escape, ChangeWorkspace, Exit, WriteOutput, SupervisionTypes, Processes
      <3>2. \A r \in Procs : proc'[r].inside => proc[r].inside
        BY <1>0, <2>2 DEF TreeStep, Escape, ChangeWorkspace, Exit, WriteOutput, SupervisionTypes, Processes
      <3>3. Members' \subseteq Members
        BY <3>1, <3>2 DEF Members, Alive
      <3>4. Cardinality(Members') <= Cardinality(Members) /\ Cardinality(Members') \in Nat
        BY <3>3, MembersFinite, FS_Subset, FS_CardinalityType
      <3> QED
        BY <1>0, <3>4, MembersFinite, SupervisionAssumption DEF JobLimited
    <2> QED
      BY <2>1, <2>2
  <1>10. ExcessSeen'
    <2>1. since' \subseteq Over'
      BY DEF TreeStep, History
    <2>2. CASE proc'[Leader].state = "alive"
      BY <2>1, <2>2 DEF TreeStep, History, ExcessSeen
    <2>3. CASE proc'[Leader].state # "alive" /\ proc[Leader].state = "alive"
      <3>1. ~(violation = {} /\ pc \in AfterPost)
        BY <1>0, <2>3 DEF LeaderSeen, Alive, Place, AfterLeader, Reasoned
      <3>2. AfterWorkspace \subseteq AfterPost
        BY DEF AfterPost
      <3> QED
        BY <1>1, <2>1, <3>1, <3>2 DEF ExcessSeen
    <2>4. CASE proc'[Leader].state # "alive" /\ proc[Leader].state # "alive"
      <3>1. since' \subseteq since
        BY <2>4 DEF TreeStep, History, Alive
      <3> QED
        BY <1>0, <1>1, <2>1, <3>1 DEF ExcessSeen
    <2> QED
      BY <2>2, <2>3, <2>4
  <1> QED
    BY <1>2, <1>3, <1>4, <1>5, <1>6, <1>7, <1>8, <1>9, <1>10 DEF SupervisionInv

\* The drain threads stop at the end of what was written.
LEMMA ThreadsKeep ==
    ASSUME SupervisionInv, ThreadStep
    PROVE  SupervisionInv'
  <1>0. /\ SupervisionTypes /\ Reasoned /\ Contained /\ LeaderSeen /\ NoneKilled
        /\ DrainedDry /\ OutputSeen /\ JobLimited /\ ExcessSeen
    BY DEF SupervisionInv
  <1>1. UNCHANGED <<nt, capped, proc, written, full, rejected, late, pc, back, violation, terminated, since>>
    BY DEF ThreadStep, given, tree, control
  <1>2. /\ total' \in [Streams -> Nat] /\ draining' \subseteq draining /\ feeding' \in BOOLEAN
        /\ feeding' => feeding
        /\ \A s \in Streams \ draining : total'[s] = total[s]
        /\ \A s \in draining \ draining' : total'[s] = written[s] /\ Writers(s) = {}
    <2>1. CASE FeedEnd
      BY <1>0, <2>1 DEF FeedEnd, SupervisionTypes
    <2>2. ASSUME NEW s \in Streams, DrainChunk(s)
          PROVE  /\ UNCHANGED <<draining, feeding>> /\ s \in draining
                 /\ total' \in [Streams -> Nat] /\ \A x \in Streams : x # s => total'[x] = total[x]
      BY <1>0, <2>2, SupervisionAssumption DEF DrainChunk, SupervisionTypes
    <2>3. ASSUME NEW s \in Streams, DrainEnd(s)
          PROVE  /\ UNCHANGED feeding /\ draining' = draining \ {s} /\ s \in draining
                 /\ total'[s] = written[s] /\ Writers(s) = {}
                 /\ total' \in [Streams -> Nat] /\ \A x \in Streams : x # s => total'[x] = total[x]
      BY <1>0, <2>3 DEF DrainEnd, SupervisionTypes
    <2> QED
      BY <1>0, <2>1, <2>2, <2>3 DEF ThreadStep, SupervisionTypes
  <1>3. SupervisionTypes'
    BY <1>0, <1>1, <1>2 DEF SupervisionTypes
  <1>4. Reasoned' /\ Contained' /\ LeaderSeen' /\ NoneKilled' /\ JobLimited'
    BY <1>0, <1>1 DEF Reasoned, Contained, LeaderSeen, NoneKilled, JobLimited, Place, Alive, Members
  <1>5. DrainedDry'
    BY <1>0, <1>1, <1>2 DEF DrainedDry, Writers, Alive
  <1>6. OutputSeen'
    <2> SUFFICES ASSUME violation = {} PROVE OutputSeen'
      BY <1>1 DEF OutputSeen
    <2>1. pc \in AfterCheck => ~Exceeded'
      <3> SUFFICES ASSUME pc \in AfterCheck PROVE ~Exceeded'
        OBVIOUS
      <3>1. draining = {} /\ ~Exceeded
        BY <1>0 DEF OutputSeen, AfterDrain
      <3> QED
        BY <1>2, <3>1 DEF Exceeded
    <2> QED
      BY <1>0, <1>1, <1>2, <2>1 DEF OutputSeen
  <1>7. ExcessSeen'
    BY <1>0, <1>1 DEF ExcessSeen, Over, Members, Alive
  <1> QED
    BY <1>3, <1>4, <1>5, <1>6, <1>7 DEF SupervisionInv

-----------------------------------------------------------------------------
(* The steps of the supervisor.                                            *)

Stages == {"loop", "sample"} \cup Killing \cup AfterLoop

\* What every step of the supervisor leaves as it was, of a process all but that
\* it may be killed, for a reason.
LEMMA SupervisorLeaves ==
    ASSUME SupervisionInv, Supervise
    PROVE  /\ UNCHANGED <<nt, capped, written, total, draining, feeding, full, rejected, late, since>>
           /\ proc' \in [Procs -> Processes]
           /\ \A r \in Procs : /\ proc'[r].state = proc[r].state /\ proc'[r].inside = proc[r].inside
                               /\ proc'[r].holds = proc[r].holds /\ (proc[r].killed => proc'[r].killed)
           /\ proc' = proc \/ violation # {}
  <1>1. UNCHANGED <<nt, capped, written, total, draining, feeding, full, rejected, late, since>>
    BY DEF Supervise, given, threads
  <1>2. SupervisionTypes /\ Reasoned
    BY DEF SupervisionInv
  <1>3. ASSUME NEW hit \in SUBSET Procs,
               proc' = [p \in Procs |-> IF p \in hit THEN [proc[p] EXCEPT !.killed = TRUE] ELSE proc[p]]
        PROVE  /\ proc' \in [Procs -> Processes]
               /\ \A r \in Procs : /\ proc'[r].state = proc[r].state /\ proc'[r].inside = proc[r].inside
                                   /\ proc'[r].holds = proc[r].holds /\ (proc[r].killed => proc'[r].killed)
    BY <1>2, <1>3 DEF SupervisionTypes, Processes
  <1>4. CASE proc' = proc
    BY <1>1, <1>2, <1>4 DEF SupervisionTypes
  <1>5. CASE Kill /\ proc' # proc
    <2>1. pc \in Killing
      BY <1>5 DEF Kill, KillTerm, KillGroup, KillReap, KillJob, KillJobEmpty, KillFallback, Killing
    <2>2. violation # {}
      BY <1>2, <2>1 DEF Reasoned
    <2>3. \E hit \in SUBSET Procs :
             proc' = [p \in Procs |-> IF p \in hit THEN [proc[p] EXCEPT !.killed = TRUE] ELSE proc[p]]
      <3>1. Members \in SUBSET Procs
        BY DEF Members
      <3>2. CASE SigKill
        BY <3>1, <3>2 DEF SigKill
      <3>3. CASE KillFallback
        BY <3>1, <3>3 DEF KillFallback
      <3> QED
        BY <1>5, <3>2, <3>3 DEF Kill, KillTerm, KillGroup, KillReap, KillJob, KillJobEmpty
    <2> QED
      BY <1>1, <1>3, <2>2, <2>3
  <1> QED
    BY <1>4, <1>5 DEF Supervise

\* So the members, the writers and what is exceeded are the same.
LEMMA SupervisorSees ==
    ASSUME SupervisionInv, Supervise
    PROVE  /\ Members' = Members /\ (\A s \in Streams : Writers(s)' = Writers(s))
           /\ Over' = Over /\ Exceeded' = Exceeded /\ Alive(Leader)' = Alive(Leader)
  <1>1. Members' = Members
    BY SupervisorLeaves DEF Members, Alive
  <1>2. \A s \in Streams : Writers(s)' = Writers(s)
    BY SupervisorLeaves DEF Writers, Alive
  <1>3. Over' = Over
    BY <1>1, SupervisorLeaves DEF Over
  <1> QED
    BY <1>1, <1>2, <1>3, SupervisorLeaves, LeaderFacts DEF Exceeded, Alive

\* The parts of the invariant that are about where the supervisor is.
Accounted ==
    /\ terminated \in BOOLEAN /\ pc \in Stages /\ back \in {"loop"} \cup AfterLoop
    /\ Reasoned /\ Contained /\ LeaderSeen /\ OutputSeen
    /\ violation = {} /\ pc \in AfterPost => "processes" \notin since
    /\ violation = {} /\ pc \in AfterWorkspace => since = {}

LEMMA Accounts == SupervisionInv => Accounted
  BY DEF SupervisionInv, SupervisionTypes, ExcessSeen, Accounted, Stages

LEMMA AccountedIsEnough ==
    ASSUME SupervisionInv, Supervise, Accounted'
    PROVE  SupervisionInv'
  <1>1. SupervisionTypes'
    BY SupervisorLeaves DEF SupervisionInv, SupervisionTypes, Accounted, Stages
  <1>2. Reasoned' /\ Contained' /\ LeaderSeen' /\ OutputSeen'
    BY DEF Accounted
  <1>3. violation' = {} => violation = {}
    BY DEF Supervise, Loop, LoopEnds, LoopTimeout, LoopOutput, LoopWorkspace, LoopSample, FinishReport,
           AwaitLeader, PostSample, PostWorkspace, PostNotices, DrainDone, DrainNotices, DrainOutput,
           DrainDeadline, Drained, JoinThreads, LastSample, JoinStdin, LastNotices, ReturnResult,
           Observe, Kill, KillTerm, KillGroup, KillReap, KillJob, KillJobEmpty, KillFallback,
           SupervisionInv, Reasoned
  <1>4. NoneKilled'
    BY <1>3, SupervisorLeaves DEF SupervisionInv, NoneKilled
  <1>5. DrainedDry' /\ JobLimited'
    BY SupervisorLeaves, SupervisorSees DEF SupervisionInv, DrainedDry, JobLimited
  <1>6. ExcessSeen'
    BY SupervisorLeaves, SupervisorSees DEF SupervisionInv, ExcessSeen, Accounted
  <1> QED
    BY <1>1, <1>2, <1>4, <1>5, <1>6 DEF SupervisionInv

LEMMA LoopEndsAccounts ==
    ASSUME SupervisionInv, Supervise, pc = "loop", LoopEnds, UNCHANGED proc
    PROVE  Accounted'
  BY Accounts, SupervisorLeaves, SupervisorSees
  DEF LoopEnds, Proceed, Terminate, Members,
         Accounted, Reasoned, Contained, LeaderSeen, OutputSeen, Place, Stages, Killing,
         AfterLoop, AfterLeader, AfterPost, AfterWorkspace, AfterDrain, AfterCheck, AfterThreads, AfterStdin

LEMMA LoopTimeoutAccounts ==
    ASSUME SupervisionInv, Supervise, pc = "loop", LoopTimeout, UNCHANGED proc
    PROVE  Accounted'
  BY Accounts, SupervisorLeaves, SupervisorSees
  DEF LoopTimeout, Proceed, Terminate, Members,
         Accounted, Reasoned, Contained, LeaderSeen, OutputSeen, Place, Stages, Killing,
         AfterLoop, AfterLeader, AfterPost, AfterWorkspace, AfterDrain, AfterCheck, AfterThreads, AfterStdin

LEMMA LoopOutputAccounts ==
    ASSUME SupervisionInv, Supervise, pc = "loop", LoopOutput, UNCHANGED proc
    PROVE  Accounted'
  BY Accounts, SupervisorLeaves, SupervisorSees
  DEF LoopOutput, Proceed, Terminate, Members,
         Accounted, Reasoned, Contained, LeaderSeen, OutputSeen, Place, Stages, Killing,
         AfterLoop, AfterLeader, AfterPost, AfterWorkspace, AfterDrain, AfterCheck, AfterThreads, AfterStdin

LEMMA LoopWorkspaceAccounts ==
    ASSUME SupervisionInv, Supervise, pc = "loop", LoopWorkspace, UNCHANGED proc
    PROVE  Accounted'
  BY Accounts, SupervisorLeaves, SupervisorSees
  DEF LoopWorkspace, Proceed, Terminate, Members,
         Accounted, Reasoned, Contained, LeaderSeen, OutputSeen, Place, Stages, Killing,
         AfterLoop, AfterLeader, AfterPost, AfterWorkspace, AfterDrain, AfterCheck, AfterThreads, AfterStdin

\* A step of the report that goes on to next, by way of the end of the tree if
\* there is a reason for it.
GoesOn(next) ==
    /\ pc \notin Killing /\ violation \subseteq violation' /\ "close" \notin violation'
    /\ \/ violation' # {} /\ Terminate(next)
       \/ (violation' = {} \/ terminated) /\ Proceed(next)

LEMMA GoingOnAccounts ==
    ASSUME SupervisionInv, Supervise, UNCHANGED proc, NEW next \in {"loop"} \cup AfterLoop, GoesOn(next),
           next = "loop" => violation' = {} /\ ~terminated,
           next \in AfterLeader /\ Alive(Leader) => "leader" \in violation',
           violation' = {} => /\ next \in AfterDrain => draining = {}
                              /\ next \in AfterCheck => ~Exceeded
                              /\ next \in AfterStdin => ~feeding
                              /\ next \in AfterPost => "processes" \notin since
                              /\ next \in AfterWorkspace => since = {}
    PROVE  Accounted'
  <1> USE Accounts, SupervisorLeaves, SupervisorSees
  <1>1. CASE Proceed(next) /\ (violation' = {} \/ terminated)
    <2>1. pc' = next /\ back' = back /\ terminated' = terminated /\ next \notin Killing
      BY <1>1 DEF Proceed, Killing, AfterLoop, AfterLeader, AfterPost, AfterWorkspace, AfterDrain, AfterCheck, AfterThreads, AfterStdin
    <2>2. Reasoned'
      BY <1>1, <2>1 DEF GoesOn, Accounted, Reasoned, Killing, AfterLoop, AfterLeader, AfterPost, AfterWorkspace, AfterDrain, AfterCheck, AfterThreads, AfterStdin
    <2>3. Contained'
      BY <1>1, <2>1 DEF GoesOn, Accounted, Contained, Reasoned, Killing, Members
    <2>4. LeaderSeen'
      BY <2>1 DEF LeaderSeen, Place
    <2>5. OutputSeen'
      BY <2>1 DEF OutputSeen
    <2> QED
      BY <2>1, <2>2, <2>3, <2>4, <2>5 DEF Accounted, Stages
  <1>2. CASE Terminate(next) /\ ~terminated /\ violation' # {}
    <2>1. pc' = "term" /\ back' = next /\ terminated' = TRUE /\ next # "loop"
      BY <1>2 DEF Terminate
    <2>2. Reasoned'
      BY <1>2, <2>1 DEF GoesOn, Reasoned, Killing, AfterLoop, AfterLeader, AfterPost, AfterWorkspace, AfterDrain, AfterCheck, AfterThreads, AfterStdin
    <2>3. Contained'
      BY <2>1 DEF Contained
    <2>4. LeaderSeen'
      BY <2>1 DEF LeaderSeen, Place, Killing
    <2>5. OutputSeen'
      BY <1>2 DEF OutputSeen
    <2> QED
      BY <1>2, <2>1, <2>2, <2>3, <2>4, <2>5 DEF Accounted, Stages, Killing
  <1> QED
    BY <1>1, <1>2 DEF GoesOn, Terminate

\* What samples and notices add is not about closing handles.
LEMMA SampleFacts ==
    /\ \A seen \in Samples : "close" \notin seen
    /\ \A told \in Notices : "close" \notin told
    /\ {} \in Samples => (~nt /\ capped => Cardinality(Members) <= MaxProcesses)
  <1>1. \A seen \in Samples : "close" \notin seen
    BY DEF Samples
  <1>2. \A told \in Notices : "close" \notin told
    BY DEF Notices
  <1>3. ASSUME {} \in Samples, ~nt, capped PROVE Cardinality(Members) <= MaxProcesses
    <2>1. PICK seen \in {m \in SUBSET {p \in Procs : proc[p].state # "none" /\ proc[p].inside} : Members \subseteq m} :
             ~(Cardinality(seen) > MaxProcesses)
      BY <1>3 DEF Samples
    <2>2. IsFiniteSet(seen)
      BY LeaderFacts, FS_Subset
    <2>3. Cardinality(Members) <= Cardinality(seen) /\ Cardinality(seen) \in Nat
      BY <2>1, <2>2, FS_Subset, FS_CardinalityType
    <2> QED
      BY <2>1, <2>3, MembersFinite, SupervisionAssumption
  <1> QED
    BY <1>1, <1>2, <1>3

LEMMA LoopSampleAccounts ==
    ASSUME SupervisionInv, Supervise, LoopSample, UNCHANGED proc
    PROVE  Accounted'
  <1>1. violation \subseteq violation' /\ "close" \notin violation' /\ pc = "sample" /\ ~terminated
    BY Accounts, SampleFacts DEF LoopSample, Accounted, Reasoned
  <1>2. CASE violation' # {}
    BY <1>1, <1>2, GoingOnAccounts DEF LoopSample, GoesOn, Killing, AfterLoop, AfterLeader, AfterPost, AfterWorkspace, AfterDrain, AfterCheck, AfterThreads, AfterStdin
  <1>3. CASE violation' = {}
    BY <1>1, <1>3, GoingOnAccounts DEF LoopSample, GoesOn, Killing, AfterLoop, AfterLeader, AfterPost, AfterWorkspace, AfterDrain, AfterCheck, AfterThreads, AfterStdin
  <1> QED
    BY <1>2, <1>3

LEMMA AwaitLeaderAccounts ==
    ASSUME SupervisionInv, Supervise, AwaitLeader, UNCHANGED proc
    PROVE  Accounted'
  <1>1. pc = "exited" /\ violation \subseteq violation' /\ "close" \notin violation'
    BY Accounts DEF AwaitLeader, Accounted, Reasoned
  <1>2. GoesOn("post")
    BY <1>1, Accounts DEF AwaitLeader, GoesOn, Accounted, Reasoned, Killing, Terminate, Proceed
  <1>3. Alive(Leader) => "leader" \in violation'
    BY DEF AwaitLeader
  <1> QED
    BY <1>2, <1>3, GoingOnAccounts DEF AfterLoop, AfterLeader, AfterPost, AfterWorkspace, AfterDrain, AfterCheck, AfterThreads, AfterStdin

\* The sample after the leader's exit: a count that is not too high shows that
\* the limit has not been exceeded all along.
LEMMA PostSampleAccounts ==
    ASSUME SupervisionInv, Supervise, PostSample, UNCHANGED proc
    PROVE  Accounted'
  <1>1. pc = "post" /\ violation \subseteq violation' /\ "close" \notin violation'
    BY Accounts, SampleFacts DEF PostSample, Observe, Accounted, Reasoned
  <1>2. GoesOn("workspace")
    BY <1>1, Accounts DEF PostSample, Settle, GoesOn, Accounted, Reasoned, Killing, Terminate, Proceed
  <1>3. Alive(Leader) => "leader" \in violation'
    BY <1>1, Accounts DEF Accounted, LeaderSeen, Place, Killing, AfterLoop, AfterLeader, AfterPost, AfterWorkspace, AfterDrain, AfterCheck, AfterThreads, AfterStdin
  <1>4. violation' = {} => "processes" \notin since
    <2> SUFFICES ASSUME violation' = {} PROVE "processes" \notin Over
      BY DEF SupervisionInv, ExcessSeen
    <2>1. {} \in Samples
      BY <1>1 DEF PostSample, Observe
    <2>2. capped => Cardinality(Members) <= MaxProcesses
      BY <2>1, SampleFacts DEF SupervisionInv, JobLimited, SupervisionTypes
    <2> QED
      BY <2>2, MembersFinite, SupervisionAssumption DEF Over
  <1> QED
    BY <1>2, <1>3, <1>4, GoingOnAccounts DEF AfterLoop, AfterLeader, AfterPost, AfterWorkspace, AfterDrain, AfterCheck, AfterThreads, AfterStdin

LEMMA PostWorkspaceAccounts ==
    ASSUME SupervisionInv, Supervise, PostWorkspace, UNCHANGED proc
    PROVE  Accounted'
  <1>1. pc = "workspace" /\ violation \subseteq violation' /\ "close" \notin violation'
    BY Accounts DEF PostWorkspace, Accounted, Reasoned
  <1>2. GoesOn("notices")
    BY <1>1, Accounts DEF PostWorkspace, GoesOn, Accounted, Reasoned, Killing, Terminate, Proceed
  <1>3. Alive(Leader) => "leader" \in violation'
    BY <1>1, Accounts DEF Accounted, LeaderSeen, Place, Killing, AfterLoop, AfterLeader, AfterPost, AfterWorkspace, AfterDrain, AfterCheck, AfterThreads, AfterStdin
  <1>4. violation' = {} => since = {}
    <2> SUFFICES ASSUME violation' = {} PROVE since = {}
      OBVIOUS
    <2>1. violation = {} /\ ~full
      BY <1>1 DEF PostWorkspace
    <2>2. "processes" \notin since /\ since \subseteq Over
      BY <1>1, <2>1 DEF SupervisionInv, ExcessSeen, AfterLoop, AfterLeader, AfterPost, AfterWorkspace, AfterDrain, AfterCheck, AfterThreads, AfterStdin
    <2> QED
      BY <2>1, <2>2 DEF Over
  <1> QED
    BY <1>2, <1>3, <1>4, GoingOnAccounts DEF AfterLoop, AfterLeader, AfterPost, AfterWorkspace, AfterDrain, AfterCheck, AfterThreads, AfterStdin

LEMMA PostNoticesAccounts ==
    ASSUME SupervisionInv, Supervise, PostNotices, UNCHANGED proc
    PROVE  Accounted'
  <1>1. pc = "notices" /\ violation \subseteq violation' /\ "close" \notin violation'
    BY Accounts, SampleFacts DEF PostNotices, Accounted, Reasoned
  <1>2. GoesOn("drain")
    BY <1>1, Accounts DEF PostNotices, GoesOn, Accounted, Reasoned, Killing, Terminate, Proceed
  <1>3. Alive(Leader) => "leader" \in violation'
    BY <1>1, Accounts DEF Accounted, LeaderSeen, Place, Killing, AfterLoop, AfterLeader, AfterPost, AfterWorkspace, AfterDrain, AfterCheck, AfterThreads, AfterStdin
  <1>4. violation' = {} => violation = {} /\ since = {}
    BY <1>1, Accounts DEF PostNotices, Accounted, OutputSeen, AfterLoop, AfterLeader, AfterPost, AfterWorkspace, AfterDrain, AfterCheck, AfterThreads, AfterStdin
  <1> QED
    BY <1>2, <1>3, <1>4, GoingOnAccounts DEF AfterLoop, AfterLeader, AfterPost, AfterWorkspace, AfterDrain, AfterCheck, AfterThreads, AfterStdin

LEMMA DrainDoneAccounts ==
    ASSUME SupervisionInv, Supervise, DrainDone, UNCHANGED proc
    PROVE  Accounted'
  BY Accounts, SupervisorLeaves, SupervisorSees
  DEF DrainDone, Proceed, Terminate, Members,
         Accounted, Reasoned, Contained, LeaderSeen, OutputSeen, Place, Stages, Killing,
         AfterLoop, AfterLeader, AfterPost, AfterWorkspace, AfterDrain, AfterCheck, AfterThreads, AfterStdin

LEMMA DrainNoticesAccounts ==
    ASSUME SupervisionInv, Supervise, DrainNotices, UNCHANGED proc
    PROVE  Accounted'
  <1>1. pc = "drain" /\ violation \subseteq violation' /\ "close" \notin violation'
    BY Accounts, SampleFacts DEF DrainNotices, Accounted, Reasoned
  <1>2. GoesOn("drain")
    BY <1>1, Accounts DEF DrainNotices, GoesOn, Accounted, Reasoned, Killing, Terminate, Proceed
  <1>3. Alive(Leader) => "leader" \in violation'
    BY <1>1, Accounts DEF Accounted, LeaderSeen, Place, Killing, AfterLoop, AfterLeader, AfterPost, AfterWorkspace, AfterDrain, AfterCheck, AfterThreads, AfterStdin
  <1>4. violation' = {} => violation = {} /\ since = {}
    BY <1>1, Accounts DEF DrainNotices, Accounted, OutputSeen, AfterLoop, AfterLeader, AfterPost, AfterWorkspace, AfterDrain, AfterCheck, AfterThreads, AfterStdin
  <1> QED
    BY <1>2, <1>3, <1>4, GoingOnAccounts DEF AfterLoop, AfterLeader, AfterPost, AfterWorkspace, AfterDrain, AfterCheck, AfterThreads, AfterStdin

LEMMA DrainOutputAccounts ==
    ASSUME SupervisionInv, Supervise, DrainOutput, UNCHANGED proc
    PROVE  Accounted'
  BY Accounts, SupervisorLeaves, SupervisorSees
  DEF DrainOutput, Proceed, Terminate, Members,
         Accounted, Reasoned, Contained, LeaderSeen, OutputSeen, Place, Stages, Killing,
         AfterLoop, AfterLeader, AfterPost, AfterWorkspace, AfterDrain, AfterCheck, AfterThreads, AfterStdin

LEMMA DrainDeadlineAccounts ==
    ASSUME SupervisionInv, Supervise, DrainDeadline, UNCHANGED proc
    PROVE  Accounted'
  BY Accounts, SupervisorLeaves, SupervisorSees
  DEF DrainDeadline, Proceed, Terminate, Members,
         Accounted, Reasoned, Contained, LeaderSeen, OutputSeen, Place, Stages, Killing,
         AfterLoop, AfterLeader, AfterPost, AfterWorkspace, AfterDrain, AfterCheck, AfterThreads, AfterStdin

LEMMA DrainedAccounts ==
    ASSUME SupervisionInv, Supervise, Drained, UNCHANGED proc
    PROVE  Accounted'
  <1>1. pc = "drained" /\ violation \subseteq violation' /\ "close" \notin violation'
    BY Accounts, SampleFacts DEF Drained, Accounted, Reasoned
  <1>2. GoesOn("join")
    BY <1>1, Accounts DEF Drained, GoesOn, Accounted, Reasoned, Killing, Terminate, Proceed
  <1>3. Alive(Leader) => "leader" \in violation'
    BY <1>1, Accounts DEF Accounted, LeaderSeen, Place, Killing, AfterLoop, AfterLeader, AfterPost, AfterWorkspace, AfterDrain, AfterCheck, AfterThreads, AfterStdin
  <1>4. violation' = {} => violation = {} /\ since = {} /\ draining = {} /\ ~Exceeded
    BY <1>1, Accounts DEF Drained, Accounted, OutputSeen, AfterLoop, AfterLeader, AfterPost, AfterWorkspace, AfterDrain, AfterCheck, AfterThreads, AfterStdin
  <1> QED
    BY <1>2, <1>3, <1>4, GoingOnAccounts DEF AfterLoop, AfterLeader, AfterPost, AfterWorkspace, AfterDrain, AfterCheck, AfterThreads, AfterStdin

LEMMA JoinThreadsAccounts ==
    ASSUME SupervisionInv, Supervise, JoinThreads, UNCHANGED proc
    PROVE  Accounted'
  BY Accounts, SupervisorLeaves, SupervisorSees
  DEF JoinThreads, Proceed, Terminate, Members,
         Accounted, Reasoned, Contained, LeaderSeen, OutputSeen, Place, Stages, Killing,
         AfterLoop, AfterLeader, AfterPost, AfterWorkspace, AfterDrain, AfterCheck, AfterThreads, AfterStdin

LEMMA LastSampleAccounts ==
    ASSUME SupervisionInv, Supervise, LastSample, UNCHANGED proc
    PROVE  Accounted'
  <1>1. pc = "last" /\ violation \subseteq violation' /\ "close" \notin violation'
    BY Accounts, SampleFacts DEF LastSample, Observe, Settle, Accounted, Reasoned
  <1>2. GoesOn("stdin")
    BY <1>1, Accounts DEF LastSample, Observe, Settle, GoesOn, Accounted, Reasoned, Killing, Terminate, Proceed
  <1>3. Alive(Leader) => "leader" \in violation'
    BY <1>1, Accounts DEF Accounted, LeaderSeen, Place, Killing, AfterLoop, AfterLeader, AfterPost, AfterWorkspace, AfterDrain, AfterCheck, AfterThreads, AfterStdin
  <1>4. violation' = {} => violation = {} /\ since = {} /\ draining = {} /\ ~Exceeded
    BY <1>1, Accounts DEF LastSample, Accounted, OutputSeen, AfterLoop, AfterLeader, AfterPost, AfterWorkspace, AfterDrain, AfterCheck, AfterThreads, AfterStdin
  <1> QED
    BY <1>2, <1>3, <1>4, GoingOnAccounts DEF AfterLoop, AfterLeader, AfterPost, AfterWorkspace, AfterDrain, AfterCheck, AfterThreads, AfterStdin

LEMMA JoinStdinAccounts ==
    ASSUME SupervisionInv, Supervise, JoinStdin, UNCHANGED proc
    PROVE  Accounted'
  <1>1. pc = "stdin" /\ violation \subseteq violation' /\ "close" \notin violation'
    BY Accounts, SampleFacts DEF JoinStdin, Accounted, Reasoned
  <1>2. GoesOn("close")
    BY <1>1, Accounts DEF JoinStdin, GoesOn, Accounted, Reasoned, Killing, Terminate, Proceed
  <1>3. Alive(Leader) => "leader" \in violation'
    BY <1>1, Accounts DEF Accounted, LeaderSeen, Place, Killing, AfterLoop, AfterLeader, AfterPost, AfterWorkspace, AfterDrain, AfterCheck, AfterThreads, AfterStdin
  <1>4. violation' = {} => violation = {} /\ since = {} /\ draining = {} /\ ~Exceeded /\ ~feeding
    BY <1>1, Accounts DEF JoinStdin, Accounted, OutputSeen, AfterLoop, AfterLeader, AfterPost, AfterWorkspace, AfterDrain, AfterCheck, AfterThreads, AfterStdin
  <1> QED
    BY <1>2, <1>3, <1>4, GoingOnAccounts DEF AfterLoop, AfterLeader, AfterPost, AfterWorkspace, AfterDrain, AfterCheck, AfterThreads, AfterStdin

LEMMA LastNoticesAccounts ==
    ASSUME SupervisionInv, Supervise, LastNotices, UNCHANGED proc
    PROVE  Accounted'
  <1>1. pc = "close" /\ violation \subseteq violation' /\ "close" \notin violation'
    BY Accounts, SampleFacts DEF LastNotices, Accounted, Reasoned
  <1>2. GoesOn("return")
    BY <1>1, Accounts DEF LastNotices, GoesOn, Accounted, Reasoned, Killing, Terminate, Proceed
  <1>3. Alive(Leader) => "leader" \in violation'
    BY <1>1, Accounts DEF Accounted, LeaderSeen, Place, Killing, AfterLoop, AfterLeader, AfterPost, AfterWorkspace, AfterDrain, AfterCheck, AfterThreads, AfterStdin
  <1>4. violation' = {} => violation = {} /\ since = {} /\ draining = {} /\ ~Exceeded /\ ~feeding
    BY <1>1, Accounts DEF LastNotices, Accounted, OutputSeen, AfterLoop, AfterLeader, AfterPost, AfterWorkspace, AfterDrain, AfterCheck, AfterThreads, AfterStdin
  <1> QED
    BY <1>2, <1>3, <1>4, GoingOnAccounts DEF AfterLoop, AfterLeader, AfterPost, AfterWorkspace, AfterDrain, AfterCheck, AfterThreads, AfterStdin

LEMMA ReturnResultAccounts ==
    ASSUME SupervisionInv, Supervise, ReturnResult, UNCHANGED proc
    PROVE  Accounted'
  BY Accounts, SupervisorLeaves, SupervisorSees
  DEF ReturnResult, Proceed, Terminate, Members,
         Accounted, Reasoned, Contained, LeaderSeen, OutputSeen, Place, Stages, Killing,
         AfterLoop, AfterLeader, AfterPost, AfterWorkspace, AfterDrain, AfterCheck, AfterThreads, AfterStdin

LEMMA KillTermAccounts ==
    ASSUME SupervisionInv, Supervise, KillTerm
    PROVE  Accounted'
  BY Accounts, SupervisorLeaves, SupervisorSees
  DEF KillTerm, Proceed, Terminate, Members,
         Accounted, Reasoned, Contained, LeaderSeen, OutputSeen, Place, Stages, Killing,
         AfterLoop, AfterLeader, AfterPost, AfterWorkspace, AfterDrain, AfterCheck, AfterThreads, AfterStdin

LEMMA KillGroupAccounts ==
    ASSUME SupervisionInv, Supervise, KillGroup
    PROVE  Accounted'
  BY Accounts, SupervisorLeaves, SupervisorSees
  DEF KillGroup, Proceed, Terminate, SigKill, Members,
         Accounted, Reasoned, Contained, LeaderSeen, OutputSeen, Place, Stages, Killing,
         AfterLoop, AfterLeader, AfterPost, AfterWorkspace, AfterDrain, AfterCheck, AfterThreads, AfterStdin

LEMMA KillReapAccounts ==
    ASSUME SupervisionInv, Supervise, KillReap
    PROVE  Accounted'
  BY Accounts, SupervisorLeaves, SupervisorSees
  DEF KillReap, Proceed, Terminate, Members,
         Accounted, Reasoned, Contained, LeaderSeen, OutputSeen, Place, Stages, Killing,
         AfterLoop, AfterLeader, AfterPost, AfterWorkspace, AfterDrain, AfterCheck, AfterThreads, AfterStdin

LEMMA KillJobAccounts ==
    ASSUME SupervisionInv, Supervise, KillJob
    PROVE  Accounted'
  BY Accounts, SupervisorLeaves, SupervisorSees
  DEF KillJob, Proceed, Terminate, Members,
         Accounted, Reasoned, Contained, LeaderSeen, OutputSeen, Place, Stages, Killing,
         AfterLoop, AfterLeader, AfterPost, AfterWorkspace, AfterDrain, AfterCheck, AfterThreads, AfterStdin

LEMMA KillJobEmptyAccounts ==
    ASSUME SupervisionInv, Supervise, KillJobEmpty
    PROVE  Accounted'
  BY Accounts, SupervisorLeaves, SupervisorSees
  DEF KillJobEmpty, Proceed, Terminate, Members,
         Accounted, Reasoned, Contained, LeaderSeen, OutputSeen, Place, Stages, Killing,
         AfterLoop, AfterLeader, AfterPost, AfterWorkspace, AfterDrain, AfterCheck, AfterThreads, AfterStdin

LEMMA KillFallbackAccounts ==
    ASSUME SupervisionInv, Supervise, KillFallback
    PROVE  Accounted'
  BY Accounts, SupervisorLeaves, SupervisorSees
  DEF KillFallback, Proceed, Terminate, Members,
         Accounted, Reasoned, Contained, LeaderSeen, OutputSeen, Place, Stages, Killing,
         AfterLoop, AfterLeader, AfterPost, AfterWorkspace, AfterDrain, AfterCheck, AfterThreads, AfterStdin

LEMMA TargetFacts == \A n \in Nat : Counted(NoHooks, n)
  BY DEF NoHooks, Counted

LEMMA TargetInvInit == TargetInit => TargetInv
  <1> SUFFICES ASSUME TargetInit PROVE TargetInv
    OBVIOUS
  <1>1. TargetTypes
    <2>1. hooks.setup \in Nat /\ hooks.teardown \in Nat
      BY HookAssumption DEF TargetInit
    <2>2. Counted(setup, hooks.setup) /\ Counted(teardown, hooks.teardown)
      BY <2>1, TargetFacts DEF TargetInit
    <2> QED
      BY <2>2 DEF TargetInit, TargetTypes, BeforeSetup
  <1>2. PathFits /\ Judged
    BY DEF TargetInit, PathFits, Judged, BeforeSetup, AfterSetup, AfterExecution
  <1>3. TargetSound
    BY DEF TargetInit, TargetSound, PassIsEarned, RunCleansUp, TeardownFollowsSetup,
           OnlyStagingLeaves, TargetPassed
  <1> QED
    BY <1>1, <1>2, <1>3 DEF TargetInv

\* A step that reports before the setup began has nothing to undo, and none of
\* those reports says PASS.
LEMMA EarlyReport ==
    ASSUME TargetInv, at \in BeforeSetup, UNCHANGED <<keep, hooks, setup, teardown, script, pester>>,
           locked' \in BOOLEAN, NEW result, result # "PASS", Report(result)
    PROVE  TargetInv'
  <1>1. TargetTypes'
    BY DEF TargetInv, TargetTypes, Counted, Report, Cleaned
  <1>2. PathFits'
    BY DEF TargetInv, PathFits, Report, BeforeSetup, AfterSetup, AfterExecution
  <1>3. Judged'
    BY DEF Judged, Report, AfterExecution
  <1>4. TargetSound'
    <2>1. setup = NoHooks /\ script = NoScript
      BY DEF TargetInv, PathFits
    <2> QED
      BY <2>1 DEF TargetSound, PassIsEarned, RunCleansUp, TeardownFollowsSetup, OnlyStagingLeaves,
                  TargetPassed, Report, Cleaned, NoHooks
  <1> QED
    BY <1>1, <1>2, <1>3, <1>4 DEF TargetInv

\* A step to the next place before the end owes the properties nothing yet.
LEMMA Underway ==
    at' \notin {"done", "raised"} => TargetSound'
  BY DEF TargetSound, PassIsEarned, RunCleansUp, TeardownFollowsSetup, OnlyStagingLeaves, TargetPassed

LEMMA EarlyStep ==
    ASSUME TargetInv, at \in BeforeSetup, at' \in BeforeSetup,
           UNCHANGED <<keep, hooks, setup, teardown, script, pester>>, locked' \in BOOLEAN,
           work' \in {"none", "made", "removed"},
           at' = "probe" => parse' = "ok"
    PROVE  TargetInv'
  <1>1. TargetTypes'
    BY DEF TargetInv, TargetTypes, Counted
  <1>2. PathFits'
    BY DEF TargetInv, PathFits, BeforeSetup, AfterSetup, AfterExecution
  <1>3. Judged'
    BY DEF Judged, BeforeSetup, AfterExecution
  <1> QED
    BY <1>1, <1>2, <1>3, Underway DEF TargetInv, BeforeSetup

LEMMA TargetBeforeSetup ==
    ASSUME TargetInv,
           ResolveInputs \/ ResolveDependencies \/ ResolveRuntime \/ MakeWorkspace \/ Staged \/ BuildPlan
    PROVE  TargetInv'
  <1>1. CASE ResolveInputs
    <2>1. at \in BeforeSetup /\ at' \in BeforeSetup \cup {"done"} /\ locked' \in BOOLEAN
      BY <1>1 DEF ResolveInputs, Report, Continue, BeforeSetup, front, TargetInv, TargetTypes
    <2>2. CASE Report("FAIL_INPUT")
      BY <1>1, <2>1, <2>2, EarlyReport DEF ResolveInputs, front, later
    <2>3. CASE Continue("dependencies")
      BY <1>1, <2>1, <2>3, EarlyStep DEF ResolveInputs, Continue, front, later, TargetInv, TargetTypes, BeforeSetup
    <2> QED
      BY <1>1, <2>2, <2>3 DEF ResolveInputs
  <1>2. CASE ResolveDependencies
    <2>1. at \in BeforeSetup /\ locked' \in BOOLEAN /\ UNCHANGED <<keep, hooks, setup, teardown, script, pester>>
      BY <1>2 DEF ResolveDependencies, BeforeSetup, later
    <2>2. CASE Report("FAIL_DEPENDENCY")
      BY <2>1, <2>2, EarlyReport
    <2>3. CASE Continue("runtime")
      BY <2>1, <2>3, EarlyStep DEF Continue, TargetInv, TargetTypes, BeforeSetup
    <2> QED
      BY <1>2, <2>2, <2>3 DEF ResolveDependencies
  <1>3. CASE ResolveRuntime
    <2>1. at \in BeforeSetup /\ locked' \in BOOLEAN /\ UNCHANGED <<keep, hooks, setup, teardown, script, pester>>
      BY <1>3 DEF ResolveRuntime, BeforeSetup, front, later, TargetInv, TargetTypes
    <2>2. CASE Report("FAIL_RUNTIME") \/ Report("UNTESTED_RUNTIME")
      BY <2>1, <2>2, EarlyReport
    <2>3. CASE Continue("workspace")
      BY <2>1, <2>3, EarlyStep DEF Continue, TargetInv, TargetTypes, BeforeSetup
    <2> QED
      BY <1>3, <2>2, <2>3 DEF ResolveRuntime
  <1>4. CASE MakeWorkspace
    BY <1>4, EarlyStep DEF MakeWorkspace, front, later, TargetInv, TargetTypes, BeforeSetup
  <1>5. CASE Staged
    <2>1. at \in BeforeSetup /\ locked' \in BOOLEAN /\ UNCHANGED <<keep, hooks, setup, teardown, script, pester>>
      BY <1>5 DEF Staged, BeforeSetup, front, later, TargetInv, TargetTypes
    <2>2. CASE Report("FAIL_INPUT")
      BY <2>1, <2>2, EarlyReport
    <2>3. CASE Continue("plan")
      BY <2>1, <2>3, EarlyStep DEF Continue, TargetInv, TargetTypes, BeforeSetup
    <2> QED
      BY <1>5, <2>2, <2>3 DEF Staged
  <1>6. CASE BuildPlan
    <2>1. at \in BeforeSetup /\ locked' \in BOOLEAN /\ UNCHANGED <<keep, hooks, setup, teardown, script, pester>>
      BY <1>6 DEF BuildPlan, BeforeSetup, front, later, TargetInv, TargetTypes
    <2>2. CASE Report("FAIL_SANDBOX")
      BY <2>1, <2>2, EarlyReport
    <2>3. CASE Continue("parse")
      BY <2>1, <2>3, EarlyStep DEF Continue, TargetInv, TargetTypes, BeforeSetup
    <2> QED
      BY <1>6, <2>2, <2>3 DEF BuildPlan
  <1> QED
    BY <1>1, <1>2, <1>3, <1>4, <1>5, <1>6

\* The step into the setup, with all that was to be passed before it.
LEMMA IntoSetup ==
    ASSUME TargetInv, at \in BeforeSetup, at' = "setup",
           UNCHANGED <<work, keep, locked, hooks, setup, teardown, script, pester>>,
           parse' = "ok", locked => probe' = "ok"
    PROVE  TargetInv'
  <1>1. TargetTypes'
    BY DEF TargetInv, TargetTypes, Counted
  <1>2. PathFits'
    BY DEF TargetInv, PathFits, BeforeSetup, AfterSetup, AfterExecution
  <1>3. Judged'
    BY DEF Judged, AfterExecution
  <1> QED
    BY <1>1, <1>2, <1>3, Underway DEF TargetInv

LEMMA TargetParse ==
    ASSUME TargetInv, Parse
    PROVE  TargetInv'
  <1>1. PICK end \in Ends, valid \in BOOLEAN, mode \in Modes,
             found \in {"unavailable", "error", "findings", "clean"} :
          /\ end # "ok" => ~valid /\ found = "unavailable"
          /\ parse' = IF valid THEN end ELSE IF end = "ok" THEN "invalid" ELSE end
          /\ IF AnalyzerFails(mode, found) THEN Report("FAIL_ANALYZER")
             ELSE IF ~valid THEN Report(IF Exceeds(end) THEN "FAIL_RESOURCE" ELSE "FAIL_PARSE")
             ELSE Continue(IF locked THEN "probe" ELSE "setup")
    BY DEF Parse
  <1>2. /\ at \in BeforeSetup /\ locked' \in BOOLEAN
        /\ UNCHANGED <<keep, locked, probe, hooks, setup, teardown, script, pester>>
    BY DEF Parse, BeforeSetup, later, TargetInv, TargetTypes
  <1>3. CASE Report("FAIL_ANALYZER") \/ Report("FAIL_RESOURCE") \/ Report("FAIL_PARSE")
    BY <1>2, <1>3, EarlyReport
  <1>4. CASE valid /\ Continue(IF locked THEN "probe" ELSE "setup")
    <2>1. parse' = "ok"
      BY <1>1, <1>4
    <2>2. CASE locked
      BY <1>2, <1>4, <2>1, <2>2, EarlyStep DEF Continue, BeforeSetup, TargetInv, TargetTypes
    <2>3. CASE ~locked
      BY <1>2, <1>4, <2>1, <2>3, IntoSetup DEF Continue
    <2> QED
      BY <2>2, <2>3
  <1> QED
    BY <1>1, <1>3, <1>4

LEMMA TargetProbe ==
    ASSUME TargetInv, Probe
    PROVE  TargetInv'
  <1>1. PICK satisfied \in BOOLEAN :
          /\ probe' = IF satisfied THEN "ok" ELSE "bad"
          /\ IF satisfied THEN Continue("setup") ELSE Report("FAIL_DEPENDENCY")
    BY DEF Probe
  <1>2. /\ at = "probe" /\ at \in BeforeSetup /\ locked' \in BOOLEAN
        /\ UNCHANGED <<keep, locked, parse, hooks, setup, teardown, script, pester>>
    BY DEF Probe, BeforeSetup, later, TargetInv, TargetTypes
  <1>3. CASE satisfied
    <2>1. parse' = "ok"
      BY <1>2 DEF TargetInv, PathFits
    <2> QED
      BY <1>1, <1>2, <1>3, <2>1, IntoSetup DEF Continue
  <1>4. CASE ~satisfied
    BY <1>1, <1>2, <1>4, EarlyReport
  <1> QED
    BY <1>1, <1>3, <1>4

\* One more hook, of the hooks there are.
LEMMA HookCounted ==
    ASSUME NEW most \in Nat, NEW done, Counted(done, most), done.run < most, NEW end
    PROVE  Counted(Hooked(done, end), most)
  <1>1. done.run \in 0..most /\ done.failed \in BOOLEAN
    BY DEF Counted
  <1>2. done.run + 1 \in 0..most
    BY <1>1
  <1>3. (done.failed \/ end # "ok") \in BOOLEAN
    OBVIOUS
  <1> QED
    BY <1>2, <1>3 DEF Counted, Hooked

LEMMA HookNumbers == TargetTypes => hooks.setup \in Nat /\ hooks.teardown \in Nat
  BY HookAssumption DEF TargetTypes

LEMMA TargetSetupHook ==
    ASSUME TargetInv, SetupHook
    PROVE  TargetInv'
  <1>1. PICK end \in Ends : setup' = Hooked(setup, end)
    BY DEF SetupHook
  <1>2. Counted(setup', hooks.setup)
    BY <1>1, HookCounted, HookNumbers DEF TargetInv, TargetTypes, SetupHook
  <1>3. TargetTypes'
    BY <1>2 DEF TargetInv, TargetTypes, SetupHook, Counted, front
  <1>4. PathFits'
    BY DEF TargetInv, PathFits, SetupHook, front, BeforeSetup, AfterSetup, AfterExecution
  <1>5. Judged'
    BY DEF SetupHook, Judged, AfterExecution
  <1> QED
    BY <1>3, <1>4, <1>5, Underway DEF TargetInv, SetupHook

LEMMA TargetSetupDone ==
    ASSUME TargetInv, SetupDone
    PROVE  TargetInv'
  <1>1. at = "setup" /\ at' = (IF setup.failed THEN "undo" ELSE "execute")
        /\ UNCHANGED <<work, front, later, status, fault>>
    BY DEF SetupDone, Continue
  <1>2. TargetTypes'
    BY <1>1 DEF TargetInv, TargetTypes, Counted, front, later, AfterSetup
  <1>3. PathFits'
    <2>1. ~setup.failed => setup = [run |-> hooks.setup, failed |-> FALSE]
      BY DEF SetupDone, TargetInv, TargetTypes, Counted
    <2> QED
      BY <1>1, <2>1 DEF TargetInv, PathFits, front, later, BeforeSetup, AfterSetup, AfterExecution
  <1>4. Judged'
    BY <1>1 DEF Judged, AfterExecution
  <1> QED
    BY <1>1, <1>2, <1>3, <1>4, Underway DEF TargetInv

LEMMA TargetTeardownHook ==
    ASSUME TargetInv, TeardownHook
    PROVE  TargetInv'
  <1>1. PICK end \in Ends : teardown' = Hooked(teardown, end)
    BY DEF TeardownHook
  <1>2. Counted(teardown', hooks.teardown)
    BY <1>1, HookCounted, HookNumbers DEF TargetInv, TargetTypes, TeardownHook
  <1>3. TargetTypes'
    BY <1>2 DEF TargetInv, TargetTypes, TeardownHook, Counted, front
  <1>4. PathFits'
    BY DEF TargetInv, PathFits, TeardownHook, front, BeforeSetup, AfterSetup, AfterExecution
  <1>5. Judged'
    <2>1. Verdict' = Verdict /\ UNCHANGED <<at, script, pester, status>>
      BY DEF TeardownHook, Verdict, StreamFails, CheckFails, PesterFails
    <2> QED
      BY <2>1 DEF TargetInv, Judged, ScriptFits, PesterFits
  <1> QED
    BY <1>3, <1>4, <1>5, Underway DEF TargetInv, TeardownHook

LEMMA TargetUndoDone ==
    ASSUME TargetInv, UndoDone
    PROVE  TargetInv'
  <1>1. TargetTypes'
    BY DEF TargetInv, TargetTypes, Counted, UndoDone, Report, Cleaned, front, later
  <1>2. PathFits' /\ Judged'
    BY DEF UndoDone, Report, PathFits, Judged, BeforeSetup, AfterSetup, AfterExecution
  <1>3. TargetSound'
    BY DEF UndoDone, Report, Cleaned, front, later, TargetSound, PassIsEarned, RunCleansUp,
           TeardownFollowsSetup, OnlyStagingLeaves, TargetPassed
  <1> QED
    BY <1>1, <1>2, <1>3 DEF TargetInv

LEMMA TargetExecuteScript ==
    ASSUME TargetInv, ExecuteScript
    PROVE  TargetInv'
  <1>1. PICK ran \in [end : Ends, code : 0..1, stated : BOOLEAN, expect : 0..1, offends : BOOLEAN,
                      envelope : BOOLEAN, native : BOOLEAN, checks : BOOLEAN] :
          /\ ran.code = 1 <=> ran.end = "bad"
          /\ ran.expect = 1 => ran.stated
          /\ script' = ran
    BY DEF ExecuteScript
  <1>2. at = "execute" /\ at' = "pester" /\ UNCHANGED <<work, status, front, setup, teardown, pester, fault>>
    BY DEF ExecuteScript, Continue
  <1>3. TargetTypes'
    BY <1>2 DEF TargetInv, TargetTypes, Counted, front, AfterSetup, AfterExecution
  <1>4. PathFits'
    BY <1>2 DEF TargetInv, PathFits, front, BeforeSetup, AfterSetup, AfterExecution
  <1>5. Judged'
    BY <1>1, <1>2 DEF Judged, ScriptFits
  <1> QED
    BY <1>2, <1>3, <1>4, <1>5, Underway DEF TargetInv

LEMMA TargetRunPester ==
    ASSUME TargetInv, RunPester
    PROVE  TargetInv'
  <1> DEFINE tested(mode, installed, runs, end, answer) ==
                CASE mode = "off" -> "skipped"
                  [] mode # "off" /\ ~installed -> "unavailable"
                  [] mode # "off" /\ installed /\ ~runs -> "no-tests"
                  [] runs -> IF end = "ok" THEN answer ELSE "error"
  <1>1. \E mode \in Modes, installed \in BOOLEAN, end \in Ends,
           answer \in {"error", "failed", "passed"} :
          LET runs == installed /\ mode # "off" /\ ~Exceeds(script.end)
          IN  /\ pester'.mode = mode
              /\ pester'.end = IF runs THEN end ELSE "unrun"
              /\ pester'.tests = tested(mode, installed, runs, end, answer)
    BY DEF RunPester
  <1>2. at = "pester" /\ at' = "verdict" /\ UNCHANGED <<work, status, front, setup, teardown, script, fault>>
    BY DEF RunPester, Continue
  <1>3. TargetTypes'
    BY <1>2 DEF TargetInv, TargetTypes, Counted, front, AfterSetup, AfterExecution
  <1>4. PathFits'
    BY <1>2 DEF TargetInv, PathFits, front, BeforeSetup, AfterSetup, AfterExecution
  <1>5. Judged'
    <2>1. ScriptFits'
      BY <1>2 DEF TargetInv, Judged, AfterExecution, ScriptFits
    <2>2. PesterFits'
      <3>1. PICK mode \in Modes, installed \in BOOLEAN, end \in Ends,
                 answer \in {"error", "failed", "passed"} :
                   LET runs == installed /\ mode # "off" /\ ~Exceeds(script.end)
                   IN  /\ pester'.mode = mode
                       /\ pester'.end = IF runs THEN end ELSE "unrun"
                       /\ pester'.tests = tested(mode, installed, runs, end, answer)
        BY <1>1
      <3>2. CASE mode = "off"
        BY <3>1, <3>2 DEF PesterFits, Modes
      <3>3. CASE mode # "off" /\ (~installed \/ Exceeds(script.end))
        BY <3>1, <3>3 DEF PesterFits, Modes
      <3>4. CASE mode # "off" /\ installed /\ ~Exceeds(script.end)
        <4>1. pester'.mode = mode /\ pester'.end = end
          BY <3>1, <3>4
        <4>2. pester'.tests = IF end = "ok" THEN answer ELSE "error"
          BY <3>1, <3>4
        <4> QED
          BY <3>4, <4>1, <4>2 DEF PesterFits, Modes, Ends
      <3> QED
        BY <3>2, <3>3, <3>4
    <2> QED
      BY <1>2, <2>1, <2>2 DEF Judged, AfterExecution
  <1> QED
    BY <1>2, <1>3, <1>4, <1>5, Underway DEF TargetInv

LEMMA TargetJudge ==
    ASSUME TargetInv, Judge
    PROVE  TargetInv'
  <1>1. at = "verdict" /\ at' = "teardown" /\ UNCHANGED <<work, front, later, fault>>
    BY DEF Judge
  <1>2. TargetTypes'
    BY <1>1 DEF TargetInv, TargetTypes, Counted, front, later, AfterSetup, AfterExecution
  <1>3. PathFits'
    BY <1>1 DEF TargetInv, PathFits, front, later, BeforeSetup, AfterSetup, AfterExecution
  <1>4. Judged'
    <2>1. status' = Verdict'
      BY <1>1 DEF Judge, later, Verdict, StreamFails, CheckFails, PesterFails
    <2> QED
      BY <1>1, <2>1 DEF TargetInv, Judged, ScriptFits, PesterFits, AfterExecution, later
  <1> QED
    BY <1>1, <1>2, <1>3, <1>4, Underway DEF TargetInv

\* What a verdict of PASS says of the script and of Pester.
LEMMA PassingVerdict ==
    ASSUME ScriptFits, PesterFits, Verdict = "PASS"
    PROVE  /\ script.end \in {"ok", "bad"} /\ script.code = script.expect /\ script.checks
           /\ pester.end \in {"ok", "unrun"} /\ pester.tests \notin {"failed", "error"}
           /\ pester.mode = "required" => pester.tests = "passed"
           /\ ~pester.short
           /\ script.offends => ~script.envelope
  <1>1. /\ script.end \notin {"late", "limit"}
        /\ ~(script.code # 0 /\ script.code # script.expect)
        /\ ~StreamFails /\ ~CheckFails /\ ~PesterFails /\ ~pester.short
    BY DEF Verdict
  <1>2. script.end \in {"ok", "bad"} /\ script.checks /\ (script.offends => ~script.envelope)
    BY <1>1 DEF ScriptFits, Ends, StreamFails, CheckFails
  <1>3. script.code = script.expect
    BY <1>1 DEF ScriptFits, CheckFails
  <1>4. /\ pester.end \in {"ok", "unrun"} /\ pester.tests \notin {"failed", "error"}
        /\ pester.mode = "required" => pester.tests = "passed"
    BY <1>1 DEF PesterFits, PesterFails, PesterFits, Modes
  <1> QED
    BY <1>1, <1>2, <1>3, <1>4

LEMMA TargetTeardownDone ==
    ASSUME TargetInv, TeardownDone
    PROVE  TargetInv'
  <1>1. /\ at = "teardown" /\ teardown.run = hooks.teardown /\ UNCHANGED <<front, later, fault>>
        /\ at' = "done" /\ work' = Cleaned
        /\ status' = IF teardown.failed /\ status = "PASS" THEN "FAIL_TEARDOWN" ELSE status
    BY DEF TeardownDone, Report
  <1>2. TargetTypes'
    BY <1>1 DEF TargetInv, TargetTypes, Counted, Cleaned, front, later
  <1>3. PathFits' /\ Judged'
    BY <1>1 DEF PathFits, Judged, BeforeSetup, AfterSetup, AfterExecution
  <1>4. PassIsEarned'
    <2> SUFFICES ASSUME TargetPassed' PROVE PassIsEarned'
      BY DEF PassIsEarned
    <2>1. Verdict = "PASS" /\ ~teardown.failed /\ ScriptFits /\ PesterFits
      BY <1>1 DEF TargetPassed, TargetInv, Judged, AfterExecution
    <2>2. /\ parse = "ok" /\ (locked => probe = "ok")
          /\ setup = [run |-> hooks.setup, failed |-> FALSE]
      BY <1>1 DEF TargetInv, PathFits, AfterSetup, AfterExecution
    <2>3. teardown = [run |-> hooks.teardown, failed |-> FALSE]
      BY <1>1, <2>1 DEF TargetInv, TargetTypes, Counted
    <2> QED
      BY <1>1, <2>1, <2>2, <2>3, PassingVerdict DEF PassIsEarned, front, later
  <1>5. RunCleansUp'
    BY <1>1 DEF RunCleansUp, TeardownFollowsSetup, OnlyStagingLeaves, Cleaned, front, later
  <1> QED
    BY <1>2, <1>3, <1>4, <1>5 DEF TargetInv, TargetSound

LEMMA TargetRaises ==
    ASSUME TargetInv, StagingRaises \/ RunRaises
    PROVE  TargetInv'
  <1>1. PICK place \in {"staging", "run"} : Raise(place)
    BY DEF StagingRaises, RunRaises
  <1>2. TargetTypes'
    BY <1>1 DEF Raise, TargetInv, TargetTypes, Counted, Cleaned, front, later
  <1>3. PathFits' /\ Judged'
    BY <1>1 DEF Raise, PathFits, Judged, BeforeSetup, AfterSetup, AfterExecution
  <1>4. TargetSound'
    BY <1>1 DEF Raise, Cleaned, front, TargetSound, PassIsEarned, RunCleansUp, TeardownFollowsSetup,
                OnlyStagingLeaves, TargetPassed
  <1> QED
    BY <1>2, <1>3, <1>4 DEF TargetInv

LEMMA TargetUnchanged ==
    ASSUME TargetInv, UNCHANGED targetVars
    PROVE  TargetInv'
  <1>1. UNCHANGED <<at, work, keep, locked, parse, probe, hooks, setup, teardown, script, pester, status, fault>>
    BY DEF targetVars, front, later
  <1>2. TargetTypes' /\ PathFits'
    BY <1>1 DEF TargetInv, TargetTypes, Counted, PathFits
  <1>3. Judged'
    BY <1>1 DEF TargetInv, Judged, ScriptFits, PesterFits, Verdict, StreamFails, CheckFails, PesterFails
  <1>4. TargetSound'
    BY <1>1 DEF TargetInv, TargetSound, PassIsEarned, TargetPassed, RunCleansUp,
                TeardownFollowsSetup, OnlyStagingLeaves
  <1> QED
    BY <1>2, <1>3, <1>4 DEF TargetInv

LEMMA TargetInvKept == TargetInv /\ [TargetNext]_targetVars => TargetInv'
  <1> SUFFICES ASSUME TargetInv, [TargetNext]_targetVars PROVE TargetInv'
    OBVIOUS
  <1> QED
    BY TargetBeforeSetup, TargetParse, TargetProbe, TargetSetupHook, TargetSetupDone,
       TargetTeardownHook, TargetUndoDone, TargetExecuteScript, TargetRunPester, TargetJudge,
       TargetTeardownDone, TargetRaises, TargetUnchanged
    DEF TargetNext, Ended

LEMMA TargetInvHolds == TargetSpec => []TargetInv
  BY TargetInvInit, TargetInvKept, PTL DEF TargetSpec

LEMMA ReportAccounts ==
    ASSUME SupervisionInv, Supervise, FinishReport, UNCHANGED proc
    PROVE  Accounted'
  BY AwaitLeaderAccounts, PostSampleAccounts, PostWorkspaceAccounts, PostNoticesAccounts,
     DrainDoneAccounts, DrainNoticesAccounts, DrainOutputAccounts, DrainDeadlineAccounts,
     DrainedAccounts, JoinThreadsAccounts, LastSampleAccounts, JoinStdinAccounts,
     LastNoticesAccounts, ReturnResultAccounts
  DEF FinishReport

LEMMA SupervisorKeeps ==
    ASSUME SupervisionInv, Supervise
    PROVE  SupervisionInv'
  <1>1. CASE (Loop \/ LoopSample) /\ UNCHANGED proc
    BY <1>1, LoopEndsAccounts, LoopTimeoutAccounts, LoopOutputAccounts, LoopWorkspaceAccounts,
       LoopSampleAccounts, AccountedIsEnough DEF Loop
  <1>2. CASE FinishReport /\ UNCHANGED proc
    BY <1>2, ReportAccounts, AccountedIsEnough
  <1>3. CASE Kill
    BY <1>3, KillTermAccounts, KillGroupAccounts, KillReapAccounts, KillJobAccounts,
       KillJobEmptyAccounts, KillFallbackAccounts, AccountedIsEnough DEF Kill
  <1> QED
    BY <1>1, <1>2, <1>3 DEF Supervise

\* The clock changes what nothing but the loop looks at.
LEMMA ClockKeeps ==
    ASSUME SupervisionInv, Clock \/ UNCHANGED supVars
    PROVE  SupervisionInv'
  <1>1. /\ UNCHANGED <<nt, capped, proc, written, total, draining, feeding, full, rejected,
                       pc, back, violation, terminated, since>>
        /\ late' \in BOOLEAN
    BY DEF SupervisionInv, SupervisionTypes, Clock, supVars, given, tree, threads, control
  <1>2. SupervisionTypes' /\ Reasoned' /\ Contained' /\ LeaderSeen' /\ NoneKilled'
    BY <1>1 DEF SupervisionInv, SupervisionTypes, Reasoned, Contained, LeaderSeen, NoneKilled,
                Place, Alive, Members
  <1>3. DrainedDry' /\ OutputSeen' /\ JobLimited' /\ ExcessSeen'
    BY <1>1 DEF SupervisionInv, DrainedDry, OutputSeen, JobLimited, ExcessSeen, Writers, Alive,
                Members, Exceeded, Over
  <1> QED
    BY <1>2, <1>3 DEF SupervisionInv

LEMMA SupervisionInvKept == SupervisionInv /\ [SupervisionNext]_supVars => SupervisionInv'
  BY TreeKeeps, ThreadsKeep, SupervisorKeeps, ClockKeeps DEF SupervisionNext

LEMMA SupervisionInvHolds == SupervisionInit /\ [][SupervisionNext]_supVars => []SupervisionInv
  BY SupervisionInvInit, SupervisionInvKept, PTL

\* What the invariant is for.
LEMMA SupervisionInvProperties == SupervisionInv => ResultsHold
  <1> SUFFICES ASSUME SupervisionInv PROVE ResultsHold
    OBVIOUS
  <1>0. /\ SupervisionTypes /\ Reasoned /\ Contained /\ LeaderSeen /\ NoneKilled
        /\ DrainedDry /\ OutputSeen /\ ExcessSeen
    BY DEF SupervisionInv
  <1>1. ViolationContains
    <2> SUFFICES ASSUME Returned, violation \notin {{}, {"close"}}
                 PROVE  /\ "job" \in violation \/ \A p \in Members : proc[p].killed
                        /\ Alive(Leader) => "leader" \in violation
      BY DEF ViolationContains
    <2>1. violation \ {"close"} # {}
      OBVIOUS
    <2>2. terminated
      BY <1>0, <2>1 DEF Reasoned, Returned
    <2> QED
      BY <1>0, <2>2 DEF Contained, LeaderSeen, Returned, Place, Killing, AfterLeader, AfterPost,
                        AfterWorkspace, AfterDrain, AfterCheck, AfterThreads, AfterStdin
  <1>2. CleanIsComplete
    <2> SUFFICES ASSUME Returned, violation = {}
                 PROVE  /\ ~Alive(Leader) /\ ~feeding /\ draining = {}
                        /\ \A s \in Streams : total[s] = written[s] /\ total[s] <= Limit
                        /\ \A p \in Procs : ~proc[p].killed
                        /\ since = {}
      BY DEF CleanIsComplete
    <2>1. /\ pc \in AfterStdin /\ pc \in AfterCheck /\ pc \in AfterDrain /\ pc \in AfterWorkspace
          /\ pc \in AfterLeader /\ pc \notin Killing
      BY DEF Returned, Killing, AfterLeader, AfterPost, AfterWorkspace, AfterDrain, AfterCheck,
             AfterThreads, AfterStdin
    <2>2. ~feeding /\ draining = {} /\ ~Exceeded
      BY <1>0, <2>1 DEF OutputSeen
    <2>3. \A s \in Streams : total[s] = written[s] /\ total[s] <= Limit
      BY <1>0, <2>2, SupervisionAssumption DEF DrainedDry, Exceeded, SupervisionTypes
    <2>4. ~Alive(Leader) /\ since = {} /\ \A p \in Procs : ~proc[p].killed
      BY <1>0, <2>1 DEF LeaderSeen, Place, NoneKilled, ExcessSeen
    <2> QED
      BY <2>2, <2>3, <2>4
  <1> QED
    BY <1>1, <1>2 DEF ResultsHold

-----------------------------------------------------------------------------
(* The supervisor winds down.                                              *)

\* How far it is to the end: the stages to come, the end of the tree if that
\* was not begun, and what is left of it.
StagesLeft(stage) ==
    CASE stage = "sample" -> 14 [] stage = "loop" -> 13 [] stage = "exited" -> 12
      [] stage = "post" -> 11 [] stage = "workspace" -> 10 [] stage = "notices" -> 9
      [] stage = "drain" -> 8 [] stage = "drained" -> 7 [] stage = "join" -> 6
      [] stage = "last" -> 5 [] stage = "stdin" -> 4 [] stage = "close" -> 3
      [] stage = "return" -> 2 [] stage = "returned" -> 1
KillLeft == CASE pc = "term" -> 3 [] pc \in {"kill", "jobwait"} -> 2 [] pc = "reap" -> 1 [] OTHER -> 0
Remaining == 5 * StagesLeft(Place) + (IF terminated THEN 0 ELSE 4) + KillLeft

\* Once its time is up the supervisor only gets nearer to its return, whatever
\* the processes and the other threads do, and every step of it but a look at
\* the drain threads while it waits for them brings it nearer: what
\* AlwaysReturns rests on besides the fairness of the scheduler.
WindsDown ==
    [][late => /\ Remaining' <= Remaining
               /\ Supervise => Remaining' < Remaining \/ pc = "drain"]_supVars

LEMMA StagesLeftType == \A stage \in {"loop", "sample"} \cup AfterLoop : StagesLeft(stage) \in 1..14
  BY DEF StagesLeft, AfterLoop, AfterLeader, AfterPost, AfterWorkspace, AfterDrain, AfterCheck,
         AfterThreads, AfterStdin

LEMMA RemainingType == SupervisionTypes => Remaining \in Nat /\ StagesLeft(Place) \in Nat
  <1> SUFFICES ASSUME SupervisionTypes PROVE Remaining \in Nat /\ StagesLeft(Place) \in Nat
    OBVIOUS
  <1>1. Place \in {"loop", "sample"} \cup AfterLoop
    BY DEF SupervisionTypes, Place
  <1>2. StagesLeft(Place) \in 1..14
    BY <1>1, StagesLeftType
  <1>3. KillLeft \in 0..3
    BY DEF KillLeft
  <1> QED
    BY <1>2, <1>3 DEF Remaining

\* To go on to a later stage brings the end nearer, by way of the end of the
\* tree too.
LEMMA OnwardIsNearer ==
    ASSUME SupervisionTypes, pc \notin Killing, NEW next \in {"loop", "sample"} \cup AfterLoop,
           Proceed(next) \/ Terminate(next), StagesLeft(next) <= StagesLeft(pc)
    PROVE  /\ Remaining' <= Remaining
           /\ StagesLeft(next) < StagesLeft(pc) => Remaining' < Remaining
  <1>1. /\ StagesLeft(next) \in Nat /\ StagesLeft(pc) \in Nat /\ Place = pc /\ KillLeft = 0
        /\ next \notin Killing
    BY StagesLeftType DEF SupervisionTypes, Place, Killing, KillLeft, AfterLoop, AfterLeader, AfterPost, AfterWorkspace, AfterDrain, AfterCheck,
         AfterThreads, AfterStdin
  <1>2. CASE Proceed(next)
    <2>1. KillLeft' = 0 /\ Place' = next /\ terminated' = terminated
      BY <1>1, <1>2 DEF Proceed, KillLeft, Place, Killing
    <2> QED
      BY <1>1, <2>1 DEF Remaining, SupervisionTypes
  <1>3. CASE Terminate(next) /\ ~terminated
    <2>1. KillLeft' = 3 /\ Place' = next /\ terminated'
      BY <1>3 DEF Terminate, KillLeft, Place, Killing
    <2> QED
      BY <1>1, <1>3, <2>1 DEF Remaining
  <1> QED
    BY <1>2, <1>3 DEF Terminate

LEMMA KillingIsNearer ==
    ASSUME SupervisionTypes, Reasoned, Kill
    PROVE  Remaining' < Remaining
  <1>1. /\ pc \in Killing /\ back' = back /\ terminated' = terminated
        /\ Place = back /\ back \notin Killing
    BY DEF Kill, KillTerm, KillGroup, KillReap, KillJob, KillJobEmpty, KillFallback, Proceed,
           Reasoned, Place, Killing, AfterLoop, AfterLeader, AfterPost, AfterWorkspace, AfterDrain, AfterCheck,
         AfterThreads, AfterStdin
  <1>2. /\ KillLeft' < KillLeft /\ KillLeft \in Nat /\ KillLeft' \in Nat /\ Place' = back
    BY <1>1 DEF Kill, KillTerm, KillGroup, KillReap, KillJob, KillJobEmpty, KillFallback, Proceed,
                KillLeft, Place, Killing
  <1>3. StagesLeft(back) \in Nat
    BY RemainingType, <1>1
  <1> QED
    BY <1>1, <1>2, <1>3 DEF Remaining

\* The next stage of every step of the supervisor.
GoesTo(next) == pc \notin Killing /\ (Proceed(next) \/ Terminate(next))

LEMMA NextStages ==
    ASSUME Loop \/ LoopSample \/ FinishReport, late
    PROVE  \/ pc = "loop" /\ GoesTo("exited")
           \/ pc = "sample" /\ (GoesTo("exited") \/ GoesTo("loop"))
           \/ pc = "exited" /\ GoesTo("post")
           \/ pc = "post" /\ GoesTo("workspace")
           \/ pc = "workspace" /\ GoesTo("notices")
           \/ pc = "notices" /\ GoesTo("drain")
           \/ pc = "drain" /\ (GoesTo("drain") \/ GoesTo("drained"))
           \/ pc = "drained" /\ GoesTo("join")
           \/ pc = "join" /\ GoesTo("last")
           \/ pc = "last" /\ GoesTo("stdin")
           \/ pc = "stdin" /\ GoesTo("close")
           \/ pc = "close" /\ GoesTo("return")
           \/ pc = "return" /\ GoesTo("returned")
  <1>1. ASSUME Loop PROVE pc = "loop" /\ GoesTo("exited")
    BY <1>1 DEF Loop, LoopEnds, LoopTimeout, LoopOutput, LoopWorkspace, GoesTo, Killing
  <1>2. ASSUME LoopSample PROVE pc = "sample" /\ (GoesTo("exited") \/ GoesTo("loop"))
    BY <1>2 DEF LoopSample, GoesTo, Killing
  <1>3. ASSUME AwaitLeader PROVE pc = "exited" /\ GoesTo("post")
    BY <1>3 DEF AwaitLeader, GoesTo, Killing
  <1>4. ASSUME PostSample PROVE pc = "post" /\ GoesTo("workspace")
    BY <1>4 DEF PostSample, Settle, GoesTo, Killing
  <1>5. ASSUME PostWorkspace PROVE pc = "workspace" /\ GoesTo("notices")
    BY <1>5 DEF PostWorkspace, GoesTo, Killing
  <1>6. ASSUME PostNotices PROVE pc = "notices" /\ GoesTo("drain")
    BY <1>6 DEF PostNotices, GoesTo, Killing
  <1>7. ASSUME DrainDone \/ DrainNotices \/ DrainOutput \/ DrainDeadline PROVE pc = "drain" /\ (GoesTo("drain") \/ GoesTo("drained"))
    BY <1>7 DEF DrainDone, DrainNotices, DrainOutput, DrainDeadline, GoesTo, Killing
  <1>8. ASSUME Drained PROVE pc = "drained" /\ GoesTo("join")
    BY <1>8 DEF Drained, GoesTo, Killing
  <1>9. ASSUME JoinThreads PROVE pc = "join" /\ GoesTo("last")
    BY <1>9 DEF JoinThreads, GoesTo, Killing
  <1>10. ASSUME LastSample PROVE pc = "last" /\ GoesTo("stdin")
    BY <1>10 DEF LastSample, Settle, GoesTo, Killing
  <1>11. ASSUME JoinStdin PROVE pc = "stdin" /\ GoesTo("close")
    BY <1>11 DEF JoinStdin, GoesTo, Killing
  <1>12. ASSUME LastNotices PROVE pc = "close" /\ GoesTo("return")
    BY <1>12 DEF LastNotices, GoesTo, Killing
  <1>13. ASSUME ReturnResult PROVE pc = "return" /\ GoesTo("returned")
    BY <1>13 DEF ReturnResult, GoesTo, Killing
  <1> QED
    BY <1>1, <1>2, <1>3, <1>4, <1>5, <1>6, <1>7, <1>8, <1>9, <1>10, <1>11, <1>12, <1>13 DEF FinishReport

LEMMA NextIsLater ==
    ASSUME Loop \/ LoopSample \/ FinishReport, late
    PROVE  \E next \in {"loop"} \cup AfterLoop :
              /\ GoesTo(next)
              /\ StagesLeft(next) < StagesLeft(pc) \/ (pc = "drain" /\ next = "drain")
  <1> DEFINE Later(next) == /\ next \in {"loop"} \cup AfterLoop
                            /\ StagesLeft(next) < StagesLeft(pc) \/ (pc = "drain" /\ next = "drain")
  <1>1. /\ pc = "sample" => Later("exited")
        /\ pc = "sample" => Later("loop")
        /\ pc = "loop" => Later("exited")
        /\ pc = "exited" => Later("post")
        /\ pc = "post" => Later("workspace")
        /\ pc = "workspace" => Later("notices")
        /\ pc = "notices" => Later("drain")
        /\ pc = "drain" => Later("drained")
        /\ pc = "drained" => Later("join")
        /\ pc = "join" => Later("last")
        /\ pc = "last" => Later("stdin")
        /\ pc = "stdin" => Later("close")
        /\ pc = "close" => Later("return")
        /\ pc = "return" => Later("returned")
        /\ pc = "drain" => Later("drain")
    <2>1. {"exited", "post", "workspace", "notices", "drain", "drained", "join", "last", "stdin",
           "close", "return", "returned"} \subseteq AfterLoop
      BY DEF AfterLoop, AfterLeader, AfterPost, AfterWorkspace, AfterDrain, AfterCheck,
           AfterThreads, AfterStdin
    <2> QED
      BY <2>1 DEF StagesLeft
  <1>2. \E next \in {"loop"} \cup AfterLoop : GoesTo(next) /\ Later(next)
    <2> HIDE DEF Later
    <2>1. \E next : GoesTo(next) /\ Later(next)
      BY NextStages, <1>1, Zenon
    <2> QED
      BY <2>1 DEF Later
  <1> QED
    BY <1>2

LEMMA StepNearer ==
    ASSUME SupervisionInv, Supervise, late
    PROVE  /\ Remaining' <= Remaining
           /\ Remaining' < Remaining \/ pc = "drain"
  <1>0. SupervisionInv'
    BY SupervisorKeeps
  <1>1. SupervisionTypes /\ SupervisionTypes' /\ Reasoned
    BY <1>0 DEF SupervisionInv
  <1>2. Remaining \in Nat /\ (Remaining \in Nat)'
    BY <1>1, RemainingType, PTL
  <1>3. CASE Kill
    BY <1>1, <1>2, <1>3, KillingIsNearer
  <1>4. CASE Loop \/ LoopSample \/ FinishReport
    <2>1. PICK next \in {"loop"} \cup AfterLoop :
              /\ GoesTo(next)
              /\ StagesLeft(next) < StagesLeft(pc) \/ (pc = "drain" /\ next = "drain")
      BY <1>4, NextIsLater
    <2>2. StagesLeft(next) \in Nat /\ StagesLeft(pc) \in Nat
      BY <1>1, <2>1, StagesLeftType DEF GoesTo, SupervisionTypes
    <2> QED
      BY <1>1, <1>2, <2>1, <2>2, OnwardIsNearer DEF GoesTo
  <1> QED
    BY <1>3, <1>4 DEF Supervise

-----------------------------------------------------------------------------
(* The theorems.                                                           *)

\* A result of run_process means what it says: one that reports a violation
\* leaves nobody of the group or job running, and one that does not is complete,
\* of a tree nobody killed and that exceeded no limit after its leader's exit.
THEOREM SupervisionResultsHold == SupervisionSpec => []ResultsHold
  BY SupervisionInvHolds, SupervisionInvProperties, PTL DEF SupervisionSpec

\* Nothing the processes do takes the supervisor back to an earlier stage once
\* the time is up, so that its deadlines lead it to its return.
THEOREM SupervisorWindsDown == SupervisionSpec => [](Remaining \in Nat) /\ WindsDown
  <1>1. SupervisionInv /\ [SupervisionNext]_supVars =>
          [late => /\ Remaining' <= Remaining
                   /\ Supervise => Remaining' < Remaining \/ pc = "drain"]_supVars
    <2> SUFFICES ASSUME SupervisionInv, SupervisionNext, late
                 PROVE  /\ Remaining' <= Remaining
                        /\ Supervise => Remaining' < Remaining \/ pc = "drain"
      OBVIOUS
    <2>1. CASE Supervise
      BY <2>1, StepNearer
    <2>2. CASE ~Supervise
      <3>1. UNCHANGED <<pc, back, terminated>>
        BY <2>2 DEF SupervisionNext, TreeStep, ThreadStep, Clock, control
      <3>2. Remaining' = Remaining
        BY <3>1 DEF Remaining, KillLeft, Place
      <3>3. Remaining \in Nat
        BY RemainingType DEF SupervisionInv
      <3> QED
        BY <2>2, <3>2, <3>3
    <2> QED
      BY <2>1, <2>2 DEF SupervisionNext
  <1>2. SupervisionInv => Remaining \in Nat
    BY RemainingType DEF SupervisionInv
  <1> QED
    BY <1>1, <1>2, SupervisionInvHolds, PTL DEF SupervisionSpec, WindsDown

\* A report that says PASS was earned at every step, a run that began its setup
\* ran every teardown hook before it reported, and no workspace is left but by an
\* exception while it was being filled.
THEOREM TargetSoundHolds == TargetSpec => []TargetSound
  <1>1. TargetInv => TargetSound
    BY DEF TargetInv
  <1> QED
    BY <1>1, TargetInvHolds, PTL

\* Every step of the composition is a step of the supervisor or one of the run.
THEOREM ExecutionImplementsParts ==
    ExecutionSpec => SupervisionInit /\ [][SupervisionNext]_supVars /\ TargetSpec
  <1>1. ExecutionInit => SupervisionInit /\ TargetInit
    BY DEF ExecutionInit
  <1>2. [ExecutionNext]_<<supVars, targetVars, acting>>
          => [SupervisionNext]_supVars /\ [TargetNext]_targetVars
    BY DEF ExecutionNext
  <1> QED
    BY <1>1, <1>2, PTL DEF ExecutionSpec, TargetSpec

\* So in the composition the run checks, results and reports mean what they say.
COROLLARY ExecutionSound == ExecutionSpec => [](ResultsHold /\ TargetSound)
  BY ExecutionImplementsParts, SupervisionInvHolds, SupervisionInvProperties, TargetSoundHolds, PTL
==============
