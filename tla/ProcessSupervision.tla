------------------------- MODULE ProcessSupervision -------------------------
(***************************************************************************)
(* run_process (process.py): how PSMatrix runs every PowerShell command,   *)
(* dependency installer, Pester run and snapshot adapter.  The supervisor  *)
(* polls the leader, two drain threads read its output, a third feeds its  *)
(* input, and the processes of the tree go on forking, writing and exiting *)
(* meanwhile, some of them out of the supervisor's reach.                  *)
(*                                                                         *)
(* A wait with a timeout may end by its timeout at any moment, and a       *)
(* process may exit or go on whatever signal it gets except SIGKILL, which *)
(* it obeys when it next leaves the kernel.  Amounts of output are counted *)
(* in units; a drain thread's read(65536) on a buffered pipe returns only  *)
(* when it has Chunk of them or the pipe has no writer left.               *)
(***************************************************************************)
EXTENDS Naturals, FiniteSets

CONSTANTS Children,      \* processes the command may start
          Leader,        \* the process Popen starts
          Streams,       \* stdout and stderr
          Chunk,         \* what one read of a drain thread waits for
          Limit,         \* max_output_bytes
          MaxProcesses,  \* max_processes
          MaxWritten     \* bound: units the tree writes to a stream

Procs == Children \cup {Leader}

ASSUME SupervisionAssumption ==
    /\ Leader \notin Children /\ IsFiniteSet(Children)
    /\ Chunk \in Nat \ {0} /\ Limit \in Nat \ {0}
    /\ MaxProcesses \in Nat \ {0} /\ MaxWritten \in Nat

VARIABLES
    nt,          \* os.name = "nt": a Job Object instead of a process group
    capped,      \* the caller gave max_processes
    proc,        \* the processes of the tree
    written,     \* units written to each stream
    total,       \* capture.total of each stream
    draining,    \* streams whose drain thread is alive
    feeding,     \* the stdin thread is alive
    full,        \* the workspace is above max_workspace_bytes
    rejected,    \* the Job Object refused a process (nt)
    late,        \* the wall-time limit has passed
    pc,          \* where the supervisor is
    back,        \* where terminate_tree_once returns to
    violation,   \* the reasons joined in `violation'; {} is None
    terminated,  \* containment_terminated
    since        \* limits exceeded ever since the leader exited (history)

given == <<nt, capped>>
tree == <<proc, written, full, rejected>>
threads == <<total, draining, feeding>>
control == <<pc, back, violation, terminated>>
supVars == <<given, tree, threads, late, control, since>>

Alive(p) == proc[p].state = "alive"
Runs(p) == Alive(p) /\ ~proc[p].killed
Members == {p \in Procs : Alive(p) /\ proc[p].inside}
Writers(s) == {p \in Procs : Alive(p) /\ s \in proc[p].holds}
Exceeded == \E s \in Streams : total[s] > Limit
Over == (IF capped /\ Cardinality(Members) > MaxProcesses THEN {"processes"} ELSE {})
        \cup (IF full THEN {"workspace"} ELSE {})

Started == [state |-> "alive", inside |-> TRUE, killed |-> FALSE, holds |-> Streams]

SupervisionInit ==
    /\ nt \in BOOLEAN /\ capped \in BOOLEAN
    /\ proc = [p \in Procs |-> IF p = Leader THEN Started
                                             ELSE [Started EXCEPT !.state = "none", !.holds = {}]]
    /\ written = [s \in Streams |-> 0]
    /\ total = [s \in Streams |-> 0]
    /\ draining = Streams
    /\ feeding \in BOOLEAN
    /\ full = FALSE /\ rejected = FALSE /\ late = FALSE
    /\ pc = "loop" /\ back = "loop"
    /\ violation = {} /\ terminated = FALSE
    /\ since = {}

-----------------------------------------------------------------------------
(* The processes of the tree. *)

\* A child inherits the pipes, the group or job, and may redirect its output.
\* A Job Object at its active-process limit ends the new process and tells.
Fork(p, q) ==
    /\ Runs(p) /\ proc[q].state = "none"
    /\ IF nt /\ capped /\ Cardinality(Members) >= MaxProcesses
       THEN rejected' = TRUE /\ UNCHANGED proc
       ELSE /\ \E keep \in {{}, proc[p].holds} :
                  proc' = [proc EXCEPT ![q] = [Started EXCEPT !.inside = proc[p].inside,
                                                              !.holds = keep]]
            /\ UNCHANGED rejected
    /\ UNCHANGED <<written, full>>

\* setsid: out of the process group; a Job Object keeps its members.
Escape(p) ==
    /\ ~nt /\ Runs(p) /\ p # Leader /\ proc[p].inside
    /\ proc' = [proc EXCEPT ![p].inside = FALSE]
    /\ UNCHANGED <<written, full, rejected>>

WriteOutput(p, s) ==
    /\ Runs(p) /\ s \in proc[p].holds /\ written[s] < MaxWritten
    /\ written' = [written EXCEPT ![s] = @ + 1]
    /\ UNCHANGED <<proc, full, rejected>>

ChangeWorkspace(p) ==
    /\ Runs(p)
    /\ full' = ~full
    /\ UNCHANGED <<proc, written, rejected>>

Exit(p) ==
    /\ Alive(p)
    /\ proc' = [proc EXCEPT ![p].state = "dead", ![p].holds = {}]
    /\ UNCHANGED <<written, full, rejected>>

\* Only the processes themselves change what is exceeded.
History ==
    since' = IF proc'[Leader].state = "alive" THEN {}
             ELSE IF Alive(Leader) THEN Over' ELSE since \cap Over'

TreeStep ==
    /\ pc # "returned"
    /\ \/ \E p \in Procs, q \in Children : Fork(p, q)
       \/ \E p \in Procs : Escape(p) \/ ChangeWorkspace(p) \/ Exit(p)
       \/ \E p \in Procs, s \in Streams : WriteOutput(p, s)
    /\ UNCHANGED <<given, threads, late, control>>
    /\ History

-----------------------------------------------------------------------------
(* The threads of run_process. *)

\* _drain: a whole chunk, counted by _BoundedCapture.append.
DrainChunk(s) ==
    /\ s \in draining /\ written[s] - total[s] >= Chunk
    /\ total' = [total EXCEPT ![s] = @ + Chunk]
    /\ UNCHANGED <<draining, feeding>>

\* _drain: what is left before the end of file, then the end of file.
DrainEnd(s) ==
    /\ s \in draining /\ Writers(s) = {} /\ written[s] - total[s] < Chunk
    /\ total' = [total EXCEPT ![s] = written[s]]
    /\ draining' = draining \ {s}
    /\ UNCHANGED feeding

\* _feed_stdin: the input was read, or nobody is left to read it.
FeedEnd ==
    /\ feeding
    /\ feeding' = FALSE
    /\ UNCHANGED <<total, draining>>

ThreadStep ==
    /\ pc # "returned"
    /\ FeedEnd \/ \E s \in Streams : DrainChunk(s) \/ DrainEnd(s)
    /\ UNCHANGED <<given, tree, late, control, since>>

Clock ==
    /\ pc \in {"loop", "sample"} /\ ~late
    /\ late' = TRUE
    /\ UNCHANGED <<given, tree, threads, control, since>>

-----------------------------------------------------------------------------
(* The supervisor. *)

Proceed(next) == pc' = next /\ UNCHANGED <<back, terminated>>

\* terminate_tree_once, then go on at next.
Terminate(next) ==
    IF terminated
    THEN Proceed(next)
    ELSE pc' = "term" /\ back' = next /\ terminated' = TRUE

\* "if violation is not None: terminate_tree_once()"
Settle(next) == IF violation' # {} THEN Terminate(next) ELSE Proceed(next)

\* What one sample of the process group or job adds to the violation: the
\* count of its members when that is checked by sampling, or else what no
\* count shows, its memory or a failed accounting.  A dead process may still
\* be listed.
Samples ==
    LET counts == {Cardinality(seen) : seen \in
                      {m \in SUBSET {p \in Procs : proc[p].state # "none" /\ proc[p].inside} :
                          Members \subseteq m}}
        counted == {IF ~nt /\ capped /\ n > MaxProcesses THEN {"processes"} ELSE {} : n \in counts}
    IN  counted \cup {{"resources"}}

\* observe_sampled_process_stats
Observe == IF violation = {} THEN violation' \in Samples ELSE UNCHANGED violation

\* observe_windows_process_limit, observe_windows_job_memory_limit
Notices == IF ~nt THEN {{}}
           ELSE {IF rejected THEN {"rejected"} ELSE {}, {"resources"}}

\* The live loop: the leader is gone, the time is up, too much output, or a
\* sample of the workspace and of the processes.
LoopEnds == ~Alive(Leader) /\ Proceed("exited") /\ UNCHANGED violation

LoopTimeout ==
    /\ Alive(Leader) /\ late
    /\ violation' = {"wall"}
    /\ Terminate("exited")

LoopOutput ==
    /\ Alive(Leader) /\ ~late /\ Exceeded
    /\ violation' = {"output"}
    /\ Terminate("exited")

LoopWorkspace ==
    /\ Alive(Leader) /\ ~late /\ ~Exceeded
    /\ violation' = IF full THEN {"workspace"} ELSE {}
    /\ Proceed("sample")

Loop == pc = "loop" /\ (LoopEnds \/ LoopTimeout \/ LoopOutput \/ LoopWorkspace)

LoopSample ==
    /\ pc = "sample"
    /\ \E seen \in IF violation = {} THEN Samples ELSE {{}}, told \in Notices :
          violation' = violation \cup seen \cup told
    /\ IF violation' # {} THEN Terminate("exited") ELSE Proceed("loop")

\* Mutant: a leader that is gone after SIGTERM is taken for its group.
KillTermLeader ==
    /\ pc = "term" /\ ~nt
    /\ Proceed(IF Alive(Leader) THEN "kill" ELSE back)
    /\ UNCHANGED <<violation, proc>>

\* _kill_process_group: SIGTERM to the group, two seconds, SIGKILL; or the
\* termination of the Job Object.
KillTerm ==
    /\ pc = "term" /\ ~nt
    /\ Proceed(IF Members = {} THEN back ELSE "kill")
    /\ UNCHANGED <<violation, proc>>

SigKill == proc' = [p \in Procs |-> IF p \in Members THEN [proc[p] EXCEPT !.killed = TRUE]
                                                     ELSE proc[p]]

KillGroup ==
    /\ pc = "kill"
    /\ SigKill
    /\ Proceed("reap")
    /\ UNCHANGED violation

KillReap ==
    /\ pc = "reap"
    /\ Proceed(back)
    /\ violation' = violation \cup IF Alive(Leader) THEN {"unkilled"} ELSE {}
    /\ UNCHANGED proc

\* WindowsJob.terminate_and_wait; TerminateJobObject may fail.
KillJob ==
    /\ pc = "term" /\ nt
    /\ SigKill \/ UNCHANGED proc
    /\ Proceed("jobwait")
    /\ UNCHANGED violation

KillJobEmpty ==
    /\ pc = "jobwait" /\ Members = {}
    /\ Proceed(back)
    /\ UNCHANGED <<violation, proc>>

\* The job still has members after five seconds, or could not be ended: the
\* fallback is taskkill, which reaches what it can while the leader is there.
KillFallback ==
    /\ pc = "jobwait"
    /\ violation' = violation \cup {"job"}
    /\ \E hit \in SUBSET (IF Alive(Leader) THEN Members ELSE {}) :
          proc' = [p \in Procs |-> IF p \in hit THEN [proc[p] EXCEPT !.killed = TRUE] ELSE proc[p]]
    /\ Proceed("reap")

Kill == KillTerm \/ KillGroup \/ KillReap \/ KillJob \/ KillJobEmpty \/ KillFallback

\* After the loop: wait for a leader that is still there.
AwaitLeader ==
    /\ pc = "exited"
    /\ IF Alive(Leader)
       THEN violation' = violation \cup {"leader"} /\ Terminate("post")
       ELSE UNCHANGED violation /\ Proceed("post")

\* One sample after the leader's exit, then the workspace.
PostSample == pc = "post" /\ Observe /\ Settle("workspace")

PostWorkspace ==
    /\ pc = "workspace"
    /\ IF violation = {} /\ full
       THEN violation' = {"workspace"} /\ Terminate("notices")
       ELSE UNCHANGED violation /\ Proceed("notices")

PostNotices ==
    /\ pc = "notices"
    /\ \E told \in Notices :
          /\ violation' = violation \cup told
          /\ IF told # {} THEN Terminate("drain") ELSE Proceed("drain")

\* The wait for the drain threads, five seconds long.
DrainDone == pc = "drain" /\ draining = {} /\ Proceed("drained") /\ UNCHANGED violation

DrainNotices ==
    /\ pc = "drain" /\ draining # {}
    /\ \E told \in Notices :
          /\ told # {}
          /\ violation' = violation \cup told
    /\ Terminate("drain")

DrainOutput ==
    /\ pc = "drain" /\ draining # {} /\ Exceeded
    /\ violation' = IF violation = {} THEN {"output"} ELSE violation
    /\ Terminate("drain")

\* Mutant: the deadline only counts once something is wrong.
DrainDeadlineOnViolation ==
    /\ pc = "drain" /\ draining # {} /\ violation # {}
    /\ UNCHANGED violation
    /\ Terminate("drained")

DrainDeadline ==
    /\ pc = "drain" /\ draining # {}
    /\ violation' = IF violation = {} THEN {"drain"} ELSE violation
    /\ Terminate("drained")

\* Mutant: no look at the captures once the threads are done.
DrainedUnchecked == pc = "drained" /\ Proceed("join") /\ UNCHANGED violation

Drained ==
    /\ pc = "drained"
    /\ IF violation = {} /\ Exceeded
       THEN violation' = {"output"} /\ Terminate("join")
       ELSE UNCHANGED violation /\ Proceed("join")

\* One more second for each thread.
JoinThreads ==
    /\ pc = "join"
    /\ violation' = violation \cup IF draining # {} THEN {"active"} ELSE {}
    /\ Proceed("last")

LastSample == pc = "last" /\ Observe /\ Settle("stdin")

JoinStdin ==
    /\ pc = "stdin"
    /\ IF feeding
       THEN violation' = violation \cup {"stdin"} /\ Terminate("close")
       ELSE UNCHANGED violation /\ Proceed("close")

LastNotices ==
    /\ pc = "close"
    /\ \E told \in Notices :
          /\ violation' = violation \cup told
          /\ IF told # {} THEN Terminate("return") ELSE Proceed("return")

\* Closing the job's handles may fail; the result is returned.
ReturnResult ==
    /\ pc = "return"
    /\ \/ UNCHANGED violation
       \/ nt /\ violation' = violation \cup {"close"}
    /\ Proceed("returned")

FinishReport == AwaitLeader \/ PostSample \/ PostWorkspace \/ PostNotices
          \/ DrainDone \/ DrainNotices \/ DrainOutput \/ DrainDeadline \/ Drained
          \/ JoinThreads \/ LastSample \/ JoinStdin \/ LastNotices \/ ReturnResult

Supervise ==
    /\ \/ (Loop \/ LoopSample \/ FinishReport) /\ UNCHANGED proc
       \/ Kill
    /\ UNCHANGED <<given, written, full, rejected, threads, late, since>>

SupervisionNext == TreeStep \/ ThreadStep \/ Clock \/ Supervise

\* The supervisor's own thread goes on, time passes and a deadline is met;
\* nothing is promised of the processes or of the other threads.
SupervisionFairness ==
    /\ WF_supVars(Supervise) /\ WF_supVars(Clock)
    /\ WF_supVars(DrainDeadline /\ UNCHANGED <<given, tree, threads, late, since>>)

SupervisionSpec == SupervisionInit /\ [][SupervisionNext]_supVars /\ SupervisionFairness

-----------------------------------------------------------------------------
(* What a result of run_process means. *)

Returned == pc = "returned"

\* A result that reports a violation leaves nobody of the process group or
\* job running: each member is dead or has its SIGKILL, unless ending the job
\* failed, which is reported.  A leader that is still there is reported too.
\* (Closing the job's handles fails after the last termination.)
ViolationContains ==
    Returned /\ violation \notin {{}, {"close"}} =>
        /\ "job" \in violation \/ \A p \in Members : proc[p].killed
        /\ Alive(Leader) => "leader" \in violation

\* A result without a violation is complete: the leader exited, the input was
\* taken, both streams were read to their end and nothing was cut off, and no
\* process of the tree was killed, those that go on included.  Nor was a limit
\* exceeded from the leader's exit on: the samples after it close the gap of a
\* leader that exits before the loop samples anything.
CleanIsComplete ==
    Returned /\ violation = {} =>
        /\ ~Alive(Leader) /\ ~feeding /\ draining = {}
        /\ \A s \in Streams : total[s] = written[s] /\ total[s] <= Limit
        /\ \A p \in Procs : ~proc[p].killed
        /\ since = {}

\* A result means what it says, with a violation and without.
ResultsHold == ViolationContains /\ CleanIsComplete

\* run_process returns, whatever the processes do: ignore SIGTERM, hang in
\* the kernel, leave the group with the pipes in their hands, never read.
AlwaysReturns == <>Returned

=============================================================================
