---------------------------- MODULE ScheduledRun ----------------------------
(***************************************************************************)
(* One `psmatrix test` run, and several of them sharing a checkpoint file  *)
(* and a result cache (src/psmatrix/scheduler.py, src/psmatrix/cache.py).  *)
(*                                                                         *)
(* A run computes the key of every job from the files as they are when it  *)
(* starts, answers what it can from the checkpoint and the cache, hands    *)
(* the rest to a pool of worker processes a few at a time, and saves every *)
(* report under the key of its job.  A worker reads the files when it      *)
(* starts, which is later.  Users edit the files at any time and a run may *)
(* die at any step.                                                        *)
(*                                                                         *)
(* A source is alone in its directory, and a member of Contents stands for *)
(* everything the key is computed from: two sources with the same content  *)
(* have the same key, as the code leaves the path out of it.               *)
(***************************************************************************)
EXTENDS Naturals, FiniteSets

CONSTANTS
    Runs,         \* the processes that run `psmatrix test`
    Sources,      \* the scripts under test
    Contents,     \* what a script may hold; also the keys of the jobs
    Passing,      \* the contents whose test passes
    Modes,        \* [resume, cacheMode, failFast] a run may be given
    PoolSize,     \* --jobs
    MaxEdits      \* bound: edits of the sources in a behaviour

ASSUME ScheduledRunAssumption ==
    /\ IsFiniteSet(Sources) /\ Passing \subseteq Contents
    /\ Modes \subseteq [resume: BOOLEAN,
                        cacheMode: {"auto", "refresh", "off"},
                        failFast: BOOLEAN]
    /\ PoolSize \in Nat \ {0} /\ MaxEdits \in Nat

VARIABLES
    content,      \* the files on disk
    edits,        \* how many edits were made
    cache,        \* the result cache: key -> report
    checkpoint,   \* the checkpoint file: key -> report
    run,          \* per process: phase, mode, memory of the checkpoint, stop
    key,          \* per process and source: the key of its job
    job,          \* per process and source: where its job stands
    report,       \* per process and source: the report it has
    overtaken     \* history: keys of jobs whose source was edited after the
                  \* key was computed and before the worker read it

runVars == <<content, edits, cache, checkpoint, run, key, job, report, overtaken>>

\* A TargetReport: the source it names, the content its worker ran, its status.
Reports == [of: Sources, ran: Contents, status: {"PASS", "FAIL", "FAIL_WORKER"}]
NoReport == [status |-> "none"]
Records == [Contents -> Reports \cup {NoReport}]

Futures == {"submitted", "working", "answered"}
JobStates == {"new", "resumed", "hit", "pending", "executed", "skipped"} \cup Futures

\* The locals of execute_jobs, and CheckpointStore._records.
RunStates == [phase: {"idle", "scan", "wait", "collect", "settle", "done", "dead"},
              mode: Modes, memory: Records, stop: BOOLEAN, batch: SUBSET Sources]

RunTypeOK ==
    /\ content \in [Sources -> Contents]
    /\ edits \in 0..MaxEdits
    /\ cache \in Records /\ checkpoint \in Records
    /\ run \in [Runs -> RunStates]
    /\ key \in [Runs -> [Sources -> Contents]]
    /\ job \in [Runs -> [Sources -> JobStates]]
    /\ report \in [Runs -> [Sources -> Reports \cup {NoReport}]]
    /\ overtaken \subseteq Contents

RunInit ==
    /\ content \in [Sources -> Contents]
    /\ edits = 0
    /\ cache = [c \in Contents |-> NoReport]
    /\ checkpoint = [c \in Contents |-> NoReport]
    /\ run \in [Runs -> {[phase |-> "idle", mode |-> m, memory |-> checkpoint,
                          stop |-> FALSE, batch |-> {}] : m \in Modes}]
    /\ key = [r \in Runs |-> content]
    /\ job = [r \in Runs |-> [s \in Sources |-> "new"]]
    /\ report = [r \in Runs |-> [s \in Sources |-> NoReport]]
    /\ overtaken = {}

-----------------------------------------------------------------------------
JobsIn(r, states) == {s \in Sources : job[r][s] \in states}
Outstanding(r) == JobsIn(r, Futures)
InPhase(r, p) == run[r].phase = p

\* Mutant of Merged: what the process remembers wins over the file.
MergedMemoryFirst(memory, disk, k, v) ==
    [c \in Contents |-> IF c = k THEN v
                        ELSE IF memory[c] # NoReport THEN memory[c] ELSE disk[c]]

\* CheckpointStore.save: what the file holds wins over what this process
\* remembers, and the report being saved wins over both.
Merged(memory, disk, k, v) ==
    [c \in Contents |-> IF c = k THEN v
                        ELSE IF disk[c] # NoReport THEN disk[c] ELSE memory[c]]

SaveReport(r, k, v) == checkpoint' = Merged(run[r].memory, checkpoint, k, v)

\* The command reads the checkpoint, then the files (build_jobs).
StartRun(r) ==
    /\ InPhase(r, "idle")
    /\ run' = [run EXCEPT ![r].phase = "scan", ![r].memory = checkpoint]
    /\ key' = [key EXCEPT ![r] = content]
    /\ UNCHANGED <<content, edits, cache, checkpoint, job, report, overtaken>>

Scanning(r, s) == InPhase(r, "scan") /\ job[r][s] = "new"
Remembered(r, s) ==
    run[r].mode.resume /\ run[r].memory[key[r][s]] # NoReport
Cached(r, s) ==
    run[r].mode.cacheMode = "auto" /\ cache[key[r][s]] # NoReport

ResumeJob(r, s) ==
    /\ Scanning(r, s) /\ Remembered(r, s)
    /\ job' = [job EXCEPT ![r][s] = "resumed"]
    /\ report' = [report EXCEPT ![r][s] = run[r].memory[key[r][s]]]
    /\ UNCHANGED <<content, edits, cache, checkpoint, run, key, overtaken>>

HitJob(r, s) ==
    /\ Scanning(r, s) /\ ~Remembered(r, s) /\ Cached(r, s)
    /\ job' = [job EXCEPT ![r][s] = "hit"]
    /\ report' = [report EXCEPT ![r][s] = cache[key[r][s]]]
    /\ SaveReport(r, key[r][s], cache[key[r][s]])
    /\ run' = [run EXCEPT ![r].memory = checkpoint']
    /\ UNCHANGED <<content, edits, cache, key, overtaken>>

QueueJob(r, s) ==
    /\ Scanning(r, s) /\ ~Remembered(r, s) /\ ~Cached(r, s)
    /\ job' = [job EXCEPT ![r][s] = "pending"]
    /\ UNCHANGED <<content, edits, cache, checkpoint, run, key, report, overtaken>>

\* submit_next, as often as the pool has room: whichever pending jobs come first.
Filled(r, chosen) ==
    LET room == PoolSize - Cardinality(Outstanding(r))
        waiting == JobsIn(r, {"pending"})
    IN  /\ chosen \subseteq waiting
        /\ Cardinality(chosen) = IF room < Cardinality(waiting) THEN room
                                 ELSE Cardinality(waiting)

Submit(r) ==
    \E chosen \in SUBSET Sources :
        /\ Filled(r, chosen)
        /\ job' = [job EXCEPT ![r] = [s \in Sources |->
                      IF s \in chosen THEN "submitted" ELSE job[r][s]]]

FirstBatch(r) ==
    /\ InPhase(r, "scan") /\ JobsIn(r, {"new"}) = {}
    /\ Submit(r)
    /\ run' = [run EXCEPT ![r].phase = "wait"]
    /\ UNCHANGED <<content, edits, cache, checkpoint, key, report, overtaken>>

-----------------------------------------------------------------------------
\* A pool thread takes the job: its worker process reads the files now.
WorkerStart(r, s) ==
    /\ job[r][s] = "submitted"
    /\ job' = [job EXCEPT ![r][s] = "working"]
    /\ report' = [report EXCEPT ![r][s] =
           [of |-> s, ran |-> content[s],
            status |-> IF content[s] \in Passing THEN "PASS" ELSE "FAIL"]]
    /\ UNCHANGED <<content, edits, cache, checkpoint, run, key, overtaken>>

\* It answers, or it times out, exits non-zero or prints something unreadable.
WorkerAnswer(r, s) ==
    /\ job[r][s] = "working"
    /\ job' = [job EXCEPT ![r][s] = "answered"]
    /\ \/ UNCHANGED report
       \/ report' = [report EXCEPT ![r][s].status = "FAIL_WORKER"]
    /\ UNCHANGED <<content, edits, cache, checkpoint, run, key, overtaken>>

\* wait(futures, FIRST_COMPLETED) returns every future that is done by then.
WaitForAny(r) ==
    /\ InPhase(r, "wait") /\ JobsIn(r, {"answered"}) # {}
    /\ run' = [run EXCEPT ![r].phase = "collect", ![r].batch = JobsIn(r, {"answered"})]
    /\ UNCHANGED <<content, edits, cache, checkpoint, key, job, report, overtaken>>

\* Mutant of CacheKey: the key is computed anew from the file.
CacheKeyNow(r, s) == content[s]

CacheKey(r, s) == key[r][s]

\* The report is saved and, if it passed, cached.
Collect(r, s) ==
    LET v == report[r][s] IN
    /\ InPhase(r, "collect") /\ s \in run[r].batch
    /\ job' = [job EXCEPT ![r][s] = "executed"]
    /\ SaveReport(r, key[r][s], v)
    /\ cache' = IF run[r].mode.cacheMode # "off" /\ v.status = "PASS"
                THEN [cache EXCEPT ![CacheKey(r, s)] = v] ELSE cache
    /\ run' = [run EXCEPT
           ![r].memory = checkpoint',
           ![r].batch = @ \ {s},
           ![r].stop = @ \/ (run[r].mode.failFast /\ v.status # "PASS"),
           ![r].phase = IF run[r].batch = {s} THEN "settle" ELSE @]
    /\ UNCHANGED <<content, edits, key, report, overtaken>>

\* After the batch: refill the pool, or give up what has not been started.
Refill(r) ==
    /\ InPhase(r, "settle") /\ ~run[r].stop
    /\ Submit(r)
    /\ run' = [run EXCEPT ![r].phase = "wait"]
    /\ UNCHANGED <<content, edits, cache, checkpoint, key, report, overtaken>>

\* Mutant of Cancellable: a future is given up while its worker runs.
CancellableWorking == {"pending", "submitted", "working"}

Cancellable == {"pending", "submitted"}

GiveUp(r) ==
    /\ InPhase(r, "settle") /\ run[r].stop
    /\ job' = [job EXCEPT ![r] = [s \in Sources |->
                  IF job[r][s] \in Cancellable THEN "skipped" ELSE job[r][s]]]
    /\ run' = [run EXCEPT ![r].phase = "wait"]
    /\ UNCHANGED <<content, edits, cache, checkpoint, key, report, overtaken>>

FinishRun(r) ==
    /\ InPhase(r, "wait") /\ Outstanding(r) = {}
    /\ run' = [run EXCEPT ![r].phase = "done"]
    /\ UNCHANGED <<content, edits, cache, checkpoint, key, job, report, overtaken>>

-----------------------------------------------------------------------------
\* Somebody edits a source.
Edit(s, c) ==
    /\ edits < MaxEdits /\ c # content[s]
    /\ edits' = edits + 1
    /\ content' = [content EXCEPT ![s] = c]
    /\ overtaken' = overtaken \cup
           {key[r][s] : r \in {q \in Runs :
               /\ run[q].phase \in {"scan", "wait", "collect", "settle"}
               /\ job[q][s] \in {"new", "pending", "submitted"}}}
    /\ UNCHANGED <<cache, checkpoint, run, key, job, report>>

\* The process of a run is killed: only the two stores stay.
RunDies(r) ==
    /\ run[r].phase \notin {"idle", "done", "dead"}
    /\ run' = [run EXCEPT ![r] = [@ EXCEPT !.phase = "dead", !.batch = {}, !.stop = FALSE,
                                            !.memory = [c \in Contents |-> NoReport]]]
    /\ job' = [job EXCEPT ![r] = [s \in Sources |-> "new"]]
    /\ report' = [report EXCEPT ![r] = [s \in Sources |-> NoReport]]
    /\ UNCHANGED <<content, edits, cache, checkpoint, key, overtaken>>

JobStep(r, s) ==
    \/ ResumeJob(r, s) \/ HitJob(r, s) \/ QueueJob(r, s)
    \/ WorkerStart(r, s) \/ WorkerAnswer(r, s) \/ Collect(r, s)

RunStep(r) ==
    \/ StartRun(r) \/ FirstBatch(r) \/ WaitForAny(r)
    \/ Refill(r) \/ GiveUp(r) \/ FinishRun(r)

RunNext ==
    \/ \E r \in Runs : RunStep(r) \/ RunDies(r)
    \/ \E r \in Runs, s \in Sources : JobStep(r, s)
    \/ \E s \in Sources, c \in Contents : Edit(s, c)

RunSpec == RunInit /\ [][RunNext]_runVars

-----------------------------------------------------------------------------
(* Properties *)

\* A writer that loaded the checkpoint long ago and saves one report leaves
\* every other record of the file as it is: CheckpointStore.save merges what
\* it remembers under what the file holds, so concurrent shards never lose or
\* revert each other's records.
StaleWritersRevertNothing ==
    [][\A c \in Contents :
          checkpoint[c] # NoReport /\ checkpoint'[c] # checkpoint[c]
          => \E r \in Runs, s \in Sources :
                /\ key[r][s] = c /\ job[r][s] # job'[r][s]
                /\ job'[r][s] \in {"hit", "executed"}]_runVars

\* Every report a run took from the cache or from a worker is in the
\* checkpoint file from then on, whatever other runs save afterwards.
ReportsReachTheCheckpoint ==
    \A r \in Runs, s \in Sources :
        job[r][s] \in {"hit", "executed"} => checkpoint[key[r][s]] # NoReport

\* A finished run accounts for every job: exactly the skipped ones have no
\* report, nothing is left in the pool, and jobs are skipped only when
\* fail-fast met a report of its own workers that is not a PASS.
EveryJobAccounted ==
    \A r \in Runs : InPhase(r, "done") =>
        /\ JobsIn(r, {"new", "pending"} \cup Futures) = {}
        /\ \A s \in Sources : (job[r][s] = "skipped") <=> (report[r][s] = NoReport)
        /\ JobsIn(r, {"skipped"}) # {} =>
              /\ run[r].mode.failFast
              /\ \E s \in JobsIn(r, {"executed"}) : report[r][s].status # "PASS"

\* Both: no report is lost on its way, and no job without one passes for done.
RunsAccountForJobs == ReportsReachTheCheckpoint /\ EveryJobAccounted

\* A cached PASS is a PASS of the content its key was computed from, unless
\* the source was edited after the key was computed and before the worker
\* read it.  ("Cache correctness therefore has to bind the result to that same
\* direct regular-file and directory view", cache.py: nothing compares the
\* view of build_jobs with what the worker read.)
OnlyOvertakenKeysLie ==
    \A c \in Contents : cache[c] # NoReport /\ cache[c].ran # c => c \in overtaken

\* What a test run leaves in its report, its checkpoint and the cache is so.
RunsSound == RunsAccountForJobs /\ OnlyOvertakenKeysLie
=============================================================================
