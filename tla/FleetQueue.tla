----------------------------- MODULE FleetQueue -----------------------------
(***************************************************************************)
(* The durable job queue of the fleet controllers (fleet_queue.py): rows   *)
(* of one SQLite table, and the processes that enqueue, claim, heartbeat,  *)
(* complete, fail and reconcile them.                                      *)
(*                                                                         *)
(* A call is three steps, because the code takes its three inputs at three *)
(* different moments:                                                      *)
(*   Begin...   the caller reads `now` (before it owns the write lock);    *)
(*   Commit...  BEGIN IMMEDIATE ... COMMIT, atomic, using that old `now`;  *)
(*   SaveMirror the projection of the database is rewritten and the call   *)
(*              returns: only now does the caller know its result.         *)
(* Module QueueMirror refines the third step into what it does on disk.    *)
(*                                                                         *)
(* Time is relative: a row keeps the ticks its lease has left (negative    *)
(* once it is over), a waiting call the ticks since it read `now`.  The    *)
(* test `lease_expires_at < now` is then  lease + age < 0.                 *)
(***************************************************************************)
EXTENDS Integers, FiniteSets

CONSTANTS
    Keys,         \* idempotency keys; a key names at most one row
    Clients,      \* processes that call the queue
    Owners,       \* lease owner strings
    OwnerOf,      \* the --owner each client was started with
    Runtimes,     \* exact Windows PowerShell runtime ids
    RuntimeOf,    \* the runtime each job asks for
    Serves,       \* the runtimes each client claims for
    Priority,     \* the priority each job was enqueued with
    MaxAttempts,  \* the max_attempts each job was enqueued with
    LeaseTime,    \* lease_seconds, in ticks
    MaxDelay,     \* most ticks between reading `now` and the transaction
    None          \* SQL NULL

ASSUME QueueAssumption ==
    /\ IsFiniteSet(Keys)
    /\ OwnerOf \in [Clients -> Owners]
    /\ RuntimeOf \in [Keys -> Runtimes]
    /\ Serves \in [Clients -> SUBSET Runtimes]
    /\ Priority \in [Keys -> Int]
    /\ MaxAttempts \in [Keys -> Nat \ {0}]
    /\ LeaseTime \in Nat
    /\ MaxDelay \in Nat
    /\ None \notin Keys \cup Owners

VARIABLES
    jobs,         \* the rows of table jobs, by idempotency key
    call,         \* the call each client is in
    held          \* the claimed job each client is working on

vars == <<jobs, call, held>>

-----------------------------------------------------------------------------
States  == {"ABSENT", "QUEUED", "LEASED", "COMPLETE", "FAILED"}
Settled == {"COMPLETE", "FAILED"}
Finishes == {"complete", "fail", "fail_no_retry"}
Calls   == {"idle", "enqueue", "claim", "heartbeat", "reconcile"} \cup Finishes

\* A lease this far in the past is over for every `now` a call may still use.
LongOver == -(MaxDelay + 1)

\* older: the rows already there when this one's created_at was read.
Row == [state    : States,
        attempts : Nat,
        owner    : Owners \cup {None},
        lease    : LongOver .. LeaseTime,
        older    : SUBSET Keys]

NoRow == [state |-> "ABSENT", attempts |-> 0, owner |-> None, lease |-> 0,
          older |-> {}]

\* key and attempt of a "saving" claim are the result it will return.
Call == [op      : Calls,
         phase   : {"waiting", "saving"},
         key     : Keys \cup {None},
         attempt : Nat,
         age     : 0 .. MaxDelay,
         older   : SUBSET Keys]

Idle == [op |-> "idle", phase |-> "waiting", key |-> None, attempt |-> 0,
         age |-> 0, older |-> {}]

Holding == [key : Keys \cup {None}, attempt : Nat]
NoJob   == [key |-> None, attempt |-> 0]

TypeOK ==
    /\ jobs \in [Keys -> Row]
    /\ call \in [Clients -> Call]
    /\ held \in [Clients -> Holding]

Init ==
    /\ jobs = [k \in Keys |-> NoRow]
    /\ call = [c \in Clients |-> Idle]
    /\ held = [c \in Clients |-> NoJob]

-----------------------------------------------------------------------------
(* What the SQL statements do to a row and to the table.                   *)

Present(j) == {k \in Keys : j[k].state # "ABSENT"}

\* Mutant of Expired: <= for <, and a lease counted as over one tick early.
ExpiredEarly(row, age) == row.state = "LEASED" /\ row.lease + age < 1

\* lease_expires_at < now, for a `now` read age ticks ago.
Expired(row, age) == row.state = "LEASED" /\ row.lease + age < 0

Unleased(row, state) == [row EXCEPT !.state = state, !.owner = None, !.lease = 0]

\* Mutant of HasBudget: an off-by-one.
HasBudgetOffByOne(row, k) == row.attempts <= MaxAttempts[k]

HasBudget(row, k) == row.attempts < MaxAttempts[k]

RetryState(row, k) == IF HasBudget(row, k) THEN "QUEUED" ELSE "FAILED"

ExpiredKeys(j, age) == {k \in Keys : Expired(j[k], age)}

\* Mutant of RequeueExpired: only jobs with attempts left are swept.
RequeueRetriable(j, age) ==
    [k \in Keys |-> IF Expired(j[k], age) /\ HasBudget(j[k], k)
                      THEN Unleased(j[k], "QUEUED")
                      ELSE j[k]]

RequeueExpired(j, age) ==
    [k \in Keys |-> IF Expired(j[k], age)
                      THEN Unleased(j[k], RetryState(j[k], k))
                      ELSE j[k]]

\* Mutant of Ready: failed jobs are claimed again.
ReadyOrFailed(j, c) ==
    {k \in Keys : j[k].state \in {"QUEUED", "FAILED"} /\ RuntimeOf[k] \in Serves[c]}

Ready(j, c) == {k \in Keys : j[k].state = "QUEUED" /\ RuntimeOf[k] \in Serves[c]}

\* ORDER BY priority DESC, created_at ASC: the rows LIMIT 1 may return.
First(j, c) ==
    {k \in Ready(j, c) :
        \A m \in Ready(j, c) :
            \/ Priority[m] < Priority[k]
            \/ Priority[m] = Priority[k] /\ m \notin j[k].older}

\* Mutants of Leased: the attempt is not counted; the lease runs from the
\* wrong side of the wait for the write lock.
LeasedUncounted(row, c, age) ==
    [row EXCEPT !.state = "LEASED", !.owner = OwnerOf[c], !.lease = LeaseTime - age]

LeasedTooLong(row, c, age) ==
    [row EXCEPT !.state = "LEASED", !.attempts = @ + 1,
                !.owner = OwnerOf[c], !.lease = LeaseTime + age]

Leased(row, c, age) ==
    [row EXCEPT !.state = "LEASED", !.attempts = @ + 1,
                !.owner = OwnerOf[c], !.lease = LeaseTime - age]

\* Mutant of Owns: the owner is not compared.
OwnsAnyLease(c, k) ==
    /\ jobs[k].state = "LEASED"
    /\ ~Expired(jobs[k], call[c].age)

\* The check heartbeat and _finish make before they touch the row.
Owns(c, k) ==
    /\ jobs[k].state = "LEASED"
    /\ jobs[k].owner = OwnerOf[c]
    /\ ~Expired(jobs[k], call[c].age)

-----------------------------------------------------------------------------
(* A client starts a call.                                                 *)

Begin(c, op, k) ==
    /\ call[c].op = "idle"
    /\ call' = [call EXCEPT ![c] =
                   [Idle EXCEPT !.op = op, !.key = k,
                                !.older = IF op = "enqueue" THEN Present(jobs)
                                                            ELSE {}]]
    /\ UNCHANGED <<jobs, held>>

BeginEnqueue(c)   == \E k \in Keys : Begin(c, "enqueue", k)
BeginReconcile(c) == Begin(c, "reconcile", None)
BeginClaim(c)     == held[c] = NoJob /\ Begin(c, "claim", None)
BeginHeartbeat(c) == held[c] # NoJob /\ Begin(c, "heartbeat", held[c].key)
BeginFinish(c)    == /\ held[c] # NoJob
                     /\ \E op \in Finishes : Begin(c, op, held[c].key)

-----------------------------------------------------------------------------
(* The transaction of a call.                                              *)

Waiting(c, op) == call[c].op = op /\ call[c].phase = "waiting"

\* The call returns, or raises, without having changed the database.
Return(c) == call' = [call EXCEPT ![c] = Idle]

\* The database changed: _write_mirror runs before the call returns.
Save(c) == call' = [call EXCEPT ![c].phase = "saving", ![c].age = 0,
                                ![c].older = {}]

SaveClaim(c, k, n) ==
    call' = [call EXCEPT ![c] = [Idle EXCEPT !.op = "claim", !.phase = "saving",
                                             !.key = k, !.attempt = n]]

\* An existing key returns its row, or raises if it was bound to another job.
CommitEnqueue(c) ==
    LET k == call[c].key IN
    /\ Waiting(c, "enqueue")
    /\ \/ /\ jobs[k].state # "ABSENT"
          /\ Return(c)
          /\ UNCHANGED jobs
       \/ /\ jobs[k].state = "ABSENT"
          /\ jobs' = [jobs EXCEPT ![k] = [NoRow EXCEPT !.state = "QUEUED",
                                                       !.older = call[c].older]]
          /\ Save(c)
    /\ UNCHANGED held

CommitClaim(c) ==
    LET age == call[c].age
        swept == RequeueExpired(jobs, age)
    IN
    /\ Waiting(c, "claim")
    /\ \/ \E k \in First(swept, c) :
             /\ jobs' = [swept EXCEPT ![k] = Leased(swept[k], c, age)]
             /\ SaveClaim(c, k, swept[k].attempts + 1)
       \/ /\ Ready(swept, c) = {}
          /\ jobs' = swept
          /\ IF ExpiredKeys(jobs, age) = {} THEN Return(c)
                                            ELSE SaveClaim(c, None, 0)
    /\ UNCHANGED held

\* Mutant of CommitHeartbeat: it asks for a shorter lease than claim did.
CommitShortHeartbeat(c) ==
    LET k == call[c].key IN
    /\ Waiting(c, "heartbeat")
    /\ Owns(c, k)
    /\ jobs' = [jobs EXCEPT ![k].lease = LeaseTime - 1 - call[c].age]
    /\ Save(c)
    /\ UNCHANGED held

CommitHeartbeat(c) ==
    LET k == call[c].key IN
    /\ Waiting(c, "heartbeat")
    /\ Owns(c, k)
    /\ jobs' = [jobs EXCEPT ![k].lease = LeaseTime - call[c].age]
    /\ Save(c)
    /\ UNCHANGED held

FinishState(op, row, k) ==
    CASE op = "complete"      -> "COMPLETE"
      [] op = "fail"          -> RetryState(row, k)
      [] op = "fail_no_retry" -> "FAILED"

CommitFinish(c) ==
    LET k == call[c].key IN
    /\ \E op \in Finishes :
          /\ Waiting(c, op)
          /\ jobs' = [jobs EXCEPT ![k] =
                         Unleased(jobs[k], FinishState(op, jobs[k], k))]
    /\ Owns(c, k)
    /\ Save(c)
    /\ UNCHANGED held

\* "Queue lease is not owned by this caller", or it has expired.  A refused
\* heartbeat only ends the heartbeat thread ...
RefuseHeartbeat(c) ==
    /\ Waiting(c, "heartbeat")
    /\ ~Owns(c, call[c].key)
    /\ Return(c)
    /\ UNCHANGED <<jobs, held>>

\* ... and a runner whose complete is refused tries fail, which is refused for
\* the same reason, and gives the job up (LEASE_LOST).
RefuseFinish(c) ==
    /\ \E op \in Finishes : Waiting(c, op)
    /\ ~Owns(c, call[c].key)
    /\ Return(c)
    /\ held' = [held EXCEPT ![c] = NoJob]
    /\ UNCHANGED jobs

CommitReconcile(c) ==
    LET age == call[c].age IN
    /\ Waiting(c, "reconcile")
    /\ jobs' = RequeueExpired(jobs, age)
    /\ IF ExpiredKeys(jobs, age) = {} THEN Return(c) ELSE Save(c)
    /\ UNCHANGED held

-----------------------------------------------------------------------------
(* The end of a call.                                                      *)

\* What the caller works on once it has the result of its call.
HeldAfter(c) ==
    CASE call[c].op = "claim"     -> [key |-> call[c].key,
                                      attempt |-> call[c].attempt]
      [] call[c].op \in Finishes  -> NoJob
      [] OTHER                    -> held[c]

SaveMirror(c) ==
    /\ call[c].phase = "saving"
    /\ held' = [held EXCEPT ![c] = HeldAfter(c)]
    /\ Return(c)
    /\ UNCHANGED jobs

\* _write_mirror raises after the commit (disk full, mirror lock timeout): the
\* caller sees an error for a change that has happened.
SaveFails(c) ==
    /\ call[c].phase = "saving"
    /\ Return(c)
    /\ UNCHANGED <<jobs, held>>

\* "database is locked" after the busy timeout.
LockTimeout(c) ==
    /\ call[c].op # "idle"
    /\ call[c].phase = "waiting"
    /\ call[c].age = MaxDelay
    /\ Return(c)
    /\ UNCHANGED <<jobs, held>>

\* The process dies, and may be started again with the same owner; or
\* execute_leased_job raises where it does not call fail, and the process goes
\* on without the job (no worker can be selected, the journal is unreadable).
Crash(c) ==
    /\ call[c] # Idle \/ held[c] # NoJob
    /\ call' = [call EXCEPT ![c] = Idle]
    /\ held' = [held EXCEPT ![c] = NoJob]
    /\ UNCHANGED jobs

-----------------------------------------------------------------------------
(* Time passes: leases run down, and calls wait for the write lock.        *)

IsWaiting(c) == call[c].op # "idle" /\ call[c].phase = "waiting"

Aged(row) ==
    [row EXCEPT !.lease = IF row.state = "LEASED" /\ @ > LongOver THEN @ - 1
                                                                  ELSE @]

Tick ==
    /\ \A c \in Clients : IsWaiting(c) => call[c].age < MaxDelay
    /\ jobs' = [k \in Keys |-> Aged(jobs[k])]
    /\ call' = [c \in Clients |->
                   IF IsWaiting(c) THEN [call[c] EXCEPT !.age = @ + 1]
                                   ELSE call[c]]
    /\ UNCHANGED held

-----------------------------------------------------------------------------
BeginCall(c) ==
    \/ BeginEnqueue(c)
    \/ BeginReconcile(c)
    \/ BeginClaim(c)
    \/ BeginHeartbeat(c)
    \/ BeginFinish(c)

CommitCall(c) ==
    \/ CommitEnqueue(c)
    \/ CommitClaim(c)
    \/ CommitHeartbeat(c)
    \/ CommitFinish(c)
    \/ CommitReconcile(c)
    \/ RefuseHeartbeat(c)
    \/ RefuseFinish(c)

EndCall(c) ==
    \/ SaveMirror(c)
    \/ SaveFails(c)
    \/ LockTimeout(c)
    \/ Crash(c)

Next ==
    \/ \E c \in Clients : BeginCall(c) \/ CommitCall(c) \/ EndCall(c)
    \/ Tick

Spec == Init /\ [][Next]_vars

(* What the liveness property assumes.  serve_queue polls in an endless     *)
(* loop and is restarted when it dies, every transaction is short, so a    *)
(* caller that keeps asking gets the write lock before the busy timeout,   *)
(* and a managed job ends or is cut off by its timeout.  Nothing is        *)
(* assumed of enqueue, heartbeat and reconcile, and crashes, lock timeouts *)
(* and failed saves may happen for ever.                                   *)
Answer(c) == CommitCall(c) \/ SaveMirror(c) \/ SaveFails(c) \/ LockTimeout(c)

Fairness ==
    /\ SF_vars(Tick)
    /\ \A c \in Clients :
          /\ WF_vars(Answer(c))
          /\ SF_vars(BeginClaim(c))
          /\ SF_vars(CommitClaim(c))
          /\ SF_vars(BeginFinish(c))
          /\ SF_vars(CommitFinish(c) \/ RefuseFinish(c))

LiveSpec == Spec /\ Fairness

-----------------------------------------------------------------------------
(* Properties.                                                             *)

\* The claim a client was given last: it works on it, or is about to be told.
Given(c) ==
    IF call[c].op = "claim" /\ call[c].phase = "saving"
      THEN [key |-> call[c].key, attempt |-> call[c].attempt]
      ELSE held[c]

\* Each process that calls the queue has an owner string of its own.
DistinctOwners == \A c, d \in Clients : OwnerOf[c] = OwnerOf[d] => c = d

\* A job is never attempted more often than its max_attempts, and never waits
\* in the queue with its attempts used up (claim itself does not look at
\* max_attempts: it relies on fail and on the sweep of expired leases).
RetryBudget ==
    \A k \in Keys :
        /\ jobs[k].attempts <= MaxAttempts[k]
        /\ jobs[k].state = "QUEUED" => HasBudget(jobs[k], k)

\* No two controllers are ever given the same attempt of a job, although a
\* lease may expire, be swept and be claimed again while the first one runs.
AttemptGivenOnce ==
    \A c, d \in Clients :
        /\ c # d
        /\ Given(c) # NoJob
        /\ Given(c).key = Given(d).key
        => Given(c).attempt # Given(d).attempt

\* heartbeat, complete and fail are accepted only from the client that was
\* given the current attempt of the job: a controller whose lease expired
\* cannot settle, or keep alive, the attempt of another.  The code keeps no
\* fencing token: it compares the owner string and the expiry.
AcceptedFromHolder ==
    [][\A c \in Clients :
          CommitHeartbeat(c) \/ CommitFinish(c) =>
              held[c] = [key |-> call[c].key,
                         attempt |-> jobs[call[c].key].attempts]]_vars

\* A lease that has not run out is ended only by a call of its owner, however
\* old the `now` of a sweep (claim, reconcile) or of a late call is.
LeaseRespected ==
    [][\A k \in Keys :
          /\ jobs[k].state = "LEASED"
          /\ jobs[k].lease >= 0
          /\ jobs'[k].state # "LEASED" \/ jobs'[k].attempts # jobs[k].attempts
          => \E c \in Clients :
                /\ OwnerOf[c] = jobs[k].owner
                /\ CommitFinish(c)
                /\ call[c].key = k]_vars

\* A heartbeat never shortens the lease it renews, although it counts from a
\* `now` read before it waited for the write lock.
LeaseNeverShortened ==
    [][\A k \in Keys :
          /\ jobs[k].state = "LEASED"
          /\ jobs'[k].state = "LEASED"
          /\ jobs'[k].attempts = jobs[k].attempts
          => Tick \/ jobs'[k].lease >= jobs[k].lease]_vars

\* What the queue promises of each job (see JobLifecycle).
Lifecycle == INSTANCE JobLifecycle
                 WITH status <- [k \in Keys |-> jobs[k].state],
                      tries  <- [k \in Keys |-> jobs[k].attempts]

LifecycleSpec == Lifecycle!Spec

\* A job some controller serves is settled in the end, whatever crashes:
\* leases run out, are swept, and the attempts are used up.
EveryJobSettles ==
    \A k \in Keys :
        (\E c \in Clients : RuntimeOf[k] \in Serves[c]) =>
            (jobs[k].state = "QUEUED" ~> jobs[k].state \in Settled)
=============================================================================
