-------------------------- MODULE RemoteExecution --------------------------
(***************************************************************************)
(* One signed job on its way from a controller to a Windows worker and      *)
(* back: submit_remote_job and its transport retries (remote_worker.py),    *)
(* WorkerService.process on the threads of the worker's HTTPS server, the   *)
(* nonces of ReplayGuard (remote_protocol.py) and the cache of results.     *)
(*                                                                         *)
(* Connections break at any time, a request may reach the worker although   *)
(* its controller has given the attempt up, and the worker may die and      *)
(* start again: the nonces and the cache are on its disk.                   *)
(***************************************************************************)
EXTENDS Integers, FiniteSets

CONSTANTS
    Requests,     \* signed requests, each with a job id and a nonce of its own
    Attempts,     \* transport attempts of one submission (3 in the code)
    Ttl,          \* ticks from issued_at to expires_at
    Skew,         \* _MAX_CLOCK_SKEW_SECONDS, in ticks
    Offsets,      \* how far the worker's clock is ahead of a controller's
    MaxAge,       \* bound: a request does not get older than this
    NoResult,         \* no result
    Unreadable    \* a cache entry that cannot be read

ASSUME RemoteAssumption ==
    /\ Attempts \in Nat \ {0}
    /\ Ttl \in Nat
    /\ Skew \in Nat
    /\ MaxAge \in Nat
    /\ Offsets \subseteq Int

VARIABLES
    age,          \* by the worker's clock, the ticks since issued_at
    controller,   \* where submit_remote_job is for each request
    thread,       \* the worker's thread for each attempt of each request
    nonces,       \* the requests whose nonce is in .replay.sqlite3
    cache,        \* .job-results/<job_id>.json
    executions    \* history: how often the script of each request was started

remoteVars == <<age, controller, thread, nonces, cache, executions>>

-----------------------------------------------------------------------------
\* by: the attempt whose thread signed the result; created: created_at.
Result == [by : 1 .. Attempts, created : Int]
Results == Result \cup {NoResult}

ASSUME NoResultAssumption == NoResult \notin Result

Controller == [state   : {"idle", "waiting", "backoff", "delivered", "failed"},
               attempt : 0 .. Attempts,
               result  : Results]

ThreadSteps == {"none", "sent", "lookup", "verify", "consume", "execute",
                "running", "finish", "reply", "refuse", "gone"}
Thread == [step : ThreadSteps, result : Results]

RemoteTypeOK ==
    /\ age \in [Requests -> Int]
    /\ controller \in [Requests -> Controller]
    /\ thread \in [Requests -> [1 .. Attempts -> Thread]]
    /\ nonces \subseteq Requests
    /\ cache \in [Requests -> Results \cup {Unreadable}]
    /\ executions \in [Requests -> Nat]

RemoteInit ==
    /\ age = [q \in Requests |-> 0]
    /\ controller = [q \in Requests |-> [state |-> "idle", attempt |-> 0,
                                         result |-> NoResult]]
    /\ thread = [q \in Requests |->
                    [n \in 1 .. Attempts |-> [step |-> "none", result |-> NoResult]]]
    /\ nonces = {}
    /\ cache = [q \in Requests |-> NoResult]
    /\ executions = [q \in Requests |-> 0]

-----------------------------------------------------------------------------
(* What the two sides check.                                               *)

\* verify_job_request: neither issued in the future nor expired, give or take
\* the clock skew.
InWindow(q) == age[q] >= -Skew /\ age[q] <= Ttl + Skew

\* verify_job_result, for the time the result was created.
Acceptable(result) == result.created >= -Skew /\ result.created <= Ttl + Skew

\* Mutant of Unexpired: the comparison includes the moment of expiry.
UnexpiredShort == {q \in nonces : age[q] < Ttl}

\* DELETE FROM nonces WHERE expires_at < now keeps these.
Unexpired == {q \in nonces : age[q] <= Ttl}

ThreadAt(q, n, step) == thread[q][n].step = step

Advance(q, n, step) == thread' = [thread EXCEPT ![q][n].step = step]

Reply(q, n, result) ==
    thread' = [thread EXCEPT ![q][n] = [step |-> "reply", result |-> result]]

-----------------------------------------------------------------------------
(* The controller.                                                         *)

Send(q, n) ==
    /\ controller' = [controller EXCEPT ![q].state = "waiting", ![q].attempt = n]
    /\ Advance(q, n, "sent")

\* create_job_request, and the first attempt.
Issue(q) ==
    /\ controller[q].state = "idle"
    /\ \E offset \in Offsets : age' = [age EXCEPT ![q] = offset]
    /\ Send(q, 1)
    /\ UNCHANGED <<nonces, cache, executions>>

MayRetry(q) == controller[q].attempt < Attempts

\* The connection is refused, breaks or times out before there is an answer.
ConnectionFails(q) ==
    /\ controller[q].state = "waiting"
    /\ controller' = [controller EXCEPT ![q].state =
                         IF MayRetry(q) THEN "backoff" ELSE "failed"]
    /\ UNCHANGED <<age, thread, nonces, cache, executions>>

Retry(q) ==
    /\ controller[q].state = "backoff"
    /\ Send(q, controller[q].attempt + 1)
    /\ UNCHANGED <<age, nonces, cache, executions>>

\* HTTP 200: the result is verified once more.
Receive(q) ==
    LET n == controller[q].attempt IN
    /\ controller[q].state = "waiting"
    /\ ThreadAt(q, n, "reply")
    /\ controller' = [controller EXCEPT ![q] =
                         IF Acceptable(thread[q][n].result)
                           THEN [@ EXCEPT !.state = "delivered",
                                          !.result = thread[q][n].result]
                           ELSE [@ EXCEPT !.state = "failed"]]
    /\ Advance(q, n, "gone")
    /\ UNCHANGED <<age, nonces, cache, executions>>

\* HTTP 400 is not retried.
ReceiveRefusal(q) ==
    LET n == controller[q].attempt IN
    /\ controller[q].state = "waiting"
    /\ ThreadAt(q, n, "refuse")
    /\ controller' = [controller EXCEPT ![q].state = "failed"]
    /\ Advance(q, n, "gone")
    /\ UNCHANGED <<age, nonces, cache, executions>>

Submit(q) ==
    \/ Issue(q)
    \/ ConnectionFails(q)
    \/ Retry(q)
    \/ Receive(q)
    \/ ReceiveRefusal(q)

-----------------------------------------------------------------------------
(* The worker: WorkerService.process.                                      *)

Deliver(q, n) ==
    /\ ThreadAt(q, n, "sent")
    /\ Advance(q, n, "lookup")
    /\ UNCHANGED <<age, controller, nonces, cache, executions>>

\* Under results_lock.  An entry that is there is returned or refused: the
\* request may have expired, its artifact may not resolve any more.
Lookup(q, n) ==
    /\ ThreadAt(q, n, "lookup")
    /\ IF cache[q] = NoResult
         THEN Advance(q, n, "verify")
         ELSE \/ Advance(q, n, "refuse")
              \/ /\ cache[q] # Unreadable
                 /\ InWindow(q)
                 /\ Acceptable(cache[q])
                 /\ Reply(q, n, cache[q])
    /\ UNCHANGED <<age, controller, nonces, cache, executions>>

Verify(q, n) ==
    /\ ThreadAt(q, n, "verify")
    /\ Advance(q, n, IF InWindow(q) THEN "consume" ELSE "refuse")
    /\ UNCHANGED <<age, controller, nonces, cache, executions>>

\* One transaction: without the INSERT there is no DELETE either.
Consume(q, n) ==
    /\ ThreadAt(q, n, "consume")
    /\ \/ /\ q \notin Unexpired
          /\ nonces' = Unexpired \cup {q}
          /\ Advance(q, n, "execute")
       \/ Advance(q, n, "refuse") /\ UNCHANGED nonces
    /\ UNCHANGED <<age, controller, cache, executions>>

\* The artifact resolves, and the executor is called.
StartExecution(q, n) ==
    /\ ThreadAt(q, n, "execute")
    /\ Advance(q, n, "running")
    /\ executions' = [executions EXCEPT ![q] = @ + 1]
    /\ UNCHANGED <<age, controller, nonces, cache>>

Sign(q, n) ==
    /\ ThreadAt(q, n, "running")
    /\ thread' = [thread EXCEPT ![q][n] =
                     [step |-> "finish", result |-> [by |-> n, created |-> age[q]]]]
    /\ UNCHANGED <<age, controller, nonces, cache, executions>>

\* After the nonce is used: the artifact does not resolve; the capabilities
\* cannot be read once the script has run.
Abandon(q, n) ==
    /\ ThreadAt(q, n, "execute") \/ ThreadAt(q, n, "running")
    /\ Advance(q, n, "refuse")
    /\ UNCHANGED <<age, controller, nonces, cache, executions>>

\* Mutant of Finish: the cache conflict is not looked for.
FinishOverwrites(q, n) ==
    /\ ThreadAt(q, n, "finish")
    /\ cache' = [cache EXCEPT ![q] = thread[q][n].result]
    /\ Reply(q, n, thread[q][n].result)
    /\ UNCHANGED <<age, controller, nonces, executions>>

\* Under results_lock.  Two results never have the same digest: "Concurrent
\* worker result cache conflict".
FinishExecution(q, n) ==
    /\ ThreadAt(q, n, "finish")
    /\ \/ /\ cache[q] = NoResult
          /\ cache' = [cache EXCEPT ![q] = thread[q][n].result]
          /\ Reply(q, n, thread[q][n].result)
       \/ /\ cache[q] # NoResult
          /\ Advance(q, n, "refuse")
          /\ UNCHANGED cache
    /\ UNCHANGED <<age, controller, nonces, executions>>

\* _write_pinned_json gives the finished temporary file its second name with
\* os.link and only then removes the first.  While both are there, the entry is
\* refused: it must have exactly one hard link.
HalfWritten(q, n) ==
    /\ cache[q] = NoResult
    /\ \E left \in {NoResult, thread[q][n].result, Unreadable} :
          cache' = [cache EXCEPT ![q] = left]

FinishFails(q, n) ==
    /\ ThreadAt(q, n, "finish")
    /\ HalfWritten(q, n)
    /\ Advance(q, n, "refuse")
    /\ UNCHANGED <<age, controller, nonces, executions>>

Process(q, n) ==
    \/ Deliver(q, n)
    \/ Lookup(q, n)
    \/ Verify(q, n)
    \/ Consume(q, n)
    \/ StartExecution(q, n)
    \/ Sign(q, n)
    \/ Abandon(q, n)
    \/ FinishExecution(q, n)
    \/ FinishFails(q, n)

-----------------------------------------------------------------------------
\* The worker dies, perhaps while it writes an entry, and is started again.
Restart ==
    /\ thread' = [q \in Requests |-> [n \in 1 .. Attempts |->
                     IF ThreadAt(q, n, "none") THEN thread[q][n]
                                         ELSE [step |-> "gone", result |-> NoResult]]]
    /\ \/ UNCHANGED cache
       \/ \E q \in Requests : \E n \in 1 .. Attempts :
             ThreadAt(q, n, "finish") /\ HalfWritten(q, n)
    /\ UNCHANGED <<age, controller, nonces, executions>>

Issued(q) == controller[q].state # "idle"

Tick ==
    /\ \E q \in Requests : Issued(q) /\ age[q] < MaxAge
    /\ age' = [q \in Requests |-> IF Issued(q) /\ age[q] < MaxAge THEN age[q] + 1
                                                                  ELSE age[q]]
    /\ UNCHANGED <<controller, thread, nonces, cache, executions>>

RemoteNext ==
    \/ \E q \in Requests :
          Submit(q) \/ \E n \in 1 .. Attempts : Process(q, n)
    \/ Restart
    \/ Tick

RemoteSpec == RemoteInit /\ [][RemoteNext]_remoteVars

-----------------------------------------------------------------------------
(* Properties.                                                             *)

\* Whatever the worker answers to any attempt, and whatever the controller has
\* accepted, is the one result in the cache: executions that overlap, or that
\* a restart cut off, never give two answers to one request.
OneAnswer ==
    \A q \in Requests :
        /\ \A n \in 1 .. Attempts :
              ThreadAt(q, n, "reply") => thread[q][n].result = cache[q]
        /\ controller[q].state = "delivered" => controller[q].result = cache[q]

\* Until a request expires its script is started at most once, whatever is
\* retried, refused, lost or restarted, and whether a result was cached or not.
ExecutedOnceUntilExpiry ==
    \A q \in Requests : age[q] <= Ttl => executions[q] <= 1

\* docs/RECOVERY.md, "Remote execution semantics": "A retry of the same request
\* returns the verified cached result and does not execute the PowerShell
\* script twice."
ExecutedOnce == \A q \in Requests : executions[q] <= 1
=============================================================================
