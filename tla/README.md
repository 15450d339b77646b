# A verification project for PSMatrix

PSMatrix runs PowerShell scripts on exact Windows PowerShell and PowerShell
runtimes: locally, in containers, and on a fleet of Windows machines that one or
more controllers feed from a durable queue. An HTTP server lets a client upload
a project, have it validated and download it, and a body of release scripts
certifies images, collects evidence and publishes releases. This directory holds
TLA+ models of the parts of it in which processes, crashes, clocks and retries
meet, the TLC runs that check them on small instances, and TLAPS proofs of the
most important properties for instances of every size.

- `PROJECT.json` lists the components, the runs, the code lines every definition
  translates (`map`), the hazards of the code and the properties that cover them,
  seeded bugs for every property (`mutants`) and the theorems.
- Paths in this file are relative to the repository; Python modules named
  without a path are in `src/psmatrix/`.

Run a model with `tlc -config MCFleetQueue.cfg MCFleetQueue`, check a proof
with `tlapm FleetQueueProofs.tla`.

## 1. The system

### On a controller

| Component | State | Operations | Hard behaviour | Correct means |
|---|---|---|---|---|
| Durable fleet queue (`fleet_queue.py`) | SQLite tables `jobs` and `meta.generation`; `<queue>.mirror.json` | `enqueue` (idempotent by key), `claim` (sweeps expired leases first), `heartbeat`, `complete`, `fail`, `reconcile` | `now` is read before the write lock is awaited; leases expire under a working controller; no fencing token; the mirror is written after the commit, without a transaction and from a payload that is complete before the mirror lock is taken; processes die anywhere | a job goes through QUEUED, LEASED, COMPLETE/FAILED, starts at most `max_attempts` times, belongs to one controller at a time, and ends; the mirror is truthful |
| Queue recovery (`recovery.py`, `QueueRecovery`) | online backups with manifests, the database, the mirror | `backup`, `restore_latest` (backup in place, mirror replayed, mirror written) | restore dies between its steps and is run again | what was acknowledged and copied survives the loss of the database |
| Recovery journal (`recovery.py`, `RecoveryJournal`) | a hash-chained JSONL file and its lock file | `append`, `repair_torn_tail`, `verify` | a writer dies inside `os.write`; others repair and append | a returned record stays; one chain; readable after any death |
| Queue runner (`queue_runner.py`) | a leased job, a heartbeat thread | `serve_queue`, `run_queue_once`, `execute_leased_job` | lease lost while the job runs; errors before the `try` | every claimed job is settled, swept or given back |
| Fleet registry (`fleet.py`) | one JSON file of worker records under a lock | `enroll`, `transition`, `record_health`, `select` | operators change a worker that is in use | quarantine and revocation hold |
| Managed fleet transaction (`fleet_runner.py`, `snapshot_adapter.py`) | none of its own; the virtual machine | reset, probe, run, reset, record | each step can fail or be the last; two runners may choose one worker | a job runs on a fresh machine and leaves nothing behind |
| Scheduler and checkpoint (`scheduler.py`), result cache (`cache.py`) | checkpoint file, cache directory | parallel execution of a plan, fail-fast, resume | a file edited between the key and the run; a crash between two saves; two runs with one checkpoint | a resumed run repeats what did not run, and nothing else |

### On a worker, a runner or the HTTP host

| Component | State | Operations | Hard behaviour | Correct means |
|---|---|---|---|---|
| Remote submission and worker service (`remote_worker.py`, `remote_protocol.py`) | `.replay.sqlite3` (nonces), `.job-results/` (cache) | submit with retries; verify, consume nonce, execute, sign, cache, reply | attempts given up on but still running; worker restart; clock skew | one answer, one execution |
| Transfer store (`transfer.py` and its hardening modules) | upload sessions, chunks, objects, one lock file | `create`, `put_chunk`, `status`, `finalize`, `resolve`, `purge_expired`, `recovery transfers --repair` | publication by link and unlink; a reader without the lock; death or a failing call between two steps | what was acknowledged stays until it expires; complete means the object is there and whole; what is cut short spreads no further |
| Repair transactions (`repair.py`) | source files, backups, `transaction.json`, the session file | propose, `apply_bundle`, `rollback_transaction`, `apply_and_validate` | files replaced one by one; a write fails; a crash in the middle; the lock is the session's, not the project's | one repairer alone always leaves the last tree that was accepted |
| HTTP sessions and validation (`http_mcp.py`, `http_sessions.py`, `http_artifact_prepare_hardening.py`, `web_validation.py`, `gate.py`) | session table, project directory, receipts, download tokens, validation pool | get, upload, validate, record receipt, prepare, download, terminate, expiry | upload, validation, delivery and termination overlap | only validated sources are delivered; what was terminated stays removed |
| Process supervision (`process.py`, `windows_job.py`) | a process tree, two drains | `run_process` | processes fork, leave the group, fill pipes, hang | it returns; a violation leaves nobody of the group; a clean result is complete |
| Target runs (`runner.py`) | a workspace | `ScriptRunner.run`: stage, set up, execute, tear down, observe, judge | a failure at every step | PASS is earned; teardown follows setup; the workspace goes |
| Runtime, image and module stores (`runtime.py`, `oci.py`, `module_manager.py`) | one directory per package | install, `ensure_locked`, remove, resolve | readers and removals without the lock; staging directories that readers list; a replacement that fails or dies | what install returned is whole |
| HTTP requests and audit log (`http_mcp.py`, `http_audit_log_hardening.py`) | remembered answers, a hash-chained JSONL log under a lock | dispatch, remember, append, verify | duplicates that overlap, answers forgotten, a failed or broken append | one execution per id or key, answered as executed and recorded |
| Gate key and receipt (`gate.py`, `gate_key_hardening.py`, `gate_receipt_hardening.py`) | `hmac.key`, one receipt per project | create or load the key, issue, verify | two first signers; a link that is taken back; receipts that replace each other; no lock | one key signs every receipt that is found |
| Trust store and key pairs (`signing.py` with its hardening modules, `pki.py`) | index and key files; a private file and its public one | `add`, `rotate`, `revoke`, `get`; generate, sign | read, change and replace without a lock; two files published one after the other | what was revoked stays revoked; a signature is by the pair that is there |
| Credentials (`pki.py`, `remote_tls_material_hardening.py`) | certificate, key, CA, `rotation.json` | apply a rotation bundle; load for a start | four files replaced one by one without a lock while others load them | a certificate is used with its own key |

### For a release (`scripts/ga`, `lab_certification.py`, `lab_provisioning.py`)

| Component | State | Operations | Hard behaviour | Correct means |
|---|---|---|---|---|
| Image certification | image manifest, fixture pack, attestations, campaign, matrix | certify N times, verify, campaign, matrix | files read several times while others edit them; two certifiers in one directory | no run counts twice; a campaign is about one image and one pack |
| Release evidence | ledger, API verification, downloads, bindings, closures, attestation | one command each, from run ids to readiness | any command may be run again; GitHub gets new runs and loses artifacts | what is closed is what was verified; one evaluation |
| Windows release signing (`scripts/ga`, rc4 and final) | checkout, artifacts, reports, enrollment, draft, approval, lock, bundle, media, matrix, rebinding | stage, enroll, draft, review, promote, sign, import, rebind | each file is read several times while others replace it; scripts die | what is signed was built, reviewed and locked, and by one authority |
| Release publication | the release, its assets and settings on GitHub | draft, upload, compare, publish, compare, roll back, reconcile | calls that fail after taking effect; death; a second operator | a published release has the planned assets and a truthful record |
| Stale release work | branches and pull requests | list, refuse, re-read, delete, look again, restore, audit | developers push meanwhile | no commit is lost unless someone pushed in between |
| Release closure | receipts | immutable release, documentation, clean-up, scan, final verification | receipts are old when they are read | a closed release is closed on what is still true |

### Components without such state

`mcp_server.py` (stdio, one request at a time), `full_matrix.py` and `verifier.py`
(sequential evaluation of reports), `ga*.py` (checks of signed evidence),
`sandbox.py` (command lines of container tools), `attestation.py` and the
envelopes of `signing.py` (cryptography), `observability.py`, `dependencies.py`, `catalog.py`, the analyses
and exporters, `cli.py`, web tooling. They are pure functions, sequential I/O or
wrappers; none is modelled. The modules named `*_hardening.py`, which
`__init__.py` installs at import, replace operations of the transfer store, the
HTTP server, the gate, the remote worker and TLS loading by
stricter ones: where they replace a modelled operation, the model is of the
replacement, and `map` names its lines.

### How they interact

    serve_queue (one per controller)
      | claim / heartbeat / complete / fail         -> FleetQueue (SQLite, mirror)
      | job-started / job-completed / job-failed    -> RecoveryJournal
      v
    execute_managed_fleet_job
      | select / record_health                      -> FleetRegistry  <- operators
      | restore snapshot before and after           -> the virtual machine
      | upload of the project                       -> TransferStore
      | probe, submit_remote_job (3 attempts, TLS)  -> WorkerService (nonces, cache)
      v                                                    |
    ScriptRunner.run  <------------------------------------+
      | each command                                -> run_process
    QueueRecovery (operator): backup; restore_latest, no controller running

    HTTP client -> requests -> audit log
                     | -> sessions -> upload, validation pool (run_process), gate, delivery
                                                                             | -> gate key
    release operator -> signing -> certification -> evidence -> publication -> clean-up -> closure
    whoever signs or verifies -> key pairs, trust store

## 2. The modules

| Module | Models | Built on |
|---|---|---|
| `JobLifecycle` | what the queue promises of each job: the abstract specification | |
| `FleetQueue` | the queue and its callers | implements `JobLifecycle` |
| `QueueMirror` | generation, mirror, opening the queue | `EXTENDS FleetQueue`, implements it |
| `QueueRecovery` | loss of the database, backup, restore | `EXTENDS QueueMirror` |
| `RecoveryJournal` | the journal | |
| `ScheduledRun` | `execute_jobs`, checkpoint and result cache | |
| `ControllerStores` | the four above side by side | composes them |
| `ManagedFleet` | registry, fleet transaction, operators, machines | |
| `RemoteExecution` | submission, worker threads, nonces, cache | |
| `ManagedJob` | transaction and submission side by side | composes them |
| `RepairTransaction` | the repair of a project tree | |
| `TransferStore` | resumable uploads | |
| `DeliverySession` | one project session of the HTTP server | |
| `PackageStore` | one installed runtime, image or module | |
| `CredentialRotation` | the credentials of a worker | |
| `GateKey` | the key of the delivery gate and a receipt | |
| `TrustStore` | trust index and keys of a home | |
| `KeyPair` | a private key and its public file | |
| `HttpRequests` | requests of one HTTP session and their audit log | |
| `HostStores` | the nine above side by side | composes them |
| `ProcessSupervision` | `run_process` and the processes under it | |
| `TargetRun` | `ScriptRunner.run` | |
| `TargetExecution` | run and supervision side by side | composes them |
| `CertificationCampaign`, `EvidenceChain`, `ReleaseSigning`, `ReleasePublication`, `BranchCleanup`, `ReleaseClosure` | the work on a release | |
| `ReleaseWork` | the six above side by side | composes them |
| `FleetQueueProofs`, `QueueRecoveryProofs`, `ControllerStoresProofs`, `ManagedJobProofs`, `TransferDeliveryProofs`, `TargetExecutionProofs`, `ReleaseWorkProofs`, `HostStoresProofs` | proofs | |
| `MC...` | constants and symmetry sets of the runs | |

**One component moves.** `ControllerStores`, `HostStores`, `ReleaseWork`,
`ManagedJob` and `TargetExecution` put components side by side that share no file
and no lock. What one needs of another (the outcome of a command, of a
submission, of a look at GitHub) it takes as an input and allows for every value.
A behaviour of the composition is then a behaviour of each part with stuttering,
and a property of one part holds of the whole if it holds while that part moves
and the others stay as they started. `moving` (or `acting`) is chosen in `Init`
and never changes, so a run adds up the states of the parts instead of multiplying
them. What this leaves out is any property that relates two parts; none is claimed.

**FleetQueue.** `jobs` is the table, one row per idempotency key; `call[c]` is
the call a controller process is in; `held[c]` is the leased job it works on. A
call is three steps, because the code takes its inputs at three moments:
`Begin...` reads `now` (and, for enqueue, the `created_at` that orders equal
priorities); `Commit...` is the transaction BEGIN IMMEDIATE .. COMMIT and uses
that old `now`; `SaveMirror` is the rest, and the caller knows its result only
then. In between time passes, other controllers commit, the lock times out, the
save fails, the process dies. Time is relative: a row keeps the ticks its lease
has left, a waiting call the ticks since it read `now`, so that no clock grows.
The queue's `expires < now` is then `lease + age < 0`. Leases that are long over
are not counted any further (`LongOver`). `Crash` stands for the death of the
process (a new one may use the same owner string) and for the errors after
which `execute_leased_job` leaves its job LEASED.

**QueueMirror.** Refines the third step: read the generation, read the rows,
replace the file. These are three steps of one process among others, as in the
code. A process also opens the queue before its first call, which compares the
mirror's generation with the database's and rewrites a mirror that is behind.
The mirror file may be deleted or damaged at any time.

**QueueRecovery.** Adds loss of the database, one newest backup, `restore_latest`
in its three steps with interruption between them, and two history variables:
`promised` is what callers were told of each job, by a call that mirrored its
change or by an enqueue that found the key and mirrored nothing
(`AcknowledgeExisting`), and `copied` the part of it that the mirror or the backup
had when it was told or later. Assumed as the documentation has it: the operator
restores a queue that no controller has open.

**RecoveryJournal.** The file is a sequence of lines; a line is the sequence of
pieces written to it and whether a newline ends it. A piece is a whole record
or the beginning of one. A dying writer leaves nothing, a beginning, or all but
the newline. Digests are numbers no two records share: collisions are not
modelled. A write that returns is assumed to be whole.

**ScheduledRun.** A run computes the key of every job from the files as they are
when it starts, answers what it can from checkpoint and cache, hands the rest to a
pool and saves every report under the key of its job. A worker reads the files
when it starts, which is later. `key` and `saw` keep the two apart. Users edit files,
runs overlap, stop at a failure and die at any step.

**ManagedFleet.** `registry` is the file of records; `run[r]` the place of a
queue runner in `execute_managed_fleet_job`; `machine[w]` whose jobs have run on
a machine since it was restored, those of ended transactions being `Remains`.
Each change of the registry is one step, because it is made under the registry
lock and written in one replacement. Nothing locks a worker. `Threshold` is the
`--quarantine-threshold` all commands share.

**RemoteExecution.** `thread[q][n]` is the worker's thread for attempt n of
request q: every read and write of nonces and cache is a step of its own. The
controller may give an attempt up at any time; the worker's thread goes on. The
clocks differ by an offset; `age[q]` is the age of the request by the worker's
clock. The cache entry of a thread that fails or dies in the middle of writing is
absent, whole, or present with two hard links, which readers refuse for ever.
That `Lookup` may refuse covers the checks a cached result can fail.

**TransferStore.** The threads of the worker's HTTP server create sessions, store
chunks and finalize under one lock file; purges run among them, and `recovery
transfers --repair` works on the same directories from another process. A file is
published by linking a temporary file to its name and unlinking the temporary
one: between the two it has two links, and every reader refuses such a file.
Readers and the repair take no lock. What a caller was told is kept in a history
variable, which the acknowledgement property compares with the directories.
Each step that writes may fail while the server lives (`Fail...`): what follows tries
to remove what it made, or, as the comments of the create and of the purge say,
deliberately leaves it. `cutShort` remembers on which session a call died or
failed and could not clean up.

**RepairTransaction.** An attempt takes the lock of its session file, replays the
bundle against the tree while it backs the files up, replaces them one by one,
writes `transaction.json`, runs the validation, rolls back unless it passed, and
appends itself to the session. The lock belongs to the session file, not to the
project: two sessions may work on one tree, and properties of a tree are stated for
attempts that were alone and for sessions that do not overlap.

**DeliverySession.** A handler of the HTTP server looks its session up once and
then works on the project directory. The store's lock is held for a lookup, for
an upload and for a termination; validation jobs, receipts, gates and downloads
take none. The stages of a validation, the receipt and the gate each read the
source when they get to it.

**PackageStore.** One package, its directory abstracted to three files: metadata,
entry point and one file for the rest. Installers take a file lock, prepare a
staging directory, remove the old directory file by file and rename the staging
directory into place. Readers and removals take no lock, each change may fail, and
installers die. A runtime is read at its path alone. The modules of a name are listed
with `glob("*")`, which matches the staging directories too, and their names sort
first: `staged` has the files of each from the moment its metadata is written, and
`FindModule` takes any of them before the module's own directory. A failed
installer removes its staging directory file by file (`DiscardFile`), a dead one
leaves it to be found.

**CredentialRotation.** A bundle is verified as a whole and then written over the
destination file after file, `rotation.json` last, while a worker or controller
that starts copies the same files one after another.

**GateKey.** A first signer writes the key to a temporary file, links it to its name
and takes the link back when what follows fails; between link and unlink readers
refuse the file. A receipt is written, put into its place and looked at again by a
process that removes what it does not recognise.

**TrustStore.** A command reads the index or the key file, computes and replaces; then
it looks whether its own file is there and removes another one. No lock is held.

**KeyPair.** Generators look for both files, make both and publish one after the other;
signers read the private file, then the public one.

**HttpRequests.** A thread takes a request, looks its id or key up under the session's
lock, executes without it, remembers the answer under it again, and appends to the
log; the answer is sent last. Memory is bounded and forgets the oldest.

**ProcessSupervision.** The supervisor polls the leader, two drain threads read
its output, a third feeds its input, and the processes of the tree go on forking,
writing and exiting, some of them out of the supervisor's reach. A wait with a
timeout may end by its timeout at any moment; a process may do what it likes with
any signal except SIGKILL, which it obeys when it next leaves the kernel.

**TargetRun.** One script on one runtime, from the resolution of its inputs to the
status of its report. Every command ends with an exit code, a limit or a timeout:
the outcomes `ProcessSupervision` allows.

**CertificationCampaign.** Each run sends the fixture pack to the worker, checks the
signed result and writes an attestation; a campaign attests to the runs; a matrix
to the campaign. Most of the files are read several times, and another certifier
or a developer may replace them between any two reads.

**EvidenceChain.** A ledger names one workflow run per gate, the API verifies
them, their artifacts are downloaded and bound to the verdict of the gate's
verifier, the bindings are closed, the evaluator is dispatched and its
attestation is checked against the closure. Every step is a command of its own
and reads files of earlier generations; a command is one action, except the
binder and the dispatch, which look twice at what others may change.

**ReleaseSigning.** `onDisk` has the eighteen files the scripts leave for each other,
`script` the one under way and what it has read. A script reads a file at the step
that names it, often twice; others may replace a file before any step. A
replacement between a file's last comparison and its use is noted in `unnoticed`,
and the properties except exactly those. Others replace one file, `MaxReplaced` times.

**ReleasePublication.** Each step is one call of `gh`, which may fail, also after it
has taken effect. What fails before the publication is rolled back, what fails
after it is reconciled. A second operator may run the same plan.

**BranchCleanup.** A cleaner lists branches and pull requests, notes the commit of
every stale branch, reads each again, deletes, looks again and writes its audit;
when something fails it creates the branches again at the commits it noted.

**ReleaseClosure.** Each receipt is a look at GitHub or the checkout at some
moment; the final verification reads the receipts and looks at everything again,
one fact after the other.

## 3. The runs

| Run | Instance | Shows |
|---|---|---|
| `fleet_queue` | 2 controllers, 2 jobs (2 attempts and 1), lease 1, delay 1; 336,000 states | types, the retry budget, one controller per attempt, leases respected and never shortened, `JobLifecycle` implemented |
| `fleet_queue_live` | the same with 1 job; 9,400 states | every job settles |
| `controller_stores` | queue: 1 job, 4 generations, lease and delay 0, one controller with losses and restores, two without; journal: 3 processes, 4 records; 2 test runs of 2 sources, 1 edit; 449,000 states | the mirror is truthful and mirroring refines the queue; what was acknowledged and copied survives; journal records stay and form one chain; runs lose no report and revert none |
| `queue_recovery_retry` | 1 controller, losses and restores | *violation*: a retry is acknowledged, no copy has the job |
| `queue_recovery_race` | 2 controllers, losses and restores | *violation*: the older of two mirrors is written last |
| `host_stores` | 2 users of each store; repair: 2 sessions, 2 files, 2 versions, 1 fault; transfer: 2 threads, 2 sessions, 1 chunk, 1 failing call or crash; delivery: 2 handlers, 1 validation; packages: 2 archives, 3 calls, 1 failing change or crash; credentials: 2 bundles, 2 appliers with 3 calls together, 1 crash; trust: 2 processes with 3 commands together, 1 death; gate and key pairs: 2 processes with 2 calls each, 1 death; HTTP: 2 threads, 2 keys, 2 bodies, 3 requests, 1 answer remembered, 1 handled at once, 1 trouble; 842,000 states | repairs leave the last accepted tree; uploads stay, complete means whole, and only what failed or died is half done; only validated sources are delivered, but for named races; terminated stays removed; packages, credentials, key pairs and the trust store are torn only by named failures, deaths and overlaps; one gate key signs every receipt; an answer is that of one execution and in the audit log |
| `delivery_unvalidated` | 2 validations | *violation*: a source is ready for delivery that no stage ran |
| `release_work` | 2 certifiers, 2 iterations, 1 edit; 2 gates, 3 runs, 2 rewrites; signing: 1 replacement; 2 operators, 1 asset, 1 trouble; 2 cleaners, 2 branches, 1 upset; 2 heads, 1 change; 725,000 states | campaigns count no run twice; evidence is closed and evaluated as one verification found it; what is signed was built, reviewed and locked, but for named replacements; releases and branches are what the receipts say; closed is true |
| `managed_job` | 2 runners, 2 workers (one shared, one not), threshold 2; 1 request, 3 attempts, life 2, skew 1, clock right or 2 behind; 1,040,000 states | quarantine, revocation and isolation; one answer; one execution until expiry |
| `managed_fleet_quarantine` | 1 runner, 1 worker, threshold 3 | *violation*: passed probes hide failing jobs |
| `remote_execution_twice` | 1 request, 3 attempts | *violation*: executed twice inside the clock skew |
| `target_execution` | a leader and 1 child, 1 stream, limits of 1; 1 target run, 1 hook; 1,352,000 states | `run_process` returns, and what it reports is so; PASS is earned and the workspace goes |

**Why the bounds are enough.** Leases and stale clocks need a lease that can run
out while a call waits: one tick of each. Exclusion needs two controllers, the
budget a job with a retry and one without, and the sweep inside a claim a second
job. Four generations let an enqueue, a claim and a completion lie before and
behind a restore, and let a mirror be two generations behind and still be replaced.
The queue moves twice in `controller_stores`: as "queue" it can be lost and
restored and only `Recovering`, one controller, works, because with two the
property of what is copied is the one `queue_recovery_race` refutes; as "mirror" both
work and nothing is lost. A torn tail, its repair and two appends need four
records, and a third process one that waits meanwhile. The fleet needs a worker
shared by two runners and one that is not. Three attempts are those of the code;
requests do not influence each other except through `DELETE FROM nonces`, and the
proofs, which bound nothing, cover any number. Every store of `HostStores` and every
task of `ReleaseWork` has two users, since each hazard there is one user between two
steps of another, and two things, since replacing and sharing need an old one and a
new one; one death or failing
call, because after it the other user meets what it left. Three calls on a package are
an installed module, a forced reinstall of another archive and the run that meets it;
that no number of calls does more is the theorem's to say. With
one validation `OnlyRacesDeliverUnvalidated` sees an upload during and after it;
two overlapping ones are in `delivery_unvalidated`, and the theorem covers any number.
The supervision needs a child that is inside or outside the group when the leader
exits, a stream with more output than one read returns, and limits that one
process more exceeds; one child is what a liveness check of a few hundred thousand
states allows, and the theorems are about any number of children. No run uses a state constraint: all bounds are guards
(`MaxGeneration`, `MaxRecords`, `MaxFaults`, `MaxEdits`, ...) or cap a counter where
it does not matter any more (`LongOver`, `OneMore`).

Three replacements of a file are more than a second run of `release_work` would need:
the hazards of `ReleaseSigning` are one replacement between two readings, and the
theorem covers any number. Of the conjunctions `FilesSound`, `CredentialsSound`,
`ServersSound` and `ReleaseSound` each part has a seeded bug of its own.

**Names.** The cfg of a run that refutes a document is named for what it refutes:
`MCManagedJobQuarantine.cfg` and `MCManagedJobTwice.cfg` instantiate `MCManagedJob`,
`MCQueueRecoveryRetry.cfg` and `MCQueueRecoveryRace.cfg` `MCQueueRecovery`, and
`DeliverySessionUnvalidated.cfg` the module `DeliverySession`.

**Symmetry** is used for actors and things that differ in nothing but their name, and
in no run with liveness. One set of symmetric values stands for the users of every
store of a composition.

**Deadlock** is checked in the runs of the queue. The others model work that ends (a call returns, a bounded number of
runs, calls and edits has been made), and stop there.

**Fairness.** For `EveryJobSettles`: `serve_queue` is an endless loop that
is restarted when it dies, so a controller that can claim again and again does;
a caller that asks again and again gets the write lock before its busy timeout
(SQLite waits up to 30 s for transactions of milliseconds); a managed job ends or
is cut off by its timeout, so a holder again and again comes to finish; time
passes. These are strong fairness of single steps, since a crash may interrupt
each of them. Nothing is assumed of enqueue, heartbeat and reconcile, and crashes,
lock timeouts and failed saves may go on for ever: each lost attempt uses one up.
For `CommandReturns`: the supervisor's own thread is scheduled, the clock reaches the
time limit and the drain deadline. Nothing is assumed of the processes, which may
hang, fork and hold pipes for ever, nor of the drain threads.

## 4. Where code and documents disagree

Five disagreements are runs that TLC must find violated:

1. **A retry is acknowledged without a mirror** (`fleet_queue.py:178`).
   `docs/RECOVERY.md:45-49` says each acknowledged change is in the mirror when
   the call returns, and survives the loss of the database. An enqueue whose mirror
   cannot be written raises, although the job is in the database; its retry finds the
   key and returns the job, and writes no mirror. One controller is enough: if the
   database is lost before any other copy is made, the job is gone
   (`AcknowledgedJobsPreserved`). What remains true is `CopiedJobsPreserved`: what
   was acknowledged and a copy had is not lost.
2. **Mirrors may be written in the wrong order** (`fleet_queue.py:117`). With two
   controllers not even that: an older payload may replace a newer mirror; if the
   database is then lost, a job whose enqueue had mirrored it and returned is gone.
3. **Failing jobs do not add up** (`fleet_runner.py:75`).
   `docs/REMOTE_WORKERS.md:76` says repeated job failures quarantine a worker. Each
   job's own passed probe sets the counter to 0.
4. **Executed twice** (`remote_protocol.py:502`). `docs/RECOVERY.md:76-78` says a
   retry never executes the script twice. Between `expires_at` and the end of the
   clock skew the nonce is gone but the request is accepted.
5. **Delivered without validation** (`gate_source_identity_hardening.py:256`).
   `docs/MCP.md:39-40` says completion needs the current source bytes to pass. An
   upload between the last stage and the gate gets a gate of its own.

4 was also reproduced with the Python classes themselves, and so was the glued
journal record below.

Others are the named exceptions of properties that hold: the property says that
nothing else goes wrong, and a mutant of the exception would be found.

- A journal record that lost only its newline counts as whole, the next append is
  glued to it and the journal is malformed (`JournalSound`; `docs/RECOVERY.md:34-36`).
- After an output overflow descendants that called `setsid` survive (`ResultsHold`;
  `docs/RECOVERY.md:87`).
- A module is removed before the new one is renamed into place, and its readers list
  the staging directories of installers at work, failed or dead before the module
  itself: a search may lose what it found, and the leftover of another archive
  shadows the right module, which is refused for its hash (`FilesSound`;
  `SECURITY.md:12`); and credentials are replaced file after file
  (`CredentialsSound`, part
  `OnlyOverlapsMixFiles`; `SECURITY.md:139`).
- Error records are not seen when the script ends its own process (`TargetSound`;
  `README.md:109-111`).
- A transfer session whose chunk was linked by a call that died, or failed to unlink it,
  is refused by every reader until a repair; a create that failed may leave a session
  without its manifest, and a purge that failed its renamed directory
  (`OnlyCutWorkIsHalfDone`; `docs/RECOVERY.md:64-67`).

- Two overlapping trust commands delete or revert the index (`CredentialsSound`, part
  `RevocationsHold`; `SECURITY.md:140`); two generators leave half a pair each
  (`PairsMatch`).
- A gate key is taken back after another signer has used it, and a receipt removed by
  the loser of a race (`ServersSound`, parts `GateSound` and `KeysHold`).
- Two overlapping requests with one key and different bodies are both executed
  (`ServersSound`, part `AnsweredIsRecorded`; `SECURITY.md:224` says that keys cannot be
  reused with different content). A `PUT` with the key and the bytes of another but
  another path is answered with the first path.
- A campaign that is replaced between the two verifications of a matrix by a third
  certifier's gets past both (`CertificationSound`): `verify_campaign_attestation`
  hashes the rows and then reads them again. The proof found this; with two
  certifiers, as in the run, it cannot happen.
- Signing (`ReleaseSound`, part `SignedAsReviewed`): a draft is parsed before it is
  hashed; artifacts are hashed, read again for the manifest, and then only their names
  are compared with the lock; a bundle is verified and then copied; a checkout is
  looked at once before two builds; the final draft compares the enrollment only with
  itself; the rebinding verifies the final release with the key beside it and never
  reads the lock.

Seen while reading and modelled as the code has it, or outside the model where it
concerns calls that never get anywhere:

- A retry that arrives while the first attempt still runs is refused for good (HTTP
  400, `remote_worker.py:895`). A failed probe counts as two failures.
- `remote_result_cache_hardening.py:292` opens its temporary file write-only and reads
  it back at 340: on POSIX the cache is never written (`FinishFails`). Windows
  workers do not use that path.
- `os.replace not in os.supports_dir_fd` is true on every POSIX Python, so
  `transfer_session_hardening.py:91`, `transfer_session_purge_hardening.py:36` and
  `transfer_finalize_read_hardening.py:256` refuse to work there; the model is of
  the platforms on which they do.
- `http_audit_log_hardening.py` writes records with `ensure_ascii=False` and verifies
  with `str.splitlines()`: a detail with U+0085, U+2028 or U+2029 makes the log invalid.
  A death in the middle of an append leaves an incomplete record, after which every
  append and so every request of the session is refused.
- `http_mcp.py:533-535` remembers a response before it is audited: a retry after a failed
  audit is answered and never audited. A duplicate request id can pass
  `http_mcp.py:714`. A delivery token may name a file no gate covers
  (`http_artifact_prepare_hardening.py:57`).
- `build_release_closure_from_attestation_operation.py:213` calls `builder.build`
  without two required keyword arguments: the command ends in a `TypeError`.
- Nothing binds the attestation's provenance and the evaluator's inputs to the runs
  the content closure lists (`verify_final_ga_attestation_bundle.py:174-246`,
  `build_release_closure_readiness.py:217-330`); `EvidenceSound` names what may
  therefore differ. The dispatch checks the ref and then dispatches by name; when
  its answer is lost, it may be dispatched twice.
- Certification hashes the fixture pack and reads it again, parses a manifest and then
  hashes it, and reads each attestation three times (`CertificationSound`). The final
  closure looks at each fact once, one after the other (`ClosedIsTrue`).
- A final lock says `legacy_rc4_campaign_rebind_allowed: false` and
  `fresh_final_windows_certification_required: true`; the rebinding reuses rc4 campaigns.
- Terminating a session whose audit log is damaged writes the terminated record and may
  raise before the trees are removed. A failed append ends the log.
- `recovery.py:119` takes a short write for a whole one. The workspace of a job id is
  never removed: a second execution (4 above) starts only if the workspace is gone, as
  after a snapshot is restored.


## 5. What is proved

All proofs hold for every value of the constants under the `ASSUME` of the
module: any finite set of keys, any controllers, priorities, attempts, lease times
and delays; any requests, attempts, offsets and skews; any workers, runners, labels and
quarantine threshold; any threads, transfers and chunks; any sources, handlers and
validations; any journal writers and test runs; any repair attempts, users of packages, appliers,
makers, admins, signers and HTTP requests; any processes, streams, output limits and hooks of a
target run; any certifiers, gates, operators, cleaners and
replaced files. They use SMT and Zenon for steps, PTL for the temporal conclusions.

**FleetQueueProofs.** `TypeCorrect`; `RetryBudgetHolds`; `ImplementsLifecycle`;
`AttemptGivenOnceHolds`; `AcceptedFromHolderHolds`; `LeaseRespectedHolds`;
`LeaseNeverShortenedHolds`; `EveryJobWindsDown`. None of the invariants is inductive by itself:

- `CallInv` says how the parts of a pending call hang together: which calls have a
  key, that a heartbeat or a finish is about the held job, that a claiming
  controller holds none. `RowStep` and `GivenStep` say once what any step may do to
  a row and to what a controller was given, and most proofs only use those two.
- `RetryBudget` and `ImplementsLifecycle` use `Shape`: the types, `CallInv`, and that
  a row that is not there was never tried.
- `Fence` carries the two theorems about exclusion. Its part `GivenInv`: what a
  controller was given is never ahead of the row, and while a leased row names the
  controller as its owner, it is the row's current attempt. Hence a matching owner
  string on a leased row implies the current attempt, although there is no fencing
  token. This needs `DistinctOwners`, which `docs/REMOTE_WORKERS.md` asks of
  operators and the code does not enforce: the theorems state it as an assumption.
- `EveryJobWindsDown` is the safety half of `EveryJobSettles`: `ChangesLeft` counts how
  often a job can still change hands. Every change lowers it, sweeps, retries and crashed
  claims included, and it is 0 exactly when the job is settled.
- `HeartbeatInv`: while the owner of a leased job waits with a heartbeat, the lease
  is at most what that heartbeat will ask for, since nobody else can renew it.

**QueueRecoveryProofs.** `MirrorImplementsQueue` maps every step of the mirrored
queue to a step of FleetQueue or a stutter, so `MirroredRetryBudget` needs no new
argument. `MirrorHonestHolds` rests on `PayloadHonest`: a payload never carries a
generation ahead of the database, and one of the current generation holds the
current rows; the generation grows with each commit that changes a row.
For loss and restore `RecoveryInv` adds to that where the callers are while the database
is gone (`AllInPlace`), that nobody works during a restore (`RestoreAlone`), and which
of database, mirror and backup is exact at which step of it (`CopiesInv`); hence
`CopiesHonestHolds` and `ServedAsQueueHolds`, with any number of controllers.
`CopiedJobsPreservedHolds` is about one controller, its assumption: `SoleInv(c)`
says that what it reads is current, that what it tells its caller is so, and that
every copy a restore could use keeps what was told and copied. With two controllers this
is false, as `queue_recovery_race` shows; and of what no copy had nothing can be proved,
as `queue_recovery_retry` shows. `ControllerKeepsCopied` is the same of the composition.

**ControllerStoresProofs.** `JournalSoundHolds` rests on `JournalInv`: who holds the lock
(`LockHeld`), that the lines are one chain up to a glued or cut one (`Chained`), what a
process that has read the file knows of it (`Informed`), and that returned records are
in it. `RunsSoundHolds` rests on `RunInv`: of each run how its phases, reports, skips
and keys hang together, and that a key lies only if an edit overtook it.
`StaleWritersRevertNothingHolds` is an action property of one step of a save.
`ControllerImplementsStores` lifts both to the composition; for the queue, which moves
in two ways there, `FilesInv` joins `RecoveryInv` for the one and honesty without any
loss for the other.

**ManagedJobProofs**, for a job between the controller and its worker.

- The managed fleet. `TypeCorrect` carries along `RunInv`: a runner only uses a
  worker its labels match. `ActiveBelowThresholdHolds` and
  `OnlyOperatorsReadmitHolds` rest on one lemma, `StepRecords`: a runner or a probe
  may only record health, and not of a revoked worker. `NothingLeftBehindHolds`
  combines `StepElsewhere` (what a step of one runner does to another's run and
  machine) with `Arrived` (which action brings a runner to which step); it needs
  `RemainsAssumption`, that the mark of forgotten jobs is no runner. `RanAloneHolds`
  rests on `FreshInv`: from the reset to the submission the machine of a worker no
  other runner shares is empty, and then it holds the job of its runner at most.
- The remote execution. `RemoteTypeCorrect` needs that a submission in backoff has
  attempts left. `OneAnswerHolds` rests on `AnswerInv`: a result in the cache is
  never replaced, and a thread only replies with what is there. For
  `ExecutedOnceUntilExpiryHolds`, `Once` says that while a request has not expired
  its nonce stays, that only one thread can be past it, and that it is there before
  anything was executed.
- Both side by side, as the run `managed_job` checks them: `JobImplementsParts`, and
  from it `JobInvariants` and `JobSteps`, all properties of that run.

**TransferDeliveryProofs**, for what the HTTP server takes in and gives out.

- The upload store. The lock gives the shape of the argument: who holds it, and
  what the files look like while somebody is between a link and an unlink. From it
  follow `CompletionFollowsTheObjectHolds` (a session is complete only when its object
  is there, whole and readable), `OneActiveSessionHolds`,
  `AcknowledgedUploadsStayHolds` (what a caller was told stays, with its bytes, until
  it expires or the repair takes it) and `OnlyCutWorkIsHalfDoneHolds`, which rests on
  `HalfInv`: each session nothing was cut short on is whole but for what the thread
  with the lock is doing to it at the moment (`BeingDone`).
- The project sessions. `TerminatedStaysRemovedHolds` says who may write into a
  removed project: a validation or a receipt that was under way.
  `OnlyRacesDeliverUnvalidatedHolds` follows the bytes from the stages through receipt
  and gate to the download: they differ only if an upload came in between, which is
  recorded when it happens.

**TargetExecutionProofs**, for the results of `run_process` and the reports of
`ScriptRunner.run`.

- `SupervisionResultsHold` rests on `SupervisionInv`, which says what the supervisor has
  seen to at each of its steps. What is "before" or "after" is said of `Place`, the step it
  is at or will go back to once the tree is ended, since the tree may be ended from many of
  them. The tree is ended for a reason, and every reason found ends it (`Reasoned`); whoever
  was a member when it was ended was killed (`Contained`), nobody without a reason
  (`NoneKilled`); a leader that outlives its wait is reported (`LeaderSeen`). A drain thread
  ends only when there is nothing left to read and nobody to write (`DrainedDry`), so a
  result without a violation has all of the output (`OutputSeen`). For the limit on
  processes: a Job Object never has more members than that (`JobLimited`, which counts a
  finite set), and without one a limit exceeded since the leader's exit is exceeded still
  and met by one of the samples after it (`ExcessSeen`).
- `SupervisorWindsDown` is the safety half of `CommandReturns`: `Remaining` measures what the
  supervisor has before it. Once its time is up (`late`), no process, drain thread or
  writer makes it more, and every step of the supervisor makes it less, except a look
  at drain threads that still run; what ends that wait is time, and so fairness.
- `TargetSoundHolds` rests on `TargetInv`: what stands between the start and the script was
  passed one by one, so that a script runs only after a whole set-up (`PathFits`), and the
  verdict is of what ran and is changed by nothing but a failed teardown (`Judged`).
- `ExecutionImplementsParts` and `ExecutionSound` lift both to the composition the run
  `target_execution` checks. TLC checked `SupervisionInv` and `TargetInv` on that run's
  constants before they were proved.

**ReleaseWorkProofs.** One inductive invariant per task, and the composition, in which
one task moves and the others stay, implements each (`ReleaseImplementsTasks`), so that
the properties the run checks are theorems about it. The invariants say what an actor
knows and why it may rely on it:

- `ClosureInv`: what the final verification has seen is so, or that aspect of the world
  changed after the look (`LooksHold`).
- `CleanupInv`: a cleaner's plan names a commit for every branch it deleted or failed to
  restore, and for every branch it has yet to delete what it read last (`CleanerFits`).
- `PublicationInv`: what is published and immutable changes no more but by a rollback,
  which is remembered (`Verified`); an operator nobody disturbs knows at each step what
  drafts, releases and settings there are (`Calm`). That it was alone all the time is
  part of it, since a gh call that fails may have taken effect.
- `EvidenceInv`: rows the API verified stay runs of their gates although runs are added
  and expire (`VerifiedThere`); what is derived is of such rows (`DerivedVerified`); what
  is bound was judged (`Judged`); and what was written before the ledger was replaced
  agrees with it (`OneLedger`). It needs that there are no more gates than runs.
- `CertificationInv`: each job has one attestation and each attestation one job
  (`OneEach`), what a certifier holds is something that was written
  (`KnowledgeAgrees`), and what it holds while nobody disturbs is what the files say
  (`KnowledgeTrue`). The attempt to prove that a matrix binds the campaign that was verified
  failed for a good reason: a third certifier may replace the campaign between the two
  verifications. TLC confirmed it with three certifiers, and the property now says when the two
  readings agree.
- `SigningInv`: which files can be there without which others (`FilesThere`); what
  reports, drafts, locks and bundles say of each other (`BuiltOf`, `ReviewedOf`,
  `SignedOf`); that all of it is of one authority while neither key nor enrollment was
  replaced (`FirstAuthority`), or while no draft was (`EnrolledAuthority`); and of every
  script, at each of its steps, what it has compared and so knows, unless the file was
  replaced where nothing looks (`ScriptFits`). It needs that no file may hold `Absent`.

Its assumptions on the constants are those of the task modules: finite sets of gates,
bounds that are numbers, model values that are no members of the sets they stand
outside of. No theorem depends on how large a bound is.

**HostStoresProofs.** One inductive invariant per store, and the composition, which
implements all nine (`HostImplementsStores`, with the theorems of `TransferDeliveryProofs`),
so that every property of the run `host_stores` is a theorem.

- `RepairInv`: who is inside holds the lock, so at most one attempt is between its
  validation and its record (`LocksHeld`) and the budget is what the records say
  (`BudgetFits`). While no two sessions work at once, tree and accepted tree differ only in
  what the one inside has written and has yet to undo (`TreeFits`, `TreeKept`), and for
  that its backups are there (`FilesFit`).
- `PackInv`: a directory or staging directory that lacks files is being removed or was
  left by a removal that stopped (`PartsExplained`), each staging directory is of one
  call and empty until that call stages, and what a reader has seen of the
  directory it was given is so (`Sees`) unless it met a removal or an install.
- `RotationInv`: an application nobody overlaps is alone, and while nobody is at work the
  three files are of one bundle, unless one died.
- `PairInv`: a maker nobody overlaps has written what it published.
- `TrustInv`: one file is one index, whatever saves and removals come between; who saved
  is known by a stamp, so a later read shows what it overtook.
- `GateInv`: a key that somebody has, signed with or claims is the stored one or was
  taken back, which is remembered.
- `HttpInv`: a key that did not overlap itself has at most one execution, and while its
  answer is not remembered the thread that executed it is still at work (`SlotFits`); the
  log has one writer at a time, and a record is there before it is answered (`LogFits`).

It needs that "nobody" is no attempt and "index" no key: both stand for a holder or a file
that is none of them. `WithAnswer` removes one answer from the remembered ones by cutting
the sequence around it (`OtherAnswers`), as the code does with its dictionary, where each key
occurs once: what a filter keeps could be proved by induction only.

**Only model-checked.** `EveryJobSettles` and `CommandReturns`, because liveness under
fairness is beyond this prover. `EveryJobWindsDown` and `SupervisorWindsDown` are what of them
is proved: nothing moves away from the end. That the steps which move towards it are
taken is for TLC. Every other property of the runs that pass, each type invariant, safety
invariant and action property, is a theorem of the specification its run checks.
## 6. Not modelled

**Parts of modelled components.**

- Two calls of one controller at the same time: the heartbeat thread and the main
  thread of a runner share an owner string. The model lets them call one after the
  other. The thread may outlive its job when `join(timeout=5)` gives up.
- A database that is deleted and opened again, empty, before the restore; retention
  of several backups (only the newest valid one matters to a restore); an
  `os.write` of the journal that writes less than it was given.
- Contents: payloads, results, labels, runtimes are model values or choices. That
  hashes differ for different contents is assumed, and so is that OpenSSL finds
  whether a key belongs to a certificate. Two test sources of equal content share a
  key, as in the code.
- Windows branches where a POSIX one is modelled, and quotas. Of the upload store's, what
  a failed create or purge leaves is modelled; a chunk is written in place there, and the
  partial file of a failed write is not. A check after a publication that fails because
  others interfere with the files is not modelled either. A wrong chunk cannot be
  replaced until its session expires; `purge_expired` has no caller in production.
- The pool's eviction of finished validations; an expired HTTP session's project is
  never removed; resuming keeps the records of failed workers.
- Memory and accounting limits of `run_process` are one kind of violation; a scan of
  `/proc` is one step; failures of `_start_process` end the call before anything runs.
- `PackageStore` has one name and version, and the checks of an installed package are one
  step. `latest` and `stage_all` read the same list as `exact`. A forced reinstall that
  dies while it removes the old directory leaves a staging directory with its metadata:
  `ensure_locked` finds that, accepts it if it is of the locked archive and refuses it
  otherwise, until somebody removes it by hand; an install does not.
- `ReleaseSigning` has one value for the six artifacts, one file that others replace, and
  one script at a time. `TrustStore` has one role; `HttpRequests` one session.
- `CertificationCampaign` has one runtime and reads a manifest in one step;
  `EvidenceChain` one head and two gates. The calls of a cleaner's listing are one step;
  its audit is one file. Which of several releases GitHub's by-tag endpoint shows while one
  of them is a draft is a choice.
- Chunked transfer of results, health endpoints, TLS handshakes and tokens of the
  remote protocol; reuse of a process group id (`process.py:134`); a result dated
  after the expiry of its request (`remote_protocol.py:315`).

**Components.** See `PROJECT.json` for each with its reason: the stdio server, the
sandboxes, attestation, observability, the dependency analysis, the
reports, the command line and web tooling either compute one document from others or
hand every call to a component that is modelled: there is no second actor and no
state between two of their steps.

## 7. Plan

| Next | What |
|---|---|
| Same-owner threads in `FleetQueue` | a heartbeat that outlives its job |

New modules keep the rules of the present ones: one action per operation, constants
with named assumptions, invariants as conjunctions of named parts, no RECURSIVE
operator.
