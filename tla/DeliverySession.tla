-------------------------- MODULE DeliverySession --------------------------
(***************************************************************************)
(* One project session of the HTTP server: the threads of http_mcp.py that  *)
(* upload a source, have it validated by the process pool, record the web   *)
(* validation receipt, issue download tokens and terminate the session.     *)
(*                                                                         *)
(* A handler looks its session up once and then works on the project        *)
(* directory.  The store's lock is held for a lookup, for an upload and for *)
(* a termination; validation jobs, receipts and downloads take no lock.     *)
(***************************************************************************)
EXTENDS Naturals, FiniteSets

CONSTANTS
    Handlers,     \* threads of the HTTP server
    Jobs,         \* bound: the validations asked for (a session may have 4 active)
    Uploads,      \* what a client may upload as its source
    Valid,        \* the uploads whose validation passes
    PoolWorkers   \* processes of the validation pool

ASSUME DeliveryAssumption ==
    /\ IsFiniteSet(Jobs) /\ Valid \subseteq Uploads /\ PoolWorkers \in Nat \ {0}

VARIABLES
    record,       \* the session record
    project,      \* the project directory; revived: made anew after its removal
    source,       \* the source in it
    reports,      \* the last write of a stage report, which tells all from each other
    gate,         \* gate-web-standard.json: its job and the source it covers
    receipt,      \* web-validation.json
    validation,   \* per validation: its stage, and the source each stage ran
    handler,      \* per thread: the request it is in
    tokens,       \* the sources download tokens were issued for
    delivered,    \* history: the sources that were downloaded
    validated,    \* history: the sources some job ran in both stages, and passed
    raced,        \* history: an upload came in during a validation or a download
    dead          \* history: the termination was answered, and what was at
                  \* work on the project when it was removed

projectVars == <<project, source, reports, gate, receipt>>
deliveryVars == <<record, projectVars, validation, handler, tokens, delivered, validated, raced, dead>>

Absent == "absent"
NoJob == "none"
NoReportWrite == <<NoJob, "none">>
NoGate == [job |-> NoJob, source |-> Absent]
NoReceipt == [source |-> Absent, reports |-> NoReportWrite, gate |-> NoGate]

Running == {"compat", "full", "fullReport", "standard", "standardReport", "gate"}
Requests == {"idle", "upload", "submit", "verify", "bind", "record", "issue",
             "gateCheck", "snapshot", "terminate", "purge"}
IdleHandler == [step |-> "idle", job |-> NoJob, source |-> Absent,
                reports |-> NoReportWrite, gate |-> NoGate]

SourceStates == Uploads \cup {Absent}
ReportWrites == (Jobs \X {"compat", "fullReport", "standardReport"}) \cup {NoReportWrite}
Gates == [job: Jobs, source: Uploads] \cup {NoGate}

DeliveryTypeOK ==
    /\ record \in {"open", "expired", "terminated"}
    /\ project \in {"there", "gone", "revived"}
    /\ source \in SourceStates /\ reports \in ReportWrites /\ gate \in Gates
    /\ receipt \in [source: SourceStates, reports: ReportWrites, gate: Gates]
    /\ validation \in [Jobs -> [step: Running \cup {"none", "queued", "failed", "passed", "finalized"},
                         full: SourceStates, standard: SourceStates]]
    /\ handler \in [Handlers -> [step: Requests, job: Jobs \cup {NoJob},
                                 source: SourceStates, reports: ReportWrites, gate: Gates]]
    /\ tokens \subseteq Uploads /\ delivered \subseteq Uploads /\ validated \subseteq Uploads
    /\ raced \in BOOLEAN
    /\ dead \in [answered: BOOLEAN, survivors: BOOLEAN]

DeliveryInit ==
    /\ record = "open" /\ project = "there" /\ source = Absent
    /\ reports = NoReportWrite /\ gate = NoGate /\ receipt = NoReceipt
    /\ validation = [j \in Jobs |-> [step |-> "none", full |-> Absent, standard |-> Absent]]
    /\ handler = [h \in Handlers |-> IdleHandler]
    /\ tokens = {} /\ delivered = {} /\ validated = {} /\ raced = FALSE
    /\ dead = [answered |-> FALSE, survivors |-> FALSE]

-----------------------------------------------------------------------------
\* The store's lock: a termination holds it until the project is removed.
SessionsFree == \A h \in Handlers : handler[h].step # "purge"

\* HTTPSessionManager.get, then ProjectSessionStore.get.
Lookup(h) == handler[h].step = "idle" /\ SessionsFree /\ record = "open"

InStep(h, step) == handler[h].step = step
Enter(h, step) == handler' = [handler EXCEPT ![h].step = step]
Answer(h) == handler' = [handler EXCEPT ![h] = IdleHandler]

\* verify_gate_receipt: the bytes the gate names are the bytes there are.
GateCurrent == gate # NoGate /\ gate.source = source

\* delivery_status with its _web_validation_status.
ReadyWith(r) == GateCurrent /\ r = [source |-> source, reports |-> reports, gate |-> gate]

Ready == ReadyWith(receipt)

\* A lookup that finds the record too old marks it; nothing is removed.
ExpireSession ==
    /\ record = "open" /\ SessionsFree
    /\ record' = "expired"
    /\ UNCHANGED <<projectVars, validation, handler, tokens, delivered, validated, raced, dead>>

\* do_PUT.
CallUpload(h, s) ==
    /\ Lookup(h)
    /\ handler' = [handler EXCEPT ![h].step = "upload", ![h].source = s]
    /\ UNCHANGED <<record, projectVars, validation, tokens, delivered, validated, raced, dead>>

\* A validation has read the source and has not covered it by its gate.
Validating == \E j \in Jobs : validation[j].step \in Running \ {"compat", "full"}
Downloading == \E h \in Handlers : handler[h].step \in {"gateCheck", "snapshot"}

\* atomic_write_json makes the directories it needs.
MakesDirectories == project' = IF project = "gone" THEN "revived" ELSE project

\* Mutant of RootThere: a missing project directory is made.
RootMade == TRUE

RootThere == project # "gone"

\* upload publishes into a project directory that is there; it does not look
\* the session up again.
PublishUpload(h) ==
    /\ InStep(h, "upload") /\ SessionsFree
    /\ IF RootThere
       THEN /\ source' = handler[h].source /\ MakesDirectories
            /\ raced' = (raced \/ Validating \/ Downloading)
       ELSE UNCHANGED <<project, source, raced>>
    /\ Answer(h)
    /\ UNCHANGED <<record, reports, gate, receipt, validation, tokens, delivered, validated, dead>>

\* _web_validate: the paths are resolved, then the request is written (which
\* makes missing directories) and handed to the pool.
CallValidate(h) ==
    /\ Lookup(h) /\ source # Absent
    /\ Enter(h, "submit")
    /\ UNCHANGED <<record, projectVars, validation, tokens, delivered, validated, raced, dead>>

SubmitJob(h, j) ==
    /\ InStep(h, "submit") /\ validation[j].step = "none"
    /\ validation' = [validation EXCEPT ![j].step = "queued"]
    /\ MakesDirectories
    /\ Answer(h)
    /\ UNCHANGED <<record, source, reports, gate, receipt, tokens, delivered, validated, raced, dead>>

-----------------------------------------------------------------------------
(* run_stage_request in a process of the pool.                             *)
JobGoto(j, step) == validation' = [validation EXCEPT ![j].step = step]

StartJob(j) ==
    /\ validation[j].step = "queued"
    /\ Cardinality({k \in Jobs : validation[k].step \in Running}) < PoolWorkers
    /\ JobGoto(j, IF project = "gone" \/ source = Absent THEN "failed" ELSE "compat")
    /\ UNCHANGED <<record, projectVars, handler, tokens, delivered, validated, raced, dead>>

\* The full matrix and the standard gate read the source; without it they raise.
RunStage(j) ==
    /\ validation[j].step \in {"full", "standard"}
    /\ IF source = Absent
       THEN JobGoto(j, "failed")
       ELSE validation' = [validation EXCEPT
                ![j].full = IF validation[j].step = "full" THEN source ELSE @,
                ![j].standard = IF validation[j].step = "standard" THEN source ELSE @,
                ![j].step = IF validation[j].step = "full" THEN "fullReport" ELSE "standardReport"]
    /\ UNCHANGED <<record, projectVars, handler, tokens, delivered, validated, raced, dead>>

Follows == [compat |-> "full", fullReport |-> "standard", standardReport |-> "gate"]

\* A stage passes only on a valid source.
Passes(j) ==
    /\ validation[j].step = "fullReport" => validation[j].full \in Valid
    /\ validation[j].step = "standardReport" => validation[j].standard \in Valid

\* A stage writes its report over that of an earlier job, and ends the job
\* unless it passed.
WriteReport(j) ==
    /\ validation[j].step \in DOMAIN Follows
    /\ reports' = <<j, validation[j].step>>
    /\ MakesDirectories
    /\ \/ JobGoto(j, "failed")
       \/ Passes(j) /\ JobGoto(j, Follows[validation[j].step])
    /\ UNCHANGED <<record, source, gate, receipt, handler, tokens, delivered, validated, raced, dead>>

\* create_gate_receipt hashes the source there is now.
WriteGate(j) ==
    /\ validation[j].step = "gate"
    /\ IF source = Absent
       THEN JobGoto(j, "failed") /\ UNCHANGED <<gate, validated>>
       ELSE /\ JobGoto(j, "passed")
            /\ gate' = [job |-> j, source |-> source]
            /\ validated' = IF validation[j].full = validation[j].standard
                            THEN validated \cup {validation[j].full} ELSE validated
    /\ UNCHANGED <<record, project, source, reports, receipt, handler, tokens, delivered, raced, dead>>

-----------------------------------------------------------------------------
\* psmatrix_web_validation_status of a passed job: record_web_validation
\* hashes the source and the reports, ...
CallPoll(h, j) ==
    /\ Lookup(h) /\ validation[j].step = "passed" /\ source # Absent
    /\ handler' = [handler EXCEPT ![h] =
           [@ EXCEPT !.step = "verify", !.job = j, !.source = source, !.reports = reports]]
    /\ UNCHANGED <<record, projectVars, validation, tokens, delivered, validated, raced, dead>>

\* ... verifies the gate ...
VerifyGate(h) ==
    /\ InStep(h, "verify")
    /\ IF GateCurrent THEN Enter(h, "bind") ELSE Answer(h)
    /\ UNCHANGED <<record, projectVars, validation, tokens, delivered, validated, raced, dead>>

\* ... reads it once more, for its hash ...
BindGate(h) ==
    /\ InStep(h, "bind")
    /\ IF gate = NoGate
       THEN Answer(h)
       ELSE handler' = [handler EXCEPT ![h].step = "record", ![h].gate = gate]
    /\ UNCHANGED <<record, projectVars, validation, tokens, delivered, validated, raced, dead>>

\* ... and writes a receipt of all three.  The job is done with once delivery
\* is ready.
RecordReceipt(h) ==
    LET r == [source |-> handler[h].source, reports |-> handler[h].reports, gate |-> handler[h].gate] IN
    /\ InStep(h, "record")
    /\ receipt' = r /\ MakesDirectories
    /\ validation' = IF ReadyWith(r) THEN [validation EXCEPT ![handler[h].job].step = "finalized"] ELSE validation
    /\ Answer(h)
    /\ UNCHANGED <<record, source, reports, gate, tokens, delivered, validated, raced, dead>>

\* prepare_artifact for delivery: the gate first, then the bytes.
CallPrepare(h) ==
    /\ Lookup(h) /\ Ready
    /\ Enter(h, "issue")
    /\ UNCHANGED <<record, projectVars, validation, tokens, delivered, validated, raced, dead>>

IssueToken(h) ==
    /\ InStep(h, "issue")
    /\ tokens' = tokens \cup ({source} \ {Absent})
    /\ Answer(h)
    /\ UNCHANGED <<record, projectVars, validation, delivered, validated, raced, dead>>

\* GET of a token: resolve_artifact looks the session up and hashes the source ...
CallDownload(h, s) ==
    /\ Lookup(h) /\ s \in tokens /\ source = s
    /\ handler' = [handler EXCEPT ![h].step = "gateCheck", ![h].source = s]
    /\ UNCHANGED <<record, projectVars, validation, tokens, delivered, validated, raced, dead>>

\* Mutant of StillReady: what the gate said when the token was issued stands.
ReadyWhenIssued == TRUE

StillReady == Ready

\* ... and asks for the gate once more, ...
CheckGateAgain(h) ==
    /\ InStep(h, "gateCheck")
    /\ IF StillReady THEN Enter(h, "snapshot") ELSE Answer(h)
    /\ UNCHANGED <<record, projectVars, validation, tokens, delivered, validated, raced, dead>>

\* ... and the bytes are copied and hashed before any is sent.
SendSnapshot(h) ==
    /\ InStep(h, "snapshot")
    /\ delivered' = IF source = handler[h].source THEN delivered \cup {source} ELSE delivered
    /\ Answer(h)
    /\ UNCHANGED <<record, projectVars, validation, tokens, validated, raced, dead>>

-----------------------------------------------------------------------------
\* do_DELETE: terminate marks the record, then removes project and home.
CallTerminate(h) ==
    /\ Lookup(h)
    /\ Enter(h, "terminate")
    /\ UNCHANGED <<record, projectVars, validation, tokens, delivered, validated, raced, dead>>

MarkTerminated(h) ==
    /\ InStep(h, "terminate") /\ SessionsFree
    /\ IF record = "open"
       THEN Enter(h, "purge") /\ record' = "terminated"
       ELSE Answer(h) /\ UNCHANGED record
    /\ UNCHANGED <<projectVars, validation, tokens, delivered, validated, raced, dead>>

PurgeProject(h) ==
    /\ InStep(h, "purge")
    /\ project' = "gone" /\ source' = Absent
    /\ reports' = NoReportWrite /\ gate' = NoGate /\ receipt' = NoReceipt
    /\ dead' = [answered |-> TRUE,
                survivors |-> \/ \E j \in Jobs : validation[j].step \in Running
                              \/ \E g \in Handlers : handler[g].step \in {"submit", "record"}]
    /\ Answer(h)
    /\ UNCHANGED <<record, validation, tokens, delivered, validated, raced>>

StageStep(j) == StartJob(j) \/ RunStage(j) \/ WriteReport(j) \/ WriteGate(j)

HandlerStep(h) ==
    \/ CallValidate(h) \/ CallPrepare(h) \/ CallTerminate(h)
    \/ PublishUpload(h) \/ VerifyGate(h) \/ BindGate(h) \/ RecordReceipt(h) \/ IssueToken(h)
    \/ CheckGateAgain(h) \/ SendSnapshot(h) \/ MarkTerminated(h) \/ PurgeProject(h)
    \/ \E s \in Uploads : CallUpload(h, s) \/ CallDownload(h, s)
    \/ \E j \in Jobs : SubmitJob(h, j) \/ CallPoll(h, j)

DeliveryNext ==
    \/ ExpireSession
    \/ \E j \in Jobs : StageStep(j)
    \/ \E h \in Handlers : HandlerStep(h)

DeliverySpec == DeliveryInit /\ [][DeliveryNext]_deliveryVars

-----------------------------------------------------------------------------
(* Properties *)

\* Delivery is closed by whatever changes: a source that was not itself run
\* by both stages of a passing validation is only ever downloaded when an
\* upload came in while a validation was at work on the source, or between
\* the checks of a download.
OnlyRacesDeliverUnvalidated == raced \/ delivered \subseteq validated

\* Once a termination is answered, the project stays removed, whatever
\* requests were under way; only a validation that was running or being handed
\* over, and a receipt that was being written, make its directory anew.
TerminatedStaysRemoved == dead.answered /\ ~dead.survivors => project = "gone"

\* mcp_server.py:601, psmatrix_web_validate: the stages run "against the same
\* project sources; HTTP delivery remains blocked unless every required stage
\* passes": when delivery is ready, the source there is was run and passed.
ReadyMeansValidated == Ready => source \in validated
=============================================================================
