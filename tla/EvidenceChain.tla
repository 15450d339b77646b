---------------------------- MODULE EvidenceChain ----------------------------
(***************************************************************************)
(* From the evidence runs of a release to its readiness to be closed        *)
(* (scripts/ga): a ledger names one workflow run per gate, the API verifies  *)
(* them, their artifacts are downloaded and bound to the verdict of the     *)
(* gate's verifier, the bindings are closed, the evaluator is dispatched    *)
(* and its attestation is checked against the closure.                     *)
(*                                                                         *)
(* Every step is a command of its own that reads the files of earlier       *)
(* steps and the state of GitHub.  A command may be run again at any time,  *)
(* so the files may be of different generations; GitHub gets new runs and   *)
(* loses old artifacts meanwhile.  A command reads each of its files once   *)
(* and is one action, except the two that look twice at what others may     *)
(* change: the binder, and the dispatch.  The head of the release is        *)
(* pinned in the scripts, a run of another head is no run here.             *)
(***************************************************************************)
EXTENDS Naturals, FiniteSets, Sequences, SequencesExt

CONSTANTS
    Gates,           \* required_gates
    PublicGates,     \* the two whose artifacts are bound together
    SeededGates,     \* the two whose runs are known before the others
    MaxRuns,         \* bound: evidence runs, each with one artifact
    MaxEvaluations,  \* bound: runs of the evaluator
    MaxRewrites      \* bound: files and trees replaced, artifacts that expire

ASSUME EvidenceAssumption ==
    /\ IsFiniteSet(Gates) /\ Cardinality(Gates) <= MaxRuns
    /\ PublicGates \subseteq Gates /\ SeededGates \subseteq Gates \ PublicGates
    /\ MaxRuns \in Nat /\ MaxEvaluations \in Nat /\ MaxRewrites \in Nat

VARIABLES
    evidence,     \* GitHub: the successful runs of the gates, in order
    evaluations,  \* GitHub: the successful runs of the evaluator
    disk,         \* the operator's files: the rows of each kind
    evaluator,    \* the run the evaluator's receipt names
    readiness,    \* the receipt at the end
    trees,        \* per gate, what its downloaded tree is now
    binder,       \* the binder under way
    rewrites,     \* how many files and trees were replaced and artifacts expired
    verifiedRows, \* history: every content api-verification has had
    revised       \* history: a ledger was replaced or a dispatch was not ours

githubVars == <<evidence, evaluations>>
receiptVars == <<evaluator, readiness>>
evidenceVars == <<githubVars, disk, receiptVars, trees, binder, rewrites, verifiedRows, revised>>

NoFile == 0
RunIds == 1..MaxRuns
Altered == MaxRuns + 1
Partial == [Gates -> RunIds \cup {NoFile}]
Complete == [Gates -> RunIds]

NoRows == [g \in Gates |-> NoFile]

\* What is bound by one receipt: one gate, or the two public ones.
Bundles == {{g} : g \in Gates \ PublicGates} \cup (IF PublicGates = {} THEN {} ELSE {PublicGates})

\* A run's artifact may be sound or not, which is what the verifiers judge.
EvidenceRun == [gate : Gates, sound : BOOLEAN, live : BOOLEAN]
Evaluation == [inputs : Complete, atHead : BOOLEAN]

\* The files that name a run per gate.
RowFiles == {"ledger", "api", "material", "binding", "closure", "rederived", "plan", "evaluated",
             "attestation"}

EvidenceTypeOK ==
    /\ \A r \in DOMAIN evidence : evidence[r] \in EvidenceRun
    /\ \A i \in DOMAIN evaluations : evaluations[i] \in Evaluation
    /\ Len(evidence) <= MaxRuns /\ Len(evaluations) <= MaxEvaluations
    /\ disk \in [RowFiles -> Partial]
    /\ \A f \in RowFiles \ {"ledger", "material", "binding"} : disk[f] \in Complete \cup {NoRows}
    /\ evaluator \in 0..Len(evaluations)
    /\ trees \in [Gates -> 0..Altered]

\* At first every gate has one run.
FirstRuns == SetToSeq(Gates)

EvidenceInit ==
    /\ evidence \in {[r \in DOMAIN FirstRuns |->
                        [gate |-> FirstRuns[r], sound |-> good[r], live |-> TRUE]] :
                      good \in [DOMAIN FirstRuns -> BOOLEAN]}
    /\ evaluations = <<>>
    /\ disk = [f \in RowFiles |-> NoRows] /\ evaluator = 0 /\ readiness = <<>>
    /\ trees = [g \in Gates |-> NoFile]
    /\ binder = <<>>
    /\ rewrites = 0 /\ verifiedRows = {} /\ revised = FALSE

-----------------------------------------------------------------------------
(* GitHub: the workflows and time *)

EvidenceRunSucceeds(g, sound) ==
    /\ Len(evidence) < MaxRuns
    /\ evidence' = Append(evidence, [gate |-> g, sound |-> sound, live |-> TRUE])
    /\ UNCHANGED <<evaluations, receiptVars, disk, trees, binder, rewrites, verifiedRows,
                   revised>>

ArtifactExpires(r) ==
    /\ evidence[r].live /\ rewrites < MaxRewrites
    /\ evidence' = [evidence EXCEPT ![r].live = FALSE]
    /\ rewrites' = rewrites + 1
    /\ UNCHANGED <<evaluations, receiptVars, disk, trees, binder, verifiedRows, revised>>

\* A run of the gate whose one artifact has not expired.
Eligible(g, r) == r \in DOMAIN evidence /\ evidence[r].gate = g /\ evidence[r].live

-----------------------------------------------------------------------------
(* The ledger *)

Exists(file) == disk[file] # NoRows

\* A file is written, which may replace another.
Writes(file, rows) ==
    /\ disk' = [disk EXCEPT ![file] = rows]
    /\ rewrites' = rewrites + (IF \E g \in Gates : disk[file][g] \notin {NoFile, rows[g]}
                              THEN 1 ELSE 0)
    /\ rewrites' <= MaxRewrites

Distinct(rows) == \A g, h \in Gates : rows[g] = rows[h] => g = h

\* A ledger that replaces one that was planned or closed with.
ReplacesLedger(ledger) ==
    revised' = (revised \/ (ledger # disk.ledger /\ (Exists("plan") \/ Exists("api"))))

WritesLedger(ledger) ==
    /\ Writes("ledger", ledger)
    /\ ReplacesLedger(ledger)
    /\ UNCHANGED <<githubVars, receiptVars, trees, binder, verifiedRows>>

OnlyCandidate(g, r) == Eligible(g, r) /\ \A s \in DOMAIN evidence : Eligible(g, s) => s = r

\* discover_final_evidence_run_ledger.py: exactly one candidate per gate.
DiscoverLedger ==
    \E rows \in Complete :
        /\ \A g \in Gates : OnlyCandidate(g, rows[g])
        /\ WritesLedger(rows)

\* seed_verified_final_evidence_run_ledger.py: two runs with receipts of their
\* own, the other gates are left open.
SeedLedger ==
    \E rows \in Partial :
        /\ \A g \in Gates \ SeededGates : rows[g] = NoFile
        /\ \A g \in SeededGates :
              rows[g] \in DOMAIN evidence /\ evidence[rows[g]].gate = g /\ evidence[rows[g]].sound
        /\ WritesLedger(rows)

\* complete_verified_final_evidence_run_ledger.py
CompleteLedger ==
    /\ \A g \in Gates : disk.ledger[g] = NoFile <=> g \notin SeededGates
    /\ \E rows \in Complete :
          /\ \A g \in Gates : IF g \in SeededGates THEN rows[g] = disk.ledger[g]
                                                   ELSE OnlyCandidate(g, rows[g])
          /\ Distinct(rows)
          /\ WritesLedger(rows)

\* The ledger is a file that people may also fill in.
EditLedger(g, r) ==
    LET ledger == [disk.ledger EXCEPT ![g] = r] IN
    /\ ledger # disk.ledger
    /\ WritesLedger(ledger)

\* validate_final_evidence_run_ledger.py: INPUTS_COMPLETE_NOT_EVALUATED.
InputsComplete(ledger) == ledger \in Complete /\ Distinct(ledger)

\* verify_final_evidence_runs.py: each run by its id, on GitHub.
VerifyRuns ==
    /\ InputsComplete(disk.ledger)
    /\ \A g \in Gates : Eligible(g, disk.ledger[g])
    /\ Writes("api", disk.ledger)
    /\ verifiedRows' = verifiedRows \cup {disk.ledger}
    /\ UNCHANGED <<githubVars, receiptVars, trees, binder, revised>>

-----------------------------------------------------------------------------
(* The contents *)

DiskOnly == UNCHANGED <<githubVars, receiptVars, trees, binder, verifiedRows, revised>>

\* materialize_verified_evidence_artifact.py into a fresh workspace, for each
\* gate of the bundle.
Materialize(b) ==
    /\ binder = <<>> /\ Exists("api")
    /\ \A g \in b : evidence[disk.api[g]].live
    /\ Writes("material", [g \in Gates |-> IF g \in b THEN disk.api[g] ELSE disk.material[g]])
    /\ trees' = [g \in Gates |-> IF g \in b THEN disk.api[g] ELSE trees[g]]
    /\ UNCHANGED <<githubVars, receiptVars, binder, verifiedRows, revised>>

AlterTree(g) ==
    /\ rewrites < MaxRewrites /\ trees[g] \in RunIds
    /\ rewrites' = rewrites + 1
    /\ trees' = [trees EXCEPT ![g] = Altered]
    /\ UNCHANGED <<githubVars, receiptVars, disk, binder, verifiedRows, revised>>

\* validate_materialization: the tree is the one of the receipt.
TreesMatch(b, rows) == \A g \in b : rows[g] # NoFile /\ trees[g] = rows[g]

BindBegins(b) ==
    /\ binder = <<>> /\ TreesMatch(b, disk.material)
    /\ binder' = [bundle |-> b, rows |-> [g \in b |-> disk.material[g]], judged |-> FALSE]
    /\ UNCHANGED <<githubVars, receiptVars, disk, trees, rewrites, verifiedRows, revised>>

\* The repository's verifier reads the tree; of an altered one it may say
\* anything.  A verdict that is not PASS ends the binder.
JudgeTrees ==
    LET b == binder.bundle
        passes == \A g \in b : trees[g] # Altered => evidence[trees[g]].sound
    IN
    /\ binder # <<>> /\ ~binder.judged
    /\ \/ passes /\ binder' = [binder EXCEPT !.judged = TRUE]
       \/ binder' = <<>>
    /\ UNCHANGED <<githubVars, receiptVars, disk, trees, rewrites, verifiedRows, revised>>

\* Mutant of Unmutated: the tree is not looked at again.
Unchecked(rows) == TRUE

\* after == before.
Unmutated(rows) == \A g \in DOMAIN rows : trees[g] = rows[g]

BindEnds ==
    LET b == binder.bundle IN
    /\ binder # <<>> /\ binder.judged
    /\ IF Unmutated(binder.rows) THEN Writes("binding", [g \in Gates |-> IF g \in b THEN binder.rows[g] ELSE disk.binding[g]])
                                 ELSE UNCHANGED <<disk, rewrites>>
    /\ binder' = <<>>
    /\ UNCHANGED <<githubVars, receiptVars, trees, verifiedRows, revised>>

\* Mutant of BindingFits: the binding is of the gate, whatever its run.
BindingThere(b) == \A g \in b : disk.binding[g] # NoFile

\* _single_binding, _public_binding: the run and the artifact of the API row.
BindingFits(b) == \A g \in b : disk.binding[g] = disk.api[g]

Closable == Exists("api") /\ \A b \in Bundles : BindingFits(b)

\* build_final_evidence_content_closure.py: the rows of the API verification,
\* each with the digests of its binding.
BuildContentClosure ==
    /\ Closable /\ Distinct(disk.api)
    /\ Writes("closure", disk.api)
    /\ DiskOnly

\* verify_final_evidence_content_closure_receipt.py builds it once more.
RederiveClosure ==
    /\ Closable /\ Distinct(disk.api) /\ disk.closure = disk.api
    /\ Writes("rederived", disk.closure)
    /\ DiskOnly

-----------------------------------------------------------------------------
(* The evaluator *)

\* Mutant of PlanFits: the API verification passed, of whatever ledger.
PlanThere == Exists("api")

PlanFits == disk.api = disk.ledger

\* build_final_ga_evaluator_dispatch_plan.py
BuildDispatchPlan ==
    /\ InputsComplete(disk.ledger) /\ PlanFits
    /\ Writes("plan", disk.ledger)
    /\ DiskOnly

\* operate_final_ga_evaluator_dispatch.py looks at the ref and then dispatches
\* by its name: the ref may have moved in between.  The answer may be lost; the
\* command fails then and may be run again.  The workflow fetches every run it
\* is given, evaluates the artifacts and signs; a run that fails leaves nothing.
DispatchEvaluator ==
    /\ Exists("plan") /\ Len(evaluations) < MaxEvaluations
    /\ \A g \in Gates : Eligible(g, disk.plan[g]) /\ evidence[disk.plan[g]].sound
    /\ \E atHead \in BOOLEAN :
          evaluations' = Append(evaluations, [inputs |-> disk.plan, atHead |-> atHead])
    /\ UNCHANGED <<evidence, receiptVars, disk, trees, binder, rewrites, verifiedRows, revised>>

\* verify_final_ga_evaluator_run.py of the run whose id the operator gives; the
\* inputs of that run are not compared with the closure.
VerifyEvaluatorRun(i) ==
    /\ Exists("closure") /\ disk.rederived = disk.closure
    /\ evaluations[i].atHead
    /\ Writes("evaluated", disk.closure)
    /\ evaluator' = i
    /\ UNCHANGED <<githubVars, readiness, trees, binder, verifiedRows, revised>>

\* run_final_attestation_content_operation.py: the artifact of that run.
VerifyAttestation ==
    /\ evaluator # 0
    /\ Writes("attestation", evaluations[evaluator].inputs)
    /\ DiskOnly

\* _verify_content_closure_provenance
ProvenanceFits == disk.evaluated = disk.closure

\* build_release_closure_readiness.py.  Neither the run of the attestation nor
\* the runs it covers are compared with the closure or the evaluator's receipt.
BuildReadiness ==
    /\ Exists("closure") /\ Exists("attestation") /\ ProvenanceFits
    /\ readiness' = [closure |-> disk.closure, run |-> evaluator, attested |-> disk.attestation]
    /\ UNCHANGED <<githubVars, disk, evaluator, trees, binder, rewrites, verifiedRows, revised>>

\* The receipt is written once: a bound, nothing is looked at after it.
EvidenceNext == readiness = <<>> /\ (
    \/ \E g \in Gates, sound \in BOOLEAN : EvidenceRunSucceeds(g, sound)
    \/ \E r \in DOMAIN evidence : ArtifactExpires(r)
    \/ \E i \in DOMAIN evaluations : VerifyEvaluatorRun(i)
    \/ DiscoverLedger \/ SeedLedger \/ CompleteLedger
    \/ \E g \in Gates : AlterTree(g) \/ \E r \in RunIds : EditLedger(g, r)
    \/ VerifyRuns
    \/ \E b \in Bundles : Materialize(b) \/ BindBegins(b)
    \/ JudgeTrees \/ BindEnds
    \/ BuildContentClosure \/ RederiveClosure
    \/ BuildDispatchPlan \/ DispatchEvaluator \/ VerifyAttestation \/ BuildReadiness)

EvidenceSpec == EvidenceInit /\ [][EvidenceNext]_evidenceVars

-----------------------------------------------------------------------------
\* The content closure is of the runs of one API verification, never of two,
\* and the artifact of each passed the verifier of its gate.
ClosureIsOneVerification ==
    Exists("closure") =>
        /\ disk.closure \in verifiedRows
        /\ \A g \in Gates : evidence[disk.closure[g]].gate = g /\ evidence[disk.closure[g]].sound

\* The evaluator is dispatched only with runs that the API verified together.
PlanIsOneVerification ==
    \A i \in DOMAIN evaluations : evaluations[i].inputs \in verifiedRows

\* The readiness receipt names a closure that a verified evaluator run rests on,
\* and what was attested are the runs of that closure, unless a ledger was
\* replaced on the way.
OnlyRevisionsSplitTheEvidence ==
    readiness # <<>> =>
        /\ readiness.closure \in verifiedRows
        /\ ~revised => readiness.attested = readiness.closure

EvidenceSound ==
    /\ ClosureIsOneVerification /\ PlanIsOneVerification
    /\ OnlyRevisionsSplitTheEvidence
=============================================================================
