------------------------ MODULE CertificationCampaign ------------------------
(***************************************************************************)
(* The certification of a Windows image by repeated runs                    *)
(* (lab_certification.py, run_authoritative_matrix of lab_provisioning.py): *)
(* each run sends the fixture pack to the worker, checks the signed result  *)
(* and writes an attestation; a campaign attests to the runs; a matrix       *)
(* attests to the campaign.                                                *)
(*                                                                         *)
(* Everything is read from files, most of it several times: the image       *)
(* manifest, the fixture pack, the attestations and the campaign.  Another  *)
(* certifier with the same output directory may replace the last two, and a *)
(* developer may edit the first two, between any two reads.                 *)
(***************************************************************************)
EXTENDS Naturals, FiniteSets, Sequences

CONSTANTS
    Certifiers,      \* processes that run run_authoritative_matrix
    Manifests,       \* contents of the image manifest, one identity in all
    Packs,           \* contents of the fixture pack; both numbered, 0 the first
    Iterations,      \* runs of a campaign
    Unwritten,
    MaxExecutions,   \* bound: jobs the worker runs
    MaxRevisions     \* bound: edits of manifest and pack

ASSUME CampaignAssumption ==
    /\ 0 \in Manifests /\ 0 \in Packs
    /\ Iterations \in Nat /\ Iterations >= 2 /\ MaxExecutions \in Nat /\ MaxRevisions \in Nat

VARIABLES
    manifest, pack,  \* what is in the files now
    attestations,    \* certification-NNN.dsse.json, per index
    campaignFile,    \* the campaign's attestation
    certifier,       \* per certifier: where it is and what it has read
    executed,        \* history: the jobs of the worker, each the pack it got
    passed,          \* history: what certifiers that returned PASS attest to
    revisions,       \* how many edits there were
    disturbed        \* history: certifiers that met another one or an edit

certFiles == <<manifest, pack, attestations, campaignFile>>
certVars == <<certFiles, certifier, executed, passed, revisions, disturbed>>

Indexes == 1..Iterations

\* execution: worker_result_sha256; image and pack: the subjects.
Attestation == [image: Manifests, pack: Packs, execution: 1..MaxExecutions]
\* digest: the sha256 of the attestation, which stands for its content.
CampaignRow == [digest: Attestation, execution: 1..MaxExecutions]
Campaign == [image: Manifests, pack: Packs, rows: Seq(CampaignRow)]

\* A file that is not there has none of the contents.
ASSUME UnwrittenAssumption == Unwritten \notin Attestation \cup Campaign

CertifySteps == {"load", "pack", "submit", "write", "verify"}
CampaignSteps == {"gather", "verifyRow", "hashRow", "readRow", "publish"}
CheckSteps == {"check", "checkRow", "verifyChecked", "bind"}

\* index: the run, or the row; round: verifications of the campaign so far;
\* read, held: the digests of manifest and pack; row: the digest of the row
\* under way; envelope: the campaign read; first: history, the one that was
\* read for the first verification.
IdleCertifier == [at |-> "idle", index |-> 1, round |-> 1, read |-> Unwritten,
                  held |-> Unwritten, result |-> 0, row |-> Unwritten,
                  rows |-> <<>>, envelope |-> Unwritten, first |-> Unwritten]

CampaignTypeOK ==
    /\ manifest \in Manifests /\ pack \in Packs
    /\ attestations \in [Indexes -> Attestation \cup {Unwritten}]
    /\ campaignFile \in Campaign \cup {Unwritten}
    /\ Len(executed) <= MaxExecutions
    /\ \A c \in Certifiers :
          /\ certifier[c].at \in {"idle"} \cup CertifySteps \cup CampaignSteps \cup CheckSteps
          /\ certifier[c].index \in 1..Iterations + 1 /\ certifier[c].round \in {1, 2}
          /\ certifier[c].result <= Len(executed)

CertInit ==
    /\ manifest = 0 /\ pack = 0
    /\ attestations = [i \in Indexes |-> Unwritten] /\ campaignFile = Unwritten
    /\ certifier = [c \in Certifiers |-> IdleCertifier]
    /\ executed = <<>> /\ passed = {} /\ revisions = 0 /\ disturbed = {}

-----------------------------------------------------------------------------
CertifierAt(c, step) == certifier[c].at = step
Certifying(c) == ~CertifierAt(c, "idle")
Learns(c, known) == certifier' = [certifier EXCEPT ![c] = known]

\* Any CertificationError or LabProvisioningError ends the whole run.
Abandon(c) == Learns(c, IdleCertifier)

ReadOnly == UNCHANGED <<certFiles, executed, passed, revisions, disturbed>>

BeginMatrix(c) ==
    /\ CertifierAt(c, "idle") /\ Len(executed) < MaxExecutions
    /\ Learns(c, [IdleCertifier EXCEPT !.at = "load"])
    /\ LET others == {d \in Certifiers \ {c} : Certifying(d)}
       IN  disturbed' = (disturbed \ {c}) \cup others \cup (IF others = {} THEN {} ELSE {c})
    /\ UNCHANGED <<certFiles, executed, passed, revisions>>

\* WindowsImageManifest.load parses the file and then hashes it; every content
\* has the same identity, so only the digest tells them apart.
LoadManifest(c) ==
    /\ CertifierAt(c, "load")
    /\ Learns(c, [certifier[c] EXCEPT !.at = "pack", !.read = manifest])
    /\ ReadOnly

\* load_fixture_pack hashes the files; the manifest may pin the digest.
LoadPack(c) ==
    /\ CertifierAt(c, "pack")
    /\ \/ Learns(c, [certifier[c] EXCEPT !.at = "submit", !.held = pack])
       \/ Abandon(c)
    /\ ReadOnly

\* The job is made from the files as they are now.  The worker may refuse it or
\* fail; only a result with both resets and every check passed goes on.
SubmitRun(c) ==
    /\ CertifierAt(c, "submit")
    /\ \/ /\ Len(executed) < MaxExecutions
          /\ executed' = Append(executed, pack)
          /\ \/ Learns(c, [certifier[c] EXCEPT !.at = "write", !.result = Len(executed) + 1])
             \/ Abandon(c)
       \/ Abandon(c) /\ UNCHANGED executed
    /\ UNCHANGED <<certFiles, passed, revisions, disturbed>>

WriteAttestation(c) ==
    /\ CertifierAt(c, "write")
    /\ attestations' = [attestations EXCEPT ![certifier[c].index] =
           [image |-> certifier[c].read, pack |-> certifier[c].held,
            execution |-> certifier[c].result]]
    /\ Learns(c, [certifier[c] EXCEPT !.at = "verify"])
    /\ UNCHANGED <<manifest, pack, campaignFile, executed, passed, revisions, disturbed>>

\* verify_certification_attestation, of what the file holds now against what
\* manifest and pack are now.
Verifies(i) ==
    /\ attestations[i] # Unwritten
    /\ attestations[i].image = manifest /\ attestations[i].pack = pack

VerifyRun(c) ==
    LET i == certifier[c].index IN
    /\ CertifierAt(c, "verify")
    /\ IF ~Verifies(i) THEN Abandon(c)
       ELSE IF i < Iterations
            THEN Learns(c, [certifier[c] EXCEPT !.at = "load", !.index = i + 1])
            ELSE Learns(c, [certifier[c] EXCEPT !.at = "gather"])
    /\ ReadOnly

-----------------------------------------------------------------------------
(* create_campaign_attestation *)

Gather(c) ==
    /\ CertifierAt(c, "gather")
    /\ Learns(c, [certifier[c] EXCEPT !.at = "verifyRow", !.index = 1, !.read = manifest,
                                      !.held = pack])
    /\ ReadOnly

VerifyRow(c) ==
    /\ CertifierAt(c, "verifyRow")
    /\ IF Verifies(certifier[c].index) THEN Learns(c, [certifier[c] EXCEPT !.at = "hashRow"])
                                       ELSE Abandon(c)
    /\ ReadOnly

Digests(rows) == {rows[i].digest : i \in DOMAIN rows}
Executions(rows) == {rows[i].execution : i \in DOMAIN rows}

HashRow(c) ==
    LET now == attestations[certifier[c].index] IN
    /\ CertifierAt(c, "hashRow")
    /\ IF now \in Digests(certifier[c].rows) THEN Abandon(c)
       ELSE Learns(c, [certifier[c] EXCEPT !.at = "readRow", !.row = now])
    /\ ReadOnly

ReadRow(c) ==
    LET i == certifier[c].index
        execution == attestations[i].execution
    IN
    /\ CertifierAt(c, "readRow")
    /\ IF execution \in Executions(certifier[c].rows) THEN Abandon(c)
       ELSE Learns(c, [certifier[c] EXCEPT
                !.at = IF i < Iterations THEN "verifyRow" ELSE "publish",
                !.index = IF i < Iterations THEN i + 1 ELSE i,
                !.row = Unwritten,
                !.rows = Append(certifier[c].rows,
                                [digest |-> certifier[c].row, execution |-> execution])])
    /\ ReadOnly

PublishCampaign(c) ==
    /\ CertifierAt(c, "publish")
    /\ campaignFile' = [image |-> certifier[c].read, pack |-> certifier[c].held,
                        rows |-> certifier[c].rows]
    /\ Learns(c, [certifier[c] EXCEPT !.at = "check", !.rows = <<>>])
    /\ UNCHANGED <<manifest, pack, attestations, executed, passed, revisions, disturbed>>

-----------------------------------------------------------------------------
(* verify_campaign_attestation, once by run_certification_campaign and once  *)
(* by run_authoritative_matrix.                                             *)

\* Identities and the digest of the pack are compared, the manifest's is not.
CheckCampaign(c) ==
    /\ CertifierAt(c, "check")
    /\ IF campaignFile.pack = pack /\ Len(campaignFile.rows) >= Iterations
       THEN Learns(c, [certifier[c] EXCEPT !.at = "checkRow", !.index = 1,
                                           !.envelope = campaignFile,
                                           !.first = IF certifier[c].round = 1
                                                     THEN campaignFile ELSE certifier[c].first])
       ELSE Abandon(c)
    /\ ReadOnly

\* Mutant of RowHolds: the file is there.
RowThere(rows, i) == attestations[i] # Unwritten

RowHolds(rows, i) ==
    /\ attestations[i] = rows[i].digest
    /\ \A j \in 1..i - 1 : rows[j].digest # rows[i].digest

\* The file is hashed and then read once more to be verified.
CheckRow(c) ==
    /\ CertifierAt(c, "checkRow")
    /\ IF RowHolds(certifier[c].envelope.rows, certifier[c].index)
         THEN Learns(c, [certifier[c] EXCEPT !.at = "verifyChecked"])
         ELSE Abandon(c)
    /\ ReadOnly

VerifyChecked(c) ==
    LET i == certifier[c].index IN
    /\ CertifierAt(c, "verifyChecked")
    /\ IF ~Verifies(i) THEN Abandon(c)
       ELSE IF i < Len(certifier[c].envelope.rows)
            THEN Learns(c, [certifier[c] EXCEPT !.at = "checkRow", !.index = i + 1])
       ELSE IF certifier[c].round = 1
            THEN Learns(c, [certifier[c] EXCEPT !.at = "check", !.round = 2])
            ELSE Learns(c, [certifier[c] EXCEPT !.at = "bind"])
    /\ ReadOnly

\* The matrix names the campaign and the manifest by the digests of the files.
BindMatrix(c) ==
    /\ CertifierAt(c, "bind")
    /\ passed' = passed \cup {[by |-> c, campaign |-> campaignFile, image |-> manifest,
                               verified |-> certifier[c].envelope,
                               first |-> certifier[c].first,
                               disturbed |-> c \in disturbed, revisions |-> revisions]}
    /\ Abandon(c)
    /\ UNCHANGED <<certFiles, executed, revisions, disturbed>>

\* The process is killed: nothing is cleaned up.
CertifierDies(c) == Certifying(c) /\ Abandon(c) /\ ReadOnly

Revise ==
    /\ revisions < MaxRevisions
    /\ revisions' = revisions + 1
    /\ \/ manifest' \in Manifests \ {manifest} /\ UNCHANGED pack
       \/ pack' \in Packs \ {pack} /\ UNCHANGED manifest
    /\ disturbed' = disturbed \cup {c \in Certifiers : Certifying(c)}
    /\ UNCHANGED <<attestations, campaignFile, certifier, executed, passed>>

CertNext ==
    \/ \E c \in Certifiers :
          \/ BeginMatrix(c) \/ LoadManifest(c) \/ LoadPack(c)
          \/ SubmitRun(c) \/ WriteAttestation(c) \/ VerifyRun(c)
          \/ Gather(c) \/ VerifyRow(c) \/ HashRow(c) \/ ReadRow(c) \/ PublishCampaign(c)
          \/ CheckCampaign(c) \/ CheckRow(c) \/ VerifyChecked(c) \/ BindMatrix(c)
          \/ CertifierDies(c)
    \/ Revise

CertSpec == CertInit /\ [][CertNext]_certVars

-----------------------------------------------------------------------------
\* A campaign that was verified rests on as many different jobs of the worker as
\* it has runs, whoever else writes to the directory: no attestation is counted
\* twice, and none that was replaced meanwhile.
VerifiedRunsDiffer ==
    \A m \in passed :
        Cardinality({m.verified.rows[i].digest.execution : i \in DOMAIN m.verified.rows})
            >= Iterations

\* Every run of a verified campaign is attested to have used the pack the
\* campaign names, whoever replaces attestations meanwhile; only a pack that is
\* edited and edited back, or a campaign that is replaced between the two
\* verifications, gets past them.  (Each reads a run's attestation twice, to
\* hash it and to verify it.)
VerifiedRowsAgree ==
    \A m \in passed : m.first = m.verified =>
        \A i \in DOMAIN m.verified.rows :
            m.verified.rows[i].digest.pack = m.verified.pack \/ m.revisions >= 2

\* What a certifier that nobody disturbed attests to is so: the matrix names the
\* campaign that was verified, every run of it executed the pack it names, and
\* the manifest is the one of each of the runs.
UndisturbedMatrixHolds ==
    \A m \in passed :
        ~m.disturbed =>
            /\ m.campaign = m.verified /\ m.image = m.campaign.image
            /\ \A i \in DOMAIN m.campaign.rows :
                  LET row == m.campaign.rows[i] IN
                  /\ row.digest.execution = row.execution
                  /\ row.digest.image = m.image
                  /\ executed[row.execution] = m.campaign.pack

CertificationSound == VerifiedRunsDiffer /\ VerifiedRowsAgree /\ UndisturbedMatrixHolds
=============================================================================
