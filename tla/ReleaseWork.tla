---------------------------- MODULE ReleaseWork ----------------------------
(***************************************************************************)
(* What is done for a release: Windows images are certified, artifacts are  *)
(* built, locked and signed, the evidence of the gates is collected and     *)
(* attested, the release is published on GitHub, the branches of the work   *)
(* on it are removed, and it is closed.                                     *)
(*                                                                         *)
(* Each of the six goes by files, receipts and GitHub, never by the state   *)
(* of another one: what a later one needs of an earlier one it looks up,    *)
(* and its module allows for every answer.  So a property of one holds of   *)
(* them all if it holds while that one moves and the others stay as they    *)
(* started.  That is what is checked: `moving` is the one that moves.       *)
(***************************************************************************)
EXTENDS CertificationCampaign, EvidenceChain, ReleasePublication, BranchCleanup,
        ReleaseClosure, ReleaseSigning

VARIABLE moving

ReleaseTasks == {"certification", "evidence", "publication", "cleanup", "closing", "signing"}

releaseWorkVars == <<certVars, evidenceVars, publicationVars, cleanupVars, closingVars,
                     signingVars, moving>>

WorkInit ==
    /\ moving \in ReleaseTasks
    /\ CertInit /\ EvidenceInit /\ PublicationInit /\ CleanupInit /\ ClosureInit
    /\ SigningInit
    \* a task that stays is in one of its initial states
    /\ moving # "evidence" => \A r \in DOMAIN evidence : evidence[r].sound
    /\ moving # "publication" => ~immutability
    /\ moving # "cleanup" => \A b \in Branches : refs[b] = NoRef
    /\ moving # "closing" => world.published = Nothing /\ world.clean /\ ~world.stale

CertMoves == moving = "certification" /\ CertNext
EvidenceMoves == moving = "evidence" /\ EvidenceNext
PublicationMoves == moving = "publication" /\ PublicationNext
CleanupMoves == moving = "cleanup" /\ CleanupNext
ClosureMoves == moving = "closing" /\ ClosureNext
SigningMoves == moving = "signing" /\ SigningNext

WorkNext ==
    /\ UNCHANGED moving
    /\ \/ /\ SigningMoves
          /\ UNCHANGED <<certVars, evidenceVars, publicationVars, cleanupVars, closingVars>>
       \/ /\ UNCHANGED signingVars
          /\ \/ /\ CertMoves
                /\ UNCHANGED <<evidenceVars, publicationVars, cleanupVars, closingVars>>
             \/ /\ EvidenceMoves
                /\ UNCHANGED <<certVars, publicationVars, cleanupVars, closingVars>>
             \/ /\ PublicationMoves
                /\ UNCHANGED <<certVars, evidenceVars, cleanupVars, closingVars>>
             \/ /\ CleanupMoves
                /\ UNCHANGED <<certVars, evidenceVars, publicationVars, closingVars>>
             \/ /\ ClosureMoves
                /\ UNCHANGED <<certVars, evidenceVars, publicationVars, cleanupVars>>

WorkSpec == WorkInit /\ [][WorkNext]_releaseWorkVars

\* Every task has the values its code can give it: no certifier with a result
\* the worker did not give, no closure of a part of the gates, no operator or
\* cleaner that remembers what it is done with.
ReleaseTypeOK ==
    /\ CampaignTypeOK /\ EvidenceTypeOK /\ PublicationTypeOK /\ CleanupTypeOK /\ ClosureTypeOK
    /\ SigningTypeOK

\* The release and the branches of the work on it: what a receipt or an error
\* message of the scripts says is so, and what is signed was built and reviewed.
ReleaseSound == PublicationSound /\ CleanupSound /\ SignedAsReviewed
=============================================================================
