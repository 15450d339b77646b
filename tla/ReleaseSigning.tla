--------------------------- MODULE ReleaseSigning ---------------------------
(***************************************************************************)
(* How the Windows release candidate (rc4) and after it the final release  *)
(* become signed releases: scripts that run one after another, each on     *)
(* files another one left.                                                 *)
(*                                                                         *)
(*   stage    builds six artifacts twice from a clean checkout             *)
(*   enroll   derives the public key of a new authority (rc4 only)         *)
(*   draft    binds artifacts and key in the draft of a release lock       *)
(*   promote  makes the lock of the draft whose digest a human approved    *)
(*   sign     signs the artifacts that the committed lock names            *)
(*   import   takes the signed bundle of rc4 into the media root           *)
(*   rebind   binds the campaign records of rc4 to the final release       *)
(*                                                                         *)
(* A script reads a file at the step that names it, often twice, and       *)
(* whoever else works on the machine replaces files in between.  The six   *)
(* artifacts are one value: what they were built of.                       *)
(***************************************************************************)
EXTENDS Integers

CONSTANTS Absent,               \* a file that is not there
          MaxReplaced           \* how often others replace one file

Lines == {"rc4", "final"}
\* What artifacts, a checkout or campaign records are: of the release commit
\* and of the certified run, or of anything else.
Origins == {"right", "wrong"}
PreviousKey == "k0"             \* the authority of the release before rc4
SigningKeys == {PreviousKey, "k1", "k2"}

Locks == [art : Origins, key : SigningKeys]
\* A bundle: its artifacts, the artifacts and the signer of its manifest, and
\* the public key that lies beside it.
Signed == [art : Origins, listed : Origins, by : SigningKeys, key : SigningKeys]
Scripts == {"stage", "enroll", "draft", "promote", "sign", "import", "rebind"}

VARIABLES
    onDisk,         \* file, of a line -> contents
    script,         \* the script that runs, with what it has read
    replacements,   \* how often others replaced which file
    unnoticed       \* what was replaced where no script compares any more

signingVars == <<onDisk, script, replacements, unnoticed>>

NoScript == [name |-> "none", line |-> "rc4", at |-> 0,
             art |-> Absent, key |-> Absent, draft |-> Absent]

\* Files that there may be one of for each line; enrollment, secret, matrix,
\* media and the rebound evidence exist once.
PerLine == {"checkout", "artifacts", "proposal", "report", "draft", "public", "approval",
            "promoted", "lock", "bundle"}
Once == {"secret", "derived", "enrollment", "media", "matrix", "rebound"}
FileNames == (PerLine \X Lines) \cup (Once \X {"rc4"})

Contents(f) ==
    CASE f[1] \in {"checkout", "artifacts", "proposal", "report", "matrix"} -> Origins
      [] f[1] \in {"secret", "derived", "enrollment", "public"} -> SigningKeys
      [] f[1] \in {"draft", "promoted", "lock"} -> Locks
      [] f[1] = "approval" -> [draft : Locks, public : SigningKeys]
      [] f[1] \in {"bundle", "media"} -> Signed
      [] f[1] = "rebound" -> [campaigns : Origins, art : Origins, by : SigningKeys]

\* A file that is not there has none of the contents, and is no file's name.
ASSUME SigningAssumption ==
    /\ MaxReplaced \in Nat
    /\ Absent \notin FileNames /\ \A f \in FileNames : Absent \notin Contents(f)

SigningTypeOK ==
    /\ \A f \in FileNames : onDisk[f] \in Contents(f) \cup {Absent}
    /\ script.name \in Scripts \cup {"none"} /\ script.line \in Lines
    /\ replacements.of \in FileNames \cup {Absent} /\ replacements.times \in 0..MaxReplaced

SigningInit ==
    /\ onDisk = [f \in FileNames |-> CASE f[1] = "checkout" -> "right"
                                       [] f[1] = "secret" -> "k1"
                                       [] OTHER -> Absent]
    /\ script = NoScript /\ replacements = [of |-> Absent, times |-> 0] /\ unnoticed = {}

Of(name) == onDisk[<<name, script.line>>]
The(name) == onDisk[<<name, "rc4">>]
Here(name, l) == onDisk[<<name, l>>] # Absent

Starts(name, l) == /\ script = NoScript
                   /\ script' = [NoScript EXCEPT !.name = name, !.line = l, !.at = 1]
At(name, n) == script.name = name /\ script.at = n
\* A check that fails raises, and the script is over.
Proceeds(ok) == script' = IF ok THEN [script EXCEPT !.at = @ + 1] ELSE NoScript
Leaves(name, l, value) == onDisk' = [onDisk EXCEPT ![<<name, l>>] = value]
OthersStay == UNCHANGED <<replacements, unnoticed>>
Reads == OthersStay /\ UNCHANGED onDisk

(* ---- stage -------------------------------------------------------------- *)

\* The checkout is looked at once.  The final release is built on a commit
\* after the certified candidate and before any lock of its own.
StageBegins(l) ==
    /\ Starts("stage", l)
    /\ onDisk[<<"checkout", l>>] = "right"
    /\ l = "rc4" => ~Here("promoted", l)
    /\ l = "final" => Here("matrix", "rc4") /\ ~Here("lock", l)
    /\ onDisk' = [onDisk EXCEPT ![<<"artifacts", l>>] = Absent, ![<<"proposal", l>>] = Absent,
                                ![<<"report", l>>] = Absent]
    /\ OthersStay

BuildOnce ==
    /\ At("stage", 1)
    /\ script' = [script EXCEPT !.at = 2, !.art = Of("checkout")]
    /\ Reads

\* A second build must give the same bytes.
BuildAgain == At("stage", 2) /\ Proceeds(Of("checkout") = script.art) /\ Reads

CopyArtifacts ==
    /\ At("stage", 3)
    /\ Leaves("artifacts", script.line, script.art)
    /\ Proceeds(TRUE) /\ OthersStay

WriteProposal ==
    /\ At("stage", 4)
    /\ Leaves("proposal", script.line, Of("artifacts"))
    /\ Proceeds(TRUE) /\ OthersStay

WriteReport ==
    /\ At("stage", 5)
    /\ Leaves("report", script.line, Of("artifacts"))
    /\ script' = NoScript /\ OthersStay

(* ---- enroll ------------------------------------------------------------- *)

\* The public key of the protected private key, never that of the authority
\* before.  The workflow may be run again at the same head.
EnrollBegins ==
    /\ Starts("enroll", "rc4")
    /\ The("secret") # PreviousKey
    /\ onDisk' = [onDisk EXCEPT ![<<"derived", "rc4">>] = The("secret"),
                                ![<<"enrollment", "rc4">>] = Absent]
    /\ UNCHANGED replacements
    /\ unnoticed' = unnoticed \cup
           IF Here("draft", "rc4") THEN {<< <<"enrollment", "rc4">>, "enroll">>} ELSE {}

\* A challenge signed with the private key, read once more, verifies.
ProveKey ==
    /\ At("enroll", 1)
    /\ Leaves("enrollment", "rc4", IF The("secret") = The("derived") THEN The("derived")
                                                                         ELSE Absent)
    /\ script' = NoScript /\ OthersStay

(* ---- draft -------------------------------------------------------------- *)

DraftBegins(l) ==
    /\ script = NoScript
    /\ Here("report", l) /\ Here("enrollment", "rc4") /\ ~Here("promoted", l)
    /\ script' = [NoScript EXCEPT !.name = "draft", !.line = l, !.at = 1,
                              !.art = onDisk[<<"report", l>>]]
    /\ onDisk' = [onDisk EXCEPT ![<<"draft", l>>] = Absent, ![<<"public", l>>] = Absent]
    /\ OthersStay

\* The bytes are those of the staging report.
HashArtifacts == At("draft", 1) /\ Proceeds(Of("artifacts") = script.art) /\ Reads

MatchAuthority ==
    /\ At("draft", 2)
    /\ script' = IF The("derived") = The("enrollment")
                 THEN [script EXCEPT !.at = 3, !.key = The("derived")] ELSE NoScript
    /\ Reads

CopyAuthority ==
    /\ At("draft", 3)
    /\ Leaves("public", script.line, The("derived"))
    /\ Proceeds(The("derived") = script.key) /\ OthersStay

WriteDraft ==
    /\ At("draft", 4)
    /\ Leaves("draft", script.line, [art |-> script.art, key |-> script.key])
    /\ script' = NoScript /\ OthersStay

(* ---- review, promote, commit --------------------------------------------- *)

\* A human compares the draft with the reports it was made of and names the
\* digests of draft and key.
Approve(l) ==
    /\ Here("draft", l) /\ ~Here("promoted", l) /\ script.name # "promote"
    /\ onDisk[<<"draft", l>>] = [art |-> onDisk[<<"report", l>>], key |-> The("enrollment")]
    /\ Leaves("approval", l, [draft |-> onDisk[<<"draft", l>>],
                                   public |-> onDisk[<<"public", l>>]])
    /\ UNCHANGED script /\ OthersStay

\* The draft is parsed, and hashed at the next step.
PromoteBegins(l) ==
    /\ script = NoScript
    /\ Here("approval", l) /\ Here("draft", l) /\ ~Here("promoted", l)
    /\ script' = [NoScript EXCEPT !.name = "promote", !.line = l, !.at = 1,
                              !.draft = onDisk[<<"draft", l>>]]
    /\ Reads

\* Mutant of HashDraft: any draft is promoted.
DraftUnread == At("promote", 1) /\ Proceeds(TRUE) /\ Reads

HashDraft == At("promote", 1) /\ Proceeds(Of("draft") = Of("approval").draft) /\ Reads

MatchReviewedKey ==
    /\ At("promote", 2)
    /\ Proceeds(Of("public") = Of("approval").public /\ Of("public") = script.draft.key)
    /\ Reads

\* The key is copied and the copy hashed.
WriteLock ==
    /\ At("promote", 3)
    /\ IF Of("public") = Of("approval").public
       THEN Leaves("promoted", script.line, script.draft) ELSE UNCHANGED onDisk
    /\ script' = NoScript /\ OthersStay

\* The promoted lock and key are committed to the repository.
CommitLock(l) ==
    /\ Here("promoted", l) /\ ~Here("lock", l)
    /\ Leaves("lock", l, onDisk[<<"promoted", l>>])
    /\ UNCHANGED script /\ OthersStay

(* ---- sign --------------------------------------------------------------- *)

KeyMatches == The("secret") = Of("lock").key

SignBegins(l) ==
    /\ Starts("sign", l)
    /\ Here("lock", l) /\ Here("report", l) /\ ~Here("bundle", l)
    /\ onDisk[<<"checkout", l>>] = "right"
    /\ Reads

ProvePrivateKey == At("sign", 1) /\ Proceeds(KeyMatches) /\ Reads
MatchReport == At("sign", 2) /\ Proceeds(Of("report") = Of("lock").art) /\ Reads
\* Mutant of HashLocked: the report is believed.
ArtifactsUnread == At("sign", 3) /\ Proceeds(TRUE) /\ Reads

HashLocked == At("sign", 3) /\ Proceeds(Of("artifacts") = Of("lock").art) /\ Reads

MatchProposal == At("sign", 4) /\ Proceeds(Of("proposal") = Of("lock").art) /\ Reads

\* The manifest is made of the artifacts as they are now.
SignManifest ==
    /\ At("sign", 5)
    /\ script' = [script EXCEPT !.at = 6, !.art = Of("artifacts"), !.key = The("secret")]
    /\ Reads

\* Mutant of ManifestHolds: whose signature it is is not looked at.
FilesHold == Of("artifacts") = script.art

\* The manifest agrees with the artifacts and the locked key; of the lock only
\* the names of artifacts are compared.  Then it is published with them.
ManifestHolds == Of("artifacts") = script.art /\ script.key = Of("lock").key

PublishSigned ==
    /\ At("sign", 6)
    /\ IF ManifestHolds
       THEN Leaves("bundle", script.line,
                        [art |-> script.art, listed |-> script.art, by |-> script.key,
                         key |-> Of("lock").key])
       ELSE UNCHANGED onDisk
    /\ script' = NoScript /\ OthersStay

(* ---- import ------------------------------------------------------------- *)

\* The inventory of the bundle agrees with its files and with the lock.
ImportBegins ==
    /\ Starts("import", "rc4")
    /\ Here("bundle", "rc4") /\ ~Here("media", "rc4")
    /\ The("bundle").art = The("lock").art
    /\ Reads

\* Key and manifest do too.
VerifiesItself(b) == b.listed = b.art /\ b.by = b.key

\* Mutant of BundleHolds: the bundle is verified with its own key.
SelfOnly(b) == VerifiesItself(b)

BundleHolds(b) == b.key = The("lock").key /\ VerifiesItself(b)

VerifyBundle == At("import", 1) /\ Proceeds(BundleHolds(The("bundle"))) /\ Reads

\* A copy is compared with what it was copied of.
CopyBundle ==
    /\ At("import", 2)
    /\ Leaves("media", "rc4", The("bundle"))
    /\ script' = NoScript /\ OthersStay

\* Windows workers made of the imported release run the campaigns.
CampaignsRun ==
    /\ Here("media", "rc4") /\ ~Here("matrix", "rc4")
    /\ Leaves("matrix", "rc4", "right")
    /\ UNCHANGED script /\ OthersStay

(* ---- rebind ------------------------------------------------------------- *)

\* Both checkouts are clean, and the matrix is that of the hardened closure.
RebindBegins ==
    /\ Starts("rebind", "final")
    /\ Here("bundle", "final") /\ ~Here("rebound", "rc4")
    /\ \A l \in Lines : onDisk[<<"checkout", l>>] = "right"
    /\ The("matrix") = "right"
    /\ Reads

ReadCampaigns ==
    /\ At("rebind", 1)
    /\ script' = [script EXCEPT !.at = 2, !.art = The("matrix")]
    /\ Reads

\* The status of the campaign names the digest of the matrix.
MatchStatus == At("rebind", 2) /\ Proceeds(The("matrix") = "right") /\ Reads

\* The signed release is verified with the key that lies beside it.
VerifyFinal == At("rebind", 3) /\ Proceeds(VerifiesItself(Of("bundle"))) /\ Reads

\* Building the binding verifies the release once more.
BindEvidence ==
    /\ At("rebind", 4)
    /\ IF VerifiesItself(Of("bundle"))
       THEN Leaves("rebound", "rc4", [campaigns |-> script.art, art |-> Of("bundle").art,
                                           by |-> Of("bundle").by])
       ELSE UNCHANGED onDisk
    /\ script' = NoScript /\ OthersStay

(* ---- the world ---------------------------------------------------------- *)

ScriptDies == script # NoScript /\ script' = NoScript /\ Reads

\* What is replaced without any later comparison: a checkout between the check
\* and the builds, artifacts that only the next step hashes, a draft that was
\* parsed, a bundle that was verified, a matrix that is read once more, and
\* what nothing is ever compared with: reports, enrollments and the whole of a
\* signed release.
Uncompared(f) ==
    \/ f[1] \in {"report", "derived", "enrollment", "bundle"}
    \/ f = <<"matrix", "rc4">> /\ script.name = "rebind" /\ script.at < 3
    \/ /\ script.line = f[2]
       /\ \/ f[1] = "checkout" /\ script.name = "stage" /\ script.at < 3
          \/ f[1] = "artifacts" /\ script.name = "stage" /\ script.at \in {4, 5}
          \/ f[1] = "artifacts" /\ script.name = "sign" /\ script.at \in {4, 5}
          \/ f[1] = "draft" /\ script.name = "promote" /\ script.at = 1

Replaceable == {"checkout", "artifacts", "proposal", "report", "draft", "public", "derived",
                "enrollment", "secret", "bundle", "matrix"}

\* Others replace what is there by something else of the kind.  A bundle is
\* exchanged for another one, or loses its artifacts to others.
Replace(f) ==
    /\ replacements.of \in {f, Absent} /\ replacements.times < MaxReplaced
    /\ replacements' = [of |-> f, times |-> replacements.times + 1]
    /\ f[1] \in Replaceable /\ onDisk[f] # Absent
    /\ \E v \in Contents(f) \ {onDisk[f]} :
          /\ f[1] = "bundle" => \/ v = [onDisk[f] EXCEPT !.art = v.art]
                                \/ VerifiesItself(v)
          /\ onDisk' = [onDisk EXCEPT ![f] = v]
    /\ unnoticed' = unnoticed \cup IF Uncompared(f) THEN {<<f, script.name>>} ELSE {}
    /\ UNCHANGED script

SigningNext ==
    \/ \E l \in Lines : \/ StageBegins(l) \/ DraftBegins(l) \/ Approve(l) \/ PromoteBegins(l)
                        \/ CommitLock(l) \/ SignBegins(l)
    \/ BuildOnce \/ BuildAgain \/ CopyArtifacts \/ WriteProposal \/ WriteReport
    \/ EnrollBegins \/ ProveKey
    \/ HashArtifacts \/ MatchAuthority \/ CopyAuthority \/ WriteDraft
    \/ HashDraft \/ MatchReviewedKey \/ WriteLock
    \/ ProvePrivateKey \/ MatchReport \/ HashLocked \/ MatchProposal \/ SignManifest
    \/ PublishSigned
    \/ ImportBegins \/ VerifyBundle \/ CopyBundle \/ CampaignsRun
    \/ RebindBegins \/ ReadCampaigns \/ MatchStatus \/ VerifyFinal \/ BindEvidence
    \/ ScriptDies
    \/ \E f \in FileNames : Replace(f)

SigningSpec == SigningInit /\ [][SigningNext]_signingVars

(* ---- properties --------------------------------------------------------- *)

Replaced(name, l) == \E u \in unnoticed : u[1] = <<name, l>>
ReplacedDuring(name, l, s) == <<<<name, l>>, s>> \in unnoticed

\* What the lock names was built of the release commit: a checkout that is
\* edited while it is built, artifacts that are replaced before they are first
\* hashed and a staging report that is replaced are what no script can see.
LockIsBuilt(l) ==
    LET lock == onDisk[<<"lock", l>>] IN
    lock # Absent => \/ lock.art = "right"
                     \/ \E f \in {"checkout", "artifacts"} : ReplacedDuring(f, l, "stage")
                     \/ Replaced("report", l) \/ Replaced("draft", l)

\* The lock is what a human approved, unless the draft was replaced after it
\* was parsed: the bytes that are hashed are then not those that are promoted.
LockIsReviewed(l) ==
    onDisk[<<"lock", l>>] # Absent =>
        onDisk[<<"lock", l>>] = onDisk[<<"approval", l>>].draft \/ Replaced("draft", l)

\* What is signed is what the lock names, by the key it names.  Artifacts that
\* are replaced after they were hashed are signed: the manifest is made of
\* another reading, and only their names are compared with the lock.
SignedIsLocked(l) ==
    LET signed == onDisk[<<"bundle", l>>]
        lock == onDisk[<<"lock", l>>]
    IN  signed # Absent /\ ~Replaced("bundle", l) =>
            /\ signed.by = lock.key
            /\ signed.listed = lock.art \/ ReplacedDuring("artifacts", l, "sign")

\* What is imported is what the lock names, even where something else was
\* signed: only a bundle that is replaced while it is imported can differ.
ImportedIsLocked ==
    LET media == The("media")
        lock == The("lock")
    IN  media # Absent /\ ~ReplacedDuring("bundle", "rc4", "import") =>
            media = [art |-> lock.art, listed |-> lock.art, by |-> lock.key, key |-> lock.key]

\* The evidence of the final release is that of the certified candidate, bound
\* to the release that was signed.  The rebinding never reads the lock: it takes
\* any release that its own key verifies.
ReboundIsSigned ==
    LET rebound == The("rebound")
        lock == onDisk[<<"lock", "final">>]
    IN  rebound # Absent =>
            /\ rebound.campaigns = "right" \/ Replaced("matrix", "rc4")
            /\ Replaced("bundle", "final") \/ rebound.by = lock.key
            /\ \/ Replaced("bundle", "final") \/ ReplacedDuring("artifacts", "final", "sign")
               \/ rebound.art = lock.art

\* Candidate and final release have one authority: their enrollment is compared
\* with itself only, so that a second enrollment goes unnoticed.
OneAuthority ==
    LET lock(l) == onDisk[<<"lock", l>>] IN
    lock("rc4") # Absent /\ lock("final") # Absent =>
        \/ lock("rc4").key = lock("final").key
        \/ Replaced("enrollment", "rc4") \/ Replaced("draft", "final") \/ Replaced("draft", "rc4")

\* The way of the release from its commit to its evidence: what a later script
\* works on is what an earlier one left, a human reviewed and the lock names.
SignedAsReviewed ==
    /\ \A l \in Lines : LockIsBuilt(l) /\ LockIsReviewed(l) /\ SignedIsLocked(l)
    /\ ImportedIsLocked /\ ReboundIsSigned /\ OneAuthority
=============================================================================
