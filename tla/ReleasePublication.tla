------------------------- MODULE ReleasePublication -------------------------
(***************************************************************************)
(* The publication of the final release on GitHub, as an operator runs it  *)
(* (scripts/ga/publish_final_immutable_release.py and the two modules it    *)
(* is made of): immutable releases are switched on, a draft is created, the *)
(* planned assets are uploaded and compared, the draft is published and     *)
(* compared once more.  What fails before the publication is rolled back.   *)
(*                                                                         *)
(* Each step is one call of gh.  A call may fail, and one that changes      *)
(* something may fail after it has done so; the operator's process may      *)
(* die; a second operator may run the same plan, and a maintainer may use   *)
(* the web page of the release meanwhile.                                  *)
(***************************************************************************)
EXTENDS Naturals, FiniteSets

CONSTANTS
    Operators,        \* processes that execute the plan
    Assets,           \* the planned assets, nine in the code
    Ids,              \* database ids GitHub may give to releases
    MaxTroubles       \* bound: calls that fail, processes that die and what
                      \* maintainers do

ASSUME PublicationAssumption ==
    /\ IsFiniteSet(Ids) /\ Ids \subseteq Nat \ {0} /\ Assets # {}
    /\ MaxTroubles \in Nat

VARIABLES
    immutability, \* the repository's setting: new releases are immutable
    releases,     \* per id: the release of tag v2.0.0, drafts included
    tagged,       \* the tag v2.0.0 exists
    operator,     \* per operator: where execute_plan is
    troubles,     \* how many there were
    undisturbed,  \* history: the operator that met no release, no other operator
                  \* and no maintainer, and was told that its draft exists
    undone        \* history: published releases a rollback deleted

github == <<immutability, releases, tagged>>
publicationVars == <<github, operator, troubles, undisturbed, undone>>

\* exact: the planned bytes; other: anything else under that name.
AssetStates == {"absent", "exact", "other"}
NoAssets == [a \in Assets |-> "absent"]
Release == [state: {"none", "draft", "published", "deleted"},
            immutable: BOOLEAN, assets: [Assets -> AssetStates]]
Unmade == [state |-> "none", immutable |-> FALSE, assets |-> NoAssets]

Forward == {"releaseAbsent", "tagAbsent", "setting", "enable", "enabled", "create", "view",
            "upload", "publish"}
Verification == {"viewPublished", "tag", "comparePublished"}
Rollback == {"viewDraft", "delete", "draftGone", "tagGone", "noDraft", "noTag", "stillEnabled", "disable", "disabled"}
\* What it prints at the end; where it says that it could not finish or does
\* not know, it is idle again.
Outcomes == {"passed", "rolledBack"}

\* changed: immutable_changed, the setting was off; made: draft_created;
\* id: release_id; again: reconciling.
Operator == [at: {"idle"} \cup Forward \cup Verification \cup Rollback \cup Outcomes,
             changed: BOOLEAN, made: BOOLEAN, id: Ids \cup {0}, again: BOOLEAN]
IdleOperator == [at |-> "idle", changed |-> FALSE, made |-> FALSE, id |-> 0, again |-> FALSE]

PublicationTypeOK ==
    /\ immutability \in BOOLEAN /\ tagged \in BOOLEAN
    /\ releases \in [Ids -> Release]
    /\ operator \in [Operators -> Operator]
    /\ undisturbed \subseteq Operators /\ undone \subseteq Ids

PublicationInit ==
    /\ immutability \in BOOLEAN
    /\ releases = [i \in Ids |-> Unmade]
    /\ tagged = FALSE
    /\ operator = [o \in Operators |-> IdleOperator]
    /\ troubles = 0
    /\ undisturbed = {} /\ undone = {}

-----------------------------------------------------------------------------
(* GitHub *)

InState(state) == {i \in Ids : releases[i].state = state}

\* gh finds the release of a tag: the published one, else one of the drafts.
Resolves(i) ==
    IF InState("published") # {} THEN i \in InState("published") ELSE i \in InState("draft")

\* GET releases/tags/v2.0.0 finds what is published; the code asks it for drafts
\* as well, which GitHub does not promise.
ByTag == IF InState("published") # {} THEN {TRUE}
         ELSE IF InState("draft") # {} THEN BOOLEAN ELSE {FALSE}

HasAllAssets(i) == releases[i].assets = [a \in Assets |-> "exact"]

\* A tag has one published release.
AsPublished(i) ==
    /\ InState("published") = {}
    /\ releases' = [releases EXCEPT ![i].state = "published", ![i].immutable = immutability]
    /\ tagged' = TRUE

AsDeleted(i) ==
    /\ releases' = [releases EXCEPT ![i].state = "deleted"]
    /\ tagged' = (tagged /\ releases[i].state # "published")
    /\ undone' = IF releases[i].state = "published" THEN undone \cup {i} ELSE undone

-----------------------------------------------------------------------------
(* One operator *)

OperatorAt(o, place) == operator[o].at = place
Busy(o) == operator[o].at \in Forward \cup Verification \cup Rollback

Continue(o, place) == operator' = [operator EXCEPT ![o].at = place]

\* Where an exception takes execute_plan.
Raised(o) ==
    LET at == operator[o].at IN
    IF at = "publish" \/ (at \in Verification /\ ~operator[o].again) THEN "viewPublished"
    ELSE IF at \in Forward \ {"releaseAbsent", "tagAbsent", "setting"}
         THEN IF operator[o].made THEN "viewDraft" ELSE "noDraft"
         ELSE "idle"

\* The second verification is the reconciliation.
Raise(o) ==
    operator' = [operator EXCEPT ![o] =
        IF Raised(o) = "idle" THEN IdleOperator
        ELSE [@ EXCEPT !.at = Raised(o),
                       !.again = operator[o].again \/ Raised(o) = "viewPublished"]]

Quiet == UNCHANGED <<troubles, undisturbed>>

\* A call that only reads: ok says whether what it reads is as required.
Check(o, place, ok, next) ==
    /\ OperatorAt(o, place)
    /\ IF ok THEN Continue(o, next) ELSE Raise(o)
    /\ Quiet /\ UNCHANGED <<github, undone>>

BeginPublication(o) ==
    /\ operator[o].at \in {"idle", "rolledBack"}
    /\ operator' = [operator EXCEPT ![o] = [IdleOperator EXCEPT !.at = "releaseAbsent"]]
    /\ LET alone == ~\E p \in Operators \ {o} : Busy(p)
       IN  undisturbed' = IF alone /\ InState("draft") \cup InState("published") = {}
                          THEN {o} ELSE {}
    /\ UNCHANGED <<github, troubles, undone>>

PreflightRelease(o) == \E found \in ByTag : Check(o, "releaseAbsent", ~found, "tagAbsent")
PreflightTag(o) == Check(o, "tagAbsent", ~tagged, "setting")

ReadSetting(o) ==
    /\ OperatorAt(o, "setting")
    /\ operator' = [operator EXCEPT ![o].changed = ~immutability,
                                    ![o].at = IF immutability THEN "create" ELSE "enable"]
    /\ Quiet /\ UNCHANGED <<github, undone>>

Enable(o) ==
    /\ OperatorAt(o, "enable")
    /\ immutability' = TRUE
    /\ Continue(o, "enabled")
    /\ Quiet /\ UNCHANGED <<releases, tagged, undone>>

VerifyEnabled(o) == Check(o, "enabled", immutability, "create")

NewDraft(i) ==
    /\ i \in InState("none") /\ \A j \in InState("none") : i <= j
    /\ releases' = [releases EXCEPT ![i].state = "draft"]

CreateDraft(o) ==
    /\ OperatorAt(o, "create")
    /\ \E i \in Ids : NewDraft(i)
    /\ operator' = [operator EXCEPT ![o].made = TRUE, ![o].at = "view"]
    /\ Quiet /\ UNCHANGED <<immutability, tagged, undone>>

\* _verify_release_identity: it must be the draft, or the published one, of
\* this tag, name and target, which every draft of this plan is.
ViewDraft(o) ==
    /\ OperatorAt(o, "view")
    /\ \/ \E i \in Ids :
             /\ Resolves(i)
             /\ IF releases[i].state = "draft"
                THEN operator' = [operator EXCEPT ![o].id = i, ![o].at = "upload"]
                ELSE Raise(o)
       \/ (\A i \in Ids : ~Resolves(i)) /\ Raise(o)
    /\ Quiet /\ UNCHANGED <<github, undone>>

\* The bundle was verified when the plan was made; the file may have changed.
Upload(o, a, bytes) ==
    /\ OperatorAt(o, "upload")
    /\ bytes = "other" => troubles < MaxTroubles
    /\ troubles' = IF bytes = "other" THEN troubles + 1 ELSE troubles
    /\ \/ \E i \in Ids :
             /\ Resolves(i)
             /\ IF releases[i].immutable \/ releases[i].assets[a] # "absent"
                THEN Raise(o) /\ UNCHANGED releases
                ELSE /\ releases' = [releases EXCEPT ![i].assets[a] = bytes]
                     /\ UNCHANGED operator
       \/ (\A i \in Ids : ~Resolves(i)) /\ Raise(o) /\ UNCHANGED releases
    /\ UNCHANGED <<immutability, tagged, undisturbed, undone>>

\* Mutant of SameAssets: the names are compared, the digests are not.
SameNames(i) == \A a \in Assets : releases[i].assets[a] # "absent"

\* verify_remote_assets
SameAssets(i) == HasAllAssets(i)

CompareDraft(o) ==
    LET i == operator[o].id IN
    /\ OperatorAt(o, "upload")
    /\ IF releases[i].state # "deleted" /\ SameAssets(i) THEN Continue(o, "publish") ELSE Raise(o)
    /\ Quiet /\ UNCHANGED <<github, undone>>

PublishRelease(o) ==
    /\ OperatorAt(o, "publish")
    /\ \/ \E i \in Ids :
             /\ Resolves(i)
             /\ IF releases[i].state = "draft" THEN AsPublished(i)
                                               ELSE UNCHANGED <<releases, tagged>>
             /\ Continue(o, "viewPublished")
       \/ (\A i \in Ids : ~Resolves(i)) /\ Raise(o) /\ UNCHANGED <<releases, tagged>>
    /\ Quiet /\ UNCHANGED <<immutability, undone>>

\* _verify_published_remote, in three calls.
ViewPublished(o) ==
    LET i == operator[o].id IN
    Check(o, "viewPublished", releases[i].state = "published" /\ releases[i].immutable, "tag")
VerifyTag(o) == Check(o, "tag", tagged, "comparePublished")
ComparePublished(o) ==
    LET i == operator[o].id IN
    Check(o, "comparePublished", releases[i].state # "deleted" /\ SameAssets(i), "passed")

-----------------------------------------------------------------------------
(* _rollback_pre_publish *)

\* Mutant of SettingNext: the setting is put back although it was on before.
SettingNextAlways(o) == "stillEnabled"

SettingNext(o) == IF operator[o].changed THEN "stillEnabled" ELSE "rolledBack"

ViewForRollback(o) ==
    Check(o, "viewDraft", InState("published") = {} /\ InState("draft") # {}, "delete")

DeleteDraft(o) ==
    /\ OperatorAt(o, "delete")
    /\ \/ \E i \in Ids : Resolves(i) /\ AsDeleted(i) /\ Continue(o, "draftGone")
       \/ (\A i \in Ids : ~Resolves(i)) /\ Raise(o) /\ UNCHANGED <<releases, tagged, undone>>
    /\ Quiet /\ UNCHANGED immutability

DraftGone(o) == \E found \in ByTag : Check(o, "draftGone", ~found, "tagGone")
TagGone(o) == Check(o, "tagGone", ~tagged, SettingNext(o))

\* The creation failed: nothing is deleted that was not confirmed.
NoDraft(o) == \E found \in ByTag : Check(o, "noDraft", ~found, "noTag")
NoTag(o) == Check(o, "noTag", ~tagged, SettingNext(o))

StillEnabled(o) ==
    /\ OperatorAt(o, "stillEnabled")
    /\ Continue(o, IF immutability THEN "disable" ELSE "rolledBack")
    /\ Quiet /\ UNCHANGED <<github, undone>>

Disable(o) ==
    /\ OperatorAt(o, "disable")
    /\ immutability' = FALSE
    /\ Continue(o, "disabled")
    /\ Quiet /\ UNCHANGED <<releases, tagged, undone>>

VerifyDisabled(o) == Check(o, "disabled", ~immutability, "rolledBack")

-----------------------------------------------------------------------------
(* What goes wrong *)

\* A call fails; one that changes something may have done so.  A draft that
\* exists although its creation failed is a disturbance of its own.
Effect(o) ==
    \/ OperatorAt(o, "enable") /\ immutability' = TRUE /\ UNCHANGED <<releases, tagged, undone>>
    \/ /\ OperatorAt(o, "create") /\ \E i \in Ids : NewDraft(i)
       /\ UNCHANGED <<immutability, tagged, undone>>
    \/ /\ OperatorAt(o, "publish") /\ \E i \in InState("draft") : Resolves(i) /\ AsPublished(i)
       /\ UNCHANGED <<immutability, undone>>
    \/ /\ OperatorAt(o, "delete") /\ \E i \in Ids : Resolves(i) /\ AsDeleted(i)
       /\ UNCHANGED immutability
    \/ OperatorAt(o, "disable") /\ immutability' = FALSE /\ UNCHANGED <<releases, tagged, undone>>

CallFails(o) ==
    /\ Busy(o) /\ troubles < MaxTroubles
    /\ troubles' = troubles + 1
    /\ Raise(o)
    /\ \/ UNCHANGED <<github, undone, undisturbed>>
       \/ /\ Effect(o)
          /\ undisturbed' = IF OperatorAt(o, "create") THEN undisturbed \ {o} ELSE undisturbed

\* The process is killed; a call it had sent may still take effect.
OperatorDies(o) ==
    /\ Busy(o) /\ troubles < MaxTroubles
    /\ troubles' = troubles + 1
    /\ operator' = [operator EXCEPT ![o] = IdleOperator]
    /\ UNCHANGED <<github, undone>> \/ Effect(o)
    /\ undisturbed' = {}

\* A maintainer changes the setting, replaces an asset of a draft, publishes
\* it or deletes it.
Intervenes ==
    /\ troubles < MaxTroubles
    /\ troubles' = troubles + 1
    /\ undisturbed' = {}
    /\ \/ immutability' \in BOOLEAN \ {immutability} /\ UNCHANGED <<releases, tagged, undone>>
       \/ \E i \in InState("draft") :
             \/ /\ \E a \in Assets : releases' = [releases EXCEPT ![i].assets[a] = "other"]
                /\ UNCHANGED <<immutability, tagged, undone>>
             \/ AsPublished(i) /\ UNCHANGED <<immutability, undone>>
             \/ AsDeleted(i) /\ UNCHANGED immutability
    /\ UNCHANGED operator

Executes(o) ==
    \/ BeginPublication(o) \/ PreflightRelease(o) \/ PreflightTag(o) \/ ReadSetting(o)
    \/ Enable(o) \/ VerifyEnabled(o) \/ CreateDraft(o) \/ ViewDraft(o)
    \/ (\E a \in Assets, bytes \in {"exact", "other"} : Upload(o, a, bytes))
    \/ CompareDraft(o) \/ PublishRelease(o)
    \/ ViewPublished(o) \/ VerifyTag(o) \/ ComparePublished(o)

RollsBack(o) ==
    \/ ViewForRollback(o) \/ DeleteDraft(o) \/ DraftGone(o) \/ TagGone(o)
    \/ NoDraft(o) \/ NoTag(o) \/ StillEnabled(o) \/ Disable(o) \/ VerifyDisabled(o)

PublicationNext ==
    \/ \E o \in Operators : Executes(o) \/ RollsBack(o) \/ CallFails(o) \/ OperatorDies(o)
    \/ Intervenes

PublicationSpec == PublicationInit /\ [][PublicationNext]_publicationVars

-----------------------------------------------------------------------------
\* A PASS receipt names a release that is published, immutable and holds the
\* planned bytes, for good and whoever else was at work, unless the rollback of
\* another operator deleted it, which deletes by tag.
PassedIsForGood ==
    \A o \in Operators : OperatorAt(o, "passed") =>
        LET r == operator[o].id IN
        \/ r \in undone
        \/ releases[r].state = "published" /\ releases[r].immutable /\ HasAllAssets(r) /\ tagged

\* An operator whom nobody disturbs never leaves a published release that is
\* mutable or incomplete, whatever calls failed; and when it says that it has
\* rolled back there is no draft and no tag, and the setting is what it was.
UndisturbedIsAllOrNothing ==
    \A o \in undisturbed :
        /\ \A i \in InState("published") : releases[i].immutable /\ HasAllAssets(i)
        /\ OperatorAt(o, "rolledBack") =>
              InState("draft") = {} /\ ~tagged /\ immutability = ~operator[o].changed

PublicationSound == PassedIsForGood /\ UndisturbedIsAllOrNothing
=============================================================================
