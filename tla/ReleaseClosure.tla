---------------------------- MODULE ReleaseClosure ----------------------------
(***************************************************************************)
(* The end of a release (scripts/ga): receipts that the release on GitHub   *)
(* is immutable, that the documentation of the repository's head describes  *)
(* it, that no stale work is left and that the head was scanned, and the    *)
(* final verification that looks at everything once more and closes the     *)
(* release.                                                                *)
(*                                                                         *)
(* Every command looks at the state of GitHub and of the checkout when it   *)
(* runs, which goes on changing, and its receipt may be old when another    *)
(* command reads it.  A receipt is created exclusively: one that is there   *)
(* has to be removed before the command can be run again.                  *)
(***************************************************************************)
EXTENDS Naturals, FiniteSets

CONSTANTS
    ReleaseIds,   \* ids that GitHub gives to releases of the tag, numbers
    Heads,        \* commits the checkout may be at, numbers
    MaxChanges    \* bound: changes of the world

ASSUME ClosureAssumption ==
    /\ ReleaseIds \subseteq Nat \ {0} /\ Heads \subseteq Nat \ {0} /\ 1 \in Heads
    /\ MaxChanges \in Nat

VARIABLES
    world,      \* GitHub and the checkout
    receipts,   \* the receipts on the disk
    record,     \* the documentation record: which release and head it is of
    verifier,   \* the final verification under way
    changes,    \* how many changes of the world there were
    overtaken   \* history: what changed after the final verification's look

closingVars == <<world, receipts, record, verifier, changes, overtaken>>

Nothing == 0
\* published: the immutable release of the tag; head, clean: of the checkout;
\* stale: there is a stale branch or pull request; ready: the artifact of the
\* readiness run has not expired and the lock's commit is on GitHub.
World == [published : ReleaseIds \cup {Nothing}, head : Heads, clean : BOOLEAN,
          stale : BOOLEAN, ready : BOOLEAN]
Aspects == {"ready", "published", "head", "clean", "stale"}

\* state: whether the file is missing, torn or whole; id and head: what it says.
Receipt == [state : {"missing", "torn", "whole"}, id : ReleaseIds \cup {Nothing},
            head : Heads \cup {Nothing}]
Missing == [state |-> "missing", id |-> Nothing, head |-> Nothing]
Kinds == {"immutable", "documentation", "cleanup", "scan", "closed"}

\* The looks of the final verification, in order.
Looks == <<"ready", "immutable", "documentation", "cleanup", "scan", "write">>
Idle == [at |-> 0, read |-> [k \in Kinds |-> Missing], record |-> Missing]

ClosureTypeOK ==
    /\ world \in World /\ receipts \in [Kinds -> Receipt] /\ record \in Receipt
    /\ verifier.at \in 0..6 /\ verifier.read \in [Kinds -> Receipt]
    /\ changes \in 0..MaxChanges /\ overtaken \subseteq Aspects

ClosureInit ==
    /\ world \in World /\ world.head = 1 /\ world.ready
    /\ receipts = [k \in Kinds |-> Missing] /\ record = Missing
    /\ verifier = Idle /\ changes = 0 /\ overtaken = {}

-----------------------------------------------------------------------------
(* The world *)

\* The look of the final verification that sees an aspect last.
LastLook(a) == CASE a = "ready" -> 1 [] a = "published" -> 2
                 [] a \in {"head", "clean"} -> 5 [] a = "stale" -> 4

Changes(a, value) ==
    /\ changes < MaxChanges /\ world[a] # value
    /\ world' = [world EXCEPT ![a] = value]
    /\ changes' = changes + 1
    /\ overtaken' = IF verifier.at > LastLook(a) THEN overtaken \cup {a} ELSE overtaken
    /\ UNCHANGED <<receipts, record, verifier>>

\* The owner publishes, or deletes what was published; a release that is
\* published again has another id.
ReleaseChanges ==
    \E id \in ReleaseIds \cup {Nothing} :
        /\ id = Nothing \/ id > world.published
        /\ Changes("published", id)
CheckoutMoves == \E h \in Heads : h > world.head /\ Changes("head", h)
TreeChanges == \E b \in BOOLEAN : Changes("clean", b)
StaleWorkChanges == \E b \in BOOLEAN : Changes("stale", b)
ReadinessExpires == Changes("ready", FALSE)

-----------------------------------------------------------------------------
(* The receipts *)

\* _write_..._receipt: created exclusively, written and read back; a command
\* that dies in between leaves a part of it.
Issue(kind, id, head) ==
    /\ receipts[kind].state = "missing"
    /\ \E state \in {"torn", "whole"} :
          receipts' = [receipts EXCEPT ![kind] = [state |-> state, id |-> id, head |-> head]]

Whole(kind) == receipts[kind].state = "whole"
WorldStays == UNCHANGED <<world, changes, overtaken>>

RemoveReceipt(kind) ==
    /\ receipts[kind] # Missing
    /\ receipts' = [receipts EXCEPT ![kind] = Missing]
    /\ UNCHANGED <<record, verifier>> /\ WorldStays

\* verify_final_immutable_release.py: settings, release, assets and tag.
LooksImmutable(w) == w.published # Nothing
VerifyImmutableRelease ==
    /\ LooksImmutable(world)
    /\ Issue("immutable", world.published, Nothing)
    /\ UNCHANGED <<record, verifier>> /\ WorldStays

\* The record is written by hand, for a release and a head.
WriteRecord ==
    /\ \E id \in ReleaseIds, h \in Heads :
          /\ id <= world.published /\ h <= world.head
          /\ record' = [state |-> "whole", id |-> id, head |-> h]
    /\ UNCHANGED <<receipts, verifier>> /\ WorldStays

\* verify_final_documentation_state.py: the record is of the release of the
\* receipt and of the head of the checkout, whose documents have its digests.
Documents(w, rec, immutable) ==
    rec.state = "whole" /\ rec.id = immutable.id /\ rec.head = w.head

VerifyDocumentation ==
    /\ Whole("immutable") /\ Documents(world, record, receipts["immutable"])
    /\ Issue("documentation", record.id, record.head)
    /\ UNCHANGED <<record, verifier>> /\ WorldStays

\* Mutant of NothingStale: the receipt of the cleanup is enough.
CleanupReceipted(w) == TRUE

NothingStale(w) == ~w.stale

\* verify_stale_release_work_cleanup.py: its receipt names no release id.
VerifyCleanup ==
    /\ Whole("immutable") /\ NothingStale(world)
    /\ Issue("cleanup", Nothing, Nothing)
    /\ UNCHANGED <<record, verifier>> /\ WorldStays

\* certify: a clean checkout, scanned, at the head of the documentation.
Certifies(w, documentation) == w.clean /\ w.head = documentation.head

CertifyScan ==
    /\ Whole("documentation") /\ Whole("cleanup")
    /\ Certifies(world, receipts["documentation"])
    /\ Issue("scan", Nothing, world.head)
    /\ UNCHANGED <<record, verifier>> /\ WorldStays

-----------------------------------------------------------------------------
(* verify_final_release_closure.py *)

Step(name) == verifier.at # 0 /\ Looks[verifier.at] = name
Proceed == verifier' = [verifier EXCEPT !.at = @ + 1]
Refuse == verifier' = Idle
Look(name, holds) ==
    /\ Step(name)
    /\ IF holds THEN Proceed ELSE Refuse
    /\ UNCHANGED <<receipts, record>> /\ WorldStays

\* main reads all the receipts and then verifies.
BeginClosure ==
    /\ verifier.at = 0 /\ \A k \in Kinds \ {"closed"} : Whole(k)
    /\ receipts["closed"] = Missing
    /\ verifier' = [at |-> 1, read |-> receipts, record |-> record]
    /\ overtaken' = {}
    /\ UNCHANGED <<world, changes, receipts, record>>

\* _reverify_release_closure_readiness, _reverify_current_readiness_run
LookAtReadiness == Look("ready", world.ready)

\* _reverify_current_immutable_release: the receipt it would give is the one read.
LookAtRelease ==
    Look("immutable", LooksImmutable(world) /\ verifier.read["immutable"].id = world.published)

\* _reverify_current_documentation
LookAtDocumentation ==
    Look("documentation",
         /\ Documents(world, verifier.record, verifier.read["immutable"])
         /\ verifier.read["documentation"].id = verifier.record.id
         /\ verifier.read["documentation"].head = verifier.record.head)

\* _reverify_current_cleanup, the counts of branches apart.
LookAtCleanup == Look("cleanup", NothingStale(world))

\* _reverify_current_final_scan, and _original_verify: the receipts agree.
LookAtScan ==
    Look("scan",
         /\ Certifies(world, verifier.read["documentation"])
         /\ verifier.read["scan"].head = world.head
         /\ verifier.read["documentation"].id = verifier.read["immutable"].id)

CloseRelease ==
    /\ Step("write")
    /\ Issue("closed", verifier.read["immutable"].id, verifier.read["scan"].head)
    /\ verifier' = Idle
    /\ UNCHANGED record /\ WorldStays

VerifierDies == verifier.at # 0 /\ Refuse /\ UNCHANGED <<receipts, record>> /\ WorldStays

\* Nothing is looked at after the release is closed: a bound.
ClosureNext ==
    /\ ~Whole("closed")
    /\ \/ ReleaseChanges \/ CheckoutMoves \/ TreeChanges \/ StaleWorkChanges \/ ReadinessExpires
       \/ \E kind \in Kinds : RemoveReceipt(kind)
       \/ VerifyImmutableRelease \/ WriteRecord \/ VerifyDocumentation \/ VerifyCleanup
       \/ CertifyScan
       \/ BeginClosure \/ LookAtReadiness \/ LookAtRelease \/ LookAtDocumentation
       \/ LookAtCleanup \/ LookAtScan \/ CloseRelease \/ VerifierDies

ClosureSpec == ClosureInit /\ [][ClosureNext]_closingVars

-----------------------------------------------------------------------------
\* However old the receipts are, a release is closed only if the world is as
\* they say: the release on GitHub is the one named, the checkout is clean and at
\* the head named, whose documentation describes that release, no stale work is
\* left and the readiness run is still there.  Only what changed after the final
\* verification looked at it may be otherwise.
ClosedIsTrue ==
    Whole("closed") =>
        /\ "published" \in overtaken \/ world.published = receipts["closed"].id
        /\ "head" \in overtaken \/ world.head = receipts["closed"].head
        /\ "clean" \in overtaken \/ world.clean
        /\ "stale" \in overtaken \/ ~world.stale
        /\ "ready" \in overtaken \/ world.ready
=============================================================================
