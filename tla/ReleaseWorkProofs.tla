------------------------ MODULE ReleaseWorkProofs ------------------------
(***************************************************************************)
(* Proofs about the work on a release, for any number of gates, images,     *)
(* certifiers, operators, branches and receipts.  Of each task an inductive *)
(* invariant is proved first: what its actor knows and, of what it knows,   *)
(* what can no longer change or was seen to change.  Every step keeps it,   *)
(* and what the task promises follows from it.  The last part lifts each to *)
(* ReleaseWork, where one task moves and the others stay.                   *)
(***************************************************************************)
EXTENDS ReleaseWork, TLAPS, SequenceTheorems, FiniteSetTheorems, FunctionTheorems

-----------------------------------------------------------------------------
(* Closing a release.  What the final verification has looked at is as its   *)
(* copies of the receipts say, or was overtaken.                            *)

Verifier == [at : 0 .. 6, read : [Kinds -> Receipt], record : Receipt]

LooksHold ==
    LET read == verifier.read IN
    /\ verifier.at > 1 => "ready" \in overtaken \/ world.ready
    /\ verifier.at > 2 => "published" \in overtaken \/ world.published = read["immutable"].id
    /\ verifier.at > 4 => "stale" \in overtaken \/ ~world.stale
    /\ verifier.at > 5 => /\ "head" \in overtaken \/ world.head = read["scan"].head
                          /\ "clean" \in overtaken \/ world.clean

ClosureInv == ClosureTypeOK /\ verifier \in Verifier /\ LooksHold /\ ClosedIsTrue

\* The order of the verifier's looks, one by one.
LEMMA LooksFacts ==
    ASSUME NEW n \in 1 .. 6
    PROVE  /\ Looks[n] = "ready" => n = 1
           /\ Looks[n] = "immutable" => n = 2
           /\ Looks[n] = "documentation" => n = 3
           /\ Looks[n] = "cleanup" => n = 4
           /\ Looks[n] = "scan" => n = 5
           /\ Looks[n] = "write" => n = 6
  BY DEF Looks

\* A receipt that is not there and a verifier that does nothing have the types of both.
LEMMA MissingFacts == Missing \in Receipt /\ Idle \in Verifier /\ Idle.at = 0
  BY DEF Missing, Receipt, Idle, Verifier

\* Issuing a receipt changes that of one kind only.
LEMMA IssuedReceipt ==
    ASSUME receipts \in [Kinds -> Receipt], NEW kind \in Kinds,
           NEW id \in ReleaseIds \cup {Nothing}, NEW head \in Heads \cup {Nothing},
           Issue(kind, id, head)
    PROVE  /\ receipts' \in [Kinds -> Receipt]
           /\ \A k \in Kinds \ {kind} : receipts'[k] = receipts[k]
           /\ receipts'[kind].id = id /\ receipts'[kind].head = head
  <1>1. PICK state \in {"torn", "whole"} :
           receipts' = [receipts EXCEPT ![kind] = [state |-> state, id |-> id, head |-> head]]
    BY DEF Issue
  <1>2. [state |-> state, id |-> id, head |-> head] \in Receipt
    BY DEF Receipt
  <1> QED
    BY <1>1, <1>2

\* A change of the world is one of these, and overtakes what was looked at.
WorldSteps == ReleaseChanges \/ CheckoutMoves \/ TreeChanges \/ StaleWorkChanges \/ ReadinessExpires

\* A change of one aspect leaves the others, and after the look at it is remembered.
LEMMA ChangesFacts ==
    ASSUME ClosureTypeOK, NEW a \in Aspects, NEW value, Changes(a, value)
    PROVE  /\ \A b \in Aspects \ {a} : world'[b] = world[b]
           /\ overtaken \subseteq overtaken' /\ overtaken' \subseteq Aspects
           /\ verifier.at > LastLook(a) => a \in overtaken'
           /\ changes' \in 0 .. MaxChanges
           /\ UNCHANGED <<receipts, record, verifier>>
           /\ world' = [world EXCEPT ![a] = value]
  <1>1. world \in [published : ReleaseIds \cup {Nothing}, head : Heads, clean : BOOLEAN,
                   stale : BOOLEAN, ready : BOOLEAN]
    BY DEF ClosureTypeOK, World
  <1>2. \A b \in Aspects \ {a} : world'[b] = world[b]
    BY <1>1 DEF Changes, Aspects
  <1>3. changes' \in 0 .. MaxChanges
    BY ClosureAssumption DEF Changes, ClosureTypeOK
  <1> QED
    BY <1>2, <1>3 DEF Changes, ClosureTypeOK

\* Whatever the world does, what the verifier has seen is so or was overtaken.
LEMMA WorldStepsFacts ==
    ASSUME ClosureInv, ~Whole("closed"), WorldSteps
    PROVE  ClosureInv'
  <1>0. /\ ClosureTypeOK /\ verifier \in Verifier /\ LooksHold
        /\ verifier.at \in Nat
        /\ world \in World
    BY DEF ClosureInv, ClosureTypeOK, Verifier
  <1>1. ASSUME NEW a \in Aspects, NEW value, Changes(a, value), world' \in World
        PROVE  ClosureInv'
    <2>1. /\ \A b \in Aspects \ {a} : world'[b] = world[b]
          /\ overtaken \subseteq overtaken' /\ overtaken' \subseteq Aspects
          /\ verifier.at > LastLook(a) => a \in overtaken'
          /\ changes' \in 0 .. MaxChanges
          /\ UNCHANGED <<receipts, record, verifier>>
      BY <1>0, <1>1, ChangesFacts
    <2>2. /\ LastLook("ready") = 1 /\ LastLook("published") = 2 /\ LastLook("stale") = 4
          /\ LastLook("head") = 5 /\ LastLook("clean") = 5
      BY DEF LastLook
    <2>3. LooksHold'
      BY <1>0, <2>1, <2>2 DEF LooksHold, Aspects
    <2>4. ClosedIsTrue'
      BY <2>1 DEF ClosedIsTrue, Whole
    <2> QED
      BY <1>0, <1>1, <2>1, <2>3, <2>4 DEF ClosureInv, ClosureTypeOK
  <1>2. CASE ReleaseChanges
    <2>1. PICK id \in ReleaseIds \cup {Nothing} : Changes("published", id)
      BY <1>2 DEF ReleaseChanges
    <2>2. world' \in World
      BY <1>0, <2>1 DEF Changes, World
    <2> QED
      BY <1>1, <2>1, <2>2 DEF Aspects
  <1>3. CASE CheckoutMoves
    <2>1. PICK h \in Heads : Changes("head", h)
      BY <1>3 DEF CheckoutMoves
    <2>2. world' \in World
      BY <1>0, <2>1 DEF Changes, World
    <2> QED
      BY <1>1, <2>1, <2>2 DEF Aspects
  <1>4. CASE TreeChanges
    <2>1. PICK b \in BOOLEAN : Changes("clean", b)
      BY <1>4 DEF TreeChanges
    <2>2. world' \in World
      BY <1>0, <2>1 DEF Changes, World
    <2> QED
      BY <1>1, <2>1, <2>2 DEF Aspects
  <1>5. CASE StaleWorkChanges
    <2>1. PICK b \in BOOLEAN : Changes("stale", b)
      BY <1>5 DEF StaleWorkChanges
    <2>2. world' \in World
      BY <1>0, <2>1 DEF Changes, World
    <2> QED
      BY <1>1, <2>1, <2>2 DEF Aspects
  <1>6. CASE ReadinessExpires
    <2>1. world' \in World
      BY <1>0, <1>6 DEF ReadinessExpires, Changes, World
    <2> QED
      BY <1>1, <1>6, <2>1 DEF ReadinessExpires, Aspects
  <1> QED
    BY <1>2, <1>3, <1>4, <1>5, <1>6 DEF WorldSteps

\* Each step of the verifier and of the world keeps the invariant.
LEMMA NextClosureInv == ClosureInv /\ [ClosureNext]_closingVars => ClosureInv'
  <1> SUFFICES ASSUME ClosureInv, [ClosureNext]_closingVars PROVE ClosureInv'
    OBVIOUS
  <1>0. /\ ClosureTypeOK /\ verifier \in Verifier /\ LooksHold /\ ClosedIsTrue
        /\ verifier.at \in Nat /\ world \in World /\ receipts \in [Kinds -> Receipt]
        /\ verifier.read \in [Kinds -> Receipt] /\ verifier.at \in 0 .. 6
    BY DEF ClosureInv, ClosureTypeOK, Verifier
  <1>1. CASE UNCHANGED closingVars
    BY <1>0, <1>1
       DEF closingVars, ClosureInv, ClosureTypeOK, LooksHold, ClosedIsTrue, Whole
  <1>2. CASE ~Whole("closed") /\ WorldSteps
    BY <1>2, WorldStepsFacts
  <1>issued. ASSUME NEW kind \in Kinds \ {"closed"}, NEW id \in ReleaseIds \cup {Nothing},
                    NEW head \in Heads \cup {Nothing}, Issue(kind, id, head),
                    UNCHANGED <<record, verifier>>, WorldStays, ~Whole("closed")
             PROVE  ClosureInv'
    <2>1. /\ receipts' \in [Kinds -> Receipt] /\ receipts'["closed"] = receipts["closed"]
      BY <1>0, <1>issued, IssuedReceipt DEF Kinds
    <2> QED
      BY <1>0, <1>issued, <2>1
         DEF ClosureInv, ClosureTypeOK, LooksHold, ClosedIsTrue, Whole, WorldStays
  <1>3. ASSUME NEW kind \in Kinds, RemoveReceipt(kind), ~Whole("closed") PROVE ClosureInv'
    <2>1. receipts' \in [Kinds -> Receipt] /\ ~Whole("closed")'
      BY <1>0, <1>3, MissingFacts DEF RemoveReceipt, Whole, Missing
    <2> QED
      BY <1>0, <1>3, <2>1
         DEF RemoveReceipt, ClosureInv, ClosureTypeOK, LooksHold, ClosedIsTrue, Whole, WorldStays
  <1>4. CASE VerifyImmutableRelease /\ ~Whole("closed")
    <2>1. world.published \in ReleaseIds \cup {Nothing}
      BY <1>0 DEF World
    <2> QED
      BY <1>4, <1>issued, <2>1 DEF VerifyImmutableRelease, Kinds
  <1>5. CASE WriteRecord /\ ~Whole("closed")
    <2>1. record' \in Receipt
      BY <1>5 DEF WriteRecord, Receipt
    <2> QED
      BY <1>0, <1>5, <2>1
         DEF WriteRecord, ClosureInv, ClosureTypeOK, LooksHold, ClosedIsTrue, Whole, WorldStays
  <1>6. CASE VerifyDocumentation /\ ~Whole("closed")
    <2>1. record.id \in ReleaseIds \cup {Nothing} /\ record.head \in Heads \cup {Nothing}
      BY <1>0 DEF ClosureTypeOK, Receipt
    <2> QED
      BY <1>6, <1>issued, <2>1 DEF VerifyDocumentation, Kinds
  <1>7. CASE VerifyCleanup /\ ~Whole("closed")
    BY <1>7, <1>issued DEF VerifyCleanup, Kinds
  <1>8. CASE CertifyScan /\ ~Whole("closed")
    <2>1. world.head \in Heads
      BY <1>0 DEF World
    <2> QED
      BY <1>8, <1>issued, <2>1 DEF CertifyScan, Kinds
  <1>9. CASE BeginClosure /\ ~Whole("closed")
    <2>1. verifier' \in Verifier /\ verifier'.at = 1
      BY <1>0, <1>9 DEF BeginClosure, Verifier, ClosureTypeOK
    <2> QED
      BY <1>0, <1>9, <2>1
         DEF BeginClosure, ClosureInv, ClosureTypeOK, Verifier, LooksHold, ClosedIsTrue, Whole
  <1>refused. ASSUME Refuse, UNCHANGED <<receipts, record>>, WorldStays PROVE ClosureInv'
    BY <1>0, <1>refused, MissingFacts
       DEF Refuse, ClosureInv, ClosureTypeOK, Verifier, LooksHold, ClosedIsTrue, Whole, WorldStays
  <1>10. ASSUME NEW name, NEW holds, NEW n \in 1 .. 5, Look(name, holds), verifier.at = n,
                LooksHold' \/ ~holds
         PROVE  ClosureInv'
    <2>1. CASE ~holds
      BY <1>10, <1>refused, <2>1 DEF Look
    <2>2. CASE holds
      <3>1. verifier' = [verifier EXCEPT !.at = n + 1] /\ n + 1 \in 0 .. 6
        BY <1>10, <2>2 DEF Look, Proceed
      <3>2. verifier' \in Verifier
        BY <1>0, <3>1 DEF Verifier
      <3> QED
        BY <1>0, <1>10, <2>2, <3>2
           DEF Look, ClosureInv, ClosureTypeOK, Verifier, ClosedIsTrue, Whole, WorldStays
    <2> QED
      BY <2>1, <2>2
  <1>11. CASE LookAtReadiness \/ LookAtRelease \/ LookAtDocumentation \/ LookAtCleanup \/ LookAtScan
    <2>1. ASSUME NEW n \in 1 .. 6, verifier' = [verifier EXCEPT !.at = n + 1]
          PROVE  verifier'.at = n + 1 /\ verifier'.read = verifier.read
      BY <1>0, <2>1 DEF Verifier
    <2>2. CASE LookAtReadiness
      <3>1. verifier.at = 1
        BY <1>0, <2>2, LooksFacts DEF LookAtReadiness, Look, Step
      <3>2. world.ready => LooksHold'
        BY <1>0, <2>1, <2>2, <3>1 DEF LookAtReadiness, Look, Proceed, WorldStays, LooksHold
      <3> QED
        BY <1>10, <2>2, <3>1, <3>2 DEF LookAtReadiness
    <2>3. CASE LookAtRelease
      <3>1. verifier.at = 2
        BY <1>0, <2>3, LooksFacts DEF LookAtRelease, Look, Step
      <3> DEFINE agree == LooksImmutable(world) /\ verifier.read["immutable"].id = world.published
      <3>2. Look("immutable", agree)
        BY <2>3 DEF LookAtRelease
      <3>3. agree => verifier.read["immutable"].id = world.published
        OBVIOUS
      <3> HIDE DEF agree
      <3>4. agree => LooksHold'
        BY <1>0, <2>1, <3>1, <3>2, <3>3 DEF Look, Proceed, WorldStays, LooksHold
      <3> QED
        BY <1>10, <3>1, <3>2, <3>4
    <2>4. CASE LookAtDocumentation
      <3>1. verifier.at = 3
        BY <1>0, <2>4, LooksFacts DEF LookAtDocumentation, Look, Step
      <3> DEFINE agree == /\ Documents(world, verifier.record, verifier.read["immutable"])
                          /\ verifier.read["documentation"].id = verifier.record.id
                          /\ verifier.read["documentation"].head = verifier.record.head
      <3>2. Look("documentation", agree)
        BY <2>4 DEF LookAtDocumentation
      <3> HIDE DEF agree
      <3>3. agree => LooksHold'
        BY <1>0, <2>1, <3>1, <3>2 DEF Look, Proceed, WorldStays, LooksHold
      <3> QED
        BY <1>10, <3>1, <3>2, <3>3
    <2>5. CASE LookAtCleanup
      <3>1. verifier.at = 4
        BY <1>0, <2>5, LooksFacts DEF LookAtCleanup, Look, Step
      <3>2. NothingStale(world) => LooksHold'
        BY <1>0, <2>1, <2>5, <3>1
           DEF LookAtCleanup, Look, Proceed, WorldStays, LooksHold, NothingStale
      <3> QED
        BY <1>10, <2>5, <3>1, <3>2 DEF LookAtCleanup
    <2>6. CASE LookAtScan
      <3>1. verifier.at = 5
        BY <1>0, <2>6, LooksFacts DEF LookAtScan, Look, Step
      <3> DEFINE agree == /\ Certifies(world, verifier.read["documentation"])
                          /\ verifier.read["scan"].head = world.head
                          /\ verifier.read["documentation"].id = verifier.read["immutable"].id
      <3>2. Look("scan", agree)
        BY <2>6 DEF LookAtScan
      <3>3. agree => world.clean /\ verifier.read["scan"].head = world.head
        BY DEF Certifies
      <3> HIDE DEF agree
      <3>4. agree => LooksHold'
        BY <1>0, <2>1, <3>1, <3>2, <3>3 DEF Look, Proceed, WorldStays, LooksHold
      <3> QED
        BY <1>10, <3>1, <3>2, <3>4
    <2> QED
      BY <1>11, <2>2, <2>3, <2>4, <2>5, <2>6
  <1>12. CASE CloseRelease
    <2>1. verifier.at = 6
      BY <1>0, <1>12, LooksFacts DEF CloseRelease, Step
    <2>2. /\ verifier.read["immutable"].id \in ReleaseIds \cup {Nothing}
          /\ verifier.read["scan"].head \in Heads \cup {Nothing}
      BY <1>0 DEF Receipt, Kinds
    <2>3. /\ receipts' \in [Kinds -> Receipt]
          /\ receipts'["closed"].id = verifier.read["immutable"].id
          /\ receipts'["closed"].head = verifier.read["scan"].head
      BY <1>0, <1>12, <2>2, IssuedReceipt DEF CloseRelease, Kinds
    <2>4. ClosedIsTrue'
      BY <1>0, <1>12, <2>1, <2>3 DEF CloseRelease, WorldStays, LooksHold, ClosedIsTrue
    <2> QED
      BY <1>0, <1>12, <2>3, <2>4, MissingFacts
         DEF CloseRelease, WorldStays, ClosureInv, ClosureTypeOK, Verifier, LooksHold
  <1>13. CASE VerifierDies
    BY <1>13, <1>refused DEF VerifierDies
  <1> QED
    BY <1>1, <1>2, <1>3, <1>4, <1>5, <1>6, <1>7, <1>8, <1>9, <1>11, <1>12, <1>13
       DEF ClosureNext, WorldSteps

\* Before the first closure the verifier has seen nothing.
LEMMA InitClosureInv == ClosureInit => ClosureInv
  <1> SUFFICES ASSUME ClosureInit PROVE ClosureInv
    OBVIOUS
  <1>1. world \in World /\ receipts \in [Kinds -> Receipt] /\ record \in Receipt
    BY MissingFacts DEF ClosureInit
  <1>2. verifier \in Verifier /\ verifier.at = 0
    BY MissingFacts DEF ClosureInit
  <1>3. changes \in 0 .. MaxChanges /\ overtaken \subseteq Aspects
    BY ClosureAssumption DEF ClosureInit
  <1>4. ClosedIsTrue
    BY DEF ClosureInit, ClosedIsTrue, Whole, Missing, Kinds
  <1> QED
    BY <1>1, <1>2, <1>3, <1>4 DEF ClosureInv, ClosureTypeOK, Verifier, LooksHold

\* So the invariant holds for good.
LEMMA ClosureInvHolds == ClosureSpec => []ClosureInv
  BY InitClosureInv, NextClosureInv, PTL DEF ClosureSpec

-----------------------------------------------------------------------------
(* Removing branches.  A cleaner has noted the commit of whatever it has     *)
(* deleted or is about to, and what it deletes next is what it saw last.    *)

NotedBy(k) == {b \in Branches : k.plan[b] # NoRef}

CleanerFits(k) ==
    /\ k \in Cleaner
    /\ k.at \in {"idle"} \cup Planning => k.deleted = {}
    /\ k.deleted \cup k.failed \subseteq NotedBy(k)
    /\ k.at \in {"look", "delete"} => k.todo \subseteq NotedBy(k)
    /\ k.at = "delete" =>
          \A b \in k.todo : (\A d \in k.todo : b <= d) => k.plan[b] = k.current
    /\ k.at = "restore" => k.todo \subseteq k.deleted /\ k.deleted \subseteq k.todo \cup k.failed

CleanupInv ==
    /\ refs \in [Branches -> Commits \cup {NoRef}] /\ pulls \subseteq Branches
    /\ cleaner \in [Cleaners -> Cleaner]
    /\ \A c \in Cleaners : CleanerFits(cleaner[c])
    /\ removed \cup audited \cup excused \subseteq Branches \X Commits
    /\ CleanupSound

\* What the invariant is for.
LEMMA CleanupInvProperties == CleanupInv => CleanupTypeOK /\ CleanupSound
  BY DEF CleanupInv, CleanupTypeOK, CleanerFits

\* A step of one cleaner that forgets nothing of what it has to restore.
Minds(c, k) ==
    /\ Becomes(c, k) /\ CleanerFits(k)
    /\ cleaner[c].deleted \subseteq k.deleted
    /\ \A b \in cleaner[c].deleted : k.plan[b] = cleaner[c].plan[b]

\* A step of one cleaner leaves the knowledge of the others.
LEMMA CleanerBecomes ==
    ASSUME CleanupInv, NEW c \in Cleaners, NEW k, Becomes(c, k), CleanerFits(k)
    PROVE  /\ cleaner' \in [Cleaners -> Cleaner]
           /\ cleaner'[c] = k
           /\ \A d \in Cleaners \ {c} : cleaner'[d] = cleaner[d]
           /\ \A d \in Cleaners : CleanerFits(cleaner'[d])
  <1>1. k \in Cleaner /\ cleaner \in [Cleaners -> Cleaner]
    BY DEF CleanerFits, CleanupInv
  <1>2. /\ cleaner' \in [Cleaners -> Cleaner] /\ cleaner'[c] = k
        /\ \A d \in Cleaners \ {c} : cleaner'[d] = cleaner[d]
    BY <1>1 DEF Becomes
  <1> QED
    BY <1>2 DEF CleanupInv

\* A cleaner that forgets nothing of what it deleted keeps every branch findable.
LEMMA MindsSound ==
    ASSUME CleanupInv, NEW c \in Cleaners, NEW k, Minds(c, k), UNCHANGED <<removed, audited>>,
           excused \subseteq excused'
    PROVE  CleanupSound'
  <1>1. /\ cleaner'[c] = k
        /\ \A d \in Cleaners \ {c} : cleaner'[d] = cleaner[d]
    BY CleanerBecomes DEF Minds
  <1> QED
    BY <1>1 DEF CleanupInv, CleanupSound, Minds

\* So its steps that only read keep the invariant.
LEMMA MindsInv ==
    ASSUME CleanupInv, NEW c \in Cleaners, NEW k, Minds(c, k), ReadsOnly
    PROVE  CleanupInv'
  BY MindsSound, CleanerBecomes DEF CleanupInv, ReadsOnly, Minds

\* A cleaner that does nothing has deleted nothing.
LEMMA IdleFits == CleanerFits(IdleCleaner) /\ IdleCleaner.deleted = {} /\ IdleCleaner.at = "idle"
  BY DEF CleanerFits, IdleCleaner, Cleaner, NotedBy, Planning

\* An exception on the way forward.
LEMMA FailsMinds ==
    ASSUME CleanupInv, NEW c \in Cleaners, Fails(c), ~CleanerAt(c, "restore")
    PROVE  \E k : Minds(c, k)
  <1> DEFINE now == cleaner[c]
             back == [now EXCEPT !.at = "restore", !.todo = now.deleted]
  <1>0. CleanerFits(now) /\ now \in Cleaner
    BY DEF CleanupInv
  <1>1. CASE now.at \in Deleting /\ now.deleted # {}
    <2>1. Becomes(c, back)
      BY <1>1 DEF Fails, Enters
    <2>2. back \in Cleaner /\ back.deleted = now.deleted /\ back.plan = now.plan
          /\ back.failed = now.failed /\ back.at = "restore" /\ back.todo = now.deleted
      BY <1>0 DEF Cleaner
    <2>3. CleanerFits(back)
      BY <1>0, <2>2 DEF CleanerFits, NotedBy, Planning
    <2> QED
      BY <2>1, <2>2, <2>3 DEF Minds
  <1>2. CASE ~(now.at \in Deleting /\ now.deleted # {})
    <2>1. Becomes(c, IdleCleaner)
      BY <1>2 DEF Fails
    <2>2. now.deleted = {}
      BY <1>0, <1>2 DEF CleanerFits, Cleaner, CleanerAt
    <2> QED
      BY <2>1, <2>2, IdleFits DEF Minds
  <1> QED
    BY <1>1, <1>2

\* Going to another place, before or after the deletions.
LEMMA EntersMinds ==
    ASSUME CleanupInv, NEW c \in Cleaners, NEW place, NEW todo \in SUBSET Branches,
           Enters(c, place, todo),
           \/ place \in Planning /\ cleaner[c].at \in {"idle"} \cup Planning
           \/ place = "look" /\ todo \subseteq NotedBy(cleaner[c])
           \/ place \in {"pullsAfter", "audit"}
    PROVE  \E k : Minds(c, k)
  <1> DEFINE now == cleaner[c]
             next == [now EXCEPT !.at = place, !.todo = todo]
  <1>0. CleanerFits(now) /\ now \in Cleaner
    BY DEF CleanupInv
  <1>1. /\ next \in Cleaner /\ next.deleted = now.deleted /\ next.plan = now.plan
        /\ next.failed = now.failed /\ next.at = place /\ next.todo = todo
    BY <1>0 DEF Cleaner, Planning, Deleting
  <1>2. CleanerFits(next)
    BY <1>0, <1>1 DEF CleanerFits, NotedBy, Planning
  <1>3. Becomes(c, next)
    BY DEF Enters
  <1> QED
    BY <1>1, <1>2, <1>3 DEF Minds

\* The steps that change nothing but the cleaner.
ReadingStep(c) ==
    \/ BeginCleanup(c) \/ ListBranches(c) \/ ListPulls(c) \/ RefuseOpenPulls(c)
    \/ StartDeleting(c) \/ ListBranchesAfter(c) \/ ListPullsAfter(c)
    \/ \E b \in Branches : NoteTip(c, b) \/ CheckTip(c, b) \/ LookAgain(c, b)

\* Every look of a cleaner forgets nothing.
LEMMA ReadingMinds ==
    ASSUME CleanupInv, NEW c \in Cleaners, ReadingStep(c)
    PROVE  \E k : Minds(c, k)
  <1> DEFINE now == cleaner[c]
  <1>0. /\ CleanerFits(now) /\ now \in Cleaner /\ refs \in [Branches -> Commits \cup {NoRef}]
        /\ NotedBy(now) \subseteq Branches /\ Planned(c) = NotedBy(now) /\ now.todo \subseteq Branches
    BY DEF CleanupInv, NotedBy, Planned, Cleaner
  <1>1. CASE BeginCleanup(c)
    BY <1>0, <1>1, EntersMinds DEF BeginCleanup, CleanerAt, Planning
  <1>2. CASE ListBranches(c)
    BY <1>0, <1>2, EntersMinds DEF ListBranches, CleanerAt, Planning, Existing
  <1>3. CASE ListPulls(c)
    <2> DEFINE next == [now EXCEPT !.at = "tips", !.stale = pulls # {}]
    <2>1. /\ next \in Cleaner /\ next.deleted = now.deleted /\ next.plan = now.plan
          /\ next.failed = now.failed /\ next.at = "tips"
      BY <1>0 DEF Cleaner, Planning
    <2>2. CleanerFits(next)
      BY <1>0, <1>3, <2>1 DEF CleanerFits, NotedBy, Planning, ListPulls, CleanerAt
    <2>3. Becomes(c, next)
      BY <1>3 DEF ListPulls
    <2> QED
      BY <2>1, <2>2, <2>3 DEF Minds
  <1>4. CASE RefuseOpenPulls(c)
    <2>1. CASE now.stale
      BY <1>4, <2>1, FailsMinds DEF RefuseOpenPulls, CleanerAt
    <2>2. CASE ~now.stale
      BY <1>0, <1>4, <2>2, EntersMinds DEF RefuseOpenPulls, CleanerAt, Planning
    <2> QED
      BY <2>1, <2>2
  <1>5. CASE StartDeleting(c)
    BY <1>0, <1>5, EntersMinds DEF StartDeleting
  <1>6. CASE ListBranchesAfter(c)
    <2>1. CASE Existing = {}
      BY <1>6, <2>1, EntersMinds DEF ListBranchesAfter
    <2>2. CASE Existing # {}
      BY <1>6, <2>2, FailsMinds DEF ListBranchesAfter, CleanerAt
    <2> QED
      BY <2>1, <2>2
  <1>7. CASE ListPullsAfter(c)
    <2>1. CASE pulls = {}
      BY <1>7, <2>1, EntersMinds DEF ListPullsAfter
    <2>2. CASE pulls # {}
      BY <1>7, <2>2, FailsMinds DEF ListPullsAfter, CleanerAt
    <2> QED
      BY <2>1, <2>2
  <1>8. ASSUME NEW b \in Branches, NoteTip(c, b) PROVE \E k : Minds(c, k)
    <2>1. CASE refs[b] = NoRef
      BY <1>8, <2>1, FailsMinds DEF NoteTip, CleanerAt
    <2>2. CASE refs[b] # NoRef
      <3> DEFINE plan == [now.plan EXCEPT ![b] = refs[b]]
                 next == [now EXCEPT !.plan = plan, !.todo = now.todo \ {b}]
      <3>1. now.plan \in [Branches -> Commits \cup {NoRef}]
        BY <1>0 DEF Cleaner
      <3>2. plan \in [Branches -> Commits \cup {NoRef}]
        BY <1>0, <3>1
      <3>3. \A d \in Branches : now.plan[d] # NoRef => plan[d] # NoRef
        BY <2>2, <3>1
      <3>4. next = [now EXCEPT !.plan[b] = refs[b], !.todo = @ \ {b}]
        BY <1>0 DEF Cleaner
      <3> HIDE DEF plan
      <3>5. /\ next \in Cleaner /\ next.deleted = now.deleted /\ next.plan = plan
            /\ next.failed = now.failed /\ next.at = now.at
        BY <1>0, <3>2 DEF Cleaner
      <3>6. now.at = "tips" /\ now.deleted = {}
        BY <1>0, <1>8 DEF NoteTip, CleanerAt, CleanerFits, Planning
      <3>7. Becomes(c, next)
        BY <1>8, <2>2, <3>4 DEF NoteTip
      <3> HIDE DEF next
      <3>8. CleanerFits(next)
        BY <1>0, <3>3, <3>5, <3>6 DEF CleanerFits, NotedBy
      <3> QED
        BY <3>5, <3>6, <3>7, <3>8 DEF Minds
    <2> QED
      BY <2>1, <2>2
  <1>9. ASSUME NEW b \in Branches, CheckTip(c, b) PROVE \E k : Minds(c, k)
    <2>1. CASE SameTip(c, b)
      BY <1>0, <1>9, <2>1, EntersMinds DEF CheckTip, CleanerAt, Planning
    <2>2. CASE ~SameTip(c, b)
      BY <1>9, <2>2, FailsMinds DEF CheckTip, CleanerAt
    <2> QED
      BY <2>1, <2>2
  <1>10. ASSUME NEW b \in Branches, LookAgain(c, b) PROVE \E k : Minds(c, k)
    <2>1. CASE SameTip(c, b)
      <3> DEFINE next == [now EXCEPT !.at = "delete", !.current = refs[b]]
      <3>1. /\ next \in Cleaner /\ next.deleted = now.deleted /\ next.plan = now.plan
            /\ next.failed = now.failed /\ next.at = "delete" /\ next.todo = now.todo
            /\ next.current = refs[b]
        BY <1>0 DEF Cleaner, Deleting
      <3>2. now.at = "look" /\ b \in now.todo /\ refs[b] = now.plan[b]
            /\ \A d \in now.todo : b <= d
        BY <1>10, <2>1 DEF LookAgain, CleanerAt, IsNext, SameTip
      <3>3. \A d \in now.todo : (\A e \in now.todo : d <= e) => d = b
        <4> SUFFICES ASSUME NEW d \in now.todo, \A e \in now.todo : d <= e PROVE d = b
          OBVIOUS
        <4>1. d <= b /\ b <= d /\ d \in Nat /\ b \in Nat
          BY <1>0, <3>2, CleanupAssumption
        <4> HIDE DEF now
        <4> QED
          BY <4>1
      <3>4. CleanerFits(next)
        BY <1>0, <3>1, <3>2, <3>3 DEF CleanerFits, NotedBy, Planning
      <3>5. Becomes(c, next)
        BY <1>10, <2>1 DEF LookAgain
      <3> QED
        BY <3>1, <3>4, <3>5 DEF Minds
    <2>2. CASE ~SameTip(c, b)
      BY <1>10, <2>2, FailsMinds DEF LookAgain, CleanerAt
    <2> QED
      BY <2>1, <2>2
  <1> QED
    BY <1>1, <1>2, <1>3, <1>4, <1>5, <1>6, <1>7, <1>8, <1>9, <1>10 DEF ReadingStep

\* A cleaner that deletes a branch notes it with the commit it had planned.
LEMMA DeletesInv ==
    ASSUME CleanupInv, NEW c \in Cleaners, NEW b \in Branches, DeleteRef(c, b)
    PROVE  CleanupInv'
  <1> DEFINE now == cleaner[c]
             next == [now EXCEPT !.at = "look", !.current = NoRef,
                                 !.todo = now.todo \ {b}, !.deleted = now.deleted \cup {b}]
  <1>0. /\ CleanerFits(now) /\ now \in Cleaner /\ refs \in [Branches -> Commits \cup {NoRef}]
        /\ NotedBy(now) \subseteq Branches /\ now.at = "delete" /\ IsNext(c, b)
    BY DEF CleanupInv, NotedBy, DeleteRef, CleanerAt
  <1>1. CASE refs[b] = NoRef
    <2>1. PICK k : Minds(c, k)
      BY <1>0, <1>1, FailsMinds DEF DeleteRef, CleanerAt
    <2> QED
      BY <1>1, <2>1, MindsInv DEF DeleteRef, ReadsOnly
  <1>2. CASE refs[b] # NoRef
    <2>1. Becomes(c, next) /\ RefGoes(c, b)
      BY <1>2 DEF DeleteRef
    <2>2. /\ next \in Cleaner /\ next.deleted = now.deleted \cup {b} /\ next.plan = now.plan
          /\ next.failed = now.failed /\ next.at = "look" /\ next.todo = now.todo \ {b}
      BY <1>0 DEF Cleaner, Deleting
    <2>3. now.plan[b] = now.current /\ b \in NotedBy(now)
      BY <1>0 DEF CleanerFits, IsNext
    <2>4. CleanerFits(next)
      BY <1>0, <2>2, <2>3 DEF CleanerFits, NotedBy, Planning
    <2>5. /\ cleaner' \in [Cleaners -> Cleaner] /\ cleaner'[c] = next
          /\ \A d \in Cleaners \ {c} : cleaner'[d] = cleaner[d]
          /\ \A d \in Cleaners : CleanerFits(cleaner'[d])
      BY <2>1, <2>4, CleanerBecomes
    <2> HIDE DEF next
    <2>6. /\ refs' \in [Branches -> Commits \cup {NoRef}] /\ pulls' \subseteq Branches
          /\ removed' = removed \cup {<<b, refs[b]>>} /\ audited' = audited
          /\ excused \subseteq excused' /\ refs[b] \in Commits
          /\ excused' \subseteq excused \cup {<<b, refs[b]>>}
          /\ <<b, refs[b]>> \in excused' \/ refs[b] = now.current
      BY <1>0, <1>2, <2>1 DEF RefGoes, DeleteRef, CleanupInv
    <2>7. CleanupSound'
      <3> SUFFICES ASSUME NEW pair \in removed'
                   PROVE  \/ pair \in audited' \cup excused'
                          \/ \E d \in Cleaners : /\ pair[1] \in cleaner'[d].deleted
                                                 /\ cleaner'[d].plan[pair[1]] = pair[2]
        BY DEF CleanupSound
      <3>1. CASE pair \in removed
        <4>1. CASE pair \in audited \cup excused
          BY <2>6, <4>1
        <4>2. CASE pair \notin audited \cup excused
          <5>1. PICK d \in Cleaners : /\ pair[1] \in cleaner[d].deleted
                                      /\ cleaner[d].plan[pair[1]] = pair[2]
            BY <3>1, <4>2 DEF CleanupInv, CleanupSound
          <5>2. CASE d = c
            BY <2>2, <2>5, <5>1, <5>2
          <5>3. CASE d # c
            BY <2>5, <5>1, <5>3
          <5> QED
            BY <5>2, <5>3
        <4> QED
          BY <4>1, <4>2
      <3>2. CASE pair = <<b, refs[b]>>
        BY <2>2, <2>3, <2>5, <2>6, <3>2
      <3> QED
        BY <2>6, <3>1, <3>2
    <2> QED
      BY <2>5, <2>6, <2>7 DEF CleanupInv
  <1> QED
    BY <1>1, <1>2

\* A cleaner that forgets what it deleted has said where it is.
LEMMA ForgetsInv ==
    ASSUME CleanupInv, NEW c \in Cleaners, Becomes(c, IdleCleaner), UNCHANGED <<refs, pulls, removed>>,
           audited \subseteq audited', excused \subseteq excused',
           audited' \cup excused' \subseteq Branches \X Commits,
           \A b \in cleaner[c].deleted : <<b, cleaner[c].plan[b]>> \in audited' \cup excused'
    PROVE  CleanupInv'
  <1>1. /\ cleaner' \in [Cleaners -> Cleaner] /\ cleaner'[c] = IdleCleaner
        /\ \A d \in Cleaners \ {c} : cleaner'[d] = cleaner[d]
        /\ \A d \in Cleaners : CleanerFits(cleaner'[d])
    BY CleanerBecomes, IdleFits
  <1>2. CleanupSound'
    <2> SUFFICES ASSUME NEW pair \in removed, pair \notin audited' \cup excused'
                 PROVE  \E d \in Cleaners : /\ pair[1] \in cleaner'[d].deleted
                                            /\ cleaner'[d].plan[pair[1]] = pair[2]
      BY DEF CleanupSound
    <2>1. PICK d \in Cleaners : /\ pair[1] \in cleaner[d].deleted
                                /\ cleaner[d].plan[pair[1]] = pair[2]
      BY DEF CleanupInv, CleanupSound
    <2>2. pair = <<pair[1], pair[2]>>
      BY DEF CleanupInv
    <2>3. d # c
      BY <2>1, <2>2
    <2> QED
      BY <1>1, <2>1, <2>3
  <1> QED
    BY <1>1, <1>2 DEF CleanupInv

\* What a cleaner has noted are branches with their planned commits.
LEMMA NotedPairs ==
    ASSUME CleanupInv, NEW c \in Cleaners, NEW b \in cleaner[c].deleted \cup cleaner[c].failed
    PROVE  <<b, cleaner[c].plan[b]>> \in Branches \X Commits
  BY DEF CleanupInv, CleanerFits, NotedBy, Cleaner

\* A branch a cleaner strikes off its notes is back at its commit, or named.
LEMMA RestoresInv ==
    ASSUME CleanupInv, NEW c \in Cleaners, NEW b \in Branches, Restorable(c, b),
           UNCHANGED <<pulls, audited, excused>>,
           \/ /\ RefReturns(c, b)
              /\ \/ NotRestored(c, b)
                 \/ Becomes(c, [cleaner[c] EXCEPT !.todo = @ \ {b}, !.deleted = @ \ {b}])
           \/ NotRestored(c, b) /\ UNCHANGED <<refs, removed>>
    PROVE  CleanupInv'
  <1> DEFINE now == cleaner[c]
             back == [now EXCEPT !.todo = now.todo \ {b}, !.deleted = now.deleted \ {b}]
             lost == [now EXCEPT !.todo = now.todo \ {b}, !.failed = now.failed \cup {b}]
  <1>0. /\ CleanerFits(now) /\ now \in Cleaner /\ refs \in [Branches -> Commits \cup {NoRef}]
        /\ now.at = "restore" /\ b \in now.todo /\ b \in now.deleted
        /\ now.plan \in [Branches -> Commits \cup {NoRef}]
    BY DEF CleanupInv, Restorable, IsLast, CleanerAt, CleanerFits, Cleaner
  <1>1. /\ lost \in Cleaner /\ lost.deleted = now.deleted /\ lost.plan = now.plan
        /\ lost.failed = now.failed \cup {b} /\ lost.at = "restore" /\ lost.todo = now.todo \ {b}
    BY <1>0 DEF Cleaner
  <1>2. CleanerFits(lost)
    BY <1>0, <1>1 DEF CleanerFits, NotedBy, Planning
  <1>3. /\ back \in Cleaner /\ back.deleted = now.deleted \ {b} /\ back.plan = now.plan
        /\ back.failed = now.failed /\ back.at = "restore" /\ back.todo = now.todo \ {b}
    BY <1>0 DEF Cleaner
  <1>4. CleanerFits(back)
    BY <1>0, <1>3 DEF CleanerFits, NotedBy, Planning
  <1>5. PICK k \in {lost, back} : Becomes(c, k)
    BY DEF NotRestored
  <1>6. /\ CleanerFits(k) /\ k.plan = now.plan /\ now.deleted \ {b} \subseteq k.deleted
    BY <1>1, <1>2, <1>3, <1>4
  <1> HIDE DEF lost, back
  <1>7. /\ cleaner' \in [Cleaners -> Cleaner] /\ cleaner'[c] = k
        /\ \A d \in Cleaners \ {c} : cleaner'[d] = cleaner[d]
        /\ \A d \in Cleaners : CleanerFits(cleaner'[d])
    BY <1>5, <1>6, CleanerBecomes
  <1>8. CASE RefReturns(c, b)
    <2>1. /\ refs' \in [Branches -> Commits \cup {NoRef}]
          /\ removed' = removed \ {<<b, now.plan[b]>>}
      BY <1>0, <1>8 DEF RefReturns
    <2>2. CleanupSound'
      <3> SUFFICES ASSUME NEW pair \in removed', pair \notin audited' \cup excused'
                   PROVE  \E d \in Cleaners : /\ pair[1] \in cleaner'[d].deleted
                                              /\ cleaner'[d].plan[pair[1]] = pair[2]
        BY DEF CleanupSound
      <3>1. PICK d \in Cleaners : /\ pair[1] \in cleaner[d].deleted
                                  /\ cleaner[d].plan[pair[1]] = pair[2]
        BY <2>1 DEF CleanupInv, CleanupSound
      <3>2. pair = <<pair[1], pair[2]>> /\ pair # <<b, now.plan[b]>>
        BY <2>1 DEF CleanupInv
      <3>3. CASE d = c
        BY <1>6, <1>7, <3>1, <3>2, <3>3
      <3>4. CASE d # c
        BY <1>7, <3>1, <3>4
      <3> QED
        BY <3>3, <3>4
    <2> QED
      BY <1>7, <2>1, <2>2 DEF CleanupInv
  <1>9. CASE NotRestored(c, b) /\ UNCHANGED <<refs, removed>>
    <2>1. Becomes(c, lost)
      BY <1>9 DEF NotRestored, lost
    <2>2. Minds(c, lost)
      BY <1>1, <1>2, <2>1 DEF Minds
    <2>3. CleanupSound'
      BY <1>9, <2>2, MindsSound
    <2> QED
      BY <1>7, <1>9, <2>3 DEF CleanupInv
  <1> QED
    BY <1>8, <1>9

\* A call that fails, before or after its effect, loses no branch.
LEMMA CallFailsInv ==
    ASSUME CleanupInv, NEW c \in Cleaners, CleanupCallFails(c)
    PROVE  CleanupInv'
  <1>1. CASE ~CleanerAt(c, "restore") /\ Fails(c) /\ UNCHANGED <<refs, pulls, removed, excused>>
    <2>1. PICK k : Minds(c, k)
      BY <1>1, FailsMinds
    <2> QED
      BY <1>1, <2>1, MindsSound, CleanerBecomes DEF CleanupCallFails, Minds, CleanupInv
  <1>2. CASE Fails(c) /\ AnswerLost(c)
    <2>1. PICK b \in Branches :
            /\ CleanerAt(c, "delete") /\ refs[b] # NoRef
            /\ refs' = [refs EXCEPT ![b] = NoRef]
            /\ pulls' = pulls \ {b}
            /\ removed' = removed \cup {<<b, refs[b]>>}
            /\ excused' = excused \cup {<<b, refs[b]>>}
      BY <1>2 DEF AnswerLost
    <2>2. PICK k : Minds(c, k)
      BY <1>2, <2>1, FailsMinds DEF CleanerAt
    <2>3. /\ cleaner' \in [Cleaners -> Cleaner] /\ cleaner'[c] = k
          /\ \A d \in Cleaners \ {c} : cleaner'[d] = cleaner[d]
          /\ \A d \in Cleaners : CleanerFits(cleaner'[d])
      BY <2>2, CleanerBecomes DEF Minds
    <2>4. /\ refs' \in [Branches -> Commits \cup {NoRef}] /\ pulls' \subseteq Branches
          /\ <<b, refs[b]>> \in Branches \X Commits /\ audited' = audited
      BY <2>1 DEF CleanupInv, CleanupCallFails
    <2>5. CleanupSound'
      <3> SUFFICES ASSUME NEW pair \in removed', pair \notin audited' \cup excused'
                   PROVE  \E d \in Cleaners : /\ pair[1] \in cleaner'[d].deleted
                                              /\ cleaner'[d].plan[pair[1]] = pair[2]
        BY DEF CleanupSound
      <3>1. PICK d \in Cleaners : /\ pair[1] \in cleaner[d].deleted
                                  /\ cleaner[d].plan[pair[1]] = pair[2]
        BY <2>1, <2>4 DEF CleanupInv, CleanupSound
      <3>2. CASE d = c
        BY <2>2, <2>3, <3>1, <3>2 DEF Minds
      <3>3. CASE d # c
        BY <2>3, <3>1, <3>3
      <3> QED
        BY <3>2, <3>3
    <2> QED
      BY <2>1, <2>3, <2>4, <2>5 DEF CleanupInv
  <1>3. CASE \E b \in Branches :
                /\ Restorable(c, b) /\ NotRestored(c, b)
                /\ UNCHANGED <<refs, removed>> \/ RefReturns(c, b)
                /\ UNCHANGED <<pulls, excused>>
    BY <1>3, RestoresInv DEF CleanupCallFails
  <1> QED
    BY <1>1, <1>2, <1>3 DEF CleanupCallFails

\* Each step of the cleaners and of the others keeps the invariant.
LEMMA NextCleanupInv == CleanupInv /\ [CleanupNext]_cleanupVars => CleanupInv'
  <1> SUFFICES ASSUME CleanupInv, [CleanupNext]_cleanupVars PROVE CleanupInv'
    OBVIOUS
  <1>1. CASE UNCHANGED cleanupVars
    BY <1>1 DEF cleanupVars, CleanupInv, CleanupSound
  <1>2. ASSUME NEW c \in Cleaners, ReadingStep(c) PROVE CleanupInv'
    <2>1. ReadsOnly
      BY <1>2 DEF ReadingStep, BeginCleanup, ListBranches, ListPulls, RefuseOpenPulls,
                  StartDeleting, ListBranchesAfter, ListPullsAfter, NoteTip, CheckTip, LookAgain
    <2> QED
      BY <1>2, <2>1, ReadingMinds, MindsInv
  <1>3. ASSUME NEW c \in Cleaners, FinalizeAudit(c) PROVE CleanupInv'
    <2>1. /\ audited' = audited \cup {<<b, cleaner[c].plan[b]>> : b \in cleaner[c].deleted}
          /\ audited' \cup excused \subseteq Branches \X Commits
      BY <1>3, NotedPairs DEF FinalizeAudit, CleanupInv
    <2> QED
      BY <1>3, <2>1, ForgetsInv DEF FinalizeAudit
  <1>4. ASSUME NEW c \in Cleaners, FinishRollback(c) PROVE CleanupInv'
    <2>1. /\ excused' = excused \cup {<<b, cleaner[c].plan[b]>> : b \in cleaner[c].failed}
          /\ audited \cup excused' \subseteq Branches \X Commits
      BY <1>4, NotedPairs DEF FinishRollback, CleanupInv
    <2>2. cleaner[c].deleted \subseteq cleaner[c].failed
      BY <1>4 DEF FinishRollback, CleanerAt, CleanupInv, CleanerFits
    <2> QED
      BY <1>4, <2>1, <2>2, ForgetsInv DEF FinishRollback
  <1>5. ASSUME NEW c \in Cleaners, CleanerDies(c) PROVE CleanupInv'
    <2>1. /\ excused' = excused \cup {<<b, cleaner[c].plan[b]>> : b \in cleaner[c].deleted}
          /\ audited \cup excused' \subseteq Branches \X Commits
      BY <1>5, NotedPairs DEF CleanerDies, CleanupInv
    <2> QED
      BY <1>5, <2>1, ForgetsInv DEF CleanerDies
  <1>6. ASSUME NEW c \in Cleaners, NEW b \in Branches, RestoreRef(c, b) PROVE CleanupInv'
    BY <1>6, RestoresInv DEF RestoreRef
  <1>7. ASSUME NEW b \in Branches, Develop(b) PROVE CleanupInv'
    <2>1. refs' \in [Branches -> Commits \cup {NoRef}] /\ pulls' \subseteq Branches
      BY <1>7 DEF Develop, CleanupInv
    <2> QED
      BY <1>7, <2>1 DEF Develop, CleanupInv, CleanupSound
  <1>8. ASSUME NEW c \in Cleaners, FinalizeAudit(c) \/ FinishRollback(c) \/ CleanerDies(c)
        PROVE CleanupInv'
    BY <1>3, <1>4, <1>5, <1>8
  <1> QED
    BY <1>1, <1>2, <1>6, <1>7, <1>8, CallFailsInv, DeletesInv
       DEF CleanupNext, CleansUp, ReadingStep

\* At first every branch is there and no cleaner has begun.
LEMMA InitCleanupInv == CleanupInit => CleanupInv
  BY IdleFits DEF CleanupInit, CleanupInv, CleanupSound, CleanerFits

\* So the invariant holds for good.
LEMMA CleanupInvHolds == CleanupSpec => []CleanupInv
  BY InitCleanupInv, NextCleanupInv, PTL DEF CleanupSpec

-----------------------------------------------------------------------------
(* Publishing.  A release that is immutable and complete changes no more,    *)
(* and an operator that is alone knows what there is on GitHub.             *)

Out == \E i \in Ids : releases[i].state = "published"
Drafted == \E i \in Ids : releases[i].state = "draft"

GithubFits ==
    /\ immutability \in BOOLEAN /\ tagged \in BOOLEAN
    /\ releases \in [Ids -> Release]
    /\ \A i, j \in Ids : releases[i].state = "published" /\ releases[j].state = "published" => i = j
    /\ tagged <=> Out

Sealed(i) == releases[i].state = "published" /\ releases[i].immutable

\* What an operator has verified of the release it works on.
VerifiedAs(at, i) ==
    /\ at \in {"upload", "publish", "passed"} \cup Verification => i \in Ids
    /\ at \in {"tag", "comparePublished", "passed"} => i \in undone \/ Sealed(i)
    /\ at = "passed" => i \in undone \/ HasAllAssets(i)
Verified(o) == VerifiedAs(operator[o].at, operator[o].id)

\* What an operator that nobody disturbs knows.
CalmAs(at, i, made, changed) ==
    /\ \A j \in Ids : releases[j].state = "published" => releases[j].immutable /\ HasAllAssets(j)
    /\ at \in Forward => ~Out
    /\ at \in Forward \ {"view", "upload", "publish"} => ~Drafted /\ ~made
    /\ at \in {"create", "view", "upload", "publish"} => immutability
    /\ at \in {"view", "upload"} => made
    /\ at = "view" => \A j, l \in Ids : /\ releases[j].state = "draft"
                                         /\ releases[l].state = "draft" => j = l
    /\ at \in {"upload", "publish"} => \A j \in Ids : releases[j].state = "draft" => j = i
    /\ at = "publish" => HasAllAssets(i)
    /\ at \in {"enable", "enabled"} => changed
    /\ at \in {"viewDraft", "delete", "draftGone", "tagGone"} => ~Out /\ immutability
    /\ at \in {"delete", "viewDraft"} =>
          \A j, l \in Ids : releases[j].state = "draft" /\ releases[l].state = "draft" => j = l
    /\ at \in {"draftGone", "tagGone"} => ~Drafted
    /\ at \in {"noDraft", "noTag"} => ~Out /\ ~Drafted /\ (changed \/ immutability)
    /\ at \in {"stillEnabled", "disable", "disabled"} => ~Out /\ ~Drafted /\ changed
    /\ at = "rolledBack" => ~Out /\ ~Drafted /\ immutability = ~changed
Calm(o) == CalmAs(operator[o].at, operator[o].id, operator[o].made, operator[o].changed)

Alone(o) == \A p \in Operators \ {o} : ~Busy(p)

PublicationInv ==
    /\ GithubFits
    /\ operator \in [Operators -> Operator]
    /\ undisturbed \subseteq Operators /\ undone \subseteq Ids
    /\ \A o \in Operators : Verified(o)
    /\ \A o \in undisturbed : Alone(o) /\ Calm(o)

\* What the invariant is for.
LEMMA PublicationInvProperties == PublicationInv => PublicationTypeOK /\ PublicationSound
  <1> SUFFICES ASSUME PublicationInv PROVE PublicationTypeOK /\ PublicationSound
    OBVIOUS
  <1>1. PublicationTypeOK
    BY DEF PublicationInv, GithubFits, PublicationTypeOK
  <1>2. PassedIsForGood
    BY DEF PublicationInv, GithubFits, Verified, VerifiedAs, Sealed, Out, PassedIsForGood, OperatorAt,
           Verification
  <1>3. UndisturbedIsAllOrNothing
    BY DEF PublicationInv, GithubFits, Calm, CalmAs, Out, Drafted, UndisturbedIsAllOrNothing, OperatorAt,
           InState
  <1> QED
    BY <1>1, <1>2, <1>3 DEF PublicationSound

-----------------------------------------------------------------------------
(* What happens on GitHub *)

\* No sealed release changes, unless it is deleted.
Evolves ==
    /\ GithubFits'
    /\ undone \subseteq undone' /\ undone' \subseteq Ids
    /\ \A i \in Ids : Sealed(i) => i \in undone' \/ releases'[i] = releases[i]

\* A step that leaves GitHub alone,
LEMMA StaysEvolves ==
    ASSUME PublicationInv, UNCHANGED <<github, undone>>
    PROVE  Evolves
  BY DEF PublicationInv, GithubFits, Evolves, github, Out

\* one that changes the setting,
LEMMA SettingEvolves ==
    ASSUME PublicationInv, immutability' \in BOOLEAN, UNCHANGED <<releases, tagged, undone>>
    PROVE  Evolves
  BY DEF PublicationInv, GithubFits, Evolves, Out

\* (a step that changes one release leaves the others)
LEMMA ReleaseChanged ==
    ASSUME PublicationInv, NEW i \in Ids, NEW x \in Release,
           releases' = [releases EXCEPT ![i] = x]
    PROVE  /\ releases' \in [Ids -> Release] /\ releases'[i] = x
           /\ \A j \in Ids \ {i} : releases'[j] = releases[j]
  BY DEF PublicationInv, GithubFits

\* one that publishes a draft,
LEMMA PublishedEvolves ==
    ASSUME PublicationInv, NEW i \in Ids, AsPublished(i), releases[i].state = "draft",
           UNCHANGED <<immutability, undone>>
    PROVE  /\ Evolves
           /\ \A j \in Ids \ {i} : releases'[j] = releases[j]
           /\ releases'[i].state = "published" /\ releases'[i].immutable = immutability
           /\ releases'[i].assets = releases[i].assets
           /\ ~Out
  <1> DEFINE x == [releases[i] EXCEPT !.state = "published", !.immutable = immutability]
  <1>1. releases[i] \in Release /\ immutability \in BOOLEAN
    BY DEF PublicationInv, GithubFits
  <1>2. releases' = [releases EXCEPT ![i] = x] /\ tagged' = TRUE
    BY DEF AsPublished
  <1>3. /\ x \in Release /\ x.state = "published" /\ x.immutable = immutability
        /\ x.assets = releases[i].assets
    BY <1>1 DEF Release
  <1> HIDE DEF x
  <1>4. /\ releases' \in [Ids -> Release] /\ releases'[i] = x
        /\ \A j \in Ids \ {i} : releases'[j] = releases[j]
    BY <1>2, <1>3, ReleaseChanged
  <1>5. ~Out
    BY DEF AsPublished, InState, Out
  <1>6. GithubFits'
    BY <1>1, <1>2, <1>3, <1>4, <1>5 DEF GithubFits, Out
  <1> QED
    BY <1>3, <1>4, <1>5, <1>6 DEF Evolves, PublicationInv, Sealed

\* one that deletes a release,
LEMMA DeletedEvolves ==
    ASSUME PublicationInv, NEW i \in Ids, AsDeleted(i), UNCHANGED immutability,
           releases[i].state \in {"draft", "published"}
    PROVE  /\ Evolves
           /\ \A j \in Ids \ {i} : releases'[j] = releases[j]
           /\ releases'[i].state = "deleted"
  <1> DEFINE x == [releases[i] EXCEPT !.state = "deleted"]
  <1>1. releases[i] \in Release /\ tagged \in BOOLEAN
    BY DEF PublicationInv, GithubFits
  <1>2. releases' = [releases EXCEPT ![i] = x] /\ tagged' = (tagged /\ releases[i].state # "published")
    BY DEF AsDeleted
  <1>3. x \in Release /\ x.state = "deleted"
    BY <1>1 DEF Release
  <1> HIDE DEF x
  <1>4. /\ releases' \in [Ids -> Release] /\ releases'[i] = x
        /\ \A j \in Ids \ {i} : releases'[j] = releases[j]
    BY <1>2, <1>3, ReleaseChanged
  <1>5. /\ undone \subseteq undone' /\ undone' \subseteq Ids
        /\ releases[i].state = "published" => i \in undone'
    BY DEF AsDeleted, PublicationInv
  <1>6. GithubFits'
    BY <1>1, <1>2, <1>3, <1>4 DEF GithubFits, Out, PublicationInv
  <1> QED
    BY <1>3, <1>4, <1>5, <1>6 DEF Evolves, Sealed

\* one that changes an asset of a release not sealed
LEMMA AssetEvolves ==
    ASSUME PublicationInv, NEW i \in Ids, NEW a \in Assets, NEW bytes \in AssetStates,
           releases' = [releases EXCEPT ![i].assets[a] = bytes],
           ~releases[i].immutable \/ releases[i].state = "draft",
           UNCHANGED <<immutability, tagged, undone>>
    PROVE  /\ Evolves
           /\ \A j \in Ids \ {i} : releases'[j] = releases[j]
           /\ releases'[i].state = releases[i].state
  <1> DEFINE assets == [releases[i].assets EXCEPT ![a] = bytes]
             x == [releases[i] EXCEPT !.assets = assets]
  <1>1. releases[i] \in Release
    BY DEF PublicationInv, GithubFits
  <1>2. releases' = [releases EXCEPT ![i] = x]
    OBVIOUS
  <1>3. assets \in [Assets -> AssetStates]
    BY <1>1 DEF Release
  <1> HIDE DEF assets
  <1>4. x \in Release /\ x.state = releases[i].state
    BY <1>1, <1>3 DEF Release
  <1> HIDE DEF x
  <1>5. /\ releases' \in [Ids -> Release] /\ releases'[i] = x
        /\ \A j \in Ids \ {i} : releases'[j] = releases[j]
    BY <1>2, <1>4, ReleaseChanged
  <1>6. GithubFits'
    BY <1>4, <1>5 DEF GithubFits, Out, PublicationInv
  <1> QED
    BY <1>4, <1>5, <1>6 DEF Evolves, Sealed, PublicationInv

\* and one that makes a draft are what GitHub lets happen.
LEMMA DraftEvolves ==
    ASSUME PublicationInv, NEW i \in Ids, NewDraft(i), UNCHANGED <<immutability, tagged, undone>>
    PROVE  /\ Evolves
           /\ \A j \in Ids \ {i} : releases'[j] = releases[j]
           /\ releases'[i].state = "draft" /\ releases[i].state = "none"
  <1> DEFINE x == [releases[i] EXCEPT !.state = "draft"]
  <1>1. releases[i] \in Release /\ releases[i].state = "none"
    BY DEF PublicationInv, GithubFits, NewDraft, InState
  <1>2. releases' = [releases EXCEPT ![i] = x]
    BY DEF NewDraft
  <1>3. x \in Release /\ x.state = "draft"
    BY <1>1 DEF Release
  <1> HIDE DEF x
  <1>4. /\ releases' \in [Ids -> Release] /\ releases'[i] = x
        /\ \A j \in Ids \ {i} : releases'[j] = releases[j]
    BY <1>2, <1>3, ReleaseChanged
  <1>5. GithubFits'
    BY <1>1, <1>3, <1>4 DEF GithubFits, Out, PublicationInv
  <1> QED
    BY <1>1, <1>3, <1>4, <1>5 DEF Evolves, Sealed, PublicationInv

\* What an operator verified stays so.
LEMMA VerifiedStays ==
    ASSUME PublicationInv, Evolves, NEW o \in Operators, operator'[o] = operator[o]
    PROVE  Verified(o)'
  <1> DEFINE i == operator[o].id
             at == operator[o].at
  <1>1. Verified(o) /\ undone \subseteq undone'
    BY DEF PublicationInv, Evolves
  <1>2. at \in {"upload", "publish", "passed"} \cup Verification => i \in Ids
    BY <1>1 DEF Verified, VerifiedAs
  <1>3. at \in {"tag", "comparePublished", "passed"} =>
           i \in undone' \/ (Sealed(i) /\ releases'[i] = releases[i])
    BY <1>1, <1>2 DEF Verified, VerifiedAs, Evolves, Verification
  <1>4. at = "passed" => i \in undone' \/ releases'[i].assets = [a \in Assets |-> "exact"]
    BY <1>1, <1>3 DEF Verified, VerifiedAs, HasAllAssets
  <1> QED
    BY <1>2, <1>3, <1>4 DEF Verified, VerifiedAs, Sealed, HasAllAssets

-----------------------------------------------------------------------------
(* One operator *)

\* A step of an operator at work disturbs what the others verified as little
\* as GitHub lets it, and nobody that is alone is at work meanwhile.
LEMMA OperatorStep ==
    ASSUME PublicationInv, NEW o \in Operators, Busy(o), NEW k \in Operator,
           operator' = [operator EXCEPT ![o] = k], Evolves, undisturbed' \subseteq undisturbed,
           Verified(o)', o \in undisturbed' => Calm(o)'
    PROVE  PublicationInv'
  <1>1. /\ operator' \in [Operators -> Operator] /\ operator'[o] = k
        /\ \A p \in Operators \ {o} : operator'[p] = operator[p]
    BY DEF PublicationInv
  <1>2. \A p \in Operators : Verified(p)'
    BY <1>1, VerifiedStays
  <1>3. \A p \in undisturbed : p = o
    BY DEF PublicationInv, Alone
  <1>4. \A p \in undisturbed' : Alone(p)' /\ Calm(p)'
    BY <1>1, <1>3 DEF PublicationInv, Alone, Busy
  <1> QED
    BY <1>1, <1>2, <1>4 DEF PublicationInv, Evolves

\* An operator that raises keeps what it made and changed, for its rollback.
LEMMA RaisedFacts ==
    ASSUME PublicationInv, NEW o \in Operators, Busy(o), Raise(o)
    PROVE  \E k \in Operator :
              /\ operator' = [operator EXCEPT ![o] = k]
              /\ \/ k = IdleOperator
                 \/ /\ k.id = operator[o].id /\ k.made = operator[o].made
                    /\ k.changed = operator[o].changed
                    /\ \/ /\ k.at = "viewDraft" /\ operator[o].made
                          /\ operator[o].at \in Forward \ {"publish", "releaseAbsent", "tagAbsent", "setting"}
                       \/ /\ k.at = "noDraft" /\ ~operator[o].made
                          /\ operator[o].at \in Forward \ {"publish", "releaseAbsent", "tagAbsent", "setting"}
                       \/ /\ k.at = "viewPublished"
                          /\ operator[o].at \in Verification \cup {"publish"}
  <1> DEFINE now == operator[o]
  <1>1. now \in Operator /\ operator \in [Operators -> Operator]
    BY DEF PublicationInv
  <1>3. \/ Raised(o) = "idle"
        \/ /\ Raised(o) = "viewDraft" /\ now.made
           /\ now.at \in Forward \ {"publish", "releaseAbsent", "tagAbsent", "setting"}
        \/ /\ Raised(o) = "noDraft" /\ ~now.made
           /\ now.at \in Forward \ {"publish", "releaseAbsent", "tagAbsent", "setting"}
        \/ Raised(o) = "viewPublished" /\ now.at \in Verification \cup {"publish"}
    BY DEF Raised, Busy
  <1>4. IdleOperator \in Operator
    BY DEF IdleOperator, Operator
  <1>5. CASE Raised(o) = "idle"
    BY <1>4, <1>5 DEF Raise
  <1>6. CASE Raised(o) # "idle"
    <2> DEFINE at == Raised(o)
               again == now.again \/ Raised(o) = "viewPublished"
    <2>1. at \in {"viewDraft", "noDraft", "viewPublished"} /\ again \in BOOLEAN
      BY <1>1, <1>3, <1>6
    <2> DEFINE k == [now EXCEPT !.at = at, !.again = again]
    <2>2. operator' = [operator EXCEPT ![o] = k]
      BY <1>6 DEF Raise
    <2> HIDE DEF at, again
    <2>3. /\ k \in Operator /\ k.id = now.id /\ k.made = now.made /\ k.changed = now.changed
          /\ k.at = at
      BY <1>1, <2>1 DEF Operator, Rollback, Verification, k
    <2> QED
      BY <1>3, <1>6, <2>2, <2>3 DEF at
  <1> QED
    BY <1>5, <1>6

\* An exception while nothing changes on GitHub.
LEMMA RaiseInv ==
    ASSUME PublicationInv, NEW o \in Operators, Busy(o), Raise(o), UNCHANGED <<github, undone>>,
           undisturbed' \subseteq undisturbed
    PROVE  PublicationInv'
  <1>1. PICK k \in Operator :
              /\ operator' = [operator EXCEPT ![o] = k]
              /\ \/ k = IdleOperator
                 \/ /\ k.id = operator[o].id /\ k.made = operator[o].made
                    /\ k.changed = operator[o].changed
                    /\ \/ /\ k.at = "viewDraft" /\ operator[o].made
                          /\ operator[o].at \in Forward \ {"publish", "releaseAbsent", "tagAbsent", "setting"}
                       \/ /\ k.at = "noDraft" /\ ~operator[o].made
                          /\ operator[o].at \in Forward \ {"publish", "releaseAbsent", "tagAbsent", "setting"}
                       \/ /\ k.at = "viewPublished"
                          /\ operator[o].at \in Verification \cup {"publish"}
    BY RaisedFacts
  <1>2. operator'[o] = k /\ Verified(o)
    BY <1>1 DEF PublicationInv
  <1>3. Evolves
    BY StaysEvolves
  <1>4. Verified(o)'
    BY <1>1, <1>2 DEF Verified, VerifiedAs, IdleOperator, Verification
  <1>5. o \in undisturbed' => Calm(o)'
    <2> SUFFICES ASSUME o \in undisturbed' PROVE Calm(o)'
      OBVIOUS
    <2>1. Calm(o)
      BY DEF PublicationInv
    <2>2. releases' = releases /\ immutability' = immutability /\ Out' = Out /\ Drafted' = Drafted
      BY DEF github, Out, Drafted
    <2>3. CASE k = IdleOperator
      BY <1>2, <2>1, <2>2, <2>3 DEF Calm, CalmAs, IdleOperator, HasAllAssets, Forward
    <2>4. CASE k.at = "viewDraft" /\ k # IdleOperator
      BY <1>1, <1>2, <2>1, <2>2, <2>4 DEF Calm, CalmAs, HasAllAssets, Forward
    <2>5. CASE k.at = "noDraft" /\ k # IdleOperator
      BY <1>1, <1>2, <2>1, <2>2, <2>5 DEF Calm, CalmAs, HasAllAssets, Forward
    <2>6. CASE k.at = "viewPublished" /\ k # IdleOperator
      BY <1>1, <1>2, <2>1, <2>2, <2>6 DEF Calm, CalmAs, HasAllAssets, Forward
    <2> QED
      BY <1>1, <2>3, <2>4, <2>5, <2>6
  <1> QED
    BY <1>1, <1>3, <1>4, <1>5, OperatorStep

Places == {"idle"} \cup Forward \cup Verification \cup Rollback \cup Outcomes

\* An operator that goes on keeps what it knows.
LEMMA ContinueFacts ==
    ASSUME PublicationInv, NEW o \in Operators, NEW next \in Places, Continue(o, next)
    PROVE  \E k \in Operator :
              /\ operator' = [operator EXCEPT ![o] = k] /\ operator'[o] = k
              /\ k.at = next /\ k.id = operator[o].id /\ k.made = operator[o].made
              /\ k.changed = operator[o].changed
  <1> DEFINE k == [operator[o] EXCEPT !.at = next]
  <1>1. operator \in [Operators -> Operator]
    BY DEF PublicationInv
  <1>2. operator' = [operator EXCEPT ![o] = k]
    BY DEF Continue
  <1>3. /\ k \in Operator /\ k.at = next /\ k.id = operator[o].id /\ k.made = operator[o].made
        /\ k.changed = operator[o].changed
    BY <1>1 DEF Operator, Places
  <1> HIDE DEF k
  <1> QED
    BY <1>1, <1>2, <1>3

\* A call that only reads.
LEMMA CheckInv ==
    ASSUME PublicationInv, NEW o \in Operators,
           NEW place \in Forward \cup Verification \cup Rollback,
           NEW ok, NEW next \in Places, Check(o, place, ok, next),
           ok => VerifiedAs(next, operator[o].id),
           ok /\ o \in undisturbed =>
               CalmAs(next, operator[o].id, operator[o].made, operator[o].changed)
    PROVE  PublicationInv'
  <1>0. /\ operator[o].at = place /\ Busy(o)
        /\ UNCHANGED <<github, undone>> /\ undisturbed' = undisturbed
    BY DEF Check, OperatorAt, Busy, Quiet
  <1>1. CASE ok
    <2>1. Continue(o, next)
      BY <1>1 DEF Check
    <2>2. PICK k \in Operator :
              /\ operator' = [operator EXCEPT ![o] = k] /\ operator'[o] = k
              /\ k.at = next /\ k.id = operator[o].id /\ k.made = operator[o].made
              /\ k.changed = operator[o].changed
      BY <2>1, ContinueFacts
    <2>3. releases' = releases /\ immutability' = immutability /\ Out' = Out /\ Drafted' = Drafted
      BY <1>0 DEF github, Out, Drafted
    <2>4. Verified(o)'
      BY <1>0, <1>1, <2>2, <2>3 DEF Verified, VerifiedAs, Sealed, HasAllAssets
    <2>5. o \in undisturbed' => Calm(o)'
      BY <1>0, <1>1, <2>2, <2>3 DEF Calm, CalmAs, HasAllAssets
    <2> QED
      BY <1>0, <2>2, <2>4, <2>5, StaysEvolves, OperatorStep
  <1>2. CASE ~ok
    BY <1>0, <1>2, RaiseInv DEF Check
  <1> QED
    BY <1>1, <1>2

\* No release is in a state exactly if the look for one finds none.
LEMMA NothingOut ==
    ASSUME PublicationInv
    PROVE  /\ InState("published") = {} <=> ~Out
           /\ InState("draft") = {} <=> ~Drafted
  BY DEF InState, Out, Drafted

\* Where an operator goes after a look at the setting is a place of the code.
LEMMA SettingNextInPlaces == \A o : SettingNext(o) \in Places
  BY DEF SettingNext, Places, Rollback, Outcomes

\* An operator's looks at GitHub keep the invariant: what they find is so.
LEMMA ReadingStepsInv ==
    ASSUME PublicationInv, NEW o \in Operators,
           \/ PreflightRelease(o) \/ PreflightTag(o) \/ VerifyEnabled(o) \/ CompareDraft(o)
           \/ ViewPublished(o) \/ VerifyTag(o) \/ ComparePublished(o)
           \/ ViewForRollback(o) \/ DraftGone(o) \/ TagGone(o) \/ NoDraft(o) \/ NoTag(o)
           \/ VerifyDisabled(o)
    PROVE  PublicationInv'
  <1>0. /\ Verified(o) /\ (o \in undisturbed => Calm(o))
        /\ (Forward \cup Verification \cup Rollback \cup Outcomes) \subseteq Places
        /\ GithubFits
    BY DEF PublicationInv, Places
  <1> DEFINE i == operator[o].id
             at == operator[o].at
  <1>1. CASE PreflightRelease(o)
    BY <1>0, <1>1, CheckInv, NothingOut
       DEF PreflightRelease, Check, OperatorAt, VerifiedAs, Calm, CalmAs, Forward, Verification
  <1>2. CASE PreflightTag(o)
    BY <1>0, <1>2, CheckInv
       DEF PreflightTag, Check, OperatorAt, VerifiedAs, Calm, CalmAs, Forward, Verification
  <1>3. CASE VerifyEnabled(o)
    BY <1>0, <1>3, CheckInv
       DEF VerifyEnabled, Check, OperatorAt, VerifiedAs, Calm, CalmAs, Forward, Verification
  <1>4. CASE CompareDraft(o)
    BY <1>0, <1>4, CheckInv
       DEF CompareDraft, Check, OperatorAt, Verified, VerifiedAs, Calm, CalmAs, Forward,
           Verification, SameAssets
  <1>5. CASE ViewPublished(o)
    BY <1>0, <1>5, CheckInv
       DEF ViewPublished, Check, OperatorAt, Verified, VerifiedAs, Calm, CalmAs, Forward,
           Verification, Sealed
  <1>6. CASE VerifyTag(o)
    BY <1>0, <1>6, CheckInv
       DEF VerifyTag, Check, OperatorAt, Verified, VerifiedAs, Calm, CalmAs, Forward, Verification
  <1>7. CASE ComparePublished(o)
    BY <1>0, <1>7, CheckInv
       DEF ComparePublished, Check, OperatorAt, Verified, VerifiedAs, Calm, CalmAs, Forward,
           Verification, Outcomes, SameAssets
  <1>8. CASE ViewForRollback(o)
    BY <1>0, <1>8, CheckInv, NothingOut
       DEF ViewForRollback, Check, OperatorAt, VerifiedAs, Calm, CalmAs, Forward, Rollback,
           Verification
  <1>9. CASE DraftGone(o)
    BY <1>0, <1>9, CheckInv
       DEF DraftGone, Check, OperatorAt, VerifiedAs, Calm, CalmAs, Forward, Rollback, Verification
  <1>10. CASE TagGone(o)
    BY <1>0, <1>10, CheckInv, SettingNextInPlaces
       DEF TagGone, Check, OperatorAt, VerifiedAs, Calm, CalmAs, Forward, Rollback, Verification,
           SettingNext
  <1>11. CASE NoDraft(o)
    BY <1>0, <1>11, CheckInv
       DEF NoDraft, Check, OperatorAt, VerifiedAs, Calm, CalmAs, Forward, Rollback, Verification
  <1>12. CASE NoTag(o)
    BY <1>0, <1>12, CheckInv, SettingNextInPlaces
       DEF NoTag, Check, OperatorAt, VerifiedAs, Calm, CalmAs, Forward, Rollback, Verification,
           SettingNext
  <1>13. CASE VerifyDisabled(o)
    <2>1. /\ immutability \in BOOLEAN /\ operator[o].changed \in BOOLEAN
          /\ o \in undisturbed => operator[o].changed = TRUE
      BY <1>0, <1>13
         DEF PublicationInv, Operator, GithubFits, VerifyDisabled, Check, OperatorAt, Calm, CalmAs
    <2>2. ~immutability /\ o \in undisturbed =>
             CalmAs("rolledBack", operator[o].id, operator[o].made, operator[o].changed)
      BY <1>0, <1>13, <2>1
         DEF VerifyDisabled, Check, OperatorAt, Calm, CalmAs, Forward
    <2>3. VerifiedAs("rolledBack", operator[o].id)
      BY DEF VerifiedAs, Verification
    <2> QED
      BY <1>0, <1>13, <2>2, <2>3, CheckInv DEF VerifyDisabled, Rollback, Outcomes
  <1> QED
    BY <1>1, <1>2, <1>3, <1>4, <1>5, <1>6, <1>7, <1>8, <1>9, <1>10, <1>11, <1>12, <1>13

\* The release a tag or a listing resolves to is a draft or the one published.
LEMMA ResolvesFacts ==
    ASSUME PublicationInv, NEW i \in Ids, Resolves(i)
    PROVE  /\ releases[i].state \in {"draft", "published"}
           /\ ~Out => releases[i].state = "draft"
  BY DEF Resolves, InState, Out

\* So does the first look at the setting,
LEMMA ReadSettingInv ==
    ASSUME PublicationInv, NEW o \in Operators, ReadSetting(o)
    PROVE  PublicationInv'
  <1> DEFINE now == operator[o]
             changed == ~immutability
             next == IF immutability THEN "create" ELSE "enable"
             k == [now EXCEPT !.changed = changed, !.at = next]
  <1>1. /\ now \in Operator /\ immutability \in BOOLEAN /\ operator \in [Operators -> Operator]
        /\ now.at = "setting" /\ Busy(o)
    BY DEF PublicationInv, GithubFits, ReadSetting, OperatorAt, Busy, Forward
  <1>2. operator' = [operator EXCEPT ![o] = k]
    BY <1>1 DEF ReadSetting
  <1>3. next \in {"create", "enable"} /\ changed \in BOOLEAN
    BY <1>1
  <1>4. next = "create" => immutability
    BY <1>1
  <1>5. next = "enable" => changed
    BY <1>1
  <1> HIDE DEF next, changed
  <1>6. /\ k \in Operator /\ k.at = next /\ k.id = now.id /\ k.made = now.made
        /\ k.changed = changed
    BY <1>1, <1>3 DEF Operator, Forward
  <1> HIDE DEF k
  <1>7. UNCHANGED <<github, undone>> /\ undisturbed' = undisturbed /\ operator'[o] = k
    BY <1>1, <1>2 DEF ReadSetting, Quiet
  <1>8. releases' = releases /\ immutability' = immutability /\ Out' = Out /\ Drafted' = Drafted
    BY <1>7 DEF github, Out, Drafted
  <1>9. Verified(o)'
    BY <1>3, <1>6, <1>7 DEF Verified, VerifiedAs, Verification
  <1>10. o \in undisturbed' => Calm(o)'
    <2> SUFFICES ASSUME o \in undisturbed PROVE Calm(o)'
      BY <1>7
    <2>1. Calm(o)
      BY DEF PublicationInv
    <2>2. CASE next = "create"
      BY <1>1, <1>4, <1>6, <1>7, <1>8, <2>1, <2>2 DEF Calm, CalmAs, HasAllAssets, Forward
    <2>3. CASE next = "enable"
      BY <1>1, <1>5, <1>6, <1>7, <1>8, <2>1, <2>3 DEF Calm, CalmAs, HasAllAssets, Forward
    <2> QED
      BY <1>3, <2>2, <2>3
  <1> QED
    BY <1>1, <1>2, <1>6, <1>7, <1>9, <1>10, StaysEvolves, OperatorStep

\* and the changes of it, which only their own rollback takes back.
LEMMA SettingStepsInv ==
    ASSUME PublicationInv, NEW o \in Operators, Enable(o) \/ StillEnabled(o) \/ Disable(o)
    PROVE  PublicationInv'
  <1> DEFINE next == IF Enable(o) THEN "enabled"
                     ELSE IF Disable(o) THEN "disabled"
                     ELSE IF immutability THEN "disable" ELSE "rolledBack"
  <1>1. /\ operator[o] \in Operator /\ immutability \in BOOLEAN /\ Busy(o) /\ GithubFits
        /\ o \in undisturbed => Calm(o)
    BY DEF PublicationInv, GithubFits, Enable, StillEnabled, Disable, OperatorAt, Busy, Forward,
           Rollback
  <1>2. Continue(o, next) /\ next \in {"enabled", "disabled", "disable", "rolledBack"}
    BY DEF Enable, StillEnabled, Disable, OperatorAt
  <1>3. PICK k \in Operator :
              /\ operator' = [operator EXCEPT ![o] = k] /\ operator'[o] = k
              /\ k.at = next /\ k.id = operator[o].id /\ k.made = operator[o].made
              /\ k.changed = operator[o].changed
    BY <1>2, ContinueFacts DEF Places, Forward, Rollback, Outcomes
  <1>4. /\ releases' = releases /\ tagged' = tagged /\ undone' = undone
        /\ undisturbed' = undisturbed /\ immutability' \in BOOLEAN
    BY <1>1 DEF Enable, StillEnabled, Disable, Quiet, github
  <1>5. Evolves /\ Out' = Out /\ Drafted' = Drafted
    BY <1>4, SettingEvolves DEF Out, Drafted
  <1>6. Verified(o)'
    BY <1>2, <1>3 DEF Verified, VerifiedAs, Verification
  <1>7. o \in undisturbed' => Calm(o)'
    <2> SUFFICES ASSUME o \in undisturbed PROVE Calm(o)'
      BY <1>4
    <2>1. CASE Enable(o)
      BY <1>1, <1>3, <1>4, <1>5, <2>1
         DEF Enable, OperatorAt, Calm, CalmAs, HasAllAssets, Forward
    <2>2. CASE Disable(o)
      <3>1. next = "disabled"
        BY <2>2 DEF Enable, Disable, OperatorAt
      <3> HIDE DEF next
      <3> QED
        BY <1>1, <1>3, <1>4, <1>5, <2>2, <3>1
           DEF Disable, OperatorAt, Calm, CalmAs, HasAllAssets, Forward
    <2>3. CASE StillEnabled(o)
      <3>1. /\ next = IF immutability THEN "disable" ELSE "rolledBack"
            /\ immutability' = immutability /\ operator[o].at = "stillEnabled"
        BY <2>3 DEF Enable, Disable, StillEnabled, OperatorAt, github
      <3>2. operator[o].changed = TRUE
        BY <1>1, <3>1 DEF Calm, CalmAs, Operator
      <3>3. CASE immutability
        BY <1>1, <1>3, <1>4, <1>5, <3>1, <3>3 DEF Calm, CalmAs, HasAllAssets, Forward
      <3>4. CASE immutability = FALSE
        <4>1. /\ next = "rolledBack" /\ immutability' = FALSE /\ k.changed = TRUE /\ ~Out /\ ~Drafted
          BY <1>1, <1>3, <3>1, <3>2, <3>4 DEF Calm, CalmAs
        <4> HIDE DEF next
        <4> QED
          BY <1>1, <1>3, <1>4, <1>5, <4>1 DEF Calm, CalmAs, HasAllAssets, Forward
      <3> QED
        BY <1>1, <3>3, <3>4
    <2> QED
      BY <2>1, <2>2, <2>3
  <1> QED
    BY <1>1, <1>3, <1>4, <1>5, <1>6, <1>7, OperatorStep

\* The draft an operator makes is the only one while nobody disturbs it,
LEMMA CreateDraftInv ==
    ASSUME PublicationInv, NEW o \in Operators, CreateDraft(o)
    PROVE  PublicationInv'
  <1> DEFINE now == operator[o]
             k == [now EXCEPT !.made = TRUE, !.at = "view"]
  <1>1. /\ now \in Operator /\ operator \in [Operators -> Operator] /\ now.at = "create" /\ Busy(o)
        /\ o \in undisturbed => Calm(o)
    BY DEF PublicationInv, CreateDraft, OperatorAt, Busy, Forward
  <1>2. operator' = [operator EXCEPT ![o] = k] /\ undisturbed' = undisturbed
    BY DEF CreateDraft, Quiet
  <1>3. /\ k \in Operator /\ k.at = "view" /\ k.id = now.id /\ k.made = TRUE
        /\ k.changed = now.changed
    BY <1>1 DEF Operator, Forward
  <1> HIDE DEF k
  <1>4. PICK i \in Ids : NewDraft(i)
    BY DEF CreateDraft
  <1>5. /\ Evolves
        /\ \A j \in Ids \ {i} : releases'[j] = releases[j]
        /\ releases'[i].state = "draft" /\ releases[i].state = "none"
        /\ immutability' = immutability /\ operator'[o] = k
    BY <1>1, <1>2, <1>4, DraftEvolves DEF CreateDraft
  <1>6. Verified(o)'
    BY <1>3, <1>5 DEF Verified, VerifiedAs, Verification
  <1>7. o \in undisturbed' => Calm(o)'
    <2> SUFFICES ASSUME o \in undisturbed PROVE Calm(o)'
      BY <1>2
    <2>1. ~Out /\ ~Drafted /\ immutability
      BY <1>1 DEF Calm, CalmAs, Forward
    <2>2. ~Out'
      BY <1>5, <2>1 DEF Out
    <2>3. \A j \in Ids : releases'[j].state = "draft" => j = i
      BY <1>5, <2>1 DEF Drafted
    <2> QED
      BY <1>3, <1>5, <2>1, <2>2, <2>3 DEF Calm, CalmAs, Out, HasAllAssets, Forward
  <1> QED
    BY <1>1, <1>2, <1>3, <1>5, <1>6, <1>7, OperatorStep

\* so that it finds its own.
LEMMA ViewDraftInv ==
    ASSUME PublicationInv, NEW o \in Operators, ViewDraft(o)
    PROVE  PublicationInv'
  <1>1. /\ operator[o] \in Operator /\ operator \in [Operators -> Operator]
        /\ operator[o].at = "view" /\ Busy(o)
        /\ undisturbed' = undisturbed /\ UNCHANGED <<github, undone>>
        /\ o \in undisturbed => Calm(o)
    BY DEF PublicationInv, ViewDraft, OperatorAt, Busy, Forward, Quiet
  <1>2. CASE Raise(o)
    BY <1>1, <1>2, RaiseInv
  <1>3. ASSUME NEW i \in Ids, releases[i].state = "draft",
               operator' = [operator EXCEPT ![o].id = i, ![o].at = "upload"]
        PROVE  PublicationInv'
    <2> DEFINE now == operator[o]
               k == [now EXCEPT !.id = i, !.at = "upload"]
    <2>1. operator' = [operator EXCEPT ![o] = k]
      BY <1>1, <1>3
    <2>2. /\ k \in Operator /\ k.at = "upload" /\ k.id = i /\ k.made = now.made
          /\ k.changed = now.changed
      BY <1>1 DEF Operator, Forward
    <2> HIDE DEF k
    <2>3. operator'[o] = k
      BY <1>1, <2>1
    <2>4. Verified(o)'
      BY <2>2, <2>3 DEF Verified, VerifiedAs, Verification
    <2>5. releases' = releases /\ immutability' = immutability /\ Out' = Out /\ Drafted' = Drafted
      BY <1>1 DEF github, Out, Drafted
    <2>6. o \in undisturbed' => Calm(o)'
      BY <1>1, <1>3, <2>2, <2>3, <2>5 DEF Calm, CalmAs, HasAllAssets, Forward
    <2> QED
      BY <1>1, <2>1, <2>2, <2>4, <2>6, StaysEvolves, OperatorStep
  <1> QED
    BY <1>2, <1>3 DEF ViewDraft

\* An upload changes a draft, never a release that was sealed.
LEMMA UploadInv ==
    ASSUME PublicationInv, NEW o \in Operators, NEW a \in Assets, NEW bytes \in {"exact", "other"},
           Upload(o, a, bytes)
    PROVE  PublicationInv'
  <1>1. /\ operator[o] \in Operator /\ operator \in [Operators -> Operator]
        /\ operator[o].at = "upload" /\ Busy(o)
        /\ undisturbed' = undisturbed /\ UNCHANGED <<immutability, tagged, undone>>
        /\ o \in undisturbed => Calm(o)
        /\ Verified(o)
    BY DEF PublicationInv, Upload, OperatorAt, Busy, Forward
  <1>2. CASE Raise(o) /\ UNCHANGED releases
    BY <1>1, <1>2, RaiseInv DEF github
  <1>3. ASSUME NEW i \in Ids, ~releases[i].immutable,
               releases' = [releases EXCEPT ![i].assets[a] = bytes], UNCHANGED operator
        PROVE  PublicationInv'
    <2>1. /\ Evolves
          /\ \A j \in Ids \ {i} : releases'[j] = releases[j]
          /\ releases'[i].state = releases[i].state
      BY <1>1, <1>3, AssetEvolves DEF AssetStates
    <2>2. Out' = Out /\ Drafted' = Drafted
      BY <2>1 DEF Out, Drafted
    <2>3. Verified(o)'
      BY <1>3, <2>1, VerifiedStays
    <2>4. o \in undisturbed' => Calm(o)'
      <3> SUFFICES ASSUME o \in undisturbed PROVE Calm(o)'
        BY <1>1
      <3>1. ~Out' /\ immutability /\ operator[o].made
        BY <1>1, <2>2 DEF Calm, CalmAs, Forward
      <3>2. \A j \in Ids : releases'[j].state = "draft" => j = operator[o].id
        BY <1>1, <2>1 DEF Calm, CalmAs
      <3> QED
        BY <1>1, <1>3, <3>1, <3>2 DEF Calm, CalmAs, Out, Forward
    <2>5. operator' = [operator EXCEPT ![o] = operator[o]]
      BY <1>1, <1>3
    <2> QED
      BY <1>1, <2>1, <2>3, <2>4, <2>5, OperatorStep
  <1> QED
    BY <1>2, <1>3 DEF Upload

\* A publication that has effect, of an operator that compared the draft.
LEMMA PublishedCalm ==
    ASSUME PublicationInv, NEW o \in Operators, operator[o].at = "publish", Calm(o),
           NEW i \in Ids, releases[i].state = "draft", AsPublished(i),
           UNCHANGED <<immutability, undone>>
    PROVE  \A j \in Ids : releases'[j].state = "published" => releases'[j].immutable /\ HasAllAssets(j)'
  <1>1. /\ \A j \in Ids \ {i} : releases'[j] = releases[j]
        /\ releases'[i].immutable = immutability /\ releases'[i].assets = releases[i].assets
        /\ ~Out
    BY PublishedEvolves
  <1>2. i = operator[o].id /\ HasAllAssets(i) /\ immutability
    BY DEF Calm, CalmAs
  <1> QED
    BY <1>1, <1>2 DEF Out, HasAllAssets

\* A release is published with all its assets if nobody disturbs its operator.
LEMMA PublishInv ==
    ASSUME PublicationInv, NEW o \in Operators, PublishRelease(o)
    PROVE  PublicationInv'
  <1>1. /\ operator[o] \in Operator /\ operator[o].at = "publish" /\ Busy(o)
        /\ undisturbed' = undisturbed /\ UNCHANGED <<immutability, undone>>
        /\ o \in undisturbed => Calm(o)
        /\ Verified(o)
    BY DEF PublicationInv, PublishRelease, OperatorAt, Busy, Forward, Quiet
  <1>2. CASE Raise(o) /\ UNCHANGED <<releases, tagged>>
    BY <1>1, <1>2, RaiseInv DEF github
  <1>3. ASSUME NEW i \in Ids, Resolves(i), Continue(o, "viewPublished"),
               IF releases[i].state = "draft" THEN AsPublished(i) ELSE UNCHANGED <<releases, tagged>>
        PROVE  PublicationInv'
    <2>1. PICK k \in Operator :
              /\ operator' = [operator EXCEPT ![o] = k] /\ operator'[o] = k
              /\ k.at = "viewPublished" /\ k.id = operator[o].id /\ k.made = operator[o].made
              /\ k.changed = operator[o].changed
      BY <1>3, ContinueFacts DEF Places, Verification
    <2>2. Verified(o)'
      BY <1>1, <2>1 DEF Verified, VerifiedAs
    <2>3. Evolves
      BY <1>1, <1>3, PublishedEvolves, StaysEvolves DEF github
    <2>4. o \in undisturbed' => Calm(o)'
      <3> SUFFICES ASSUME o \in undisturbed PROVE Calm(o)'
        BY <1>1
      <3>1. \A j \in Ids : releases'[j].state = "published" =>
                               releases'[j].immutable /\ HasAllAssets(j)'
        <4>1. CASE releases[i].state = "draft"
          BY <1>1, <1>3, <4>1, PublishedCalm
        <4>2. CASE releases[i].state # "draft"
          BY <1>1, <1>3, <4>2 DEF Calm, CalmAs, HasAllAssets
        <4> QED
          BY <4>1, <4>2
      <3> QED
        BY <2>1, <3>1 DEF Calm, CalmAs, Forward
    <2> QED
      BY <1>1, <2>1, <2>2, <2>3, <2>4, OperatorStep
  <1> QED
    BY <1>2, <1>3 DEF PublishRelease

\* A deletion while nothing is published leaves nothing published.
LEMMA DeletedCalm ==
    ASSUME PublicationInv, NEW o \in Operators, operator[o].at = "delete", Calm(o),
           NEW i \in Ids, Resolves(i), AsDeleted(i), UNCHANGED immutability
    PROVE  ~Out' /\ ~Drafted'
  <1>1. ~Out /\ releases[i].state = "draft" /\ \A j \in Ids : releases[j].state = "draft" => j = i
    BY ResolvesFacts DEF Calm, CalmAs
  <1>2. /\ \A j \in Ids \ {i} : releases'[j] = releases[j]
        /\ releases'[i].state = "deleted"
    BY <1>1, DeletedEvolves
  <1> QED
    BY <1>1, <1>2 DEF Out, Drafted

\* Only a rollback deletes, and what it deletes is remembered.
LEMMA DeleteInv ==
    ASSUME PublicationInv, NEW o \in Operators, DeleteDraft(o)
    PROVE  PublicationInv'
  <1>1. /\ operator[o] \in Operator /\ operator[o].at = "delete" /\ Busy(o)
        /\ undisturbed' = undisturbed /\ UNCHANGED immutability
        /\ o \in undisturbed => Calm(o)
    BY DEF PublicationInv, DeleteDraft, OperatorAt, Busy, Rollback, Quiet
  <1>2. CASE Raise(o) /\ UNCHANGED <<releases, tagged, undone>>
    BY <1>1, <1>2, RaiseInv DEF github
  <1>3. ASSUME NEW i \in Ids, Resolves(i), AsDeleted(i), Continue(o, "draftGone")
        PROVE  PublicationInv'
    <2>1. PICK k \in Operator :
              /\ operator' = [operator EXCEPT ![o] = k] /\ operator'[o] = k
              /\ k.at = "draftGone" /\ k.id = operator[o].id /\ k.made = operator[o].made
              /\ k.changed = operator[o].changed
      BY <1>3, ContinueFacts DEF Places, Rollback
    <2>2. Verified(o)'
      BY <2>1 DEF Verified, VerifiedAs, Verification
    <2>3. Evolves
      BY <1>1, <1>3, ResolvesFacts, DeletedEvolves
    <2>4. o \in undisturbed' => Calm(o)'
      <3> SUFFICES ASSUME o \in undisturbed PROVE Calm(o)'
        BY <1>1
      <3>1. ~Out' /\ ~Drafted' /\ immutability' = TRUE
        BY <1>1, <1>3, DeletedCalm DEF Calm, CalmAs, PublicationInv, GithubFits
      <3> QED
        BY <2>1, <3>1 DEF Calm, CalmAs, Out, Forward
    <2> QED
      BY <1>1, <2>1, <2>2, <2>3, <2>4, OperatorStep
  <1> QED
    BY <1>2, <1>3 DEF DeleteDraft

-----------------------------------------------------------------------------
(* What goes wrong *)

\* A call that takes effect, though its answer is lost, does what GitHub lets happen.
LEMMA EffectEvolves ==
    ASSUME PublicationInv, NEW o \in Operators, Effect(o)
    PROVE  Evolves
  <1>1. CASE OperatorAt(o, "enable") /\ immutability' = TRUE /\ UNCHANGED <<releases, tagged, undone>>
    BY <1>1, SettingEvolves
  <1>2. CASE /\ OperatorAt(o, "create") /\ \E i \in Ids : NewDraft(i)
             /\ UNCHANGED <<immutability, tagged, undone>>
    BY <1>2, DraftEvolves
  <1>3. CASE /\ OperatorAt(o, "publish") /\ \E i \in InState("draft") : Resolves(i) /\ AsPublished(i)
             /\ UNCHANGED <<immutability, undone>>
    BY <1>3, PublishedEvolves DEF InState
  <1>4. CASE /\ OperatorAt(o, "delete") /\ \E i \in Ids : Resolves(i) /\ AsDeleted(i)
             /\ UNCHANGED immutability
    BY <1>4, DeletedEvolves, ResolvesFacts
  <1>5. CASE OperatorAt(o, "disable") /\ immutability' = FALSE /\ UNCHANGED <<releases, tagged, undone>>
    BY <1>5, SettingEvolves
  <1> QED
    BY <1>1, <1>2, <1>3, <1>4, <1>5 DEF Effect

\* A gh call that fails, before or after its effect, keeps the invariant.
LEMMA GhFailsInv ==
    ASSUME PublicationInv, NEW o \in Operators, CallFails(o)
    PROVE  PublicationInv'
  <1>1. operator[o] \in Operator /\ Busy(o) /\ Raise(o) /\ Verified(o)
        /\ (o \in undisturbed => Calm(o)) /\ GithubFits
    BY DEF PublicationInv, CallFails
  <1>2. CASE UNCHANGED <<github, undone, undisturbed>>
    BY <1>1, <1>2, RaiseInv
  <1>3. CASE /\ Effect(o)
             /\ undisturbed' = IF OperatorAt(o, "create") THEN undisturbed \ {o} ELSE undisturbed
    <2>1. PICK k \in Operator :
              /\ operator' = [operator EXCEPT ![o] = k]
              /\ \/ k = IdleOperator
                 \/ /\ k.id = operator[o].id /\ k.made = operator[o].made
                    /\ k.changed = operator[o].changed
                    /\ \/ /\ k.at = "viewDraft" /\ operator[o].made
                          /\ operator[o].at \in Forward \ {"publish", "releaseAbsent", "tagAbsent", "setting"}
                       \/ /\ k.at = "noDraft" /\ ~operator[o].made
                          /\ operator[o].at \in Forward \ {"publish", "releaseAbsent", "tagAbsent", "setting"}
                       \/ /\ k.at = "viewPublished"
                          /\ operator[o].at \in Verification \cup {"publish"}
      BY <1>1, RaisedFacts
    <2>2. operator'[o] = k
      BY <2>1 DEF PublicationInv
    <2>3. Verified(o)'
      BY <1>1, <2>1, <2>2 DEF Verified, VerifiedAs, IdleOperator, Verification
    <2>4. o \in undisturbed' => Calm(o)'
      <3> SUFFICES ASSUME o \in undisturbed, ~OperatorAt(o, "create") PROVE Calm(o)'
        BY <1>3
      <3>0. Calm(o)
        BY <1>1
      <3>1. CASE OperatorAt(o, "enable") /\ immutability' = TRUE
                 /\ UNCHANGED <<releases, tagged, undone>>
        <4>1. ~Out' /\ ~Drafted' /\ operator[o].changed /\ ~operator[o].made
          BY <3>0, <3>1 DEF Calm, CalmAs, Forward, OperatorAt, Out, Drafted
        <4>2. k = IdleOperator \/ (k.at = "noDraft" /\ k.changed = operator[o].changed)
          <5>1. operator[o].at = "enable" /\ operator[o].at \notin Verification \cup {"publish"}
            BY <3>1 DEF OperatorAt, Verification
          <5>2. CASE k = IdleOperator
            BY <5>2
          <5>3. CASE k # IdleOperator
            <6>1. k.at \in {"viewDraft", "noDraft", "viewPublished"} /\ k.changed = operator[o].changed
              BY <2>1, <5>3
            <6>2. k.at # "viewPublished"
              BY <2>1, <5>1, <5>3
            <6>3. k.at # "viewDraft"
              BY <2>1, <4>1, <5>3
            <6> QED
              BY <6>1, <6>2, <6>3
          <5> QED
            BY <5>2, <5>3
        <4>3. \A j \in Ids : releases'[j].state # "published"
          BY <4>1 DEF Out
        <4>4. CASE k = IdleOperator
          BY <2>2, <4>1, <4>3, <4>4 DEF Calm, CalmAs, IdleOperator, Forward
        <4>5. CASE k.at = "noDraft" /\ k.changed = operator[o].changed
          BY <2>2, <4>1, <4>3, <4>5 DEF Calm, CalmAs, Forward
        <4> QED
          BY <4>2, <4>4, <4>5
      <3>2. CASE /\ OperatorAt(o, "publish")
                 /\ \E i \in InState("draft") : Resolves(i) /\ AsPublished(i)
                 /\ UNCHANGED <<immutability, undone>>
        <4>1. \A j \in Ids : releases'[j].state = "published" =>
                                 releases'[j].immutable /\ HasAllAssets(j)'
          BY <3>0, <3>2, PublishedCalm DEF InState, OperatorAt
        <4>2. k = IdleOperator \/ k.at = "viewPublished"
          BY <2>1, <3>2 DEF OperatorAt
        <4> QED
          BY <2>2, <4>1, <4>2 DEF Calm, CalmAs, IdleOperator, Forward
      <3>3. CASE /\ OperatorAt(o, "delete") /\ \E i \in Ids : Resolves(i) /\ AsDeleted(i)
                 /\ UNCHANGED immutability
        <4>1. ~Out' /\ ~Drafted'
          BY <3>0, <3>3, DeletedCalm DEF OperatorAt
        <4>2. k = IdleOperator
          BY <2>1, <3>3 DEF OperatorAt, Forward, Verification
        <4> QED
          BY <2>2, <4>1, <4>2 DEF Calm, CalmAs, IdleOperator, Out, Forward
      <3>4. CASE OperatorAt(o, "disable") /\ immutability' = FALSE
                 /\ UNCHANGED <<releases, tagged, undone>>
        <4>1. ~Out' /\ ~Drafted'
          BY <3>0, <3>4 DEF Calm, CalmAs, OperatorAt, Out, Drafted
        <4>2. k = IdleOperator
          BY <2>1, <3>4 DEF OperatorAt, Forward, Verification
        <4> QED
          BY <2>2, <4>1, <4>2 DEF Calm, CalmAs, IdleOperator, Out, Forward
      <3> QED
        BY <1>3, <3>1, <3>2, <3>3, <3>4 DEF Effect
    <2>5. undisturbed' \subseteq undisturbed
      BY <1>3
    <2> QED
      BY <1>1, <1>3, <2>1, <2>5, <2>3, <2>4, EffectEvolves, OperatorStep
  <1> QED
    BY <1>2, <1>3 DEF CallFails

\* Once an operator is disturbed, nothing but the sealed releases is promised.
LEMMA OthersMove ==
    ASSUME PublicationInv, Evolves, undisturbed' = {},
           operator' \in [Operators -> Operator],
           \A o \in Operators : operator'[o] = operator[o] \/ operator'[o] = IdleOperator
    PROVE  PublicationInv'
  <1>1. \A o \in Operators : operator'[o] = IdleOperator => Verified(o)'
    BY DEF Verified, VerifiedAs, IdleOperator, Verification
  <1> QED
    BY <1>1, VerifiedStays DEF PublicationInv, Evolves

\* An operator that dies disturbs all,
LEMMA OperatorDiesInv ==
    ASSUME PublicationInv, NEW o \in Operators, OperatorDies(o)
    PROVE  PublicationInv'
  <1>1. Evolves
    BY EffectEvolves, StaysEvolves DEF OperatorDies
  <1>2. IdleOperator \in Operator /\ operator \in [Operators -> Operator]
    BY DEF IdleOperator, Operator, PublicationInv
  <1> QED
    BY <1>1, <1>2, OthersMove DEF OperatorDies

\* and so does whoever works on GitHub by hand.
LEMMA IntervenesInv ==
    ASSUME PublicationInv, Intervenes
    PROVE  PublicationInv'
  <1>1. CASE immutability' \in BOOLEAN \ {immutability} /\ UNCHANGED <<releases, tagged, undone>>
    BY <1>1, SettingEvolves, OthersMove DEF Intervenes, PublicationInv
  <1>2. ASSUME NEW i \in InState("draft"), NEW a \in Assets,
               releases' = [releases EXCEPT ![i].assets[a] = "other"],
               UNCHANGED <<immutability, tagged, undone>>
        PROVE  PublicationInv'
    BY <1>2, AssetEvolves, OthersMove DEF Intervenes, InState, AssetStates, PublicationInv
  <1>3. ASSUME NEW i \in InState("draft"), AsPublished(i), UNCHANGED <<immutability, undone>>
        PROVE  PublicationInv'
    BY <1>3, PublishedEvolves, OthersMove DEF Intervenes, InState, PublicationInv
  <1>4. ASSUME NEW i \in InState("draft"), AsDeleted(i), UNCHANGED immutability
        PROVE  PublicationInv'
    BY <1>4, DeletedEvolves, OthersMove DEF Intervenes, InState, PublicationInv
  <1> QED
    BY <1>1, <1>2, <1>3, <1>4 DEF Intervenes

\* An operator that begins alone knows of no draft and no release.
LEMMA BeginPublicationInv ==
    ASSUME PublicationInv, NEW o \in Operators, BeginPublication(o)
    PROVE  PublicationInv'
  <1> DEFINE k == [IdleOperator EXCEPT !.at = "releaseAbsent"]
  <1>1. IdleOperator \in Operator /\ IdleOperator.made = FALSE
    BY DEF Operator, IdleOperator
  <1>2. k \in Operator /\ k.at = "releaseAbsent" /\ k.made = FALSE
    BY <1>1 DEF Operator, Forward
  <1>3. operator' = [operator EXCEPT ![o] = k] /\ UNCHANGED <<github, undone>>
    BY DEF BeginPublication
  <1>4. k.at = "releaseAbsent" /\ k.made = FALSE
    BY <1>2
  <1> HIDE DEF k
  <1>5. /\ operator' \in [Operators -> Operator] /\ operator'[o] = k
        /\ \A p \in Operators \ {o} : operator'[p] = operator[p]
    BY <1>2, <1>3 DEF PublicationInv
  <1>6. Evolves
    BY <1>3, StaysEvolves
  <1>7. \A p \in Operators : Verified(p)'
    <2>1. Verified(o)'
      BY <1>4, <1>5 DEF Verified, VerifiedAs, Verification
    <2> QED
      BY <1>5, <1>6, <2>1, VerifiedStays
  <1>8. ASSUME NEW p \in undisturbed' PROVE p = o /\ Alone(p)' /\ Calm(p)'
    <2>1. /\ p = o /\ ~\E q \in Operators \ {o} : Busy(q)
          /\ InState("draft") \cup InState("published") = {}
      BY <1>8 DEF BeginPublication
    <2>2. ~Out' /\ ~Drafted'
      BY <1>3, <2>1 DEF InState, Out, Drafted, github
    <2>3. Alone(o)'
      BY <1>5, <2>1 DEF Alone, Busy
    <2>4. Calm(o)'
      BY <1>4, <1>5, <2>2 DEF Calm, CalmAs, Out
    <2> QED
      BY <2>1, <2>3, <2>4
  <1> QED
    BY <1>5, <1>6, <1>7, <1>8 DEF PublicationInv, Evolves

\* Each step of the operators and of the others keeps the invariant.
LEMMA NextPublicationInv == PublicationInv /\ [PublicationNext]_publicationVars => PublicationInv'
  <1> SUFFICES ASSUME PublicationInv, [PublicationNext]_publicationVars PROVE PublicationInv'
    OBVIOUS
  <1>1. CASE UNCHANGED publicationVars
    BY <1>1 DEF publicationVars, github, PublicationInv, GithubFits, Out, Verified, VerifiedAs,
                Sealed, HasAllAssets, Alone, Busy, Calm, CalmAs, Drafted
  <1>2. ASSUME NEW o \in Operators, Executes(o) PROVE PublicationInv'
    BY <1>2, BeginPublicationInv, ReadingStepsInv, ReadSettingInv, SettingStepsInv, CreateDraftInv,
       ViewDraftInv, UploadInv, PublishInv DEF Executes
  <1>3. ASSUME NEW o \in Operators, RollsBack(o) PROVE PublicationInv'
    BY <1>3, ReadingStepsInv, DeleteInv, SettingStepsInv DEF RollsBack
  <1> QED
    BY <1>1, <1>2, <1>3, GhFailsInv, OperatorDiesInv, IntervenesInv DEF PublicationNext

\* At first there is no release.
LEMMA InitPublicationInv == PublicationInit => PublicationInv
  <1> SUFFICES ASSUME PublicationInit PROVE PublicationInv
    OBVIOUS
  <1>1. IdleOperator \in Operator /\ IdleOperator.at = "idle" /\ Unmade \in Release
        /\ Unmade.state = "none"
    BY DEF IdleOperator, Operator, Unmade, Release, NoAssets, AssetStates
  <1> QED
    BY <1>1 DEF PublicationInit, PublicationInv, GithubFits, Out, Verified, VerifiedAs, Verification

\* So the invariant holds for good.
LEMMA PublicationInvHolds == PublicationSpec => []PublicationInv
  BY InitPublicationInv, NextPublicationInv, PTL DEF PublicationSpec

-----------------------------------------------------------------------------
(* The evidence.  Rows that were verified name runs of their gates for good, *)
(* what is bound passed its verifier, and all files are of one ledger unless *)
(* it was replaced.                                                         *)

EvidenceShape ==
    /\ evidence \in Seq(EvidenceRun) /\ Len(evidence) <= MaxRuns
    /\ evaluations \in Seq(Evaluation) /\ Len(evaluations) <= MaxEvaluations
    /\ disk \in [RowFiles -> Partial]
    /\ \A f \in RowFiles \ {"ledger", "material", "binding"} : disk[f] \in Complete \cup {NoRows}
    /\ evaluator \in 0..Len(evaluations)
    /\ trees \in [Gates -> 0..Altered]
    /\ verifiedRows \subseteq Complete

IsRunOf(g, r) == r \in 1..Len(evidence) /\ evidence[r].gate = g
IsSoundRun(r) == r \in 1..Len(evidence) /\ evidence[r].sound

VerifiedThere == \A rows \in verifiedRows : \A g \in Gates : IsRunOf(g, rows[g])

DerivedVerified ==
    /\ Exists("api") => disk["api"] \in verifiedRows
    /\ Exists("closure") => /\ disk["closure"] \in verifiedRows /\ Exists("api")
                            /\ \A g \in Gates : IsSoundRun(disk["closure"][g])
    /\ Exists("plan") => disk["plan"] \in verifiedRows /\ Exists("api")
    /\ \A i \in 1..Len(evaluations) : evaluations[i].inputs \in verifiedRows /\ Exists("plan")
    /\ Exists("attestation") => Len(evaluations) > 0

Judged ==
    /\ \A g \in Gates : disk["material"][g] # NoFile => disk["material"][g] \in 1..Len(evidence)
    /\ \A g \in Gates : disk["binding"][g] # NoFile => IsSoundRun(disk["binding"][g])
    /\ binder # <<>> =>
          /\ binder.bundle \subseteq Gates /\ DOMAIN binder.rows = binder.bundle
          /\ \A g \in binder.bundle :
                /\ binder.rows[g] \in RunIds /\ binder.rows[g] \in 1..Len(evidence)
                /\ trees[g] \in {binder.rows[g], Altered}
                /\ binder.judged /\ trees[g] # Altered => IsSoundRun(binder.rows[g])

OneLedger ==
    ~revised =>
        /\ \A f \in {"api", "closure", "plan", "attestation"} : Exists(f) => disk[f] = disk["ledger"]
        /\ \A i \in 1..Len(evaluations) : evaluations[i].inputs = disk["ledger"]

EvidenceInv ==
    /\ EvidenceShape /\ VerifiedThere /\ DerivedVerified /\ Judged /\ OneLedger
    /\ OnlyRevisionsSplitTheEvidence

\* What the invariant is for.
LEMMA EvidenceInvProperties == EvidenceInv => EvidenceTypeOK /\ EvidenceSound
  <1> SUFFICES ASSUME EvidenceInv PROVE EvidenceTypeOK /\ EvidenceSound
    OBVIOUS
  <1>0. DOMAIN evidence = 1..Len(evidence) /\ DOMAIN evaluations = 1..Len(evaluations)
    BY LenProperties DEF EvidenceInv, EvidenceShape
  <1>1. EvidenceTypeOK
    <2>1. /\ \A r \in DOMAIN evidence : evidence[r] \in EvidenceRun
          /\ \A i \in DOMAIN evaluations : evaluations[i] \in Evaluation
      BY <1>0, ElementOfSeq DEF EvidenceInv, EvidenceShape
    <2> QED
      BY <2>1 DEF EvidenceInv, EvidenceShape, EvidenceTypeOK
  <1>2. ClosureIsOneVerification
    BY DEF EvidenceInv, DerivedVerified, VerifiedThere, ClosureIsOneVerification, IsRunOf, IsSoundRun
  <1>3. PlanIsOneVerification
    BY <1>0 DEF EvidenceInv, DerivedVerified, PlanIsOneVerification
  <1> QED
    BY <1>1, <1>2, <1>3 DEF EvidenceInv, EvidenceSound

-----------------------------------------------------------------------------
\* Runs are added and expire; what was verified of a run stays so.
LEMMA EvidenceGrows ==
    ASSUME EvidenceInv, evidence' \in Seq(EvidenceRun), Len(evidence') <= MaxRuns,
           Len(evidence) <= Len(evidence'),
           \A r \in 1..Len(evidence) : /\ evidence'[r].gate = evidence[r].gate
                                       /\ evidence'[r].sound = evidence[r].sound,
           UNCHANGED <<evaluations, receiptVars, disk, trees, binder, verifiedRows, revised>>
    PROVE  EvidenceInv'
  <1>0. Len(evidence) \in Nat /\ Len(evidence') \in Nat
    BY LenProperties DEF EvidenceInv, EvidenceShape
  <1>1. /\ \A r : r \in 1..Len(evidence) => r \in 1..Len(evidence')
        /\ \A r, g : IsRunOf(g, r) => IsRunOf(g, r)'
        /\ \A r : IsSoundRun(r) => IsSoundRun(r)'
    BY <1>0 DEF IsRunOf, IsSoundRun
  <1> HIDE DEF IsRunOf, IsSoundRun
  <1>2. EvidenceShape'
    BY DEF EvidenceInv, EvidenceShape, receiptVars
  <1>3. VerifiedThere'
    BY <1>1 DEF EvidenceInv, VerifiedThere
  <1>4. DerivedVerified'
    BY <1>1 DEF EvidenceInv, DerivedVerified, Exists
  <1>5. Judged'
    BY <1>1 DEF EvidenceInv, Judged
  <1>6. OneLedger' /\ OnlyRevisionsSplitTheEvidence'
    BY DEF EvidenceInv, OneLedger, OnlyRevisionsSplitTheEvidence, Exists, receiptVars
  <1> QED
    BY <1>2, <1>3, <1>4, <1>5, <1>6 DEF EvidenceInv

\* A new run takes no place of another.
LEMMA RunSucceedsInv ==
    ASSUME EvidenceInv, NEW g \in Gates, NEW sound \in BOOLEAN, EvidenceRunSucceeds(g, sound)
    PROVE  EvidenceInv'
  <1> DEFINE run == [gate |-> g, sound |-> sound, live |-> TRUE]
  <1>1. run \in EvidenceRun /\ evidence' = Append(evidence, run) /\ evidence \in Seq(EvidenceRun)
    BY DEF EvidenceRun, EvidenceRunSucceeds, EvidenceInv, EvidenceShape
  <1> HIDE DEF run
  <1>2. /\ evidence' \in Seq(EvidenceRun) /\ Len(evidence') = Len(evidence) + 1
        /\ \A r \in 1..Len(evidence) : evidence'[r] = evidence[r]
    BY <1>1, AppendProperties
  <1>3. Len(evidence) \in Nat /\ MaxRuns \in Nat
    BY LenProperties, EvidenceAssumption DEF EvidenceInv, EvidenceShape
  <1> QED
    BY <1>2, <1>3, EvidenceGrows DEF EvidenceRunSucceeds

\* A run that expires was verified all the same.
LEMMA ExpiresInv ==
    ASSUME EvidenceInv, NEW r \in DOMAIN evidence, ArtifactExpires(r)
    PROVE  EvidenceInv'
  <1> DEFINE run == [evidence[r] EXCEPT !.live = FALSE]
  <1>1. evidence \in Seq(EvidenceRun) /\ r \in 1..Len(evidence) /\ evidence[r] \in EvidenceRun
    BY LenProperties, ElementOfSeq DEF EvidenceInv, EvidenceShape
  <1>2. run \in EvidenceRun /\ run.gate = evidence[r].gate /\ run.sound = evidence[r].sound
    BY <1>1 DEF EvidenceRun
  <1>3. evidence' = [evidence EXCEPT ![r] = run]
    BY DEF ArtifactExpires
  <1> HIDE DEF run
  <1>4. /\ evidence' \in Seq(EvidenceRun) /\ Len(evidence') = Len(evidence)
        /\ \A j \in 1..Len(evidence) : evidence'[j] = IF j = r THEN run ELSE evidence[j]
    BY <1>1, <1>2, <1>3, ExceptSeq
  <1>5. Len(evidence') <= MaxRuns /\ Len(evidence) <= Len(evidence')
    BY <1>4, LenProperties DEF EvidenceInv, EvidenceShape
  <1> QED
    BY <1>2, <1>4, <1>5, EvidenceGrows DEF ArtifactExpires

\* One file is written.
LEMMA WritesFacts ==
    ASSUME EvidenceInv, NEW file \in RowFiles, NEW rows \in Partial, Writes(file, rows),
           file \notin {"ledger", "material", "binding"} => rows \in Complete \cup {NoRows}
    PROVE  /\ disk' \in [RowFiles -> Partial] /\ disk'[file] = rows
           /\ \A f \in RowFiles \ {file} : disk'[f] = disk[f]
           /\ \A f \in RowFiles \ {"ledger", "material", "binding"} :
                 disk'[f] \in Complete \cup {NoRows}
  <1>1. disk \in [RowFiles -> Partial] /\ disk' = [disk EXCEPT ![file] = rows]
    BY DEF EvidenceInv, EvidenceShape, Writes
  <1> QED
    BY <1>1 DEF EvidenceInv, EvidenceShape

\* A complete ledger is a ledger; that of no file is one too.
LEMMA CompletePartial == Complete \subseteq Partial /\ NoRows \in Partial
  BY DEF Complete, Partial, NoRows

\* Whatever is written as the ledger, what was verified stays verified.
LEMMA LedgerInv ==
    ASSUME EvidenceInv, readiness = <<>>, NEW ledger \in Partial, WritesLedger(ledger)
    PROVE  EvidenceInv'
  <1>1. /\ disk' \in [RowFiles -> Partial] /\ disk'["ledger"] = ledger
        /\ \A f \in RowFiles \ {"ledger"} : disk'[f] = disk[f]
        /\ \A f \in RowFiles \ {"ledger", "material", "binding"} : disk'[f] \in Complete \cup {NoRows}
    BY WritesFacts DEF WritesLedger, RowFiles
  <1>2. /\ UNCHANGED <<githubVars, receiptVars, trees, binder, verifiedRows>>
        /\ revised' = (revised \/ (ledger # disk.ledger /\ (Exists("plan") \/ Exists("api"))))
    BY DEF WritesLedger, ReplacesLedger
  <1>3. /\ disk'["api"] = disk["api"] /\ disk'["closure"] = disk["closure"]
        /\ disk'["plan"] = disk["plan"] /\ disk'["attestation"] = disk["attestation"]
        /\ disk'["material"] = disk["material"] /\ disk'["binding"] = disk["binding"]
    BY <1>1 DEF RowFiles
  <1>4. EvidenceShape' /\ VerifiedThere' /\ Judged'
    BY <1>1, <1>2, <1>3
       DEF EvidenceInv, EvidenceShape, VerifiedThere, Judged, IsRunOf, IsSoundRun, githubVars,
           receiptVars
  <1>5. DerivedVerified'
    BY <1>2, <1>3 DEF EvidenceInv, DerivedVerified, Exists, IsSoundRun, githubVars
  <1>6. OneLedger'
    <2> SUFFICES ASSUME ~revised' PROVE OneLedger'
      BY DEF OneLedger
    <2>1. CASE ledger = disk["ledger"]
      BY <1>1, <1>2, <1>3, <2>1 DEF EvidenceInv, OneLedger, Exists, githubVars
    <2>2. CASE ledger # disk["ledger"]
      <3>1. ~Exists("plan") /\ ~Exists("api")
        BY <1>2, <2>2
      <3>2. ~Exists("closure") /\ 1..Len(evaluations) = {}
        BY <3>1 DEF EvidenceInv, DerivedVerified
      <3>3. Len(evaluations) \in Nat
        BY LenProperties DEF EvidenceInv, EvidenceShape
      <3>4. ~Exists("attestation")
        BY <3>2, <3>3 DEF EvidenceInv, DerivedVerified
      <3> QED
        BY <1>2, <1>3, <3>1, <3>2, <3>4 DEF OneLedger, Exists, githubVars
    <2> QED
      BY <2>1, <2>2
  <1>7. OnlyRevisionsSplitTheEvidence'
    BY <1>2 DEF OnlyRevisionsSplitTheEvidence, receiptVars
  <1> QED
    BY <1>4, <1>5, <1>6, <1>7 DEF EvidenceInv

\* So an edit of the ledger keeps the invariant,
LEMMA EditLedgerInv ==
    ASSUME EvidenceInv, readiness = <<>>, NEW g \in Gates, NEW r \in RunIds, EditLedger(g, r)
    PROVE  EvidenceInv'
  <1>1. disk["ledger"] \in Partial
    BY DEF EvidenceInv, EvidenceShape, RowFiles
  <1>2. [disk.ledger EXCEPT ![g] = r] \in Partial
    BY <1>1 DEF Partial
  <1> QED
    BY <1>2, LedgerInv DEF EditLedger

\* and so do the scripts that fill it.
LEMMA LedgerStepsInv ==
    ASSUME EvidenceInv, readiness = <<>>, DiscoverLedger \/ SeedLedger \/ CompleteLedger
    PROVE  EvidenceInv'
  BY LedgerInv, CompletePartial DEF DiscoverLedger, SeedLedger, CompleteLedger

\* A file with complete rows is there.
LEMMA CompleteThere ==
    ASSUME EvidenceInv, NEW f \in RowFiles, Exists(f), NEW rows \in Complete
    PROVE  rows # NoRows
  <1>1. PICK g : g \in Gates
    BY DEF Exists, EvidenceInv, EvidenceShape, Partial, NoRows
  <1>2. rows[g] # NoFile
    BY <1>1 DEF Complete, RunIds, NoFile
  <1> QED
    BY <1>1, <1>2 DEF NoRows

\* What the API verification writes is what it verified.
LEMMA VerifyRunsInv ==
    ASSUME EvidenceInv, readiness = <<>>, VerifyRuns
    PROVE  EvidenceInv'
  <1> DEFINE ledger == disk["ledger"]
  <1>1. /\ ledger \in Complete /\ Writes("api", ledger)
        /\ verifiedRows' = verifiedRows \cup {ledger}
        /\ UNCHANGED <<githubVars, receiptVars, trees, binder, revised>>
    BY DEF VerifyRuns, InputsComplete
  <1>2. /\ disk' \in [RowFiles -> Partial] /\ disk'["api"] = ledger
        /\ \A f \in RowFiles \ {"api"} : disk'[f] = disk[f]
        /\ \A f \in RowFiles \ {"ledger", "material", "binding"} : disk'[f] \in Complete \cup {NoRows}
    BY <1>1, WritesFacts, CompletePartial DEF RowFiles
  <1>3. /\ disk'["ledger"] = ledger /\ disk'["closure"] = disk["closure"]
        /\ disk'["plan"] = disk["plan"] /\ disk'["attestation"] = disk["attestation"]
        /\ disk'["material"] = disk["material"] /\ disk'["binding"] = disk["binding"]
    BY <1>2 DEF RowFiles
  <1>4. \A g \in Gates : IsRunOf(g, ledger[g])
    BY LenProperties DEF VerifyRuns, Eligible, IsRunOf, EvidenceInv, EvidenceShape
  <1>5. EvidenceShape' /\ VerifiedThere' /\ Judged'
    BY <1>1, <1>2, <1>3, <1>4
       DEF EvidenceInv, EvidenceShape, VerifiedThere, Judged, IsRunOf, IsSoundRun, githubVars,
           receiptVars
  <1>6. Exists("api") => Exists("api")'
    BY <1>1, <1>2, CompleteThere DEF Exists, RowFiles
  <1>7. DerivedVerified'
    BY <1>1, <1>2, <1>3, <1>6 DEF EvidenceInv, DerivedVerified, Exists, IsSoundRun, githubVars
  <1>8. OneLedger'
    BY <1>1, <1>2, <1>3 DEF EvidenceInv, OneLedger, Exists, githubVars
  <1>9. OnlyRevisionsSplitTheEvidence'
    BY <1>1 DEF OnlyRevisionsSplitTheEvidence, receiptVars
  <1> QED
    BY <1>5, <1>7, <1>8, <1>9 DEF EvidenceInv

-----------------------------------------------------------------------------
(* The contents *)

\* What is downloaded of a bundle is of rows that were verified together.
LEMMA MaterializeInv ==
    ASSUME EvidenceInv, readiness = <<>>, NEW b \in Bundles, Materialize(b)
    PROVE  EvidenceInv'
  <1> DEFINE rows == [g \in Gates |-> IF g \in b THEN disk["api"][g] ELSE disk["material"][g]]
  <1>0. /\ disk["api"] \in verifiedRows /\ disk["api"] \in Complete /\ disk["material"] \in Partial
        /\ \A g \in Gates : disk["api"][g] \in 1..Len(evidence) /\ disk["api"][g] \in RunIds
    BY DEF EvidenceInv, EvidenceShape, DerivedVerified, VerifiedThere, Materialize, RowFiles, IsRunOf,
           Complete
  <1>1. /\ Writes("material", rows) /\ binder = <<>>
        /\ trees' = [g \in Gates |-> IF g \in b THEN disk["api"][g] ELSE trees[g]]
        /\ UNCHANGED <<githubVars, receiptVars, binder, verifiedRows, revised>>
    BY DEF Materialize
  <1>2. rows \in Partial
    BY <1>0 DEF Complete, Partial
  <1>3. /\ disk' \in [RowFiles -> Partial] /\ disk'["material"] = rows
        /\ \A f \in RowFiles \ {"material"} : disk'[f] = disk[f]
        /\ \A f \in RowFiles \ {"ledger", "material", "binding"} : disk'[f] \in Complete \cup {NoRows}
    BY <1>1, <1>2, WritesFacts DEF RowFiles
  <1>4. /\ disk'["ledger"] = disk["ledger"] /\ disk'["closure"] = disk["closure"]
        /\ disk'["plan"] = disk["plan"] /\ disk'["attestation"] = disk["attestation"]
        /\ disk'["api"] = disk["api"] /\ disk'["binding"] = disk["binding"]
    BY <1>3 DEF RowFiles
  <1>5. trees' \in [Gates -> 0..Altered]
    BY <1>0, <1>1, EvidenceAssumption DEF EvidenceInv, EvidenceShape, RunIds, Altered
  <1>6. \A g \in Gates : rows[g] # NoFile => rows[g] \in 1..Len(evidence)
    BY <1>0 DEF EvidenceInv, Judged
  <1> HIDE DEF rows
  <1>7. Judged'
    BY <1>1, <1>3, <1>4, <1>6 DEF EvidenceInv, Judged, IsSoundRun, githubVars
  <1>8. EvidenceShape' /\ VerifiedThere'
    BY <1>1, <1>3, <1>5 DEF EvidenceInv, EvidenceShape, VerifiedThere, IsRunOf, githubVars, receiptVars
  <1>9. DerivedVerified' /\ OneLedger' /\ OnlyRevisionsSplitTheEvidence'
    BY <1>1, <1>4 DEF EvidenceInv, DerivedVerified, OneLedger, OnlyRevisionsSplitTheEvidence, Exists,
                      IsSoundRun, githubVars, receiptVars
  <1> QED
    BY <1>7, <1>8, <1>9 DEF EvidenceInv

\* Steps that change nothing but the trees and the binder.
LEMMA JudgingInv ==
    ASSUME EvidenceInv, trees' \in [Gates -> 0..Altered], Judged',
           UNCHANGED <<githubVars, receiptVars, disk, verifiedRows, revised>>
    PROVE  EvidenceInv'
  BY DEF EvidenceInv, EvidenceShape, VerifiedThere, DerivedVerified, OneLedger,
         OnlyRevisionsSplitTheEvidence, Exists, IsRunOf, IsSoundRun, githubVars, receiptVars

\* A tree that is altered is a tree of no run.
LEMMA AlterTreeInv ==
    ASSUME EvidenceInv, NEW g \in Gates, AlterTree(g)
    PROVE  EvidenceInv'
  <1>1. /\ trees' = [trees EXCEPT ![g] = Altered] /\ trees \in [Gates -> 0..Altered]
        /\ UNCHANGED <<githubVars, receiptVars, disk, binder, verifiedRows, revised>>
    BY DEF AlterTree, EvidenceInv, EvidenceShape
  <1>2. trees' \in [Gates -> 0..Altered] /\ \A h \in Gates : trees'[h] \in {trees[h], Altered}
    BY <1>1, EvidenceAssumption DEF Altered
  <1>3. Judged'
    BY <1>1, <1>2 DEF EvidenceInv, Judged, IsSoundRun, githubVars
  <1> QED
    BY <1>1, <1>2, <1>3, JudgingInv

\* A bundle has gates only, and each gate is of a bundle.
LEMMA BundlesFacts == /\ \A b \in Bundles : b \subseteq Gates
                      /\ \A g \in Gates : \E b \in Bundles : g \in b
  <1>1. \A b \in Bundles : b \subseteq Gates
    BY EvidenceAssumption DEF Bundles
  <1>2. \A g \in Gates : \E b \in Bundles : g \in b
    <2> SUFFICES ASSUME NEW g \in Gates PROVE \E b \in Bundles : g \in b
      OBVIOUS
    <2>1. CASE g \in PublicGates
      BY <2>1 DEF Bundles
    <2>2. CASE g \notin PublicGates
      BY <2>2 DEF Bundles
    <2> QED
      BY <2>1, <2>2
  <1> QED
    BY <1>1, <1>2

\* A binder begins with the rows its trees are of.
LEMMA BindBeginsInv ==
    ASSUME EvidenceInv, NEW b \in Bundles, BindBegins(b)
    PROVE  EvidenceInv'
  <1> DEFINE rows == [g \in b |-> disk["material"][g]]
             started == [bundle |-> b, rows |-> rows, judged |-> FALSE]
  <1>0. b \subseteq Gates /\ disk["material"] \in Partial /\ trees \in [Gates -> 0..Altered]
    BY BundlesFacts DEF EvidenceInv, EvidenceShape, RowFiles
  <1>1. /\ binder' = started
        /\ UNCHANGED <<githubVars, receiptVars, disk, trees, verifiedRows, revised>>
        /\ \A g \in b : disk["material"][g] # NoFile /\ trees[g] = disk["material"][g]
    BY DEF BindBegins, TreesMatch
  <1>2. \A g \in b : /\ rows[g] = disk["material"][g] /\ rows[g] \in RunIds
                     /\ rows[g] \in 1..Len(evidence) /\ trees[g] = rows[g]
    BY <1>0, <1>1 DEF Partial, EvidenceInv, Judged
  <1>3. started.bundle = b /\ started.rows = rows /\ started.judged = FALSE /\ DOMAIN rows = b
    OBVIOUS
  <1> HIDE DEF rows, started
  <1>4. Judged'
    BY <1>0, <1>1, <1>2, <1>3 DEF EvidenceInv, Judged, IsSoundRun, githubVars
  <1> QED
    BY <1>0, <1>1, <1>4, JudgingInv

\* A binder judges the trees that are there as it judges, which are those of its rows.
LEMMA JudgeTreesInv ==
    ASSUME EvidenceInv, JudgeTrees
    PROVE  EvidenceInv'
  <1>1. /\ UNCHANGED <<githubVars, receiptVars, disk, trees, verifiedRows, revised>>
        /\ binder # <<>> /\ trees \in [Gates -> 0..Altered]
    BY DEF JudgeTrees, EvidenceInv, EvidenceShape
  <1>2. CASE binder' = <<>>
    <2>1. Judged'
      BY <1>1, <1>2 DEF EvidenceInv, Judged, IsSoundRun, githubVars
    <2> QED
      BY <1>1, <2>1, JudgingInv
  <1>3. CASE /\ \A g \in binder.bundle : trees[g] # Altered => evidence[trees[g]].sound
             /\ binder' = [binder EXCEPT !.judged = TRUE]
    <2>1. binder'.bundle = binder.bundle /\ binder'.rows = binder.rows
      BY <1>3
    <2>2. \A g \in binder.bundle : trees[g] # Altered => IsSoundRun(binder.rows[g])
      BY <1>1, <1>3 DEF EvidenceInv, Judged, IsSoundRun
    <2>3. Judged'
      BY <1>1, <2>1, <2>2 DEF EvidenceInv, Judged, IsSoundRun, githubVars
    <2> QED
      BY <1>1, <2>3, JudgingInv
  <1> QED
    BY <1>2, <1>3 DEF JudgeTrees

\* So the binding it writes is of rows whose artifacts passed.
LEMMA BindEndsInv ==
    ASSUME EvidenceInv, readiness = <<>>, BindEnds
    PROVE  EvidenceInv'
  <1> DEFINE b == binder.bundle
             rows == [g \in Gates |-> IF g \in b THEN binder.rows[g] ELSE disk["binding"][g]]
  <1>1. /\ UNCHANGED <<githubVars, receiptVars, trees, verifiedRows, revised>>
        /\ binder # <<>> /\ binder.judged /\ binder' = <<>>
    BY DEF BindEnds
  <1>2. CASE UNCHANGED disk
    <2>1. Judged'
      BY <1>1, <1>2 DEF EvidenceInv, Judged, IsSoundRun, githubVars
    <2> QED
      BY <1>1, <1>2, <2>1, JudgingInv DEF EvidenceInv, EvidenceShape
  <1>3. CASE Unmutated(binder.rows) /\ Writes("binding", rows)
    <2>1. /\ disk["binding"] \in Partial /\ DOMAIN binder.rows = b
          /\ \A g \in b : binder.rows[g] \in RunIds /\ trees[g] = binder.rows[g]
      BY <1>1, <1>3 DEF EvidenceInv, EvidenceShape, Judged, Unmutated, RowFiles
    <2>2. \A g \in b : trees[g] # Altered
      BY <2>1, EvidenceAssumption DEF RunIds, Altered
    <2>3. \A g \in b : IsSoundRun(binder.rows[g])
      BY <1>1, <2>2 DEF EvidenceInv, Judged
    <2>4. rows \in Partial
      BY <2>1 DEF Partial
    <2>5. /\ disk' \in [RowFiles -> Partial] /\ disk'["binding"] = rows
          /\ \A f \in RowFiles \ {"binding"} : disk'[f] = disk[f]
          /\ \A f \in RowFiles \ {"ledger", "material", "binding"} : disk'[f] \in Complete \cup {NoRows}
      BY <1>3, <2>4, WritesFacts DEF RowFiles
    <2>6. /\ disk'["ledger"] = disk["ledger"] /\ disk'["closure"] = disk["closure"]
          /\ disk'["plan"] = disk["plan"] /\ disk'["attestation"] = disk["attestation"]
          /\ disk'["api"] = disk["api"] /\ disk'["material"] = disk["material"]
      BY <2>5 DEF RowFiles
    <2>7. \A g \in Gates : rows[g] # NoFile => IsSoundRun(rows[g])
      BY <2>3 DEF EvidenceInv, Judged
    <2> HIDE DEF rows
    <2>8. Judged'
      BY <1>1, <2>5, <2>6, <2>7 DEF EvidenceInv, Judged, IsSoundRun, githubVars
    <2>9. EvidenceShape' /\ VerifiedThere'
      BY <1>1, <2>5 DEF EvidenceInv, EvidenceShape, VerifiedThere, IsRunOf, githubVars, receiptVars
    <2>10. DerivedVerified' /\ OneLedger' /\ OnlyRevisionsSplitTheEvidence'
      BY <1>1, <2>6 DEF EvidenceInv, DerivedVerified, OneLedger, OnlyRevisionsSplitTheEvidence,
                        Exists, IsSoundRun, githubVars, receiptVars
    <2> QED
      BY <2>8, <2>9, <2>10 DEF EvidenceInv
  <1> QED
    BY <1>2, <1>3 DEF BindEnds

\* A file that later steps read is written; everything but the disk stays.
LEMMA DerivedInv ==
    ASSUME EvidenceInv, readiness = <<>>,
           NEW file \in {"closure", "rederived", "plan", "evaluated", "attestation"},
           NEW rows \in Complete \cup {NoRows}, Writes(file, rows),
           UNCHANGED <<githubVars, readiness, trees, binder, verifiedRows, revised>>,
           evaluator' \in 0..Len(evaluations),
           file \in {"closure", "plan"} /\ rows # NoRows => rows = disk["api"],
           file = "plan" => rows \in Complete,
           file = "closure" => \A g \in Gates : rows[g] = disk["binding"][g],
           file = "attestation" => \E i \in 1..Len(evaluations) : rows = evaluations[i].inputs
    PROVE  EvidenceInv'
  <1>0. rows \in Partial /\ file \in RowFiles \ {"ledger", "material", "binding"}
    BY CompletePartial DEF RowFiles
  <1>1. /\ disk' \in [RowFiles -> Partial] /\ disk'[file] = rows
        /\ \A f \in RowFiles \ {file} : disk'[f] = disk[f]
        /\ \A f \in RowFiles \ {"ledger", "material", "binding"} : disk'[f] \in Complete \cup {NoRows}
    BY <1>0, WritesFacts
  <1>2. /\ disk'["ledger"] = disk["ledger"] /\ disk'["api"] = disk["api"]
        /\ disk'["material"] = disk["material"] /\ disk'["binding"] = disk["binding"]
        /\ file # "closure" => disk'["closure"] = disk["closure"]
        /\ file # "plan" => disk'["plan"] = disk["plan"]
        /\ file # "attestation" => disk'["attestation"] = disk["attestation"]
    BY <1>1 DEF RowFiles
  <1>3. UNCHANGED <<githubVars, readiness, trees, binder, verifiedRows, revised>>
    OBVIOUS
  <1>4. EvidenceShape' /\ VerifiedThere' /\ Judged' /\ OnlyRevisionsSplitTheEvidence'
    BY <1>1, <1>2, <1>3
       DEF EvidenceInv, EvidenceShape, VerifiedThere, Judged, OnlyRevisionsSplitTheEvidence, IsRunOf,
           IsSoundRun, githubVars, receiptVars
  <1>5. file = "closure" /\ rows # NoRows => \A g \in Gates : IsSoundRun(rows[g])
    <2> SUFFICES ASSUME file = "closure", rows # NoRows, NEW g \in Gates PROVE IsSoundRun(rows[g])
      OBVIOUS
    <2>1. rows[g] \in RunIds /\ rows[g] = disk["binding"][g]
      BY DEF Complete
    <2> QED
      BY <2>1 DEF EvidenceInv, Judged, RunIds, NoFile
  <1>6. file \in {"closure", "plan"} /\ rows # NoRows => Exists("api") /\ rows \in verifiedRows
    BY DEF EvidenceInv, DerivedVerified, Exists
  <1>7. file = "plan" /\ Exists("plan") => rows # NoRows
    BY CompleteThere DEF RowFiles
  <1>8. Len(evaluations) \in Nat
    BY LenProperties DEF EvidenceInv, EvidenceShape
  <1>9. DerivedVerified'
    BY <1>1, <1>2, <1>3, <1>5, <1>6, <1>7, <1>8
       DEF EvidenceInv, DerivedVerified, Exists, IsSoundRun, githubVars
  <1>10. OneLedger'
    <2> SUFFICES ASSUME ~revised PROVE OneLedger'
      BY <1>3 DEF OneLedger
    <2>1. rows # NoRows /\ file \in {"closure", "plan", "attestation"} => rows = disk["ledger"]
      BY <1>6 DEF EvidenceInv, OneLedger
    <2> QED
      BY <1>1, <1>2, <1>3, <2>1 DEF EvidenceInv, OneLedger, Exists, githubVars
  <1> QED
    BY <1>4, <1>9, <1>10 DEF EvidenceInv

\* The closure is of rows that were verified and judged,
LEMMA BuildContentClosureInv ==
    ASSUME EvidenceInv, readiness = <<>>, BuildContentClosure
    PROVE  EvidenceInv'
  <1>1. /\ Writes("closure", disk["api"]) /\ DiskOnly /\ disk["api"] \in Complete \cup {NoRows}
        /\ \A g \in Gates : disk["api"][g] = disk["binding"][g]
    BY BundlesFacts
       DEF BuildContentClosure, Closable, BindingFits, EvidenceInv, EvidenceShape, RowFiles
  <1>2. evaluator' \in 0..Len(evaluations)
    BY <1>1 DEF DiskOnly, receiptVars, EvidenceInv, EvidenceShape
  <1> QED
    BY <1>1, <1>2, DerivedInv DEF DiskOnly, receiptVars

\* so what is derived of it again is too.
LEMMA RederiveClosureInv ==
    ASSUME EvidenceInv, readiness = <<>>, RederiveClosure
    PROVE  EvidenceInv'
  <1>1. /\ Writes("rederived", disk["closure"]) /\ DiskOnly
        /\ disk["closure"] \in Complete \cup {NoRows}
    BY DEF RederiveClosure, EvidenceInv, EvidenceShape, RowFiles
  <1>2. evaluator' \in 0..Len(evaluations)
    BY <1>1 DEF DiskOnly, receiptVars, EvidenceInv, EvidenceShape
  <1> QED
    BY <1>1, <1>2, DerivedInv DEF DiskOnly, receiptVars

-----------------------------------------------------------------------------
(* The evaluator *)

\* The plan is of the ledger that was verified.
LEMMA BuildDispatchPlanInv ==
    ASSUME EvidenceInv, readiness = <<>>, BuildDispatchPlan
    PROVE  EvidenceInv'
  <1>1. /\ Writes("plan", disk["ledger"]) /\ DiskOnly
        /\ disk["ledger"] \in Complete /\ disk["ledger"] = disk["api"]
    BY DEF BuildDispatchPlan, InputsComplete, PlanFits
  <1>2. evaluator' \in 0..Len(evaluations)
    BY <1>1 DEF DiskOnly, receiptVars, EvidenceInv, EvidenceShape
  <1> QED
    BY <1>1, <1>2, DerivedInv DEF DiskOnly, receiptVars

\* A run of the evaluator has the inputs of the plan.
LEMMA DispatchEvaluatorInv ==
    ASSUME EvidenceInv, readiness = <<>>, DispatchEvaluator
    PROVE  EvidenceInv'
  <1>1. PICK atHead \in BOOLEAN :
           evaluations' = Append(evaluations, [inputs |-> disk["plan"], atHead |-> atHead])
    BY DEF DispatchEvaluator
  <1> DEFINE run == [inputs |-> disk["plan"], atHead |-> atHead]
  <1>2. /\ Exists("plan") /\ Len(evaluations) < MaxEvaluations
        /\ UNCHANGED <<evidence, receiptVars, disk, trees, binder, verifiedRows, revised>>
    BY DEF DispatchEvaluator
  <1>3. disk["plan"] \in verifiedRows /\ verifiedRows \subseteq Complete
    BY <1>2 DEF EvidenceInv, EvidenceShape, DerivedVerified
  <1>4. run \in Evaluation /\ run.inputs = disk["plan"]
    BY <1>3 DEF Evaluation
  <1>5. evaluations \in Seq(Evaluation) /\ Len(evaluations) \in Nat /\ MaxEvaluations \in Nat
    BY LenProperties, EvidenceAssumption DEF EvidenceInv, EvidenceShape
  <1> HIDE DEF run
  <1>6. /\ evaluations' \in Seq(Evaluation) /\ Len(evaluations') = Len(evaluations) + 1
        /\ \A i \in 1..Len(evaluations) : evaluations'[i] = evaluations[i]
        /\ evaluations'[Len(evaluations) + 1] = run
    BY <1>1, <1>4, <1>5, AppendProperties DEF run
  <1>7. \A i \in 1..Len(evaluations') : i \in 1..Len(evaluations) \/ i = Len(evaluations) + 1
    BY <1>5, <1>6
  <1>8. EvidenceShape'
    BY <1>2, <1>5, <1>6 DEF EvidenceInv, EvidenceShape, receiptVars
  <1>9. VerifiedThere' /\ Judged' /\ OnlyRevisionsSplitTheEvidence'
    BY <1>2 DEF EvidenceInv, VerifiedThere, Judged, OnlyRevisionsSplitTheEvidence, IsRunOf, IsSoundRun,
                receiptVars
  <1>10. \A i \in 1..Len(evaluations') : evaluations'[i].inputs \in verifiedRows
    BY <1>3, <1>4, <1>6, <1>7 DEF EvidenceInv, DerivedVerified
  <1>11. DerivedVerified'
    BY <1>2, <1>5, <1>6, <1>10 DEF EvidenceInv, DerivedVerified, Exists, IsSoundRun
  <1>12. OneLedger'
    <2> SUFFICES ASSUME ~revised PROVE OneLedger'
      BY <1>2 DEF OneLedger
    <2>1. run.inputs = disk["ledger"]
      BY <1>2, <1>4 DEF EvidenceInv, OneLedger
    <2>2. \A i \in 1..Len(evaluations') : evaluations'[i].inputs = disk["ledger"]
      BY <1>6, <1>7, <2>1 DEF EvidenceInv, OneLedger
    <2> QED
      BY <1>2, <2>2 DEF EvidenceInv, OneLedger, Exists
  <1> QED
    BY <1>8, <1>9, <1>11, <1>12 DEF EvidenceInv

\* The run that is verified is of the closure of that moment,
LEMMA VerifyEvaluatorRunInv ==
    ASSUME EvidenceInv, readiness = <<>>, NEW i \in DOMAIN evaluations, VerifyEvaluatorRun(i)
    PROVE  EvidenceInv'
  <1>1. /\ Writes("evaluated", disk["closure"]) /\ evaluator' = i
        /\ disk["closure"] \in Complete \cup {NoRows}
        /\ UNCHANGED <<githubVars, readiness, trees, binder, verifiedRows, revised>>
    BY DEF VerifyEvaluatorRun, EvidenceInv, EvidenceShape, RowFiles
  <1>2. i \in 1..Len(evaluations) /\ Len(evaluations) \in Nat
    BY LenProperties DEF EvidenceInv, EvidenceShape
  <1> QED
    BY <1>1, <1>2, DerivedInv

\* and so is the attestation.
LEMMA VerifyAttestationInv ==
    ASSUME EvidenceInv, readiness = <<>>, VerifyAttestation
    PROVE  EvidenceInv'
  <1>1. /\ evaluator \in 1..Len(evaluations) /\ evaluator \in 0..Len(evaluations)
        /\ evaluations[evaluator] \in Evaluation
    BY LenProperties, ElementOfSeq DEF VerifyAttestation, EvidenceInv, EvidenceShape
  <1>2. Writes("attestation", evaluations[evaluator].inputs) /\ DiskOnly
    BY DEF VerifyAttestation
  <1>3. evaluations[evaluator].inputs \in Complete
    BY <1>1 DEF Evaluation
  <1>4. evaluator' \in 0..Len(evaluations)
    BY <1>1, <1>2 DEF DiskOnly, receiptVars
  <1> QED
    BY <1>1, <1>2, <1>3, <1>4, DerivedInv DEF DiskOnly, receiptVars

\* The readiness receipt joins what was verified, attested and closed.
LEMMA BuildReadinessInv ==
    ASSUME EvidenceInv, BuildReadiness
    PROVE  EvidenceInv'
  <1>1. /\ Exists("closure") /\ Exists("attestation")
        /\ readiness' = [closure |-> disk["closure"], run |-> evaluator,
                         attested |-> disk["attestation"]]
        /\ UNCHANGED <<githubVars, disk, evaluator, trees, binder, verifiedRows, revised>>
    BY DEF BuildReadiness
  <1>2. readiness'.closure = disk["closure"] /\ readiness'.attested = disk["attestation"]
    BY <1>1
  <1>3. disk["closure"] \in verifiedRows /\ (~revised => disk["attestation"] = disk["closure"])
    BY <1>1 DEF EvidenceInv, DerivedVerified, OneLedger
  <1>4. OnlyRevisionsSplitTheEvidence'
    BY <1>1, <1>2, <1>3 DEF OnlyRevisionsSplitTheEvidence
  <1>5. EvidenceShape' /\ VerifiedThere' /\ DerivedVerified' /\ Judged' /\ OneLedger'
    BY <1>1 DEF EvidenceInv, EvidenceShape, VerifiedThere, DerivedVerified, Judged, OneLedger, Exists,
                IsRunOf, IsSoundRun, githubVars
  <1> QED
    BY <1>4, <1>5 DEF EvidenceInv

-----------------------------------------------------------------------------
\* A finite set of gates can be run one after the other.
LEMMA FirstRunsFacts ==
    /\ Cardinality(Gates) \in Nat
    /\ FirstRuns \in [1..Cardinality(Gates) -> Gates]
  <1>1. Cardinality(Gates) \in Nat
    BY EvidenceAssumption, FS_CardinalityType
  <1>2. \E f \in [1..Cardinality(Gates) -> Gates] : IsInjective(f)
    <2>1. PICK f \in Bijection(1..Cardinality(Gates), Gates) : TRUE
      BY EvidenceAssumption, FS_CardinalityType DEF ExistsBijection
    <2> QED
      BY <2>1 DEF Bijection, Injection, IsInjective
  <1> QED
    BY <1>1, <1>2 DEF FirstRuns, SetToSeq

\* At first each gate has a run and nothing is written.
LEMMA InitEvidenceInv == EvidenceInit => EvidenceInv
  <1> SUFFICES ASSUME EvidenceInit PROVE EvidenceInv
    OBVIOUS
  <1>1. PICK good \in [DOMAIN FirstRuns -> BOOLEAN] :
           evidence = [r \in DOMAIN FirstRuns |->
                         [gate |-> FirstRuns[r], sound |-> good[r], live |-> TRUE]]
    BY DEF EvidenceInit
  <1>2. evidence \in [1..Cardinality(Gates) -> EvidenceRun]
    BY <1>1, FirstRunsFacts DEF EvidenceRun
  <1>3. evidence \in Seq(EvidenceRun) /\ Len(evidence) = Cardinality(Gates)
    BY <1>2, FirstRunsFacts, LenProperties, SeqDef
  <1>4. evaluations = <<>> /\ Len(evaluations) = 0 /\ evaluations \in Seq(Evaluation)
    BY DEF EvidenceInit
  <1>5. \A f \in RowFiles : disk[f] = NoRows
    BY DEF EvidenceInit
  <1>6. EvidenceShape
    BY <1>3, <1>4, EvidenceAssumption, CompletePartial DEF EvidenceInit, EvidenceShape, NoFile, Altered
  <1>7. VerifiedThere /\ DerivedVerified /\ Judged /\ OneLedger /\ OnlyRevisionsSplitTheEvidence
    BY <1>4, <1>5
       DEF EvidenceInit, VerifiedThere, DerivedVerified, Judged, OneLedger,
           OnlyRevisionsSplitTheEvidence, Exists, RowFiles, NoRows
  <1> QED
    BY <1>6, <1>7 DEF EvidenceInv

\* Each step of the chain and of the others keeps the invariant.
LEMMA NextEvidenceInv == EvidenceInv /\ [EvidenceNext]_evidenceVars => EvidenceInv'
  <1> SUFFICES ASSUME EvidenceInv, [EvidenceNext]_evidenceVars PROVE EvidenceInv'
    OBVIOUS
  <1>1. CASE UNCHANGED evidenceVars
    BY <1>1 DEF evidenceVars, githubVars, receiptVars, EvidenceInv, EvidenceShape, VerifiedThere,
                DerivedVerified, Judged, OneLedger, OnlyRevisionsSplitTheEvidence, Exists, IsRunOf,
                IsSoundRun
  <1>2. CASE EvidenceNext
    <2>1. readiness = <<>>
      BY <1>2 DEF EvidenceNext
    <2> QED
      BY <1>2, <2>1, RunSucceedsInv, ExpiresInv, VerifyEvaluatorRunInv, LedgerStepsInv, AlterTreeInv,
         EditLedgerInv, VerifyRunsInv, MaterializeInv, BindBeginsInv, JudgeTreesInv, BindEndsInv,
         BuildContentClosureInv, RederiveClosureInv, BuildDispatchPlanInv, DispatchEvaluatorInv,
         VerifyAttestationInv, BuildReadinessInv
      DEF EvidenceNext
  <1> QED
    BY <1>1, <1>2

\* So the invariant holds for good.
LEMMA EvidenceInvHolds == EvidenceSpec => []EvidenceInv
  <1> QED
    BY InitEvidenceInv, NextEvidenceInv, PTL DEF EvidenceSpec

-----------------------------------------------------------------------------
(* The certification.  A job of the worker is attested to once, so an        *)
(* attestation that was replaced never comes back; what was read of a       *)
(* campaign and its rows is either as it is now or was replaced.            *)

Memory ==
    [at : {"idle"} \cup CertifySteps \cup CampaignSteps \cup CheckSteps, index : Indexes,
     round : {1, 2}, read : Manifests \cup {Unwritten}, held : Packs \cup {Unwritten},
     result : 0..MaxExecutions, row : Attestation \cup {Unwritten}, rows : Seq(CampaignRow),
     envelope : Campaign \cup {Unwritten}, first : Campaign \cup {Unwritten}]

CertShape ==
    /\ manifest \in Manifests /\ pack \in Packs
    /\ attestations \in [Indexes -> Attestation \cup {Unwritten}]
    /\ campaignFile \in Campaign \cup {Unwritten}
    /\ executed \in Seq(Packs) /\ Len(executed) <= MaxExecutions
    /\ certifier \in [Certifiers -> Memory]
    /\ revisions \in Nat /\ (revisions = 0 => pack = 0)

Different(rows) ==
    \A i, j \in 1..Len(rows) : rows[i].digest = rows[j].digest => i = j

CampaignFits(x) == x \in Campaign /\ Len(x.rows) = Iterations /\ Different(x.rows)

GatheringSteps == {"verifyRow", "hashRow", "readRow", "publish"}
VerifyingSteps == {"checkRow", "verifyChecked", "bind"}

KnowledgeFits(k) ==
    /\ k.at \in {"pack", "submit", "write"} => k.read \in Manifests
    /\ k.at \in {"submit", "write"} => k.held \in Packs
    /\ k.at = "write" => k.result > 0
    /\ k.result <= Len(executed)
    /\ k.at \in GatheringSteps => k.read \in Manifests /\ k.held \in Packs /\ Different(k.rows)
    /\ k.at \in GatheringSteps \ {"publish"} => Len(k.rows) = k.index - 1
    /\ k.at = "publish" => Len(k.rows) = Iterations
    /\ k.at \notin GatheringSteps => k.rows = <<>>
    /\ k.at \in {"hashRow", "readRow"} => attestations[k.index] \in Attestation
    /\ k.at = "readRow" =>
          k.row \in Attestation /\ \A i \in 1..Len(k.rows) : k.rows[i].digest # k.row
    /\ k.at \in CheckSteps => CampaignFits(campaignFile)
    /\ k.at \in VerifyingSteps => CampaignFits(k.envelope)
    /\ k.at \notin CheckSteps => k.round = 1
    /\ k.at = "bind" => k.round = 2
    /\ k.at \in {"checkRow", "verifyChecked"} /\ k.round = 1 => k.first = k.envelope
    /\ k.at = "check" /\ k.round = 2 => CampaignFits(k.first)

\* The attestations that are in files or were read from one.
IsRowOf(x, a) == x \in Campaign /\ \E i \in 1..Len(x.rows) : x.rows[i].digest = a

HeldBy(k, a) ==
    \/ k.row = a
    \/ \E i \in 1..Len(k.rows) : k.rows[i].digest = a
    \/ IsRowOf(k.envelope, a) \/ IsRowOf(k.first, a)

Known(a) ==
    /\ a \in Attestation
    /\ \/ \E i \in Indexes : attestations[i] = a
       \/ IsRowOf(campaignFile, a)
       \/ \E c \in Certifiers : HeldBy(certifier[c], a)

OneEach ==
    /\ \A a, b \in Attestation : Known(a) /\ Known(b) /\ a.execution = b.execution => a = b
    /\ \A a \in Attestation : Known(a) => a.execution <= Len(executed)
    /\ \A c \in Certifiers : certifier[c].at = "write" =>
          /\ \A a \in Attestation : Known(a) => a.execution # certifier[c].result
          /\ \A d \in Certifiers :
                certifier[d].at = "write" /\ certifier[d].result = certifier[c].result => c = d

\* Before the pack was edited there is only the first one.
FirstPack ==
    revisions <= 1 /\ pack = 0 =>
        /\ \A a \in Attestation : Known(a) => a.pack = 0
        /\ \A c \in Certifiers : certifier[c].at \in {"submit", "write"} => certifier[c].held = 0

RowAgrees(x, i) == x.rows[i].digest.pack = x.pack
Settled(x, i) == RowAgrees(x, i) \/ attestations[i] # x.rows[i].digest

\* What the two verifications of one campaign leave of its rows.
KnowledgeAgrees(k) ==
    revisions <= 1 =>
        /\ k.at \in {"checkRow", "verifyChecked"} =>
              k.envelope.pack = pack \/ \A i \in Indexes : RowAgrees(k.envelope, i)
        /\ k.at \in {"checkRow", "verifyChecked"} /\ k.round = 1 =>
              \A i \in 1..k.index - 1 : Settled(k.envelope, i)
        /\ k.at = "check" /\ k.round = 2 =>
              \A i \in Indexes : Settled(k.first, i)
        /\ k.at \in {"checkRow", "verifyChecked"} /\ k.round = 2 /\ k.first = k.envelope =>
              /\ \A i \in Indexes : Settled(k.envelope, i)
              /\ \A i \in 1..k.index - 1 : RowAgrees(k.envelope, i)
              /\ k.at = "verifyChecked" => RowAgrees(k.envelope, k.index)
        /\ k.at = "bind" /\ k.first = k.envelope => \A i \in Indexes : RowAgrees(k.envelope, i)

\* What a certifier that nobody disturbed knows.
GoodAt(i) ==
    LET a == attestations[i] IN
    /\ a \in Attestation /\ a.image = manifest /\ a.pack = pack
    /\ a.execution \in 1..Len(executed) /\ executed[a.execution] = pack

RowsCopied(rows) ==
    \A i \in 1..Len(rows) :
        rows[i].digest = attestations[i] /\ rows[i].execution = attestations[i].execution

KnowledgeTrue(k) ==
    /\ k.at \in {"pack", "submit", "write"} => k.read = manifest
    /\ k.at \in {"submit", "write"} => k.held = pack
    /\ k.at = "write" => executed[k.result] = pack
    /\ k.at \in CertifySteps => \A i \in 1..k.index - 1 : GoodAt(i)
    /\ k.at = "verify" => GoodAt(k.index)
    /\ k.at \notin CertifySteps => \A i \in Indexes : GoodAt(i)
    /\ k.at \in GatheringSteps => k.read = manifest /\ k.held = pack /\ RowsCopied(k.rows)
    /\ k.at = "readRow" => k.row = attestations[k.index]
    /\ k.at \in CheckSteps =>
          campaignFile.image = manifest /\ campaignFile.pack = pack /\ RowsCopied(campaignFile.rows)
    /\ k.at \in VerifyingSteps => k.envelope = campaignFile

Undisturbed ==
    \A c \in Certifiers : c \notin disturbed /\ certifier[c].at # "idle" =>
        /\ \A d \in Certifiers \ {c} : certifier[d].at = "idle"
        /\ KnowledgeTrue(certifier[c])

PassedHolds ==
    /\ VerifiedRunsDiffer /\ VerifiedRowsAgree
    /\ \A m \in passed : ~m.disturbed =>
          /\ m.campaign = m.verified /\ m.image = m.campaign.image
          /\ m.campaign \in Campaign
          /\ \A i \in 1..Len(m.campaign.rows) :
                LET row == m.campaign.rows[i] IN
                /\ row.digest.execution = row.execution
                /\ row.digest.image = m.image
                /\ row.execution \in 1..Len(executed)
                /\ executed[row.execution] = m.campaign.pack

CertificationInv ==
    /\ CertShape /\ \A c \in Certifiers : KnowledgeFits(certifier[c]) /\ KnowledgeAgrees(certifier[c])
    /\ OneEach /\ FirstPack /\ Undisturbed /\ PassedHolds

\* What the invariant is for.
LEMMA CertificationInvProperties == CertificationInv => CampaignTypeOK /\ CertificationSound
  <1> SUFFICES ASSUME CertificationInv PROVE CampaignTypeOK /\ CertificationSound
    OBVIOUS
  <1>1. CampaignTypeOK
    <2>1. \A c \in Certifiers : certifier[c] \in Memory /\ certifier[c].result <= Len(executed)
      BY DEF CertificationInv, CertShape, KnowledgeFits
    <2>2. \A c \in Certifiers : certifier[c].index \in 1..Iterations + 1
      BY <2>1, CampaignAssumption DEF Memory, Indexes
    <2>3. \A c \in Certifiers :
             /\ certifier[c].at \in {"idle"} \cup CertifySteps \cup CampaignSteps \cup CheckSteps
             /\ certifier[c].round \in {1, 2}
      BY <2>1 DEF Memory
    <2> QED
      BY <2>1, <2>2, <2>3 DEF CertificationInv, CertShape, CampaignTypeOK
  <1>2. UndisturbedMatrixHolds
    <2> SUFFICES ASSUME NEW m \in passed, ~m.disturbed, NEW i \in DOMAIN m.campaign.rows
                 PROVE  /\ m.campaign = m.verified /\ m.image = m.campaign.image
                        /\ m.campaign.rows[i].digest.execution = m.campaign.rows[i].execution
                        /\ m.campaign.rows[i].digest.image = m.image
                        /\ executed[m.campaign.rows[i].execution] = m.campaign.pack
      BY DEF UndisturbedMatrixHolds, CertificationInv, PassedHolds
    <2>1. m.campaign.rows \in Seq(CampaignRow)
      BY DEF CertificationInv, PassedHolds, Campaign
    <2>2. i \in 1..Len(m.campaign.rows)
      BY <2>1, LenProperties
    <2> QED
      BY <2>2 DEF CertificationInv, PassedHolds
  <1> QED
    BY <1>1, <1>2 DEF CertificationInv, PassedHolds, CertificationSound

\* What certifiers and files hold is what the worker or a certifier has written.
LEMMA KnownTypes ==
    ASSUME CertificationInv
    PROVE  /\ \A i \in Indexes : attestations[i] \in Attestation => Known(attestations[i])
           /\ \A c \in Certifiers : \A a \in Attestation : HeldBy(certifier[c], a) => Known(a)
           /\ \A x \in Campaign : \A i \in 1..Len(x.rows) :
                  x.rows[i].digest \in Attestation /\ IsRowOf(x, x.rows[i].digest)
           /\ \A a \in Attestation : IsRowOf(campaignFile, a) => Known(a)
  <1>1. ASSUME NEW x \in Campaign, NEW i \in 1..Len(x.rows)
        PROVE  x.rows[i].digest \in Attestation /\ IsRowOf(x, x.rows[i].digest)
    <2>1. x.rows \in Seq(CampaignRow)
      BY DEF Campaign
    <2>2. x.rows[i] \in CampaignRow
      BY <2>1, ElementOfSeq
    <2> QED
      BY <2>2 DEF CampaignRow, IsRowOf
  <1> QED
    BY <1>1 DEF Known

\* A step of one certifier that writes no file.
LEMMA MovesInv ==
    ASSUME CertificationInv, NEW c \in Certifiers, NEW k \in Memory, Learns(c, k),
           UNCHANGED <<certFiles, revisions>>,
           executed' \in Seq(Packs), Len(executed) <= Len(executed'), Len(executed') <= MaxExecutions,
           KnowledgeFits(k)', KnowledgeAgrees(k),
           k.at = "write" => k.result > Len(executed),
           \A a \in Attestation : HeldBy(k, a) => Known(a),
           revisions <= 1 /\ pack = 0 => (k.at \in {"submit", "write"} => k.held = 0),
           Undisturbed', PassedHolds'
    PROVE  CertificationInv'
  <1>1. /\ UNCHANGED <<manifest, pack, attestations, campaignFile, revisions>>
        /\ certifier \in [Certifiers -> Memory]
        /\ certifier' = [certifier EXCEPT ![c] = k]
        /\ Len(executed) \in Nat /\ Len(executed') \in Nat /\ MaxExecutions \in Nat
    BY LenProperties, CampaignAssumption DEF certFiles, Learns, CertificationInv, CertShape
  <1>2. /\ certifier' \in [Certifiers -> Memory] /\ certifier'[c] = k
        /\ \A d \in Certifiers \ {c} : certifier'[d] = certifier[d]
        /\ \A d \in Certifiers : certifier[d].result \in Nat /\ certifier[d].result <= Len(executed)
    BY <1>1, CampaignAssumption DEF Memory, CertificationInv, KnowledgeFits
  <1>3. CertShape'
    BY <1>1, <1>2 DEF CertificationInv, CertShape
  <1>4. ASSUME NEW d \in Certifiers
        PROVE  (KnowledgeFits(certifier[d]) /\ KnowledgeAgrees(certifier[d]))'
    <2>1. CASE d = c
      <3>1. KnowledgeFits(certifier[d])'
        BY <1>2, <2>1 DEF KnowledgeFits
      <3>2. KnowledgeAgrees(certifier[d])'
        BY <1>1, <1>2, <2>1 DEF KnowledgeAgrees, RowAgrees, Settled
      <3> QED
        BY <3>1, <3>2
    <2>2. CASE d # c
      <3>1. PICK known \in Memory : /\ certifier'[d] = known /\ known = certifier[d]
                                    /\ KnowledgeFits(known) /\ KnowledgeAgrees(known)
        BY <1>1, <1>2, <2>2 DEF CertificationInv
      <3>2. KnowledgeFits(certifier[d])'
        BY <1>1, <1>2, <3>1 DEF KnowledgeFits, CampaignFits, Different
      <3>3. KnowledgeAgrees(certifier[d])'
        BY <1>1, <3>1 DEF KnowledgeAgrees, RowAgrees, Settled
      <3> QED
        BY <3>2, <3>3
    <2> QED
      BY <2>1, <2>2
  <1>5. \A a \in Attestation : Known(a)' => Known(a)
    <2> SUFFICES ASSUME NEW a \in Attestation, Known(a)' PROVE Known(a)
      OBVIOUS
    <2>1. CASE \E d \in Certifiers : HeldBy(certifier'[d], a)
      BY <1>2, <2>1 DEF Known
    <2>2. CASE (\E i \in Indexes : attestations[i] = a) \/ IsRowOf(campaignFile, a)
      BY <2>2 DEF Known
    <2> QED
      BY <1>1, <2>1, <2>2 DEF Known, HeldBy, IsRowOf
  <1>6. \A a \in Attestation : a.execution \in Nat
    BY CampaignAssumption DEF Attestation
  <1>7. OneEach'
    <2>1. \A a \in Attestation : Known(a)' => a.execution <= Len(executed) /\ a.execution <= Len(executed')
      BY <1>1, <1>5, <1>6 DEF CertificationInv, OneEach
    <2>2. ASSUME NEW d \in Certifiers, certifier'[d].at = "write"
          PROVE  /\ \A a \in Attestation : Known(a)' => a.execution # certifier'[d].result
                 /\ \A e \in Certifiers :
                       certifier'[e].at = "write" /\ certifier'[e].result = certifier'[d].result
                          => d = e
      <3>1. CASE d = c
        BY <1>1, <1>2, <1>6, <2>1, <2>2, <3>1
      <3>2. CASE d # c
        <4>1. certifier[d].at = "write" /\ certifier[d] = certifier'[d]
          BY <1>2, <2>2, <3>2
        <4>2. \A a \in Attestation : Known(a)' => a.execution # certifier'[d].result
          BY <1>5, <4>1 DEF CertificationInv, OneEach
        <4>3. ASSUME NEW e \in Certifiers, certifier'[e].at = "write",
                     certifier'[e].result = certifier'[d].result
              PROVE  d = e
          <5>1. CASE e = c
            BY <1>1, <1>2, <3>2, <4>1, <4>3, <5>1
          <5>2. CASE e # c
            BY <1>2, <4>1, <4>3, <5>2 DEF CertificationInv, OneEach
          <5> QED
            BY <5>1, <5>2
        <4> QED
          BY <4>2, <4>3
      <3> QED
        BY <3>1, <3>2
    <2>3. \A a, b \in Attestation : Known(a)' /\ Known(b)' /\ a.execution = b.execution => a = b
      BY <1>5 DEF CertificationInv, OneEach
    <2> QED
      BY <2>1, <2>2, <2>3 DEF OneEach
  <1>8. FirstPack'
    BY <1>1, <1>2, <1>5 DEF CertificationInv, FirstPack
  <1> QED
    BY <1>3, <1>4, <1>7, <1>8 DEF CertificationInv

\* One that is disturbed, or is not at work, says nothing of what it knows.
LEMMA UndisturbedStep ==
    ASSUME CertificationInv, NEW c \in Certifiers, NEW k \in Memory, Learns(c, k),
           UNCHANGED disturbed, certifier[c].at # "idle",
           c \notin disturbed /\ k.at # "idle" => KnowledgeTrue(k)'
    PROVE  Undisturbed'
  <1>1. /\ certifier'[c] = k
        /\ \A d \in Certifiers \ {c} : certifier'[d] = certifier[d]
    BY DEF Learns, CertificationInv, CertShape
  <1>2. \A d \in Certifiers \ {c} : d \notin disturbed => certifier[d].at = "idle"
    BY DEF CertificationInv, Undisturbed
  <1>3. c \notin disturbed => \A d \in Certifiers \ {c} : certifier[d].at = "idle"
    BY DEF CertificationInv, Undisturbed
  <1> SUFFICES ASSUME NEW d \in Certifiers, d \notin disturbed, certifier'[d].at # "idle"
               PROVE  /\ \A e \in Certifiers \ {d} : certifier'[e].at = "idle"
                      /\ KnowledgeTrue(certifier[d])'
    BY DEF Undisturbed
  <1>4. d = c
    BY <1>1, <1>2
  <1>5. KnowledgeTrue(certifier[d])'
    BY <1>1, <1>4 DEF KnowledgeTrue
  <1> QED
    BY <1>1, <1>3, <1>4, <1>5

\* A step in which one certifier learns something and nothing else happens.
LEMMA LearnsInv ==
    ASSUME CertificationInv, NEW c \in Certifiers, NEW k \in Memory, Learns(c, k), ReadOnly,
           certifier[c].at # "idle",
           KnowledgeFits(k), KnowledgeAgrees(k), k.at # "write",
           \A a \in Attestation : HeldBy(k, a) => Known(a),
           revisions <= 1 /\ pack = 0 => (k.at = "submit" => k.held = 0),
           c \notin disturbed /\ k.at # "idle" => KnowledgeTrue(k)
    PROVE  CertificationInv'
  <1>1. /\ UNCHANGED <<manifest, pack, attestations, campaignFile, executed, passed, revisions, disturbed>>
        /\ UNCHANGED <<certFiles, revisions>>
        /\ executed \in Seq(Packs) /\ Len(executed) <= MaxExecutions /\ Len(executed) \in Nat
    BY LenProperties DEF ReadOnly, certFiles, CertificationInv, CertShape
  <1>2. PassedHolds'
    BY <1>1 DEF CertificationInv, PassedHolds, VerifiedRunsDiffer, VerifiedRowsAgree
  <1>3. KnowledgeFits(k)'
    BY <1>1 DEF KnowledgeFits, CampaignFits, Different
  <1>4. KnowledgeTrue(k) => KnowledgeTrue(k)'
    BY <1>1 DEF KnowledgeTrue, GoodAt, RowsCopied
  <1>5. Undisturbed'
    BY <1>1, <1>4, UndisturbedStep
  <1> QED
    BY <1>1, <1>2, <1>3, <1>5, MovesInv

\* A certifier that does nothing remembers nothing.
LEMMA IdleMemory == /\ IdleCertifier \in Memory /\ IdleCertifier.at = "idle"
                    /\ IdleCertifier.index = 1 /\ IdleCertifier.round = 1
                    /\ IdleCertifier.result = 0 /\ IdleCertifier.rows = <<>>
                    /\ IdleCertifier.row = Unwritten /\ IdleCertifier.envelope = Unwritten
                    /\ IdleCertifier.first = Unwritten
                    /\ CertificationInv => KnowledgeFits(IdleCertifier) /\ KnowledgeAgrees(IdleCertifier)
                    /\ \A a \in Attestation : ~HeldBy(IdleCertifier, a)
  <1>1. /\ IdleCertifier \in Memory /\ IdleCertifier.at = "idle"
        /\ IdleCertifier.index = 1 /\ IdleCertifier.round = 1
        /\ IdleCertifier.result = 0 /\ IdleCertifier.rows = <<>>
        /\ IdleCertifier.row = Unwritten /\ IdleCertifier.envelope = Unwritten
        /\ IdleCertifier.first = Unwritten
    BY CampaignAssumption DEF IdleCertifier, Memory, Indexes
  <1>2. CertificationInv => KnowledgeFits(IdleCertifier)
    <2> SUFFICES ASSUME CertificationInv PROVE KnowledgeFits(IdleCertifier)
      OBVIOUS
    <2>1. Len(executed) \in Nat
      BY LenProperties DEF CertificationInv, CertShape
    <2> QED
      BY <1>1, <2>1 DEF KnowledgeFits, GatheringSteps, CheckSteps, VerifyingSteps
  <1>3. KnowledgeAgrees(IdleCertifier)
    BY <1>1 DEF KnowledgeAgrees
  <1>4. \A a \in Attestation : ~HeldBy(IdleCertifier, a)
    BY <1>1, UnwrittenAssumption DEF HeldBy, IsRowOf
  <1> QED
    BY <1>1, <1>2, <1>3, <1>4

\* A certifier may give up wherever it raises.
LEMMA AbandonInv ==
    ASSUME CertificationInv, NEW c \in Certifiers, certifier[c].at # "idle", Abandon(c), ReadOnly
    PROVE  CertificationInv'
  BY IdleMemory, LearnsInv DEF Abandon

\* What an invariant says of a certifier under way.
LEMMA CertifierFacts ==
    ASSUME CertificationInv, NEW c \in Certifiers
    PROVE  /\ certifier[c] \in Memory /\ KnowledgeFits(certifier[c])
           /\ KnowledgeAgrees(certifier[c])
           /\ c \notin disturbed /\ certifier[c].at # "idle" => KnowledgeTrue(certifier[c])
           /\ manifest \in Manifests /\ pack \in Packs
           /\ \A a \in Attestation : HeldBy(certifier[c], a) => Known(a)
           /\ \A i \in Indexes : attestations[i] \in Attestation \cup {Unwritten}
           /\ Len(executed) \in Nat /\ 1 \in Indexes /\ Iterations \in Indexes
  <1>1. Len(executed) \in Nat
    BY LenProperties DEF CertificationInv, CertShape
  <1> QED
    BY <1>1, CampaignAssumption, KnownTypes
       DEF CertificationInv, CertShape, Undisturbed, Indexes

\* The image and
LEMMA LoadManifestInv ==
    ASSUME CertificationInv, NEW c \in Certifiers, LoadManifest(c)
    PROVE  CertificationInv'
  <1> DEFINE k == [certifier[c] EXCEPT !.at = "pack", !.read = manifest]
  <1>0. certifier[c].at = "load" /\ Learns(c, k) /\ ReadOnly
    BY DEF LoadManifest, CertifierAt
  <1>1. /\ k \in Memory /\ k.at = "pack" /\ k.read = manifest /\ k.index = certifier[c].index
        /\ k.round = certifier[c].round /\ k.result = certifier[c].result
        /\ k.row = certifier[c].row /\ k.rows = certifier[c].rows
        /\ k.envelope = certifier[c].envelope /\ k.first = certifier[c].first
    BY CertifierFacts DEF Memory, CertifySteps
  <1> HIDE DEF k
  <1>2. KnowledgeFits(k) /\ KnowledgeAgrees(k) /\ \A a \in Attestation : HeldBy(k, a) => Known(a)
    BY <1>0, <1>1, CertifierFacts
       DEF KnowledgeFits, KnowledgeAgrees, HeldBy, GatheringSteps, CheckSteps, VerifyingSteps
  <1>3. c \notin disturbed => KnowledgeTrue(k)
    BY <1>0, <1>1, CertifierFacts
       DEF KnowledgeTrue, GatheringSteps, CheckSteps, VerifyingSteps, CertifySteps
  <1> QED
    BY <1>0, <1>1, <1>2, <1>3, LearnsInv

\* the pack a certifier reads are those of that moment.
LEMMA LoadPackInv ==
    ASSUME CertificationInv, NEW c \in Certifiers, LoadPack(c)
    PROVE  CertificationInv'
  <1> DEFINE k == [certifier[c] EXCEPT !.at = "submit", !.held = pack]
  <1>0. certifier[c].at = "pack" /\ ReadOnly
    BY DEF LoadPack, CertifierAt
  <1>1. /\ k \in Memory /\ k.at = "submit" /\ k.held = pack /\ k.index = certifier[c].index
        /\ k.round = certifier[c].round /\ k.result = certifier[c].result
        /\ k.row = certifier[c].row /\ k.rows = certifier[c].rows /\ k.read = certifier[c].read
        /\ k.envelope = certifier[c].envelope /\ k.first = certifier[c].first
    BY CertifierFacts DEF Memory, CertifySteps
  <1>2. Learns(c, k) \/ Abandon(c)
    BY DEF LoadPack
  <1> HIDE DEF k
  <1>3. KnowledgeFits(k) /\ KnowledgeAgrees(k) /\ \A a \in Attestation : HeldBy(k, a) => Known(a)
    BY <1>0, <1>1, CertifierFacts
       DEF KnowledgeFits, KnowledgeAgrees, HeldBy, GatheringSteps, CheckSteps, VerifyingSteps
  <1>4. c \notin disturbed => KnowledgeTrue(k)
    BY <1>0, <1>1, CertifierFacts
       DEF KnowledgeTrue, GatheringSteps, CheckSteps, VerifyingSteps, CertifySteps
  <1>5. CASE Learns(c, k)
    BY <1>0, <1>1, <1>3, <1>4, <1>5, LearnsInv
  <1> QED
    BY <1>0, <1>2, <1>5, AbandonInv

\* A run is verified as it was written, if nobody disturbs.
LEMMA VerifyRunInv ==
    ASSUME CertificationInv, NEW c \in Certifiers, VerifyRun(c)
    PROVE  CertificationInv'
  <1> DEFINE i == certifier[c].index
             k == [certifier[c] EXCEPT !.at = "load", !.index = i + 1]
             l == [certifier[c] EXCEPT !.at = "gather"]
  <1>0. certifier[c].at = "verify" /\ ReadOnly /\ i \in Nat
    BY CertifierFacts DEF VerifyRun, CertifierAt, Memory, Indexes
  <1>1. Abandon(c) \/ (i < Iterations /\ Learns(c, k)) \/ (~(i < Iterations) /\ Learns(c, l))
    BY DEF VerifyRun
  <1>2. CASE i < Iterations /\ Learns(c, k)
    <2>0. i + 1 \in Indexes
      BY <1>0, <1>2, CertifierFacts, CampaignAssumption DEF Memory, Indexes
    <2>1. /\ k \in Memory /\ k.at = "load" /\ k.index = i + 1 /\ k.held = certifier[c].held
          /\ k.round = certifier[c].round /\ k.result = certifier[c].result
          /\ k.row = certifier[c].row /\ k.rows = certifier[c].rows /\ k.read = certifier[c].read
          /\ k.envelope = certifier[c].envelope /\ k.first = certifier[c].first
      BY <2>0, CertifierFacts DEF Memory, CertifySteps
    <2> HIDE DEF k
    <2>2. KnowledgeFits(k) /\ KnowledgeAgrees(k) /\ \A a \in Attestation : HeldBy(k, a) => Known(a)
      BY <1>0, <2>1, CertifierFacts
         DEF KnowledgeFits, KnowledgeAgrees, HeldBy, GatheringSteps, CheckSteps, VerifyingSteps
    <2>3. c \notin disturbed => KnowledgeTrue(k)
      <3>1. c \notin disturbed => \A j \in 1..i : GoodAt(j)
        BY <1>0, CertifierFacts DEF KnowledgeTrue, CertifySteps
      <3> QED
        BY <1>0, <2>1, <3>1, CertifierFacts
           DEF KnowledgeTrue, GatheringSteps, CheckSteps, VerifyingSteps, CertifySteps
    <2> QED
      BY <1>0, <1>2, <2>1, <2>2, <2>3, LearnsInv
  <1>3. CASE ~(i < Iterations) /\ Learns(c, l)
    <2>1. /\ l \in Memory /\ l.at = "gather" /\ l.index = i /\ l.held = certifier[c].held
          /\ l.round = certifier[c].round /\ l.result = certifier[c].result
          /\ l.row = certifier[c].row /\ l.rows = certifier[c].rows /\ l.read = certifier[c].read
          /\ l.envelope = certifier[c].envelope /\ l.first = certifier[c].first
      BY CertifierFacts DEF Memory, CampaignSteps
    <2> HIDE DEF l
    <2>2. KnowledgeFits(l) /\ KnowledgeAgrees(l) /\ \A a \in Attestation : HeldBy(l, a) => Known(a)
      BY <1>0, <2>1, CertifierFacts
         DEF KnowledgeFits, KnowledgeAgrees, HeldBy, GatheringSteps, CheckSteps, VerifyingSteps
    <2>3. c \notin disturbed => KnowledgeTrue(l)
      <3>1. c \notin disturbed => \A j \in Indexes : GoodAt(j)
        BY <1>0, <1>3, CertifierFacts, CampaignAssumption DEF KnowledgeTrue, CertifySteps, Indexes
      <3> QED
        BY <1>0, <2>1, <3>1, CertifierFacts
           DEF KnowledgeTrue, GatheringSteps, CheckSteps, VerifyingSteps, CertifySteps
    <2> QED
      BY <1>0, <1>3, <2>1, <2>2, <2>3, LearnsInv
  <1> QED
    BY <1>0, <1>1, <1>2, <1>3, AbandonInv

-----------------------------------------------------------------------------
(* The campaign is gathered *)

\* The rows are gathered after all runs were verified,
LEMMA GatherInv ==
    ASSUME CertificationInv, NEW c \in Certifiers, Gather(c)
    PROVE  CertificationInv'
  <1> DEFINE k == [certifier[c] EXCEPT !.at = "verifyRow", !.index = 1, !.read = manifest,
                                       !.held = pack]
  <1>0. certifier[c].at = "gather" /\ Learns(c, k) /\ ReadOnly
    BY DEF Gather, CertifierAt
  <1>1. /\ k \in Memory /\ k.at = "verifyRow" /\ k.read = manifest /\ k.index = 1
        /\ k.held = pack /\ k.round = certifier[c].round /\ k.result = certifier[c].result
        /\ k.row = certifier[c].row /\ k.rows = certifier[c].rows
        /\ k.envelope = certifier[c].envelope /\ k.first = certifier[c].first
    BY CertifierFacts DEF Memory, CampaignSteps
  <1>2. k.rows = <<>> /\ Len(k.rows) = 0
    BY <1>0, <1>1, CertifierFacts DEF KnowledgeFits, GatheringSteps
  <1> HIDE DEF k
  <1>3. Different(k.rows) /\ RowsCopied(k.rows)
    BY <1>2 DEF Different, RowsCopied
  <1>4. KnowledgeFits(k) /\ KnowledgeAgrees(k) /\ \A a \in Attestation : HeldBy(k, a) => Known(a)
    BY <1>0, <1>1, <1>2, <1>3, CertifierFacts
       DEF KnowledgeFits, KnowledgeAgrees, HeldBy, GatheringSteps, CheckSteps, VerifyingSteps
  <1>5. c \notin disturbed => KnowledgeTrue(k)
    BY <1>0, <1>1, <1>3, CertifierFacts
       DEF KnowledgeTrue, GatheringSteps, CheckSteps, VerifyingSteps, CertifySteps
  <1> QED
    BY <1>0, <1>1, <1>4, <1>5, LearnsInv

\* each is verified,
LEMMA VerifyRowInv ==
    ASSUME CertificationInv, NEW c \in Certifiers, VerifyRow(c)
    PROVE  CertificationInv'
  <1> DEFINE k == [certifier[c] EXCEPT !.at = "hashRow"]
  <1>0. certifier[c].at = "verifyRow" /\ ReadOnly
    BY DEF VerifyRow, CertifierAt
  <1>1. CASE Abandon(c)
    BY <1>0, <1>1, AbandonInv
  <1>2. CASE Verifies(certifier[c].index) /\ Learns(c, k)
    <2>1. /\ k \in Memory /\ k.at = "hashRow" /\ k.read = certifier[c].read
          /\ k.index = certifier[c].index /\ k.held = certifier[c].held
          /\ k.round = certifier[c].round /\ k.result = certifier[c].result
          /\ k.row = certifier[c].row /\ k.rows = certifier[c].rows
          /\ k.envelope = certifier[c].envelope /\ k.first = certifier[c].first
      BY CertifierFacts DEF Memory, CampaignSteps
    <2> HIDE DEF k
    <2>2. attestations[k.index] \in Attestation
      BY <1>2, <2>1, CertifierFacts DEF Verifies, Memory
    <2>3. KnowledgeFits(k) /\ KnowledgeAgrees(k) /\ \A a \in Attestation : HeldBy(k, a) => Known(a)
      BY <1>0, <2>1, <2>2, CertifierFacts
         DEF KnowledgeFits, KnowledgeAgrees, HeldBy, GatheringSteps, CheckSteps, VerifyingSteps
    <2>4. c \notin disturbed => KnowledgeTrue(k)
      BY <1>0, <2>1, CertifierFacts
         DEF KnowledgeTrue, GatheringSteps, CheckSteps, VerifyingSteps, CertifySteps
    <2> QED
      BY <1>0, <1>2, <2>1, <2>3, <2>4, LearnsInv
  <1> QED
    BY <1>1, <1>2 DEF VerifyRow

\* then hashed
LEMMA HashRowInv ==
    ASSUME CertificationInv, NEW c \in Certifiers, HashRow(c)
    PROVE  CertificationInv'
  <1> DEFINE now == attestations[certifier[c].index]
             k == [certifier[c] EXCEPT !.at = "readRow", !.row = now]
  <1>0. certifier[c].at = "hashRow" /\ ReadOnly
    BY DEF HashRow, CertifierAt
  <1>1. CASE Abandon(c)
    BY <1>0, <1>1, AbandonInv
  <1>2. CASE now \notin Digests(certifier[c].rows) /\ Learns(c, k)
    <2>0. now \in Attestation /\ Known(now) /\ certifier[c].rows \in Seq(CampaignRow)
      BY <1>0, CertifierFacts, KnownTypes DEF KnowledgeFits, Memory
    <2>1. /\ k \in Memory /\ k.at = "readRow" /\ k.read = certifier[c].read
          /\ k.index = certifier[c].index /\ k.held = certifier[c].held
          /\ k.round = certifier[c].round /\ k.result = certifier[c].result
          /\ k.row = now /\ k.rows = certifier[c].rows
          /\ k.envelope = certifier[c].envelope /\ k.first = certifier[c].first
      BY <2>0, CertifierFacts DEF Memory, CampaignSteps
    <2>2. \A i \in 1..Len(k.rows) : k.rows[i].digest # now
      BY <1>2, <2>0, <2>1, LenProperties DEF Digests
    <2> HIDE DEF k
    <2>3. KnowledgeFits(k) /\ KnowledgeAgrees(k)
      BY <1>0, <2>0, <2>1, <2>2, CertifierFacts
         DEF KnowledgeFits, KnowledgeAgrees, GatheringSteps, CheckSteps, VerifyingSteps
    <2>4. \A a \in Attestation : HeldBy(k, a) => Known(a)
      BY <2>0, <2>1, CertifierFacts DEF HeldBy
    <2>5. c \notin disturbed => KnowledgeTrue(k)
      BY <1>0, <2>1, CertifierFacts
         DEF KnowledgeTrue, GatheringSteps, CheckSteps, VerifyingSteps, CertifySteps
    <2> QED
      BY <1>0, <1>2, <2>1, <2>3, <2>4, <2>5, LearnsInv
  <1> QED
    BY <1>1, <1>2 DEF HashRow

\* and read again, so that its digest may be of another file.
LEMMA ReadRowInv ==
    ASSUME CertificationInv, NEW c \in Certifiers, ReadRow(c)
    PROVE  CertificationInv'
  <1> DEFINE i == certifier[c].index
             row == [digest |-> certifier[c].row, execution |-> attestations[i].execution]
             rows == Append(certifier[c].rows, row)
             at == IF i < Iterations THEN "verifyRow" ELSE "publish"
             index == IF i < Iterations THEN i + 1 ELSE i
             k == [certifier[c] EXCEPT !.at = at, !.index = index, !.row = Unwritten,
                                       !.rows = rows]
  <1>0. certifier[c].at = "readRow" /\ ReadOnly /\ i \in Indexes /\ i \in Nat
    BY CertifierFacts DEF ReadRow, CertifierAt, Memory, Indexes
  <1>1. Abandon(c) \/ Learns(c, k)
    BY DEF ReadRow
  <1>2. /\ certifier[c].rows \in Seq(CampaignRow) /\ Len(certifier[c].rows) = i - 1
        /\ certifier[c].row \in Attestation /\ attestations[i] \in Attestation
        /\ \A j \in 1..Len(certifier[c].rows) : certifier[c].rows[j].digest # certifier[c].row
        /\ Different(certifier[c].rows)
    BY <1>0, CertifierFacts DEF KnowledgeFits, GatheringSteps, Memory
  <1>3. row \in CampaignRow /\ row.digest = certifier[c].row /\ row.execution = attestations[i].execution
    BY <1>2 DEF CampaignRow, Attestation
  <1> HIDE DEF row
  <1>4. /\ rows \in Seq(CampaignRow) /\ Len(rows) = i /\ rows[i] = row
        /\ \A j \in 1..i - 1 : rows[j] = certifier[c].rows[j]
    BY <1>0, <1>2, <1>3, AppendProperties
  <1> HIDE DEF rows
  <1>5. Different(rows)
    <2> SUFFICES ASSUME NEW j \in 1..i, NEW l \in 1..i, rows[j].digest = rows[l].digest
                 PROVE  j = l
      BY <1>4 DEF Different
    <2>1. (j = i \/ j \in 1..i - 1) /\ (l = i \/ l \in 1..i - 1)
      BY <1>0
    <2> QED
      BY <1>2, <1>3, <1>4, <2>1 DEF Different
  <1>6. /\ at \in {"verifyRow", "publish"} /\ index \in Indexes
        /\ at = "verifyRow" => index = i + 1
        /\ at = "publish" => i = Iterations
    BY <1>0, CampaignAssumption DEF Indexes
  <1> HIDE DEF at, index
  <1>7. /\ k \in Memory /\ k.at = at /\ k.read = certifier[c].read
        /\ k.index = index /\ k.held = certifier[c].held
        /\ k.round = certifier[c].round /\ k.result = certifier[c].result
        /\ k.row = Unwritten /\ k.rows = rows
        /\ k.envelope = certifier[c].envelope /\ k.first = certifier[c].first
    BY <1>4, <1>6, CertifierFacts DEF Memory, CampaignSteps
  <1> HIDE DEF k
  <1>8. KnowledgeFits(k) /\ KnowledgeAgrees(k)
    BY <1>0, <1>4, <1>5, <1>6, <1>7, CertifierFacts
       DEF KnowledgeFits, KnowledgeAgrees, GatheringSteps, CheckSteps, VerifyingSteps
  <1>9. \A a \in Attestation : HeldBy(k, a) => Known(a)
    <2> SUFFICES ASSUME NEW a \in Attestation, HeldBy(k, a) PROVE HeldBy(certifier[c], a)
      BY CertifierFacts
    <2>1. k.row # a
      BY <1>7, UnwrittenAssumption
    <2>2. CASE \E j \in 1..i : rows[j].digest = a
      <3>1. \A j \in 1..i : j = i \/ j \in 1..i - 1
        BY <1>0
      <3> QED
        BY <1>2, <1>3, <1>4, <2>2, <3>1 DEF HeldBy
    <2>3. CASE IsRowOf(k.envelope, a) \/ IsRowOf(k.first, a)
      BY <1>7, <2>3 DEF HeldBy
    <2> QED
      BY <1>4, <1>7, <2>1, <2>2, <2>3 DEF HeldBy
  <1>10. c \notin disturbed => KnowledgeTrue(k)
    <2> SUFFICES ASSUME c \notin disturbed PROVE KnowledgeTrue(k)
      OBVIOUS
    <2>1. /\ certifier[c].row = attestations[i] /\ RowsCopied(certifier[c].rows)
          /\ certifier[c].read = manifest /\ certifier[c].held = pack
          /\ \A j \in Indexes : GoodAt(j)
      BY <1>0, CertifierFacts DEF KnowledgeTrue, GatheringSteps, CertifySteps
    <2>2. RowsCopied(rows)
      <3>1. \A j \in 1..i : j = i \/ j \in 1..i - 1
        BY <1>0
      <3> QED
        BY <1>2, <1>3, <1>4, <2>1, <3>1 DEF RowsCopied
    <2> QED
      BY <1>6, <1>7, <2>1, <2>2
         DEF KnowledgeTrue, GatheringSteps, CheckSteps, VerifyingSteps, CertifySteps
  <1>11. k.at # "idle" /\ k.at # "write" /\ k.at # "submit"
    BY <1>6, <1>7
  <1>12. CASE Learns(c, k)
    BY <1>0, <1>7, <1>8, <1>9, <1>10, <1>11, <1>12, LearnsInv
  <1> QED
    BY <1>0, <1>1, <1>12, AbandonInv

-----------------------------------------------------------------------------
(* The campaign is verified, twice *)

\* The campaign is read again to be checked; the first of two readings is remembered.
LEMMA CheckCampaignInv ==
    ASSUME CertificationInv, NEW c \in Certifiers, CheckCampaign(c)
    PROVE  CertificationInv'
  <1> DEFINE first == IF certifier[c].round = 1 THEN campaignFile ELSE certifier[c].first
             k == [certifier[c] EXCEPT !.at = "checkRow", !.index = 1,
                                       !.envelope = campaignFile, !.first = first]
  <1>0. certifier[c].at = "check" /\ ReadOnly /\ CampaignFits(campaignFile)
    BY CertifierFacts DEF CheckCampaign, CertifierAt, KnowledgeFits, CheckSteps
  <1>1. CASE Abandon(c)
    BY <1>0, <1>1, AbandonInv
  <1>2. CASE campaignFile.pack = pack /\ Learns(c, k)
    <2>0. campaignFile \in Campaign /\ first \in Campaign \cup {Unwritten}
      BY <1>0, CertifierFacts DEF CampaignFits, Memory
    <2>1. /\ k \in Memory /\ k.at = "checkRow" /\ k.read = certifier[c].read
          /\ k.index = 1 /\ k.held = certifier[c].held
          /\ k.round = certifier[c].round /\ k.result = certifier[c].result
          /\ k.row = certifier[c].row /\ k.rows = certifier[c].rows
          /\ k.envelope = campaignFile /\ k.first = first
      BY <2>0, CertifierFacts DEF Memory, CheckSteps
    <2>2. first = campaignFile \/ first = certifier[c].first
      OBVIOUS
    <2>3. certifier[c].round = 1 => first = campaignFile
      OBVIOUS
    <2>4. certifier[c].round = 2 => first = certifier[c].first
      OBVIOUS
    <2> HIDE DEF k, first
    <2>5. KnowledgeFits(k)
      BY <1>0, <2>1, <2>3, CertifierFacts
         DEF KnowledgeFits, GatheringSteps, CheckSteps, VerifyingSteps
    <2>6. KnowledgeAgrees(k)
      <3>1. revisions <= 1 /\ k.round = 2 => \A i \in Indexes : Settled(first, i)
        BY <1>0, <2>1, <2>4, CertifierFacts DEF KnowledgeAgrees
      <3>2. 1..1 - 1 = {}
        OBVIOUS
      <3> QED
        BY <1>2, <2>1, <2>3, <3>1, <3>2 DEF KnowledgeAgrees
    <2>7. \A a \in Attestation : HeldBy(k, a) => Known(a)
      BY <2>1, <2>2, CertifierFacts, KnownTypes DEF HeldBy
    <2>8. c \notin disturbed => KnowledgeTrue(k)
      BY <1>0, <2>1, CertifierFacts
         DEF KnowledgeTrue, GatheringSteps, CheckSteps, VerifyingSteps, CertifySteps
    <2> QED
      BY <1>0, <1>2, <2>1, <2>5, <2>6, <2>7, <2>8, LearnsInv
  <1> QED
    BY <1>1, <1>2 DEF CheckCampaign

\* A row is compared with the file of its index,
LEMMA CheckRowInv ==
    ASSUME CertificationInv, NEW c \in Certifiers, CheckRow(c)
    PROVE  CertificationInv'
  <1> DEFINE k == [certifier[c] EXCEPT !.at = "verifyChecked"]
  <1>0. certifier[c].at = "checkRow" /\ ReadOnly
    BY DEF CheckRow, CertifierAt
  <1>1. CASE Abandon(c)
    BY <1>0, <1>1, AbandonInv
  <1>2. CASE RowHolds(certifier[c].envelope.rows, certifier[c].index) /\ Learns(c, k)
    <2>1. /\ k \in Memory /\ k.at = "verifyChecked" /\ k.read = certifier[c].read
          /\ k.index = certifier[c].index /\ k.held = certifier[c].held
          /\ k.round = certifier[c].round /\ k.result = certifier[c].result
          /\ k.row = certifier[c].row /\ k.rows = certifier[c].rows
          /\ k.envelope = certifier[c].envelope /\ k.first = certifier[c].first
      BY CertifierFacts DEF Memory, CheckSteps
    <2>2. k.index \in Indexes
      BY <2>1, CertifierFacts DEF Memory
    <2> HIDE DEF k
    <2>3. attestations[k.index] = k.envelope.rows[k.index].digest
      BY <1>2, <2>1 DEF RowHolds
    <2>4. KnowledgeFits(k) /\ \A a \in Attestation : HeldBy(k, a) => Known(a)
      BY <1>0, <2>1, CertifierFacts
         DEF KnowledgeFits, HeldBy, GatheringSteps, CheckSteps, VerifyingSteps
    <2>5. KnowledgeAgrees(k)
      BY <1>0, <2>1, <2>2, <2>3, CertifierFacts DEF KnowledgeAgrees, Settled
    <2>6. c \notin disturbed => KnowledgeTrue(k)
      BY <1>0, <2>1, CertifierFacts
         DEF KnowledgeTrue, GatheringSteps, CheckSteps, VerifyingSteps, CertifySteps
    <2> QED
      BY <1>0, <1>2, <2>1, <2>4, <2>5, <2>6, LearnsInv
  <1> QED
    BY <1>1, <1>2 DEF CheckRow

\* and that file verified; a row that fits is one of the campaign for good.
LEMMA VerifyCheckedInv ==
    ASSUME CertificationInv, NEW c \in Certifiers, VerifyChecked(c)
    PROVE  CertificationInv'
  <1> DEFINE i == certifier[c].index
             env == certifier[c].envelope
             k == [certifier[c] EXCEPT !.at = "checkRow", !.index = i + 1]
             l == [certifier[c] EXCEPT !.at = "check", !.round = 2]
             b == [certifier[c] EXCEPT !.at = "bind"]
  <1>0. /\ certifier[c].at = "verifyChecked" /\ ReadOnly /\ i \in Nat /\ i \in Indexes
        /\ CampaignFits(env) /\ CampaignFits(campaignFile) /\ Len(env.rows) = Iterations
        /\ certifier[c].round \in {1, 2} /\ (certifier[c].round = 1 => certifier[c].first = env)
    BY CertifierFacts
       DEF VerifyChecked, CertifierAt, KnowledgeFits, VerifyingSteps, CheckSteps, Memory, Indexes,
           CampaignFits
  <1>1. CASE Abandon(c)
    BY <1>0, <1>1, AbandonInv
  <1>2. CASE /\ Verifies(i)
             /\ \/ i < Iterations /\ Learns(c, k)
                \/ ~(i < Iterations) /\ certifier[c].round = 1 /\ Learns(c, l)
                \/ ~(i < Iterations) /\ certifier[c].round # 1 /\ Learns(c, b)
    <2>0. attestations[i].pack = pack
      BY <1>2 DEF Verifies
    <2>1. revisions <= 1 => Settled(env, i)
      BY <1>0, <2>0, CertifierFacts DEF KnowledgeAgrees, Settled, RowAgrees
    <2>2. \A j \in 1..i : j = i \/ j \in 1..i - 1
      BY <1>0
    <2>3. revisions <= 1 /\ certifier[c].round = 1 => \A j \in 1..i : Settled(env, j)
      BY <1>0, <2>1, <2>2, CertifierFacts DEF KnowledgeAgrees
    <2>4. revisions <= 1 /\ certifier[c].round = 2 /\ certifier[c].first = env =>
             /\ \A j \in Indexes : Settled(env, j)
             /\ \A j \in 1..i : RowAgrees(env, j)
      BY <1>0, <2>2, CertifierFacts DEF KnowledgeAgrees
    <2>5. CASE i < Iterations /\ Learns(c, k)
      <3>0. i + 1 \in Indexes /\ (i + 1) - 1 = i
        BY <1>0, <2>5, CampaignAssumption DEF Indexes
      <3>1. /\ k \in Memory /\ k.at = "checkRow" /\ k.index = i + 1 /\ k.read = certifier[c].read
            /\ k.held = certifier[c].held
            /\ k.round = certifier[c].round /\ k.result = certifier[c].result
            /\ k.row = certifier[c].row /\ k.rows = certifier[c].rows
            /\ k.envelope = env /\ k.first = certifier[c].first
        BY <3>0, CertifierFacts DEF Memory, CheckSteps
      <3> HIDE DEF k, env
      <3>2. KnowledgeFits(k) /\ \A a \in Attestation : HeldBy(k, a) => Known(a)
        BY <1>0, <3>1, CertifierFacts
           DEF KnowledgeFits, HeldBy, GatheringSteps, CheckSteps, VerifyingSteps, env
      <3>3. KnowledgeAgrees(k)
        BY <1>0, <2>3, <2>4, <3>0, <3>1, CertifierFacts DEF KnowledgeAgrees, env
      <3>4. c \notin disturbed => KnowledgeTrue(k)
        BY <1>0, <3>1, CertifierFacts
           DEF KnowledgeTrue, GatheringSteps, CheckSteps, VerifyingSteps, CertifySteps, env
      <3> QED
        BY <1>0, <2>5, <3>1, <3>2, <3>3, <3>4, LearnsInv
    <2>6. CASE ~(i < Iterations) /\ certifier[c].round = 1 /\ Learns(c, l)
      <3>0. i = Iterations
        BY <1>0, <2>6, CampaignAssumption DEF Indexes
      <3>1. /\ l \in Memory /\ l.at = "check" /\ l.index = i /\ l.read = certifier[c].read
            /\ l.held = certifier[c].held
            /\ l.round = 2 /\ l.result = certifier[c].result
            /\ l.row = certifier[c].row /\ l.rows = certifier[c].rows
            /\ l.envelope = env /\ l.first = certifier[c].first
        BY CertifierFacts DEF Memory, CheckSteps
      <3> HIDE DEF l, env
      <3>2. KnowledgeFits(l) /\ \A a \in Attestation : HeldBy(l, a) => Known(a)
        BY <1>0, <2>6, <3>1, CertifierFacts
           DEF KnowledgeFits, HeldBy, GatheringSteps, CheckSteps, VerifyingSteps, env
      <3>3. KnowledgeAgrees(l)
        BY <1>0, <2>3, <2>6, <3>0, <3>1, CertifierFacts DEF KnowledgeAgrees, Indexes
      <3>4. c \notin disturbed => KnowledgeTrue(l)
        BY <1>0, <3>1, CertifierFacts
           DEF KnowledgeTrue, GatheringSteps, CheckSteps, VerifyingSteps, CertifySteps, env
      <3> QED
        BY <1>0, <2>6, <3>1, <3>2, <3>3, <3>4, LearnsInv
    <2>7. CASE ~(i < Iterations) /\ certifier[c].round # 1 /\ Learns(c, b)
      <3>0. i = Iterations /\ certifier[c].round = 2
        BY <1>0, <2>7, CampaignAssumption DEF Indexes
      <3>1. /\ b \in Memory /\ b.at = "bind" /\ b.index = i /\ b.read = certifier[c].read
            /\ b.held = certifier[c].held
            /\ b.round = certifier[c].round /\ b.result = certifier[c].result
            /\ b.row = certifier[c].row /\ b.rows = certifier[c].rows
            /\ b.envelope = env /\ b.first = certifier[c].first
        BY CertifierFacts DEF Memory, CheckSteps
      <3> HIDE DEF b, env
      <3>2. KnowledgeFits(b) /\ \A a \in Attestation : HeldBy(b, a) => Known(a)
        BY <1>0, <3>0, <3>1, CertifierFacts
           DEF KnowledgeFits, HeldBy, GatheringSteps, CheckSteps, VerifyingSteps, env
      <3>3. KnowledgeAgrees(b)
        BY <1>0, <2>4, <3>0, <3>1, CertifierFacts DEF KnowledgeAgrees, Indexes
      <3>4. c \notin disturbed => KnowledgeTrue(b)
        BY <1>0, <3>1, CertifierFacts
           DEF KnowledgeTrue, GatheringSteps, CheckSteps, VerifyingSteps, CertifySteps, env
      <3> QED
        BY <1>0, <2>7, <3>1, <3>2, <3>3, <3>4, LearnsInv
    <2> QED
      BY <1>2, <2>5, <2>6, <2>7
  <1> QED
    BY <1>0, <1>1, <1>2 DEF VerifyChecked

\* Rows with different attestations are of different jobs.
LEMMA RowsOfJobs ==
    ASSUME CertificationInv, NEW x, CampaignFits(x),
           \A a \in Attestation : IsRowOf(x, a) => Known(a)
    PROVE  Cardinality({x.rows[i].digest.execution : i \in DOMAIN x.rows}) >= Iterations
  <1> DEFINE jobs == {x.rows[i].digest.execution : i \in DOMAIN x.rows}
             job == [i \in 1..Iterations |-> x.rows[i].digest.execution]
  <1>1. /\ DOMAIN x.rows = 1..Iterations /\ Iterations \in Nat /\ MaxExecutions \in Nat
        /\ \A i \in 1..Iterations : /\ x.rows[i].digest \in Attestation
                                    /\ Known(x.rows[i].digest)
    BY LenProperties, KnownTypes, CampaignAssumption DEF CampaignFits, Campaign
  <1>2. jobs \subseteq 1..MaxExecutions
    BY <1>1 DEF Attestation
  <1>3. IsFiniteSet(jobs)
    <2> HIDE DEF jobs
    <2>1. IsFiniteSet(1..MaxExecutions)
      BY <1>1, FS_Interval
    <2> QED
      BY <1>2, <2>1, FS_Subset
  <1>4. job \in Injection(1..Iterations, jobs)
    <2>1. job \in [1..Iterations -> jobs]
      BY <1>1
    <2>2. \A i, j \in 1..Iterations : job[i] = job[j] => i = j
      BY <1>1 DEF CertificationInv, OneEach, CampaignFits, Different
    <2> QED
      BY <2>1, <2>2 DEF Injection, IsInjective
  <1>5. Cardinality(1..Iterations) <= Cardinality(jobs)
    BY <1>3, <1>4, FS_Injection
  <1>6. Cardinality(1..Iterations) = Iterations /\ Cardinality(jobs) \in Nat
    BY <1>1, <1>3, FS_Interval, FS_CardinalityType
  <1> QED
    BY <1>1, <1>5, <1>6

\* What the matrix binds was checked twice, the second time as it is.
LEMMA BindMatrixInv ==
    ASSUME CertificationInv, NEW c \in Certifiers, BindMatrix(c)
    PROVE  CertificationInv'
  <1> DEFINE env == certifier[c].envelope
             m == [by |-> c, campaign |-> campaignFile, image |-> manifest, verified |-> env,
                   first |-> certifier[c].first, disturbed |-> c \in disturbed,
                   revisions |-> revisions]
  <1>0. /\ certifier[c].at = "bind" /\ Abandon(c) /\ CampaignFits(env) /\ passed' = passed \cup {m}
        /\ UNCHANGED <<certFiles, executed, revisions, disturbed>>
        /\ Len(env.rows) = Iterations /\ env.rows \in Seq(CampaignRow)
        /\ DOMAIN env.rows = Indexes
    BY LenProperties, CertifierFacts
       DEF BindMatrix, CertifierAt, KnowledgeFits, VerifyingSteps, CampaignFits, Campaign, Indexes
  <1>1. /\ m.campaign = campaignFile /\ m.image = manifest /\ m.verified = env
        /\ m.first = certifier[c].first /\ (m.disturbed <=> c \in disturbed)
        /\ m.revisions = revisions
    OBVIOUS
  <1> HIDE DEF m
  <1>2. Cardinality({m.verified.rows[i].digest.execution : i \in DOMAIN m.verified.rows}) >= Iterations
    <2>1. CampaignFits(m.verified) /\ \A a \in Attestation : IsRowOf(m.verified, a) => Known(a)
      BY <1>0, <1>1, CertifierFacts DEF HeldBy
    <2> QED
      BY <2>1, RowsOfJobs
  <1>3. m.first = m.verified =>
           \A i \in DOMAIN m.verified.rows :
              m.verified.rows[i].digest.pack = m.verified.pack \/ m.revisions >= 2
    <2>1. revisions \in Nat
      BY DEF CertificationInv, CertShape
    <2>2. CASE revisions <= 1
      <3>1. env = certifier[c].first => \A i \in Indexes : RowAgrees(env, i)
        BY <1>0, <2>2, CertifierFacts DEF KnowledgeAgrees
      <3> HIDE DEF env
      <3> QED
        BY <1>0, <1>1, <3>1 DEF RowAgrees
    <2>3. CASE ~(revisions <= 1)
      BY <1>1, <2>1, <2>3
    <2> QED
      BY <2>2, <2>3
  <1>4. ~m.disturbed =>
          /\ m.campaign = m.verified /\ m.image = m.campaign.image /\ m.campaign \in Campaign
          /\ \A i \in 1..Len(m.campaign.rows) :
                /\ m.campaign.rows[i].digest.execution = m.campaign.rows[i].execution
                /\ m.campaign.rows[i].digest.image = m.image
                /\ m.campaign.rows[i].execution \in 1..Len(executed)
                /\ executed[m.campaign.rows[i].execution] = m.campaign.pack
    <2> SUFFICES ASSUME c \notin disturbed
                 PROVE  /\ campaignFile = env /\ manifest = env.image /\ env \in Campaign
                        /\ \A i \in Indexes :
                              /\ env.rows[i].digest.execution = env.rows[i].execution
                              /\ env.rows[i].digest.image = manifest
                              /\ env.rows[i].execution \in 1..Len(executed)
                              /\ executed[env.rows[i].execution] = env.pack
      BY <1>0, <1>1 DEF Indexes
    <2>1. /\ campaignFile = env /\ campaignFile.image = manifest /\ campaignFile.pack = pack
          /\ RowsCopied(env.rows) /\ \A i \in Indexes : GoodAt(i)
      BY <1>0, CertifierFacts DEF KnowledgeTrue, CheckSteps, VerifyingSteps, CertifySteps
    <2>2. \A i \in Indexes : /\ env.rows[i].digest = attestations[i]
                             /\ env.rows[i].execution = attestations[i].execution
      BY <1>0, <2>1 DEF RowsCopied, Indexes
    <2> QED
      BY <1>0, <2>1, <2>2 DEF GoodAt, CampaignFits
  <1>5. PassedHolds'
    <2>1. VerifiedRunsDiffer'
      <3>1. VerifiedRunsDiffer /\ \A x \in passed' : x \in passed \/ x = m
        BY <1>0 DEF CertificationInv, PassedHolds
      <3> SUFFICES ASSUME NEW x \in passed'
                   PROVE  Cardinality({x.verified.rows[i].digest.execution :
                                          i \in DOMAIN x.verified.rows}) >= Iterations
        BY DEF VerifiedRunsDiffer
      <3>2. CASE x \in passed
        BY <3>1, <3>2 DEF VerifiedRunsDiffer
      <3>3. CASE x = m
        BY <1>2, <3>3, Zenon
      <3> QED
        BY <3>1, <3>2, <3>3
    <2>2. VerifiedRowsAgree'
      BY <1>0, <1>3 DEF CertificationInv, PassedHolds, VerifiedRowsAgree
    <2> QED
      BY <1>0, <1>4, <2>1, <2>2 DEF CertificationInv, PassedHolds
  <1>6. Undisturbed'
    BY <1>0, IdleMemory, UndisturbedStep DEF Abandon
  <1>7. KnowledgeFits(IdleCertifier)'
    <2>1. Len(executed) \in Nat
      BY CertifierFacts
    <2> QED
      BY <1>0, <2>1, IdleMemory DEF KnowledgeFits, GatheringSteps, CheckSteps, VerifyingSteps
  <1>8. executed \in Seq(Packs) /\ Len(executed) <= MaxExecutions /\ Len(executed) <= Len(executed)
    BY CertifierFacts DEF CertificationInv, CertShape
  <1> QED
    BY <1>0, <1>5, <1>6, <1>7, <1>8, IdleMemory, MovesInv DEF Abandon

-----------------------------------------------------------------------------
(* A certifier begins, has the worker run a job, attests to it *)

\* A certifier that begins while another works disturbs it.
LEMMA BeginMatrixInv ==
    ASSUME CertificationInv, NEW c \in Certifiers, BeginMatrix(c)
    PROVE  CertificationInv'
  <1> DEFINE k == [IdleCertifier EXCEPT !.at = "load"]
             others == {d \in Certifiers \ {c} : Certifying(d)}
  <1>0. /\ certifier[c].at = "idle" /\ Learns(c, k)
        /\ disturbed' = (disturbed \ {c}) \cup others \cup (IF others = {} THEN {} ELSE {c})
        /\ UNCHANGED <<certFiles, executed, passed, revisions>>
    BY DEF BeginMatrix, CertifierAt
  <1>1. /\ k \in Memory /\ k.at = "load" /\ k.index = 1 /\ k.round = 1 /\ k.result = 0
        /\ k.row = Unwritten /\ k.rows = <<>> /\ k.envelope = Unwritten /\ k.first = Unwritten
    <2>1. \A m \in Memory : [m EXCEPT !.at = "load"] \in Memory
      BY DEF Memory, CertifySteps
    <2>2. IdleCertifier \in Memory
      BY IdleMemory
    <2> QED
      BY <2>1, <2>2, IdleMemory DEF Memory
  <1> HIDE DEF k
  <1>2. /\ certifier'[c] = k /\ \A d \in Certifiers \ {c} : certifier'[d] = certifier[d]
        /\ Len(executed) \in Nat /\ executed \in Seq(Packs) /\ Len(executed) <= MaxExecutions
        /\ Len(executed) <= Len(executed)
    BY <1>0, CertifierFacts DEF Learns, CertificationInv, CertShape
  <1>3. KnowledgeFits(k)'
    BY <1>0, <1>1, <1>2 DEF KnowledgeFits, GatheringSteps, CheckSteps, VerifyingSteps
  <1>4. KnowledgeAgrees(k)
    BY <1>1 DEF KnowledgeAgrees
  <1>5. \A a \in Attestation : HeldBy(k, a) => Known(a)
    BY <1>1, UnwrittenAssumption DEF HeldBy, IsRowOf
  <1>6. KnowledgeTrue(k)'
    BY <1>1 DEF KnowledgeTrue, GatheringSteps, CheckSteps, VerifyingSteps, CertifySteps
  <1>7. Undisturbed'
    <2> SUFFICES ASSUME NEW d \in Certifiers, d \notin disturbed', certifier'[d].at # "idle"
                 PROVE  /\ \A e \in Certifiers \ {d} : certifier'[e].at = "idle"
                        /\ KnowledgeTrue(certifier[d])'
      BY DEF Undisturbed
    <2>1. d = c
      BY <1>0, <1>2 DEF Certifying, CertifierAt
    <2>2. others = {}
      BY <1>0, <2>1
    <2>3. \A e \in Certifiers \ {d} : certifier'[e].at = "idle"
      BY <1>2, <2>1, <2>2 DEF Certifying, CertifierAt
    <2> QED
      BY <1>2, <1>6, <2>1, <2>3 DEF KnowledgeTrue
  <1>8. PassedHolds'
    BY <1>0 DEF CertificationInv, PassedHolds, VerifiedRunsDiffer, VerifiedRowsAgree
  <1> QED
    BY <1>0, <1>1, <1>2, <1>3, <1>4, <1>5, <1>7, <1>8, MovesInv

\* What was attested of a job that ran stays so.
LEMMA PassedStays ==
    ASSUME CertificationInv, passed' = passed, Len(executed) <= Len(executed'),
           Len(executed') \in Nat, \A i \in 1..Len(executed) : executed'[i] = executed[i]
    PROVE  PassedHolds'
  <1>1. Len(executed) \in Nat
    BY LenProperties DEF CertificationInv, CertShape
  <1>2. \A i \in 1..Len(executed) : i \in 1..Len(executed')
    BY <1>1
  <1>3. VerifiedRunsDiffer' /\ VerifiedRowsAgree'
    BY DEF CertificationInv, PassedHolds, VerifiedRunsDiffer, VerifiedRowsAgree
  <1> QED
    BY <1>2, <1>3 DEF CertificationInv, PassedHolds

\* A run of the worker adds a job and changes none.
LEMMA SubmitRunInv ==
    ASSUME CertificationInv, NEW c \in Certifiers, SubmitRun(c)
    PROVE  CertificationInv'
  <1> DEFINE n == Len(executed) + 1
             learnt == [certifier[c] EXCEPT !.at = "write", !.result = n]
  <1>0. /\ certifier[c].at = "submit" /\ UNCHANGED <<certFiles, passed, revisions, disturbed>>
        /\ Len(executed) \in Nat /\ MaxExecutions \in Nat /\ executed \in Seq(Packs) /\ pack \in Packs
    BY CertifierFacts, CampaignAssumption DEF SubmitRun, CertifierAt, CertificationInv, CertShape
  <1>1. CASE Abandon(c) /\ UNCHANGED executed
    BY <1>0, <1>1, AbandonInv DEF ReadOnly
  <1>2. CASE /\ n <= MaxExecutions /\ executed' = Append(executed, pack)
             /\ Learns(c, learnt) \/ Abandon(c)
    <2>1. /\ executed' \in Seq(Packs) /\ Len(executed') = n /\ executed'[n] = pack
          /\ \A i \in 1..Len(executed) : executed'[i] = executed[i]
      BY <1>0, <1>2, AppendProperties
    <2>2. /\ Len(executed) <= Len(executed') /\ Len(executed') <= MaxExecutions
          /\ Len(executed') \in Nat /\ UNCHANGED <<certFiles, revisions>>
      BY <1>0, <1>2, <2>1
    <2>3. PassedHolds'
      BY <1>0, <2>1, <2>2, PassedStays
    <2>4. CASE Abandon(c)
      <3>1. KnowledgeFits(IdleCertifier)'
        BY <2>2, IdleMemory DEF KnowledgeFits, GatheringSteps, CheckSteps, VerifyingSteps
      <3>2. Undisturbed'
        BY <1>0, <2>4, IdleMemory, UndisturbedStep DEF Abandon
      <3> QED
        BY <2>1, <2>2, <2>3, <2>4, <3>1, <3>2, IdleMemory, MovesInv DEF Abandon
    <2>5. CASE Learns(c, learnt)
      <3>0. n \in 0..MaxExecutions /\ n > 0 /\ n > Len(executed)
        BY <1>0, <1>2
      <3>1. PICK k \in Memory :
               /\ Learns(c, k) /\ k.at = "write" /\ k.result = n /\ k.index = certifier[c].index
               /\ k.read = certifier[c].read /\ k.held = certifier[c].held
               /\ k.round = certifier[c].round
               /\ k.row = certifier[c].row /\ k.rows = certifier[c].rows
               /\ k.envelope = certifier[c].envelope /\ k.first = certifier[c].first
        <4>1. learnt \in Memory
          BY <3>0, CertifierFacts DEF Memory, CertifySteps
        <4> QED
          BY <2>5, <4>1 DEF Memory
      <3>2. k.index \in Indexes
        BY <3>1 DEF Memory
      <3> HIDE DEF learnt, n
      <3>3. KnowledgeFits(k)'
        BY <1>0, <2>1, <2>2, <3>0, <3>1, CertifierFacts
           DEF KnowledgeFits, GatheringSteps, CheckSteps, VerifyingSteps
      <3>4. KnowledgeAgrees(k) /\ \A a \in Attestation : HeldBy(k, a) => Known(a)
        BY <1>0, <3>1, CertifierFacts DEF KnowledgeAgrees, HeldBy
      <3>5. revisions <= 1 /\ pack = 0 => k.held = 0
        BY <1>0, <3>1 DEF CertificationInv, FirstPack
      <3>6. c \notin disturbed => KnowledgeTrue(k)'
        <4> SUFFICES ASSUME c \notin disturbed PROVE KnowledgeTrue(k)'
          OBVIOUS
        <4>1. /\ certifier[c].read = manifest /\ certifier[c].held = pack
              /\ \A i \in 1..certifier[c].index - 1 : GoodAt(i)
          BY <1>0, CertifierFacts DEF KnowledgeTrue, CertifySteps
        <4>2. \A i : GoodAt(i) => GoodAt(i)'
          <5>1. \A i \in 1..Len(executed) : i \in 1..Len(executed')
            BY <1>0, <2>2
          <5> QED
            BY <1>0, <2>1, <5>1 DEF GoodAt, certFiles
        <4>3. manifest' = manifest /\ pack' = pack
          BY <1>0 DEF certFiles
        <4>4. /\ k.read = manifest' /\ k.held = pack' /\ executed'[k.result] = pack'
              /\ \A i \in 1..k.index - 1 : GoodAt(i)'
          BY <2>1, <3>1, <4>1, <4>2, <4>3
        <4> QED
          BY <3>1, <4>4 DEF KnowledgeTrue, GatheringSteps, CheckSteps, VerifyingSteps, CertifySteps
      <3>7. Undisturbed'
        BY <1>0, <3>1, <3>6, UndisturbedStep
      <3> QED
        BY <2>1, <2>2, <2>3, <3>0, <3>1, <3>3, <3>4, <3>5, <3>7, MovesInv
    <2> QED
      BY <1>2, <2>4, <2>5
  <1>3. Len(executed) < MaxExecutions => n <= MaxExecutions
    BY <1>0
  <1> QED
    BY <1>1, <1>2, <1>3 DEF SubmitRun

\* An attestation replaces another of its index.
LEMMA WriteAttestationInv ==
    ASSUME CertificationInv, NEW c \in Certifiers, WriteAttestation(c)
    PROVE  CertificationInv'
  <1> DEFINE new == [image |-> certifier[c].read, pack |-> certifier[c].held,
                     execution |-> certifier[c].result]
             learnt == [certifier[c] EXCEPT !.at = "verify"]
  <1>0. PICK n \in Indexes :
           /\ certifier[c].at = "write" /\ Learns(c, learnt) /\ n = certifier[c].index
           /\ attestations' = [attestations EXCEPT ![n] = new] /\ n \in Nat
           /\ UNCHANGED <<manifest, pack, campaignFile, executed, passed, revisions, disturbed>>
    <2>1. certifier[c].index \in Indexes /\ certifier[c].index \in Nat
      BY CertifierFacts DEF Memory, Indexes
    <2> HIDE DEF learnt
    <2>2. /\ certifier[c].at = "write" /\ Learns(c, learnt)
          /\ attestations' = [attestations EXCEPT ![certifier[c].index] = new]
          /\ UNCHANGED <<manifest, pack, campaignFile, executed, passed, revisions, disturbed>>
      BY DEF WriteAttestation, CertifierAt, learnt
    <2> QED
      BY <2>1, <2>2
  <1>1. /\ certifier[c].read \in Manifests /\ certifier[c].held \in Packs
        /\ certifier[c].result \in 1..MaxExecutions /\ certifier[c].result <= Len(executed)
        /\ certifier[c].result \in 1..Len(executed)
    BY <1>0, CertifierFacts, CampaignAssumption DEF KnowledgeFits, Memory
  <1>2. /\ new \in Attestation /\ new.image = certifier[c].read /\ new.pack = certifier[c].held
        /\ new.execution = certifier[c].result
    BY <1>1 DEF Attestation
  <1> HIDE DEF new
  <1>3. /\ attestations' \in [Indexes -> Attestation \cup {Unwritten}] /\ attestations'[n] = new
        /\ \A i \in Indexes \ {n} : attestations'[i] = attestations[i]
    BY <1>0, <1>2 DEF CertificationInv, CertShape
  <1>4. PICK k \in Memory :
           /\ Learns(c, k) /\ k.at = "verify" /\ k.result = certifier[c].result /\ k.index = n
           /\ k.read = certifier[c].read /\ k.held = certifier[c].held
           /\ k.round = certifier[c].round
           /\ k.row = certifier[c].row /\ k.rows = certifier[c].rows
           /\ k.envelope = certifier[c].envelope /\ k.first = certifier[c].first
    <2>1. learnt \in Memory
      BY CertifierFacts DEF Memory, CertifySteps
    <2> QED
      BY <1>0, <2>1 DEF Memory
  <1> HIDE DEF learnt
  <1>5. /\ certifier' \in [Certifiers -> Memory] /\ certifier'[c] = k
        /\ \A d \in Certifiers \ {c} : certifier'[d] = certifier[d]
    BY <1>4 DEF Learns, CertificationInv, CertShape
  <1>6. ~Known(new)
    BY <1>0, <1>2 DEF CertificationInv, OneEach
  <1>7. ASSUME NEW a \in Attestation, Known(a)' PROVE Known(a) \/ a = new
    <2>1. CASE \E d \in Certifiers : HeldBy(certifier'[d], a)
      <3>1. PICK d \in Certifiers : HeldBy(certifier'[d], a)
        BY <2>1
      <3>2. HeldBy(certifier[d], a)
        BY <1>4, <1>5, <3>1 DEF HeldBy
      <3> QED
        BY <3>2 DEF Known
    <2>2. CASE \E i \in Indexes : attestations'[i] = a
      BY <1>3, <2>2 DEF Known
    <2>3. CASE IsRowOf(campaignFile, a)
      BY <2>3 DEF Known
    <2> QED
      BY <1>0, <1>7, <2>1, <2>2, <2>3 DEF Known, HeldBy, IsRowOf
  <1>8. CertShape'
    BY <1>0, <1>3, <1>5 DEF CertificationInv, CertShape
  <1>9. \A i \in Indexes : attestations[i] \in Attestation => attestations'[i] \in Attestation
    BY <1>2, <1>3
  <1>10. ASSUME NEW x, CampaignFits(x), NEW i \in Indexes, Settled(x, i),
                \A a \in Attestation : IsRowOf(x, a) => Known(a)
         PROVE  Settled(x, i)'
    <2>1. i \in 1..Len(x.rows)
      BY <1>10 DEF CampaignFits, Indexes
    <2>2. x.rows[i].digest # new
      BY <1>6, <1>10, <2>1, KnownTypes DEF CampaignFits
    <2> QED
      BY <1>3, <1>10, <2>2 DEF Settled, RowAgrees
  <1>11. ASSUME NEW d \in Certifiers
         PROVE  (KnowledgeFits(certifier[d]) /\ KnowledgeAgrees(certifier[d]))'
    <2>1. CASE d = c
      <3>1. KnowledgeFits(k)'
        BY <1>0, <1>4, CertifierFacts
           DEF KnowledgeFits, GatheringSteps, CheckSteps, VerifyingSteps
      <3>2. KnowledgeAgrees(k)'
        BY <1>4 DEF KnowledgeAgrees
      <3>3. KnowledgeFits(certifier[d])'
        BY <1>5, <2>1, <3>1 DEF KnowledgeFits
      <3>4. KnowledgeAgrees(certifier[d])'
        BY <1>5, <2>1, <3>2 DEF KnowledgeAgrees
      <3> QED
        BY <3>3, <3>4
    <2>2. CASE d # c
      <3>1. PICK known \in Memory : /\ certifier'[d] = known /\ known = certifier[d]
                                    /\ KnowledgeFits(known) /\ KnowledgeAgrees(known)
                                    /\ \A a \in Attestation : HeldBy(known, a) => Known(a)
        BY <1>5, <2>2, CertifierFacts
      <3>2. KnowledgeFits(certifier[d])'
        <4>1. attestations[known.index] \in Attestation => attestations'[known.index] \in Attestation
          BY <1>9 DEF Memory
        <4>2. campaignFile' = campaignFile /\ executed' = executed
          BY <1>0
        <4>3. KnowledgeFits(known)'
          BY <3>1, <4>1, <4>2 DEF KnowledgeFits, CampaignFits, Different
        <4> QED
          BY <3>1, <4>3 DEF KnowledgeFits
      <3>3. KnowledgeAgrees(known)'
        <4>1. ASSUME NEW i \in Indexes, Settled(known.envelope, i), known.at \in VerifyingSteps
              PROVE  Settled(known.envelope, i)'
          BY <1>10, <3>1, <4>1 DEF KnowledgeFits, HeldBy
        <4>2. ASSUME NEW i \in Indexes, Settled(known.first, i), known.at = "check", known.round = 2
              PROVE  Settled(known.first, i)'
          BY <1>10, <3>1, <4>2 DEF KnowledgeFits, HeldBy
        <4>3. \A i \in 1..known.index - 1 : i \in Indexes
          BY CampaignAssumption DEF Memory, Indexes
        <4>4. known.at \in {"checkRow", "verifyChecked"} => known.at \in VerifyingSteps
          BY DEF VerifyingSteps
        <4> QED
          BY <1>0, <3>1, <4>1, <4>2, <4>3, <4>4 DEF KnowledgeAgrees, RowAgrees
      <3>4. KnowledgeAgrees(certifier[d])'
        BY <3>1, <3>3 DEF KnowledgeAgrees, Settled, RowAgrees
      <3> QED
        BY <3>2, <3>4
    <2> QED
      BY <2>1, <2>2
  <1>12. OneEach'
    <2>1. \A a, b \in Attestation : Known(a)' /\ Known(b)' /\ a.execution = b.execution => a = b
      BY <1>0, <1>2, <1>7 DEF CertificationInv, OneEach
    <2>2. \A a \in Attestation : Known(a)' => a.execution <= Len(executed')
      BY <1>0, <1>1, <1>2, <1>7 DEF CertificationInv, OneEach
    <2>3. ASSUME NEW d \in Certifiers, certifier'[d].at = "write"
          PROVE  /\ \A a \in Attestation : Known(a)' => a.execution # certifier'[d].result
                 /\ \A e \in Certifiers :
                       certifier'[e].at = "write" /\ certifier'[e].result = certifier'[d].result
                          => d = e
      <3>1. d # c /\ certifier'[d] = certifier[d]
        BY <1>4, <1>5, <2>3
      <3>2. certifier[d].result # certifier[c].result
        BY <1>0, <2>3, <3>1 DEF CertificationInv, OneEach
      <3>3. \A e \in Certifiers : certifier'[e].at = "write" => certifier'[e] = certifier[e]
        BY <1>4, <1>5
      <3>4. \A a \in Attestation : Known(a)' => a.execution # certifier[d].result
        BY <1>2, <1>7, <2>3, <3>1, <3>2 DEF CertificationInv, OneEach
      <3>5. \A e \in Certifiers :
               certifier[e].at = "write" /\ certifier[e].result = certifier[d].result => d = e
        BY <2>3, <3>1 DEF CertificationInv, OneEach
      <3> QED
        BY <3>1, <3>3, <3>4, <3>5
    <2> QED
      BY <2>1, <2>2, <2>3 DEF OneEach
  <1>13. FirstPack'
    BY <1>0, <1>2, <1>4, <1>5, <1>7 DEF CertificationInv, FirstPack
  <1>14. c \notin disturbed => KnowledgeTrue(k)'
    <2> SUFFICES ASSUME c \notin disturbed PROVE KnowledgeTrue(k)'
      OBVIOUS
    <2>1. /\ certifier[c].read = manifest /\ certifier[c].held = pack
          /\ executed[certifier[c].result] = pack
          /\ \A i \in 1..n - 1 : GoodAt(i)
      BY <1>0, CertifierFacts DEF KnowledgeTrue, CertifySteps
    <2>2. GoodAt(n)'
      BY <1>0, <1>1, <1>2, <1>3, <2>1 DEF GoodAt
    <2>3. \A i \in 1..n - 1 : i \in Indexes \ {n}
      BY <1>0, CampaignAssumption DEF Indexes
    <2>4. \A i \in 1..n - 1 : GoodAt(i)'
      BY <1>0, <1>3, <2>1, <2>3 DEF GoodAt
    <2> QED
      BY <1>4, <2>2, <2>4 DEF KnowledgeTrue, GatheringSteps, CheckSteps, VerifyingSteps, CertifySteps
  <1>15. Undisturbed'
    BY <1>0, <1>4, <1>14, UndisturbedStep
  <1>16. PassedHolds'
    BY <1>0 DEF CertificationInv, PassedHolds, VerifiedRunsDiffer, VerifiedRowsAgree
  <1> QED
    BY <1>8, <1>11, <1>12, <1>13, <1>15, <1>16 DEF CertificationInv

\* A campaign has as many rows as there are runs.
LEMMA PublishCampaignInv ==
    ASSUME CertificationInv, NEW c \in Certifiers, PublishCampaign(c)
    PROVE  CertificationInv'
  <1> DEFINE learnt == [certifier[c] EXCEPT !.at = "check", !.rows = <<>>]
  <1>0. PICK x :
           /\ x = [image |-> certifier[c].read, pack |-> certifier[c].held,
                   rows |-> certifier[c].rows]
           /\ certifier[c].at = "publish" /\ campaignFile' = x /\ Learns(c, learnt)
           /\ UNCHANGED <<manifest, pack, attestations, executed, passed, revisions, disturbed>>
    BY DEF PublishCampaign, CertifierAt
  <1>1. /\ certifier[c].read \in Manifests /\ certifier[c].held \in Packs
        /\ Different(certifier[c].rows) /\ Len(certifier[c].rows) = Iterations
        /\ certifier[c].rows \in Seq(CampaignRow)
    BY <1>0, CertifierFacts DEF KnowledgeFits, GatheringSteps, Memory
  <1>2. /\ CampaignFits(x) /\ x \in Campaign /\ x.image = certifier[c].read
        /\ x.pack = certifier[c].held /\ x.rows = certifier[c].rows
    BY <1>0, <1>1 DEF CampaignFits, Campaign
  <1>3. PICK k \in Memory :
           /\ Learns(c, k) /\ k.at = "check" /\ k.rows = <<>> /\ k.result = certifier[c].result
           /\ k.index = certifier[c].index
           /\ k.read = certifier[c].read /\ k.held = certifier[c].held
           /\ k.round = certifier[c].round /\ k.row = certifier[c].row
           /\ k.envelope = certifier[c].envelope /\ k.first = certifier[c].first
    <2>0. <<>> \in Seq(CampaignRow)
      OBVIOUS
    <2>1. learnt \in Memory
      BY <2>0, CertifierFacts DEF Memory, CheckSteps
    <2> QED
      BY <1>0, <2>1 DEF Memory
  <1> HIDE DEF learnt
  <1>4. /\ certifier' \in [Certifiers -> Memory] /\ certifier'[c] = k
        /\ \A d \in Certifiers \ {c} : certifier'[d] = certifier[d]
    BY <1>3 DEF Learns, CertificationInv, CertShape
  <1>5. ASSUME NEW a \in Attestation, Known(a)' PROVE Known(a)
    <2>1. CASE \E d \in Certifiers : HeldBy(certifier'[d], a)
      <3>1. PICK d \in Certifiers : HeldBy(certifier'[d], a)
        BY <2>1
      <3>2. HeldBy(certifier[d], a)
        <4>1. CASE d = c
          <5>1. Len(<<>>) = 0 /\ 1..0 = {}
            OBVIOUS
          <5> QED
            BY <1>3, <1>4, <3>1, <4>1, <5>1 DEF HeldBy
        <4>2. CASE d # c
          BY <1>4, <3>1, <4>2
        <4> QED
          BY <4>1, <4>2
      <3> QED
        BY <3>2 DEF Known
    <2>2. CASE \E i \in Indexes : attestations[i] = a
      BY <2>2 DEF Known
    <2>3. CASE IsRowOf(x, a)
      <3>1. HeldBy(certifier[c], a)
        BY <1>2, <2>3 DEF HeldBy, IsRowOf
      <3> QED
        BY <3>1 DEF Known
    <2> QED
      BY <1>0, <1>5, <2>1, <2>2, <2>3 DEF Known, HeldBy, IsRowOf
  <1>6. CertShape'
    BY <1>0, <1>2, <1>4 DEF CertificationInv, CertShape
  <1>7. ASSUME NEW d \in Certifiers
        PROVE  (KnowledgeFits(certifier[d]) /\ KnowledgeAgrees(certifier[d]))'
    <2>1. CampaignFits(campaignFile)' /\ executed' = executed /\ attestations' = attestations
      BY <1>0, <1>2 DEF CampaignFits, Different
    <2>2. CASE d = c
      <3>1. KnowledgeFits(k)'
        BY <1>0, <1>3, <2>1, CertifierFacts
           DEF KnowledgeFits, GatheringSteps, CheckSteps, VerifyingSteps
      <3>2. KnowledgeAgrees(k)'
        BY <1>0, <1>3, CertifierFacts DEF KnowledgeAgrees, KnowledgeFits, CheckSteps
      <3>3. KnowledgeFits(certifier[d])'
        BY <1>4, <2>2, <3>1 DEF KnowledgeFits
      <3>4. KnowledgeAgrees(certifier[d])'
        BY <1>4, <2>2, <3>2 DEF KnowledgeAgrees
      <3> QED
        BY <3>3, <3>4
    <2>3. CASE d # c
      <3>1. PICK known \in Memory : /\ certifier'[d] = known
                                    /\ KnowledgeFits(known) /\ KnowledgeAgrees(known)
        BY <1>4, <2>3, CertifierFacts
      <3>2. KnowledgeFits(known)'
        BY <2>1, <3>1 DEF KnowledgeFits, CampaignFits, Different
      <3>3. KnowledgeAgrees(known)'
        BY <1>0, <3>1 DEF KnowledgeAgrees, Settled, RowAgrees
      <3>4. KnowledgeFits(certifier[d])'
        BY <3>1, <3>2 DEF KnowledgeFits
      <3>5. KnowledgeAgrees(certifier[d])'
        BY <3>1, <3>3 DEF KnowledgeAgrees
      <3> QED
        BY <3>4, <3>5
    <2> QED
      BY <2>2, <2>3
  <1>8. OneEach' /\ FirstPack'
    <2>1. \A d \in Certifiers : certifier'[d].at \in {"write", "submit"} => certifier'[d] = certifier[d]
      BY <1>3, <1>4
    <2> QED
      BY <1>0, <1>5, <2>1 DEF CertificationInv, OneEach, FirstPack
  <1>9. c \notin disturbed => KnowledgeTrue(k)'
    <2> SUFFICES ASSUME c \notin disturbed PROVE KnowledgeTrue(k)'
      OBVIOUS
    <2>1. /\ certifier[c].read = manifest /\ certifier[c].held = pack
          /\ RowsCopied(certifier[c].rows) /\ \A i \in Indexes : GoodAt(i)
      BY <1>0, CertifierFacts DEF KnowledgeTrue, GatheringSteps, CertifySteps
    <2>2. \A i \in Indexes : GoodAt(i)'
      BY <1>0, <2>1 DEF GoodAt
    <2>3. /\ campaignFile'.image = manifest' /\ campaignFile'.pack = pack'
          /\ RowsCopied(campaignFile.rows)'
      BY <1>0, <1>2, <2>1 DEF RowsCopied
    <2> QED
      BY <1>3, <2>2, <2>3
         DEF KnowledgeTrue, GatheringSteps, CheckSteps, VerifyingSteps, CertifySteps
  <1>10. Undisturbed'
    BY <1>0, <1>3, <1>9, UndisturbedStep
  <1>11. PassedHolds'
    BY <1>0 DEF CertificationInv, PassedHolds, VerifiedRunsDiffer, VerifiedRowsAgree
  <1> QED
    BY <1>6, <1>7, <1>8, <1>10, <1>11 DEF CertificationInv

-----------------------------------------------------------------------------
\* Who edits the image or the pack disturbs every certifier.
LEMMA ReviseInv ==
    ASSUME CertificationInv, Revise
    PROVE  CertificationInv'
  <1>0. /\ revisions' = revisions + 1 /\ revisions \in Nat
        /\ manifest' \in Manifests /\ pack' \in Packs
        /\ disturbed' = disturbed \cup {c \in Certifiers : Certifying(c)}
        /\ UNCHANGED <<attestations, campaignFile, certifier, executed, passed>>
    BY DEF Revise, CertificationInv, CertShape
  <1>1. revisions' <= 1 => revisions = 0 /\ revisions <= 1 /\ pack = 0
    BY <1>0 DEF CertificationInv, CertShape
  <1>2. CertShape'
    BY <1>0 DEF CertificationInv, CertShape
  <1>3. \A a : Known(a)' <=> Known(a)
    BY <1>0 DEF Known, HeldBy, IsRowOf
  <1>4. ASSUME NEW c \in Certifiers
        PROVE  (KnowledgeFits(certifier[c]) /\ KnowledgeAgrees(certifier[c]))'
    <2>1. PICK k \in Memory : /\ certifier'[c] = k /\ KnowledgeFits(k) /\ KnowledgeAgrees(k)
                              /\ \A a \in Attestation : HeldBy(k, a) => Known(a)
      BY <1>0, CertifierFacts
    <2>2. KnowledgeFits(k)'
      BY <1>0, <2>1 DEF KnowledgeFits, CampaignFits, Different
    <2>3. revisions' <= 1 /\ k.at \in {"checkRow", "verifyChecked"} =>
             \A i \in Indexes : RowAgrees(k.envelope, i)
      <3> SUFFICES ASSUME revisions' <= 1, k.at \in {"checkRow", "verifyChecked"}, NEW i \in Indexes
                   PROVE  RowAgrees(k.envelope, i)
        OBVIOUS
      <3>1. CampaignFits(k.envelope)
        BY <2>1 DEF KnowledgeFits, VerifyingSteps
      <3>2. k.envelope \in Campaign /\ i \in 1..Len(k.envelope.rows)
        BY <3>1 DEF CampaignFits, Indexes
      <3>3. k.envelope.rows[i].digest \in Attestation /\ HeldBy(k, k.envelope.rows[i].digest)
        BY <3>2, KnownTypes DEF HeldBy
      <3>4. k.envelope.rows[i].digest.pack = 0
        BY <1>1, <2>1, <3>3 DEF CertificationInv, FirstPack
      <3>5. k.envelope.pack = 0 \/ RowAgrees(k.envelope, i)
        BY <1>1, <2>1 DEF KnowledgeAgrees
      <3> QED
        BY <3>4, <3>5 DEF RowAgrees
    <2>4. KnowledgeAgrees(k)'
      BY <1>0, <1>1, <2>1, <2>3 DEF KnowledgeAgrees, Settled, RowAgrees
    <2>5. KnowledgeFits(certifier[c])'
      BY <2>1, <2>2 DEF KnowledgeFits
    <2>6. KnowledgeAgrees(certifier[c])'
      BY <2>1, <2>4 DEF KnowledgeAgrees
    <2> QED
      BY <2>5, <2>6
  <1>5. OneEach'
    BY <1>0, <1>3 DEF CertificationInv, OneEach
  <1>6. FirstPack'
    BY <1>0, <1>1, <1>3 DEF CertificationInv, FirstPack
  <1>7. Undisturbed'
    BY <1>0 DEF Undisturbed, Certifying, CertifierAt
  <1>8. PassedHolds'
    BY <1>0 DEF CertificationInv, PassedHolds, VerifiedRunsDiffer, VerifiedRowsAgree
  <1> QED
    BY <1>2, <1>4, <1>5, <1>6, <1>7, <1>8 DEF CertificationInv

\* At first nothing has run and nothing is attested.
LEMMA InitCertificationInv == CertInit => CertificationInv
  <1> SUFFICES ASSUME CertInit PROVE CertificationInv
    OBVIOUS
  <1>0. /\ executed = <<>> /\ Len(executed) = 0 /\ executed \in Seq(Packs)
        /\ \A c \in Certifiers : certifier[c] = IdleCertifier
        /\ passed = {} /\ campaignFile = Unwritten /\ revisions = 0 /\ pack = 0 /\ manifest = 0
        /\ \A i \in Indexes : attestations[i] = Unwritten
    BY DEF CertInit
  <1>1. CertShape
    BY <1>0, IdleMemory, CampaignAssumption DEF CertInit, CertShape
  <1>2. \A a : ~Known(a)
    BY <1>0, IdleMemory, UnwrittenAssumption DEF Known, IsRowOf
  <1>3. KnowledgeFits(IdleCertifier) /\ KnowledgeAgrees(IdleCertifier)
    BY <1>0, IdleMemory
       DEF KnowledgeFits, KnowledgeAgrees, GatheringSteps, CheckSteps, VerifyingSteps
  <1>4. OneEach /\ FirstPack /\ Undisturbed /\ PassedHolds
    BY <1>0, <1>2, IdleMemory
       DEF OneEach, FirstPack, Undisturbed, PassedHolds, VerifiedRunsDiffer, VerifiedRowsAgree
  <1> QED
    BY <1>0, <1>1, <1>3, <1>4 DEF CertificationInv

\* Each step of the certifiers and of the others keeps the invariant.
LEMMA NextCertificationInv == CertificationInv /\ [CertNext]_certVars => CertificationInv'
  <1> SUFFICES ASSUME CertificationInv, [CertNext]_certVars PROVE CertificationInv'
    OBVIOUS
  <1>1. CASE UNCHANGED certVars
    <2>1. UNCHANGED <<manifest, pack, attestations, campaignFile, certifier, executed, passed,
                      revisions, disturbed>>
      BY <1>1 DEF certVars, certFiles
    <2>2. \A a : Known(a)' <=> Known(a)
      BY <2>1 DEF Known, HeldBy, IsRowOf
    <2>3. CertShape' /\ OneEach' /\ FirstPack'
      BY <2>1, <2>2 DEF CertificationInv, CertShape, OneEach, FirstPack
    <2>4. ASSUME NEW c \in Certifiers
          PROVE  KnowledgeFits(certifier[c])' /\ KnowledgeAgrees(certifier[c])'
      <3>1. KnowledgeFits(certifier[c]) /\ KnowledgeAgrees(certifier[c])
        BY DEF CertificationInv
      <3>2. KnowledgeFits(certifier[c])'
        BY <2>1, <3>1 DEF KnowledgeFits, CampaignFits, Different
      <3>3. KnowledgeAgrees(certifier[c])'
        BY <2>1, <3>1 DEF KnowledgeAgrees, Settled, RowAgrees
      <3> QED
        BY <3>2, <3>3
    <2>5. Undisturbed'
      BY <2>1 DEF CertificationInv, Undisturbed, KnowledgeTrue, GoodAt, RowsCopied
    <2>6. PassedHolds'
      BY <2>1 DEF CertificationInv, PassedHolds, VerifiedRunsDiffer, VerifiedRowsAgree
    <2> QED
      BY <2>3, <2>4, <2>5, <2>6 DEF CertificationInv
  <1>2. ASSUME NEW c \in Certifiers, CertifierDies(c) PROVE CertificationInv'
    BY <1>2, AbandonInv DEF CertifierDies, Certifying, CertifierAt
  <1>3. CASE CertNext
    BY <1>2, <1>3, BeginMatrixInv, LoadManifestInv, LoadPackInv, SubmitRunInv, WriteAttestationInv,
       VerifyRunInv, GatherInv, VerifyRowInv, HashRowInv, ReadRowInv, PublishCampaignInv,
       CheckCampaignInv, CheckRowInv, VerifyCheckedInv, BindMatrixInv, ReviseInv
       DEF CertNext
  <1> QED
    BY <1>1, <1>3

\* So the invariant holds for good.
LEMMA CertificationInvHolds == CertSpec => []CertificationInv
  <1> QED
    BY InitCertificationInv, NextCertificationInv, PTL DEF CertSpec

-----------------------------------------------------------------------------
(* The signing.  A script knows of the files it read what they are, or that   *)
(* others replaced them where it cannot see it; of the files that are there, *)
(* a lock is of a draft that was reviewed, and all of it is of one authority *)
(* unless that was replaced.                                                 *)

File(name, l) == onDisk[<<name, l>>]
There(name, l) == File(name, l) # Absent

\* What no script can see of how the artifacts were built.
Unbuilt(l) ==
    \/ \E f \in {"checkout", "artifacts"} : ReplacedDuring(f, l, "stage")
    \/ Replaced("report", l) \/ Replaced("draft", l)

DraftsOf == {<<"draft", "rc4">>, <<"draft", "final">>}
KeysOf == {<<"secret", "rc4">>, <<"enrollment", "rc4">>}

FilesThere ==
    /\ There("secret", "rc4")
    /\ \A l \in Lines :
          /\ There("lock", l) => There("promoted", l)
          /\ There("promoted", l) => There("approval", l) /\ There("draft", l)
          /\ There("draft", l) => There("public", l)
          /\ There("bundle", l) => There("lock", l)
    /\ There("media", "rc4") => There("lock", "rc4")
    /\ There("matrix", "rc4") => There("media", "rc4")
    /\ There("report", "final") \/ There("draft", "final") => There("matrix", "rc4")
    /\ There("rebound", "rc4") => There("lock", "final")

BuiltOf(l) ==
    /\ There("report", l) => File("report", l) = "right" \/ Unbuilt(l)
    /\ There("approval", l) => File("approval", l).draft.art = "right" \/ Unbuilt(l)

ReviewedOf(l) ==
    /\ There("promoted", l) =>
          File("promoted", l) = File("approval", l).draft \/ Replaced("draft", l)
    /\ There("lock", l) => File("lock", l) = File("approval", l).draft \/ Replaced("draft", l)

SignedOf(l) ==
    There("bundle", l) /\ ~Replaced("bundle", l) =>
        /\ File("bundle", l).by = File("lock", l).key
        /\ File("bundle", l).listed = File("lock", l).art \/ ReplacedDuring("artifacts", l, "sign")
        /\ File("bundle", l).art = File("bundle", l).listed

\* While neither the key nor the enrollment is replaced, there is one key.
FirstAuthority ==
    replacements.of \notin KeysOf =>
        /\ File("secret", "rc4") = "k1" /\ File("enrollment", "rc4") \in {"k1", Absent}
        /\ \A l \in Lines : There("approval", l) => File("approval", l).draft.key = "k1"

\* While no draft is replaced, what follows from a draft has the enrolled key.
EnrolledAuthority ==
    replacements.of \notin DraftsOf /\ ~Replaced("enrollment", "rc4") =>
        \A l \in Lines :
            /\ There("draft", l) => File("draft", l).key = File("enrollment", "rc4")
            /\ There("promoted", l) => File("promoted", l).key = File("enrollment", "rc4")
            /\ There("lock", l) => File("lock", l).key = File("enrollment", "rc4")

DiskTyped ==
    /\ onDisk = [f \in FileNames |-> onDisk[f]]
    /\ \A f \in FileNames : onDisk[f] \in Contents(f) \cup {Absent}

DiskFits ==
    /\ DiskTyped /\ FilesThere
    /\ \A l \in Lines : BuiltOf(l) /\ ReviewedOf(l) /\ SignedOf(l)
    /\ ImportedIsLocked /\ ReboundIsSigned
    /\ FirstAuthority /\ EnrolledAuthority

ScriptType ==
    [name : Scripts \cup {"none"}, line : Lines, at : Nat, art : Origins \cup {Absent},
     key : SigningKeys \cup {Absent}, draft : Locks \cup {Absent}]

StageFits(k) ==
    k.name = "stage" =>
        /\ k.line = "final" => There("matrix", "rc4")
        /\ k.at = 1 => File("checkout", k.line) = "right" \/ Unbuilt(k.line)
        /\ k.at \in {2, 3} => k.art = "right" \/ Unbuilt(k.line)
        /\ k.at \in {4, 5} => File("artifacts", k.line) = "right" \/ Unbuilt(k.line)

EnrollFits(k) ==
    k.name = "enroll" /\ There("draft", "rc4") => Replaced("enrollment", "rc4")

DraftFits(k) ==
    k.name = "draft" =>
        /\ k.art \in Origins /\ (k.art = "right" \/ Unbuilt(k.line))
        /\ There("enrollment", "rc4") /\ ~There("promoted", k.line)
        /\ k.line = "final" => There("matrix", "rc4")
        /\ k.at \in {3, 4} =>
              /\ k.key \in SigningKeys /\ There("derived", "rc4")
              /\ replacements.of \notin DraftsOf /\ ~Replaced("enrollment", "rc4") =>
                    k.key = File("enrollment", "rc4")
        /\ k.at = 4 => There("public", k.line)

PromoteFits(k) ==
    k.name = "promote" =>
        /\ There("approval", k.line) /\ There("draft", k.line) /\ k.draft \in Locks
        /\ k.at = 1 => k.draft = File("draft", k.line) \/ Replaced("draft", k.line)
        /\ k.at \in {2, 3} => k.draft = File("approval", k.line).draft \/ Replaced("draft", k.line)
        /\ replacements.of \notin DraftsOf /\ ~Replaced("enrollment", "rc4") =>
              k.draft.key = File("enrollment", "rc4")

SignFits(k) ==
    k.name = "sign" =>
        /\ There("lock", k.line)
        /\ k.at \in {4, 5} =>
              /\ There("artifacts", k.line)
              /\ \/ File("artifacts", k.line) = File("lock", k.line).art
                 \/ ReplacedDuring("artifacts", k.line, "sign")
        /\ k.at = 6 =>
              /\ k.art \in Origins
              /\ k.art = File("lock", k.line).art \/ ReplacedDuring("artifacts", k.line, "sign")

ImportFits(k) ==
    k.name = "import" =>
        LET bundle == File("bundle", "rc4")
            lock == File("lock", "rc4")
        IN
        /\ There("bundle", "rc4") /\ There("lock", "rc4")
        /\ ~ReplacedDuring("bundle", "rc4", "import") =>
              /\ bundle.art = lock.art
              /\ k.at = 2 => bundle.listed = lock.art /\ bundle.by = lock.key /\ bundle.key = lock.key

RebindFits(k) ==
    k.name = "rebind" =>
        /\ k.line = "final" /\ There("matrix", "rc4") /\ There("bundle", "final")
        /\ k.at = 1 => File("matrix", "rc4") = "right" \/ Replaced("matrix", "rc4")
        /\ k.at # 1 => k.art \in Origins /\ (k.art = "right" \/ Replaced("matrix", "rc4"))

ScriptFits(k) ==
    /\ StageFits(k) /\ EnrollFits(k) /\ DraftFits(k) /\ PromoteFits(k)
    /\ SignFits(k) /\ ImportFits(k) /\ RebindFits(k)

ReplacementsFit ==
    /\ replacements \in [of : FileNames \cup {Absent}, times : 0..MaxReplaced]
    /\ replacements.of = <<"enrollment", "rc4">> => Replaced("enrollment", "rc4")

SigningInv == DiskFits /\ script \in ScriptType /\ ScriptFits(script) /\ ReplacementsFit

\* The files of these names stay as they are.
Keeps(names) ==
    \A m \in names : \A j \in Lines : <<m, j>> \in FileNames => File(m, j)' = File(m, j)

\* What may be in a file of each name, ...
LEMMA ContentsFacts ==
    \A l : /\ \A n \in {"checkout", "artifacts", "proposal", "report", "matrix"} :
                 Contents(<<n, l>>) = Origins
           /\ \A n \in {"secret", "derived", "enrollment", "public"} :
                 Contents(<<n, l>>) = SigningKeys
           /\ \A n \in {"draft", "promoted", "lock"} : Contents(<<n, l>>) = Locks
           /\ Contents(<<"approval", l>>) = [draft : Locks, public : SigningKeys]
           /\ \A n \in {"bundle", "media"} : Contents(<<n, l>>) = Signed
           /\ Contents(<<"rebound", l>>) = [campaigns : Origins, art : Origins, by : SigningKeys]
  <1> TAKE l
  <1>1. \A n \in {"checkout", "artifacts", "proposal", "report", "matrix"} :
            Contents(<<n, l>>) = Origins
    BY Zenon DEF Contents
  <1>2. \A n \in {"secret", "derived", "enrollment", "public"} : Contents(<<n, l>>) = SigningKeys
    BY Zenon DEF Contents
  <1>3. \A n \in {"draft", "promoted", "lock"} : Contents(<<n, l>>) = Locks
    BY Zenon DEF Contents
  <1>4. Contents(<<"approval", l>>) = [draft : Locks, public : SigningKeys]
    BY Zenon DEF Contents
  <1>5. \A n \in {"bundle", "media"} : Contents(<<n, l>>) = Signed
    BY Zenon DEF Contents
  <1>6. Contents(<<"rebound", l>>) = [campaigns : Origins, art : Origins, by : SigningKeys]
    BY Zenon DEF Contents
  <1> QED
    BY <1>1, <1>2, <1>3, <1>4, <1>5, <1>6

\* ... and which files there are.
LEMMA NamesFacts ==
    /\ \A n \in PerLine : \A l \in Lines : <<n, l>> \in FileNames
    /\ \A n \in Once : <<n, "rc4">> \in FileNames
    /\ \A f \in FileNames : f = <<f[1], f[2]>> /\ f[2] \in Lines
    /\ "rc4" \in Lines /\ "final" \in Lines
  BY DEF FileNames, Lines

\* A file that is not there is told from any contents.
LEMMA AbsentFacts ==
    /\ Absent \notin Origins /\ Absent \notin SigningKeys /\ Absent \notin Locks
    /\ Absent \notin Signed /\ Absent \notin FileNames
    /\ Absent \notin [draft : Locks, public : SigningKeys]
    /\ Absent \notin [campaigns : Origins, art : Origins, by : SigningKeys]
  <1>1. /\ <<"report", "rc4">> \in FileNames /\ <<"enrollment", "rc4">> \in FileNames
        /\ <<"draft", "rc4">> \in FileNames /\ <<"bundle", "rc4">> \in FileNames
        /\ <<"approval", "rc4">> \in FileNames /\ <<"rebound", "rc4">> \in FileNames
    BY NamesFacts DEF PerLine, Once
  <1> QED
    BY <1>1, ContentsFacts, SigningAssumption

\* What each file holds, one by one.
LEMMA DiskTypes ==
    ASSUME DiskTyped
    PROVE  /\ \A l \in Lines :
                 /\ File("checkout", l) \in Origins \cup {Absent}
                 /\ File("artifacts", l) \in Origins \cup {Absent}
                 /\ File("report", l) \in Origins \cup {Absent}
                 /\ File("public", l) \in SigningKeys \cup {Absent}
                 /\ File("draft", l) \in Locks \cup {Absent}
                 /\ File("promoted", l) \in Locks \cup {Absent}
                 /\ File("lock", l) \in Locks \cup {Absent}
                 /\ File("approval", l) \in [draft : Locks, public : SigningKeys] \cup {Absent}
                 /\ File("bundle", l) \in Signed \cup {Absent}
           /\ File("matrix", "rc4") \in Origins \cup {Absent}
           /\ File("secret", "rc4") \in SigningKeys \cup {Absent}
           /\ File("derived", "rc4") \in SigningKeys \cup {Absent}
           /\ File("enrollment", "rc4") \in SigningKeys \cup {Absent}
           /\ File("media", "rc4") \in Signed \cup {Absent}
           /\ File("rebound", "rc4") \in [campaigns : Origins, art : Origins, by : SigningKeys]
                                             \cup {Absent}
  <1>1. \A n \in PerLine : \A l \in Lines : File(n, l) \in Contents(<<n, l>>) \cup {Absent}
    BY NamesFacts DEF DiskTyped, File
  <1>2. \A n \in Once : File(n, "rc4") \in Contents(<<n, "rc4">>) \cup {Absent}
    BY NamesFacts DEF DiskTyped, File
  <1>3. \A l \in Lines :
            /\ File("checkout", l) \in Origins \cup {Absent}
            /\ File("artifacts", l) \in Origins \cup {Absent}
            /\ File("report", l) \in Origins \cup {Absent}
            /\ File("public", l) \in SigningKeys \cup {Absent}
    BY <1>1, ContentsFacts DEF PerLine
  <1>4. \A l \in Lines :
            /\ File("draft", l) \in Locks \cup {Absent}
            /\ File("promoted", l) \in Locks \cup {Absent}
            /\ File("lock", l) \in Locks \cup {Absent}
    BY <1>1, ContentsFacts DEF PerLine
  <1>5. \A l \in Lines :
            /\ File("approval", l) \in [draft : Locks, public : SigningKeys] \cup {Absent}
            /\ File("bundle", l) \in Signed \cup {Absent}
    BY <1>1, ContentsFacts DEF PerLine
  <1>6. /\ File("matrix", "rc4") \in Origins \cup {Absent}
        /\ File("secret", "rc4") \in SigningKeys \cup {Absent}
        /\ File("derived", "rc4") \in SigningKeys \cup {Absent}
        /\ File("enrollment", "rc4") \in SigningKeys \cup {Absent}
    BY <1>2, ContentsFacts DEF Once
  <1>7. /\ File("media", "rc4") \in Signed \cup {Absent}
        /\ File("rebound", "rc4") \in [campaigns : Origins, art : Origins, by : SigningKeys]
                                          \cup {Absent}
    BY <1>2, ContentsFacts DEF Once
  <1> QED
    BY <1>3, <1>4, <1>5, <1>6, <1>7

\* A script that leaves one file changes no other.
LEMMA LeavesFacts ==
    ASSUME DiskTyped, NEW n \in PerLine \cup Once, NEW l \in Lines, <<n, l>> \in FileNames,
           NEW v \in Contents(<<n, l>>) \cup {Absent}, Leaves(n, l, v)
    PROVE  /\ DiskTyped' /\ File(n, l)' = v
           /\ \A j \in Lines \ {l} : <<n, j>> \in FileNames => File(n, j)' = File(n, j)
           /\ Keeps((PerLine \cup Once) \ {n})
  <1>1. \A f \in FileNames : onDisk'[f] = IF f = <<n, l>> THEN v ELSE onDisk[f]
    BY DEF Leaves, DiskTyped
  <1>2. DiskTyped'
    BY <1>1 DEF Leaves, DiskTyped
  <1> QED
    BY <1>1, <1>2 DEF Keeps, File

\* What is not noticed stays unnoticed.
LEMMA ExcusesStay ==
    ASSUME unnoticed \subseteq unnoticed'
    PROVE  /\ \A n, l : Replaced(n, l) => Replaced(n, l)'
           /\ \A n, l, s : ReplacedDuring(n, l, s) => ReplacedDuring(n, l, s)'
           /\ \A l : Unbuilt(l) => Unbuilt(l)'
  BY DEF Replaced, ReplacedDuring, Unbuilt

\* At first there is the checkout and the key, and nothing else.
LEMMA InitNames ==
    ASSUME SigningInit
    PROVE  /\ DiskTyped
           /\ \A l \in Lines : File("checkout", l) = "right"
           /\ File("secret", "rc4") = "k1"
           /\ \A n \in PerLine \ {"checkout"} : \A l \in Lines : File(n, l) = Absent
           /\ \A n \in Once \ {"secret"} : File(n, "rc4") = Absent
  <1>1. \A f \in FileNames : f[1] # "checkout" /\ f[1] # "secret" => onDisk[f] = Absent
    BY Zenon DEF SigningInit
  <1>2. \A f \in FileNames : f[1] = "checkout" => onDisk[f] = "right"
    BY Zenon DEF SigningInit
  <1>3. \A f \in FileNames : f[1] = "secret" => onDisk[f] = "k1"
    BY Zenon DEF SigningInit
  <1>4. onDisk = [f \in FileNames |-> onDisk[f]]
    <2> DEFINE first == [f \in FileNames |-> CASE f[1] = "checkout" -> "right"
                                               [] f[1] = "secret" -> "k1"
                                               [] OTHER -> Absent]
    <2>1. onDisk = first
      BY Zenon DEF SigningInit
    <2>2. first = [f \in FileNames |-> first[f]]
      BY Zenon
    <2> QED
      BY <2>1, <2>2, Zenon
  <1>5. \A f \in FileNames : onDisk[f] \in Contents(f) \cup {Absent}
    <2> SUFFICES ASSUME NEW f \in FileNames PROVE onDisk[f] \in Contents(f) \cup {Absent}
      OBVIOUS
    <2>1. CASE f[1] = "checkout"
      <3>1. Contents(f) = Origins
        BY <2>1, Zenon DEF Contents
      <3> QED
        BY <3>1, <2>1, <1>2 DEF Origins
    <2>2. CASE f[1] = "secret"
      <3>1. Contents(f) = SigningKeys
        BY <2>2, Zenon DEF Contents
      <3> QED
        BY <3>1, <2>2, <1>3 DEF SigningKeys
    <2> QED
      BY <2>1, <2>2, <1>1
  <1>6. "checkout" \in PerLine /\ "secret" \in Once /\ "checkout" \notin Once /\ "secret" \notin PerLine
    BY DEF PerLine, Once
  <1>7. \A l \in Lines : File("checkout", l) = "right"
    BY <1>2, <1>6, NamesFacts DEF File
  <1>8. File("secret", "rc4") = "k1"
    BY <1>3, <1>6, NamesFacts DEF File
  <1>9. \A n \in PerLine \ {"checkout"} : \A l \in Lines : File(n, l) = Absent
    BY <1>1, <1>6, NamesFacts DEF File
  <1>10. \A n \in Once \ {"secret"} : File(n, "rc4") = Absent
    BY <1>1, <1>6, NamesFacts DEF File
  <1> QED
    BY <1>4, <1>5, <1>7, <1>8, <1>9, <1>10 DEF DiskTyped

\* A conjunct stays while the files it is about do, ...
LEMMA KeepsDisk ==
    ASSUME NEW names, Keeps(names), unnoticed \subseteq unnoticed'
    PROVE  /\ {"report", "approval"} \subseteq names =>
                 \A l \in Lines : BuiltOf(l) => BuiltOf(l)'
           /\ {"promoted", "approval", "lock"} \subseteq names =>
                 \A l \in Lines : ReviewedOf(l) => ReviewedOf(l)'
           /\ {"bundle", "lock"} \subseteq names =>
                 \A l \in Lines : SignedOf(l) => SignedOf(l)'
           /\ {"media", "lock"} \subseteq names => (ImportedIsLocked => ImportedIsLocked')
           /\ {"rebound", "lock"} \subseteq names => (ReboundIsSigned => ReboundIsSigned')
           /\ {"secret", "enrollment", "approval"} \subseteq names /\ UNCHANGED replacements =>
                 (FirstAuthority => FirstAuthority')
           /\ {"draft", "promoted", "lock", "enrollment"} \subseteq names
              /\ UNCHANGED replacements => (EnrolledAuthority => EnrolledAuthority')
  <1>1. \A m \in names : \A j \in Lines : <<m, j>> \in FileNames => File(m, j)' = File(m, j)
    BY DEF Keeps
  <1>2. /\ \A n \in PerLine : \A l \in Lines : <<n, l>> \in FileNames
        /\ \A n \in Once : <<n, "rc4">> \in FileNames
        /\ "rc4" \in Lines /\ "final" \in Lines
    BY NamesFacts
  <1>3. /\ \A n, l : Replaced(n, l) => Replaced(n, l)'
        /\ \A n, l, s : ReplacedDuring(n, l, s) => ReplacedDuring(n, l, s)'
        /\ \A l : Unbuilt(l) => Unbuilt(l)'
    BY ExcusesStay
  <1>4. ASSUME {"report", "approval"} \subseteq names, NEW l \in Lines, BuiltOf(l)
        PROVE  BuiltOf(l)'
    <2>1. File("report", l)' = File("report", l) /\ File("approval", l)' = File("approval", l)
      BY <1>1, <1>2, <1>4 DEF PerLine
    <2> QED
      BY <1>3, <1>4, <2>1 DEF BuiltOf, There
  <1>5. ASSUME {"promoted", "approval", "lock"} \subseteq names, NEW l \in Lines, ReviewedOf(l)
        PROVE  ReviewedOf(l)'
    <2>1. /\ File("promoted", l)' = File("promoted", l) /\ File("lock", l)' = File("lock", l)
          /\ File("approval", l)' = File("approval", l)
      BY <1>1, <1>2, <1>5 DEF PerLine
    <2> QED
      BY <1>3, <1>5, <2>1 DEF ReviewedOf, There
  <1>6. ASSUME {"bundle", "lock"} \subseteq names, NEW l \in Lines, SignedOf(l)
        PROVE  SignedOf(l)'
    <2>1. File("bundle", l)' = File("bundle", l) /\ File("lock", l)' = File("lock", l)
      BY <1>1, <1>2, <1>6 DEF PerLine
    <2> QED
      BY <1>3, <1>6, <2>1 DEF SignedOf, There
  <1>7. ASSUME {"media", "lock"} \subseteq names, ImportedIsLocked PROVE ImportedIsLocked'
    <2>1. File("media", "rc4")' = File("media", "rc4") /\ File("lock", "rc4")' = File("lock", "rc4")
      BY <1>1, <1>2, <1>7 DEF PerLine, Once
    <2> QED
      BY <1>3, <1>7, <2>1 DEF ImportedIsLocked, File, The
  <1>8. ASSUME {"rebound", "lock"} \subseteq names, ReboundIsSigned PROVE ReboundIsSigned'
    <2>1. /\ File("rebound", "rc4")' = File("rebound", "rc4")
          /\ File("lock", "final")' = File("lock", "final")
      BY <1>1, <1>2, <1>8 DEF PerLine, Once
    <2> QED
      BY <1>3, <1>8, <2>1 DEF ReboundIsSigned, File, The
  <1>9. ASSUME {"secret", "enrollment", "approval"} \subseteq names, UNCHANGED replacements,
               FirstAuthority
        PROVE  FirstAuthority'
    <2>1. /\ File("secret", "rc4")' = File("secret", "rc4")
          /\ File("enrollment", "rc4")' = File("enrollment", "rc4")
          /\ \A l \in Lines : File("approval", l)' = File("approval", l)
      BY <1>1, <1>2, <1>9 DEF PerLine, Once
    <2> QED
      BY <1>9, <2>1 DEF FirstAuthority, There
  <1>10. ASSUME {"draft", "promoted", "lock", "enrollment"} \subseteq names,
                UNCHANGED replacements, EnrolledAuthority
         PROVE  EnrolledAuthority'
    <2>1. /\ File("enrollment", "rc4")' = File("enrollment", "rc4")
          /\ \A l \in Lines : /\ File("draft", l)' = File("draft", l)
                              /\ File("promoted", l)' = File("promoted", l)
                              /\ File("lock", l)' = File("lock", l)
      BY <1>1, <1>2, <1>10 DEF PerLine, Once
    <2> QED
      BY <1>3, <1>10, <2>1 DEF EnrolledAuthority, There
  <1> QED
    BY <1>4, <1>5, <1>6, <1>7, <1>8, <1>9, <1>10

\* ... and so does what a script knows of them.
LEMMA KeepsFits ==
    ASSUME NEW names, Keeps(names), unnoticed \subseteq unnoticed', NEW k \in ScriptType
    PROVE  /\ {"matrix", "checkout", "artifacts"} \subseteq names =>
                 (StageFits(k) => StageFits(k)')
           /\ {"draft"} \subseteq names => (EnrollFits(k) => EnrollFits(k)')
           /\ {"enrollment", "promoted", "matrix", "derived", "public"} \subseteq names
              /\ UNCHANGED replacements => (DraftFits(k) => DraftFits(k)')
           /\ {"approval", "draft", "enrollment"} \subseteq names
              /\ UNCHANGED replacements => (PromoteFits(k) => PromoteFits(k)')
           /\ {"lock", "artifacts"} \subseteq names => (SignFits(k) => SignFits(k)')
           /\ {"bundle", "lock"} \subseteq names => (ImportFits(k) => ImportFits(k)')
           /\ {"matrix", "bundle"} \subseteq names => (RebindFits(k) => RebindFits(k)')
  <1>1. \A m \in names : \A j \in Lines : <<m, j>> \in FileNames => File(m, j)' = File(m, j)
    BY DEF Keeps
  <1>2. /\ \A n \in PerLine : \A l \in Lines : <<n, l>> \in FileNames
        /\ \A n \in Once : <<n, "rc4">> \in FileNames
        /\ "rc4" \in Lines /\ "final" \in Lines /\ k.line \in Lines
    BY NamesFacts DEF ScriptType
  <1>3. /\ \A n, l : Replaced(n, l) => Replaced(n, l)'
        /\ \A n, l, s : ReplacedDuring(n, l, s) => ReplacedDuring(n, l, s)'
        /\ \A l : Unbuilt(l) => Unbuilt(l)'
    BY ExcusesStay
  <1>4. ASSUME {"matrix", "checkout", "artifacts"} \subseteq names, StageFits(k)
        PROVE  StageFits(k)'
    <2>1. /\ File("matrix", "rc4")' = File("matrix", "rc4")
          /\ File("checkout", k.line)' = File("checkout", k.line)
          /\ File("artifacts", k.line)' = File("artifacts", k.line)
      BY <1>1, <1>2, <1>4 DEF PerLine, Once
    <2> QED
      BY <1>3, <1>4, <2>1 DEF StageFits, There
  <1>5. ASSUME {"draft"} \subseteq names, EnrollFits(k) PROVE EnrollFits(k)'
    <2>1. File("draft", "rc4")' = File("draft", "rc4")
      BY <1>1, <1>2, <1>5 DEF PerLine
    <2> QED
      BY <1>3, <1>5, <2>1 DEF EnrollFits, There
  <1>6. ASSUME {"enrollment", "promoted", "matrix", "derived", "public"} \subseteq names,
               UNCHANGED replacements, DraftFits(k)
        PROVE  DraftFits(k)'
    <2>1. /\ File("enrollment", "rc4")' = File("enrollment", "rc4")
          /\ File("matrix", "rc4")' = File("matrix", "rc4")
          /\ File("derived", "rc4")' = File("derived", "rc4")
          /\ File("promoted", k.line)' = File("promoted", k.line)
          /\ File("public", k.line)' = File("public", k.line)
      BY <1>1, <1>2, <1>6 DEF PerLine, Once
    <2> QED
      BY <1>3, <1>6, <2>1 DEF DraftFits, There
  <1>7. ASSUME {"approval", "draft", "enrollment"} \subseteq names, UNCHANGED replacements,
               PromoteFits(k)
        PROVE  PromoteFits(k)'
    <2>1. /\ File("enrollment", "rc4")' = File("enrollment", "rc4")
          /\ File("approval", k.line)' = File("approval", k.line)
          /\ File("draft", k.line)' = File("draft", k.line)
      BY <1>1, <1>2, <1>7 DEF PerLine, Once
    <2> QED
      BY <1>3, <1>7, <2>1 DEF PromoteFits, There
  <1>8. ASSUME {"lock", "artifacts"} \subseteq names, SignFits(k) PROVE SignFits(k)'
    <2>1. /\ File("lock", k.line)' = File("lock", k.line)
          /\ File("artifacts", k.line)' = File("artifacts", k.line)
      BY <1>1, <1>2, <1>8 DEF PerLine
    <2> QED
      BY <1>3, <1>8, <2>1 DEF SignFits, There
  <1>9. ASSUME {"bundle", "lock"} \subseteq names, ImportFits(k) PROVE ImportFits(k)'
    <2>1. /\ File("bundle", "rc4")' = File("bundle", "rc4")
          /\ File("lock", "rc4")' = File("lock", "rc4")
      BY <1>1, <1>2, <1>9 DEF PerLine
    <2> QED
      BY <1>3, <1>9, <2>1 DEF ImportFits, There
  <1>10. ASSUME {"matrix", "bundle"} \subseteq names, RebindFits(k) PROVE RebindFits(k)'
    <2>1. /\ File("matrix", "rc4")' = File("matrix", "rc4")
          /\ File("bundle", "final")' = File("bundle", "final")
      BY <1>1, <1>2, <1>10 DEF PerLine, Once
    <2> QED
      BY <1>3, <1>10, <2>1 DEF RebindFits, There
  <1> QED
    BY <1>4, <1>5, <1>6, <1>7, <1>8, <1>9, <1>10

\* What the invariant is for.
LEMMA SigningInvProperties == SigningInv => SigningTypeOK /\ SignedAsReviewed
  <1> SUFFICES ASSUME SigningInv PROVE SigningTypeOK /\ SignedAsReviewed
    OBVIOUS
  <1>1. SigningTypeOK
    BY DEF SigningInv, DiskFits, DiskTyped, ScriptType, ReplacementsFit, SigningTypeOK
  <1>2. /\ \A l \in Lines : /\ File("lock", l) \in Locks \cup {Absent}
                            /\ File("approval", l) \in
                                  [draft : Locks, public : SigningKeys] \cup {Absent}
        /\ FilesThere /\ FirstAuthority /\ EnrolledAuthority
        /\ \A l \in Lines : BuiltOf(l) /\ ReviewedOf(l) /\ SignedOf(l)
        /\ ImportedIsLocked /\ ReboundIsSigned
    BY DiskTypes DEF SigningInv, DiskFits
  <1>3. \A l \in Lines : There("lock", l) => There("promoted", l) /\ There("approval", l)
    BY <1>2 DEF FilesThere
  <1>4. ASSUME NEW l \in Lines PROVE LockIsBuilt(l) /\ LockIsReviewed(l) /\ SignedIsLocked(l)
    <2>1. LockIsReviewed(l)
      BY <1>2 DEF LockIsReviewed, ReviewedOf, There, File
    <2>2. There("lock", l) => File("lock", l).art = "right" \/ Unbuilt(l)
      <3>1. Replaced("draft", l) => Unbuilt(l)
        BY DEF Unbuilt
      <3> QED
        BY <3>1, <1>2, <1>3 DEF BuiltOf, ReviewedOf
    <2>3. LockIsBuilt(l)
      BY <2>2 DEF LockIsBuilt, Unbuilt, There, File
    <2>4. There("bundle", l) => There("lock", l)
      BY <1>2 DEF FilesThere
    <2>5. SignedIsLocked(l)
      BY <1>2 DEF SignedIsLocked, SignedOf, There, File
    <2> QED
      BY <2>1, <2>3, <2>5
  <1>5. OneAuthority
    <2> SUFFICES ASSUME There("lock", "rc4"), There("lock", "final"),
                        ~Replaced("enrollment", "rc4"), ~Replaced("draft", "final"),
                        ~Replaced("draft", "rc4")
                 PROVE  File("lock", "rc4").key = File("lock", "final").key
      BY DEF OneAuthority, There, File
    <2>1. "rc4" \in Lines /\ "final" \in Lines
      BY DEF Lines
    <2>2. CASE replacements.of \notin DraftsOf
      BY <2>1, <2>2, <1>2 DEF EnrolledAuthority
    <2>3. CASE replacements.of \in DraftsOf
      <3>1. replacements.of \notin KeysOf
        BY <2>3 DEF DraftsOf, KeysOf
      <3> QED
        BY <3>1, <2>1, <1>2, <1>3 DEF FirstAuthority, ReviewedOf
    <2> QED
      BY <2>2, <2>3
  <1> QED
    BY <1>1, <1>2, <1>4, <1>5 DEF SignedAsReviewed

\* No script is a script,
LEMMA NoScriptFacts == NoScript \in ScriptType /\ NoScript.name = "none" /\ NoScript.line = "rc4"
                       /\ NoScript.at = 0 /\ NoScript.art = Absent
  BY DEF NoScript, ScriptType, Lines

\* What a script is next, and knows next.
LEMMA BecomesInv ==
    ASSUME DiskFits', ReplacementsFit', NEW k \in ScriptType, script' = k, ScriptFits(k)'
    PROVE  SigningInv'
  <1>1. StageFits(script)' /\ EnrollFits(script)'
    BY DEF ScriptFits, StageFits, EnrollFits
  <1>2. DraftFits(script)'
    BY DEF ScriptFits, DraftFits
  <1>3. PromoteFits(script)'
    BY DEF ScriptFits, PromoteFits
  <1>4. SignFits(script)'
    BY DEF ScriptFits, SignFits
  <1>5. ImportFits(script)' /\ RebindFits(script)'
    BY DEF ScriptFits, ImportFits, RebindFits
  <1> QED
    BY <1>1, <1>2, <1>3, <1>4, <1>5 DEF SigningInv, ScriptFits

\* (replacements are counted and stay noted)
LEMMA OthersStayFacts ==
    ASSUME ReplacementsFit, OthersStay
    PROVE  ReplacementsFit' /\ unnoticed \subseteq unnoticed' /\ UNCHANGED replacements
  BY DEF OthersStay, ReplacementsFit, Replaced

\* and knows nothing.
LEMMA NoScriptFits == ScriptFits(NoScript) /\ ScriptFits(NoScript)'
  BY NoScriptFacts
     DEF ScriptFits, StageFits, EnrollFits, DraftFits, PromoteFits, SignFits, ImportFits, RebindFits

\* A script that is over knows nothing.
LEMMA EndsInv ==
    ASSUME DiskFits', ReplacementsFit', script' = NoScript
    PROVE  SigningInv'
  BY BecomesInv, NoScriptFacts, NoScriptFits

\* The order of the files is that of those that are there,
LEMMA FilesThereStay ==
    ASSUME Keeps(PerLine \cup Once), FilesThere
    PROVE  FilesThere'
  <1>1. /\ \A n \in PerLine : \A l \in Lines : File(n, l)' = File(n, l)
        /\ \A n \in Once : File(n, "rc4")' = File(n, "rc4")
    BY NamesFacts DEF Keeps
  <1>2. \A l \in Lines : /\ File("lock", l)' = File("lock", l)
                         /\ File("promoted", l)' = File("promoted", l)
                         /\ File("approval", l)' = File("approval", l)
                         /\ File("draft", l)' = File("draft", l)
                         /\ File("public", l)' = File("public", l)
                         /\ File("bundle", l)' = File("bundle", l)
                         /\ File("report", l)' = File("report", l)
    BY <1>1 DEF PerLine
  <1>3. /\ File("media", "rc4")' = File("media", "rc4")
        /\ File("matrix", "rc4")' = File("matrix", "rc4")
        /\ File("rebound", "rc4")' = File("rebound", "rc4")
        /\ File("secret", "rc4")' = File("secret", "rc4")
    BY <1>1 DEF Once
  <1> QED
    BY <1>2, <1>3 DEF FilesThere, There, Lines

\* which a script that only reads leaves alone.
LEMMA SameDisk ==
    ASSUME onDisk' = onDisk
    PROVE  Keeps(PerLine \cup Once) /\ (DiskTyped => DiskTyped')
  BY DEF Keeps, DiskTyped, File

\* Which files each line has, and which there are once.
LEMMA AllNames ==
    /\ {"report", "approval", "promoted", "lock", "bundle", "draft", "checkout", "artifacts",
        "public", "proposal"} \subseteq PerLine
    /\ {"media", "rebound", "secret", "enrollment", "matrix", "derived"} \subseteq Once
  BY DEF PerLine, Once

\* A script that only reads knows what it has read.
LEMMA ReadsInv ==
    ASSUME SigningInv, Reads, NEW k \in ScriptType, script' = k, ScriptFits(k)
    PROVE  SigningInv'
  <1> DEFINE names == PerLine \cup Once
  <1>1. /\ ReplacementsFit' /\ unnoticed \subseteq unnoticed' /\ UNCHANGED replacements
        /\ Keeps(names) /\ DiskTyped'
    BY OthersStayFacts, SameDisk DEF Reads, SigningInv, DiskFits
  <1>2. /\ {"report", "approval", "promoted", "lock", "bundle", "draft", "checkout", "artifacts",
            "public"} \subseteq names
        /\ {"media", "rebound", "secret", "enrollment", "matrix", "derived"} \subseteq names
    BY AllNames
  <1>3. FilesThere'
    BY <1>1, FilesThereStay DEF SigningInv, DiskFits
  <1> HIDE DEF names
  <1>4. \A l \in Lines : BuiltOf(l)' /\ ReviewedOf(l)' /\ SignedOf(l)'
    <2>1. {"report", "approval"} \subseteq names /\ {"promoted", "approval", "lock"} \subseteq names
          /\ {"bundle", "lock"} \subseteq names
      BY <1>2
    <2> QED
      BY <2>1, <1>1, KeepsDisk DEF SigningInv, DiskFits
  <1>5. ImportedIsLocked' /\ ReboundIsSigned'
    <2>1. {"media", "lock"} \subseteq names /\ {"rebound", "lock"} \subseteq names
      BY <1>2
    <2> QED
      BY <2>1, <1>1, KeepsDisk DEF SigningInv, DiskFits
  <1>6. FirstAuthority' /\ EnrolledAuthority'
    <2>1. /\ {"secret", "enrollment", "approval"} \subseteq names
          /\ {"draft", "promoted", "lock", "enrollment"} \subseteq names
      BY <1>2
    <2> QED
      BY <2>1, <1>1, KeepsDisk DEF SigningInv, DiskFits
  <1>7. ScriptFits(k)'
    <2>1. /\ {"matrix", "checkout", "artifacts"} \subseteq names /\ {"draft"} \subseteq names
          /\ {"enrollment", "promoted", "matrix", "derived", "public"} \subseteq names
          /\ {"approval", "draft", "enrollment"} \subseteq names
          /\ {"lock", "artifacts"} \subseteq names /\ {"bundle", "lock"} \subseteq names
          /\ {"matrix", "bundle"} \subseteq names
      BY <1>2
    <2> QED
      BY <2>1, <1>1, KeepsFits DEF ScriptFits
  <1> QED
    BY <1>1, <1>3, <1>4, <1>5, <1>6, <1>7, BecomesInv DEF DiskFits

\* What a script may know is about itself.
LEMMA OnlyFits ==
    \A k : /\ k.name = "stage" => (ScriptFits(k) <=> StageFits(k))
           /\ k.name = "enroll" => (ScriptFits(k) <=> EnrollFits(k))
           /\ k.name = "draft" => (ScriptFits(k) <=> DraftFits(k))
           /\ k.name = "promote" => (ScriptFits(k) <=> PromoteFits(k))
           /\ k.name = "sign" => (ScriptFits(k) <=> SignFits(k))
           /\ k.name = "import" => (ScriptFits(k) <=> ImportFits(k))
           /\ k.name = "rebind" => (ScriptFits(k) <=> RebindFits(k))
  BY DEF ScriptFits, StageFits, EnrollFits, DraftFits, PromoteFits, SignFits, ImportFits, RebindFits

\* What the invariant says of the script under way.
LEMMA ScriptFacts ==
    ASSUME SigningInv
    PROVE  /\ \E k \in ScriptType : k = script
           /\ ScriptFits(script) /\ DiskTyped /\ FilesThere /\ FirstAuthority /\ EnrolledAuthority
           /\ \A l \in Lines : BuiltOf(l) /\ ReviewedOf(l) /\ SignedOf(l)
           /\ ImportedIsLocked /\ ReboundIsSigned /\ ReplacementsFit
  BY DEF SigningInv, DiskFits

\* A check that fails ends the script.
LEMMA ProceedsInv ==
    ASSUME SigningInv, Reads, NEW k \in ScriptType, k = script, NEW ok, Proceeds(ok),
           ok => ScriptFits([k EXCEPT !.at = k.at + 1])
    PROVE  SigningInv'
  <1>1. CASE ok
    <2> DEFINE j == [k EXCEPT !.at = k.at + 1]
    <2>1. script' = j
      BY <1>1 DEF Proceeds
    <2>2. j \in ScriptType
      BY DEF ScriptType
    <2> HIDE DEF j
    <2>3. PICK m \in ScriptType : m = j
      BY <2>2
    <2> QED
      BY <1>1, <2>1, <2>3, ReadsInv DEF j
  <1>2. CASE ~ok
    <2>1. script' = NoScript
      BY <1>2 DEF Proceeds
    <2> QED
      BY <2>1, ReadsInv, NoScriptFacts, NoScriptFits
  <1> QED
    BY <1>1, <1>2

\* The staging learns that both builds agree.
LEMMA StageReadsInv == SigningInv /\ (BuildOnce \/ BuildAgain) => SigningInv'
  <1> SUFFICES ASSUME SigningInv, BuildOnce \/ BuildAgain PROVE SigningInv'
    OBVIOUS
  <1>1. PICK k \in ScriptType : k = script
    BY ScriptFacts
  <1>2. k.name = "stage" /\ ScriptFits(k) /\ StageFits(k) /\ k.line \in Lines
    BY <1>1, ScriptFacts, OnlyFits DEF BuildOnce, BuildAgain, At, ScriptType
  <1>3. CASE BuildOnce
    <2>1. PICK o : o = File("checkout", k.line)
      OBVIOUS
    <2> DEFINE j == [k EXCEPT !.at = 2, !.art = o]
    <2>2. o \in Origins \cup {Absent}
      BY <1>2, <2>1, ScriptFacts, DiskTypes
    <2>3. j \in ScriptType /\ j.name = "stage" /\ j.line = k.line /\ j.at = 2 /\ j.art = o
      BY <1>2, <2>2 DEF ScriptType
    <2>4. script' = j /\ Reads /\ k.at = 1
      BY <1>1, <1>3, <2>1 DEF BuildOnce, At, Of, File
    <2> HIDE DEF j
    <2>5. StageFits(j)
      BY <1>2, <2>1, <2>3, <2>4 DEF StageFits
    <2> QED
      BY <2>3, <2>4, <2>5, ReadsInv, OnlyFits
  <1>4. CASE BuildAgain
    <2> DEFINE j == [k EXCEPT !.at = k.at + 1]
    <2>1. j.name = "stage" /\ j.line = k.line /\ j.at = 3 /\ j.art = k.art /\ k.at = 2
      BY <1>1, <1>2, <1>4 DEF ScriptType, BuildAgain, At
    <2> HIDE DEF j
    <2>2. ScriptFits(j)
      <3>1. StageFits(j)
        BY <1>2, <2>1 DEF StageFits
      <3> QED
        BY <3>1, <2>1, OnlyFits
    <2> QED
      BY <1>1, <1>4, <2>2, ProceedsInv DEF BuildAgain, j
  <1> QED
    BY <1>3, <1>4

\* The draft learns what the artifacts are and that its key is the enrolled one.
LEMMA DraftReadsInv == SigningInv /\ (HashArtifacts \/ MatchAuthority) => SigningInv'
  <1> SUFFICES ASSUME SigningInv, HashArtifacts \/ MatchAuthority PROVE SigningInv'
    OBVIOUS
  <1>1. PICK k \in ScriptType : k = script
    BY ScriptFacts
  <1>2. k.name = "draft" /\ ScriptFits(k) /\ DraftFits(k) /\ k.line \in Lines
    BY <1>1, ScriptFacts, OnlyFits DEF HashArtifacts, MatchAuthority, At, ScriptType
  <1>3. CASE HashArtifacts
    <2> DEFINE j == [k EXCEPT !.at = k.at + 1]
    <2>1. j.name = "draft" /\ j.line = k.line /\ j.at = 2 /\ j.art = k.art
      BY <1>1, <1>2, <1>3 DEF ScriptType, HashArtifacts, At
    <2> HIDE DEF j
    <2>2. ScriptFits(j)
      <3>1. DraftFits(j)
        BY <1>2, <2>1 DEF DraftFits
      <3> QED
        BY <3>1, <2>1, OnlyFits
    <2> QED
      BY <1>1, <1>3, <2>2, ProceedsInv DEF HashArtifacts, j
  <1>4. CASE MatchAuthority
    <2>1. CASE The("derived") = The("enrollment")
      <3>1. PICK key : key = File("enrollment", "rc4")
        OBVIOUS
      <3> DEFINE j == [k EXCEPT !.at = 3, !.key = key]
      <3>2. key \in SigningKeys /\ File("derived", "rc4") = key /\ There("derived", "rc4")
        <4>1. File("enrollment", "rc4") \in SigningKeys \cup {Absent}
          BY ScriptFacts, DiskTypes
        <4> QED
          BY <4>1, <3>1, <2>1, <1>2 DEF DraftFits, There, The, File
      <3>3. /\ j \in ScriptType /\ j.name = "draft" /\ j.line = k.line /\ j.at = 3
            /\ j.art = k.art /\ j.key = key
        BY <1>2, <3>2 DEF ScriptType
      <3>4. script' = j /\ Reads
        BY <1>1, <1>4, <2>1, <3>1 DEF MatchAuthority, The, File
      <3> HIDE DEF j
      <3>5. DraftFits(j)
        BY <1>2, <3>1, <3>2, <3>3 DEF DraftFits
      <3> QED
        BY <3>3, <3>4, <3>5, ReadsInv, OnlyFits
    <2>2. CASE The("derived") # The("enrollment")
      BY <1>4, <2>2, ReadsInv, NoScriptFacts, NoScriptFits DEF MatchAuthority
    <2> QED
      BY <2>1, <2>2
  <1> QED
    BY <1>3, <1>4

\* The promotion learns what was reviewed and hashes what is there then.
LEMMA PromoteReadsInv ==
    SigningInv /\ ((\E l \in Lines : PromoteBegins(l)) \/ HashDraft \/ MatchReviewedKey) => SigningInv'
  <1>1. ASSUME SigningInv, NEW l \in Lines, PromoteBegins(l) PROVE SigningInv'
    <2>1. PICK d : d = File("draft", l)
      OBVIOUS
    <2>2. d \in Locks /\ There("draft", l) /\ There("approval", l)
      <3>1. d \in Locks \cup {Absent}
        BY <2>1, ScriptFacts, DiskTypes, <1>1
      <3> QED
        BY <3>1, <2>1, <1>1 DEF PromoteBegins, Here, There, File
    <2> DEFINE j == [NoScript EXCEPT !.name = "promote", !.line = l, !.at = 1, !.draft = d]
    <2>3. j \in ScriptType /\ j.name = "promote" /\ j.line = l /\ j.at = 1 /\ j.draft = d
      BY <2>2 DEF ScriptType, NoScript, Scripts
    <2>4. script' = j /\ Reads
      BY <1>1, <2>1 DEF PromoteBegins, File
    <2> HIDE DEF j
    <2>5. PromoteFits(j)
      <3>1. EnrolledAuthority
        BY <1>1, ScriptFacts
      <3> QED
        BY <2>1, <2>2, <2>3, <3>1 DEF PromoteFits, EnrolledAuthority
    <2> QED
      BY <1>1, <2>3, <2>4, <2>5, ReadsInv, OnlyFits
  <1>2. ASSUME SigningInv, HashDraft \/ MatchReviewedKey PROVE SigningInv'
    <2>1. PICK k \in ScriptType : k = script
      BY ScriptFacts, <1>2
    <2>2. k.name = "promote" /\ ScriptFits(k) /\ PromoteFits(k) /\ k.line \in Lines
      BY <1>2, <2>1, ScriptFacts, OnlyFits DEF HashDraft, MatchReviewedKey, At, ScriptType
    <2> DEFINE j == [k EXCEPT !.at = k.at + 1]
    <2>3. /\ j.name = "promote" /\ j.line = k.line /\ j.at = k.at + 1 /\ j.draft = k.draft
          /\ k.at \in Nat
      BY <2>2 DEF ScriptType
    <2> HIDE DEF j
    <2>4. CASE HashDraft
      <3>1. (Of("draft") = Of("approval").draft) => ScriptFits(j)
        <4>1. ASSUME Of("draft") = Of("approval").draft PROVE PromoteFits(j)
          <5>1. j.at = 2 /\ k.at = 1 /\ File("draft", k.line) = File("approval", k.line).draft
            BY <4>1, <2>1, <2>3, <2>4 DEF HashDraft, At, Of, File
          <5> QED
            BY <5>1, <2>2, <2>3 DEF PromoteFits
        <4> QED
          BY <4>1, <2>3, OnlyFits
      <3> QED
        BY <1>2, <2>1, <2>4, <3>1, ProceedsInv DEF HashDraft, j
    <2>5. CASE MatchReviewedKey
      <3>1. ScriptFits(j)
        <4>1. j.at = 3 /\ k.at = 2
          BY <2>1, <2>3, <2>5 DEF MatchReviewedKey, At
        <4>2. PromoteFits(j)
          BY <4>1, <2>2, <2>3 DEF PromoteFits
        <4> QED
          BY <4>2, <2>3, OnlyFits
      <3> QED
        BY <1>2, <2>1, <2>5, <3>1, ProceedsInv DEF MatchReviewedKey, j
    <2> QED
      BY <1>2, <2>4, <2>5
  <1> QED
    BY <1>1, <1>2

\* The signing learns that key, report and artifacts are those of the lock.
LEMMA SignReadsInv ==
    SigningInv /\ (\/ \E l \in Lines : SignBegins(l)
                   \/ ProvePrivateKey \/ MatchReport \/ HashLocked \/ MatchProposal
                   \/ SignManifest) => SigningInv'
  <1>1. ASSUME SigningInv, NEW l \in Lines, SignBegins(l) PROVE SigningInv'
    <2> DEFINE j == [NoScript EXCEPT !.name = "sign", !.line = l, !.at = 1]
    <2>1. j \in ScriptType /\ j.name = "sign" /\ j.line = l /\ j.at = 1
      BY DEF ScriptType, NoScript, Scripts
    <2>2. script' = j /\ Reads /\ There("lock", l)
      BY <1>1 DEF SignBegins, Starts, Here, There, File
    <2> HIDE DEF j
    <2>3. SignFits(j)
      BY <2>1, <2>2 DEF SignFits
    <2> QED
      BY <1>1, <2>1, <2>2, <2>3, ReadsInv, OnlyFits
  <1>2. ASSUME SigningInv,
               ProvePrivateKey \/ MatchReport \/ HashLocked \/ MatchProposal \/ SignManifest
        PROVE  SigningInv'
    <2>1. PICK k \in ScriptType : k = script
      BY ScriptFacts, <1>2
    <2>2. k.name = "sign" /\ ScriptFits(k) /\ SignFits(k) /\ k.line \in Lines
      BY <1>2, <2>1, ScriptFacts, OnlyFits
         DEF ProvePrivateKey, MatchReport, HashLocked, MatchProposal, SignManifest, At, ScriptType
    <2> DEFINE j == [k EXCEPT !.at = k.at + 1]
    <2>3. j.name = "sign" /\ j.line = k.line /\ j.at = k.at + 1 /\ k.at \in Nat
      BY <2>2 DEF ScriptType
    <2> HIDE DEF j
    <2>4. CASE ProvePrivateKey
      <3>1. j.at = 2
        BY <2>1, <2>3, <2>4 DEF ProvePrivateKey, At
      <3>2. ScriptFits(j)
        BY <3>1, <2>2, <2>3, OnlyFits DEF SignFits
      <3> QED
        BY <1>2, <2>1, <2>4, <3>2, ProceedsInv DEF ProvePrivateKey, j
    <2>5. CASE MatchReport
      <3>1. j.at = 3
        BY <2>1, <2>3, <2>5 DEF MatchReport, At
      <3>2. ScriptFits(j)
        BY <3>1, <2>2, <2>3, OnlyFits DEF SignFits
      <3> QED
        BY <1>2, <2>1, <2>5, <3>2, ProceedsInv DEF MatchReport, j
    <2>6. CASE HashLocked
      <3>1. (Of("artifacts") = Of("lock").art) => ScriptFits(j)
        <4>1. ASSUME Of("artifacts") = Of("lock").art PROVE SignFits(j)
          <5>1. File("lock", k.line) \in Locks /\ There("lock", k.line)
            <6>1. File("lock", k.line) \in Locks \cup {Absent}
              BY <1>2, <2>2, ScriptFacts, DiskTypes
            <6> QED
              BY <6>1, <2>2 DEF SignFits, There
          <5>2. j.at = 4 /\ File("artifacts", k.line) = File("lock", k.line).art
            BY <4>1, <2>1, <2>3, <2>6 DEF HashLocked, At, Of, File
          <5>3. There("artifacts", k.line)
            BY <5>1, <5>2, AbsentFacts DEF There, Locks
          <5> QED
            BY <5>1, <5>2, <5>3, <2>3 DEF SignFits
        <4> QED
          BY <4>1, <2>3, OnlyFits
      <3> QED
        BY <1>2, <2>1, <2>6, <3>1, ProceedsInv DEF HashLocked, j
    <2>7. CASE MatchProposal
      <3>1. j.at = 5 /\ k.at = 4
        BY <2>1, <2>3, <2>7 DEF MatchProposal, At
      <3>2. ScriptFits(j)
        BY <3>1, <2>2, <2>3, OnlyFits DEF SignFits
      <3> QED
        BY <1>2, <2>1, <2>7, <3>2, ProceedsInv DEF MatchProposal, j
    <2>8. CASE SignManifest
      <3>1. PICK a, s : a = File("artifacts", k.line) /\ s = File("secret", "rc4")
        OBVIOUS
      <3> DEFINE i == [k EXCEPT !.at = 6, !.art = a, !.key = s]
      <3>2. k.at = 5 /\ script' = i /\ Reads
        BY <2>1, <2>8, <3>1 DEF SignManifest, At, Of, The, File
      <3>3. a \in Origins /\ s \in SigningKeys \cup {Absent}
        <4>1. File("artifacts", k.line) \in Origins \cup {Absent}
              /\ File("secret", "rc4") \in SigningKeys \cup {Absent}
          BY <1>2, <2>2, ScriptFacts, DiskTypes
        <4> QED
          BY <4>1, <2>2, <3>1, <3>2 DEF SignFits, There
      <3>4. i \in ScriptType /\ i.name = "sign" /\ i.line = k.line /\ i.at = 6 /\ i.art = a
        BY <2>2, <3>3 DEF ScriptType
      <3> HIDE DEF i
      <3>5. SignFits(i)
        BY <2>2, <3>1, <3>2, <3>3, <3>4 DEF SignFits
      <3> QED
        BY <1>2, <3>2, <3>4, <3>5, ReadsInv, OnlyFits
    <2> QED
      BY <1>2, <2>4, <2>5, <2>6, <2>7, <2>8
  <1> QED
    BY <1>1, <1>2

\* The import learns that the bundle is of the lock.
LEMMA ImportReadsInv == SigningInv /\ (ImportBegins \/ VerifyBundle) => SigningInv'
  <1>1. ASSUME SigningInv, ImportBegins PROVE SigningInv'
    <2> DEFINE j == [NoScript EXCEPT !.name = "import", !.line = "rc4", !.at = 1]
    <2>1. j \in ScriptType /\ j.name = "import" /\ j.line = "rc4" /\ j.at = 1
      BY DEF ScriptType, NoScript, Scripts, Lines
    <2>2. script' = j /\ Reads /\ There("bundle", "rc4")
          /\ File("bundle", "rc4").art = File("lock", "rc4").art
      BY <1>1 DEF ImportBegins, Starts, Here, There, The, File
    <2> HIDE DEF j
    <2>3. There("lock", "rc4")
      BY <1>1, <2>2, ScriptFacts DEF FilesThere, Lines
    <2>4. ImportFits(j)
      BY <2>1, <2>2, <2>3 DEF ImportFits
    <2> QED
      BY <1>1, <2>1, <2>2, <2>4, ReadsInv, OnlyFits
  <1>2. ASSUME SigningInv, VerifyBundle PROVE SigningInv'
    <2>1. PICK k \in ScriptType : k = script
      BY ScriptFacts, <1>2
    <2>2. k.name = "import" /\ ScriptFits(k) /\ ImportFits(k) /\ k.at = 1
      BY <1>2, <2>1, ScriptFacts, OnlyFits DEF VerifyBundle, At, ScriptType
    <2> DEFINE j == [k EXCEPT !.at = k.at + 1]
    <2>3. j.name = "import" /\ j.at = 2
      BY <2>2 DEF ScriptType
    <2> HIDE DEF j
    <2>4. BundleHolds(The("bundle")) => ScriptFits(j)
      <3>1. ASSUME BundleHolds(The("bundle")) PROVE ImportFits(j)
        <4>1. /\ File("bundle", "rc4").key = File("lock", "rc4").key
              /\ File("bundle", "rc4").listed = File("bundle", "rc4").art
              /\ File("bundle", "rc4").by = File("bundle", "rc4").key
          BY <3>1 DEF BundleHolds, VerifiesItself, The, File
        <4> QED
          BY <4>1, <2>2, <2>3 DEF ImportFits
      <3> QED
        BY <3>1, <2>3, OnlyFits
    <2> QED
      BY <1>2, <2>1, <2>4, ProceedsInv DEF VerifyBundle, j
  <1> QED
    BY <1>1, <1>2

\* The rebinding learns that matrix and campaigns agree and whose the release is.
LEMMA RebindReadsInv ==
    SigningInv /\ (RebindBegins \/ ReadCampaigns \/ MatchStatus \/ VerifyFinal) => SigningInv'
  <1>1. ASSUME SigningInv, RebindBegins PROVE SigningInv'
    <2> DEFINE j == [NoScript EXCEPT !.name = "rebind", !.line = "final", !.at = 1]
    <2>1. j \in ScriptType /\ j.name = "rebind" /\ j.line = "final" /\ j.at = 1
      BY DEF ScriptType, NoScript, Scripts, Lines
    <2>2. script' = j /\ Reads /\ There("bundle", "final") /\ File("matrix", "rc4") = "right"
      BY <1>1 DEF RebindBegins, Starts, Here, There, The, File
    <2> HIDE DEF j
    <2>3. There("matrix", "rc4")
      BY <2>2, AbsentFacts DEF There, Origins
    <2>4. RebindFits(j)
      BY <2>1, <2>2, <2>3 DEF RebindFits
    <2> QED
      BY <1>1, <2>1, <2>2, <2>4, ReadsInv, OnlyFits
  <1>2. ASSUME SigningInv, ReadCampaigns \/ MatchStatus \/ VerifyFinal PROVE SigningInv'
    <2>1. PICK k \in ScriptType : k = script
      BY ScriptFacts, <1>2
    <2>2. k.name = "rebind" /\ ScriptFits(k) /\ RebindFits(k)
      BY <1>2, <2>1, ScriptFacts, OnlyFits
         DEF ReadCampaigns, MatchStatus, VerifyFinal, At, ScriptType
    <2> DEFINE j == [k EXCEPT !.at = k.at + 1]
    <2>3. /\ j.name = "rebind" /\ j.line = k.line /\ j.at = k.at + 1 /\ j.art = k.art
          /\ k.at \in Nat
      BY <2>2 DEF ScriptType
    <2> HIDE DEF j
    <2>4. CASE ReadCampaigns
      <3>1. PICK a : a = File("matrix", "rc4")
        OBVIOUS
      <3> DEFINE i == [k EXCEPT !.at = 2, !.art = a]
      <3>2. k.at = 1 /\ script' = i /\ Reads
        BY <2>1, <2>4, <3>1 DEF ReadCampaigns, At, The, File
      <3>3. a \in Origins
        <4>1. File("matrix", "rc4") \in Origins \cup {Absent}
          BY <1>2, ScriptFacts, DiskTypes
        <4> QED
          BY <4>1, <2>2, <3>1 DEF RebindFits, There
      <3>4. i \in ScriptType /\ i.name = "rebind" /\ i.line = k.line /\ i.at = 2 /\ i.art = a
        BY <2>2, <3>3 DEF ScriptType
      <3> HIDE DEF i
      <3>5. RebindFits(i)
        BY <2>2, <3>1, <3>2, <3>3, <3>4 DEF RebindFits
      <3> QED
        BY <1>2, <3>2, <3>4, <3>5, ReadsInv, OnlyFits
    <2>5. CASE MatchStatus
      <3>1. j.at = 3 /\ k.at = 2
        BY <2>1, <2>3, <2>5 DEF MatchStatus, At
      <3>2. RebindFits(j)
        BY <3>1, <2>2, <2>3 DEF RebindFits
      <3>3. ScriptFits(j)
        BY <3>2, <2>3, OnlyFits
      <3> QED
        BY <1>2, <2>1, <2>5, <3>3, ProceedsInv DEF MatchStatus, j
    <2>6. CASE VerifyFinal
      <3>1. j.at = 4 /\ k.at = 3
        BY <2>1, <2>3, <2>6 DEF VerifyFinal, At
      <3>2. RebindFits(j)
        BY <3>1, <2>2, <2>3 DEF RebindFits
      <3>3. ScriptFits(j)
        BY <3>2, <2>3, OnlyFits
      <3> QED
        BY <1>2, <2>1, <2>6, <3>3, ProceedsInv DEF VerifyFinal, j
    <2> QED
      BY <1>2, <2>4, <2>5, <2>6
  <1> QED
    BY <1>1, <1>2

\* A script that dies or raises leaves what it wrote.
LEMMA ScriptDiesInv == SigningInv /\ ScriptDies => SigningInv'
  BY ReadsInv, NoScriptFacts, NoScriptFits DEF ScriptDies

KeepsBut(names) == Keeps((PerLine \cup Once) \ names)

\* What a step leaves that writes the files of these names, ...
LEMMA RestStays ==
    ASSUME SigningInv, NEW ns, KeepsBut(ns), unnoticed \subseteq unnoticed'
    PROVE  /\ "report" \notin ns /\ "approval" \notin ns => \A l \in Lines : BuiltOf(l)'
           /\ "promoted" \notin ns /\ "approval" \notin ns /\ "lock" \notin ns =>
                 \A l \in Lines : ReviewedOf(l)'
           /\ "bundle" \notin ns /\ "lock" \notin ns => \A l \in Lines : SignedOf(l)'
           /\ "media" \notin ns /\ "lock" \notin ns => ImportedIsLocked'
           /\ "rebound" \notin ns /\ "lock" \notin ns => ReboundIsSigned'
           /\ "secret" \notin ns /\ "enrollment" \notin ns /\ "approval" \notin ns
              /\ UNCHANGED replacements =>
                 FirstAuthority'
           /\ "draft" \notin ns /\ "promoted" \notin ns /\ "lock" \notin ns /\ "enrollment" \notin ns
              /\ UNCHANGED replacements => EnrolledAuthority'
  <1> DEFINE names == (PerLine \cup Once) \ ns
  <1>1. /\ "report" \notin ns /\ "approval" \notin ns => {"report", "approval"} \subseteq names
        /\ "promoted" \notin ns /\ "approval" \notin ns /\ "lock" \notin ns =>
              {"promoted", "approval", "lock"} \subseteq names
        /\ "bundle" \notin ns /\ "lock" \notin ns => {"bundle", "lock"} \subseteq names
        /\ "media" \notin ns /\ "lock" \notin ns => {"media", "lock"} \subseteq names
    BY DEF PerLine, Once
  <1>2. /\ "rebound" \notin ns /\ "lock" \notin ns => {"rebound", "lock"} \subseteq names
        /\ "secret" \notin ns /\ "enrollment" \notin ns /\ "approval" \notin ns =>
              {"secret", "enrollment", "approval"} \subseteq names
        /\ "draft" \notin ns /\ "promoted" \notin ns /\ "lock" \notin ns /\ "enrollment" \notin ns =>
              {"draft", "promoted", "lock", "enrollment"} \subseteq names
    BY DEF PerLine, Once
  <1>3. Keeps(names)
    BY DEF KeepsBut
  <1> HIDE DEF names
  <1> QED
    BY <1>1, <1>2, <1>3, KeepsDisk, ScriptFacts

\* ... of the files and of what a script knows.
LEMMA FitsStay ==
    ASSUME NEW ns, KeepsBut(ns), unnoticed \subseteq unnoticed',
           NEW k \in ScriptType, ScriptFits(k)
    PROVE  /\ "matrix" \notin ns /\ "checkout" \notin ns /\ "artifacts" \notin ns => StageFits(k)'
           /\ "draft" \notin ns => EnrollFits(k)'
           /\ "enrollment" \notin ns /\ "promoted" \notin ns /\ "matrix" \notin ns
              /\ "derived" \notin ns /\ "public" \notin ns
              /\ UNCHANGED replacements => DraftFits(k)'
           /\ "approval" \notin ns /\ "draft" \notin ns /\ "enrollment" \notin ns
              /\ UNCHANGED replacements => PromoteFits(k)'
           /\ "lock" \notin ns /\ "artifacts" \notin ns => SignFits(k)'
           /\ "bundle" \notin ns /\ "lock" \notin ns => ImportFits(k)'
           /\ "matrix" \notin ns /\ "bundle" \notin ns => RebindFits(k)'
  <1> DEFINE names == (PerLine \cup Once) \ ns
  <1>1. /\ "matrix" \notin ns /\ "checkout" \notin ns /\ "artifacts" \notin ns =>
              {"matrix", "checkout", "artifacts"} \subseteq names
        /\ "draft" \notin ns => {"draft"} \subseteq names
        /\ "enrollment" \notin ns /\ "promoted" \notin ns /\ "matrix" \notin ns
           /\ "derived" \notin ns /\ "public" \notin ns =>
              {"enrollment", "promoted", "matrix", "derived", "public"} \subseteq names
        /\ "approval" \notin ns /\ "draft" \notin ns /\ "enrollment" \notin ns =>
              {"approval", "draft", "enrollment"} \subseteq names
    BY DEF PerLine, Once
  <1>2. /\ "lock" \notin ns /\ "artifacts" \notin ns => {"lock", "artifacts"} \subseteq names
        /\ "bundle" \notin ns /\ "lock" \notin ns => {"bundle", "lock"} \subseteq names
        /\ "matrix" \notin ns /\ "bundle" \notin ns => {"matrix", "bundle"} \subseteq names
    BY DEF PerLine, Once
  <1>3. Keeps(names)
    BY DEF KeepsBut
  <1> HIDE DEF names
  <1> QED
    BY <1>1, <1>2, <1>3, KeepsFits DEF ScriptFits

\* Of most files nothing is said but what is in them.
LEMMA ThereStays ==
    ASSUME SigningInv, NEW ns \in SUBSET {"checkout", "artifacts", "proposal", "derived", "enrollment"},
           KeepsBut(ns)
    PROVE  FilesThere'
  <1>1. \A m \in (PerLine \cup Once) \ ns :
            \A j \in Lines : <<m, j>> \in FileNames => File(m, j)' = File(m, j)
    BY DEF Keeps, KeepsBut
  <1>2. \A l \in Lines : /\ File("lock", l)' = File("lock", l)
                         /\ File("promoted", l)' = File("promoted", l)
                         /\ File("approval", l)' = File("approval", l)
                         /\ File("draft", l)' = File("draft", l)
                         /\ File("public", l)' = File("public", l)
                         /\ File("bundle", l)' = File("bundle", l)
                         /\ File("report", l)' = File("report", l)
    BY <1>1, NamesFacts DEF PerLine
  <1>3. /\ File("media", "rc4")' = File("media", "rc4")
        /\ File("matrix", "rc4")' = File("matrix", "rc4")
        /\ File("rebound", "rc4")' = File("rebound", "rc4")
        /\ File("secret", "rc4")' = File("secret", "rc4")
    BY <1>1, NamesFacts DEF Once
  <1>4. FilesThere
    BY ScriptFacts
  <1> QED
    BY <1>2, <1>3, <1>4 DEF FilesThere, There, Lines

\* What is left of an invariant to show where some files change.
LEMMA WritesInv ==
    ASSUME SigningInv, NEW n \in PerLine \cup Once, NEW l \in Lines, <<n, l>> \in FileNames,
           NEW v \in Contents(<<n, l>>) \cup {Absent}, Leaves(n, l, v), OthersStay
    PROVE  /\ DiskTyped' /\ ReplacementsFit' /\ unnoticed \subseteq unnoticed'
           /\ UNCHANGED replacements /\ KeepsBut({n})
           /\ File(n, l)' = v
           /\ \A j \in Lines \ {l} : <<n, j>> \in FileNames => File(n, j)' = File(n, j)
  BY LeavesFacts, OthersStayFacts DEF SigningInv, DiskFits, KeepsBut

\* The artifacts are those both builds made.
LEMMA CopyArtifactsInv == SigningInv /\ CopyArtifacts => SigningInv'
  <1> SUFFICES ASSUME SigningInv, CopyArtifacts PROVE SigningInv'
    OBVIOUS
  <1>1. PICK k \in ScriptType : k = script
    BY ScriptFacts
  <1>2. k.name = "stage" /\ ScriptFits(k) /\ StageFits(k) /\ k.line \in Lines /\ k.at = 3
    BY <1>1, ScriptFacts, OnlyFits DEF CopyArtifacts, At, ScriptType
  <1> DEFINE j == [k EXCEPT !.at = k.at + 1]
  <1>3. j \in ScriptType /\ j.name = "stage" /\ j.line = k.line /\ j.at = 4 /\ j.art = k.art
    BY <1>2 DEF ScriptType
  <1>4. script' = j /\ Leaves("artifacts", k.line, k.art) /\ OthersStay
    BY <1>1 DEF CopyArtifacts, Proceeds
  <1> HIDE DEF j
  <1>5. /\ "artifacts" \in PerLine /\ <<"artifacts", k.line>> \in FileNames
        /\ k.art \in Contents(<<"artifacts", k.line>>) \cup {Absent}
    BY <1>2, NamesFacts, ContentsFacts DEF PerLine, ScriptType
  <1>6. /\ DiskTyped' /\ ReplacementsFit' /\ unnoticed \subseteq unnoticed'
        /\ UNCHANGED replacements /\ KeepsBut({"artifacts"})
        /\ File("artifacts", k.line)' = k.art
    BY <1>2, <1>4, <1>5, WritesInv
  <1>7. FilesThere'
    BY <1>6, ThereStays
  <1>8. DiskFits'
    BY <1>6, <1>7, RestStays DEF DiskFits
  <1>9. StageFits(j)'
    <2>1. File("matrix", "rc4")' = File("matrix", "rc4")
      BY <1>6, NamesFacts DEF KeepsBut, Keeps, PerLine, Once
    <2> QED
      BY <1>2, <1>3, <1>6, <2>1, ExcusesStay DEF StageFits, There
  <1>10. ScriptFits(j)'
    BY <1>3, <1>9
       DEF ScriptFits, EnrollFits, DraftFits, PromoteFits, SignFits, ImportFits, RebindFits
  <1> QED
    BY <1>3, <1>4, <1>6, <1>8, <1>10, BecomesInv

\* The proposal names the artifacts that were hashed,
LEMMA WriteProposalInv == SigningInv /\ WriteProposal => SigningInv'
  <1> SUFFICES ASSUME SigningInv, WriteProposal PROVE SigningInv'
    OBVIOUS
  <1>1. PICK k \in ScriptType : k = script
    BY ScriptFacts
  <1>2. k.name = "stage" /\ ScriptFits(k) /\ StageFits(k) /\ k.line \in Lines /\ k.at = 4
    BY <1>1, ScriptFacts, OnlyFits DEF WriteProposal, At, ScriptType
  <1> DEFINE j == [k EXCEPT !.at = k.at + 1]
  <1>3. j \in ScriptType /\ j.name = "stage" /\ j.line = k.line /\ j.at = 5 /\ j.art = k.art
    BY <1>2 DEF ScriptType
  <1>4. PICK v : v = File("artifacts", k.line)
    OBVIOUS
  <1>5. script' = j /\ Leaves("proposal", k.line, v) /\ OthersStay
    BY <1>1, <1>4 DEF WriteProposal, Proceeds, Of, File
  <1> HIDE DEF j
  <1>6. /\ "proposal" \in PerLine /\ <<"proposal", k.line>> \in FileNames
        /\ v \in Contents(<<"proposal", k.line>>) \cup {Absent}
    BY <1>2, <1>4, NamesFacts, ContentsFacts, ScriptFacts, DiskTypes DEF PerLine
  <1>7. /\ DiskTyped' /\ ReplacementsFit' /\ unnoticed \subseteq unnoticed'
        /\ UNCHANGED replacements /\ KeepsBut({"proposal"})
    BY <1>2, <1>5, <1>6, WritesInv
  <1>8. FilesThere'
    BY <1>7, ThereStays
  <1>9. DiskFits'
    BY <1>7, <1>8, RestStays DEF DiskFits
  <1>10. StageFits(j)'
    <2>1. StageFits(j)
      BY <1>2, <1>3 DEF StageFits
    <2> QED
      BY <2>1, <1>3, <1>7, FitsStay, OnlyFits
  <1>11. ScriptFits(j)'
    BY <1>3, <1>10
       DEF ScriptFits, EnrollFits, DraftFits, PromoteFits, SignFits, ImportFits, RebindFits
  <1> QED
    BY <1>3, <1>5, <1>7, <1>9, <1>11, BecomesInv

\* and the report names them too.
LEMMA WriteReportInv == SigningInv /\ WriteReport => SigningInv'
  <1> SUFFICES ASSUME SigningInv, WriteReport PROVE SigningInv'
    OBVIOUS
  <1>1. PICK k \in ScriptType : k = script
    BY ScriptFacts
  <1>2. k.name = "stage" /\ ScriptFits(k) /\ StageFits(k) /\ k.line \in Lines /\ k.at = 5
    BY <1>1, ScriptFacts, OnlyFits DEF WriteReport, At, ScriptType
  <1>3. PICK v : v = File("artifacts", k.line)
    OBVIOUS
  <1>4. script' = NoScript /\ Leaves("report", k.line, v) /\ OthersStay
    BY <1>1, <1>3 DEF WriteReport, Of, File
  <1>5. /\ "report" \in PerLine /\ <<"report", k.line>> \in FileNames
        /\ v \in Contents(<<"report", k.line>>) \cup {Absent}
    BY <1>2, <1>3, NamesFacts, ContentsFacts, ScriptFacts, DiskTypes DEF PerLine
  <1>6. /\ DiskTyped' /\ ReplacementsFit' /\ unnoticed \subseteq unnoticed'
        /\ UNCHANGED replacements /\ KeepsBut({"report"})
        /\ File("report", k.line)' = v
        /\ \A j \in Lines \ {k.line} : <<"report", j>> \in FileNames =>
              File("report", j)' = File("report", j)
    BY <1>2, <1>4, <1>5, WritesInv
  <1>7. \A j \in Lines \ {k.line} : File("report", j)' = File("report", j)
    BY <1>6, NamesFacts DEF PerLine
  <1>8. /\ \A l \in Lines : /\ File("lock", l)' = File("lock", l)
                            /\ File("promoted", l)' = File("promoted", l)
                            /\ File("approval", l)' = File("approval", l)
                            /\ File("draft", l)' = File("draft", l)
                            /\ File("public", l)' = File("public", l)
                            /\ File("bundle", l)' = File("bundle", l)
        /\ File("media", "rc4")' = File("media", "rc4")
        /\ File("matrix", "rc4")' = File("matrix", "rc4")
        /\ File("rebound", "rc4")' = File("rebound", "rc4")
        /\ File("secret", "rc4")' = File("secret", "rc4")
    BY <1>6, NamesFacts DEF KeepsBut, Keeps, PerLine, Once
  <1>9. FilesThere'
    <2>1. FilesThere
      BY ScriptFacts
    <2> QED
      BY <1>2, <1>6, <1>7, <1>8, <2>1 DEF FilesThere, There, Lines, StageFits
  <1>10. ASSUME NEW l \in Lines PROVE BuiltOf(l)'
    <2>1. BuiltOf(l)
      BY ScriptFacts
    <2>2. Unbuilt(l) => Unbuilt(l)'
      BY <1>6, ExcusesStay
    <2>3. CASE l = k.line
      BY <1>2, <1>3, <1>6, <1>8, <2>1, <2>2, <2>3 DEF BuiltOf, StageFits, There
    <2>4. CASE l # k.line
      BY <1>7, <1>8, <2>1, <2>2, <2>4 DEF BuiltOf, There
    <2> QED
      BY <2>3, <2>4
  <1>11. DiskFits'
    BY <1>6, <1>9, <1>10, RestStays DEF DiskFits
  <1> QED
    BY <1>4, <1>6, <1>11, EndsInv

\* A step that writes more than one file, all of a line.
LEMMA WritesSomeInv ==
    ASSUME SigningInv, NEW ns, NEW l \in Lines, onDisk' = [f \in FileNames |-> onDisk'[f]],
           \A f \in FileNames : (\A n \in ns : f # <<n, l>>) => onDisk'[f] = onDisk[f],
           \A n \in ns : onDisk'[<<n, l>>] \in Contents(<<n, l>>) \cup {Absent}
    PROVE  /\ DiskTyped' /\ KeepsBut(ns)
           /\ \A n \in ns : \A j \in Lines \ {l} :
                 <<n, j>> \in FileNames => File(n, j)' = File(n, j)
  <1>1. DiskTyped'
    BY DEF SigningInv, DiskFits, DiskTyped
  <1>2. ASSUME NEW m \in (PerLine \cup Once) \ ns, NEW j \in Lines, <<m, j>> \in FileNames
        PROVE  File(m, j)' = File(m, j)
    <2>1. \A n \in ns : <<m, j>> # <<n, l>>
      OBVIOUS
    <2> QED
      BY <1>2, <2>1 DEF File
  <1>3. ASSUME NEW n \in ns, NEW j \in Lines \ {l}, <<n, j>> \in FileNames
        PROVE  File(n, j)' = File(n, j)
    <2>1. \A m \in ns : <<n, j>> # <<m, l>>
      OBVIOUS
    <2> QED
      BY <1>3, <2>1 DEF File
  <1> QED
    BY <1>1, <1>2, <1>3 DEF KeepsBut, Keeps

\* A staging begins with none of the files it is to write.
LEMMA StageBeginsInv == ASSUME SigningInv, NEW l \in Lines, StageBegins(l) PROVE SigningInv'
  <1> DEFINE j == [NoScript EXCEPT !.name = "stage", !.line = l, !.at = 1]
             ns == {"artifacts", "proposal", "report"}
  <1>1. j \in ScriptType /\ j.name = "stage" /\ j.line = l /\ j.at = 1
    BY DEF ScriptType, NoScript, Scripts
  <1>2. script' = j /\ File("checkout", l) = "right"
        /\ (l = "final" => There("matrix", "rc4")) /\ OthersStay
    BY DEF StageBegins, Starts, Here, There, File
  <1>3. /\ onDisk' = [f \in FileNames |-> onDisk'[f]]
        /\ \A f \in FileNames : (\A n \in ns : f # <<n, l>>) => onDisk'[f] = onDisk[f]
        /\ \A n \in ns : onDisk'[<<n, l>>] = Absent
    <2>1. onDisk = [f \in FileNames |-> onDisk[f]]
      BY ScriptFacts DEF DiskTyped
    <2>2. \A n \in ns : <<n, l>> \in FileNames
      BY NamesFacts DEF PerLine
    <2>3. onDisk' = [onDisk EXCEPT ![<<"artifacts", l>>] = Absent, ![<<"proposal", l>>] = Absent,
                                   ![<<"report", l>>] = Absent]
      BY DEF StageBegins
    <2> QED
      BY <2>1, <2>2, <2>3
  <1> HIDE DEF j
  <1>4. /\ DiskTyped' /\ KeepsBut(ns)
        /\ \A n \in ns : \A i \in Lines \ {l} : <<n, i>> \in FileNames => File(n, i)' = File(n, i)
    BY <1>3, WritesSomeInv
  <1>5. /\ ReplacementsFit' /\ unnoticed \subseteq unnoticed' /\ UNCHANGED replacements
    BY <1>2, ScriptFacts, OthersStayFacts
  <1>6. /\ File("report", l)' = Absent
        /\ \A i \in Lines \ {l} : File("report", i)' = File("report", i)
    BY <1>3, <1>4, NamesFacts DEF PerLine, File
  <1>7. /\ \A i \in Lines : /\ File("lock", i)' = File("lock", i)
                            /\ File("promoted", i)' = File("promoted", i)
                            /\ File("approval", i)' = File("approval", i)
                            /\ File("draft", i)' = File("draft", i)
                            /\ File("public", i)' = File("public", i)
                            /\ File("bundle", i)' = File("bundle", i)
                            /\ File("checkout", i)' = File("checkout", i)
        /\ File("media", "rc4")' = File("media", "rc4")
        /\ File("matrix", "rc4")' = File("matrix", "rc4")
        /\ File("rebound", "rc4")' = File("rebound", "rc4")
        /\ File("secret", "rc4")' = File("secret", "rc4")
    <2>1. \A m \in (PerLine \cup Once) \ ns :
              \A i \in Lines : <<m, i>> \in FileNames => File(m, i)' = File(m, i)
      BY <1>4 DEF KeepsBut, Keeps
    <2>2. \A m \in PerLine \ ns : \A i \in Lines : File(m, i)' = File(m, i)
      BY <2>1, NamesFacts
    <2>3. \A m \in Once : File(m, "rc4")' = File(m, "rc4")
      BY <2>1, NamesFacts DEF Once
    <2> QED
      BY <2>2, <2>3 DEF PerLine, Once
  <1>8. FilesThere'
    <2>1. FilesThere
      BY ScriptFacts
    <2> QED
      BY <1>6, <1>7, <2>1 DEF FilesThere, There, Lines
  <1>9. ASSUME NEW i \in Lines PROVE BuiltOf(i)'
    <2>1. BuiltOf(i)
      BY ScriptFacts
    <2>2. Unbuilt(i) => Unbuilt(i)'
      BY <1>5, ExcusesStay
    <2> QED
      BY <1>6, <1>7, <2>1, <2>2 DEF BuiltOf, There
  <1>10. DiskFits'
    <2> HIDE DEF ns
    <2>1. /\ "promoted" \notin ns /\ "approval" \notin ns /\ "lock" \notin ns /\ "bundle" \notin ns
          /\ "media" \notin ns /\ "rebound" \notin ns /\ "secret" \notin ns
          /\ "enrollment" \notin ns /\ "draft" \notin ns
      BY DEF ns
    <2> QED
      BY <1>4, <1>5, <1>8, <1>9, <2>1, RestStays DEF DiskFits
  <1>11. ScriptFits(j)'
    <2>1. StageFits(j)'
      BY <1>1, <1>2, <1>7 DEF StageFits, There
    <2> QED
      BY <1>1, <2>1
         DEF ScriptFits, EnrollFits, DraftFits, PromoteFits, SignFits, ImportFits, RebindFits
  <1> QED
    BY <1>1, <1>2, <1>5, <1>10, <1>11, BecomesInv

\* An enrollment derives the public key,
LEMMA EnrollBeginsInv == SigningInv /\ EnrollBegins => SigningInv'
  <1> SUFFICES ASSUME SigningInv, EnrollBegins PROVE SigningInv'
    OBVIOUS
  <1> DEFINE j == [NoScript EXCEPT !.name = "enroll", !.line = "rc4", !.at = 1]
             ns == {"derived", "enrollment"}
  <1>1. j \in ScriptType /\ j.name = "enroll"
    BY DEF ScriptType, NoScript, Scripts, Lines
  <1>2. script' = j /\ UNCHANGED replacements /\ unnoticed \subseteq unnoticed'
    BY DEF EnrollBegins, Starts
  <1>3. There("draft", "rc4") => Replaced("enrollment", "rc4")'
    <2>1. There("draft", "rc4") => << <<"enrollment", "rc4">>, "enroll">> \in unnoticed'
      BY DEF EnrollBegins, Here, There, File
    <2> QED
      BY <2>1 DEF Replaced
  <1>4. /\ onDisk' = [f \in FileNames |-> onDisk'[f]]
        /\ \A f \in FileNames : (\A n \in ns : f # <<n, "rc4">>) => onDisk'[f] = onDisk[f]
        /\ onDisk'[<<"derived", "rc4">>] = File("secret", "rc4")
        /\ onDisk'[<<"enrollment", "rc4">>] = Absent
    <2>1. onDisk = [f \in FileNames |-> onDisk[f]]
      BY ScriptFacts DEF DiskTyped
    <2>2. \A n \in ns : <<n, "rc4">> \in FileNames
      BY NamesFacts DEF Once
    <2>3. onDisk' = [onDisk EXCEPT ![<<"derived", "rc4">>] = File("secret", "rc4"),
                                   ![<<"enrollment", "rc4">>] = Absent]
      BY DEF EnrollBegins, The, File
    <2> QED
      BY <2>1, <2>2, <2>3
  <1> HIDE DEF j
  <1>5. /\ DiskTyped' /\ KeepsBut(ns)
    <2>1. \A n \in ns : onDisk'[<<n, "rc4">>] \in Contents(<<n, "rc4">>) \cup {Absent}
      BY <1>4, ContentsFacts, ScriptFacts, DiskTypes
    <2>2. "rc4" \in Lines
      BY DEF Lines
    <2> QED
      BY <1>4, <2>1, <2>2, WritesSomeInv
  <1>6. FilesThere'
    <2>1. ns \in SUBSET {"checkout", "artifacts", "proposal", "derived", "enrollment"}
      OBVIOUS
    <2> HIDE DEF ns
    <2> QED
      BY <1>5, <2>1, ThereStays
  <1>7. /\ File("enrollment", "rc4")' = Absent /\ File("secret", "rc4")' = File("secret", "rc4")
        /\ \A l \in Lines : /\ File("draft", l)' = File("draft", l)
                            /\ File("promoted", l)' = File("promoted", l)
                            /\ File("lock", l)' = File("lock", l)
                            /\ File("approval", l)' = File("approval", l)
    BY <1>4, <1>5, NamesFacts DEF KeepsBut, Keeps, PerLine, Once, File
  <1>8. FirstAuthority'
    <2>1. FirstAuthority
      BY ScriptFacts
    <2> QED
      BY <1>2, <1>7, <2>1 DEF FirstAuthority, There
  <1>9. EnrolledAuthority'
    <2>1. FilesThere
      BY ScriptFacts
    <2>2. There("draft", "rc4") \/ \A l \in Lines : /\ ~There("draft", l) /\ ~There("promoted", l)
                                                    /\ ~There("lock", l)
      BY <2>1 DEF FilesThere, Lines
    <2> QED
      BY <1>3, <1>7, <2>2 DEF EnrolledAuthority, There
  <1>10. ReplacementsFit'
    <2>1. ReplacementsFit /\ (Replaced("enrollment", "rc4") => Replaced("enrollment", "rc4")')
      BY <1>2, ScriptFacts, ExcusesStay
    <2> QED
      BY <1>2, <2>1 DEF ReplacementsFit
  <1>11. DiskFits'
    <2> HIDE DEF ns
    <2>1. /\ "report" \notin ns /\ "approval" \notin ns /\ "promoted" \notin ns /\ "lock" \notin ns
          /\ "bundle" \notin ns /\ "media" \notin ns /\ "rebound" \notin ns
      BY DEF ns
    <2> QED
      BY <1>2, <1>5, <1>6, <1>8, <1>9, <2>1, RestStays DEF DiskFits
  <1>12. ScriptFits(j)'
    <2>1. EnrollFits(j)'
      BY <1>1, <1>3, <1>7 DEF EnrollFits, There, Lines
    <2> QED
      BY <1>1, <2>1
         DEF ScriptFits, StageFits, DraftFits, PromoteFits, SignFits, ImportFits, RebindFits
  <1> QED
    BY <1>1, <1>2, <1>10, <1>11, <1>12, BecomesInv

\* and names it if it is still that of the private key.
LEMMA ProveKeyInv == SigningInv /\ ProveKey => SigningInv'
  <1> SUFFICES ASSUME SigningInv, ProveKey PROVE SigningInv'
    OBVIOUS
  <1>1. PICK v : v = IF File("secret", "rc4") = File("derived", "rc4")
                     THEN File("derived", "rc4") ELSE Absent
    OBVIOUS
  <1>2. script.name = "enroll" /\ EnrollFits(script)
    BY ScriptFacts DEF ProveKey, At, ScriptFits
  <1>3. script' = NoScript /\ Leaves("enrollment", "rc4", v) /\ OthersStay
    BY <1>1 DEF ProveKey, The, File
  <1>4. /\ "enrollment" \in Once /\ <<"enrollment", "rc4">> \in FileNames /\ "rc4" \in Lines
        /\ v \in SigningKeys \cup {Absent}
    BY <1>1, NamesFacts, ScriptFacts, DiskTypes DEF Once
  <1>5. v \in Contents(<<"enrollment", "rc4">>) \cup {Absent}
    BY <1>4, ContentsFacts
  <1>6. /\ DiskTyped' /\ ReplacementsFit' /\ unnoticed \subseteq unnoticed'
        /\ UNCHANGED replacements /\ KeepsBut({"enrollment"})
        /\ File("enrollment", "rc4")' = v
    BY <1>3, <1>4, <1>5, WritesInv
  <1>7. FilesThere'
    BY <1>6, ThereStays
  <1>8. /\ File("secret", "rc4")' = File("secret", "rc4")
        /\ \A l \in Lines : /\ File("draft", l)' = File("draft", l)
                            /\ File("promoted", l)' = File("promoted", l)
                            /\ File("lock", l)' = File("lock", l)
                            /\ File("approval", l)' = File("approval", l)
    BY <1>6, NamesFacts DEF KeepsBut, Keeps, PerLine, Once
  <1>9. FirstAuthority'
    <2>1. FirstAuthority
      BY ScriptFacts
    <2> QED
      BY <1>1, <1>6, <1>8, <2>1 DEF FirstAuthority, There
  <1>10. EnrolledAuthority'
    <2>1. FilesThere
      BY ScriptFacts
    <2>2. There("draft", "rc4") \/ \A l \in Lines : /\ ~There("draft", l) /\ ~There("promoted", l)
                                                    /\ ~There("lock", l)
      BY <2>1 DEF FilesThere, Lines
    <2>3. There("draft", "rc4") => Replaced("enrollment", "rc4")'
      BY <1>2, <1>6, ExcusesStay DEF EnrollFits
    <2> QED
      BY <1>8, <2>2, <2>3 DEF EnrolledAuthority, There
  <1>11. DiskFits'
    BY <1>6, <1>7, <1>9, <1>10, RestStays DEF DiskFits
  <1> QED
    BY <1>3, <1>6, <1>11, EndsInv

\* A script that writes some files leaves those of the other names.
LEMMA KeepsFacts ==
    ASSUME NEW ns, KeepsBut(ns)
    PROVE  /\ \A m \in PerLine \ ns : \A j \in Lines : File(m, j)' = File(m, j)
           /\ \A m \in Once \ ns : File(m, "rc4")' = File(m, "rc4")
  BY NamesFacts DEF KeepsBut, Keeps

\* A draft begins with the report, and with neither draft nor public key there,
LEMMA DraftBeginsInv == ASSUME SigningInv, NEW l \in Lines, DraftBegins(l) PROVE SigningInv'
  <1>1. PICK a : a = File("report", l)
    OBVIOUS
  <1> DEFINE j == [NoScript EXCEPT !.name = "draft", !.line = l, !.at = 1, !.art = a]
             ns == {"draft", "public"}
  <1>2. /\ There("report", l) /\ There("enrollment", "rc4") /\ ~There("promoted", l)
        /\ script' = j /\ OthersStay
    BY <1>1 DEF DraftBegins, Here, There, File
  <1>3. a \in Origins /\ (a = "right" \/ Unbuilt(l)) /\ (l = "final" => There("matrix", "rc4"))
    <2>1. File("report", l) \in Origins \cup {Absent} /\ BuiltOf(l) /\ FilesThere
      BY ScriptFacts, DiskTypes
    <2> QED
      BY <1>1, <1>2, <2>1 DEF BuiltOf, FilesThere, There
  <1>4. j \in ScriptType /\ j.name = "draft" /\ j.line = l /\ j.at = 1 /\ j.art = a
    BY <1>3 DEF ScriptType, NoScript, Scripts
  <1>5. /\ onDisk' = [f \in FileNames |-> onDisk'[f]]
        /\ \A f \in FileNames : (\A n \in ns : f # <<n, l>>) => onDisk'[f] = onDisk[f]
        /\ \A n \in ns : onDisk'[<<n, l>>] = Absent
    <2>1. onDisk = [f \in FileNames |-> onDisk[f]]
      BY ScriptFacts DEF DiskTyped
    <2>2. \A n \in ns : <<n, l>> \in FileNames
      BY NamesFacts DEF PerLine
    <2>3. onDisk' = [onDisk EXCEPT ![<<"draft", l>>] = Absent, ![<<"public", l>>] = Absent]
      BY DEF DraftBegins
    <2> QED
      BY <2>1, <2>2, <2>3
  <1> HIDE DEF j
  <1>6. /\ DiskTyped' /\ KeepsBut(ns)
        /\ \A n \in ns : \A i \in Lines \ {l} : <<n, i>> \in FileNames => File(n, i)' = File(n, i)
    BY <1>5, WritesSomeInv
  <1>7. /\ ReplacementsFit' /\ unnoticed \subseteq unnoticed' /\ UNCHANGED replacements
    BY <1>2, ScriptFacts, OthersStayFacts
  <1>8. /\ File("draft", l)' = Absent
        /\ \A i \in Lines \ {l} : File("draft", i)' = File("draft", i)
                                  /\ File("public", i)' = File("public", i)
    BY <1>5, <1>6, NamesFacts DEF PerLine, File
  <1>9. /\ \A i \in Lines : /\ File("lock", i)' = File("lock", i)
                            /\ File("promoted", i)' = File("promoted", i)
                            /\ File("approval", i)' = File("approval", i)
                            /\ File("report", i)' = File("report", i)
                            /\ File("bundle", i)' = File("bundle", i)
        /\ File("media", "rc4")' = File("media", "rc4")
        /\ File("matrix", "rc4")' = File("matrix", "rc4")
        /\ File("rebound", "rc4")' = File("rebound", "rc4")
        /\ File("secret", "rc4")' = File("secret", "rc4")
        /\ File("enrollment", "rc4")' = File("enrollment", "rc4")
    <2>1. /\ \A m \in PerLine \ ns : \A i \in Lines : File(m, i)' = File(m, i)
          /\ \A m \in Once \ ns : File(m, "rc4")' = File(m, "rc4")
      BY <1>6, KeepsFacts
    <2> QED
      BY <2>1 DEF PerLine, Once
  <1>10. FilesThere'
    <2>1. FilesThere
      BY ScriptFacts
    <2> QED
      BY <1>2, <1>8, <1>9, <2>1 DEF FilesThere, There, Lines
  <1>11. EnrolledAuthority'
    <2>1. EnrolledAuthority
      BY ScriptFacts
    <2>2. Replaced("enrollment", "rc4") => Replaced("enrollment", "rc4")'
      BY <1>7, ExcusesStay
    <2> QED
      BY <1>7, <1>8, <1>9, <2>1, <2>2 DEF EnrolledAuthority, There
  <1>12. DiskFits'
    <2> HIDE DEF ns
    <2>1. /\ "report" \notin ns /\ "approval" \notin ns /\ "promoted" \notin ns /\ "lock" \notin ns
          /\ "bundle" \notin ns /\ "media" \notin ns /\ "rebound" \notin ns
          /\ "secret" \notin ns /\ "enrollment" \notin ns
      BY DEF ns
    <2> QED
      BY <1>6, <1>7, <1>10, <1>11, <2>1, RestStays DEF DiskFits
  <1>13. ScriptFits(j)'
    <2>1. DraftFits(j)'
      <3>1. Unbuilt(l) => Unbuilt(l)'
        BY <1>7, ExcusesStay
      <3> QED
        BY <1>2, <1>3, <1>4, <1>9, <3>1 DEF DraftFits, There
    <2> QED
      BY <1>4, <2>1
         DEF ScriptFits, StageFits, EnrollFits, PromoteFits, SignFits, ImportFits, RebindFits
  <1> QED
    BY <1>2, <1>4, <1>7, <1>12, <1>13, BecomesInv

\* copies the public key it matched
LEMMA CopyAuthorityInv == SigningInv /\ CopyAuthority => SigningInv'
  <1> SUFFICES ASSUME SigningInv, CopyAuthority PROVE SigningInv'
    OBVIOUS
  <1>1. PICK k \in ScriptType : k = script
    BY ScriptFacts
  <1>2. k.name = "draft" /\ ScriptFits(k) /\ DraftFits(k) /\ k.line \in Lines /\ k.at = 3
    BY <1>1, ScriptFacts, OnlyFits DEF CopyAuthority, At, ScriptType
  <1>3. PICK v : v = File("derived", "rc4")
    OBVIOUS
  <1>4. Leaves("public", k.line, v) /\ OthersStay
    BY <1>1, <1>3 DEF CopyAuthority, The, File
  <1>5. v \in SigningKeys /\ v # Absent
    <2>1. File("derived", "rc4") \in SigningKeys \cup {Absent}
      BY ScriptFacts, DiskTypes
    <2> QED
      BY <1>2, <1>3, <2>1 DEF DraftFits, There
  <1>6. /\ "public" \in PerLine /\ <<"public", k.line>> \in FileNames
        /\ v \in Contents(<<"public", k.line>>) \cup {Absent}
    BY <1>2, <1>5, NamesFacts, ContentsFacts DEF PerLine
  <1>7. /\ DiskTyped' /\ ReplacementsFit' /\ unnoticed \subseteq unnoticed'
        /\ UNCHANGED replacements /\ KeepsBut({"public"})
        /\ File("public", k.line)' = v
        /\ \A i \in Lines \ {k.line} : <<"public", i>> \in FileNames =>
              File("public", i)' = File("public", i)
    BY <1>2, <1>4, <1>6, WritesInv
  <1>8. \A i \in Lines \ {k.line} : File("public", i)' = File("public", i)
    BY <1>7, NamesFacts DEF PerLine
  <1>9. /\ \A i \in Lines : /\ File("lock", i)' = File("lock", i)
                            /\ File("promoted", i)' = File("promoted", i)
                            /\ File("approval", i)' = File("approval", i)
                            /\ File("report", i)' = File("report", i)
                            /\ File("draft", i)' = File("draft", i)
                            /\ File("bundle", i)' = File("bundle", i)
        /\ File("media", "rc4")' = File("media", "rc4")
        /\ File("matrix", "rc4")' = File("matrix", "rc4")
        /\ File("rebound", "rc4")' = File("rebound", "rc4")
        /\ File("secret", "rc4")' = File("secret", "rc4")
        /\ File("derived", "rc4")' = File("derived", "rc4")
        /\ File("enrollment", "rc4")' = File("enrollment", "rc4")
    <2>1. /\ \A m \in PerLine \ {"public"} : \A i \in Lines : File(m, i)' = File(m, i)
          /\ \A m \in Once \ {"public"} : File(m, "rc4")' = File(m, "rc4")
      BY <1>7, KeepsFacts
    <2> QED
      BY <2>1 DEF PerLine, Once
  <1>10. FilesThere'
    <2>1. FilesThere
      BY ScriptFacts
    <2> QED
      BY <1>5, <1>7, <1>8, <1>9, <2>1 DEF FilesThere, There, Lines
  <1>11. DiskFits'
    BY <1>7, <1>10, RestStays DEF DiskFits
  <1>12. CASE The("derived") = script.key
    <2> DEFINE j == [k EXCEPT !.at = k.at + 1]
    <2>1. /\ j \in ScriptType /\ j.name = "draft" /\ j.line = k.line /\ j.at = 4
          /\ j.art = k.art /\ j.key = k.key
      BY <1>2 DEF ScriptType
    <2>2. script' = j
      BY <1>1, <1>12 DEF CopyAuthority, Proceeds
    <2> HIDE DEF j
    <2>3. DraftFits(j)'
      <3>1. /\ Unbuilt(k.line) => Unbuilt(k.line)'
            /\ Replaced("enrollment", "rc4") => Replaced("enrollment", "rc4")'
        BY <1>7, ExcusesStay
      <3> QED
        BY <1>2, <1>5, <1>7, <1>9, <2>1, <3>1 DEF DraftFits, There
    <2>4. ScriptFits(j)'
      BY <2>1, <2>3
         DEF ScriptFits, StageFits, EnrollFits, PromoteFits, SignFits, ImportFits, RebindFits
    <2> QED
      BY <1>7, <1>11, <2>1, <2>2, <2>4, BecomesInv
  <1>13. CASE The("derived") # script.key
    <2>1. script' = NoScript
      BY <1>13 DEF CopyAuthority, Proceeds
    <2> QED
      BY <1>7, <1>11, <2>1, EndsInv
  <1> QED
    BY <1>12, <1>13

\* and names what it hashed.
LEMMA WriteDraftInv == SigningInv /\ WriteDraft => SigningInv'
  <1> SUFFICES ASSUME SigningInv, WriteDraft PROVE SigningInv'
    OBVIOUS
  <1>1. PICK k \in ScriptType : k = script
    BY ScriptFacts
  <1>2. k.name = "draft" /\ DraftFits(k) /\ k.line \in Lines /\ k.at = 4
    BY <1>1, ScriptFacts, OnlyFits DEF WriteDraft, At, ScriptType
  <1>3. PICK v : v = [art |-> k.art, key |-> k.key]
    OBVIOUS
  <1>4. script' = NoScript /\ Leaves("draft", k.line, v) /\ OthersStay
    BY <1>1, <1>3 DEF WriteDraft
  <1>5. v \in Locks /\ v # Absent /\ v.key = k.key
    BY <1>2, <1>3, AbsentFacts DEF Locks, DraftFits
  <1>6. /\ "draft" \in PerLine /\ <<"draft", k.line>> \in FileNames
        /\ v \in Contents(<<"draft", k.line>>) \cup {Absent}
    BY <1>2, <1>5, NamesFacts, ContentsFacts DEF PerLine
  <1>7. /\ DiskTyped' /\ ReplacementsFit' /\ unnoticed \subseteq unnoticed'
        /\ UNCHANGED replacements /\ KeepsBut({"draft"})
        /\ File("draft", k.line)' = v
        /\ \A i \in Lines \ {k.line} : <<"draft", i>> \in FileNames =>
              File("draft", i)' = File("draft", i)
    BY <1>2, <1>4, <1>6, WritesInv
  <1>8. \A i \in Lines \ {k.line} : File("draft", i)' = File("draft", i)
    BY <1>7, NamesFacts DEF PerLine
  <1>9. /\ \A i \in Lines : /\ File("lock", i)' = File("lock", i)
                            /\ File("promoted", i)' = File("promoted", i)
                            /\ File("approval", i)' = File("approval", i)
                            /\ File("report", i)' = File("report", i)
                            /\ File("public", i)' = File("public", i)
                            /\ File("bundle", i)' = File("bundle", i)
        /\ File("media", "rc4")' = File("media", "rc4")
        /\ File("matrix", "rc4")' = File("matrix", "rc4")
        /\ File("rebound", "rc4")' = File("rebound", "rc4")
        /\ File("secret", "rc4")' = File("secret", "rc4")
        /\ File("enrollment", "rc4")' = File("enrollment", "rc4")
    <2>1. /\ \A m \in PerLine \ {"draft"} : \A i \in Lines : File(m, i)' = File(m, i)
          /\ \A m \in Once \ {"draft"} : File(m, "rc4")' = File(m, "rc4")
      BY <1>7, KeepsFacts
    <2> QED
      BY <2>1 DEF PerLine, Once
  <1>10. FilesThere'
    <2>1. FilesThere
      BY ScriptFacts
    <2> QED
      BY <1>2, <1>5, <1>7, <1>8, <1>9, <2>1 DEF FilesThere, There, Lines, DraftFits
  <1>11. EnrolledAuthority'
    <2>1. EnrolledAuthority
      BY ScriptFacts
    <2>2. Replaced("enrollment", "rc4") => Replaced("enrollment", "rc4")'
      BY <1>7, ExcusesStay
    <2>3. replacements.of \notin DraftsOf /\ ~Replaced("enrollment", "rc4") =>
             v.key = File("enrollment", "rc4")
      BY <1>2, <1>5 DEF DraftFits
    <2> QED
      BY <1>7, <1>8, <1>9, <2>1, <2>2, <2>3 DEF EnrolledAuthority, There
  <1>12. DiskFits'
    BY <1>7, <1>10, <1>11, RestStays DEF DiskFits
  <1> QED
    BY <1>4, <1>7, <1>12, EndsInv


\* A lock names a draft and its key, and so does a human who approves of it.
LEMMA ApproveInv == ASSUME SigningInv, NEW l \in Lines, Approve(l) PROVE SigningInv'
  <1>1. PICK d, r, e, p : /\ d = File("draft", l) /\ r = File("report", l)
                          /\ e = File("enrollment", "rc4") /\ p = File("public", l)
    OBVIOUS
  <1>2. PICK v : v = [draft |-> d, public |-> p]
    OBVIOUS
  <1>3. PICK k \in ScriptType : k = script /\ ScriptFits(k)
    BY ScriptFacts
  <1>4. /\ d # Absent /\ ~There("promoted", l) /\ k.name # "promote" /\ script' = k
        /\ d = [art |-> r, key |-> e] /\ Leaves("approval", l, v) /\ OthersStay
    BY <1>1, <1>2, <1>3 DEF Approve, Here, There, The, File
  <1>5. /\ d \in Locks /\ p \in SigningKeys /\ r \in Origins /\ e \in SigningKeys
        /\ d.art = r /\ d.key = e /\ r # Absent /\ e # Absent
    <2>1. /\ File("draft", l) \in Locks \cup {Absent}
          /\ File("public", l) \in SigningKeys \cup {Absent}
          /\ There("draft", l) => There("public", l)
      BY ScriptFacts, DiskTypes DEF FilesThere
    <2>2. d \in Locks /\ p \in SigningKeys
      BY <1>1, <1>4, <2>1 DEF There
    <2>3. d.art = r /\ d.key = e
      BY <1>4
    <2> QED
      BY <2>2, <2>3, AbsentFacts DEF Locks
  <1>6. v \in [draft : Locks, public : SigningKeys] /\ v.draft = d /\ v # Absent
    BY <1>2, <1>5, AbsentFacts
  <1>7. /\ "approval" \in PerLine /\ <<"approval", l>> \in FileNames
        /\ v \in Contents(<<"approval", l>>) \cup {Absent}
    BY <1>6, NamesFacts, ContentsFacts DEF PerLine
  <1>8. /\ DiskTyped' /\ ReplacementsFit' /\ unnoticed \subseteq unnoticed'
       /\ UNCHANGED replacements /\ KeepsBut({"approval"})
       /\ File("approval", l)' = v
       /\ \A i \in Lines \ {l} : <<"approval", i>> \in FileNames =>
             File("approval", i)' = File("approval", i)
    BY <1>4, <1>7, WritesInv
  <1>9. \A i \in Lines \ {l} : File("approval", i)' = File("approval", i)
    BY <1>8, NamesFacts DEF PerLine
  <1>10. /\ \A i \in Lines : /\ File("lock", i)' = File("lock", i)
                             /\ File("promoted", i)' = File("promoted", i)
                             /\ File("report", i)' = File("report", i)
                             /\ File("draft", i)' = File("draft", i)
                             /\ File("public", i)' = File("public", i)
                             /\ File("bundle", i)' = File("bundle", i)
         /\ File("media", "rc4")' = File("media", "rc4")
         /\ File("matrix", "rc4")' = File("matrix", "rc4")
         /\ File("rebound", "rc4")' = File("rebound", "rc4")
         /\ File("secret", "rc4")' = File("secret", "rc4")
         /\ File("enrollment", "rc4")' = File("enrollment", "rc4")
    <2>1. /\ \A m \in PerLine \ {"approval"} : \A i \in Lines : File(m, i)' = File(m, i)
          /\ \A m \in Once \ {"approval"} : File(m, "rc4")' = File(m, "rc4")
      BY <1>8, KeepsFacts
    <2> QED
      BY <2>1 DEF PerLine, Once
  <1>11. FilesThere'
    <2>1. FilesThere
      BY ScriptFacts
    <2> QED
      BY <1>6, <1>8, <1>9, <1>10, <2>1 DEF FilesThere, There, Lines
  <1>12. ASSUME NEW i \in Lines PROVE BuiltOf(i)' /\ ReviewedOf(i)'
    <2>1. BuiltOf(i) /\ ReviewedOf(i) /\ FilesThere /\ BuiltOf(l)
      BY ScriptFacts
    <2>2. /\ Unbuilt(i) => Unbuilt(i)'
          /\ Replaced("draft", i) => Replaced("draft", i)'
      BY <1>8, ExcusesStay
    <2>3. CASE i = l
      <3>1. r = "right" \/ Unbuilt(i)
        BY <1>1, <1>5, <2>1, <2>3 DEF BuiltOf, There
      <3>2. BuiltOf(i)'
        BY <1>1, <1>5, <1>6, <1>8, <1>10, <2>2, <2>3, <3>1 DEF BuiltOf, There
      <3>3. ~There("lock", i) /\ ~There("promoted", i)
        BY <1>4, <2>1, <2>3 DEF FilesThere
      <3>4. ReviewedOf(i)'
        BY <1>10, <3>3 DEF ReviewedOf, There
      <3> QED
        BY <3>2, <3>4
    <2>4. CASE i # l
      <3>1. File("approval", i)' = File("approval", i)
        BY <1>9, <2>4
      <3>2. BuiltOf(i)'
        BY <1>10, <2>1, <2>2, <3>1 DEF BuiltOf, There
      <3>3. ReviewedOf(i)'
        BY <1>10, <2>1, <2>2, <3>1 DEF ReviewedOf, There
      <3> QED
        BY <3>2, <3>3
    <2> QED
      BY <2>3, <2>4
  <1>13. FirstAuthority'
    <2>1. FirstAuthority
      BY ScriptFacts
    <2> QED
      BY <1>1, <1>5, <1>6, <1>8, <1>9, <1>10, <2>1 DEF FirstAuthority, There
  <1>14. DiskFits'
    BY <1>8, <1>11, <1>12, <1>13, RestStays DEF DiskFits
  <1>15. ScriptFits(k)'
    <2>1. PromoteFits(k)'
      BY <1>4 DEF PromoteFits
    <2> QED
      BY <1>3, <1>8, <2>1, FitsStay DEF ScriptFits
  <1> QED
    BY <1>3, <1>4, <1>8, <1>14, <1>15, BecomesInv

\* The promoted lock is the reviewed draft unless that was replaced,
LEMMA WriteLockInv == SigningInv /\ WriteLock => SigningInv'
  <1> SUFFICES ASSUME SigningInv, WriteLock PROVE SigningInv'
    OBVIOUS
  <1>1. PICK k \in ScriptType : k = script
    BY ScriptFacts
  <1>2. k.name = "promote" /\ PromoteFits(k) /\ k.line \in Lines /\ k.at = 3
    BY <1>1, ScriptFacts, OnlyFits DEF WriteLock, At, ScriptType
  <1>3. script' = NoScript /\ OthersStay
    BY DEF WriteLock
  <1>4. CASE Of("public") # Of("approval").public
    <2>1. Reads
      BY <1>3, <1>4 DEF WriteLock, Reads
    <2> QED
      BY <1>3, <2>1, ReadsInv, NoScriptFacts, NoScriptFits
  <1>5. CASE Of("public") = Of("approval").public
    <2>1. PICK v : v = k.draft
      OBVIOUS
    <2>2. Leaves("promoted", k.line, v)
      BY <1>1, <1>5, <2>1 DEF WriteLock
    <2>3. v \in Locks /\ v # Absent
      BY <1>2, <2>1, AbsentFacts DEF PromoteFits
    <2>4. /\ "promoted" \in PerLine /\ <<"promoted", k.line>> \in FileNames
          /\ v \in Contents(<<"promoted", k.line>>) \cup {Absent}
      BY <1>2, <2>3, NamesFacts, ContentsFacts DEF PerLine
    <2>5. /\ DiskTyped' /\ ReplacementsFit' /\ unnoticed \subseteq unnoticed'
          /\ UNCHANGED replacements /\ KeepsBut({"promoted"})
          /\ File("promoted", k.line)' = v
          /\ \A i \in Lines \ {k.line} : <<"promoted", i>> \in FileNames =>
                File("promoted", i)' = File("promoted", i)
      BY <1>2, <1>3, <2>2, <2>4, WritesInv
    <2>6. \A i \in Lines \ {k.line} : File("promoted", i)' = File("promoted", i)
      BY <2>5, NamesFacts DEF PerLine
    <2>7. /\ \A i \in Lines : /\ File("lock", i)' = File("lock", i)
                              /\ File("approval", i)' = File("approval", i)
                              /\ File("report", i)' = File("report", i)
                              /\ File("draft", i)' = File("draft", i)
                              /\ File("public", i)' = File("public", i)
                              /\ File("bundle", i)' = File("bundle", i)
          /\ File("media", "rc4")' = File("media", "rc4")
          /\ File("matrix", "rc4")' = File("matrix", "rc4")
          /\ File("rebound", "rc4")' = File("rebound", "rc4")
          /\ File("secret", "rc4")' = File("secret", "rc4")
          /\ File("enrollment", "rc4")' = File("enrollment", "rc4")
      <3>1. /\ \A m \in PerLine \ {"promoted"} : \A i \in Lines : File(m, i)' = File(m, i)
            /\ \A m \in Once \ {"promoted"} : File(m, "rc4")' = File(m, "rc4")
        BY <2>5, KeepsFacts
      <3> QED
        BY <3>1 DEF PerLine, Once
    <2>8. FilesThere'
      <3>1. FilesThere
        BY ScriptFacts
      <3> QED
        BY <1>2, <2>3, <2>5, <2>6, <2>7, <3>1 DEF FilesThere, There, Lines, PromoteFits
    <2>9. ASSUME NEW i \in Lines PROVE ReviewedOf(i)'
      <3>1. ReviewedOf(i) /\ (Replaced("draft", i) => Replaced("draft", i)')
        BY <2>5, ScriptFacts, ExcusesStay
      <3>2. i = k.line => v = File("approval", i).draft \/ Replaced("draft", i)
        BY <1>2, <2>1 DEF PromoteFits
      <3>3. CASE i = k.line
        BY <2>5, <2>7, <3>1, <3>2, <3>3 DEF ReviewedOf, There
      <3>4. CASE i # k.line
        BY <2>6, <2>7, <3>1, <3>4 DEF ReviewedOf, There
      <3> QED
        BY <3>3, <3>4
    <2>10. EnrolledAuthority'
      <3>1. EnrolledAuthority
        BY ScriptFacts
      <3>2. Replaced("enrollment", "rc4") => Replaced("enrollment", "rc4")'
        BY <2>5, ExcusesStay
      <3>3. replacements.of \notin DraftsOf /\ ~Replaced("enrollment", "rc4") =>
               v.key = File("enrollment", "rc4")
        BY <1>2, <2>1 DEF PromoteFits
      <3> QED
        BY <2>5, <2>6, <2>7, <3>1, <3>2, <3>3 DEF EnrolledAuthority, There
    <2>11. DiskFits'
      BY <2>5, <2>8, <2>9, <2>10, RestStays DEF DiskFits
    <2> QED
      BY <1>3, <2>5, <2>11, EndsInv
  <1> QED
    BY <1>4, <1>5

\* and is committed as it is.
LEMMA CommitLockInv == ASSUME SigningInv, NEW l \in Lines, CommitLock(l) PROVE SigningInv'
  <1>1. PICK v : v = File("promoted", l)
    OBVIOUS
  <1>2. PICK k \in ScriptType : k = script /\ ScriptFits(k)
    BY ScriptFacts
  <1>3. /\ There("promoted", l) /\ ~There("lock", l) /\ script' = k
        /\ Leaves("lock", l, v) /\ OthersStay
    BY <1>1, <1>2 DEF CommitLock, Here, There, File
  <1>4. v \in Locks /\ v # Absent
    <2>1. File("promoted", l) \in Locks \cup {Absent}
      BY ScriptFacts, DiskTypes
    <2> QED
      BY <1>1, <1>3, <2>1 DEF There
  <1>5. /\ "lock" \in PerLine /\ <<"lock", l>> \in FileNames
        /\ v \in Contents(<<"lock", l>>) \cup {Absent}
    BY <1>4, NamesFacts, ContentsFacts DEF PerLine
  <1>6. /\ DiskTyped' /\ ReplacementsFit' /\ unnoticed \subseteq unnoticed'
       /\ UNCHANGED replacements /\ KeepsBut({"lock"})
       /\ File("lock", l)' = v
       /\ \A i \in Lines \ {l} : <<"lock", i>> \in FileNames =>
             File("lock", i)' = File("lock", i)
    BY <1>3, <1>5, WritesInv
  <1>7. \A i \in Lines \ {l} : File("lock", i)' = File("lock", i)
    BY <1>6, NamesFacts DEF PerLine
  <1>8. /\ \A i \in Lines : /\ File("promoted", i)' = File("promoted", i)
                            /\ File("approval", i)' = File("approval", i)
                            /\ File("report", i)' = File("report", i)
                            /\ File("draft", i)' = File("draft", i)
                            /\ File("public", i)' = File("public", i)
                            /\ File("bundle", i)' = File("bundle", i)
        /\ File("media", "rc4")' = File("media", "rc4")
        /\ File("matrix", "rc4")' = File("matrix", "rc4")
        /\ File("rebound", "rc4")' = File("rebound", "rc4")
        /\ File("secret", "rc4")' = File("secret", "rc4")
        /\ File("enrollment", "rc4")' = File("enrollment", "rc4")
    <2>1. /\ \A m \in PerLine \ {"lock"} : \A i \in Lines : File(m, i)' = File(m, i)
          /\ \A m \in Once \ {"lock"} : File(m, "rc4")' = File(m, "rc4")
      BY <1>6, KeepsFacts
    <2> QED
      BY <2>1 DEF PerLine, Once
  <1>9. FilesThere
    BY ScriptFacts
  <1>10. FilesThere'
    BY <1>1, <1>3, <1>4, <1>6, <1>7, <1>8, <1>9 DEF FilesThere, There, Lines
  <1>11. ASSUME NEW i \in Lines PROVE ReviewedOf(i)' /\ SignedOf(i)'
    <2>1. /\ ReviewedOf(i) /\ SignedOf(i)
          /\ Replaced("draft", i) => Replaced("draft", i)'
          /\ Replaced("bundle", i) => Replaced("bundle", i)'
          /\ ReplacedDuring("artifacts", i, "sign") => ReplacedDuring("artifacts", i, "sign")'
      BY <1>6, ScriptFacts, ExcusesStay
    <2>2. CASE i = l
      <3>1. ReviewedOf(i)'
        BY <1>1, <1>3, <1>6, <1>8, <2>1, <2>2 DEF ReviewedOf, There
      <3>2. ~There("bundle", i)
        BY <1>3, <1>9, <2>2 DEF FilesThere
      <3>3. SignedOf(i)'
        BY <1>8, <3>2 DEF SignedOf, There
      <3> QED
        BY <3>1, <3>3
    <2>3. CASE i # l
      <3>1. ReviewedOf(i)'
        BY <1>7, <1>8, <2>1, <2>3 DEF ReviewedOf, There
      <3>2. SignedOf(i)'
        BY <1>7, <1>8, <2>1, <2>3 DEF SignedOf, There
      <3> QED
        BY <3>1, <3>2
    <2> QED
      BY <2>2, <2>3
  <1>12. ImportedIsLocked'
    <2>1. /\ ImportedIsLocked
          /\ ReplacedDuring("bundle", "rc4", "import") => ReplacedDuring("bundle", "rc4", "import")'
      BY <1>6, ScriptFacts, ExcusesStay
    <2>2. CASE l = "rc4"
      <3>1. ~There("media", "rc4")
        BY <1>3, <1>9, <2>2 DEF FilesThere
      <3> QED
        BY <1>8, <3>1 DEF ImportedIsLocked, There, The, File
    <2>3. CASE l # "rc4"
      <3>1. File("lock", "rc4")' = File("lock", "rc4")
        BY <1>7, <2>3 DEF Lines
      <3> QED
        BY <1>8, <2>1, <3>1 DEF ImportedIsLocked, The, File
    <2> QED
      BY <2>2, <2>3
  <1>13. ReboundIsSigned'
    <2>1. /\ ReboundIsSigned
          /\ Replaced("matrix", "rc4") => Replaced("matrix", "rc4")'
          /\ Replaced("bundle", "final") => Replaced("bundle", "final")'
          /\ ReplacedDuring("artifacts", "final", "sign") =>
                ReplacedDuring("artifacts", "final", "sign")'
      BY <1>6, ScriptFacts, ExcusesStay
    <2>2. CASE l = "final"
      <3>1. ~There("rebound", "rc4")
        BY <1>3, <1>9, <2>2 DEF FilesThere
      <3> QED
        BY <1>8, <3>1 DEF ReboundIsSigned, There, The, File
    <2>3. CASE l # "final"
      <3>1. File("lock", "final")' = File("lock", "final")
        BY <1>7, <2>3 DEF Lines
      <3> QED
        BY <1>8, <2>1, <3>1 DEF ReboundIsSigned, The, File
    <2> QED
      BY <2>2, <2>3
  <1>14. EnrolledAuthority'
    <2>1. EnrolledAuthority
      BY ScriptFacts
    <2>2. Replaced("enrollment", "rc4") => Replaced("enrollment", "rc4")'
      BY <1>6, ExcusesStay
    <2> QED
      BY <1>1, <1>3, <1>6, <1>7, <1>8, <2>1, <2>2 DEF EnrolledAuthority, There
  <1>15. DiskFits'
    BY <1>6, <1>10, <1>11, <1>12, <1>13, <1>14, RestStays DEF DiskFits
  <1>16. ScriptFits(k)'
    <2>1. SignFits(k)'
      <3>1. CASE k.name = "sign"
        <4>1. SignFits(k) /\ k.line \in Lines \ {l} /\ There("lock", k.line)
          BY <1>2, <1>3, <3>1 DEF ScriptFits, SignFits, ScriptType
        <4>2. File("lock", k.line)' = File("lock", k.line)
          BY <1>7, <4>1
        <4>3. File("artifacts", k.line)' = File("artifacts", k.line)
          <5>1. \A m \in PerLine \ {"lock"} : \A i \in Lines : File(m, i)' = File(m, i)
            BY <1>6, KeepsFacts
          <5> QED
            BY <5>1, <4>1 DEF PerLine
        <4>4. ReplacedDuring("artifacts", k.line, "sign") =>
                 ReplacedDuring("artifacts", k.line, "sign")'
          BY <1>6, ExcusesStay
        <4> QED
          BY <4>1, <4>2, <4>3, <4>4 DEF SignFits, There
      <3>2. CASE k.name # "sign"
        BY <3>2 DEF SignFits
      <3> QED
        BY <3>1, <3>2
    <2>2. ImportFits(k)'
      <3>1. CASE k.name = "import"
        <4>1. ImportFits(k) /\ l # "rc4"
          BY <1>2, <1>3, <3>1 DEF ScriptFits, ImportFits
        <4>2. File("lock", "rc4")' = File("lock", "rc4")
          BY <1>7, <4>1 DEF Lines
        <4>3. File("bundle", "rc4")' = File("bundle", "rc4")
          BY <1>8 DEF Lines
        <4>4. ReplacedDuring("bundle", "rc4", "import") =>
                 ReplacedDuring("bundle", "rc4", "import")'
          BY <1>6, ExcusesStay
        <4> QED
          BY <4>1, <4>2, <4>3, <4>4 DEF ImportFits, There
      <3>2. CASE k.name # "import"
        BY <3>2 DEF ImportFits
      <3> QED
        BY <3>1, <3>2
    <2> QED
      BY <1>2, <1>6, <2>1, <2>2, FitsStay DEF ScriptFits
  <1> QED
    BY <1>2, <1>3, <1>6, <1>15, <1>16, BecomesInv


\* What is published is signed by the key of the lock and lists its own artifacts.
LEMMA PublishSignedInv == SigningInv /\ PublishSigned => SigningInv'
  <1> SUFFICES ASSUME SigningInv, PublishSigned PROVE SigningInv'
    OBVIOUS
  <1>1. PICK k \in ScriptType : k = script
    BY ScriptFacts
  <1>2. k.name = "sign" /\ SignFits(k) /\ k.line \in Lines /\ k.at = 6
    BY <1>1, ScriptFacts, OnlyFits DEF PublishSigned, At, ScriptType
  <1>3. script' = NoScript /\ OthersStay
    BY DEF PublishSigned
  <1>4. CASE ~ManifestHolds
    <2>1. Reads
      BY <1>3, <1>4 DEF PublishSigned, Reads
    <2> QED
      BY <1>3, <2>1, ReadsInv, NoScriptFacts, NoScriptFits
  <1>5. CASE ManifestHolds
    <2>1. PICK key : key = File("lock", k.line).key
      OBVIOUS
    <2>2. PICK v : v = [art |-> k.art, listed |-> k.art, by |-> k.key, key |-> key]
      OBVIOUS
    <2>3. Leaves("bundle", k.line, v) /\ k.key = key
      BY <1>1, <1>5, <2>1, <2>2 DEF PublishSigned, ManifestHolds, Of, File
    <2>4. key \in SigningKeys /\ There("lock", k.line)
      <3>1. File("lock", k.line) \in Locks \cup {Absent}
        BY <1>2, ScriptFacts, DiskTypes
      <3> QED
        BY <1>2, <2>1, <3>1 DEF SignFits, There, Locks
    <2>5. /\ v \in Signed /\ v # Absent
          /\ v.by = key /\ v.art = k.art /\ v.listed = k.art
      BY <1>2, <2>2, <2>3, <2>4, AbsentFacts DEF SignFits, Signed
    <2>6. /\ "bundle" \in PerLine /\ <<"bundle", k.line>> \in FileNames
          /\ v \in Contents(<<"bundle", k.line>>) \cup {Absent}
      BY <1>2, <2>5, NamesFacts, ContentsFacts DEF PerLine
    <2>7. /\ DiskTyped' /\ ReplacementsFit' /\ unnoticed \subseteq unnoticed'
          /\ UNCHANGED replacements /\ KeepsBut({"bundle"})
          /\ File("bundle", k.line)' = v
          /\ \A i \in Lines \ {k.line} : <<"bundle", i>> \in FileNames =>
                File("bundle", i)' = File("bundle", i)
      BY <1>2, <1>3, <2>3, <2>6, WritesInv
    <2>8. \A i \in Lines \ {k.line} : File("bundle", i)' = File("bundle", i)
      BY <2>7, NamesFacts DEF PerLine
    <2>9. /\ \A i \in Lines : /\ File("lock", i)' = File("lock", i)
                              /\ File("promoted", i)' = File("promoted", i)
                              /\ File("approval", i)' = File("approval", i)
                              /\ File("report", i)' = File("report", i)
                              /\ File("draft", i)' = File("draft", i)
                              /\ File("public", i)' = File("public", i)
          /\ File("media", "rc4")' = File("media", "rc4")
          /\ File("matrix", "rc4")' = File("matrix", "rc4")
          /\ File("rebound", "rc4")' = File("rebound", "rc4")
          /\ File("secret", "rc4")' = File("secret", "rc4")
          /\ File("enrollment", "rc4")' = File("enrollment", "rc4")
      <3>1. /\ \A m \in PerLine \ {"bundle"} : \A i \in Lines : File(m, i)' = File(m, i)
            /\ \A m \in Once \ {"bundle"} : File(m, "rc4")' = File(m, "rc4")
        BY <2>7, KeepsFacts
      <3> QED
        BY <3>1 DEF PerLine, Once
    <2>10. FilesThere'
      <3>1. FilesThere
        BY ScriptFacts
      <3> QED
        BY <2>4, <2>5, <2>7, <2>8, <2>9, <3>1 DEF FilesThere, There, Lines
    <2>11. ASSUME NEW i \in Lines PROVE SignedOf(i)'
      <3>1. /\ SignedOf(i) /\ (Replaced("bundle", i) => Replaced("bundle", i)')
            /\ ReplacedDuring("artifacts", i, "sign") => ReplacedDuring("artifacts", i, "sign")'
        BY <2>7, ScriptFacts, ExcusesStay
      <3>2. CASE i = k.line
        <4>1. k.art = File("lock", i).art \/ ReplacedDuring("artifacts", i, "sign")
          BY <1>2, <3>2 DEF SignFits
        <4> QED
          BY <2>1, <2>5, <2>7, <2>9, <3>1, <3>2, <4>1 DEF SignedOf, There
      <3>3. CASE i # k.line
        BY <2>8, <2>9, <3>1, <3>3 DEF SignedOf, There
      <3> QED
        BY <3>2, <3>3
    <2>12. DiskFits'
      BY <2>7, <2>10, <2>11, RestStays DEF DiskFits
    <2> QED
      BY <1>3, <2>7, <2>12, EndsInv
  <1> QED
    BY <1>4, <1>5

\* The media are a copy of the bundle that was verified, unless that was replaced.
LEMMA CopyBundleInv == SigningInv /\ CopyBundle => SigningInv'
  <1> SUFFICES ASSUME SigningInv, CopyBundle PROVE SigningInv'
    OBVIOUS
  <1>1. PICK v : v = File("bundle", "rc4")
    OBVIOUS
  <1>2. script.name = "import" /\ ImportFits(script) /\ script.at = 2
    BY ScriptFacts DEF CopyBundle, At, ScriptFits
  <1>3. script' = NoScript /\ Leaves("media", "rc4", v) /\ OthersStay
    BY <1>1 DEF CopyBundle, The, File
  <1>4. v \in Signed /\ v # Absent /\ There("lock", "rc4") /\ "rc4" \in Lines
    <2>1. File("bundle", "rc4") \in Signed \cup {Absent} /\ "rc4" \in Lines
      BY ScriptFacts, DiskTypes, NamesFacts
    <2> QED
      BY <1>1, <1>2, <2>1 DEF ImportFits, There
  <1>5. /\ "media" \in Once /\ <<"media", "rc4">> \in FileNames
        /\ v \in Contents(<<"media", "rc4">>) \cup {Absent}
    BY <1>4, NamesFacts, ContentsFacts DEF Once
  <1>6. /\ DiskTyped' /\ ReplacementsFit' /\ unnoticed \subseteq unnoticed'
        /\ UNCHANGED replacements /\ KeepsBut({"media"})
        /\ File("media", "rc4")' = v
    BY <1>3, <1>4, <1>5, WritesInv
  <1>7. /\ \A i \in Lines : /\ File("lock", i)' = File("lock", i)
                            /\ File("promoted", i)' = File("promoted", i)
                            /\ File("approval", i)' = File("approval", i)
                            /\ File("report", i)' = File("report", i)
                            /\ File("draft", i)' = File("draft", i)
                            /\ File("public", i)' = File("public", i)
                            /\ File("bundle", i)' = File("bundle", i)
        /\ File("matrix", "rc4")' = File("matrix", "rc4")
        /\ File("rebound", "rc4")' = File("rebound", "rc4")
        /\ File("secret", "rc4")' = File("secret", "rc4")
        /\ File("enrollment", "rc4")' = File("enrollment", "rc4")
    <2>1. /\ \A m \in PerLine \ {"media"} : \A i \in Lines : File(m, i)' = File(m, i)
          /\ \A m \in Once \ {"media"} : File(m, "rc4")' = File(m, "rc4")
      BY <1>6, KeepsFacts
    <2> QED
      BY <2>1 DEF PerLine, Once
  <1>8. FilesThere'
    <2>1. FilesThere
      BY ScriptFacts
    <2> QED
      BY <1>4, <1>6, <1>7, <2>1 DEF FilesThere, There, Lines
  <1>9. ImportedIsLocked'
    <2>1. File("lock", "rc4")' = File("lock", "rc4")
      BY <1>4, <1>7
    <2>2. ReplacedDuring("bundle", "rc4", "import") => ReplacedDuring("bundle", "rc4", "import")'
      BY <1>6, ExcusesStay
    <2>3. ~ReplacedDuring("bundle", "rc4", "import") =>
             /\ v.art = File("lock", "rc4").art /\ v.listed = File("lock", "rc4").art
             /\ v.by = File("lock", "rc4").key /\ v.key = File("lock", "rc4").key
      BY <1>1, <1>2 DEF ImportFits
    <2>4. v = [art |-> v.art, listed |-> v.listed, by |-> v.by, key |-> v.key]
      BY <1>4 DEF Signed
    <2> HIDE <1>1
    <2> QED
      BY <1>6, <2>1, <2>2, <2>3, <2>4 DEF ImportedIsLocked, The, File
  <1>10. DiskFits'
    BY <1>6, <1>8, <1>9, RestStays DEF DiskFits
  <1> QED
    BY <1>3, <1>6, <1>10, EndsInv

\* The campaigns run on what was imported.
LEMMA CampaignsRunInv == SigningInv /\ CampaignsRun => SigningInv'
  <1> SUFFICES ASSUME SigningInv, CampaignsRun PROVE SigningInv'
    OBVIOUS
  <1>1. PICK v : v = "right"
    OBVIOUS
  <1>2. PICK k \in ScriptType : k = script /\ ScriptFits(k)
    BY ScriptFacts
  <1>3. /\ There("media", "rc4") /\ ~There("matrix", "rc4") /\ script' = k
        /\ Leaves("matrix", "rc4", v) /\ OthersStay
    BY <1>1, <1>2 DEF CampaignsRun, Here, There, File
  <1>4. v \in Origins /\ v # Absent /\ "rc4" \in Lines
    BY <1>1, AbsentFacts, NamesFacts DEF Origins
  <1>5. /\ "matrix" \in Once /\ <<"matrix", "rc4">> \in FileNames
        /\ v \in Contents(<<"matrix", "rc4">>) \cup {Absent}
    BY <1>4, NamesFacts, ContentsFacts DEF Once
  <1>6. /\ DiskTyped' /\ ReplacementsFit' /\ unnoticed \subseteq unnoticed'
        /\ UNCHANGED replacements /\ KeepsBut({"matrix"})
        /\ File("matrix", "rc4")' = v
    BY <1>3, <1>4, <1>5, WritesInv
  <1>7. /\ \A i \in Lines : /\ File("lock", i)' = File("lock", i)
                            /\ File("promoted", i)' = File("promoted", i)
                            /\ File("approval", i)' = File("approval", i)
                            /\ File("report", i)' = File("report", i)
                            /\ File("draft", i)' = File("draft", i)
                            /\ File("public", i)' = File("public", i)
                            /\ File("bundle", i)' = File("bundle", i)
        /\ File("media", "rc4")' = File("media", "rc4")
        /\ File("rebound", "rc4")' = File("rebound", "rc4")
        /\ File("secret", "rc4")' = File("secret", "rc4")
        /\ File("enrollment", "rc4")' = File("enrollment", "rc4")
    <2>1. /\ \A m \in PerLine \ {"matrix"} : \A i \in Lines : File(m, i)' = File(m, i)
          /\ \A m \in Once \ {"matrix"} : File(m, "rc4")' = File(m, "rc4")
      BY <1>6, KeepsFacts
    <2> QED
      BY <2>1 DEF PerLine, Once
  <1>8. FilesThere'
    <2>1. FilesThere
      BY ScriptFacts
    <2> QED
      BY <1>3, <1>4, <1>6, <1>7, <2>1 DEF FilesThere, There, Lines
  <1>9. DiskFits'
    BY <1>6, <1>8, RestStays DEF DiskFits
  <1>10. ScriptFits(k)'
    <2>1. StageFits(k)'
      <3>1. \A m \in PerLine \ {"matrix"} : \A i \in Lines : File(m, i)' = File(m, i)
        BY <1>6, KeepsFacts
      <3>2. k.name = "stage" => /\ File("checkout", k.line)' = File("checkout", k.line)
                                /\ File("artifacts", k.line)' = File("artifacts", k.line)
                                /\ (Unbuilt(k.line) => Unbuilt(k.line)')
        BY <1>6, <3>1, ExcusesStay DEF PerLine, ScriptType
      <3> QED
        BY <1>2, <1>4, <1>6, <3>2 DEF ScriptFits, StageFits, There
    <2>2. DraftFits(k)'
      <3>1. \A m \in Once \ {"matrix"} : File(m, "rc4")' = File(m, "rc4")
        BY <1>6, KeepsFacts
      <3>2. /\ Unbuilt(k.line) => Unbuilt(k.line)'
            /\ Replaced("enrollment", "rc4") => Replaced("enrollment", "rc4")'
            /\ File("derived", "rc4")' = File("derived", "rc4") /\ k.line \in Lines
        BY <1>6, <3>1, ExcusesStay DEF Once, ScriptType
      <3>3. /\ File("promoted", k.line)' = File("promoted", k.line)
            /\ File("public", k.line)' = File("public", k.line)
        BY <1>7, <3>2
      <3> QED
        BY <1>2, <1>4, <1>6, <1>7, <3>2, <3>3 DEF ScriptFits, DraftFits, There
    <2>3. RebindFits(k)'
      <3>1. k.name # "rebind"
        BY <1>2, <1>3 DEF ScriptFits, RebindFits
      <3> QED
        BY <3>1 DEF RebindFits
    <2> QED
      BY <1>2, <1>6, <2>1, <2>2, <2>3, FitsStay DEF ScriptFits
  <1> QED
    BY <1>2, <1>3, <1>6, <1>9, <1>10, BecomesInv

\* The evidence is bound to the release that its own key verifies.
LEMMA BindEvidenceInv == SigningInv /\ BindEvidence => SigningInv'
  <1> SUFFICES ASSUME SigningInv, BindEvidence PROVE SigningInv'
    OBVIOUS
  <1>1. PICK k \in ScriptType : k = script
    BY ScriptFacts
  <1>2. k.name = "rebind" /\ RebindFits(k) /\ k.at = 4
    BY <1>1, ScriptFacts, OnlyFits DEF BindEvidence, At
  <1>3. script' = NoScript /\ OthersStay
    BY DEF BindEvidence
  <1>4. CASE ~VerifiesItself(Of("bundle"))
    <2>1. Reads
      BY <1>3, <1>4 DEF BindEvidence, Reads
    <2> QED
      BY <1>3, <2>1, ReadsInv, NoScriptFacts, NoScriptFits
  <1>5. CASE VerifiesItself(Of("bundle"))
    <2>1. PICK b : b = File("bundle", "final")
      OBVIOUS
    <2>2. PICK v : v = [campaigns |-> k.art, art |-> b.art, by |-> b.by]
      OBVIOUS
    <2>3. Leaves("rebound", "rc4", v) /\ b.listed = b.art
      BY <1>1, <1>2, <1>5, <2>1, <2>2 DEF BindEvidence, RebindFits, Of, File, VerifiesItself
    <2>4. b \in Signed /\ There("bundle", "final") /\ "final" \in Lines /\ "rc4" \in Lines
      <3>1. "final" \in Lines /\ "rc4" \in Lines
        BY NamesFacts
      <3>2. File("bundle", "final") \in Signed \cup {Absent}
        BY <3>1, ScriptFacts, DiskTypes
      <3> QED
        BY <1>2, <2>1, <3>1, <3>2 DEF RebindFits, There
    <2>5. There("lock", "final")
      BY <2>4, ScriptFacts DEF FilesThere
    <2>6. /\ v \in [campaigns : Origins, art : Origins, by : SigningKeys]
          /\ v.campaigns = k.art /\ v.art = b.art /\ v.by = b.by
      BY <1>2, <2>2, <2>4 DEF RebindFits, Signed
    <2>7. v # Absent
      BY <2>6, AbsentFacts
    <2>8. /\ "rebound" \in Once /\ <<"rebound", "rc4">> \in FileNames
          /\ v \in Contents(<<"rebound", "rc4">>) \cup {Absent}
      BY <2>6, NamesFacts, ContentsFacts DEF Once
    <2>9. /\ DiskTyped' /\ ReplacementsFit' /\ unnoticed \subseteq unnoticed'
          /\ UNCHANGED replacements /\ KeepsBut({"rebound"})
          /\ File("rebound", "rc4")' = v
      BY <1>3, <2>3, <2>4, <2>8, WritesInv
    <2>10. /\ \A i \in Lines : /\ File("lock", i)' = File("lock", i)
                               /\ File("promoted", i)' = File("promoted", i)
                               /\ File("approval", i)' = File("approval", i)
                               /\ File("report", i)' = File("report", i)
                               /\ File("draft", i)' = File("draft", i)
                               /\ File("public", i)' = File("public", i)
                               /\ File("bundle", i)' = File("bundle", i)
           /\ File("media", "rc4")' = File("media", "rc4")
           /\ File("matrix", "rc4")' = File("matrix", "rc4")
           /\ File("secret", "rc4")' = File("secret", "rc4")
           /\ File("enrollment", "rc4")' = File("enrollment", "rc4")
      <3>1. /\ \A m \in PerLine \ {"rebound"} : \A i \in Lines : File(m, i)' = File(m, i)
            /\ \A m \in Once \ {"rebound"} : File(m, "rc4")' = File(m, "rc4")
        BY <2>9, KeepsFacts
      <3> QED
        BY <3>1 DEF PerLine, Once
    <2>11. FilesThere'
      <3>1. FilesThere
        BY ScriptFacts
      <3> QED
        BY <2>5, <2>7, <2>9, <2>10, <3>1 DEF FilesThere, There, Lines
    <2>12. ReboundIsSigned'
      <3>1. File("lock", "final")' = File("lock", "final")
        BY <2>4, <2>10
      <3>2. /\ Replaced("matrix", "rc4") => Replaced("matrix", "rc4")'
            /\ Replaced("bundle", "final") => Replaced("bundle", "final")'
            /\ ReplacedDuring("artifacts", "final", "sign") =>
                  ReplacedDuring("artifacts", "final", "sign")'
        BY <2>9, ExcusesStay
      <3>3. v.campaigns = "right" \/ Replaced("matrix", "rc4")
        BY <1>2, <2>6 DEF RebindFits
      <3>4. \/ Replaced("bundle", "final")
            \/ /\ v.by = File("lock", "final").key
               /\ v.art = File("lock", "final").art \/ ReplacedDuring("artifacts", "final", "sign")
        BY <2>1, <2>3, <2>4, <2>6, ScriptFacts DEF SignedOf
      <3> QED
        BY <2>9, <3>1, <3>2, <3>3, <3>4 DEF ReboundIsSigned, The, File
    <2>13. DiskFits'
      BY <2>9, <2>11, <2>12, RestStays DEF DiskFits
    <2> QED
      BY <1>3, <2>9, <2>13, EndsInv
  <1> QED
    BY <1>4, <1>5

\* What others replace stays there, and some of it is noted as unnoticed.
ReplacedBy(n, l, v, k) ==
    /\ n \in Replaceable /\ n \in PerLine \cup Once /\ l \in Lines /\ <<n, l>> \in FileNames
    /\ n \in Once => l = "rc4"
    /\ There(n, l) /\ v # Absent /\ DiskTyped' /\ KeepsBut({n}) /\ File(n, l)' = v
    /\ \A j \in Lines \ {l} : <<n, j>> \in FileNames => File(n, j)' = File(n, j)
    /\ unnoticed \subseteq unnoticed' /\ script' = k
    /\ replacements.of \in {<<n, l>>, Absent} /\ replacements'.of = <<n, l>> /\ ReplacementsFit'
    /\ n \in {"report", "enrollment", "bundle"} => Replaced(n, l)'
    /\ n = "bundle" => ReplacedDuring(n, l, k.name)'
    /\ n = "matrix" /\ k.name = "rebind" /\ k.at < 3 => Replaced(n, l)'
    /\ k.line = l =>
          /\ n = "checkout" /\ k.name = "stage" /\ k.at < 3 => ReplacedDuring(n, l, "stage")'
          /\ n = "artifacts" /\ k.name \in {"stage", "sign"} /\ k.at \in {4, 5} =>
                ReplacedDuring(n, l, k.name)'
          /\ n = "draft" /\ k.name = "promote" /\ k.at = 1 => Replaced(n, l)'

\* One of the files is replaced: by what, and what the script can see of it.
LEMMA ReplaceFacts ==
    ASSUME SigningInv, NEW f \in FileNames, Replace(f), NEW k \in ScriptType, k = script
    PROVE  \E n, l, v : ReplacedBy(n, l, v, k)
  <1>1. PICK n, l : f = <<n, l>> /\ n \in PerLine \cup Once /\ l \in Lines /\ (n \in Once => l = "rc4")
    <2>1. CASE f \in PerLine \X Lines
      <3>1. PICK n \in PerLine, l \in Lines : f = <<n, l>>
        BY <2>1
      <3> QED
        BY <3>1 DEF PerLine, Once
    <2>2. CASE f \in Once \X {"rc4"}
      <3>1. PICK n \in Once : f = <<n, "rc4">>
        BY <2>2
      <3> QED
        BY <3>1 DEF Lines
    <2> QED
      BY <2>1, <2>2 DEF FileNames
  <1>2. PICK v \in Contents(f) : onDisk' = [onDisk EXCEPT ![f] = v]
    BY DEF Replace
  <1>3. v # Absent
    BY <1>2, SigningAssumption
  <1>4. n \in Replaceable /\ There(n, l) /\ script' = k
    BY <1>1 DEF Replace, There, File
  <1>5. /\ DiskTyped' /\ File(n, l)' = v
        /\ \A j \in Lines \ {l} : <<n, j>> \in FileNames => File(n, j)' = File(n, j)
        /\ KeepsBut({n})
    <2>1. Leaves(n, l, v) /\ v \in Contents(<<n, l>>) \cup {Absent} /\ <<n, l>> \in FileNames
      BY <1>1, <1>2 DEF Leaves
    <2> QED
      BY <1>1, <2>1, ScriptFacts, LeavesFacts DEF KeepsBut
  <1>6. unnoticed \subseteq unnoticed' /\ (Uncompared(f) => <<f, k.name>> \in unnoticed')
    BY DEF Replace
  <1>7. Uncompared(f) => Replaced(n, l)' /\ ReplacedDuring(n, l, k.name)'
    BY <1>1, <1>6 DEF Replaced, ReplacedDuring
  <1>8. /\ n \in {"report", "enrollment", "bundle"} => Uncompared(f)
        /\ n = "matrix" /\ k.name = "rebind" /\ k.at < 3 => Uncompared(f)
    <2>1. n = "matrix" => f = <<"matrix", "rc4">>
      BY <1>1 DEF Once
    <2> QED
      BY <1>1, <2>1 DEF Uncompared
  <1>9. k.line = l =>
          /\ n = "checkout" /\ k.name = "stage" /\ k.at < 3 => Uncompared(f)
          /\ n = "artifacts" /\ k.name \in {"stage", "sign"} /\ k.at \in {4, 5} => Uncompared(f)
          /\ n = "draft" /\ k.name = "promote" /\ k.at = 1 => Uncompared(f)
    BY <1>1 DEF Uncompared
  <1>10. replacements.of \in {f, Absent} /\ replacements'.of = f
    BY DEF Replace
  <1>11. ReplacementsFit'
    <2>1. replacements' \in [of : FileNames \cup {Absent}, times : 0..MaxReplaced]
      BY ScriptFacts, SigningAssumption DEF Replace, ReplacementsFit
    <2>2. f = <<"enrollment", "rc4">> => Replaced("enrollment", "rc4")'
      <3>1. f = <<"enrollment", "rc4">> => n = "enrollment" /\ l = "rc4"
        BY <1>1
      <3> QED
        BY <3>1, <1>7, <1>8
    <2> QED
      BY <1>10, <2>1, <2>2 DEF ReplacementsFit
  <1>12. <<n, l>> \in FileNames /\ replacements.of \in {<<n, l>>, Absent}
         /\ replacements'.of = <<n, l>>
    BY <1>1, <1>10
  <1>13. /\ n \in {"report", "enrollment", "bundle"} => Replaced(n, l)'
         /\ n = "bundle" => ReplacedDuring(n, l, k.name)'
         /\ n = "matrix" /\ k.name = "rebind" /\ k.at < 3 => Replaced(n, l)'
    BY <1>7, <1>8
  <1>14. k.line = l =>
            /\ n = "checkout" /\ k.name = "stage" /\ k.at < 3 => ReplacedDuring(n, l, "stage")'
            /\ n = "artifacts" /\ k.name \in {"stage", "sign"} /\ k.at \in {4, 5} =>
                  ReplacedDuring(n, l, k.name)'
            /\ n = "draft" /\ k.name = "promote" /\ k.at = 1 => Replaced(n, l)'
    BY <1>7, <1>9
  <1>15. ReplacedBy(n, l, v, k)
    BY <1>1, <1>3, <1>4, <1>5, <1>6, <1>11, <1>12, <1>13, <1>14 DEF ReplacedBy
  <1> QED
    BY <1>15

\* Of the files, all else stays so,
LEMMA ReplacedDiskInv ==
    ASSUME SigningInv, NEW n, NEW l, NEW v, NEW k \in ScriptType, k = script, ReplacedBy(n, l, v, k)
    PROVE  DiskFits'
  <1>1. /\ \A m \in PerLine \ {n} : \A i \in Lines : File(m, i)' = File(m, i)
        /\ \A m \in Once \ {n} : File(m, "rc4")' = File(m, "rc4")
    BY KeepsFacts DEF ReplacedBy
  <1>2. /\ n \in PerLine => \A i \in Lines \ {l} : File(n, i)' = File(n, i)
        /\ n \in Once => l = "rc4"
        /\ There(n, l) /\ There(n, l)'
    BY NamesFacts DEF ReplacedBy, There
  <1>3. /\ \A m \in PerLine : \A i \in Lines : There(m, i)' <=> There(m, i)
        /\ \A m \in Once : There(m, "rc4")' <=> There(m, "rc4")
    BY <1>1, <1>2 DEF There
  <1>4. FilesThere'
    <2>1. FilesThere
      BY ScriptFacts
    <2>2. /\ \A i \in Lines : /\ There("lock", i)' <=> There("lock", i)
                              /\ There("promoted", i)' <=> There("promoted", i)
                              /\ There("approval", i)' <=> There("approval", i)
                              /\ There("draft", i)' <=> There("draft", i)
                              /\ There("public", i)' <=> There("public", i)
                              /\ There("bundle", i)' <=> There("bundle", i)
                              /\ There("report", i)' <=> There("report", i)
          /\ There("media", "rc4")' <=> There("media", "rc4")
          /\ There("matrix", "rc4")' <=> There("matrix", "rc4")
          /\ There("rebound", "rc4")' <=> There("rebound", "rc4")
          /\ There("secret", "rc4")' <=> There("secret", "rc4")
      BY <1>3 DEF PerLine, Once
    <2> QED
      BY <2>1, <2>2 DEF FilesThere, Lines
  <1>5. /\ n \in Replaceable /\ n \notin {"approval", "promoted", "lock", "media", "rebound"}
        /\ unnoticed \subseteq unnoticed'
    BY DEF ReplacedBy, Replaceable
  <1>6. /\ \A i \in Lines : ReviewedOf(i)'
        /\ ImportedIsLocked' /\ ReboundIsSigned'
    <2>1. KeepsBut({n})
      BY DEF ReplacedBy
    <2> QED
      BY <1>5, <2>1, RestStays
  <1>7. \A i \in Lines : File("approval", i)' = File("approval", i)
                         /\ File("promoted", i)' = File("promoted", i)
                         /\ File("lock", i)' = File("lock", i)
    BY <1>1, <1>5 DEF PerLine
  <1>8. ASSUME NEW i \in Lines PROVE BuiltOf(i)'
    <2>1. BuiltOf(i) /\ (Unbuilt(i) => Unbuilt(i)')
      BY <1>5, ScriptFacts, ExcusesStay
    <2>2. CASE n = "report" /\ i = l
      <3>1. Unbuilt(i)'
        BY <2>2 DEF ReplacedBy, Unbuilt
      <3> QED
        BY <3>1 DEF BuiltOf
    <2>3. CASE ~(n = "report" /\ i = l)
      <3>1. File("report", i)' = File("report", i)
        BY <1>1, <1>2, <2>3 DEF PerLine
      <3> QED
        BY <1>7, <2>1, <3>1 DEF BuiltOf, There
    <2> QED
      BY <2>2, <2>3
  <1>9. ASSUME NEW i \in Lines PROVE SignedOf(i)'
    <2>1. /\ SignedOf(i) /\ (Replaced("bundle", i) => Replaced("bundle", i)')
          /\ ReplacedDuring("artifacts", i, "sign") => ReplacedDuring("artifacts", i, "sign")'
      BY <1>5, ScriptFacts, ExcusesStay
    <2>2. CASE n = "bundle" /\ i = l
      <3>1. Replaced("bundle", i)'
        BY <2>2 DEF ReplacedBy
      <3> QED
        BY <3>1 DEF SignedOf
    <2>3. CASE ~(n = "bundle" /\ i = l)
      <3>1. File("bundle", i)' = File("bundle", i)
        BY <1>1, <1>2, <2>3 DEF PerLine
      <3> QED
        BY <1>7, <2>1, <3>1 DEF SignedOf, There
    <2> QED
      BY <2>2, <2>3
  <1>10. replacements.of \in {<<n, l>>, Absent} /\ replacements'.of = <<n, l>>
         /\ Absent \notin DraftsOf /\ Absent \notin KeysOf
    <2>1. DraftsOf \cup KeysOf \subseteq FileNames
      BY NamesFacts DEF DraftsOf, KeysOf, PerLine, Once
    <2> QED
      BY <2>1, AbsentFacts DEF ReplacedBy
  <1>11. FirstAuthority'
    <2>1. CASE <<n, l>> \in KeysOf
      BY <1>10, <2>1 DEF FirstAuthority
    <2>2. CASE <<n, l>> \notin KeysOf
      <3>1. n # "secret" /\ n # "enrollment"
        BY <1>2, <2>2 DEF KeysOf, Once
      <3>2. /\ File("secret", "rc4")' = File("secret", "rc4")
            /\ File("enrollment", "rc4")' = File("enrollment", "rc4")
        BY <1>1, <3>1 DEF Once
      <3>3. replacements.of \notin KeysOf
        BY <1>10, <2>2
      <3> QED
        BY <1>7, <3>2, <3>3, ScriptFacts DEF FirstAuthority, There
    <2> QED
      BY <2>1, <2>2
  <1>12. EnrolledAuthority'
    <2>1. CASE <<n, l>> \in DraftsOf \/ n = "enrollment"
      <3>1. n = "enrollment" => Replaced("enrollment", "rc4")'
        BY <1>2 DEF ReplacedBy, Once
      <3> QED
        BY <1>10, <2>1, <3>1 DEF EnrolledAuthority
    <2>2. CASE ~(<<n, l>> \in DraftsOf \/ n = "enrollment")
      <3>1. n # "draft" /\ n # "enrollment"
        BY <2>2 DEF DraftsOf, ReplacedBy, Lines
      <3>2. /\ File("enrollment", "rc4")' = File("enrollment", "rc4")
            /\ \A i \in Lines : File("draft", i)' = File("draft", i)
        BY <1>1, <3>1 DEF PerLine, Once
      <3>3. replacements.of \notin DraftsOf
            /\ (Replaced("enrollment", "rc4") => Replaced("enrollment", "rc4")')
        BY <1>5, <1>10, <2>2, ExcusesStay
      <3> QED
        BY <1>7, <3>2, <3>3, ScriptFacts DEF EnrolledAuthority, There
    <2> QED
      BY <2>1, <2>2
  <1>13. DiskTyped'
    BY DEF ReplacedBy
  <1> QED
    BY <1>4, <1>6, <1>8, <1>9, <1>11, <1>12, <1>13 DEF DiskFits

\* and what the script knows is so or was replaced unnoticed.
LEMMA ReplacedScriptInv ==
    ASSUME SigningInv, NEW n, NEW l, NEW v, NEW k \in ScriptType, k = script, ReplacedBy(n, l, v, k)
    PROVE  ScriptFits(k)'
  <1>1. /\ \A m \in PerLine \ {n} : \A i \in Lines : File(m, i)' = File(m, i)
        /\ \A m \in Once \ {n} : File(m, "rc4")' = File(m, "rc4")
    BY KeepsFacts DEF ReplacedBy
  <1>2. /\ n \in PerLine => \A i \in Lines \ {l} : File(n, i)' = File(n, i)
        /\ n \in Once => l = "rc4"
        /\ There(n, l) /\ There(n, l)' /\ n \in PerLine \cup Once
    BY NamesFacts DEF ReplacedBy, There
  <1>3. /\ \A m \in PerLine : \A i \in Lines : There(m, i)' <=> There(m, i)
        /\ \A m \in Once : There(m, "rc4")' <=> There(m, "rc4")
    BY <1>1, <1>2 DEF There
  <1>4. /\ n \in Replaceable /\ n \notin {"approval", "promoted", "lock", "media", "rebound"}
        /\ unnoticed \subseteq unnoticed'
    BY DEF ReplacedBy, Replaceable
  <1>5. /\ ScriptFits(k) /\ k.line \in Lines /\ "rc4" \in Lines /\ "final" \in Lines
        /\ k.name = "rebind" => k.line = "final"
    BY ScriptFacts, NamesFacts DEF ScriptType, ScriptFits, RebindFits
  <1>6. /\ \A m, i : Replaced(m, i) => Replaced(m, i)'
        /\ \A m, i, s : ReplacedDuring(m, i, s) => ReplacedDuring(m, i, s)'
        /\ \A i : Unbuilt(i) => Unbuilt(i)'
    BY <1>4, ExcusesStay
  <1>7. \A i \in Lines : File("approval", i)' = File("approval", i)
                         /\ File("lock", i)' = File("lock", i)
    BY <1>1, <1>4 DEF PerLine
  <1>8. /\ There("matrix", "rc4")' <=> There("matrix", "rc4")
        /\ There("enrollment", "rc4")' <=> There("enrollment", "rc4")
        /\ There("derived", "rc4")' <=> There("derived", "rc4")
        /\ \A i \in Lines : /\ There("draft", i)' <=> There("draft", i)
                            /\ There("promoted", i)' <=> There("promoted", i)
                            /\ There("public", i)' <=> There("public", i)
                            /\ There("approval", i)' <=> There("approval", i)
                            /\ There("lock", i)' <=> There("lock", i)
                            /\ There("artifacts", i)' <=> There("artifacts", i)
                            /\ There("bundle", i)' <=> There("bundle", i)
    BY <1>3 DEF PerLine, Once
  <1>9. \* what is compared with the enrollment
        /\ n # "enrollment" => File("enrollment", "rc4")' = File("enrollment", "rc4")
        /\ n = "enrollment" => Replaced("enrollment", "rc4")'
        /\ replacements'.of \notin DraftsOf => replacements.of \notin DraftsOf
    <2>1. n # "enrollment" => File("enrollment", "rc4")' = File("enrollment", "rc4")
      BY <1>1 DEF Once
    <2>2. n = "enrollment" => Replaced("enrollment", "rc4")'
      BY <1>2 DEF ReplacedBy, Once
    <2>3. Absent \notin DraftsOf
      BY NamesFacts, AbsentFacts DEF DraftsOf, PerLine
    <2> QED
      BY <2>1, <2>2, <2>3 DEF ReplacedBy
  <1>10. StageFits(k)'
    <2>1. CASE k.name = "stage"
      <3>1. StageFits(k)
        BY <1>5 DEF ScriptFits
      <3>2. k.at = 1 => (File("checkout", k.line) = "right" => File("checkout", k.line)' = "right"
                                                               \/ Unbuilt(k.line)')
        <4>1. CASE n = "checkout" /\ l = k.line
          BY <2>1, <4>1 DEF ReplacedBy, Unbuilt
        <4>2. CASE ~(n = "checkout" /\ l = k.line)
          <5>1. File("checkout", k.line)' = File("checkout", k.line)
            BY <1>1, <1>2, <1>5, <4>2 DEF PerLine
          <5> QED
            BY <5>1
        <4> QED
          BY <4>1, <4>2
      <3>3. k.at \in {4, 5} =>
               (File("artifacts", k.line) = "right" => File("artifacts", k.line)' = "right"
                                                       \/ Unbuilt(k.line)')
        <4>1. CASE n = "artifacts" /\ l = k.line
          BY <2>1, <4>1 DEF ReplacedBy, Unbuilt
        <4>2. CASE ~(n = "artifacts" /\ l = k.line)
          <5>1. File("artifacts", k.line)' = File("artifacts", k.line)
            BY <1>1, <1>2, <1>5, <4>2 DEF PerLine
          <5> QED
            BY <5>1
        <4> QED
          BY <4>1, <4>2
      <3> QED
        BY <1>6, <1>8, <2>1, <3>1, <3>2, <3>3 DEF StageFits
    <2>2. CASE k.name # "stage"
      BY <2>2 DEF StageFits
    <2> QED
      BY <2>1, <2>2
  <1>11. EnrollFits(k)'
    BY <1>5, <1>6, <1>8 DEF ScriptFits, EnrollFits
  <1>12. DraftFits(k)'
    <2>1. DraftFits(k)
      BY <1>5 DEF ScriptFits
    <2> QED
      BY <1>5, <1>6, <1>8, <1>9, <2>1 DEF DraftFits
  <1>13. PromoteFits(k)'
    <2>1. CASE k.name = "promote"
      <3>1. PromoteFits(k)
        BY <1>5 DEF ScriptFits
      <3>2. k.at = 1 => (k.draft = File("draft", k.line) => k.draft = File("draft", k.line)'
                                                            \/ Replaced("draft", k.line)')
        <4>1. CASE n = "draft" /\ l = k.line
          BY <2>1, <4>1 DEF ReplacedBy
        <4>2. CASE ~(n = "draft" /\ l = k.line)
          <5>1. File("draft", k.line)' = File("draft", k.line)
            BY <1>1, <1>2, <1>5, <4>2 DEF PerLine
          <5> QED
            BY <5>1
        <4> QED
          BY <4>1, <4>2
      <3>3. File("approval", k.line)' = File("approval", k.line)
        BY <1>5, <1>7
      <3> QED
        BY <1>5, <1>6, <1>8, <1>9, <2>1, <3>1, <3>2, <3>3 DEF PromoteFits
    <2>2. CASE k.name # "promote"
      BY <2>2 DEF PromoteFits
    <2> QED
      BY <2>1, <2>2
  <1>14. SignFits(k)'
    <2>1. CASE k.name = "sign"
      <3>1. SignFits(k)
        BY <1>5 DEF ScriptFits
      <3>2. k.at \in {4, 5} => \/ File("artifacts", k.line)' = File("artifacts", k.line)
                               \/ ReplacedDuring("artifacts", k.line, "sign")'
        <4>1. CASE n = "artifacts" /\ l = k.line
          BY <2>1, <4>1 DEF ReplacedBy
        <4>2. CASE ~(n = "artifacts" /\ l = k.line)
          <5>1. File("artifacts", k.line)' = File("artifacts", k.line)
            BY <1>1, <1>2, <1>5, <4>2 DEF PerLine
          <5> QED
            BY <5>1
        <4> QED
          BY <4>1, <4>2
      <3>3. File("lock", k.line)' = File("lock", k.line)
        BY <1>5, <1>7
      <3> QED
        BY <1>5, <1>6, <1>8, <2>1, <3>1, <3>2, <3>3 DEF SignFits
    <2>2. CASE k.name # "sign"
      BY <2>2 DEF SignFits
    <2> QED
      BY <2>1, <2>2
  <1>15. ImportFits(k)'
    <2>1. CASE k.name = "import"
      <3>1. ImportFits(k)
        BY <1>5 DEF ScriptFits
      <3>2. \/ File("bundle", "rc4")' = File("bundle", "rc4")
            \/ ReplacedDuring("bundle", "rc4", "import")'
        <4>1. CASE n = "bundle" /\ l = "rc4"
          BY <2>1, <4>1 DEF ReplacedBy
        <4>2. CASE ~(n = "bundle" /\ l = "rc4")
          BY <1>1, <1>2, <1>5, <4>2 DEF PerLine
        <4> QED
          BY <4>1, <4>2
      <3>3. File("lock", "rc4")' = File("lock", "rc4")
        BY <1>5, <1>7
      <3> QED
        BY <1>5, <1>6, <1>8, <2>1, <3>1, <3>2, <3>3 DEF ImportFits
    <2>2. CASE k.name # "import"
      BY <2>2 DEF ImportFits
    <2> QED
      BY <2>1, <2>2
  <1>16. RebindFits(k)'
    <2>1. CASE k.name = "rebind"
      <3>1. RebindFits(k)
        BY <1>5 DEF ScriptFits
      <3>2. k.at = 1 => \/ File("matrix", "rc4")' = File("matrix", "rc4")
                        \/ Replaced("matrix", "rc4")'
        <4>1. CASE n = "matrix"
          BY <1>2, <2>1, <4>1 DEF ReplacedBy, Once
        <4>2. CASE n # "matrix"
          BY <1>1, <4>2 DEF Once
        <4> QED
          BY <4>1, <4>2
      <3> QED
        BY <1>5, <1>6, <1>8, <2>1, <3>1, <3>2 DEF RebindFits
    <2>2. CASE k.name # "rebind"
      BY <2>2 DEF RebindFits
    <2> QED
      BY <2>1, <2>2
  <1> QED
    BY <1>10, <1>11, <1>12, <1>13, <1>14, <1>15, <1>16 DEF ScriptFits

\* So a replacement keeps the invariant.
LEMMA ReplaceInv == ASSUME SigningInv, NEW f \in FileNames, Replace(f) PROVE SigningInv'
  <1>1. PICK k \in ScriptType : k = script
    BY ScriptFacts
  <1>2. PICK n, l, v : ReplacedBy(n, l, v, k)
    BY <1>1, ReplaceFacts
  <1>3. DiskFits' /\ ScriptFits(k)'
    BY <1>1, <1>2, ReplacedDiskInv, ReplacedScriptInv
  <1>4. script' = k /\ ReplacementsFit'
    BY <1>2 DEF ReplacedBy
  <1> QED
    BY <1>3, <1>4, BecomesInv

\* At first nothing is signed.
LEMMA InitSigningInv == SigningInit => SigningInv
  <1> SUFFICES ASSUME SigningInit PROVE SigningInv
    OBVIOUS
  <1>1. /\ DiskTyped /\ File("secret", "rc4") = "k1"
        /\ \A l \in Lines : /\ File("lock", l) = Absent /\ File("promoted", l) = Absent
                            /\ File("approval", l) = Absent /\ File("draft", l) = Absent
                            /\ File("public", l) = Absent /\ File("bundle", l) = Absent
                            /\ File("report", l) = Absent
        /\ File("media", "rc4") = Absent /\ File("matrix", "rc4") = Absent
        /\ File("rebound", "rc4") = Absent /\ File("enrollment", "rc4") = Absent
    BY InitNames DEF PerLine, Once
  <1>2. FilesThere
    BY <1>1, AbsentFacts DEF FilesThere, There, Lines, SigningKeys
  <1>3. \A l \in Lines : BuiltOf(l) /\ ReviewedOf(l) /\ SignedOf(l)
    BY <1>1 DEF BuiltOf, ReviewedOf, SignedOf, There
  <1>4. ImportedIsLocked /\ ReboundIsSigned
    BY <1>1 DEF ImportedIsLocked, ReboundIsSigned, The, File
  <1>5. FirstAuthority /\ EnrolledAuthority
    BY <1>1 DEF FirstAuthority, EnrolledAuthority, There
  <1>6. script = NoScript /\ ReplacementsFit
    <2>1. <<"enrollment", "rc4">> # Absent
      BY NamesFacts, AbsentFacts DEF Once
    <2> QED
      BY <2>1, SigningAssumption DEF SigningInit, ReplacementsFit
  <1> QED
    BY <1>1, <1>2, <1>3, <1>4, <1>5, <1>6, NoScriptFacts, NoScriptFits DEF SigningInv, DiskFits

\* Each step of a script and of the others keeps the invariant.
LEMMA NextSigningInv == SigningInv /\ [SigningNext]_signingVars => SigningInv'
  <1> SUFFICES ASSUME SigningInv, [SigningNext]_signingVars PROVE SigningInv'
    OBVIOUS
  <1>1. CASE UNCHANGED signingVars
    <2>1. PICK k \in ScriptType : k = script /\ ScriptFits(k)
      BY ScriptFacts
    <2>2. script' = k /\ Reads
      BY <1>1, <2>1 DEF signingVars, Reads, OthersStay
    <2> QED
      BY <2>1, <2>2, ReadsInv
  <1>2. CASE \E l \in Lines : StageBegins(l) \/ DraftBegins(l) \/ Approve(l) \/ PromoteBegins(l)
                              \/ CommitLock(l) \/ SignBegins(l)
    BY <1>2, StageBeginsInv, DraftBeginsInv, ApproveInv, PromoteReadsInv, CommitLockInv, SignReadsInv
  <1>3. CASE SigningNext
    BY <1>2, <1>3, StageReadsInv, CopyArtifactsInv, WriteProposalInv, WriteReportInv,
       EnrollBeginsInv, ProveKeyInv, DraftReadsInv, CopyAuthorityInv, WriteDraftInv,
       PromoteReadsInv, WriteLockInv, SignReadsInv, PublishSignedInv, ImportReadsInv,
       CopyBundleInv, CampaignsRunInv, RebindReadsInv, BindEvidenceInv, ScriptDiesInv, ReplaceInv
       DEF SigningNext
  <1> QED
    BY <1>1, <1>3

\* So the invariant holds for good.
LEMMA SigningInvHolds == SigningSpec => []SigningInv
  BY InitSigningInv, NextSigningInv, PTL DEF SigningSpec
-----------------------------------------------------------------------------
(* The theorems.                                                             *)

\* Certifiers, evidence runs, operators, cleaners, verifiers, scripts and the files
\* of the signing have the values the code of their task can give them.
THEOREM TasksTypeCorrect ==
    /\ CertSpec => []CampaignTypeOK
    /\ EvidenceSpec => []EvidenceTypeOK
    /\ PublicationSpec => []PublicationTypeOK
    /\ CleanupSpec => []CleanupTypeOK
    /\ ClosureSpec => []ClosureTypeOK
    /\ SigningSpec => []SigningTypeOK
  <1>1. ClosureInv => ClosureTypeOK
    BY DEF ClosureInv
  <1> QED
    BY <1>1, CertificationInvHolds, CertificationInvProperties, EvidenceInvHolds,
       EvidenceInvProperties, PublicationInvHolds, PublicationInvProperties, CleanupInvHolds,
       CleanupInvProperties, ClosureInvHolds, SigningInvHolds, SigningInvProperties, PTL

\* A campaign that verify_campaign_attestation passes rests on as many jobs of the
\* worker as it has runs; they used its pack, unless the campaign was replaced
\* between its two verifications or the pack was edited and edited back; and what
\* a certifier attests to whom nobody disturbed is what the worker ran.
THEOREM CertificationSoundHolds == CertSpec => []CertificationSound
  BY CertificationInvHolds, CertificationInvProperties, PTL

\* The content closure, the dispatch plan and the readiness receipt are each of
\* runs that one API verification found together, whose artifacts passed the
\* verifiers of their gates, and of one ledger unless that was replaced.
THEOREM EvidenceSoundHolds == EvidenceSpec => []EvidenceSound
  BY EvidenceInvHolds, EvidenceInvProperties, PTL

\* A publication that reports PASS is published, immutable and complete for good
\* unless another operator's rollback deletes it; an operator whom nobody disturbs
\* publishes all of a release or leaves nothing behind, whatever gh answers.
THEOREM PublicationSoundHolds == PublicationSpec => []PublicationSound
  BY PublicationInvHolds, PublicationInvProperties, PTL

\* A branch that the cleanup deletes can be found again: it is restored, or a
\* receipt or an error names its commit, or the cleaner still knows it.
THEOREM CleanupSoundHolds == CleanupSpec => []CleanupSound
  BY CleanupInvHolds, CleanupInvProperties, PTL

\* verify_final_release_closure closes a release only if the world is as the
\* receipts say, however old they are, or has changed since it looked.
THEOREM ClosedIsTrueHolds == ClosureSpec => []ClosedIsTrue
  <1>1. ClosureInv => ClosedIsTrue
    BY DEF ClosureInv
  <1> QED
    BY <1>1, ClosureInvHolds, PTL

\* What a signing script leaves is of what it was given: a lock is of a draft that
\* was reviewed, a bundle of the artifacts and the key of its lock, a rebinding of
\* the final release, except where a file was replaced while nothing looked.
THEOREM SignedAsReviewedHolds == SigningSpec => []SignedAsReviewed
  BY SigningInvHolds, SigningInvProperties, PTL

\* Every step of the work on a release is a step of one task, or of none.
THEOREM ReleaseImplementsTasks ==
    WorkSpec => /\ CertSpec /\ EvidenceSpec /\ PublicationSpec
                /\ CleanupSpec /\ ClosureSpec /\ SigningSpec
  <1>1. WorkInit => /\ CertInit /\ EvidenceInit /\ PublicationInit
                    /\ CleanupInit /\ ClosureInit /\ SigningInit
    BY DEF WorkInit
  <1>2. [WorkNext]_releaseWorkVars =>
            /\ [CertNext]_certVars /\ [EvidenceNext]_evidenceVars
            /\ [PublicationNext]_publicationVars /\ [CleanupNext]_cleanupVars
            /\ [ClosureNext]_closingVars /\ [SigningNext]_signingVars
    BY DEF WorkNext, releaseWorkVars, CertMoves, EvidenceMoves, PublicationMoves,
           CleanupMoves, ClosureMoves, SigningMoves
  <1> QED
    BY <1>1, <1>2, PTL DEF WorkSpec, CertSpec, EvidenceSpec, PublicationSpec, CleanupSpec,
                           ClosureSpec, SigningSpec

\* So whatever a campaign attests to while a release is worked on is so, ...
COROLLARY ReleaseCertificationSound == WorkSpec => []CertificationSound
  BY ReleaseImplementsTasks, CertificationSoundHolds, PTL

\* ... what is built, dispatched and reported of its evidence is of one
\* verification, ...
COROLLARY ReleaseEvidenceSound == WorkSpec => []EvidenceSound
  BY ReleaseImplementsTasks, EvidenceSoundHolds, PTL

\* ... what is published, cleaned up and signed is what was verified, noted and
\* reviewed, ...
COROLLARY ReleaseSoundHolds == WorkSpec => []ReleaseSound
  <1>1. PublicationSound /\ CleanupSound /\ SignedAsReviewed => ReleaseSound
    BY DEF ReleaseSound
  <1> QED
    BY <1>1, ReleaseImplementsTasks, PublicationSoundHolds, CleanupSoundHolds,
       SignedAsReviewedHolds, PTL

\* ... and a release that is closed is as its receipts say.
COROLLARY ReleaseClosedIsTrue == WorkSpec => []ClosedIsTrue
  BY ReleaseImplementsTasks, ClosedIsTrueHolds, PTL

\* All the while every task's state has the values its code can give it.
COROLLARY ReleaseTypeCorrect == WorkSpec => []ReleaseTypeOK
  <1>1. /\ CampaignTypeOK /\ EvidenceTypeOK /\ PublicationTypeOK
        /\ CleanupTypeOK /\ ClosureTypeOK /\ SigningTypeOK
        => ReleaseTypeOK
    BY DEF ReleaseTypeOK
  <1> QED
    BY <1>1, ReleaseImplementsTasks, TasksTypeCorrect, PTL
=============================================================================
