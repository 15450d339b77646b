------------------------ MODULE HostStoresProofs -------------------------
(***************************************************************************)
(* Proofs about what outlives the processes of a host, for any number of    *)
(* attempts, users, appliers, signers, admins, makers and requests.  Of     *)
(* each store an inductive invariant is proved first: what is in its files  *)
(* and what whoever works on them has done, holds or may still do.  Every   *)
(* step keeps it, and what the store promises follows from it.  The upload  *)
(* store and the delivery sessions have a module of their own               *)
(* (TransferDeliveryProofs).  The last part lifts each to HostStores, where *)
(* one store moves and the others stay.                                    *)
(***************************************************************************)
EXTENDS HostStores, TransferDeliveryProofs, SequenceTheorems

-----------------------------------------------------------------------------
(* Repairs.  Whoever is inside a session holds its lock, so that one attempt *)
(* at most is between its validation and its record; and while no two        *)
(* sessions work at once, what the tree and the accepted one differ in is    *)
(* what the one attempt inside has written and still has to undo.           *)

LateSteps == {"rollback", "mark", "save"}

\* What an attempt has done to its files and its backups, at each of its steps.
FilesFit(m, b) ==
    /\ m.prepared \subseteq m.files /\ m.todo \subseteq m.files /\ m.written \subseteq m.files
    /\ m.step # "idle" => m.session \in Sessions
    /\ m.step \in {"idle", "proposed"} => m.written = {} /\ m.prepared = {} /\ m.todo = {}
    /\ m.step = "replay" => m.written = {} /\ m.files = m.prepared \cup m.todo
    /\ m.step \in {"write", "record", "validate"} \cup LateSteps => m.prepared = m.files
    /\ m.step \in LockedSteps => \A f \in m.prepared : b[f] = m.before[f]
    /\ m.step = "restore" => m.todo \subseteq m.prepared /\ m.written \subseteq m.todo \cup m.unrestored
    /\ \A f \in m.written : b[f] = m.before[f] \/ f \in m.unrestored

\* How the tree differs from the accepted one while an attempt is the only one inside.
TreeFits(m) ==
    /\ m.step \in {"replay", "restore", "mark", "save"} => tree = good
    /\ m.step \in {"write", "record", "validate"} =>
          \A f \in Files \ m.written : tree[f] = good[f]
    /\ m.step = "rollback" => \A f \in Files \ m.todo : tree[f] = good[f]
    /\ m.step \in {"replay", "restore", "write", "record", "validate", "rollback"} =>
          \A f \in m.prepared : m.before[f] = good[f]

LocksHeld ==
    \A p \in Attempts : Inside(p) =>
       /\ session[SessionOf(p)].lock = p /\ session[SessionOf(p)].saved < MaxAttempts

BudgetFits(s) ==
    /\ session[s].saved <= MaxAttempts
    /\ \/ validations[s] <= session[s].saved + faults
       \/ /\ validations[s] <= session[s].saved + faults + 1
          /\ \E p \in Attempts : SessionOf(p) = s /\ attempt[p].step \in LateSteps

OneInside == ~overlap => \A p, q \in Attempts : Inside(p) /\ Inside(q) => p = q

TreeKept ==
    faults = 0 /\ ~overlap =>
       /\ (\A p \in Attempts : ~Inside(p)) => tree = good
       /\ \A p \in Attempts : Inside(p) => TreeFits(attempt[p])

RepairInv ==
    /\ RepairTypeOK
    /\ \A p \in Attempts : FilesFit(attempt[p], backup[p])
    /\ LocksHeld /\ \A s \in Sessions : BudgetFits(s)
    /\ OneInside /\ TreeKept

\* What the invariant is for.
LEMMA RepairInvProperties == RepairInv => RepairTypeOK /\ RepairsSound
  <1> SUFFICES ASSUME RepairInv PROVE RepairsSound
    BY DEF RepairInv
  <1>1. OnlyFaultsAndOverlapsTearTheTree
    BY DEF RepairInv, TreeKept, OnlyFaultsAndOverlapsTearTheTree
  <1>2. SessionKeepsItsBudget
    <2> SUFFICES ASSUME NEW s \in Sessions
                 PROVE  session[s].saved <= MaxAttempts /\ validations[s] <= MaxAttempts + faults
      BY DEF SessionKeepsItsBudget
    <2>1. /\ session[s].saved \in Nat /\ validations[s] \in Nat /\ faults \in Nat
          /\ MaxAttempts \in Nat /\ BudgetFits(s)
      BY RepairAssumption DEF RepairInv, RepairTypeOK
    <2>2. ASSUME NEW p \in Attempts, SessionOf(p) = s, attempt[p].step \in LateSteps
          PROVE  session[s].saved < MaxAttempts
      BY <2>2 DEF RepairInv, LocksHeld, Inside, LateSteps, LockedSteps
    <2> QED
      BY <2>1, <2>2 DEF BudgetFits
  <1>3. OnlyFailedRestoresLoseBackups
    BY DEF RepairInv, FilesFit, OnlyFailedRestoresLoseBackups
  <1> QED
    BY <1>1, <1>2, <1>3 DEF RepairsSound

\* What an attempt may rely on.
LEMMA AttemptKnows ==
    ASSUME RepairInv, NEW p \in Attempts
    PROVE  /\ attempt \in [Attempts -> AttemptStates] /\ attempt[p] \in AttemptStates
           /\ backup \in [Attempts -> [Files -> Versions \cup {NoVersion}]]
           /\ backup[p] \in [Files -> Versions \cup {NoVersion}]
           /\ FilesFit(attempt[p], backup[p]) /\ tree \in Trees /\ good \in Trees
           /\ session \in [Sessions -> [saved: Nat, lock: Attempts \cup {NoHolder}]]
           /\ validations \in [Sessions -> Nat]
           /\ faults \in 0..MaxFaults /\ faults \in Nat /\ MaxFaults \in Nat /\ overlap \in BOOLEAN
           /\ attempt[p].step # "idle" => SessionOf(p) \in Sessions
  BY RepairAssumption DEF RepairInv, RepairTypeOK, FilesFit, SessionOf

LEMMA NoFault ==
    ASSUME RepairInv, faults' = faults
    PROVE  faults' \in 0..MaxFaults /\ faults <= faults'
  <1>1. faults \in 0..MaxFaults /\ MaxFaults \in Nat
    BY RepairAssumption DEF RepairInv, RepairTypeOK
  <1> QED
    BY <1>1

LEMMA OneFault ==
    ASSUME RepairInv, faults < MaxFaults, faults' = faults + 1
    PROVE  faults' \in 0..MaxFaults /\ faults <= faults' /\ faults' # 0 /\ faults' \in Nat
  <1>1. faults \in 0..MaxFaults /\ MaxFaults \in Nat
    BY RepairAssumption DEF RepairInv, RepairTypeOK
  <1> QED
    BY <1>1

\* The step of an attempt that is not inside and does not enter.
LEMMA OutsideMoves ==
    ASSUME RepairInv, NEW p \in Attempts, NEW m \in AttemptStates, ~Inside(p),
           m.step \notin LockedSteps, attempt' = [attempt EXCEPT ![p] = m], FilesFit(m, backup[p]),
           UNCHANGED <<tree, backup, session, validations, good, faults, overlap>>
    PROVE  RepairInv'
  <1>1. /\ RepairTypeOK /\ \A q \in Attempts : FilesFit(attempt[q], backup[q])
        /\ LocksHeld /\ (\A s \in Sessions : BudgetFits(s)) /\ OneInside /\ TreeKept
    BY DEF RepairInv
  <1>2. /\ attempt' \in [Attempts -> AttemptStates] /\ attempt'[p] = m
        /\ \A q \in Attempts \ {p} : attempt'[q] = attempt[q]
    BY <1>1 DEF RepairTypeOK
  <1>3. \A q \in Attempts : /\ Inside(q)' <=> Inside(q)
                            /\ Inside(q) => attempt'[q] = attempt[q]
    BY <1>2 DEF Inside
  <1>4. RepairTypeOK' /\ \A q \in Attempts : FilesFit(attempt'[q], backup'[q])
    BY <1>1, <1>2 DEF RepairTypeOK
  <1>5. LocksHeld'
    BY <1>1, <1>3 DEF LocksHeld, SessionOf
  <1>6. ASSUME NEW s \in Sessions PROVE BudgetFits(s)'
    <2>1. \A q \in Attempts : attempt[q].step \in LateSteps => Inside(q)
      BY DEF Inside, LateSteps, LockedSteps
    <2> QED
      BY <1>1, <1>3, <2>1 DEF BudgetFits, SessionOf
  <1>7. OneInside'
    BY <1>1, <1>3 DEF OneInside
  <1>8. TreeKept'
    <2>1. \A q \in Attempts : Inside(q) /\ TreeFits(attempt[q]) => TreeFits(attempt[q])'
      BY <1>3 DEF TreeFits
    <2> QED
      BY <1>1, <1>3, <2>1 DEF TreeKept
  <1> QED
    BY <1>4, <1>5, <1>6, <1>7, <1>8 DEF RepairInv

\* An attempt takes the lock of its session.
LEMMA EnterMoves ==
    ASSUME RepairInv, NEW p \in Attempts, NEW m \in AttemptStates, At(p, "proposed"),
           m.step = "replay", m.session = SessionOf(p), m.prepared = {},
           attempt' = [attempt EXCEPT ![p] = m], FilesFit(m, backup[p]),
           session[SessionOf(p)].lock = NoHolder, ~Exhausted(p),
           session' = [session EXCEPT ![SessionOf(p)].lock = p],
           overlap' = (overlap \/ \E q \in Attempts \ {p} : Inside(q)),
           UNCHANGED <<tree, backup, validations, good, faults>>
    PROVE  RepairInv'
  <1>1. /\ RepairTypeOK /\ (\A q \in Attempts : FilesFit(attempt[q], backup[q]))
        /\ LocksHeld /\ (\A s \in Sessions : BudgetFits(s)) /\ OneInside /\ TreeKept
    BY DEF RepairInv
  <1>2. PICK s0 \in Sessions : s0 = SessionOf(p)
    BY AttemptKnows DEF At
  <1>3. /\ attempt' \in [Attempts -> AttemptStates] /\ attempt'[p] = m
        /\ \A q \in Attempts \ {p} : attempt'[q] = attempt[q]
    BY <1>1 DEF RepairTypeOK
  <1>4. ~Inside(p) /\ attempt[p].step \notin LateSteps
    BY DEF At, Inside, LockedSteps, LateSteps
  <1>5. /\ session' \in [Sessions -> [saved: Nat, lock: Attempts \cup {NoHolder}]]
        /\ session'[s0].lock = p /\ session'[s0].saved = session[s0].saved
        /\ \A s \in Sessions \ {s0} : session'[s] = session[s]
    BY <1>1, <1>2 DEF RepairTypeOK
  <1>6. RepairTypeOK' /\ \A q \in Attempts : FilesFit(attempt'[q], backup'[q])
    <2>1. overlap' \in BOOLEAN
      BY <1>1 DEF RepairTypeOK
    <2> QED
      BY <1>1, <1>3, <1>5, <2>1 DEF RepairTypeOK
  <1>7. LocksHeld'
    <2> SUFFICES ASSUME NEW q \in Attempts, attempt'[q].step \in LockedSteps
                 PROVE  /\ session'[attempt'[q].session].lock = q
                        /\ session'[attempt'[q].session].saved < MaxAttempts
      BY DEF LocksHeld, Inside, SessionOf
    <2>1. CASE q = p
      <3>1. session[s0].saved < MaxAttempts
        BY <1>1, <1>2, RepairAssumption DEF RepairTypeOK, Exhausted
      <3> QED
        BY <1>2, <1>3, <1>5, <2>1, <3>1
    <2>2. CASE q # p
      <3>1. Inside(q) /\ attempt'[q] = attempt[q]
        BY <1>3, <2>2 DEF Inside
      <3>2. /\ session[SessionOf(q)].lock = q /\ session[SessionOf(q)].saved < MaxAttempts
            /\ SessionOf(q) \in Sessions
        BY <1>1, <3>1, AttemptKnows DEF LocksHeld, Inside, LockedSteps
      <3>3. SessionOf(q) # s0
        BY <1>2, <3>2, RepairAssumption DEF NoHolder
      <3> QED
        BY <1>5, <3>1, <3>2, <3>3 DEF SessionOf
    <2> QED
      BY <2>1, <2>2
  <1>8. ASSUME NEW s \in Sessions PROVE BudgetFits(s)'
    <2>1. session'[s].saved = session[s].saved /\ BudgetFits(s)
      BY <1>1, <1>5
    <2>2. \A q \in Attempts : attempt[q].step \in LateSteps => attempt'[q] = attempt[q]
      BY <1>3, <1>4
    <2> QED
      BY <2>1, <2>2 DEF BudgetFits, SessionOf
  <1>9. OneInside'
    BY <1>1, <1>3, <1>4 DEF OneInside, Inside
  <1>10. TreeKept'
    <2> SUFFICES ASSUME faults' = 0, ~overlap'
                 PROVE  /\ (\A q \in Attempts : ~Inside(q))' => tree' = good'
                        /\ \A q \in Attempts : attempt'[q].step \in LockedSteps
                                                => TreeFits(attempt[q])'
      BY DEF TreeKept, Inside
    <2>1. \A q \in Attempts : ~Inside(q)
      BY <1>4
    <2>2. tree = good
      BY <1>1, <2>1 DEF TreeKept
    <2>3. \A q \in Attempts : attempt'[q].step \in LockedSteps => q = p
      BY <1>3, <2>1 DEF Inside
    <2>4. TreeFits(m)'
      BY <2>2 DEF TreeFits
    <2> QED
      BY <1>3, <2>2, <2>3, <2>4 DEF TreeFits
  <1> QED
    BY <1>6, <1>7, <1>8, <1>9, <1>10 DEF RepairInv

\* A step of an attempt that stays inside.
LEMMA WithinMoves ==
    ASSUME RepairInv, NEW p \in Attempts, NEW m \in AttemptStates, Inside(p),
           NEW b \in [Files -> Versions \cup {NoVersion}],
           m.step \in LockedSteps, m.session = SessionOf(p), FilesFit(m, b),
           attempt' = [attempt EXCEPT ![p] = m], backup' = [backup EXCEPT ![p] = b],
           tree' \in Trees, good' \in Trees, faults' \in 0..MaxFaults, faults <= faults',
           UNCHANGED <<session, overlap>>,
           \/ /\ validations' = validations
              /\ attempt[p].step \in LateSteps => m.step \in LateSteps
           \/ /\ validations' = [validations EXCEPT ![SessionOf(p)] = @ + 1]
              /\ attempt[p].step \notin LateSteps /\ m.step \in LateSteps,
           faults' = 0 /\ ~overlap => TreeFits(m)'
    PROVE  RepairInv'
  <1>1. /\ RepairTypeOK /\ (\A q \in Attempts : FilesFit(attempt[q], backup[q]))
        /\ LocksHeld /\ (\A s \in Sessions : BudgetFits(s)) /\ OneInside /\ TreeKept
    BY DEF RepairInv
  <1>2. PICK s0 \in Sessions : s0 = SessionOf(p)
    BY AttemptKnows DEF Inside, LockedSteps
  <1>3. /\ attempt' \in [Attempts -> AttemptStates] /\ attempt'[p] = m
        /\ \A q \in Attempts \ {p} : attempt'[q] = attempt[q]
        /\ backup' \in [Attempts -> [Files -> Versions \cup {NoVersion}]] /\ backup'[p] = b
        /\ \A q \in Attempts \ {p} : backup'[q] = backup[q]
    BY <1>1 DEF RepairTypeOK
  <1>4. \A q \in Attempts : /\ Inside(q)' <=> Inside(q)
                            /\ attempt'[q].session = attempt[q].session
    BY <1>3 DEF Inside, SessionOf
  <1>5. RepairTypeOK' /\ \A q \in Attempts : FilesFit(attempt'[q], backup'[q])
    <2>1. validations' \in [Sessions -> Nat]
      BY <1>1, <1>2 DEF RepairTypeOK
    <2> QED
      BY <1>1, <1>3, <2>1 DEF RepairTypeOK
  <1>6. LocksHeld'
    BY <1>1, <1>4 DEF LocksHeld, SessionOf
  <1>7. ASSUME NEW s \in Sessions PROVE BudgetFits(s)'
    <2>1. /\ session[s].saved \in Nat /\ validations[s] \in Nat /\ faults \in Nat
          /\ faults' \in Nat /\ validations'[s] \in Nat /\ BudgetFits(s)
      BY <1>1, <1>5, RepairAssumption DEF RepairTypeOK
    <2>2. session[s].saved <= MaxAttempts
      BY <2>1 DEF BudgetFits
    <2>3. CASE validations'[s] = validations[s] /\ (attempt[p].step \in LateSteps => m.step \in LateSteps)
      <3>1. \A q \in Attempts : attempt[q].step \in LateSteps => attempt'[q].step \in LateSteps
        BY <1>3, <2>3
      <3>2. CASE validations[s] <= session[s].saved + faults
        BY <2>1, <2>2, <2>3, <3>2 DEF BudgetFits
      <3>3. CASE \E q \in Attempts : SessionOf(q) = s /\ attempt[q].step \in LateSteps
        <4>1. \E q \in Attempts : attempt'[q].session = s /\ attempt'[q].step \in LateSteps
          BY <1>4, <3>1, <3>3 DEF SessionOf
        <4>2. validations[s] <= session[s].saved + faults + 1
          BY <2>1 DEF BudgetFits
        <4>3. validations'[s] <= session[s].saved + faults' + 1
          BY <2>1, <2>3, <4>2
        <4> QED
          BY <2>2, <4>1, <4>3 DEF BudgetFits, SessionOf
      <3> QED
        BY <2>1, <3>2, <3>3 DEF BudgetFits
    <2>4. CASE s = s0 /\ validations'[s] = validations[s] + 1 /\ attempt[p].step \notin LateSteps
               /\ m.step \in LateSteps
      <3>1. ASSUME NEW q \in Attempts, SessionOf(q) = s, attempt[q].step \in LateSteps
            PROVE  FALSE
        <4>1. Inside(q) /\ Inside(p)
          BY <3>1 DEF Inside, LateSteps, LockedSteps
        <4> QED
          BY <1>1, <1>2, <2>4, <3>1, <4>1 DEF LocksHeld
      <3>2. validations[s] <= session[s].saved + faults
        BY <2>1, <3>1 DEF BudgetFits
      <3>3. validations'[s] <= session[s].saved + faults' + 1
        BY <2>1, <2>4, <3>2
      <3>4. attempt'[p].session = s /\ attempt'[p].step \in LateSteps
        BY <1>2, <1>3, <2>4
      <3> QED
        BY <2>2, <3>3, <3>4 DEF BudgetFits, SessionOf
    <2>5. CASE s # s0 /\ validations'[s] = validations[s] /\ attempt[p].step \notin LateSteps
      BY <2>3, <2>5
    <2> QED
      BY <1>1, <1>2, <2>3, <2>4, <2>5 DEF RepairTypeOK
  <1>8. OneInside'
    BY <1>1, <1>4 DEF OneInside
  <1>9. TreeKept'
    <2> SUFFICES ASSUME faults' = 0, ~overlap
                 PROVE  /\ (\A q \in Attempts : ~Inside(q))' => tree' = good'
                        /\ \A q \in Attempts : Inside(q) => TreeFits(attempt[q])'
      BY <1>4 DEF TreeKept
    <2>1. \A q \in Attempts : Inside(q) => q = p
      BY <1>1 DEF OneInside
    <2>2. TreeFits(attempt[p])'
      BY <1>3 DEF TreeFits
    <2> QED
      BY <1>4, <2>1, <2>2
  <1> QED
    BY <1>5, <1>6, <1>7, <1>8, <1>9 DEF RepairInv

\* An attempt leaves: recorded, given up, failed or killed.
LEMMA LeaveMoves ==
    ASSUME RepairInv, NEW p \in Attempts, NEW m \in AttemptStates, Inside(p),
           NEW b \in [Files -> Versions \cup {NoVersion}],
           m.step \notin LockedSteps, FilesFit(m, b),
           attempt' = [attempt EXCEPT ![p] = m], backup' = [backup EXCEPT ![p] = b],
           UNCHANGED <<tree, good, validations, overlap>>,
           NEW n \in Nat, n <= session[SessionOf(p)].saved + 1,
           session' = [session EXCEPT ![SessionOf(p)] = [saved |-> n, lock |-> NoHolder]],
           faults' \in 0..MaxFaults, faults <= faults',
           \/ faults' + n > faults + session[SessionOf(p)].saved
           \/ /\ faults' + n = faults + session[SessionOf(p)].saved
              /\ attempt[p].step \notin LateSteps,
           faults' = 0 /\ ~overlap => tree = good
    PROVE  RepairInv'
  <1>1. /\ RepairTypeOK /\ (\A q \in Attempts : FilesFit(attempt[q], backup[q]))
        /\ LocksHeld /\ (\A s \in Sessions : BudgetFits(s)) /\ OneInside /\ TreeKept
    BY DEF RepairInv
  <1>2. PICK s0 \in Sessions : s0 = SessionOf(p)
    BY AttemptKnows DEF Inside, LockedSteps
  <1>3. /\ attempt' \in [Attempts -> AttemptStates] /\ attempt'[p] = m
        /\ \A q \in Attempts \ {p} : attempt'[q] = attempt[q]
        /\ backup' \in [Attempts -> [Files -> Versions \cup {NoVersion}]] /\ backup'[p] = b
        /\ \A q \in Attempts \ {p} : backup'[q] = backup[q]
    BY <1>1 DEF RepairTypeOK
  <1>4. /\ session' \in [Sessions -> [saved: Nat, lock: Attempts \cup {NoHolder}]]
        /\ session'[s0].saved = n /\ session'[s0].lock = NoHolder
        /\ \A s \in Sessions \ {s0} : session'[s] = session[s]
    BY <1>1, <1>2 DEF RepairTypeOK
  <1>5. \A q \in Attempts : attempt'[q].step \in LockedSteps =>
           q # p /\ Inside(q) /\ attempt'[q] = attempt[q]
    BY <1>3 DEF Inside
  <1>6. ASSUME NEW q \in Attempts, Inside(q), SessionOf(q) = s0
        PROVE  q = p
    BY <1>1, <1>2, <1>6 DEF LocksHeld
  <1>7. RepairTypeOK' /\ \A q \in Attempts : FilesFit(attempt'[q], backup'[q])
    BY <1>1, <1>3, <1>4 DEF RepairTypeOK
  <1>8. LocksHeld'
    <2> SUFFICES ASSUME NEW q \in Attempts, attempt'[q].step \in LockedSteps
                 PROVE  /\ session'[attempt'[q].session].lock = q
                        /\ session'[attempt'[q].session].saved < MaxAttempts
      BY DEF LocksHeld, Inside, SessionOf
    <2>1. q # p /\ Inside(q) /\ attempt'[q] = attempt[q]
      BY <1>5
    <2>2. SessionOf(q) \in Sessions \ {s0}
      BY <1>6, <2>1, AttemptKnows DEF Inside, LockedSteps
    <2> QED
      BY <1>1, <1>4, <2>1, <2>2 DEF LocksHeld, SessionOf
  <1>9. ASSUME NEW s \in Sessions PROVE BudgetFits(s)'
    <2>1. /\ session[s].saved \in Nat /\ validations[s] \in Nat /\ faults \in Nat
          /\ faults' \in Nat /\ MaxAttempts \in Nat /\ BudgetFits(s)
      BY <1>1, <1>7, RepairAssumption DEF RepairTypeOK
    <2>2. CASE s = s0
      <3>1. session[s].saved < MaxAttempts
        BY <1>1, <1>2, <2>2 DEF LocksHeld
      <3>2. n <= session[s].saved + 1
        BY <1>2, <2>2
      <3>3. n <= MaxAttempts
        BY <2>1, <3>1, <3>2
      <3>4. validations[s] <= n + faults'
        <4>1. CASE faults' + n > faults + session[s].saved
          <5>1. validations[s] <= session[s].saved + faults + 1
            BY <2>1 DEF BudgetFits
          <5> QED
            BY <2>1, <4>1, <5>1
        <4>2. CASE faults' + n = faults + session[s].saved /\ attempt[p].step \notin LateSteps
          <5>1. \A q \in Attempts : ~(SessionOf(q) = s /\ attempt[q].step \in LateSteps)
            BY <1>6, <2>2, <4>2 DEF Inside, LateSteps, LockedSteps
          <5>2. validations[s] <= session[s].saved + faults
            BY <2>1, <5>1 DEF BudgetFits
          <5> QED
            BY <2>1, <4>2, <5>2
        <4> QED
          BY <1>2, <2>2, <4>1, <4>2
      <3> QED
        BY <1>4, <2>2, <3>3, <3>4 DEF BudgetFits
    <2>3. CASE s # s0
      <3>1. session'[s] = session[s]
        BY <1>4, <2>3
      <3>2. CASE validations[s] <= session[s].saved + faults
        <4>1. validations[s] <= session[s].saved + faults'
          BY <2>1, <3>2
        <4> QED
          BY <2>1, <3>1, <4>1 DEF BudgetFits
      <3>3. CASE ~(validations[s] <= session[s].saved + faults)
        <4>1. PICK q \in Attempts : SessionOf(q) = s /\ attempt[q].step \in LateSteps
          BY <2>1, <3>3 DEF BudgetFits
        <4>2. attempt'[q].session = s /\ attempt'[q].step \in LateSteps
          BY <1>2, <1>3, <2>3, <4>1 DEF SessionOf
        <4>3. validations[s] <= session[s].saved + faults + 1
          BY <2>1, <3>3 DEF BudgetFits
        <4>4. validations[s] <= session[s].saved + faults' + 1
          BY <2>1, <4>3
        <4>5. session[s].saved <= MaxAttempts
          BY <2>1 DEF BudgetFits
        <4> QED
          BY <3>1, <4>2, <4>4, <4>5 DEF BudgetFits, SessionOf
      <3> QED
        BY <3>2, <3>3
    <2> QED
      BY <2>2, <2>3
  <1>10. OneInside'
    BY <1>1, <1>5 DEF OneInside, Inside
  <1>11. TreeKept'
    <2> SUFFICES ASSUME faults' = 0, ~overlap
                 PROVE  /\ tree' = good'
                        /\ \A q \in Attempts : ~(attempt'[q].step \in LockedSteps)
      BY DEF TreeKept, Inside
    <2> QED
      BY <1>1, <1>5 DEF OneInside
  <1> QED
    BY <1>7, <1>8, <1>9, <1>10, <1>11 DEF RepairInv

LEMMA ProposeKeeps ==
    ASSUME RepairInv, NEW p \in Attempts, Propose(p)
    PROVE  RepairInv'
  <1>1. PICK after \in Trees, s \in Sessions :
           attempt' = [attempt EXCEPT ![p].step = "proposed", ![p].session = s,
               ![p].before = tree, ![p].after = after,
               ![p].files = {f \in Files : after[f] # tree[f]}]
    BY DEF Propose
  <1>2. PICK m : m = [attempt[p] EXCEPT !.step = "proposed", !.session = s, !.before = tree,
                          !.after = after, !.files = {f \in Files : after[f] # tree[f]}]
    OBVIOUS
  <1>3. attempt[p] \in AttemptStates /\ tree \in Trees /\ attempt[p].step = "idle"
    BY AttemptKnows DEF Propose, At
  <1>4. attempt[p].written = {} /\ attempt[p].prepared = {} /\ attempt[p].todo = {}
    BY <1>3, AttemptKnows DEF FilesFit
  <1>5. m \in AttemptStates
    BY <1>2, <1>3 DEF AttemptStates, RepairSteps
  <1>6. /\ m.step = "proposed" /\ m.session = s /\ m.written = {} /\ m.prepared = {}
        /\ m.todo = {}
    BY <1>2, <1>3, <1>4 DEF AttemptStates
  <1>7. FilesFit(m, backup[p])
    BY <1>6 DEF FilesFit, LateSteps, LockedSteps
  <1>8. attempt' = [attempt EXCEPT ![p] = m] /\ ~Inside(p) /\ m.step \notin LockedSteps
    BY <1>1, <1>2, <1>3, <1>6 DEF Inside, LockedSteps, AttemptStates
  <1> QED
    BY <1>5, <1>7, <1>8, OutsideMoves DEF Propose

LEMMA BeginRepairKeeps ==
    ASSUME RepairInv, NEW p \in Attempts, Begin(p)
    PROVE  RepairInv'
  <1>1. /\ attempt[p] \in AttemptStates /\ attempt[p].step = "proposed"
        /\ FilesFit(attempt[p], backup[p])
    BY AttemptKnows DEF Begin, At
  <1>2. CASE Exhausted(p)
    <2>1. PICK m : m = [attempt[p] EXCEPT !.step = "done"]
      OBVIOUS
    <2>2. m \in AttemptStates
      BY <1>1, <2>1 DEF AttemptStates, RepairSteps
    <2>3. m.step \notin LockedSteps /\ FilesFit(m, backup[p])
      BY <1>1, <2>1 DEF AttemptStates, FilesFit, LateSteps, LockedSteps
    <2>4. attempt' = [attempt EXCEPT ![p] = m] /\ ~Inside(p)
      BY <1>1, <1>2, <2>1 DEF Begin, Inside, LockedSteps
    <2> QED
      BY <1>2, <2>2, <2>3, <2>4, OutsideMoves DEF Begin
  <1>3. CASE ~Exhausted(p)
    <2>1. PICK m : m = [attempt[p] EXCEPT !.step = "replay", !.todo = attempt[p].files]
      OBVIOUS
    <2>2. m \in AttemptStates
      BY <1>1, <2>1 DEF AttemptStates, RepairSteps, LockedSteps
    <2>3. /\ m.step = "replay" /\ m.session = SessionOf(p) /\ m.prepared = {}
          /\ FilesFit(m, backup[p])
      BY <1>1, <2>1 DEF AttemptStates, FilesFit, LateSteps, LockedSteps, SessionOf
    <2>4. attempt' = [attempt EXCEPT ![p] = m]
      BY <1>1, <1>3, <2>1 DEF Begin
    <2> QED
      BY <1>3, <2>2, <2>3, <2>4, EnterMoves DEF Begin
  <1> QED
    BY <1>2, <1>3

LEMMA ReplayKeeps ==
    ASSUME RepairInv, NEW p \in Attempts, NEW f \in Files, Replay(p, f)
    PROVE  RepairInv'
  <1>1. /\ attempt[p] \in AttemptStates /\ attempt[p].step = "replay" /\ f \in attempt[p].todo
        /\ FilesFit(attempt[p], backup[p])
        /\ backup[p] \in [Files -> Versions \cup {NoVersion}]
        /\ backup \in [Attempts -> [Files -> Versions \cup {NoVersion}]]
        /\ tree \in Trees /\ tree' = tree /\ good' = good /\ good \in Trees
    BY AttemptKnows DEF Replay, At
  <1>2. Inside(p) /\ attempt[p].step \notin LateSteps
    BY <1>1 DEF Inside, LockedSteps, LateSteps
  <1>3. ASSUME faults' = 0, ~overlap
        PROVE  TreeFits(attempt[p])
    BY <1>2, <1>3 DEF RepairInv, TreeKept, Replay
  <1>4. CASE tree[f] = attempt[p].before[f]
    <2>1. PICK m : m = [attempt[p] EXCEPT !.prepared = @ \cup {f},
                            !.todo = IF @ = {f} THEN attempt[p].files ELSE @ \ {f},
                            !.step = IF attempt[p].todo = {f} THEN "write" ELSE @]
      OBVIOUS
    <2>2. PICK b : b = [backup[p] EXCEPT ![f] = tree[f]]
      OBVIOUS
    <2>3. m \in AttemptStates
      BY <1>1, <2>1 DEF AttemptStates, RepairSteps, LockedSteps
    <2>4. /\ b \in [Files -> Versions \cup {NoVersion}] /\ b[f] = tree[f]
          /\ \A g \in Files \ {f} : b[g] = backup[p][g]
      BY <1>1, <2>2 DEF Trees
    <2>5. /\ m.session = SessionOf(p) /\ m.before = attempt[p].before /\ m.written = {}
          /\ m.files = attempt[p].files /\ m.prepared = attempt[p].prepared \cup {f}
      BY <1>1, <2>1 DEF AttemptStates, SessionOf, FilesFit
    <2>6. \/ attempt[p].todo = {f} /\ m.todo = m.files /\ m.step = "write"
          \/ attempt[p].todo # {f} /\ m.todo = attempt[p].todo \ {f} /\ m.step = "replay"
      BY <1>1, <2>1 DEF AttemptStates
    <2>7. \A g \in m.prepared : b[g] = m.before[g]
      BY <1>1, <1>4, <2>4, <2>5 DEF FilesFit, LockedSteps, AttemptStates
    <2>8. FilesFit(m, b)
      <3>1. /\ attempt[p].prepared \subseteq m.files /\ attempt[p].todo \subseteq m.files
            /\ m.files = attempt[p].prepared \cup attempt[p].todo /\ m.session \in Sessions
        BY <1>1, <2>5 DEF FilesFit, SessionOf
      <3>2. /\ m.prepared \subseteq m.files /\ m.todo \subseteq m.files
            /\ m.step = "replay" => m.files = m.prepared \cup m.todo
            /\ m.step = "write" => m.prepared = m.files
        BY <1>1, <2>5, <2>6, <3>1
      <3> QED
        BY <2>5, <2>6, <2>7, <3>1, <3>2 DEF FilesFit, LateSteps
    <2>9. attempt' = [attempt EXCEPT ![p] = m] /\ backup' = [backup EXCEPT ![p] = b]
      BY <1>1, <1>4, <2>1, <2>2 DEF Replay, BacksUp
    <2>10. ASSUME faults' = 0, ~overlap PROVE TreeFits(m)'
      <3>1. tree = good /\ \A g \in attempt[p].prepared : attempt[p].before[g] = good[g]
        BY <1>1, <1>3, <2>10 DEF TreeFits
      <3> QED
        BY <1>1, <1>4, <2>5, <2>6, <3>1 DEF TreeFits
    <2> QED
      <3>1. m.step \in LockedSteps
        BY <2>6 DEF LockedSteps
      <3>2. faults' \in 0..MaxFaults /\ faults <= faults'
        BY NoFault DEF Replay
      <3> QED
        BY <1>1, <1>2, <2>3, <2>4, <2>5, <2>8, <2>9, <2>10, <3>1, <3>2, WithinMoves DEF Replay
  <1>5. CASE tree[f] # attempt[p].before[f]
    <2>1. PICK m : m = [attempt[p] EXCEPT !.step = "restore", !.todo = attempt[p].prepared]
      OBVIOUS
    <2>2. PICK b : b = backup[p]
      OBVIOUS
    <2>3. m \in AttemptStates
      BY <1>1, <2>1 DEF AttemptStates, RepairSteps, LockedSteps
    <2>4. /\ m.session = SessionOf(p) /\ m.before = attempt[p].before /\ m.written = {}
          /\ m.files = attempt[p].files /\ m.prepared = attempt[p].prepared
          /\ m.todo = m.prepared /\ m.step = "restore"
      BY <1>1, <2>1 DEF AttemptStates, SessionOf, FilesFit
    <2>5. FilesFit(m, b)
      BY <1>1, <2>2, <2>4 DEF FilesFit, LateSteps, LockedSteps, SessionOf
    <2>6. attempt' = [attempt EXCEPT ![p] = m] /\ backup' = [backup EXCEPT ![p] = b]
      BY <1>1, <1>5, <2>1, <2>2 DEF Replay
    <2>7. ASSUME faults' = 0, ~overlap PROVE TreeFits(m)'
      BY <1>1, <1>3, <2>4, <2>7 DEF TreeFits
    <2>8. m.step \in LockedSteps /\ faults' \in 0..MaxFaults /\ faults <= faults'
      BY <2>4, NoFault DEF LockedSteps, Replay
    <2> QED
      BY <1>1, <1>2, <2>2, <2>3, <2>4, <2>5, <2>6, <2>7, <2>8, WithinMoves DEF Replay
  <1> QED
    BY <1>4, <1>5

LEMMA ReplaceFileKeeps ==
    ASSUME RepairInv, NEW p \in Attempts, NEW f \in Files, ReplaceFile(p, f)
    PROVE  RepairInv'
  <1>1. /\ attempt[p] \in AttemptStates /\ attempt[p].step = "write" /\ f \in attempt[p].todo
        /\ FilesFit(attempt[p], backup[p])
        /\ backup[p] \in [Files -> Versions \cup {NoVersion}]
        /\ tree \in Trees /\ good' = good /\ good \in Trees
    BY AttemptKnows DEF ReplaceFile, At
  <1>2. Inside(p) /\ attempt[p].step \notin LateSteps
    BY <1>1 DEF Inside, LockedSteps, LateSteps
  <1>3. PICK m : m = [attempt[p] EXCEPT !.written = @ \cup {f}, !.todo = @ \ {f},
                          !.step = IF attempt[p].todo = {f} THEN "record" ELSE @]
    OBVIOUS
  <1>4. PICK b : b = backup[p]
    OBVIOUS
  <1>5. m \in AttemptStates
    BY <1>1, <1>3 DEF AttemptStates, RepairSteps, LockedSteps
  <1>6. /\ m.session = SessionOf(p) /\ m.before = attempt[p].before
        /\ m.written = attempt[p].written \cup {f} /\ m.todo = attempt[p].todo \ {f}
        /\ m.files = attempt[p].files /\ m.prepared = attempt[p].prepared
        /\ m.unrestored = attempt[p].unrestored /\ m.step \in {"write", "record"}
    BY <1>1, <1>3 DEF AttemptStates, SessionOf
  <1>7. FilesFit(m, b)
    BY <1>1, <1>4, <1>6 DEF FilesFit, LateSteps, LockedSteps, SessionOf
  <1>8. attempt' = [attempt EXCEPT ![p] = m] /\ backup' = [backup EXCEPT ![p] = b]
    BY <1>1, <1>3, <1>4, AttemptKnows DEF ReplaceFile
  <1>9. /\ tree' \in Trees /\ \A g \in Files \ {f} : tree'[g] = tree[g]
    BY <1>1 DEF ReplaceFile, Trees, AttemptStates
  <1>10. ASSUME faults' = 0, ~overlap PROVE TreeFits(m)'
    <2>1. TreeFits(attempt[p])
      BY <1>2, <1>10 DEF RepairInv, TreeKept, ReplaceFile
    <2> QED
      BY <1>1, <1>6, <1>9, <2>1 DEF TreeFits
  <1>11. m.step \in LockedSteps /\ faults' \in 0..MaxFaults /\ faults <= faults'
    BY <1>6, NoFault DEF LockedSteps, ReplaceFile
  <1> QED
    BY <1>1, <1>2, <1>4, <1>5, <1>6, <1>7, <1>8, <1>9, <1>10, <1>11, WithinMoves DEF ReplaceFile

LEMMA RecordTransactionKeeps ==
    ASSUME RepairInv, NEW p \in Attempts, RecordTransaction(p)
    PROVE  RepairInv'
  <1>1. /\ attempt[p] \in AttemptStates /\ attempt[p].step = "record"
        /\ FilesFit(attempt[p], backup[p])
        /\ backup[p] \in [Files -> Versions \cup {NoVersion}]
        /\ tree' = tree /\ tree \in Trees /\ good' = good /\ good \in Trees
    BY AttemptKnows DEF RecordTransaction, At
  <1>2. Inside(p) /\ attempt[p].step \notin LateSteps
    BY <1>1 DEF Inside, LockedSteps, LateSteps
  <1>3. PICK m : m = [attempt[p] EXCEPT !.step = "validate"]
    OBVIOUS
  <1>4. PICK b : b = backup[p]
    OBVIOUS
  <1>5. m \in AttemptStates
    BY <1>1, <1>3 DEF AttemptStates, RepairSteps, LockedSteps
  <1>6. /\ m.session = SessionOf(p) /\ m.before = attempt[p].before
        /\ m.written = attempt[p].written /\ m.todo = attempt[p].todo
        /\ m.files = attempt[p].files /\ m.prepared = attempt[p].prepared
        /\ m.unrestored = attempt[p].unrestored /\ m.step = "validate"
    BY <1>1, <1>3 DEF AttemptStates, SessionOf
  <1>7. FilesFit(m, b)
    BY <1>1, <1>4, <1>6 DEF FilesFit, LateSteps, LockedSteps, SessionOf
  <1>8. attempt' = [attempt EXCEPT ![p] = m] /\ backup' = [backup EXCEPT ![p] = b]
    BY <1>1, <1>3, <1>4, AttemptKnows DEF RecordTransaction
  <1>9. ASSUME faults' = 0, ~overlap PROVE TreeFits(m)'
    <2>1. TreeFits(attempt[p])
      BY <1>2, <1>9 DEF RepairInv, TreeKept, RecordTransaction
    <2> QED
      BY <1>1, <1>6, <2>1 DEF TreeFits
  <1>10. m.step \in LockedSteps /\ faults' \in 0..MaxFaults /\ faults <= faults'
    BY <1>6, NoFault DEF LockedSteps, RecordTransaction
  <1> QED
    BY <1>1, <1>2, <1>4, <1>5, <1>6, <1>7, <1>8, <1>9, <1>10, WithinMoves DEF RecordTransaction

LEMMA ValidateKeeps ==
    ASSUME RepairInv, NEW p \in Attempts, Validate(p)
    PROVE  RepairInv'
  <1>1. /\ attempt[p] \in AttemptStates /\ attempt[p].step = "validate"
        /\ FilesFit(attempt[p], backup[p])
        /\ backup[p] \in [Files -> Versions \cup {NoVersion}]
        /\ tree' = tree /\ tree \in Trees /\ good \in Trees
    BY AttemptKnows DEF Validate, At
  <1>2. Inside(p) /\ attempt[p].step \notin LateSteps
    BY <1>1 DEF Inside, LockedSteps, LateSteps
  <1>3. PICK b : b = backup[p]
    OBVIOUS
  <1>4. backup' = [backup EXCEPT ![p] = b] /\ faults' \in 0..MaxFaults /\ faults <= faults'
    BY <1>3, NoFault, AttemptKnows DEF Validate
  <1>5. ASSUME faults' = 0, ~overlap PROVE TreeFits(attempt[p])
    BY <1>2, <1>5 DEF RepairInv, TreeKept, Validate
  <1>6. CASE attempt' = [attempt EXCEPT ![p].step = "save", ![p].accepted = TRUE] /\ good' = tree
    <2>1. PICK m : m = [attempt[p] EXCEPT !.step = "save", !.accepted = TRUE]
      OBVIOUS
    <2>2. m \in AttemptStates
      BY <1>1, <2>1 DEF AttemptStates, RepairSteps, LockedSteps
    <2>3. /\ m.session = SessionOf(p) /\ m.before = attempt[p].before
          /\ m.written = attempt[p].written /\ m.todo = attempt[p].todo
          /\ m.files = attempt[p].files /\ m.prepared = attempt[p].prepared
          /\ m.unrestored = attempt[p].unrestored /\ m.step = "save"
      BY <1>1, <2>1 DEF AttemptStates, SessionOf
    <2>4. FilesFit(m, b)
      BY <1>1, <1>3, <2>3 DEF FilesFit, LateSteps, LockedSteps, SessionOf
    <2>5. attempt' = [attempt EXCEPT ![p] = m]
      BY <1>1, <1>6, <2>1
    <2>6. TreeFits(m)'
      BY <1>1, <1>6, <2>3 DEF TreeFits
    <2>7. m.step \in LockedSteps /\ m.step \in LateSteps
      BY <2>3 DEF LockedSteps, LateSteps
    <2> QED
      BY <1>1, <1>2, <1>3, <1>4, <1>6, <2>2, <2>3, <2>4, <2>5, <2>6, <2>7, WithinMoves DEF Validate
  <1>7. CASE /\ attempt' = [attempt EXCEPT ![p].step = "rollback", ![p].todo = ToRollBack(p)]
             /\ good' = good
    <2>1. PICK m : m = [attempt[p] EXCEPT !.step = "rollback", !.todo = attempt[p].files]
      OBVIOUS
    <2>2. m \in AttemptStates
      BY <1>1, <2>1 DEF AttemptStates, RepairSteps, LockedSteps
    <2>3. /\ m.session = SessionOf(p) /\ m.before = attempt[p].before
          /\ m.written = attempt[p].written /\ m.todo = m.files
          /\ m.files = attempt[p].files /\ m.prepared = attempt[p].prepared
          /\ m.unrestored = attempt[p].unrestored /\ m.step = "rollback"
      BY <1>1, <2>1 DEF AttemptStates, SessionOf
    <2>4. FilesFit(m, b)
      BY <1>1, <1>3, <2>3 DEF FilesFit, LateSteps, LockedSteps, SessionOf
    <2>5. attempt' = [attempt EXCEPT ![p] = m]
      BY <1>1, <1>7, <2>1 DEF ToRollBack
    <2>6. ASSUME faults' = 0, ~overlap PROVE TreeFits(m)'
      BY <1>1, <1>5, <1>7, <2>3, <2>6 DEF TreeFits, FilesFit
    <2>7. m.step \in LockedSteps /\ m.step \in LateSteps
      BY <2>3 DEF LockedSteps, LateSteps
    <2> QED
      BY <1>1, <1>2, <1>3, <1>4, <1>7, <2>2, <2>3, <2>4, <2>5, <2>6, <2>7, WithinMoves DEF Validate
  <1> QED
    BY <1>6, <1>7 DEF Validate

LEMMA RollBackKeeps ==
    ASSUME RepairInv, NEW p \in Attempts, NEW f \in Files, RollBack(p, f)
    PROVE  RepairInv'
  <1>1. /\ attempt[p] \in AttemptStates /\ attempt[p].step = "rollback" /\ f \in attempt[p].todo
        /\ FilesFit(attempt[p], backup[p])
        /\ backup[p] \in [Files -> Versions \cup {NoVersion}]
        /\ tree \in Trees /\ good' = good /\ good \in Trees
    BY AttemptKnows DEF RollBack, At
  <1>2. Inside(p)
    BY <1>1 DEF Inside, LockedSteps
  <1>3. PICK m : m = [attempt[p] EXCEPT !.written = @ \ {f}, !.todo = @ \ {f},
                          !.step = IF attempt[p].todo = {f} THEN "mark" ELSE @]
    OBVIOUS
  <1>4. PICK b : b = backup[p]
    OBVIOUS
  <1>5. m \in AttemptStates
    BY <1>1, <1>3 DEF AttemptStates, RepairSteps, LockedSteps
  <1>6. /\ m.session = SessionOf(p) /\ m.before = attempt[p].before
        /\ m.written = attempt[p].written \ {f} /\ m.todo = attempt[p].todo \ {f}
        /\ m.files = attempt[p].files /\ m.prepared = attempt[p].prepared
        /\ m.unrestored = attempt[p].unrestored /\ m.step \in {"rollback", "mark"}
        /\ m.step = "mark" => attempt[p].todo = {f}
    BY <1>1, <1>3 DEF AttemptStates, SessionOf
  <1>7. FilesFit(m, b)
    BY <1>1, <1>4, <1>6 DEF FilesFit, LateSteps, LockedSteps, SessionOf
  <1>8. attempt' = [attempt EXCEPT ![p] = m] /\ backup' = [backup EXCEPT ![p] = b]
    BY <1>1, <1>3, <1>4, AttemptKnows DEF RollBack
  \* what the backup holds is what the attempt found, so a version of the file
  <1>9. backup[p][f] = attempt[p].before[f]
    BY <1>1 DEF FilesFit, LateSteps, LockedSteps
  <1>10. /\ tree' \in Trees /\ tree'[f] = attempt[p].before[f]
         /\ \A g \in Files \ {f} : tree'[g] = tree[g]
    BY <1>1, <1>9 DEF RollBack, Trees, AttemptStates
  <1>11. ASSUME faults' = 0, ~overlap PROVE TreeFits(m)'
    <2>1. TreeFits(attempt[p])
      BY <1>2, <1>11 DEF RepairInv, TreeKept, RollBack
    <2>2. f \in attempt[p].prepared
      BY <1>1 DEF FilesFit, LateSteps
    <2>3. \A g \in attempt[p].prepared : attempt[p].before[g] = good[g]
      BY <1>1, <2>1 DEF TreeFits
    <2>4. \A g \in Files \ m.todo : tree'[g] = good[g]
      <3>1. \A g \in Files \ attempt[p].todo : tree[g] = good[g]
        BY <1>1, <2>1 DEF TreeFits
      <3> QED
        BY <1>6, <1>10, <2>2, <2>3, <3>1
    <2>5. m.step = "mark" => tree' = good
      <3>1. m.step = "mark" => \A g \in Files : tree'[g] = good[g]
        BY <1>6, <2>4
      <3> QED
        BY <1>1, <1>10, <3>1 DEF Trees
    <2> QED
      BY <1>1, <1>6, <2>3, <2>4, <2>5 DEF TreeFits
  <1>12. m.step \in LockedSteps /\ faults' \in 0..MaxFaults /\ faults <= faults'
    BY <1>6, NoFault DEF LockedSteps, RollBack
  <1>13. m.step \in LateSteps
    BY <1>6 DEF LateSteps
  <1> QED
    BY <1>1, <1>2, <1>4, <1>5, <1>6, <1>7, <1>8, <1>10, <1>11, <1>12, <1>13, WithinMoves DEF RollBack

LEMMA MarkRolledBackKeeps ==
    ASSUME RepairInv, NEW p \in Attempts, MarkRolledBack(p)
    PROVE  RepairInv'
  <1>1. /\ attempt[p] \in AttemptStates /\ attempt[p].step = "mark"
        /\ FilesFit(attempt[p], backup[p])
        /\ backup[p] \in [Files -> Versions \cup {NoVersion}]
        /\ tree' = tree /\ tree \in Trees /\ good' = good /\ good \in Trees
    BY AttemptKnows DEF MarkRolledBack, At
  <1>2. Inside(p)
    BY <1>1 DEF Inside, LockedSteps
  <1>3. PICK m : m = [attempt[p] EXCEPT !.step = "save"]
    OBVIOUS
  <1>4. PICK b : b = backup[p]
    OBVIOUS
  <1>5. m \in AttemptStates
    BY <1>1, <1>3 DEF AttemptStates, RepairSteps, LockedSteps
  <1>6. /\ m.session = SessionOf(p) /\ m.before = attempt[p].before
        /\ m.written = attempt[p].written /\ m.todo = attempt[p].todo
        /\ m.files = attempt[p].files /\ m.prepared = attempt[p].prepared
        /\ m.unrestored = attempt[p].unrestored /\ m.step = "save"
    BY <1>1, <1>3 DEF AttemptStates, SessionOf
  <1>7. FilesFit(m, b)
    BY <1>1, <1>4, <1>6 DEF FilesFit, LateSteps, LockedSteps, SessionOf
  <1>8. attempt' = [attempt EXCEPT ![p] = m] /\ backup' = [backup EXCEPT ![p] = b]
    BY <1>1, <1>3, <1>4, AttemptKnows DEF MarkRolledBack
  <1>9. ASSUME faults' = 0, ~overlap PROVE TreeFits(m)'
    <2>1. TreeFits(attempt[p])
      BY <1>2, <1>9 DEF RepairInv, TreeKept, MarkRolledBack
    <2> QED
      BY <1>1, <1>6, <2>1 DEF TreeFits
  <1>10. m.step \in LockedSteps /\ faults' \in 0..MaxFaults /\ faults <= faults'
    BY <1>6, NoFault DEF LockedSteps, MarkRolledBack
  <1>11. m.step \in LateSteps
    BY <1>6 DEF LateSteps
  <1> QED
    BY <1>1, <1>2, <1>4, <1>5, <1>6, <1>7, <1>8, <1>9, <1>10, <1>11, WithinMoves DEF MarkRolledBack

LEMMA RestoreKeeps ==
    ASSUME RepairInv, NEW p \in Attempts, NEW f \in Files, Restore(p, f)
    PROVE  RepairInv'
  <1>1. /\ attempt[p] \in AttemptStates /\ attempt[p].step = "restore" /\ f \in attempt[p].todo
        /\ FilesFit(attempt[p], backup[p])
        /\ backup[p] \in [Files -> Versions \cup {NoVersion}]
        /\ tree \in Trees /\ good' = good /\ good \in Trees
    BY AttemptKnows DEF Restore, At
  <1>2. Inside(p) /\ attempt[p].step \notin LateSteps
    BY <1>1 DEF Inside, LockedSteps, LateSteps
  <1>3. PICK b : b = backup[p]
    OBVIOUS
  <1>4. backup' = [backup EXCEPT ![p] = b]
    BY <1>3, AttemptKnows DEF Restore
  <1>5. CASE /\ tree' = [tree EXCEPT ![f] = attempt[p].before[f]]
             /\ attempt' = [attempt EXCEPT ![p].todo = @ \ {f}, ![p].written = @ \ {f}]
             /\ UNCHANGED faults
    <2>1. PICK m : m = [attempt[p] EXCEPT !.todo = @ \ {f}, !.written = @ \ {f}]
      OBVIOUS
    <2>2. m \in AttemptStates
      BY <1>1, <2>1 DEF AttemptStates
    <2>3. /\ m.session = SessionOf(p) /\ m.before = attempt[p].before
          /\ m.written = attempt[p].written \ {f} /\ m.todo = attempt[p].todo \ {f}
          /\ m.files = attempt[p].files /\ m.prepared = attempt[p].prepared
          /\ m.unrestored = attempt[p].unrestored /\ m.step = "restore"
      BY <1>1, <2>1 DEF AttemptStates, SessionOf
    <2>4. FilesFit(m, b)
      BY <1>1, <1>3, <2>3 DEF FilesFit, LateSteps, LockedSteps, SessionOf
    <2>5. attempt' = [attempt EXCEPT ![p] = m]
      BY <1>1, <1>5, <2>1
    <2>6. /\ tree' \in Trees /\ tree'[f] = attempt[p].before[f]
          /\ \A g \in Files \ {f} : tree'[g] = tree[g]
      BY <1>1, <1>5 DEF Trees, AttemptStates
    <2>7. ASSUME faults' = 0, ~overlap PROVE TreeFits(m)'
      <3>1. TreeFits(attempt[p])
        BY <1>2, <1>5, <2>7 DEF RepairInv, TreeKept
      <3>2. tree = good /\ \A g \in attempt[p].prepared : attempt[p].before[g] = good[g]
        BY <1>1, <3>1 DEF TreeFits
      <3>3. f \in attempt[p].prepared
        BY <1>1 DEF FilesFit
      <3>4. \A g \in Files : tree'[g] = good[g]
        BY <2>6, <3>2, <3>3
      <3>5. tree' = good
        BY <1>1, <2>6, <3>4 DEF Trees
      <3> QED
        BY <1>1, <2>3, <3>2, <3>5 DEF TreeFits
    <2>8. m.step \in LockedSteps /\ faults' \in 0..MaxFaults /\ faults <= faults'
      BY <1>5, <2>3, NoFault DEF LockedSteps
    <2> QED
      BY <1>1, <1>2, <1>3, <1>4, <2>2, <2>3, <2>4, <2>5, <2>6, <2>7, <2>8, WithinMoves DEF Restore
  <1>6. CASE /\ faults < MaxFaults /\ faults' = faults + 1
             /\ attempt' = [attempt EXCEPT ![p].todo = @ \ {f}, ![p].unrestored = @ \cup {f}]
             /\ UNCHANGED tree
    <2>1. PICK m : m = [attempt[p] EXCEPT !.todo = @ \ {f}, !.unrestored = @ \cup {f}]
      OBVIOUS
    <2>2. m \in AttemptStates
      BY <1>1, <2>1 DEF AttemptStates
    <2>3. /\ m.session = SessionOf(p) /\ m.before = attempt[p].before
          /\ m.written = attempt[p].written /\ m.todo = attempt[p].todo \ {f}
          /\ m.files = attempt[p].files /\ m.prepared = attempt[p].prepared
          /\ m.unrestored = attempt[p].unrestored \cup {f} /\ m.step = "restore"
      BY <1>1, <2>1 DEF AttemptStates, SessionOf
    <2>4. FilesFit(m, b)
      BY <1>1, <1>3, <2>3 DEF FilesFit, LateSteps, LockedSteps, SessionOf
    <2>5. attempt' = [attempt EXCEPT ![p] = m]
      BY <1>1, <1>6, <2>1
    <2>6. m.step \in LockedSteps
      BY <2>3 DEF LockedSteps
    <2>7. faults' \in 0..MaxFaults /\ faults <= faults' /\ faults' # 0
      BY <1>6, OneFault
    <2> QED
      BY <1>1, <1>2, <1>3, <1>4, <1>6, <2>2, <2>3, <2>4, <2>5, <2>6, <2>7, WithinMoves DEF Restore
  <1> QED
    BY <1>5, <1>6 DEF Restore

LEMMA ApplyFailsKeeps ==
    ASSUME RepairInv, NEW p \in Attempts, ApplyFails(p)
    PROVE  RepairInv'
  <1>1. /\ attempt[p] \in AttemptStates /\ attempt[p].step \in {"replay", "write", "record"}
        /\ FilesFit(attempt[p], backup[p])
        /\ backup[p] \in [Files -> Versions \cup {NoVersion}]
        /\ tree \in Trees /\ tree' = tree /\ good' = good /\ good \in Trees
    BY AttemptKnows DEF ApplyFails
  <1>2. Inside(p) /\ attempt[p].step \notin LateSteps
    BY <1>1 DEF Inside, LockedSteps, LateSteps
  <1>3. PICK m : m = [attempt[p] EXCEPT !.step = "restore", !.todo = attempt[p].prepared]
    OBVIOUS
  <1>4. PICK b : b = backup[p]
    OBVIOUS
  <1>5. m \in AttemptStates
    BY <1>1, <1>3 DEF AttemptStates, RepairSteps, LockedSteps
  <1>6. /\ m.session = SessionOf(p) /\ m.before = attempt[p].before
        /\ m.written = attempt[p].written /\ m.todo = m.prepared
        /\ m.files = attempt[p].files /\ m.prepared = attempt[p].prepared
        /\ m.unrestored = attempt[p].unrestored /\ m.step = "restore"
    BY <1>1, <1>3 DEF AttemptStates, SessionOf
  <1>7. FilesFit(m, b)
    BY <1>1, <1>4, <1>6 DEF FilesFit, LateSteps, LockedSteps, SessionOf
  <1>8. attempt' = [attempt EXCEPT ![p] = m] /\ backup' = [backup EXCEPT ![p] = b]
    BY <1>1, <1>3, <1>4, AttemptKnows DEF ApplyFails
  <1>9. m.step \in LockedSteps
    BY <1>6 DEF LockedSteps
  <1>10. faults' \in 0..MaxFaults /\ faults <= faults' /\ faults' # 0
    BY OneFault DEF ApplyFails
  <1> QED
    BY <1>1, <1>2, <1>4, <1>5, <1>6, <1>7, <1>8, <1>9, <1>10, WithinMoves DEF ApplyFails

\* Dropping the lock leaves the count of attempts as it is.
LEMMA UnlockedKeepsTheCount ==
    ASSUME RepairInv, NEW p \in Attempts, Inside(p)
    PROVE  /\ session[SessionOf(p)].saved \in Nat
           /\ Unlocked(p) = [session EXCEPT ![SessionOf(p)] =
                                [saved |-> session[SessionOf(p)].saved, lock |-> NoHolder]]
  <1>1. SessionOf(p) \in Sessions /\ session \in [Sessions -> [saved: Nat, lock: Attempts \cup {NoHolder}]]
    BY AttemptKnows DEF Inside, LockedSteps
  <1>2. [session[SessionOf(p)] EXCEPT !.lock = NoHolder]
           = [saved |-> session[SessionOf(p)].saved, lock |-> NoHolder]
    BY <1>1
  <1> QED
    BY <1>1, <1>2 DEF Unlocked

\* What stays of an attempt whose step is set to one outside the lock.
LEMMA LeftBehind ==
    ASSUME RepairInv, NEW p \in Attempts, Inside(p), NEW step \in {"done", "dead"},
           NEW m, m = [attempt[p] EXCEPT !.step = step]
    PROVE  /\ m \in AttemptStates /\ m.step \notin LockedSteps /\ FilesFit(m, backup[p])
           /\ [attempt EXCEPT ![p].step = step] = [attempt EXCEPT ![p] = m]
           /\ backup = [backup EXCEPT ![p] = backup[p]]
  <1>1. /\ attempt[p] \in AttemptStates /\ FilesFit(attempt[p], backup[p])
        /\ attempt \in [Attempts -> AttemptStates]
        /\ backup \in [Attempts -> [Files -> Versions \cup {NoVersion}]]
        /\ SessionOf(p) \in Sessions
    BY AttemptKnows DEF Inside, LockedSteps
  <1>2. m \in AttemptStates
    BY <1>1 DEF AttemptStates, RepairSteps
  <1>3. /\ m.step = step /\ m.session = SessionOf(p) /\ m.before = attempt[p].before
        /\ m.written = attempt[p].written /\ m.todo = attempt[p].todo
        /\ m.files = attempt[p].files /\ m.prepared = attempt[p].prepared
        /\ m.unrestored = attempt[p].unrestored
    BY <1>1 DEF AttemptStates, SessionOf
  <1>4. m.step \notin LockedSteps
    BY <1>3 DEF LockedSteps
  <1>5. FilesFit(m, backup[p])
    BY <1>1, <1>3, <1>4 DEF FilesFit, LateSteps
  <1>6. [attempt EXCEPT ![p].step = step] = [attempt EXCEPT ![p] = m]
    BY <1>1
  <1>7. backup = [backup EXCEPT ![p] = backup[p]]
    BY <1>1
  <1> QED
    BY <1>2, <1>4, <1>5, <1>6, <1>7

LEMMA SaveSessionKeeps ==
    ASSUME RepairInv, NEW p \in Attempts, SaveSession(p)
    PROVE  RepairInv'
  <1>1. Inside(p) /\ attempt[p].step = "save"
    BY DEF SaveSession, At, Inside, LockedSteps
  <1>2. PICK m : m = [attempt[p] EXCEPT !.step = "done"]
    OBVIOUS
  <1>3. PICK b : b = backup[p]
    OBVIOUS
  <1>4. PICK n : n = session[SessionOf(p)].saved + 1
    OBVIOUS
  <1>5. n \in Nat /\ n <= session[SessionOf(p)].saved + 1 /\ session[SessionOf(p)].saved \in Nat
    BY <1>1, <1>4, UnlockedKeepsTheCount
  <1>6. session' = [session EXCEPT ![SessionOf(p)] = [saved |-> n, lock |-> NoHolder]]
    BY <1>4 DEF SaveSession
  <1>7. /\ attempt' = [attempt EXCEPT ![p] = m] /\ backup' = [backup EXCEPT ![p] = b]
        /\ m \in AttemptStates /\ m.step \notin LockedSteps /\ FilesFit(m, b)
        /\ b \in [Files -> Versions \cup {NoVersion}]
    <2>1. attempt' = [attempt EXCEPT ![p].step = "done"] /\ backup' = backup
      BY DEF SaveSession
    <2> QED
      BY <1>1, <1>2, <1>3, <2>1, LeftBehind, AttemptKnows
  <1>8. /\ faults' \in 0..MaxFaults /\ faults <= faults' /\ faults' = faults /\ faults \in Nat
    BY NoFault, AttemptKnows DEF SaveSession
  <1>9. faults' + n > faults + session[SessionOf(p)].saved
    BY <1>4, <1>5, <1>8
  <1>10. ASSUME faults' = 0, ~overlap PROVE tree = good
    BY <1>1, <1>8, <1>10 DEF RepairInv, TreeKept, TreeFits
  <1> QED
    BY <1>1, <1>5, <1>6, <1>7, <1>8, <1>9, <1>10, LeaveMoves DEF SaveSession

LEMMA GiveUpApplyKeeps ==
    ASSUME RepairInv, NEW p \in Attempts, GiveUpApply(p)
    PROVE  RepairInv'
  <1>1. Inside(p) /\ attempt[p].step = "restore" /\ attempt[p].todo = {}
        /\ attempt[p].step \notin LateSteps
    BY DEF GiveUpApply, At, Inside, LockedSteps, LateSteps
  <1>2. PICK m : m = [attempt[p] EXCEPT !.step = "done"]
    OBVIOUS
  <1>3. PICK b : b = [f \in Files |-> NoVersion]
    OBVIOUS
  <1>4. PICK n : n = session[SessionOf(p)].saved
    OBVIOUS
  <1>5. n \in Nat /\ n <= session[SessionOf(p)].saved + 1
    BY <1>1, <1>4, UnlockedKeepsTheCount
  <1>6. session' = [session EXCEPT ![SessionOf(p)] = [saved |-> n, lock |-> NoHolder]]
    BY <1>1, <1>4, UnlockedKeepsTheCount DEF GiveUpApply
  <1>7. /\ attempt' = [attempt EXCEPT ![p] = m] /\ m \in AttemptStates /\ m.step \notin LockedSteps
        /\ FilesFit(m, backup[p])
    <2>1. attempt' = [attempt EXCEPT ![p].step = "done"]
      BY DEF GiveUpApply
    <2> QED
      BY <1>1, <1>2, <2>1, LeftBehind
  <1>8. backup' = [backup EXCEPT ![p] = b] /\ b \in [Files -> Versions \cup {NoVersion}]
    BY <1>3 DEF GiveUpApply, Removed
  \* every file that still holds the patch is one whose restoring failed
  <1>9. FilesFit(m, b)
    <2>1. FilesFit(attempt[p], backup[p]) /\ attempt[p] \in AttemptStates
      BY AttemptKnows
    <2>2. m.written \subseteq m.unrestored
      BY <1>1, <1>2, <2>1 DEF FilesFit, AttemptStates
    <2> QED
      BY <1>7, <2>2 DEF FilesFit
  <1>10. /\ faults' \in 0..MaxFaults /\ faults <= faults' /\ faults' = faults /\ faults \in Nat
    BY NoFault, AttemptKnows DEF GiveUpApply
  <1>11. faults' + n = faults + session[SessionOf(p)].saved
    BY <1>4, <1>5, <1>10
  <1>12. ASSUME faults' = 0, ~overlap PROVE tree = good
    BY <1>1, <1>10, <1>12 DEF RepairInv, TreeKept, TreeFits
  <1> QED
    BY <1>1, <1>5, <1>6, <1>7, <1>8, <1>9, <1>10, <1>11, <1>12, LeaveMoves DEF GiveUpApply

\* A fault in the lock ends the attempt without a record.
LEMMA FaultKeeps ==
    ASSUME RepairInv, NEW p \in Attempts, Inside(p), NEW step \in {"done", "dead"},
           faults < MaxFaults, faults' = faults + 1, session' = Unlocked(p),
           attempt' = [attempt EXCEPT ![p].step = step],
           UNCHANGED <<tree, backup, validations, good, overlap>>
    PROVE  RepairInv'
  <1>1. PICK m : m = [attempt[p] EXCEPT !.step = step]
    OBVIOUS
  <1>2. PICK b : b = backup[p]
    OBVIOUS
  <1>3. PICK n : n = session[SessionOf(p)].saved
    OBVIOUS
  <1>4. /\ n \in Nat /\ n <= session[SessionOf(p)].saved + 1
        /\ session' = [session EXCEPT ![SessionOf(p)] = [saved |-> n, lock |-> NoHolder]]
    BY <1>3, UnlockedKeepsTheCount
  <1>5. /\ attempt' = [attempt EXCEPT ![p] = m] /\ backup' = [backup EXCEPT ![p] = b]
        /\ m \in AttemptStates /\ m.step \notin LockedSteps /\ FilesFit(m, b)
        /\ b \in [Files -> Versions \cup {NoVersion}]
    BY <1>1, <1>2, LeftBehind, AttemptKnows
  <1>6. /\ faults' \in 0..MaxFaults /\ faults <= faults' /\ faults' # 0 /\ faults \in Nat
    BY OneFault, AttemptKnows
  <1>7. faults' + n > faults + session[SessionOf(p)].saved
    BY <1>3, <1>4, <1>6
  <1> QED
    BY <1>4, <1>5, <1>6, <1>7, LeaveMoves

LEMMA InitRepairInv == RepairInit => RepairInv
  <1> SUFFICES ASSUME RepairInit PROVE RepairInv
    OBVIOUS
  <1>1. tree \in Trees /\ good = tree
    BY DEF RepairInit, Trees
  <1>2. PICK m : m = [step |-> "idle", session |-> NoSession, before |-> tree, after |-> tree,
                      files |-> {}, prepared |-> {}, written |-> {}, todo |-> {},
                      accepted |-> FALSE, unrestored |-> {}]
    OBVIOUS
  <1>3. m \in AttemptStates
    BY <1>1, <1>2 DEF AttemptStates, RepairSteps
  <1>4. attempt \in [Attempts -> AttemptStates] /\ \A q \in Attempts : attempt[q] = m
    BY <1>2, <1>3 DEF RepairInit
  <1>5. \A q \in Attempts : ~Inside(q)
    BY <1>2, <1>4 DEF Inside, LockedSteps
  <1>6. RepairTypeOK
    <2>1. backup \in [Attempts -> [Files -> Versions \cup {NoVersion}]]
      BY DEF RepairInit
    <2>2. session \in [Sessions -> [saved: Nat, lock: Attempts \cup {NoHolder}]]
      BY DEF RepairInit
    <2>3. validations \in [Sessions -> Nat] /\ overlap \in BOOLEAN
      BY DEF RepairInit
    <2>4. faults \in 0..MaxFaults
      BY RepairAssumption DEF RepairInit
    <2> QED
      BY <1>1, <1>4, <2>1, <2>2, <2>3, <2>4 DEF RepairTypeOK
  <1>7. \A q \in Attempts : FilesFit(attempt[q], backup[q])
    BY <1>2, <1>4 DEF FilesFit, LateSteps, LockedSteps
  <1>8. \A s \in Sessions : BudgetFits(s)
    BY RepairAssumption DEF RepairInit, BudgetFits
  <1>9. LocksHeld /\ OneInside /\ TreeKept
    BY <1>1, <1>5 DEF LocksHeld, OneInside, TreeKept
  <1> QED
    BY <1>6, <1>7, <1>8, <1>9 DEF RepairInv

LEMMA NextRepairInv == RepairInv /\ [RepairNext]_repairVars => RepairInv'
  <1> SUFFICES ASSUME RepairInv, [RepairNext]_repairVars PROVE RepairInv'
    OBVIOUS
  <1>1. ASSUME NEW p \in Attempts, AttemptStep(p) PROVE RepairInv'
    <2>1. CASE LateWriteFails(p)
      BY <2>1, FaultKeeps DEF LateWriteFails, Inside, LockedSteps
    <2>2. CASE AttemptDies(p)
      BY <2>2, FaultKeeps DEF AttemptDies
    <2> QED
      BY <1>1, <2>1, <2>2, ProposeKeeps, BeginRepairKeeps, RecordTransactionKeeps, ValidateKeeps,
         MarkRolledBackKeeps, SaveSessionKeeps, GiveUpApplyKeeps, ApplyFailsKeeps DEF AttemptStep
  <1>2. ASSUME NEW p \in Attempts, NEW f \in Files, FileStep(p, f) PROVE RepairInv'
    BY <1>2, ReplayKeeps, ReplaceFileKeeps, RollBackKeeps, RestoreKeeps DEF FileStep
  <1>3. CASE UNCHANGED repairVars
    <2>1. /\ tree' = tree /\ attempt' = attempt /\ backup' = backup /\ session' = session
          /\ validations' = validations /\ good' = good /\ faults' = faults /\ overlap' = overlap
      BY <1>3 DEF repairVars
    <2>2. RepairTypeOK' /\ \A q \in Attempts : FilesFit(attempt'[q], backup'[q])
      BY <2>1 DEF RepairInv, RepairTypeOK
    <2>3. LocksHeld' /\ OneInside'
      BY <2>1 DEF RepairInv, LocksHeld, OneInside, Inside, SessionOf
    <2>4. \A s \in Sessions : BudgetFits(s)'
      BY <2>1 DEF RepairInv, BudgetFits, SessionOf
    <2>5. TreeKept'
      BY <2>1 DEF RepairInv, TreeKept, TreeFits, Inside
    <2> QED
      BY <2>2, <2>3, <2>4, <2>5 DEF RepairInv
  <1> QED
    BY <1>1, <1>2, <1>3 DEF RepairNext

LEMMA RepairInvHolds == RepairSpec => []RepairInv
  BY InitRepairInv, NextRepairInv, PTL DEF RepairSpec

-----------------------------------------------------------------------------
(* Packages.  A directory lacks files only while somebody removes it or      *)
(* after a removal stopped half way; so a reader that met none of it has a   *)
(* whole directory before it from its look to its last file.  A reader of a  *)
(* staging directory keeps it: each call has a directory of its own, in      *)
(* which there is nothing until the call has staged it.                     *)

Directories == [PackageFiles -> Packages \cup {Gone}]
Ends == Results \ {"ready"}
PackagePlaces == Results \cup {"idle", "lock", "check", "stage", "clear", "publish", "discard",
                               "exists", "find", "refind", "list", "copy", "require"}
Using == [at : PackagePlaces, call : 0..MaxCalls, job : {"none", "install", "remove", "use"},
          pkg : Packages \cup {Gone}, force : BOOLEAN, from : PackageDirs,
          listed : SUBSET PackageFiles, copy : Directories]

\* A call is at a place of its job, and has a number that was given.
JobFits(m) ==
    /\ m.job = "none" => m.at \in Ends \cup {"idle"}
    /\ m.job = "remove" => m.at \in {"exists", "clear"} /\ kind # "module"
    /\ m.job \in {"install", "use"} => m.pkg \in Packages
    /\ m.at = "require" => kind # "module"
    /\ m.at \in {"list", "copy", "discard"} => kind = "module"
    /\ m.at \in {"find", "refind", "list", "copy", "require", "ready"} => m.job = "use"
    /\ m.call \in 0..calls /\ (m.job # "none" => m.call # 0)

\* A call that has not staged yet has no staging directory.
NothingStaged(m) ==
    m.call # 0 /\ m.at \in {"exists", "find", "lock", "check", "stage"} => staged[m.call] = Empty

\* What a reader nobody disturbed has before it, or was given.
Sees(m) ==
    /\ m.at = "require" => Complete(dir)
    /\ m.at \in {"list", "copy"} => FilesAt(m.from) = Whole(m.pkg)
    /\ m.at = "copy" => \A f \in PackageFiles \ m.listed : m.copy[f] = m.pkg
    /\ m.at = "ready" => Complete(m.copy) /\ (kind = "module" => m.copy = Whole(m.pkg))

UseFits(u, m) == JobFits(m) /\ NothingStaged(m) /\ (~damaged /\ u \notin met => Sees(m))

Unmixed(d) == \A f, g \in PackageFiles : Gone \in {d[f], d[g]} \/ d[f] = d[g]

\* OnlyCutRemovalsLeaveParts, place by place.
PartsExplained ==
    /\ there /\ ~Complete(dir) => Removing \/ damaged
    /\ \A s \in StagingDirs : HasParts(staged[s]) =>
          damaged \/ \E u \in Users : CallAt(u, "discard") /\ used[u].call = s
    /\ Unmixed(dir)
    /\ \A s \in StagingDirs : Unmixed(staged[s])

PackInv ==
    /\ kind \in Kinds /\ there \in BOOLEAN /\ damaged \in BOOLEAN /\ calls \in 0..MaxCalls
    /\ dir \in Directories /\ staged \in [StagingDirs -> Directories] /\ used \in [Users -> Using]
    /\ ~there => dir = Empty
    /\ \A s \in StagingDirs : s > calls => staged[s] = Empty
    /\ PartsExplained
    /\ \A u, v \in Users : used[u].call = used[v].call /\ used[u].call # 0 => u = v
    /\ \A u \in Users : UseFits(u, used[u])

\* What the invariant is for.
LEMMA PackInvProperties == PackInv => PackagesSound
  <1> SUFFICES ASSUME PackInv PROVE PackagesSound
    OBVIOUS
  <1>1. OnlyCutRemovalsLeaveParts
    <2>1. PartsExplained
      BY DEF PackInv
    <2>2. \A place \in PackageDirs : Unmixed(FilesAt(place))
      BY <2>1 DEF PartsExplained, PackageDirs, FilesAt
    <2> QED
      BY <2>1, <2>2 DEF PartsExplained, OnlyCutRemovalsLeaveParts, Unmixed
  <1>2. OnlyRacesGiveParts
    BY DEF PackInv, UseFits, Sees, OnlyRacesGiveParts, CallAt
  <1> QED
    BY <1>1, <1>2 DEF PackagesSound

LEMMA PackageFacts ==
    /\ NoUse \in Using /\ NoUse.at = "idle" /\ NoUse.job = "none" /\ NoUse.call = 0
    /\ Empty \in Directories /\ Unmixed(Empty) /\ ~HasParts(Empty)
    /\ \A p \in Packages : /\ Whole(p) \in Directories /\ Whole(p) # Empty
                           /\ Unmixed(Whole(p)) /\ Complete(Whole(p)) /\ ~HasParts(Whole(p))
    /\ \A p \in Packages, f \in PackageFiles : Whole(p)[f] = p
    /\ "meta" \in PackageFiles /\ "entry" \in PackageFiles
    /\ 0 \notin StagingDirs /\ StagingDirs = (0..MaxCalls) \ {0} /\ PackageDirs = 0..MaxCalls
  <1>1. Empty \in Directories /\ Unmixed(Empty) /\ ~HasParts(Empty)
    BY DEF Empty, Directories, Unmixed, HasParts
  <1>2. 0 \notin StagingDirs /\ StagingDirs = (0..MaxCalls) \ {0} /\ PackageDirs = 0..MaxCalls
    BY StoreAssumption DEF StagingDirs, PackageDirs, Destination
  <1>3. NoUse \in Using /\ NoUse.at = "idle" /\ NoUse.job = "none" /\ NoUse.call = 0
    BY <1>1, <1>2, StoreAssumption DEF NoUse, Using, PackagePlaces, Destination
  <1>4. ASSUME NEW p \in Packages
        PROVE  /\ Whole(p) \in Directories /\ Whole(p) # Empty
               /\ \A f \in PackageFiles : Whole(p)[f] = p
    <2>1. Whole(p)["meta"] = p /\ Empty["meta"] = Gone
      BY DEF Whole, Empty, PackageFiles
    <2> QED
      BY <2>1, StoreAssumption DEF Whole, Directories
  <1>5. ASSUME NEW p \in Packages
        PROVE  Unmixed(Whole(p)) /\ Complete(Whole(p)) /\ ~HasParts(Whole(p))
    BY <1>4 DEF Unmixed, Complete, HasParts
  <1> QED
    BY <1>1, <1>2, <1>3, <1>4, <1>5 DEF PackageFiles

\* A whole directory is of the package its metadata names.
LEMMA CompleteFacts ==
    ASSUME NEW d, Complete(d)
    PROVE  d["meta"] \in Packages /\ d = Whole(d["meta"])
           /\ \A f \in PackageFiles : d[f] = d["meta"]
  BY PackageFacts DEF Complete

\* What a call may rely on.
LEMMA UserKnows ==
    ASSUME PackInv, NEW u \in Users
    PROVE  /\ used \in [Users -> Using] /\ used[u] \in Using
           /\ UseFits(u, used[u]) /\ JobFits(used[u])
           /\ kind \in Kinds /\ there \in BOOLEAN /\ damaged \in BOOLEAN /\ dir \in Directories
           /\ staged \in [StagingDirs -> Directories]
           /\ calls \in 0..MaxCalls /\ calls \in Nat /\ MaxCalls \in Nat
           /\ ~there => dir = Empty
           /\ there /\ ~Complete(dir) => Removing \/ damaged
           /\ used[u].call # 0 => used[u].call \in StagingDirs
           /\ used[u].at \notin Ends \cup {"idle"} => used[u].job # "none"
           /\ used[u].at \notin Ends \cup {"idle", "exists", "clear"} =>
                 used[u].job \in {"install", "use"} /\ used[u].pkg \in Packages
  <1>1. used[u] \in Using /\ UseFits(u, used[u]) /\ JobFits(used[u])
    BY DEF PackInv, UseFits
  <1>2. used[u].call # 0 => used[u].call \in StagingDirs
    BY <1>1, PackageFacts DEF Using
  <1>3. /\ used[u].at \notin Ends \cup {"idle"} => used[u].job # "none"
        /\ used[u].at \notin Ends \cup {"idle", "exists", "clear"} =>
              used[u].job \in {"install", "use"} /\ used[u].pkg \in Packages
    BY <1>1 DEF JobFits, Using
  <1>4. calls \in 0..MaxCalls /\ calls \in Nat /\ MaxCalls \in Nat
    BY StoreAssumption DEF PackInv
  <1> QED
    BY <1>1, <1>2, <1>3, <1>4 DEF PackInv, PartsExplained

\* A step of one call: the others keep what they see, or are disturbed.
LEMMA PackageStep ==
    ASSUME PackInv, NEW u \in Users, NEW m \in Using, used' = [used EXCEPT ![u] = m],
           kind' = kind, there' \in BOOLEAN, dir' \in Directories, ~there' => dir' = Empty,
           staged' \in [StagingDirs -> Directories], calls' \in 0..MaxCalls, calls <= calls',
           \A s \in StagingDirs : s > calls' => staged'[s] = Empty,
           \A s \in StagingDirs : staged[s] = Empty /\ s # used[u].call => staged'[s] = Empty,
           damaged' \in BOOLEAN, damaged => damaged',
           \A v \in Users \ {u} : v \in met => v \in met',
           Disturb \/ \A n \in Using : JobFits(n) /\ Sees(n) => Sees(n)',
           m.call \in {0, used[u].call} \/ m.call > calls,
           PartsExplained', JobFits(m)', NothingStaged(m)',
           ~damaged' /\ u \notin met' => Sees(m)'
    PROVE  PackInv'
  <1>1. /\ kind \in Kinds /\ calls \in 0..MaxCalls /\ used \in [Users -> Using]
        /\ \A v, w \in Users : used[v].call = used[w].call /\ used[v].call # 0 => v = w
        /\ \A v \in Users : UseFits(v, used[v])
    BY DEF PackInv
  <1>2. /\ used' \in [Users -> Using] /\ used'[u] = m
        /\ \A v \in Users \ {u} : used'[v] = used[v]
    BY <1>1
  <1>3. UseFits(u, m)'
    BY DEF UseFits
  <1>4. ASSUME NEW v \in Users \ {u} PROVE UseFits(v, used[v])'
    <2>1. UseFits(v, used[v]) /\ used'[v] = used[v] /\ used[v] \in Using
      BY <1>1, <1>2
    <2>2. PICK n \in Using : n = used[v]
      BY <2>1
    <2>3. JobFits(n) /\ NothingStaged(n) /\ (~damaged /\ v \notin met => Sees(n))
      BY <2>1, <2>2 DEF UseFits
    <2>4. n.call \in 0..calls /\ n.call \in 0..calls'
      BY <1>1, <2>3 DEF JobFits
    <2>5. JobFits(n)'
      BY <2>3, <2>4 DEF JobFits
    <2>6. NothingStaged(n)'
      <3> SUFFICES ASSUME n.call # 0,
                          n.at \in {"exists", "find", "lock", "check", "stage"}
                   PROVE  staged'[n.call] = Empty
        BY DEF NothingStaged
      <3>0. staged[n.call] = Empty
        BY <2>3 DEF NothingStaged
      <3>1. n.call \in StagingDirs
        BY <2>2, PackageFacts DEF Using
      <3>2. n.call # used[u].call
        BY <1>1, <2>2
      <3> QED
        BY <3>0, <3>1, <3>2
    <2>7. ~damaged' /\ v \notin met' => Sees(n)'
      <3>1. CASE \A k \in Using : JobFits(k) /\ Sees(k) => Sees(k)'
        BY <2>3, <3>1
      <3>2. CASE Disturb /\ n.at \in {"list", "copy", "require"}
        BY <2>2, <3>2 DEF Disturb
      <3>3. CASE n.at \notin {"list", "copy", "require"}
        BY <2>3, <3>3 DEF Sees
      <3> QED
        BY <3>1, <3>2, <3>3
    <2>8. UseFits(v, n)'
      BY <2>5, <2>6, <2>7 DEF UseFits
    <2> QED
      BY <2>1, <2>2, <2>8
  <1>5. \A v \in Users : UseFits(v, used[v])'
    BY <1>2, <1>3, <1>4
  <1>6. \A v, w \in Users : used'[v].call = used'[w].call /\ used'[v].call # 0 => v = w
    <2>1. ASSUME NEW v \in Users \ {u}, m.call = used[v].call, m.call # 0 PROVE FALSE
      <3>1. used[v].call \in 0..calls
        BY <1>1 DEF UseFits, JobFits
      <3> QED
        BY <1>1, <2>1, <3>1
    <2> QED
      BY <1>1, <1>2, <2>1
  <1> QED
    BY <1>1, <1>2, <1>5, <1>6 DEF PackInv

\* What explains the parts still explains them, unless the call that removes
\* them stops.
LEMMA PartsStay ==
    ASSUME PackInv, NEW u \in Users, NEW m \in Using, used' = [used EXCEPT ![u] = m],
           UNCHANGED <<there, dir, staged>>, damaged' \in BOOLEAN, damaged => damaged',
           CutRemoval(u) => m.at = "clear" \/ damaged',
           CallAt(u, "discard") /\ HasParts(staged[used[u].call]) =>
               damaged' \/ (m.at = "discard" /\ m.call = used[u].call)
    PROVE  PartsExplained'
  <1>1. used \in [Users -> Using] /\ PartsExplained
    BY DEF PackInv
  <1>2. used'[u] = m /\ \A v \in Users \ {u} : used'[v] = used[v]
    BY <1>1
  <1>3. ASSUME there', ~Complete(dir'), ~damaged' PROVE Removing'
    <2>1. PICK v \in Users : used[v].at = "clear"
      BY <1>1, <1>3 DEF PartsExplained, Removing, CallAt
    <2>2. used'[v].at = "clear"
      BY <1>2, <1>3, <2>1 DEF CutRemoval, CallAt
    <2> QED
      BY <2>2 DEF Removing, CallAt
  <1>4. ASSUME NEW s \in StagingDirs, HasParts(staged'[s]), ~damaged'
        PROVE  \E v \in Users : used'[v].at = "discard" /\ used'[v].call = s
    <2>1. PICK v \in Users : used[v].at = "discard" /\ used[v].call = s
      BY <1>1, <1>4 DEF PartsExplained, CallAt
    <2> QED
      BY <1>2, <1>4, <2>1 DEF CallAt
  <1>5. Unmixed(dir') /\ \A s \in StagingDirs : Unmixed(staged'[s])
    BY <1>1 DEF PartsExplained
  <1> QED
    BY <1>3, <1>4, <1>5 DEF PartsExplained, CallAt

\* A step of one call that leaves the directories alone.
LEMMA UserMoves ==
    ASSUME PackInv, NEW u \in Users, NEW m \in Using, used' = [used EXCEPT ![u] = m],
           UNCHANGED <<kind, there, dir, staged, calls>>,
           damaged' \in BOOLEAN, damaged => damaged',
           \A v \in Users \ {u} : v \in met => v \in met',
           CutRemoval(u) => m.at = "clear" \/ damaged',
           CallAt(u, "discard") /\ HasParts(staged[used[u].call]) =>
               damaged' \/ (m.at = "discard" /\ m.call = used[u].call),
           m.call \in {0, used[u].call},
           JobFits(m), NothingStaged(m), ~damaged' /\ u \notin met' => Sees(m)
    PROVE  PackInv'
  <1>1. /\ kind \in Kinds /\ there \in BOOLEAN /\ dir \in Directories /\ (~there => dir = Empty)
        /\ staged \in [StagingDirs -> Directories] /\ calls \in 0..MaxCalls
        /\ \A s \in StagingDirs : s > calls => staged[s] = Empty
    BY DEF PackInv
  <1>2. \A n : Sees(n) => Sees(n)'
    BY DEF Sees, FilesAt
  <1>3. JobFits(m)' /\ NothingStaged(m)'
    BY DEF JobFits, NothingStaged
  <1>4. PartsExplained'
    BY PartsStay
  <1>5. ~damaged' /\ u \notin met' => Sees(m)'
    BY <1>2
  <1>6. calls <= calls'
    BY <1>1
  <1> QED
    BY <1>1, <1>2, <1>3, <1>4, <1>5, <1>6, PackageStep

\* A call that only moves.
LEMMA UserGoesOn ==
    ASSUME PackInv, NEW u \in Users, NEW at \in PackagePlaces, Move(u, at),
           UNCHANGED <<kind, there, dir, staged, calls>>,
           damaged' \in BOOLEAN, damaged => damaged',
           \A v \in Users \ {u} : v \in met => v \in met',
           ~CallAt(u, "clear") \/ at = "clear" \/ damaged' \/ ~CutRemoval(u),
           ~CallAt(u, "discard"), used[u].job # "none",
           at \notin Ends \cup {"idle", "list", "copy", "ready"},
           at \in {"find", "refind"} => used[u].job = "use",
           used[u].job = "remove" => at \in {"exists", "clear"},
           at = "discard" => kind = "module",
           at \in {"exists", "find", "lock", "check", "stage"} =>
               used[u].at \in {"exists", "find", "lock", "check", "stage"},
           at = "require" => used[u].job = "use" /\ kind # "module"
                             /\ (~damaged' /\ u \notin met' => Complete(dir))
    PROVE  PackInv'
  <1>m. PICK m : m = [used[u] EXCEPT !.at = at]
    OBVIOUS
  <1>1. /\ m \in Using /\ m.at = at /\ m.job = used[u].job /\ m.pkg = used[u].pkg
        /\ m.call = used[u].call /\ used' = [used EXCEPT ![u] = m]
    BY <1>m, UserKnows DEF Using, Move
  <1>2. JobFits(m)
    BY <1>1, UserKnows DEF JobFits
  <1>3. NothingStaged(m)
    BY <1>1, UserKnows DEF UseFits, NothingStaged
  <1>4. ~damaged' /\ u \notin met' => Sees(m)
    BY <1>1 DEF Sees, Ends, Results
  <1>5. m.call \in {0, used[u].call} /\ (CutRemoval(u) => m.at = "clear" \/ damaged')
    BY <1>1 DEF CutRemoval
  <1> QED
    BY <1>1, <1>2, <1>3, <1>4, <1>5, UserMoves

\* A call that ends without anything for a run.
LEMMA EndFacts ==
    ASSUME PackInv, NEW u \in Users, NEW result \in Ends \cup {"idle"}
    PROVE  \E m \in Using : /\ m = [NoUse EXCEPT !.at = result] /\ m.at = result /\ m.call = 0
                            /\ m.job = "none" /\ NothingStaged(m) /\ Sees(m) /\ JobFits(m)
                            /\ NothingStaged(m)' /\ Sees(m)'
                            /\ (calls' \in Nat => JobFits(m)')
  <1>m. PICK m : m = [NoUse EXCEPT !.at = result]
    OBVIOUS
  <1>1. /\ m \in Using /\ m.at = result /\ m.call = 0 /\ m.job = "none"
    BY <1>m, PackageFacts DEF Using, NoUse, PackagePlaces, Ends
  <1>2. /\ result \in Results \cup {"idle"} /\ result # "ready"
        /\ result \notin {"discard", "list", "copy", "require", "find", "refind"}
    BY DEF Ends, Results
  <1>3. NothingStaged(m) /\ NothingStaged(m)' /\ Sees(m) /\ Sees(m)'
    BY <1>1, <1>2 DEF NothingStaged, Sees
  <1>4. JobFits(m) /\ (calls' \in Nat => JobFits(m)')
    BY <1>1, <1>2, UserKnows DEF JobFits
  <1> QED
    BY <1>m, <1>1, <1>3, <1>4

LEMMA UserEnds ==
    ASSUME PackInv, NEW u \in Users, NEW result \in Ends \cup {"idle"},
           used' = [used EXCEPT ![u] = [NoUse EXCEPT !.at = result]],
           UNCHANGED <<kind, there, dir, staged, calls>>,
           damaged' \in BOOLEAN, damaged => damaged',
           \A v \in Users \ {u} : v \in met => v \in met',
           CutRemoval(u) => damaged',
           CallAt(u, "discard") /\ HasParts(staged[used[u].call]) => damaged'
    PROVE  PackInv'
  BY EndFacts, UserMoves

\* A call that moves at a place of an install or of a use.
LEMMA InstallMoves ==
    ASSUME PackInv, NEW u \in Users,
           used[u].at \in {"lock", "check", "stage", "publish", "find", "refind", "list", "copy"},
           NEW at \in PackagePlaces,
           at \in {"lock", "check", "stage", "clear", "publish", "refind"}, Move(u, at),
           at \in {"lock", "check", "stage"} => used[u].at \in {"lock", "check", "find"},
           at = "refind" => used[u].job = "use",
           UNCHANGED <<kind, there, dir, staged, calls, damaged>>,
           \A v \in Users \ {u} : v \in met => v \in met'
    PROVE  PackInv'
  <1>1. /\ used[u].job \in {"install", "use"} /\ used[u].at \notin Ends \cup {"idle"}
        /\ ~CallAt(u, "clear") /\ ~CallAt(u, "discard") /\ damaged \in BOOLEAN
    BY UserKnows DEF CallAt, Ends, Results
  <1>2. at \notin Ends \cup {"idle", "list", "copy", "ready", "require", "discard"}
    BY DEF Ends, Results
  <1> QED
    BY <1>1, <1>2, UserGoesOn

\* The same for one that ends there.
LEMMA InstallEnds ==
    ASSUME PackInv, NEW u \in Users,
           used[u].at \notin {"clear", "discard"},
           NEW result \in Ends, End(u, result),
           UNCHANGED <<kind, there, dir, staged, calls, damaged>>,
           \A v \in Users \ {u} : v \in met => v \in met'
    PROVE  PackInv'
  <1>1. ~CutRemoval(u) /\ ~CallAt(u, "discard") /\ damaged \in BOOLEAN
    BY UserKnows DEF CutRemoval, CallAt
  <1> QED
    BY <1>1, UserEnds DEF End

LEMMA BeginCallInv ==
    ASSUME PackInv, NEW u \in Users, NEW p \in Packages \cup {Gone}, NEW force \in BOOLEAN,
           NEW job \in {"install", "remove", "use"}, job # "remove" => p \in Packages,
           job = "remove" => kind # "module", BeginCall(u, job, p, force)
    PROVE  PackInv'
  <1>a. PICK at : at = CASE job = "install" -> "lock" [] job = "remove" -> "exists"
                         [] job = "use" -> "find"
    OBVIOUS
  <1>m. PICK m : m = [NoUse EXCEPT !.call = calls + 1, !.job = job, !.pkg = p, !.force = force,
                                   !.at = at]
    OBVIOUS
  <1>1. /\ at \in {"lock", "exists", "find"} /\ (job = "remove" => at = "exists")
        /\ at = "find" => job = "use"
    <2>1. CASE job = "install"
      BY <1>a, <2>1, Zenon
    <2>2. CASE job = "remove"
      BY <1>a, <2>2, Zenon
    <2>3. CASE job = "use"
      BY <1>a, <2>3, Zenon
    <2> QED
      BY <2>1, <2>2, <2>3
  <1>2. /\ calls \in 0..MaxCalls /\ calls < MaxCalls /\ calls' = calls + 1
        /\ calls' \in 0..MaxCalls /\ calls <= calls' /\ calls' \in StagingDirs
        /\ staged \in [StagingDirs -> Directories]
        /\ \A s \in StagingDirs : s > calls => staged[s] = Empty
    BY StoreAssumption DEF BeginCall, PackInv, StagingDirs
  <1>3. /\ m \in Using /\ m.at = at /\ m.job = job /\ m.pkg = p /\ m.call = calls + 1
        /\ used' = [used EXCEPT ![u] = m]
    <2>1. used' = [used EXCEPT ![u] = m]
      BY <1>a, <1>m DEF BeginCall
    <2>2. at \in PackagePlaces /\ job \in {"none", "install", "remove", "use"}
      BY <1>1 DEF PackagePlaces
    <2>3. calls + 1 \in 0..MaxCalls
      BY <1>2
    <2> QED
      BY <1>m, <2>1, <2>2, <2>3, PackageFacts DEF NoUse, Using
  <1>4. /\ UNCHANGED <<kind, there, dir, staged, damaged, met>>
        /\ ~CallAt(u, "clear") /\ ~CallAt(u, "discard")
    BY DEF BeginCall, CallAt, Results, disk
  <1>5. JobFits(m)' /\ NothingStaged(m)' /\ Sees(m)'
    <2>1. JobFits(m)'
      BY <1>1, <1>2, <1>3, <1>4 DEF JobFits
    <2>2. staged[m.call] = Empty
      BY <1>2, <1>3
    <2>3. NothingStaged(m)'
      BY <1>4, <2>2 DEF NothingStaged
    <2> QED
      BY <1>1, <1>3, <2>1, <2>3 DEF Sees
  <1>6. PartsExplained'
    BY <1>3, <1>4, UserKnows, PartsStay DEF CutRemoval
  <1>7. \A n : Sees(n) => Sees(n)'
    BY <1>4 DEF Sees, FilesAt
  <1>8. \A s \in StagingDirs : s > calls' => staged'[s] = Empty
    <2> SUFFICES ASSUME NEW s \in StagingDirs, s > calls' PROVE staged[s] = Empty
      BY <1>4
    <2>1. s > calls
      BY <1>2 DEF StagingDirs
    <2> QED
      BY <1>2, <2>1
  <1>9. m.call > calls
    BY <1>2, <1>3
  <1>10. /\ kind' = kind /\ there' \in BOOLEAN /\ dir' \in Directories /\ (~there' => dir' = Empty)
         /\ staged' \in [StagingDirs -> Directories] /\ damaged' \in BOOLEAN /\ damaged' = damaged
    BY <1>4, UserKnows
  <1>11. /\ \A s \in StagingDirs : staged[s] = Empty => staged'[s] = Empty
         /\ kind' = kind /\ (\A v \in Users \ {u} : v \in met => v \in met')
    BY <1>4
  <1> QED
    BY <1>2, <1>3, <1>5, <1>6, <1>7, <1>8, <1>9, <1>10, <1>11, PackageStep

LEMMA AfterInstallFacts ==
    ASSUME PackInv, NEW u \in Users, AfterInstall(u)
    PROVE  (Move(u, "refind") /\ used[u].job = "use") \/ End(u, "installed")
  BY DEF AfterInstall

\* The staging directory of a call is filled: nobody read it.
LEMMA StageInv == ASSUME PackInv, NEW u \in Users, Stage(u) PROVE PackInv'
  <1>1. /\ used[u].at = "stage" /\ UNCHANGED <<kind, there, dir, calls, damaged, met>>
        /\ used[u].job \in {"install", "use"} /\ used[u].pkg \in Packages
        /\ ~CutRemoval(u) /\ ~CallAt(u, "discard")
    BY UserKnows DEF Stage, CallAt, Ends, Results, CutRemoval
  <1>2. CASE End(u, "failed") /\ UNCHANGED staged
    BY <1>1, <1>2, InstallEnds DEF Ends, Results
  <1>3. CASE /\ Move(u, IF there THEN "clear" ELSE "publish")
             /\ staged' = IF kind = "module" THEN [staged EXCEPT ![used[u].call] = Whole(used[u].pkg)]
                          ELSE staged
    <2>1. PICK at \in PackagePlaces : at \in {"clear", "publish"} /\ Move(u, at)
      BY <1>3 DEF PackagePlaces
    <2>2. CASE kind # "module"
      BY <1>1, <1>3, <2>1, <2>2, InstallMoves
    <2>3. CASE kind = "module"
      <3>m. PICK m : m = [used[u] EXCEPT !.at = at]
        OBVIOUS
      <3>1. /\ m \in Using /\ m.at = at /\ m.job = used[u].job /\ m.pkg = used[u].pkg
            /\ m.call = used[u].call /\ used' = [used EXCEPT ![u] = m]
        BY <2>1, <3>m, UserKnows DEF Using, Move
      <3>2. /\ used[u].call \in StagingDirs /\ used[u].call <= calls
            /\ staged[used[u].call] = Empty /\ staged \in [StagingDirs -> Directories]
            /\ calls \in 0..MaxCalls
        BY <1>1, UserKnows DEF UseFits, JobFits, NothingStaged
      <3>3. /\ staged' \in [StagingDirs -> Directories]
            /\ staged'[used[u].call] = Whole(used[u].pkg)
            /\ \A s \in StagingDirs : s # used[u].call => staged'[s] = staged[s]
        BY <1>1, <1>3, <2>3, <3>2, PackageFacts
      <3>4. ASSUME NEW n \in Using, JobFits(n), Sees(n) PROVE Sees(n)'
        <4>1. ASSUME n.at \in {"list", "copy"} PROVE FilesAt(n.from)' = Whole(n.pkg)
          <5>1. n.from \in StagingDirs \cup {0} /\ n.pkg \in Packages
            BY <3>4, <4>1, PackageFacts DEF Using, PackageDirs, Destination, JobFits
          <5>2. CASE n.from = 0
            BY <1>1, <3>4, <4>1, <5>2 DEF Sees, FilesAt, Destination
          <5>3. CASE n.from \in StagingDirs
            <6>1. staged[n.from] = Whole(n.pkg) /\ n.from # 0
              BY <3>4, <4>1, <5>3, PackageFacts DEF Sees, FilesAt, Destination
            <6>2. n.from # used[u].call
              BY <3>2, <5>1, <6>1, PackageFacts
            <6> QED
              BY <3>3, <5>3, <6>1, <6>2 DEF FilesAt, Destination
          <5> QED
            BY <5>1, <5>2, <5>3
        <4> QED
          BY <1>1, <3>4, <4>1 DEF Sees
      <3>5. JobFits(m)' /\ NothingStaged(m)' /\ Sees(m)'
        BY <1>1, <2>1, <3>1, UserKnows DEF JobFits, NothingStaged, Sees
      <3>6. \A s \in StagingDirs : s > calls' => staged'[s] = Empty
        BY <1>1, <3>2, <3>3 DEF PackInv, StagingDirs
      <3>7. PartsExplained'
        <4>0. PartsExplained /\ used \in [Users -> Using]
          BY DEF PackInv
        <4>1. /\ \A v \in Users : used[v].at # "stage" => used'[v] = used[v]
          BY <1>1, <3>1, <4>0
        <4>2. there /\ ~Complete(dir) => Removing' \/ damaged
          BY <4>0, <4>1 DEF PartsExplained, Removing, CallAt
        <4>3. ASSUME NEW s \in StagingDirs, HasParts(staged'[s]), ~damaged
              PROVE  \E v \in Users : used'[v].at = "discard" /\ used'[v].call = s
          <5>1. HasParts(staged[s])
            BY <1>1, <3>3, <4>3, PackageFacts
          <5> QED
            BY <4>0, <4>1, <4>3, <5>1 DEF PartsExplained, CallAt
        <4>4. \A s \in StagingDirs : Unmixed(staged'[s])
          BY <1>1, <3>3, <4>0, PackageFacts DEF PartsExplained
        <4> QED
          BY <1>1, <4>0, <4>2, <4>3, <4>4 DEF PartsExplained, CallAt
      <3>8. /\ kind' = kind /\ there' \in BOOLEAN /\ dir' \in Directories
            /\ (~there' => dir' = Empty) /\ damaged' \in BOOLEAN
            /\ (damaged => damaged') /\ (\A v \in Users \ {u} : v \in met => v \in met')
        BY <1>1, UserKnows
      <3>9. calls' \in 0..MaxCalls /\ calls <= calls'
        BY <1>1, <3>2
      <3> QED
        BY <3>1, <3>3, <3>4, <3>5, <3>6, <3>7, <3>8, <3>9, PackageStep
    <2> QED
      BY <2>2, <2>3
  <1> QED
    BY <1>2, <1>3 DEF Stage

\* The staging directory becomes the directory; those who read are disturbed.
LEMMA PublishInv == ASSUME PackInv, NEW u \in Users, Publish(u) PROVE PackInv'
  <1>1. /\ used[u].at = "publish" /\ UNCHANGED <<kind, calls, damaged>> /\ Disturb
        /\ there' = TRUE /\ dir' = Whole(used[u].pkg)
        /\ staged' = IF kind = "module" THEN [staged EXCEPT ![used[u].call] = Empty] ELSE staged
        /\ used[u].job \in {"install", "use"} /\ used[u].pkg \in Packages
    BY UserKnows DEF Publish, CallAt, Ends, Results
  <1>2. PICK m \in Using : /\ used' = [used EXCEPT ![u] = m]
                           /\ m.at \notin {"list", "copy", "require", "ready"}
                           /\ m.call \in {0, used[u].call}
                           /\ JobFits(m)' /\ NothingStaged(m)' /\ Sees(m)'
    <2>1. CASE End(u, "installed")
      <3>1. PICK m \in Using : /\ m = [NoUse EXCEPT !.at = "installed"] /\ m.at = "installed"
                               /\ m.call = 0 /\ NothingStaged(m)' /\ Sees(m)'
                               /\ (calls' \in Nat => JobFits(m)')
        BY EndFacts DEF Ends, Results
      <3>2. calls' \in Nat
        BY <1>1, UserKnows
      <3>3. used' = [used EXCEPT ![u] = m]
        BY <2>1, <3>1 DEF End
      <3> QED
        BY <3>1, <3>2, <3>3
    <2>2. CASE Move(u, "refind") /\ used[u].job = "use"
      <3>m. PICK m : m = [used[u] EXCEPT !.at = "refind"]
        OBVIOUS
      <3>1. /\ m \in Using /\ m.at = "refind" /\ m.job = used[u].job /\ m.pkg = used[u].pkg
            /\ m.call = used[u].call /\ used' = [used EXCEPT ![u] = m]
        BY <2>2, <3>m, UserKnows DEF Using, Move, PackagePlaces
      <3> QED
        BY <1>1, <2>2, <3>1, UserKnows DEF JobFits, NothingStaged, Sees
    <2> QED
      BY <2>1, <2>2, AfterInstallFacts DEF Publish
  <1>3. /\ staged' \in [StagingDirs -> Directories]
        /\ \A s \in StagingDirs : staged'[s] \in {Empty, staged[s]}
    BY <1>1, UserKnows, PackageFacts
  <1>4. \A s \in StagingDirs : s > calls' => staged'[s] = Empty
    BY <1>1, <1>3 DEF PackInv
  <1>5. PartsExplained'
    <2>0. PartsExplained /\ used \in [Users -> Using]
      BY DEF PackInv
    <2>1. \A v \in Users : used[v].at # "publish" => used'[v] = used[v]
      BY <1>1, <1>2, <2>0
    <2>2. ASSUME NEW s \in StagingDirs, HasParts(staged'[s]), ~damaged
          PROVE  \E v \in Users : used'[v].at = "discard" /\ used'[v].call = s
      <3>1. HasParts(staged[s])
        BY <1>3, <2>2, PackageFacts
      <3> QED
        BY <2>0, <2>1, <2>2, <3>1 DEF PartsExplained, CallAt
    <2>3. \A s \in StagingDirs : Unmixed(staged'[s])
      BY <1>3, <2>0, PackageFacts DEF PartsExplained
    <2> QED
      BY <1>1, <2>2, <2>3, PackageFacts DEF PartsExplained, CallAt
  <1>6. /\ there' \in BOOLEAN /\ dir' \in Directories /\ calls' \in 0..MaxCalls /\ calls <= calls'
        /\ (\A v \in Users \ {u} : v \in met => v \in met')
    BY <1>1, UserKnows, PackageFacts DEF Disturb
  <1> QED
    BY <1>1, <1>2, <1>3, <1>4, <1>5, <1>6, UserKnows, PackageStep

LEMMA InstallInv == ASSUME PackInv, NEW u \in Users, Install(u) PROVE PackInv'
  <1>1. ASSUME Lock(u) \/ CheckAbsent(u) PROVE PackInv'
    <2>1. PICK at \in PackagePlaces : at \in {"check", "stage"} /\ Move(u, at)
      BY <1>1 DEF Lock, CheckAbsent, PackagePlaces
    <2>2. used[u].at \in {"lock", "check"}
          /\ UNCHANGED <<kind, there, dir, staged, calls, damaged, met>>
      BY <1>1 DEF Lock, CheckAbsent, CallAt, disk
    <2> QED
      BY <2>1, <2>2, InstallMoves
  <1>2. ASSUME CheckPresent(u) \/ CheckConflict(u) PROVE PackInv'
    <2>1. used[u].at = "check" /\ UNCHANGED <<kind, there, dir, staged, calls, damaged, met>>
      BY <1>2 DEF CheckPresent, CheckConflict, CallAt, disk
    <2>2. CASE Move(u, "refind") /\ used[u].job = "use"
      BY <2>1, <2>2, InstallMoves DEF PackagePlaces
    <2>3. CASE End(u, "installed") \/ End(u, "failed") \/ End(u, "refused")
      BY <2>1, <2>3, InstallEnds DEF Ends, Results
    <2> QED
      BY <1>2, <2>2, <2>3, AfterInstallFacts DEF CheckPresent, CheckConflict
  <1> QED
    BY <1>1, <1>2, StageInv, PublishInv DEF Install

\* A step of a removal: the same call goes on, and those who read are disturbed.
LEMMA RemovalMoves ==
    ASSUME PackInv, NEW u \in Users, used' = used, Disturb, UNCHANGED <<kind, calls, damaged>>,
           there' \in BOOLEAN, dir' \in Directories, ~there' => dir' = Empty,
           staged' \in [StagingDirs -> Directories],
           \A s \in StagingDirs : staged[s] = Empty => staged'[s] = Empty,
           used[u].at \in {"clear", "discard"}, PartsExplained'
    PROVE  PackInv'
  <1>1. PICK m \in Using : m = used[u]
    BY UserKnows
  <1>2. /\ used' = [used EXCEPT ![u] = m] /\ used[u].at \notin {"list", "copy", "require", "ready"}
    BY <1>1, UserKnows
  <1>3. JobFits(m)' /\ NothingStaged(m)' /\ Sees(m)'
    BY <1>1, <1>2, UserKnows DEF JobFits, NothingStaged, Sees
  <1>4. /\ calls' \in 0..MaxCalls /\ calls <= calls' /\ m.call = used[u].call
        /\ \A s \in StagingDirs : s > calls' => staged'[s] = Empty
    BY <1>1, UserKnows DEF PackInv
  <1>5. \A v \in Users \ {u} : v \in met => v \in met'
    BY DEF Disturb
  <1> QED
    BY <1>2, <1>3, <1>4, <1>5, UserKnows, PackageStep

\* What one file less leaves.
LEMMA LessFacts ==
    ASSUME NEW d \in Directories, NEW f \in PackageFiles, Unmixed(d)
    PROVE  [d EXCEPT ![f] = Gone] \in Directories /\ Unmixed([d EXCEPT ![f] = Gone])
  BY DEF Directories, Unmixed

LEMMA RemoveFileInv ==
    ASSUME PackInv, NEW u \in Users, NEW f \in PackageFiles, RemoveFile(u, f) PROVE PackInv'
  <1>1. /\ used[u].at = "clear" /\ dir[f] # Gone /\ Disturb
        /\ dir' = [dir EXCEPT ![f] = Gone] /\ UNCHANGED <<kind, there, staged, calls, damaged>>
        /\ used' = used
    BY DEF RemoveFile, CallAt
  <1>2. PartsExplained
    BY DEF PackInv
  <1>3. dir' \in Directories /\ Unmixed(dir')
    BY <1>1, <1>2, UserKnows, LessFacts DEF PartsExplained
  <1>4. there
    BY <1>1, UserKnows DEF Empty
  <1>5. PartsExplained'
    BY <1>1, <1>2, <1>3 DEF PartsExplained, Removing, CallAt
  <1> QED
    BY <1>1, <1>3, <1>4, <1>5, UserKnows, RemovalMoves

LEMMA DiscardFileInv ==
    ASSUME PackInv, NEW u \in Users, NEW f \in PackageFiles, DiscardFile(u, f) PROVE PackInv'
  <1>1. /\ used[u].at = "discard" /\ staged[used[u].call][f] # Gone /\ Disturb
        /\ staged' = [staged EXCEPT ![used[u].call][f] = Gone]
        /\ UNCHANGED <<kind, there, dir, calls, damaged>> /\ used' = used
    BY DEF DiscardFile, CallAt
  <1>2. PartsExplained /\ used[u].call \in StagingDirs /\ staged \in [StagingDirs -> Directories]
    BY <1>1, UserKnows DEF PackInv, JobFits, Ends, Results
  <1>3. PICK d : d = [staged[used[u].call] EXCEPT ![f] = Gone]
    OBVIOUS
  <1>4. /\ d \in Directories /\ Unmixed(d) /\ staged' = [staged EXCEPT ![used[u].call] = d]
    BY <1>1, <1>2, <1>3, LessFacts DEF PartsExplained
  <1>5. /\ staged' \in [StagingDirs -> Directories] /\ staged'[used[u].call] = d
        /\ \A s \in StagingDirs : s # used[u].call => staged'[s] = staged[s]
    BY <1>2, <1>4
  <1>6. staged[used[u].call] # Empty
    BY <1>1 DEF Empty
  <1>7. PartsExplained'
    BY <1>1, <1>2, <1>4, <1>5 DEF PartsExplained, Removing, CallAt
  <1> QED
    BY <1>1, <1>5, <1>6, <1>7, UserKnows, RemovalMoves

LEMMA RemoveDirectoryInv ==
    ASSUME PackInv, NEW u \in Users, RemoveDirectory(u) PROVE PackInv'
  <1>1. /\ used[u].at = "clear" /\ dir = Empty /\ dir' = dir /\ there' = FALSE /\ Disturb
        /\ UNCHANGED <<kind, staged, calls, damaged>>
    BY DEF RemoveDirectory, CallAt
  <1>2. PICK m \in Using : /\ used' = [used EXCEPT ![u] = m] /\ m.call \in {0, used[u].call}
                           /\ JobFits(m)' /\ NothingStaged(m)' /\ Sees(m)'
    <2>1. CASE End(u, "removed")
      <3>1. PICK m \in Using : /\ m = [NoUse EXCEPT !.at = "removed"] /\ m.at = "removed"
                               /\ m.call = 0 /\ NothingStaged(m)' /\ Sees(m)'
                               /\ (calls' \in Nat => JobFits(m)')
        BY EndFacts DEF Ends, Results
      <3>2. calls' \in Nat
        BY <1>1, UserKnows
      <3>3. used' = [used EXCEPT ![u] = m]
        BY <2>1, <3>1 DEF End
      <3> QED
        BY <3>1, <3>2, <3>3
    <2>2. CASE Move(u, "publish") /\ used[u].job # "remove"
      <3>m. PICK m : m = [used[u] EXCEPT !.at = "publish"]
        OBVIOUS
      <3>1. /\ m \in Using /\ m.at = "publish" /\ m.job = used[u].job /\ m.pkg = used[u].pkg
            /\ m.call = used[u].call /\ used' = [used EXCEPT ![u] = m]
        BY <2>2, <3>m, UserKnows DEF Using, Move, PackagePlaces
      <3>2. used[u].job # "none"
        BY <1>1, UserKnows DEF Ends, Results
      <3> QED
        BY <1>1, <2>2, <3>1, <3>2, UserKnows DEF JobFits, NothingStaged, Sees
    <2> QED
      BY <2>1, <2>2 DEF RemoveDirectory
  <1>3. PartsExplained'
    <2>0. PartsExplained /\ used \in [Users -> Using]
      BY DEF PackInv
    <2>1. \A v \in Users : used[v].at # "clear" => used'[v] = used[v]
      BY <1>1, <1>2, <2>0
    <2> QED
      BY <1>1, <2>0, <2>1 DEF PartsExplained, CallAt
  <1>4. /\ there' \in BOOLEAN /\ dir' \in Directories /\ staged' \in [StagingDirs -> Directories]
        /\ damaged' \in BOOLEAN
    BY <1>1, UserKnows
  <1>6. calls' \in 0..MaxCalls /\ calls <= calls'
    BY <1>1, UserKnows
  <1>7. \A v \in Users \ {u} : v \in met => v \in met'
    BY <1>1 DEF Disturb
  <1>5. \A s \in StagingDirs : s > calls' => staged'[s] = Empty
    BY <1>1 DEF PackInv
  <1> QED
    BY <1>1, <1>2, <1>3, <1>4, <1>5, <1>6, <1>7, PackageStep

LEMMA RemoveClashInv == ASSUME PackInv, NEW u \in Users, RemoveClash(u) PROVE PackInv'
  <1>1. /\ used[u].at = "clear" /\ End(u, "failed") /\ damaged' = (damaged \/ CutRemoval(u))
        /\ UNCHANGED <<kind, there, dir, staged, calls, met>>
    BY DEF RemoveClash, CallAt, disk
  <1>2. damaged' \in BOOLEAN /\ ~CallAt(u, "discard")
    BY <1>1, UserKnows DEF CallAt, CutRemoval
  <1> QED
    BY <1>1, <1>2, UserEnds DEF End, Ends, Results

LEMMA FailChangeInv == ASSUME PackInv, NEW u \in Users, FailChange(u) PROVE PackInv'
  <1>1. /\ used[u].at \in {"clear", "publish"} /\ damaged' = (damaged \/ CutRemoval(u))
        /\ UNCHANGED <<kind, there, dir, staged, calls, met>>
    BY DEF FailChange, CallAt, disk
  <1>2. damaged' \in BOOLEAN /\ ~CallAt(u, "discard") /\ used[u].job # "none"
    BY <1>1, UserKnows DEF CallAt, CutRemoval, Ends, Results
  <1>3. CASE End(u, "failed")
    BY <1>1, <1>2, <1>3, UserEnds DEF End, Ends, Results
  <1>4. CASE Move(u, "discard") /\ kind = "module"
    <2>1. PICK at \in PackagePlaces : at = "discard"
      BY DEF PackagePlaces
    <2>2. used[u].job # "remove"
      BY <1>4, UserKnows DEF JobFits
    <2> QED
      BY <1>1, <1>2, <1>4, <2>1, <2>2, UserGoesOn DEF Ends, Results
  <1> QED
    BY <1>3, <1>4 DEF FailChange

LEMMA DiscardDoneInv == ASSUME PackInv, NEW u \in Users, DiscardDone(u) PROVE PackInv'
  <1>1. /\ used[u].at = "discard" /\ End(u, "failed")
        /\ damaged' = (damaged \/ HasParts(staged[used[u].call]))
        /\ UNCHANGED <<kind, there, dir, staged, calls, met>>
    BY DEF DiscardDone, CallAt, disk
  <1>2. damaged' \in BOOLEAN /\ ~CutRemoval(u)
    BY <1>1, UserKnows DEF CallAt, CutRemoval, HasParts
  <1> QED
    BY <1>1, <1>2, UserEnds DEF End, Ends, Results

LEMMA RemovePackageInv == ASSUME PackInv, NEW u \in Users, RemovePackage(u) PROVE PackInv'
  <1>1. used[u].at = "exists" /\ UNCHANGED <<kind, there, dir, staged, calls, damaged, met>>
    BY DEF RemovePackage, CallAt, disk
  <1>2. /\ used[u].job # "none" /\ damaged \in BOOLEAN
        /\ ~CallAt(u, "discard") /\ ~CallAt(u, "clear") /\ ~CutRemoval(u)
    BY <1>1, UserKnows DEF Ends, Results, CallAt, CutRemoval
  <1>3. CASE Move(u, "clear")
    <2>1. PICK at \in PackagePlaces : at = "clear"
      BY DEF PackagePlaces
    <2> QED
      BY <1>1, <1>2, <1>3, <2>1, UserGoesOn DEF Ends, Results
  <1>4. CASE End(u, "absent")
    BY <1>1, <1>4, InstallEnds DEF Ends, Results
  <1> QED
    BY <1>3, <1>4 DEF RemovePackage

\* A reader that meets no removal has whole directories before it, or damaged ones.
LEMMA MeetsNone ==
    ASSUME PackInv, NEW u \in Users, Meet(u), u \notin met', ~damaged
    PROVE  /\ there => Complete(dir)
           /\ \A s \in StagingDirs : Complete(staged[s]) \/ staged[s] = Empty
  BY DEF Meet, PackInv, PartsExplained, Removing, Discarding, HasParts

LEMMA ProbeRuntimeInv == ASSUME PackInv, NEW u \in Users, ProbeRuntime(u) PROVE PackInv'
  <1>1. /\ used[u].at = "find" /\ kind # "module" /\ Meet(u) /\ used[u].job = "use"
        /\ UNCHANGED <<kind, there, dir, staged, calls, damaged>>
        /\ \A v \in Users \ {u} : v \in met => v \in met'
    BY UserKnows DEF ProbeRuntime, CallAt, disk, Meet, JobFits
  <1>2. CASE End(u, "refused")
    BY <1>1, <1>2, InstallEnds DEF Ends, Results
  <1>3. CASE Move(u, "require") /\ there
    <2>1. PICK at \in PackagePlaces : at = "require"
      BY DEF PackagePlaces
    <2>2. ~damaged /\ u \notin met' => Complete(dir)
      BY <1>1, <1>3, MeetsNone
    <2>3. ~CallAt(u, "clear") /\ ~CallAt(u, "discard") /\ damaged \in BOOLEAN
      BY <1>1, UserKnows DEF CallAt
    <2> QED
      BY <1>1, <1>3, <2>1, <2>2, <2>3, UserGoesOn DEF Ends, Results
  <1> QED
    BY <1>2, <1>3 DEF ProbeRuntime, Verified, Healthy

\* A reader whose record changes and who is no remover.
LEMMA ReaderMoves ==
    ASSUME PackInv, NEW u \in Users, NEW m \in Using, used' = [used EXCEPT ![u] = m],
           used[u].at \notin {"clear", "discard"},
           UNCHANGED <<kind, there, dir, staged, calls, damaged>>,
           \A v \in Users \ {u} : v \in met => v \in met',
           m.call = used[u].call, m.job = used[u].job, m.pkg = used[u].pkg, used[u].job = "use",
           m.at \in {"list", "copy", "ready"}, m.at \in {"list", "copy"} => kind = "module",
           ~damaged /\ u \notin met' => Sees(m)
    PROVE  PackInv'
  <1>1. /\ ~CutRemoval(u) /\ ~CallAt(u, "discard") /\ damaged \in BOOLEAN
        /\ JobFits(m) /\ NothingStaged(m)
    BY UserKnows DEF CutRemoval, CallAt, JobFits, NothingStaged
  <1> QED
    BY <1>1, UserMoves

LEMMA RequireInv == ASSUME PackInv, NEW u \in Users, Require(u) PROVE PackInv'
  <1>1. /\ used[u].at = "require" /\ UNCHANGED <<kind, there, dir, staged, calls, damaged, met>>
        /\ used[u].job = "use" /\ kind # "module" /\ dir \in Directories
        /\ ~damaged /\ u \notin met => Complete(dir)
    BY UserKnows DEF Require, CallAt, disk, UseFits, JobFits, Sees
  <1>2. CASE End(u, "refused")
    BY <1>1, <1>2, InstallEnds DEF Ends, Results
  <1>3. CASE used' = [used EXCEPT ![u].at = "ready", ![u].copy = dir]
    <2>m. PICK m : m = [used[u] EXCEPT !.at = "ready", !.copy = dir]
      OBVIOUS
    <2>1. /\ m \in Using /\ m.at = "ready" /\ m.job = used[u].job /\ m.pkg = used[u].pkg
          /\ m.copy = dir /\ m.call = used[u].call /\ used' = [used EXCEPT ![u] = m]
      BY <1>1, <1>3, <2>m, UserKnows DEF Using, PackagePlaces, Results
    <2>2. ~damaged /\ u \notin met => Sees(m)
      BY <1>1, <2>1 DEF Sees
    <2> QED
      BY <1>1, <2>1, <2>2, ReaderMoves
  <1> QED
    BY <1>2, <1>3 DEF Require

LEMMA FindModuleInv == ASSUME PackInv, NEW u \in Users, FindModule(u) PROVE PackInv'
  <1>1. /\ used[u].at \in {"find", "refind"} /\ kind = "module" /\ Meet(u)
        /\ UNCHANGED <<kind, there, dir, staged, calls, damaged>>
        /\ used[u].job = "use" /\ used[u].pkg \in Packages
        /\ \A v \in Users \ {u} : v \in met => v \in met'
    BY UserKnows DEF FindModule, CallAt, disk, Meet, JobFits
  <1>2. PICK place \in Found :
           IF FilesAt(place)["meta"] = used[u].pkg
           THEN used' = [used EXCEPT ![u].at = "list", ![u].from = place]
           ELSE End(u, "refused")
    BY DEF FindModule
  <1>3. CASE End(u, "refused")
    BY <1>1, <1>3, InstallEnds DEF Ends, Results
  <1>4. CASE /\ FilesAt(place)["meta"] = used[u].pkg
             /\ used' = [used EXCEPT ![u].at = "list", ![u].from = place]
    <2>1. place \in PackageDirs
      BY PackageFacts DEF Found, Staged, PackageDirs
    <2>m. PICK m : m = [used[u] EXCEPT !.at = "list", !.from = place]
      OBVIOUS
    <2>2. /\ m \in Using /\ m.at = "list" /\ m.job = used[u].job /\ m.pkg = used[u].pkg
          /\ m.from = place /\ m.call = used[u].call /\ used' = [used EXCEPT ![u] = m]
      BY <1>4, <2>1, <2>m, UserKnows DEF Using, PackagePlaces
    <2>3. ~damaged /\ u \notin met' => Sees(m)
      <3> SUFFICES ASSUME ~damaged, u \notin met' PROVE FilesAt(place) = Whole(m.pkg)
        BY <2>2 DEF Sees
      <3>1. /\ there => Complete(dir)
            /\ \A s \in StagingDirs : Complete(staged[s]) \/ staged[s] = Empty
        BY <1>1, MeetsNone
      <3>2. Complete(FilesAt(place))
        <4>1. CASE place = Destination /\ Healthy
          BY <3>1, <4>1 DEF FilesAt, Healthy
        <4>2. CASE place \in Staged
          BY <3>1, <4>2, PackageFacts DEF Staged, FilesAt, Destination, Empty
        <4> QED
          BY <4>1, <4>2 DEF Found
      <3> QED
        BY <1>4, <2>2, <3>2, CompleteFacts
    <2> QED
      BY <1>1, <2>2, <2>3, ReaderMoves
  <1> QED
    BY <1>2, <1>3, <1>4

LEMMA RestoreOrMissInv ==
    ASSUME PackInv, NEW u \in Users, RestoreModule(u) \/ MissModule(u) PROVE PackInv'
  <1>1. used[u].at \in {"find", "refind"}
        /\ UNCHANGED <<kind, there, dir, staged, calls, damaged, met>>
    BY DEF RestoreModule, MissModule, CallAt, disk
  <1>2. CASE Move(u, "lock") /\ used[u].at = "find"
    BY <1>1, <1>2, InstallMoves DEF PackagePlaces
  <1>3. CASE End(u, "refused") \/ End(u, "unavailable")
    BY <1>1, <1>3, InstallEnds DEF Ends, Results
  <1> QED
    BY <1>2, <1>3 DEF RestoreModule, MissModule, CallAt

\* What a reader that lists or copies has before it.
LEMMA CopierKnows ==
    ASSUME PackInv, NEW u \in Users, used[u].at \in {"list", "copy"}
    PROVE  /\ used[u].job = "use" /\ used[u].pkg \in Packages /\ kind = "module"
           /\ used[u].copy \in Directories /\ FilesAt(used[u].from) \in Directories
           /\ ~damaged /\ u \notin met =>
                 /\ FilesAt(used[u].from) = Whole(used[u].pkg)
                 /\ used[u].at = "copy" =>
                       \A f \in PackageFiles \ used[u].listed : used[u].copy[f] = used[u].pkg
  <1>1. used[u] \in Using /\ JobFits(used[u]) /\ UseFits(u, used[u])
    BY UserKnows
  <1>2. FilesAt(used[u].from) \in Directories
    BY <1>1, UserKnows DEF FilesAt, PackageDirs, Using
  <1> QED
    BY <1>1, <1>2 DEF Using, JobFits, UseFits, Sees

LEMMA ListFilesInv == ASSUME PackInv, NEW u \in Users, ListFiles(u) PROVE PackInv'
  <1>1. used[u].at = "list" /\ UNCHANGED <<kind, there, dir, staged, calls, damaged, met>>
    BY DEF ListFiles, CallAt, disk
  <1>2. CASE End(u, "failed")
    BY <1>1, <1>2, InstallEnds DEF Ends, Results
  <1>3. CASE used' = [used EXCEPT ![u].at = "copy",
                          ![u].listed = {f \in PackageFiles : FilesAt(used[u].from)[f] # Gone}]
    <2>l. PICK l \in SUBSET PackageFiles :
             l = {f \in PackageFiles : FilesAt(used[u].from)[f] # Gone}
      OBVIOUS
    <2>m. PICK m : m = [used[u] EXCEPT !.at = "copy", !.listed = l]
      OBVIOUS
    <2>1. /\ m \in Using /\ m.at = "copy" /\ m.job = used[u].job /\ m.pkg = used[u].pkg
          /\ m.from = used[u].from /\ m.call = used[u].call /\ m.listed = l
          /\ used' = [used EXCEPT ![u] = m]
      BY <1>3, <2>l, <2>m, UserKnows DEF Using, PackagePlaces
    <2>2. ~damaged /\ u \notin met => Sees(m)
      <3> SUFFICES ASSUME ~damaged, u \notin met
                   PROVE  FilesAt(used[u].from) = Whole(used[u].pkg) /\ PackageFiles \ l = {}
        BY <2>1 DEF Sees
      <3>1. FilesAt(used[u].from) = Whole(used[u].pkg) /\ used[u].pkg # Gone
        BY <1>1, CopierKnows, StoreAssumption
      <3>2. \A f \in PackageFiles : FilesAt(used[u].from)[f] # Gone
        BY <1>1, <3>1, CopierKnows, PackageFacts
      <3> QED
        BY <2>l, <3>1, <3>2
    <2> QED
      BY <1>1, <2>1, <2>2, CopierKnows, ReaderMoves
  <1> QED
    BY <1>2, <1>3 DEF ListFiles

LEMMA CopyFileInv ==
    ASSUME PackInv, NEW u \in Users, NEW f \in PackageFiles, CopyFile(u, f) PROVE PackInv'
  <1>1. used[u].at = "copy" /\ UNCHANGED <<kind, there, dir, staged, calls, damaged, met>>
    BY DEF CopyFile, CallAt, disk
  <1>2. CASE End(u, "failed")
    BY <1>1, <1>2, InstallEnds DEF Ends, Results
  <1>3. CASE used' = [used EXCEPT ![u].listed = @ \ {f}, ![u].copy[f] = FilesAt(used[u].from)[f]]
    <2>c. PICK c : c = FilesAt(used[u].from)[f]
      OBVIOUS
    <2>0. c \in Packages \cup {Gone} /\ (~damaged /\ u \notin met => c = used[u].pkg)
      BY <1>1, <2>c, CopierKnows, PackageFacts DEF Directories
    <2>m. PICK m : m = [used[u] EXCEPT !.listed = @ \ {f}, !.copy[f] = c]
      OBVIOUS
    <2>1. /\ m \in Using /\ m.at = "copy" /\ m.job = used[u].job /\ m.pkg = used[u].pkg
          /\ m.from = used[u].from /\ m.call = used[u].call
          /\ m.listed = used[u].listed \ {f} /\ m.copy = [used[u].copy EXCEPT ![f] = c]
          /\ used' = [used EXCEPT ![u] = m]
      BY <1>1, <1>3, <2>c, <2>0, <2>m, UserKnows DEF Using, Directories
    <2>2. ~damaged /\ u \notin met => Sees(m)
      <3> SUFFICES ASSUME ~damaged, u \notin met
                   PROVE  /\ FilesAt(used[u].from) = Whole(used[u].pkg)
                          /\ \A g \in PackageFiles \ m.listed : m.copy[g] = used[u].pkg
        BY <2>1 DEF Sees
      <3> QED
        BY <1>1, <2>0, <2>1, CopierKnows DEF Directories
    <2> QED
      BY <1>1, <2>1, <2>2, CopierKnows, ReaderMoves
  <1> QED
    BY <1>2, <1>3 DEF CopyFile

LEMMA CopyDoneInv == ASSUME PackInv, NEW u \in Users, CopyDone(u) PROVE PackInv'
  <1>1. /\ used[u].at = "copy" /\ UNCHANGED <<kind, there, dir, staged, calls, damaged, met>>
        /\ used[u].listed = {}
    BY DEF CopyDone, CallAt, disk
  <1>m. PICK m : m = [used[u] EXCEPT !.at = "ready"]
    OBVIOUS
  <1>2. /\ m \in Using /\ m.at = "ready" /\ m.job = used[u].job /\ m.pkg = used[u].pkg
        /\ m.copy = used[u].copy /\ m.call = used[u].call /\ used' = [used EXCEPT ![u] = m]
    BY <1>m, UserKnows DEF CopyDone, Move, Using, PackagePlaces, Results
  <1>3. ~damaged /\ u \notin met => m.copy = Whole(m.pkg)
    BY <1>1, <1>2, CopierKnows DEF Directories, Whole
  <1>4. ~damaged /\ u \notin met => Sees(m)
    BY <1>1, <1>2, <1>3, CopierKnows DEF Sees, Complete
  <1> QED
    BY <1>1, <1>2, <1>4, CopierKnows, ReaderMoves

LEMMA PackageCrashInv == ASSUME PackInv, NEW u \in Users, PackageCrash(u) PROVE PackInv'
  <1>1. /\ used' = [used EXCEPT ![u] = NoUse]
        /\ UNCHANGED <<kind, there, dir, staged, calls, met>>
        /\ damaged' = (damaged \/ CutRemoval(u)
                       \/ (CallAt(u, "discard") /\ HasParts(staged[used[u].call])))
    BY DEF PackageCrash, disk
  <1>2. damaged' \in BOOLEAN
    BY <1>1, UserKnows DEF CallAt, CutRemoval, HasParts
  <1>3. JobFits(NoUse) /\ NothingStaged(NoUse) /\ Sees(NoUse)
    BY UserKnows, PackageFacts DEF JobFits, NothingStaged, Sees
  <1> QED
    BY <1>1, <1>2, <1>3, PackageFacts, UserMoves

LEMMA InitPackInv == PackageInit => PackInv
  <1> SUFFICES ASSUME PackageInit PROVE PackInv
    OBVIOUS
  <1>1. /\ kind \in Kinds /\ there \in BOOLEAN /\ damaged \in BOOLEAN
        /\ dir \in Directories /\ dir = Empty /\ ~there
    BY PackageFacts DEF PackageInit
  <1>5. used \in [Users -> Using] /\ \A u \in Users : used[u] = NoUse
    BY PackageFacts DEF PackageInit
  <1>6. staged \in [StagingDirs -> Directories] /\ \A s \in StagingDirs : staged[s] = Empty
    BY PackageFacts DEF PackageInit
  <1>7. calls = 0 /\ calls \in 0..MaxCalls
    BY StoreAssumption DEF PackageInit
  <1>2. PartsExplained
    BY <1>1, <1>6, PackageFacts DEF PartsExplained
  <1>3. JobFits(NoUse) /\ NothingStaged(NoUse) /\ Sees(NoUse)
    BY <1>7, PackageFacts DEF JobFits, NothingStaged, Sees
  <1>4. \A u \in Users : UseFits(u, used[u])
    BY <1>3, <1>5 DEF UseFits
  <1> QED
    BY <1>1, <1>2, <1>4, <1>5, <1>6, <1>7, PackageFacts DEF PackInv

LEMMA NextPackInv == PackInv /\ [PackageNext]_packVars => PackInv'
  <1> SUFFICES ASSUME PackInv, [PackageNext]_packVars PROVE PackInv'
    OBVIOUS
  <1>1. CASE UNCHANGED packVars
    <2>1. \A n : (JobFits(n) <=> JobFits(n)') /\ (NothingStaged(n) <=> NothingStaged(n)')
                 /\ (Sees(n) <=> Sees(n)')
      BY <1>1 DEF packVars, disk, JobFits, NothingStaged, Sees, FilesAt
    <2>2. UNCHANGED <<kind, there, damaged, dir, staged, calls, used, met>>
      BY <1>1 DEF packVars, disk
    <2>3. PartsExplained' /\ \A u \in Users : UseFits(u, used[u])'
      BY <2>1, <2>2 DEF PackInv, PartsExplained, Removing, CallAt, UseFits
    <2> QED
      BY <2>2, <2>3 DEF PackInv
  <1>2. ASSUME NEW u \in Users, BeginInstall(u) \/ BeginRemove(u) \/ BeginUse(u) PROVE PackInv'
    <2>1. PICK job \in {"install", "remove", "use"}, p \in Packages \cup {Gone}, force \in BOOLEAN :
             /\ job # "remove" => p \in Packages
             /\ job = "remove" => kind # "module"
             /\ BeginCall(u, job, p, force)
      BY <1>2 DEF BeginInstall, BeginRemove, BeginUse
    <2> QED
      BY <2>1, BeginCallInv
  <1>3. ASSUME NEW u \in Users, Install(u) \/ Clear(u) \/ RemovePackage(u) \/ PackageCrash(u)
        PROVE  PackInv'
    BY <1>3, InstallInv, RemoveFileInv, DiscardFileInv, RemoveDirectoryInv, RemoveClashInv,
       FailChangeInv, DiscardDoneInv, RemovePackageInv, PackageCrashInv DEF Clear
  <1>4. ASSUME NEW u \in Users, Use(u) PROVE PackInv'
    BY <1>4, ProbeRuntimeInv, RequireInv, FindModuleInv, RestoreOrMissInv, ListFilesInv,
       CopyDoneInv, CopyFileInv DEF Use
  <1> QED
    BY <1>1, <1>2, <1>3, <1>4 DEF PackageNext

LEMMA PackInvHolds == PackageSpec => []PackInv
  BY InitPackInv, NextPackInv, PTL DEF PackageSpec

\* A call that goes or ends elsewhere is not one that returns as installed.
LEMMA GoesElsewhere ==
    ASSUME PackInv, NEW u \in Users, NEW v \in Users, NEW at, at # "installed",
           Move(v, at) \/ End(v, at), used[u].at # "installed"
    PROVE  used'[u].at # "installed"
  <1>1. used \in [Users -> Using]
    BY DEF PackInv
  <1>2. CASE Move(v, at)
    BY <1>1, <1>2 DEF Move, Using
  <1>3. CASE End(v, at)
    BY <1>1, <1>3 DEF End, NoUse
  <1> QED
    BY <1>2, <1>3

\* The package a returning install leaves is the one it published, or the one it found
\* and looked at.
LEMMA NextInstalledIsWhole ==
    ASSUME PackInv, [PackageNext]_packVars, NEW u \in Users,
           CallAt(u, "installed")', ~CallAt(u, "installed")
    PROVE  \/ there' /\ Complete(dir')
           \/ kind # "runtime" /\ (damaged \/ Removing)
  <1>1. used'[u].at = "installed" /\ used[u].at # "installed" /\ used \in [Users -> Using]
    BY DEF CallAt, PackInv
  <1>2. PICK v \in Users : \/ BeginInstall(v) \/ BeginRemove(v) \/ BeginUse(v)
                           \/ Install(v) \/ Clear(v) \/ RemovePackage(v) \/ Use(v)
                           \/ PackageCrash(v)
    BY <1>1 DEF PackageNext, packVars
  <1>3. CASE CheckPresent(v)
    <2>1. there /\ UNCHANGED <<there, dir>> /\ Present
      <3>1. Present
        BY <1>3 DEF CheckPresent
      <3>2. CASE kind = "runtime"
        BY <1>3, <3>1, <3>2, Zenon DEF Present, Verified, Healthy, CheckPresent
      <3>3. CASE kind = "oci"
        BY <1>3, <3>1, <3>3, Zenon DEF Present, Healthy, CheckPresent
      <3>4. CASE kind = "module"
        BY <1>3, <3>1, <3>4, Zenon DEF Present, CheckPresent
      <3> QED
        BY <3>1, <3>2, <3>3, <3>4, UserKnows DEF Kinds
    <2>2. CASE kind = "runtime"
      <3>1. Verified
        BY <2>1, <2>2, Zenon DEF Present
      <3>2. dir["meta"] \in Packages
        BY <3>1, UserKnows, PackageFacts DEF Verified, Healthy, Directories
      <3> QED
        BY <2>1, <3>1, <3>2 DEF Verified, Complete
    <2>3. CASE kind # "runtime"
      BY <2>1, <2>3, UserKnows
    <2> QED
      BY <2>2, <2>3
  <1>4. CASE Publish(v)
    BY <1>4, UserKnows DEF Publish, Complete, CallAt, Ends, Results
  <1>5. CASE BeginInstall(v) \/ BeginRemove(v) \/ BeginUse(v)
    <2>1. PICK at : used' = [used EXCEPT ![v] = at] /\ at.at # "installed"
      <3>1. PICK job \in {"install", "remove", "use"}, p \in Packages \cup {Gone},
                force \in BOOLEAN : BeginCall(v, job, p, force)
        BY <1>5 DEF BeginInstall, BeginRemove, BeginUse
      <3>2. PICK at : at = CASE job = "install" -> "lock" [] job = "remove" -> "exists"
                             [] job = "use" -> "find"
        OBVIOUS
      <3>3. at # "installed"
        <4>1. CASE job = "install"
          BY <3>2, <4>1, Zenon
        <4>2. CASE job = "remove"
          BY <3>2, <4>2, Zenon
        <4>3. CASE job = "use"
          BY <3>2, <4>3, Zenon
        <4> QED
          BY <4>1, <4>2, <4>3
      <3>4. used' = [used EXCEPT ![v] = [NoUse EXCEPT !.call = calls + 1, !.job = job, !.pkg = p,
                                                      !.force = force, !.at = at]]
        BY <3>1, <3>2 DEF BeginCall
      <3>5. [NoUse EXCEPT !.call = calls + 1, !.job = job, !.pkg = p, !.force = force,
                          !.at = at].at = at
        BY DEF NoUse
      <3> QED
        BY <3>3, <3>4, <3>5
    <2> QED
      BY <1>1, <2>1
  <1>6. CASE Lock(v) \/ CheckConflict(v) \/ CheckAbsent(v) \/ Stage(v)
    <2>1. PICK at : (Move(v, at) \/ End(v, at)) /\ at # "installed"
      BY <1>6 DEF Lock, CheckConflict, CheckAbsent, Stage
    <2> QED
      BY <1>1, <2>1, GoesElsewhere
  <1>7. CASE Clear(v) \/ RemovePackage(v) \/ PackageCrash(v)
    <2>1. CASE \E f \in PackageFiles : RemoveFile(v, f) \/ DiscardFile(v, f)
      BY <1>1, <2>1 DEF RemoveFile, DiscardFile
    <2>2. CASE PackageCrash(v)
      BY <1>1, <2>2, PackageFacts DEF PackageCrash
    <2>3. CASE RemoveDirectory(v) \/ RemoveClash(v) \/ FailChange(v) \/ DiscardDone(v)
               \/ RemovePackage(v)
      <3>1. PICK at : (Move(v, at) \/ End(v, at)) /\ at # "installed"
        BY <2>3 DEF RemoveDirectory, RemoveClash, FailChange, DiscardDone, RemovePackage
      <3> QED
        BY <1>1, <3>1, GoesElsewhere
    <2> QED
      BY <1>7, <2>1, <2>2, <2>3 DEF Clear
  <1>8. CASE Use(v)
    <2>1. ASSUME NEW at, at # "installed", Move(v, at) \/ End(v, at) PROVE FALSE
      BY <1>1, <2>1, GoesElsewhere
    <2>3. ASSUME ProbeRuntime(v) \/ RestoreModule(v) \/ MissModule(v) \/ CopyDone(v) PROVE FALSE
      BY <2>1, <2>3 DEF ProbeRuntime, RestoreModule, MissModule, CopyDone
    <2>4. ASSUME FindModule(v) PROVE FALSE
      BY <1>1, <2>1, <2>4 DEF FindModule, Using
    <2>5. ASSUME Require(v) PROVE FALSE
      BY <1>1, <2>1, <2>5 DEF Require, Using
    <2>6. ASSUME ListFiles(v) PROVE FALSE
      BY <1>1, <2>1, <2>6 DEF ListFiles, Using
    <2>7. ASSUME NEW f \in PackageFiles, CopyFile(v, f) PROVE FALSE
      BY <1>1, <2>1, <2>7 DEF CopyFile, CallAt, Using
    <2> QED
      BY <1>8, <2>3, <2>4, <2>5, <2>6, <2>7 DEF Use
  <1> QED
    BY <1>2, <1>3, <1>4, <1>5, <1>6, <1>7, <1>8 DEF Install

LEMMA InstalledIsWholeHolds == PackageSpec => InstalledIsWhole
  <1>1. PackInv /\ [PackageNext]_packVars =>
           [\A u \in Users : CallAt(u, "installed")' /\ ~CallAt(u, "installed") =>
              \/ there' /\ Complete(dir')
              \/ kind # "runtime" /\ (damaged \/ Removing)]_packVars
    BY NextInstalledIsWhole
  <1> QED
    BY <1>1, PackInvHolds, PTL DEF PackageSpec, InstalledIsWhole

-----------------------------------------------------------------------------
(* Credential rotation.  An application no other overlaps is the only one at *)
(* work, so that what it has written stays; and while none is at work and    *)
(* none left its files behind, the files are of one bundle.                  *)

Places == Parts \cup {"idle", "rotation", "applied"}
Applying == [at : Places, gen : Nat, shared : BOOLEAN]
Starting == [state : {"down", "reading", "refused", "started"}, todo : Seq(Parts),
             seen : [Parts -> Nat], alone : BOOLEAN]

SomeoneApplies == \E b \in Appliers : WritingFile(b)

\* The files an applier has written when it is at a place.
Written(at) == CASE at = "key" -> {"certificate"}
                 [] at = "ca" -> {"certificate", "key"}
                 [] at \in {"rotation", "applied"} -> Parts
                 [] OTHER -> {}

ApplierFits(a) ==
    apply[a].at # "idle" /\ ~apply[a].shared =>
       /\ \A b \in Appliers \ {a} : ~WritingFile(b)
       /\ \A p \in Written(apply[a].at) : installedGen[p] = apply[a].gen
       /\ apply[a].at = "applied" => stamp = apply[a].gen

OneBundle == ~SomeoneApplies /\ ~torn => \A p, q \in Parts : installedGen[p] = installedGen[q]

StarterFits ==
    startup.alone =>
       /\ ~SomeoneApplies /\ ~torn
       /\ \A p \in Parts : \/ \E n \in 1 .. Len(startup.todo) : startup.todo[n] = p
                           \/ startup.seen[p] = installedGen[p]
       /\ startup.todo = <<>> => startup.state # "refused"

RotationInv ==
    /\ installedGen \in [Parts -> Nat] /\ stamp \in Nat /\ torn \in BOOLEAN
    /\ apply \in [Appliers -> Applying] /\ startup \in Starting
    /\ \A a \in Appliers : ApplierFits(a)
    /\ OneBundle /\ StarterFits

\* What the invariant is for.
LEMMA RotationInvProperties == RotationInv => OnlyOverlapsMixFiles
  <1> SUFFICES ASSUME RotationInv PROVE OnlyOverlapsMixFiles
    OBVIOUS
  <1>1. ASSUME NEW a \in Appliers, apply[a].at = "applied", ~apply[a].shared
        PROVE  stamp = apply[a].gen /\ \A p \in Parts : installedGen[p] = apply[a].gen
    <2>1. ApplierFits(a)
      BY DEF RotationInv
    <2>2. Written("applied") = Parts
      BY Zenon DEF Written
    <2> QED
      BY <1>1, <2>1, <2>2 DEF ApplierFits
  <1>2. ASSUME startup.alone, startup.todo = <<>>
        PROVE  /\ startup.state # "refused"
               /\ \A p, q \in Parts : startup.seen[p] = startup.seen[q]
    <2>1. StarterFits /\ OneBundle
      BY DEF RotationInv
    <2>2. ~ \E n \in 1 .. Len(<<>>) : TRUE
      OBVIOUS
    <2> QED
      BY <1>2, <2>1, <2>2 DEF StarterFits, OneBundle
  <1> QED
    BY <1>1, <1>2 DEF OnlyOverlapsMixFiles

LEMMA RotationFacts ==
    /\ IdleApplier \in Applying /\ IdleApplier.at = "idle"
    /\ Unread \in Starting /\ ~Unread.alone
    /\ Written("certificate") = {} /\ Written("key") = {"certificate"}
    /\ Written("ca") = {"certificate", "key"}
    /\ Written("rotation") = Parts /\ Written("applied") = Parts
  <1>1. IdleApplier \in Applying /\ IdleApplier.at = "idle"
    BY DEF IdleApplier, Applying, Places
  <1>2. Unread \in Starting /\ ~Unread.alone
    BY DEF Unread, Starting
  <1>3. Written("certificate") = {} /\ Written("key") = {"certificate"}
    BY Zenon DEF Written
  <1>4. Written("ca") = {"certificate", "key"}
    BY Zenon DEF Written
  <1>5. Written("rotation") = Parts /\ Written("applied") = Parts
    BY Zenon DEF Written
  <1> QED
    BY <1>1, <1>2, <1>3, <1>4, <1>5

\* While an applier is at work nobody who starts is alone.
LEMMA WorkerDisturbs ==
    ASSUME RotationInv, NEW a \in Appliers, WritingFile(a)
    PROVE  SomeoneApplies /\ ~startup.alone
  BY DEF RotationInv, StarterFits, SomeoneApplies

LEMMA VerifyInv ==
    ASSUME RotationInv, NEW a \in Appliers, NEW g \in Generations, Verify(a, g)
    PROVE  RotationInv'
  <1>1. /\ installedGen' = installedGen /\ stamp' = stamp /\ torn' = torn
        /\ apply \in [Appliers -> Applying] /\ startup \in Starting /\ ~WritingFile(a)
        /\ installedGen \in [Parts -> Nat] /\ stamp \in Nat /\ torn \in BOOLEAN
    BY DEF Verify, RotationInv
  <1>2. g \in Nat
    BY RotationAssumption
  <1>o. PICK o \in BOOLEAN : o = ({b \in Appliers \ {a} : WritingFile(b)} # {})
    OBVIOUS
  <1>m. PICK m : m = [at |-> "certificate", gen |-> g, shared |-> o]
    OBVIOUS
  <1>3. m \in Applying /\ m.at = "certificate" /\ m.gen = g /\ m.shared = o
    <2>1. o \in BOOLEAN
      BY <1>o
    <2>2. m.at = "certificate" /\ m.gen = g /\ m.shared = o
      BY <1>m
    <2>3. m \in Applying
      BY <1>2, <1>m, <2>1 DEF Applying, Places, Parts
    <2> QED
      BY <2>2, <2>3
  <1>4. apply' = [b \in Appliers |->
                    IF b = a THEN m
                    ELSE IF WritingFile(b) THEN [apply[b] EXCEPT !.shared = TRUE]
                    ELSE IF apply[b].at = "applied" THEN IdleApplier ELSE apply[b]]
    BY <1>o, <1>m DEF Verify
  <1>5. /\ apply'[a] = m
        /\ \A b \in Appliers \ {a} :
              /\ apply'[b] \in Applying
              /\ WritingFile(b) => apply'[b].at = apply[b].at /\ apply'[b].shared
              /\ ~WritingFile(b) => apply'[b].at = "idle"
    <2>1. ASSUME NEW b \in Appliers \ {a}
          PROVE  /\ apply'[b] \in Applying
                 /\ WritingFile(b) => apply'[b].at = apply[b].at /\ apply'[b].shared
                 /\ ~WritingFile(b) => apply'[b].at = "idle"
      <3>1. apply[b] \in Applying
        BY <1>1
      <3>2. CASE WritingFile(b)
        BY <1>4, <3>1, <3>2 DEF Applying
      <3>3. CASE ~WritingFile(b)
        BY <1>4, <3>1, <3>3, RotationFacts DEF Applying, WritingFile, Places
      <3> QED
        BY <3>2, <3>3
    <2> QED
      BY <1>4, <2>1
  <1>6. apply' \in [Appliers -> Applying]
    BY <1>3, <1>4, <1>5
  <1>7. /\ startup' = [startup EXCEPT !.alone = FALSE]
        /\ startup' \in Starting /\ ~startup'.alone
    BY <1>1 DEF Verify, Starting
  <1>8. ApplierFits(a)'
    <2>1. o = FALSE => \A b \in Appliers \ {a} : ~WritingFile(b)'
      BY <1>o, <1>5 DEF WritingFile, Parts
    <2> QED
      BY <1>3, <1>5, <2>1, RotationFacts DEF ApplierFits
  <1>9. \A b \in Appliers \ {a} : ApplierFits(b)'
    BY <1>5 DEF ApplierFits
  <1>10. SomeoneApplies'
    BY <1>3, <1>5 DEF SomeoneApplies, WritingFile, Parts
  <1> QED
    BY <1>1, <1>6, <1>7, <1>8, <1>9, <1>10 DEF RotationInv, OneBundle, StarterFits

\* A step of an applier at work, which leaves the others where they are.
LEMMA WorkerMoves ==
    ASSUME RotationInv, NEW a \in Appliers, WritingFile(a), NEW m \in Applying,
           apply' = [apply EXCEPT ![a] = m], startup' = startup,
           installedGen' \in [Parts -> Nat], stamp' \in Nat, torn' \in BOOLEAN,
           apply[a].shared => m.shared \/ m.at = "idle",
           ~m.shared /\ m.at # "idle" =>
              /\ \A p \in Written(m.at) : installedGen'[p] = m.gen
              /\ m.at = "applied" => stamp' = m.gen,
           m.at \in {"idle", "applied"} /\ ~torn' => m.at = "applied" /\ ~m.shared
    PROVE  RotationInv'
  <1>1. /\ apply \in [Appliers -> Applying] /\ startup \in Starting
        /\ \A b \in Appliers : ApplierFits(b)
    BY DEF RotationInv
  <1>2. /\ apply' \in [Appliers -> Applying] /\ apply'[a] = m
        /\ \A b \in Appliers \ {a} : apply'[b] = apply[b] /\ (WritingFile(b)' <=> WritingFile(b))
    BY <1>1 DEF WritingFile
  <1>3. ~startup.alone
    BY WorkerDisturbs
  <1>4. ASSUME NEW b \in Appliers \ {a} PROVE ApplierFits(b)'
    <2>1. apply[b].at = "idle" \/ apply[b].shared
      BY <1>1 DEF ApplierFits
    <2> QED
      BY <1>2, <2>1 DEF ApplierFits
  <1>5. ApplierFits(a)'
    <2> SUFFICES ASSUME m.at # "idle", ~m.shared
                 PROVE  \A b \in Appliers \ {a} : ~WritingFile(b)
      BY <1>2 DEF ApplierFits
    <2>1. ~apply[a].shared /\ apply[a].at # "idle"
      BY DEF WritingFile, Parts
    <2> QED
      BY <1>1, <2>1 DEF ApplierFits
  <1>6. OneBundle'
    <2> SUFFICES ASSUME ~SomeoneApplies', ~torn'
                 PROVE  \A p, q \in Parts : installedGen'[p] = installedGen'[q]
      BY DEF OneBundle
    <2>1. m.at \in {"idle", "applied"}
      BY <1>2 DEF SomeoneApplies, WritingFile, Applying, Places
    <2> QED
      BY <2>1, RotationFacts
  <1> QED
    BY <1>1, <1>2, <1>3, <1>4, <1>5, <1>6 DEF RotationInv, StarterFits

LEMMA WritePartInv ==
    ASSUME RotationInv, NEW a \in Appliers, NEW p \in Parts, WritePart(a, p)
    PROVE  RotationInv'
  <1>m. PICK m : m = [apply[a] EXCEPT !.at = After[p]]
    OBVIOUS
  <1>1. /\ apply[a] \in Applying /\ apply \in [Appliers -> Applying] /\ ApplierFits(a)
        /\ installedGen \in [Parts -> Nat] /\ stamp \in Nat /\ torn \in BOOLEAN
        /\ apply[a].at = p /\ WritingFile(a)
        /\ installedGen' = [installedGen EXCEPT ![p] = apply[a].gen]
        /\ UNCHANGED <<stamp, torn, startup>>
    BY DEF RotationInv, WritePart, WritingFile
  <1>2. /\ p = "certificate" => After[p] = "key"
        /\ p = "key" => After[p] = "ca"
        /\ p = "ca" => After[p] = "rotation"
        /\ After[p] \in Places /\ After[p] \notin {"idle", "applied"}
    BY DEF After, Parts, Places
  <1>3. /\ m \in Applying /\ m.at = After[p] /\ m.gen = apply[a].gen /\ m.shared = apply[a].shared
        /\ apply' = [apply EXCEPT ![a] = m]
    BY <1>m, <1>1, <1>2 DEF Applying, WritePart
  <1>4. installedGen' \in [Parts -> Nat] /\ installedGen'[p] = m.gen
        /\ \A q \in Parts \ {p} : installedGen'[q] = installedGen[q]
    BY <1>1, <1>3 DEF Applying
  <1>5. ~m.shared => \A q \in Written(m.at) : installedGen'[q] = m.gen
    <2> SUFFICES ASSUME ~m.shared, NEW q \in Written(m.at) PROVE installedGen'[q] = m.gen
      OBVIOUS
    <2>1. apply[a].at # "idle" /\ \A o \in Written(p) : installedGen[o] = m.gen
      BY <1>1, <1>3 DEF ApplierFits, Parts
    <2>2. q \in Written(p) \cup {p} /\ q \in Parts
      BY <1>2, <1>3, RotationFacts DEF Parts
    <2> QED
      BY <1>4, <2>1, <2>2
  <1> QED
    BY <1>1, <1>2, <1>3, <1>4, <1>5, WorkerMoves

LEMMA WriteStampInv == ASSUME RotationInv, NEW a \in Appliers, WriteStamp(a) PROVE RotationInv'
  <1>m. PICK m : m = [apply[a] EXCEPT !.at = "applied"]
    OBVIOUS
  <1>1. /\ apply[a] \in Applying /\ apply \in [Appliers -> Applying] /\ ApplierFits(a)
        /\ installedGen \in [Parts -> Nat]
        /\ apply[a].at = "rotation" /\ WritingFile(a)
        /\ stamp' = apply[a].gen /\ torn' = apply[a].shared
        /\ UNCHANGED <<installedGen, startup>>
    BY DEF RotationInv, WriteStamp, WritingFile
  <1>2. /\ m \in Applying /\ m.at = "applied" /\ m.gen = apply[a].gen
        /\ m.shared = apply[a].shared /\ m.gen \in Nat /\ m.shared \in BOOLEAN
        /\ apply' = [apply EXCEPT ![a] = m]
    BY <1>m, <1>1 DEF Applying, Places, WriteStamp
  <1>3. ~m.shared => \A p \in Written(m.at) : installedGen'[p] = m.gen
    BY <1>1, <1>2, RotationFacts DEF ApplierFits
  <1> QED
    BY <1>1, <1>2, <1>3, WorkerMoves

LEMMA RotationCrashInv ==
    ASSUME RotationInv, NEW a \in Appliers, RotationCrash(a) PROVE RotationInv'
  <1>1. /\ installedGen \in [Parts -> Nat] /\ stamp \in Nat /\ WritingFile(a) /\ torn' = TRUE
        /\ UNCHANGED <<installedGen, stamp, startup>>
        /\ apply' = [apply EXCEPT ![a] = IdleApplier]
    BY DEF RotationInv, RotationCrash
  <1> QED
    BY <1>1, RotationFacts, WorkerMoves

\* A step of a process that starts, which touches nothing.
LEMMA StarterMoves ==
    ASSUME RotationInv, UNCHANGED <<installedGen, stamp, apply, torn>>, startup' \in Starting,
           StarterFits'
    PROVE  RotationInv'
  BY DEF RotationInv, OneBundle, ApplierFits, SomeoneApplies, WritingFile

LEMMA StartUpInv ==
    ASSUME RotationInv, NEW role \in DOMAIN ReadOrder, StartUp(role) PROVE RotationInv'
  <1>1. /\ ReadOrder[role] \in Seq(Parts)
        /\ \A p \in Parts : \E n \in 1 .. Len(ReadOrder[role]) : ReadOrder[role][n] = p
    <2>1. ASSUME NEW s,
                 s = <<"certificate", "key", "ca">> \/ s = <<"ca", "certificate", "key">>
          PROVE  /\ s \in Seq(Parts) /\ Len(s) = 3
                 /\ \A p \in Parts : s[1] = p \/ s[2] = p \/ s[3] = p
      <3>1. CASE s = <<"certificate", "key", "ca">>
        BY <3>1 DEF Parts
      <3>2. CASE s = <<"ca", "certificate", "key">>
        BY <3>2 DEF Parts
      <3> QED
        BY <2>1, <3>1, <3>2
    <2>2. ReadOrder[role] \in {<<"certificate", "key", "ca">>, <<"ca", "certificate", "key">>}
      BY DEF ReadOrder
    <2>3. 1 \in 1 .. 3 /\ 2 \in 1 .. 3 /\ 3 \in 1 .. 3
      OBVIOUS
    <2> QED
      BY <2>1, <2>2, <2>3
  <1>2. PICK s \in Seq(Parts) : s = ReadOrder[role]
    BY <1>1
  <1>3. PICK l \in BOOLEAN : l = (~torn /\ \A a \in Appliers : ~WritingFile(a))
    OBVIOUS
  <1>4. startup' = [state |-> "reading", todo |-> s, seen |-> [p \in Parts |-> 0], alone |-> l]
    BY <1>2, <1>3 DEF StartUp
  <1>5. /\ startup' \in Starting /\ startup'.alone = l /\ startup'.todo = s
        /\ startup'.state = "reading"
    BY <1>4 DEF Starting
  <1>6. UNCHANGED <<installedGen, stamp, apply, torn>>
    BY DEF StartUp
  <1>7. StarterFits'
    BY <1>1, <1>2, <1>3, <1>5, <1>6 DEF StarterFits, SomeoneApplies, WritingFile
  <1> QED
    BY <1>5, <1>6, <1>7, StarterMoves

LEMMA ReadPartInv == ASSUME RotationInv, ReadPart PROVE RotationInv'
  <1>1. /\ startup \in Starting /\ StarterFits /\ installedGen \in [Parts -> Nat]
        /\ startup.state = "reading" /\ startup.todo # <<>>
        /\ UNCHANGED <<installedGen, stamp, apply, torn>>
    BY DEF RotationInv, ReadPart
  <1>2. PICK s : s = startup.todo
    OBVIOUS
  <1>3. s \in Seq(Parts) /\ s # <<>> /\ Head(s) \in Parts /\ Tail(s) \in Seq(Parts)
    BY <1>1, <1>2 DEF Starting
  <1>4. PICK p \in Parts : p = Head(s)
    BY <1>3
  <1>5. CASE installedGen[p] = 0
    <2>1. startup' = [startup EXCEPT !.state = "refused"]
      BY <1>2, <1>4, <1>5 DEF ReadPart
    <2>2. /\ startup' \in Starting /\ startup'.todo = s /\ startup'.alone = startup.alone
          /\ startup'.seen = startup.seen
      BY <1>1, <1>2, <2>1 DEF Starting
    <2>3. StarterFits'
      BY <1>1, <1>2, <1>3, <2>2 DEF StarterFits, SomeoneApplies, WritingFile
    <2> QED
      BY <1>1, <2>2, <2>3, StarterMoves
  <1>6. CASE installedGen[p] # 0
    <2>1. startup' = [startup EXCEPT !.todo = Tail(s), !.seen[p] = installedGen[p]]
      BY <1>2, <1>4, <1>6 DEF ReadPart
    <2>2. /\ startup' \in Starting /\ startup'.todo = Tail(s) /\ startup'.alone = startup.alone
          /\ startup'.state = "reading" /\ startup'.seen = [startup.seen EXCEPT ![p] = installedGen[p]]
      BY <1>1, <1>3, <2>1 DEF Starting
    <2>3. startup'.seen[p] = installedGen[p]
          /\ \A q \in Parts \ {p} : startup'.seen[q] = startup.seen[q]
      BY <1>1, <2>2 DEF Starting
    <2>4. ASSUME NEW q \in Parts \ {p}, NEW n \in 1 .. Len(s), s[n] = q
          PROVE  \E o \in 1 .. Len(Tail(s)) : Tail(s)[o] = q
      <3>1. n # 1
        BY <1>3, <1>4, <2>4
      <3>2. n - 1 \in 1 .. Len(Tail(s)) /\ Tail(s)[n - 1] = q
        BY <1>3, <2>4, <3>1
      <3> QED
        BY <3>2
    <2>5. StarterFits'
      <3> SUFFICES ASSUME startup.alone
                   PROVE  /\ ~SomeoneApplies /\ ~torn
                          /\ \A q \in Parts : \/ \E n \in 1 .. Len(Tail(s)) : Tail(s)[n] = q
                                              \/ startup'.seen[q] = installedGen[q]
        BY <1>1, <2>2 DEF StarterFits, SomeoneApplies, WritingFile
      <3>1. ASSUME NEW q \in Parts \ {p}
            PROVE  (\E n \in 1 .. Len(s) : s[n] = q) \/ startup.seen[q] = installedGen[q]
        BY <1>1, <1>2 DEF StarterFits
      <3>2. ~SomeoneApplies /\ ~torn
        BY <1>1 DEF StarterFits
      <3> QED
        BY <2>3, <2>4, <3>1, <3>2
    <2> QED
      BY <1>1, <2>2, <2>5, StarterMoves
  <1> QED
    BY <1>5, <1>6

LEMMA LoadChainInv == ASSUME RotationInv, LoadChain PROVE RotationInv'
  <1>1. /\ startup \in Starting /\ StarterFits /\ startup.todo = <<>>
        /\ UNCHANGED <<installedGen, stamp, apply, torn>>
        /\ OnlyOverlapsMixFiles
    BY RotationInvProperties DEF RotationInv, LoadChain
  <1>2. PICK to \in {"started", "refused"} :
           /\ startup' = [startup EXCEPT !.state = to]
           /\ startup.seen["certificate"] = startup.seen["key"] => to = "started"
    BY DEF LoadChain
  <1>3. /\ startup' \in Starting /\ startup'.todo = startup.todo /\ startup'.state = to
        /\ startup'.seen = startup.seen /\ startup'.alone = startup.alone
    BY <1>1, <1>2 DEF Starting
  <1>4. startup.alone => startup.seen["certificate"] = startup.seen["key"]
    BY <1>1 DEF OnlyOverlapsMixFiles, Parts
  <1>5. StarterFits'
    BY <1>1, <1>2, <1>3, <1>4 DEF StarterFits, SomeoneApplies, WritingFile
  <1> QED
    BY <1>1, <1>3, <1>5, StarterMoves

LEMMA InitRotationInv == RotationInit => RotationInv
  <1> SUFFICES ASSUME RotationInit PROVE RotationInv
    OBVIOUS
  <1>1. /\ installedGen \in [Parts -> Nat] /\ stamp \in Nat /\ torn \in BOOLEAN
        /\ \A p, q \in Parts : installedGen[p] = installedGen[q]
        /\ startup = Unread /\ apply \in [Appliers -> Applying]
        /\ \A a \in Appliers : apply[a] = IdleApplier
    BY RotationFacts DEF RotationInit
  <1> QED
    BY <1>1, RotationFacts DEF RotationInv, ApplierFits, OneBundle, StarterFits

LEMMA NextRotationInv == RotationInv /\ [RotationNext]_rotVars => RotationInv'
  <1> SUFFICES ASSUME RotationInv, [RotationNext]_rotVars PROVE RotationInv'
    OBVIOUS
  <1>1. CASE UNCHANGED <<installedGen, stamp, apply, startup, torn>>
    BY <1>1 DEF RotationInv, OneBundle, StarterFits, ApplierFits, SomeoneApplies, WritingFile
  <1>2. CASE \E a \in Appliers : Refuse(a)
    BY <1>1, <1>2 DEF Refuse
  <1> QED
    BY <1>1, <1>2, VerifyInv, WritePartInv, WriteStampInv, RotationCrashInv, StartUpInv,
       ReadPartInv, LoadChainInv DEF RotationNext, rotVars

LEMMA RotationInvHolds == RotationSpec => []RotationInv
  BY InitRotationInv, NextRotationInv, PTL DEF RotationSpec

-----------------------------------------------------------------------------
(* Key pairs.  A maker that is alone has no generator beside it, so that the *)
(* files stay as it reads or writes them; and unless half a pair was left,   *)
(* two halves differ only while a generator has still to write the second.   *)

PairFiles == (Makers \cup {"nobody"}) \X Nat
Making == [op : {"none", "generate", "sign"},
           at : {"idle", "write", "confirm", "next", "withdraw", "made",
                 "sign", "mark", "matched", "mismatched"},
           half : Halves, signer : PairFiles, alone : BOOLEAN]

\* A generator is at a place of generating, a signer at one of signing.
PlaceFits(m) ==
    /\ m.op = "none" => m.at = "idle"
    /\ m.op = "generate" => m.at \in {"write", "confirm", "next", "withdraw", "made"}
    /\ m.op = "sign" => m.at \in {"sign", "mark", "matched", "mismatched"}

\* Its private key is written.
Halfway(p) ==
    Generates(p) /\ (maker[p].half = "public" \/ maker[p].at \in {"confirm", "next", "withdraw"})
\* Its public key is not, yet.
Unfinished(p) == Halfway(p) /\ (maker[p].half = "public" => maker[p].at = "write")

AloneFits(p) ==
    maker[p].alone /\ ~AtRest(p) =>
       /\ \A q \in Makers \ {p} : ~Generates(q)
       /\ Halfway(p) => pair["private"] = Made(p)
       /\ maker[p].op = "sign" => ~halfPair
       /\ maker[p].at = "mark" => maker[p].signer = pair["private"]

OneOrUnfinished ==
    ~halfPair => pair["private"] = pair["public"] \/ \E p \in Makers : Unfinished(p)

PairInv ==
    /\ pair \in [Halves -> PairFiles] /\ halfPair \in BOOLEAN
    /\ makes \in [Makers -> Nat]
    /\ maker \in [Makers -> Making]
    /\ \A p \in Makers : /\ PlaceFits(maker[p])
                         /\ maker[p].at = "mismatched" => ~maker[p].alone
                         /\ AloneFits(p)
    /\ OneOrUnfinished

\* What the invariant is for.
LEMMA PairInvProperties == PairInv => PairsMatch
  <1> SUFFICES ASSUME PairInv, NEW p \in Makers,
                      maker[p].at = "made", \A q \in Makers \ {p} : ~Generates(q), ~halfPair
               PROVE  pair["private"] = pair["public"]
    BY DEF PairInv, PairsMatch
  <1>1. ~Generates(p)
    BY DEF Generates, AtRest
  <1> QED
    BY <1>1 DEF PairInv, OneOrUnfinished, Unfinished, Halfway

\* What no maker has made is a file, and no maker at work fits.
LEMMA NotMakingFacts ==
    NotMaking \in Making /\ PlaceFits(NotMaking) /\ NotMaking.at = "idle" /\ ~NotMaking.alone
  BY DEF NotMaking, Making, PlaceFits, PairFiles, NoFile, Halves

\* What a maker makes is a file.
LEMMA MadeIsFile == ASSUME PairInv, NEW p \in Makers PROVE Made(p) \in PairFiles
  BY DEF PairInv, Made, PairFiles

\* A call that begins alone finds no generator, and one that generates leaves no other alone.
LEMMA StartCallInv ==
    ASSUME PairInv, NEW p \in Makers, NEW op \in {"generate", "sign"}, NEW at,
           at = IF op = "generate" THEN "write" ELSE "sign", StartCall(p, op, at),
           pair' = pair, halfPair' = halfPair
    PROVE  PairInv'
  <1> DEFINE m == [NotMaking EXCEPT !.op = op, !.at = at,
                     !.alone = (halfPair => op = "generate")
                               /\ \A o \in Makers \ {p} : ~Generates(o)]
  <1>0. AtRest(p) /\ maker \in [Makers -> Making] /\ makes \in [Makers -> Nat]
    BY DEF StartCall, PairInv
  <1>1. /\ m \in Making /\ PlaceFits(m) /\ m.op = op /\ m.at = at /\ m.half = "private"
        /\ m.alone => (halfPair => op = "generate") /\ \A o \in Makers \ {p} : ~Generates(o)
    BY DEF NotMaking, Making, PlaceFits, PairFiles, NoFile, Halves
  <1>2. /\ maker' = [q \in Makers |->
                       IF q = p THEN m
                       ELSE IF op = "generate" THEN [maker[q] EXCEPT !.alone = @ /\ AtRest(q)]
                                               ELSE maker[q]]
        /\ makes' = [makes EXCEPT ![p] = @ + 1]
    BY DEF StartCall
  <1> HIDE DEF m
  <1>3. /\ maker'[p] = m
        /\ \A q \in Makers \ {p} :
              /\ maker'[q] \in Making
              /\ maker'[q].op = maker[q].op /\ maker'[q].at = maker[q].at
              /\ maker'[q].half = maker[q].half /\ maker'[q].signer = maker[q].signer
              /\ maker'[q].alone => maker[q].alone
              /\ maker'[q].alone /\ op = "generate" => AtRest(q)
              /\ makes'[q] = makes[q]
    <2> SUFFICES ASSUME NEW q \in Makers \ {p}
                 PROVE  /\ maker'[q] \in Making
                        /\ maker'[q].op = maker[q].op /\ maker'[q].at = maker[q].at
                        /\ maker'[q].half = maker[q].half /\ maker'[q].signer = maker[q].signer
                        /\ maker'[q].alone => maker[q].alone
                        /\ maker'[q].alone /\ op = "generate" => AtRest(q)
                        /\ makes'[q] = makes[q]
      BY <1>2
    <2>1. maker[q] \in Making /\ AtRest(q) \in BOOLEAN
      BY <1>0 DEF AtRest
    <2>2. CASE op = "generate"
      BY <1>0, <1>2, <2>1, <2>2 DEF Making
    <2>3. CASE op # "generate"
      BY <1>0, <1>2, <2>1, <2>3
    <2> QED
      BY <2>2, <2>3
  <1>4. maker' \in [Makers -> Making] /\ makes' \in [Makers -> Nat]
    <2>1. \A q \in Makers : maker'[q] \in Making
      BY <1>1, <1>3
    <2>2. maker' \in [Makers -> Making]
      BY <1>2, <2>1
    <2>3. makes' \in [Makers -> Nat]
      BY <1>0, <1>2
    <2> QED
      BY <2>2, <2>3
  <1>5. \A q \in Makers \ {p} : /\ AtRest(q)' = AtRest(q) /\ Generates(q)' = Generates(q)
                                /\ Made(q)' = Made(q) /\ Halfway(q)' = Halfway(q)
                                /\ Unfinished(q)' = Unfinished(q)
    BY <1>3 DEF AtRest, Generates, Made, Halfway, Unfinished
  <1>6. /\ Generates(p)' => op = "generate" /\ ~Halfway(p)'
        /\ ~Generates(p)
    BY <1>0, <1>1, <1>3 DEF Generates, AtRest, Halfway
  <1>7. ASSUME NEW q \in Makers PROVE /\ PlaceFits(maker'[q])
                                      /\ maker'[q].at = "mismatched" => ~maker'[q].alone
                                      /\ AloneFits(q)'
    <2>1. CASE q = p
      <3>1. maker'[p].at # "mismatched" /\ maker'[p].at # "mark" /\ ~Halfway(p)'
        BY <1>1, <1>3, <1>6 DEF Halfway
      <3>2. maker'[p].alone => /\ \A o \in Makers \ {p} : ~Generates(o)'
                               /\ maker'[p].op = "sign" => ~halfPair'
        BY <1>1, <1>3, <1>5
      <3> QED
        BY <1>1, <1>3, <2>1, <3>1, <3>2 DEF AloneFits
    <2>2. CASE q # p
      <3>1. PlaceFits(maker'[q]) /\ (maker'[q].at = "mismatched" => ~maker'[q].alone)
        BY <1>3, <2>2 DEF PairInv, PlaceFits
      <3>2. ASSUME maker'[q].alone, ~AtRest(q)'
            PROVE  /\ \A o \in Makers \ {q} : ~Generates(o)'
                   /\ Halfway(q)' => pair'["private"] = Made(q)'
                   /\ maker'[q].op = "sign" => ~halfPair'
                   /\ maker'[q].at = "mark" => maker'[q].signer = pair'["private"]
        <4>1. maker[q].alone /\ ~AtRest(q) /\ op # "generate" /\ AloneFits(q)
          BY <1>3, <1>5, <2>2, <3>2 DEF PairInv
        <4> QED
          BY <1>3, <1>5, <1>6, <2>2, <4>1 DEF AloneFits
      <3> QED
        BY <3>1, <3>2 DEF AloneFits
    <2> QED
      BY <2>1, <2>2
  <1>8. OneOrUnfinished'
    BY <1>5, <1>6 DEF PairInv, OneOrUnfinished, Unfinished, Halfway
  <1> QED
    BY <1>4, <1>7, <1>8 DEF PairInv

\* A maker goes on: what the others know of the files still holds, unless it writes.
LEMMA MakerMoves ==
    ASSUME PairInv, NEW p \in Makers, NEW m \in Making, maker' = [maker EXCEPT ![p] = m],
           UNCHANGED makes, PlaceFits(m), m.at = "mismatched" => ~m.alone,
           pair' \in [Halves -> PairFiles], halfPair' \in BOOLEAN, OneOrUnfinished',
           Generates(p)' => Generates(p),
           AloneFits(p)',
           Generates(p) \/ UNCHANGED <<pair, halfPair>>
    PROVE  PairInv'
  <1>0. maker \in [Makers -> Making]
    BY DEF PairInv
  <1>1. maker' \in [Makers -> Making] /\ maker'[p] = m /\ \A q \in Makers \ {p} : maker'[q] = maker[q]
    BY <1>0
  <1>2. \A q \in Makers \ {p} : /\ AtRest(q)' = AtRest(q) /\ Generates(q)' = Generates(q)
                                /\ Made(q)' = Made(q) /\ Halfway(q)' = Halfway(q)
    BY <1>1 DEF AtRest, Generates, Made, Halfway
  <1>3. ASSUME NEW q \in Makers \ {p} PROVE AloneFits(q)'
    <2>1. AloneFits(q)
      BY DEF PairInv
    <2>2. SUFFICES ASSUME maker[q].alone, ~AtRest(q) PROVE AloneFits(q)'
      BY <1>1, <1>2 DEF AloneFits
    <2>3. ~Generates(p) /\ UNCHANGED <<pair, halfPair>>
      BY <2>1, <2>2 DEF AloneFits
    <2>4. \A o \in Makers \ {q} : ~Generates(o)'
      BY <1>2, <2>1, <2>2 DEF AloneFits
    <2> QED
      BY <1>1, <1>2, <2>1, <2>2, <2>3, <2>4 DEF AloneFits
  <1> QED
    BY <1>1, <1>3 DEF PairInv

\* A maker that stops knows nothing; half a pair may be left if it generated.
LEMMA StopsInv ==
    ASSUME PairInv, NEW p \in Makers, MakerStops(p), UNCHANGED makes, halfPair' \in BOOLEAN,
           pair' \in [Halves -> PairFiles],
           IF Generates(p) THEN halfPair' ELSE UNCHANGED <<pair, halfPair>>
    PROVE  PairInv'
  <1>0. maker' = [maker EXCEPT ![p] = NotMaking] /\ maker \in [Makers -> Making]
    BY DEF MakerStops, PairInv
  <1>1. /\ maker'[p] = NotMaking
        /\ \A q \in Makers \ {p} : Unfinished(q) => Unfinished(q)'
    BY <1>0 DEF Unfinished, Halfway, Generates, AtRest
  <1>2. ~Generates(p)' /\ AloneFits(p)'
    BY <1>1, NotMakingFacts DEF Generates, AtRest, AloneFits
  <1>3. OneOrUnfinished'
    BY <1>1 DEF PairInv, OneOrUnfinished, Unfinished, Halfway
  <1> QED
    BY <1>0, <1>1, <1>2, <1>3, NotMakingFacts, MakerMoves

\* A key that is written is that of its maker.
LEMMA WriteHalfInv == ASSUME PairInv, NEW p \in Makers, WriteHalf(p) PROVE PairInv'
  <1> DEFINE m == [maker[p] EXCEPT !.at = IF sort = "signing" THEN "confirm" ELSE "next"]
  <1>0. /\ maker \in [Makers -> Making] /\ maker[p] \in Making /\ maker[p].at = "write"
        /\ halfPair \in BOOLEAN /\ pair \in [Halves -> PairFiles] /\ maker[p].half \in Halves
        /\ PlaceFits(maker[p]) /\ AloneFits(p)
    BY DEF PairInv, WriteHalf, Making
  <1>1. /\ m \in Making /\ m.at \in {"confirm", "next"} /\ m.half = maker[p].half
        /\ m.op = maker[p].op /\ m.alone = maker[p].alone /\ maker[p].op = "generate"
    BY <1>0 DEF Making, PlaceFits
  <1>2. /\ maker' = [maker EXCEPT ![p] = m] /\ UNCHANGED makes
        /\ pair' = [pair EXCEPT ![maker[p].half] = Made(p)]
        /\ halfPair' = (~maker[p].alone \/ (maker[p].half = "private" /\ halfPair))
    BY <1>0 DEF WriteHalf
  <1> HIDE DEF m
  <1>3. /\ maker'[p] = m /\ \A q \in Makers \ {p} : maker'[q] = maker[q]
        /\ pair' \in [Halves -> PairFiles] /\ halfPair' \in BOOLEAN
        /\ pair'[maker[p].half] = Made(p) /\ Made(p)' = Made(p)
        /\ \A h \in Halves \ {maker[p].half} : pair'[h] = pair[h]
    BY <1>0, <1>1, <1>2, MadeIsFile DEF Made, Making
  <1>4. Generates(p) /\ Generates(p)' /\ Halfway(p)'
    BY <1>0, <1>1, <1>3 DEF Generates, AtRest, Halfway
  <1>5. pair'["private"] = Made(p)' \/ ~maker[p].alone
    <2>1. CASE maker[p].half = "private"
      BY <1>3, <2>1
    <2>2. CASE maker[p].half = "public"
      BY <1>0, <1>3, <1>4, <2>2 DEF AloneFits, Halfway, Generates, Halves
    <2> QED
      BY <1>0, <2>1, <2>2 DEF Halves
  <1>6. AloneFits(p)'
    <2>1. \A q \in Makers \ {p} : Generates(q)' = Generates(q)
      BY <1>3 DEF Generates, AtRest
    <2>2. maker[p].alone => \A q \in Makers \ {p} : ~Generates(q)
      BY <1>0, <1>4 DEF AloneFits, Generates
    <2> QED
      BY <1>1, <1>3, <1>5, <2>1, <2>2 DEF AloneFits
  <1>7. OneOrUnfinished'
    <2> SUFFICES ASSUME maker[p].alone, maker[p].half = "public" \/ ~halfPair
                 PROVE  OneOrUnfinished'
      BY <1>0, <1>2 DEF OneOrUnfinished, Halves
    <2>1. CASE maker[p].half = "public"
      <3>1. pair'["public"] = Made(p)' /\ pair'["private"] = Made(p)'
        BY <1>3, <1>5, <2>1
      <3> QED
        BY <3>1 DEF OneOrUnfinished
    <2>2. CASE maker[p].half = "private"
      <3>1. Unfinished(p)'
        BY <1>1, <1>3, <1>4, <2>2 DEF Unfinished
      <3> QED
        BY <3>1 DEF OneOrUnfinished
    <2> QED
      BY <1>0, <2>1, <2>2 DEF Halves
  <1>8. PlaceFits(m) /\ m.at # "mismatched"
    BY <1>1 DEF PlaceFits
  <1> QED
    BY <1>1, <1>2, <1>3, <1>4, <1>6, <1>7, <1>8, MakerMoves

\* A look at the file written, and the step to the other file, change no file.
LEMMA ConfirmHalfInv == ASSUME PairInv, NEW p \in Makers, ConfirmHalf(p) PROVE PairInv'
  <1> DEFINE m == [maker[p] EXCEPT !.at = IF pair[maker[p].half] = Made(p) THEN "next" ELSE "withdraw"]
  <1>0. /\ maker \in [Makers -> Making] /\ maker[p] \in Making /\ maker[p].at = "confirm"
        /\ PlaceFits(maker[p]) /\ AloneFits(p) /\ PairInv
    BY DEF PairInv, ConfirmHalf
  <1>1. /\ m \in Making /\ m.at \in {"withdraw", "next"} /\ m.half = maker[p].half
        /\ m.op = "generate" /\ m.alone = maker[p].alone /\ maker[p].op = "generate"
    BY <1>0 DEF Making, PlaceFits
  <1>2. maker' = [maker EXCEPT ![p] = m] /\ UNCHANGED <<makes, pair, halfPair>>
    BY <1>0 DEF ConfirmHalf
  <1> HIDE DEF m
  <1>3. maker'[p] = m /\ \A q \in Makers \ {p} : maker'[q] = maker[q]
    BY <1>0, <1>2
  <1>4. /\ Generates(p) /\ Generates(p)' /\ Halfway(p) /\ Halfway(p)' /\ Made(p)' = Made(p)
        /\ Unfinished(p)' = Unfinished(p)
        /\ \A q \in Makers \ {p} : Generates(q)' = Generates(q) /\ Unfinished(q)' = Unfinished(q)
    BY <1>0, <1>1, <1>2, <1>3 DEF Generates, AtRest, Halfway, Unfinished, Made
  <1>5. AloneFits(p)'
    BY <1>0, <1>1, <1>2, <1>3, <1>4 DEF AloneFits, Generates
  <1>6. OneOrUnfinished'
    BY <1>2, <1>4 DEF PairInv, OneOrUnfinished
  <1>7. PlaceFits(m) /\ m.at # "mismatched"
    BY <1>1 DEF PlaceFits
  <1>8. pair' \in [Halves -> PairFiles] /\ halfPair' \in BOOLEAN
    BY <1>2 DEF PairInv
  <1> QED
    BY <1>1, <1>2, <1>4, <1>5, <1>6, <1>7, <1>8, MakerMoves

LEMMA NextHalfInv == ASSUME PairInv, NEW p \in Makers, NextHalf(p) PROVE PairInv'
  <1> DEFINE m == [maker[p] EXCEPT !.half = "public",
                                   !.at = IF maker[p].half = "private" THEN "write" ELSE "made"]
  <1>0. /\ maker \in [Makers -> Making] /\ maker[p] \in Making /\ maker[p].at = "next"
        /\ PlaceFits(maker[p]) /\ AloneFits(p) /\ PairInv
    BY DEF PairInv, NextHalf
  <1>1. /\ m \in Making /\ m.half = "public" /\ m.op = "generate" /\ m.alone = maker[p].alone
        /\ maker[p].op = "generate"
        /\ m.at = IF maker[p].half = "private" THEN "write" ELSE "made"
        /\ maker[p].half \in {"private", "public"}
    BY <1>0 DEF Making, PlaceFits, Halves
  <1>2. maker' = [maker EXCEPT ![p] = m] /\ UNCHANGED <<makes, pair, halfPair>>
    BY <1>0 DEF NextHalf
  <1> HIDE DEF m
  <1>3. maker'[p] = m /\ \A q \in Makers \ {p} : maker'[q] = maker[q]
    BY <1>0, <1>2
  <1>4. /\ Generates(p) /\ Halfway(p) /\ Made(p)' = Made(p)
        /\ Unfinished(p)' = Unfinished(p)
        /\ \A q \in Makers \ {p} : Generates(q)' = Generates(q) /\ Unfinished(q)' = Unfinished(q)
    BY <1>0, <1>1, <1>2, <1>3 DEF Generates, AtRest, Halfway, Unfinished, Made
  <1>5. AloneFits(p)'
    BY <1>0, <1>1, <1>2, <1>3, <1>4 DEF AloneFits, Generates
  <1>6. OneOrUnfinished'
    BY <1>2, <1>4 DEF PairInv, OneOrUnfinished
  <1>7. PlaceFits(m) /\ m.at # "mismatched"
    BY <1>1 DEF PlaceFits
  <1>8. pair' \in [Halves -> PairFiles] /\ halfPair' \in BOOLEAN
    BY <1>2 DEF PairInv
  <1> QED
    BY <1>1, <1>2, <1>4, <1>5, <1>6, <1>7, <1>8, MakerMoves

\* Who signs alone reads a pair that nobody changes until both halves are read.
LEMMA ReadPrivateInv == ASSUME PairInv, NEW p \in Makers, ReadPrivate(p) PROVE PairInv'
  <1> DEFINE m == [maker[p] EXCEPT !.at = "mark", !.signer = pair["private"]]
  <1>0. /\ maker \in [Makers -> Making] /\ maker[p] \in Making /\ maker[p].at = "sign"
        /\ PlaceFits(maker[p]) /\ AloneFits(p) /\ PairInv /\ pair["private"] \in PairFiles
        /\ UNCHANGED <<makes, pair, halfPair>> /\ ~Generates(p)
    BY DEF PairInv, ReadPrivate, Halves, Generates, PlaceFits
  <1>1. /\ m \in Making /\ m.at = "mark" /\ m.op = "sign" /\ m.alone = maker[p].alone
        /\ maker[p].op = "sign" /\ m.signer = pair["private"]
    BY <1>0 DEF Making, PlaceFits
  <1>2. CASE MakerStops(p)
    BY <1>0, <1>2, StopsInv DEF PairInv
  <1>3. CASE maker' = [maker EXCEPT ![p] = m]
    <2> HIDE DEF m
    <2>1. maker'[p] = m /\ \A q \in Makers \ {p} : maker'[q] = maker[q]
      BY <1>0, <1>3
    <2>2. /\ ~Generates(p)' /\ ~Halfway(p)'
          /\ \A q \in Makers : Generates(q)' = Generates(q) /\ Unfinished(q)' = Unfinished(q)
      BY <1>0, <1>1, <2>1 DEF Generates, AtRest, Halfway, Unfinished
    <2>3. AloneFits(p)'
      BY <1>0, <1>1, <2>1, <2>2 DEF AloneFits, AtRest
    <2>4. OneOrUnfinished'
      BY <1>0, <2>2 DEF PairInv, OneOrUnfinished
    <2>5. PlaceFits(m) /\ m.at # "mismatched"
      BY <1>1 DEF PlaceFits
    <2>6. pair' \in [Halves -> PairFiles] /\ halfPair' \in BOOLEAN
      BY <1>0 DEF PairInv
    <2> QED
      BY <1>0, <1>1, <1>3, <2>2, <2>3, <2>4, <2>5, <2>6, MakerMoves
  <1> QED
    BY <1>0, <1>2, <1>3 DEF ReadPrivate

LEMMA ReadPublicInv == ASSUME PairInv, NEW p \in Makers, ReadPublic(p) PROVE PairInv'
  <1> DEFINE m == [maker[p] EXCEPT !.at = IF pair["public"] = maker[p].signer
                                          THEN "matched" ELSE "mismatched"]
  <1>0. /\ maker \in [Makers -> Making] /\ maker[p] \in Making /\ maker[p].at = "mark"
        /\ PlaceFits(maker[p]) /\ AloneFits(p) /\ PairInv
        /\ UNCHANGED <<makes, pair, halfPair>> /\ ~Generates(p) /\ ~AtRest(p)
    BY DEF PairInv, ReadPublic, Generates, PlaceFits, AtRest
  <1>1. /\ m \in Making /\ m.at \in {"matched", "mismatched"} /\ m.op = "sign"
        /\ m.alone = maker[p].alone /\ maker[p].op = "sign"
        /\ m.at = "mismatched" => pair["public"] # maker[p].signer
    BY <1>0 DEF Making, PlaceFits
  <1>2. CASE MakerStops(p)
    BY <1>0, <1>2, StopsInv DEF PairInv
  <1>3. CASE maker' = [maker EXCEPT ![p] = m]
    <2> HIDE DEF m
    <2>1. maker'[p] = m /\ \A q \in Makers \ {p} : maker'[q] = maker[q]
      BY <1>0, <1>3
    <2>2. /\ ~Generates(p)' /\ AtRest(p)'
          /\ \A q \in Makers : Generates(q)' = Generates(q) /\ Unfinished(q)' = Unfinished(q)
      BY <1>0, <1>1, <2>1 DEF Generates, AtRest, Halfway, Unfinished
    <2>3. AloneFits(p)'
      BY <2>2 DEF AloneFits
    <2>4. OneOrUnfinished'
      BY <1>0, <2>2 DEF PairInv, OneOrUnfinished
    <2>5. m.alone => pair["public"] = maker[p].signer
      <3> SUFFICES ASSUME m.alone PROVE pair["public"] = maker[p].signer
        OBVIOUS
      <3>1. /\ \A q \in Makers : ~Generates(q)
            /\ ~halfPair /\ maker[p].signer = pair["private"]
        BY <1>0, <1>1 DEF AloneFits
      <3> QED
        BY <1>0, <3>1 DEF PairInv, OneOrUnfinished, Unfinished, Halfway
    <2>6. PlaceFits(m) /\ (m.at = "mismatched" => ~m.alone)
      BY <1>1, <2>5 DEF PlaceFits
    <2>7. pair' \in [Halves -> PairFiles] /\ halfPair' \in BOOLEAN
      BY <1>0 DEF PairInv
    <2> QED
      BY <1>0, <1>1, <1>3, <2>2, <2>3, <2>4, <2>6, <2>7, MakerMoves
  <1> QED
    BY <1>0, <1>2, <1>3 DEF ReadPublic

\* Each step of a maker keeps the invariant.
LEMMA NextPairInv == PairInv /\ [PairNext]_pairVars => PairInv'
  <1> SUFFICES ASSUME PairInv, [PairNext]_pairVars PROVE PairInv'
    OBVIOUS
  <1>1. ASSUME NEW p \in Makers,
               (\E force \in BOOLEAN : GenerateBegin(p, force)) \/ SignBegin(p) PROVE PairInv'
    <2>1. PICK op \in {"generate", "sign"} :
             /\ StartCall(p, op, IF op = "generate" THEN "write" ELSE "sign")
             /\ pair' = pair /\ halfPair' = halfPair
      BY <1>1 DEF GenerateBegin, SignBegin
    <2> DEFINE at == IF op = "generate" THEN "write" ELSE "sign"
    <2>2. StartCall(p, op, at) /\ at = IF op = "generate" THEN "write" ELSE "sign"
      BY <2>1
    <2> HIDE DEF at
    <2> QED
      BY <2>1, <2>2, StartCallInv
  <1>2. ASSUME NEW p \in Makers, WithdrawHalf(p) PROVE PairInv'
    <2>1. pair' \in [Halves -> PairFiles] /\ halfPair' = TRUE /\ MakerStops(p) /\ UNCHANGED makes
      BY <1>2 DEF WithdrawHalf, PairInv, PairFiles, NoFile
    <2>2. Generates(p)
      BY <1>2 DEF WithdrawHalf, Generates, AtRest, PairInv, PlaceFits, Making
    <2> QED
      BY <2>1, <2>2, StopsInv
  <1>3. ASSUME NEW p \in Makers, MakerDeath(p) PROVE PairInv'
    <2>1. /\ halfPair' = (halfPair \/ Generates(p)) /\ MakerStops(p) /\ UNCHANGED <<makes, pair>>
          /\ halfPair \in BOOLEAN /\ pair \in [Halves -> PairFiles]
      BY <1>3 DEF MakerDeath, PairInv
    <2>2. Generates(p) \in BOOLEAN
      BY DEF Generates, AtRest
    <2> QED
      BY <2>1, <2>2, StopsInv
  <1>4. CASE UNCHANGED pairVars
    <2>1. /\ \A p \in Makers : AloneFits(p)' = AloneFits(p)
          /\ OneOrUnfinished' = OneOrUnfinished
      BY <1>4 DEF pairVars, AloneFits, OneOrUnfinished, Unfinished, Halfway, Generates, AtRest, Made
    <2>2. UNCHANGED <<pair, halfPair, makes, maker>>
      BY <1>4 DEF pairVars
    <2>3. /\ pair' \in [Halves -> PairFiles] /\ halfPair' \in BOOLEAN
          /\ makes' \in [Makers -> Nat] /\ maker' \in [Makers -> Making]
          /\ OneOrUnfinished'
      BY <2>1, <2>2 DEF PairInv
    <2>4. ASSUME NEW p \in Makers PROVE /\ PlaceFits(maker'[p])
                                        /\ maker'[p].at = "mismatched" => ~maker'[p].alone
                                        /\ AloneFits(p)'
      BY <2>1, <2>2 DEF PairInv, PlaceFits
    <2> QED
      BY <2>3, <2>4 DEF PairInv
  <1> QED
    BY <1>1, <1>2, <1>3, <1>4, WriteHalfInv, ConfirmHalfInv, NextHalfInv, ReadPrivateInv,
       ReadPublicInv DEF PairNext

\* At first there is no pair.
LEMMA InitPairInv == PairInit => PairInv
  <1> SUFFICES ASSUME PairInit PROVE PairInv
    OBVIOUS
  <1>1. /\ \A p \in Makers : maker[p] = NotMaking /\ AtRest(p)
        /\ maker \in [Makers -> Making] /\ makes \in [Makers -> Nat]
        /\ pair \in [Halves -> PairFiles] /\ pair["private"] = pair["public"] /\ halfPair = FALSE
    BY NotMakingFacts DEF PairInit, AtRest, PairFiles, NoFile, Halves
  <1> QED
    BY <1>1, NotMakingFacts DEF PairInv, AloneFits, OneOrUnfinished

\* So the invariant holds for good.
LEMMA PairInvHolds == PairSpec => []PairInv
  BY InitPairInv, NextPairInv, PTL DEF PairSpec

-----------------------------------------------------------------------------
(* The trust store.  Two indexes of one file are one index: a command saves  *)
(* once, under a stamp of its own.  So a save that is not stale changes one  *)
(* entry of the index that is there, and a rotation that finds the index it  *)
(* looked at finds its entry still active.                                   *)

Stamps == (Admins \cup {"nowhere"}) \X Nat
Entry == [status : {"absent", "active", "revoked"}, key : Keys \cup {"none"}]
IndexType == {x \in [file : Stamps, entries : [Identities -> Entry]] :
                 \A i \in Identities : x.entries[i].status = "active" => x.entries[i].key \in Keys}
Command ==
    [op : {"none", "add", "replace", "rotate", "get", "revoke"},
     at : {"idle", "done", "look", "look key", "key", "key id", "load", "save", "confirm", "withdraw"},
     id : Identities \cup {"none"}, key : Keys \cup {"none"},
     target : Keys \cup {"none", "index"}, then : {"none", "done", "key id"}, loaded : IndexType]

\* A command is at a place of its code.
PlaceOf(m) ==
    /\ m.op = "none" => m.at = "idle"
    /\ m.op # "none" => m.id \in Identities /\ m.at # "idle"
    /\ m.op = "get" => m.at \in {"look", "look key", "done"}
    /\ m.op = "revoke" => m.at \in {"load", "save", "confirm", "withdraw", "done"}
    /\ m.op \in {"add", "replace", "rotate"} => m.key \in Keys
    /\ m.op \in {"add", "replace"} => m.at \notin {"look", "look key"}
    /\ m.at \in {"confirm", "withdraw"} =>
          \/ m.target = "index" /\ m.then = "done"
          \/ m.target = m.key /\ m.then = "key id" /\ m.op \in {"add", "replace", "rotate"}

\* It will not save any more.
HasSaved(m) == \/ m.at \in {"idle", "done"}
               \/ m.at \in {"confirm", "withdraw"} /\ m.target = "index"

\* A stamp that the index has had was given by a command that saved.
KnownFile(f) ==
    f # Nowhere => /\ f[1] \in Admins /\ f[2] \in 1 .. commands[f[1]]
                   /\ f[2] = commands[f[1]] => HasSaved(command[f[1]])
KnownIndex(x) == KnownFile(x.file) /\ (x.file = Nowhere => x = NoIndex)

KeysThere(x) ==
    \A i \in Identities : x.entries[i].status = "active" => keyFile[x.entries[i].key] # Nowhere

\* A rotation between its look and its second load.
Rotating(m) ==
    m.op = "rotate" /\ (\/ m.at \in {"look key", "key", "key id", "load"}
                        \/ m.at \in {"confirm", "withdraw"} /\ m.target # "index")

CommandFits(m, n) ==
    /\ PlaceOf(m) /\ (m.at # "idle" => n > 0)
    /\ KnownIndex(m.loaded)
    /\ m.loaded.file = index.file => m.loaded = index
    /\ Rotating(m) \/ (m.op = "rotate" /\ m.at = "save" /\ "rotated" \notin undone) =>
          m.loaded.entries[m.id].status = "active"
    /\ "key removed" \notin undone =>
          /\ KeysThere(m.loaded)
          /\ m.at \in {"load", "save"} /\ m.op # "revoke" => keyFile[m.key] # Nowhere

TrustInv ==
    /\ index \in IndexType /\ keyFile \in [Keys -> Stamps]
    /\ command \in [Admins -> Command] /\ commands \in [Admins -> Nat]
    /\ unreadd \subseteq Identities
    /\ KnownIndex(index)
    /\ \A p \in Admins : CommandFits(command[p], commands[p])
    /\ RevocationsHold /\ TrustedKeysThere /\ NothingForgotten

\* No command is one that fits, whatever the store holds.
LEMMA NoCommandFacts ==
    /\ NoIndex \in IndexType /\ NoCommand \in Command
    /\ NoIndex.file = Nowhere /\ (\A i \in Identities : NoIndex.entries[i].status = "absent")
    /\ PlaceOf(NoCommand) /\ NoCommand.at = "idle" /\ NoCommand.loaded = NoIndex
    /\ NoCommand.op = "none"
  BY DEF NoIndex, IndexType, NoCommand, Command, PlaceOf, Stamps, Entry, Nowhere, Unlisted

\* What was known stays known while no command begins or forgets that it saved.
LEMMA KnownStays ==
    ASSUME commands' = commands, NEW p \in Admins, NEW m, command \in [Admins -> Command],
           command' = [command EXCEPT ![p] = m], HasSaved(command[p]) => HasSaved(m)
    PROVE  /\ \A f : KnownFile(f) => KnownFile(f)'
           /\ \A x : KnownIndex(x) => KnownIndex(x)'
  <1>1. ASSUME NEW f, KnownFile(f) PROVE KnownFile(f)'
    <2> SUFFICES ASSUME f # Nowhere, f[1] \in Admins, f[2] = commands[f[1]]
                 PROVE  HasSaved(command'[f[1]])
      BY <1>1 DEF KnownFile
    <2>1. HasSaved(command[f[1]])
      BY <1>1 DEF KnownFile
    <2> QED
      BY <2>1
  <1> QED
    BY <1>1 DEF KnownIndex

\* A step of one command that leaves the index alone.
LEMMA CommandMoves ==
    ASSUME TrustInv, NEW p \in Admins, NEW m \in Command, command' = [command EXCEPT ![p] = m],
           commands' = commands, index' = index, unreadd' = unreadd, undone \subseteq undone',
           keyFile' \in [Keys -> Stamps],
           "key removed" \notin undone' =>
              \A k \in Keys : keyFile[k] # Nowhere => keyFile'[k] # Nowhere,
           HasSaved(command[p]) => HasSaved(m),
           PlaceOf(m), m.at # "idle" => commands[p] > 0, KnownIndex(m.loaded),
           m.loaded.file = index.file => m.loaded = index,
           Rotating(m) \/ (m.op = "rotate" /\ m.at = "save" /\ "rotated" \notin undone') =>
              m.loaded.entries[m.id].status = "active",
           "key removed" \notin undone' =>
              /\ KeysThere(m.loaded)
              /\ m.at \in {"load", "save"} /\ m.op # "revoke" => keyFile'[m.key] # Nowhere
    PROVE  TrustInv'
  <1>0. /\ command \in [Admins -> Command] /\ commands \in [Admins -> Nat] /\ index \in IndexType
        /\ \A q \in Admins : CommandFits(command[q], commands[q])
    BY DEF TrustInv
  <1>1. /\ command' \in [Admins -> Command] /\ command'[p] = m
        /\ \A q \in Admins \ {p} : command'[q] = command[q]
    BY <1>0
  <1>2. \A x : KnownIndex(x) => KnownIndex(x)'
    BY <1>0, KnownStays
  <1>3. ASSUME NEW x \in IndexType, KeysThere(x), "key removed" \notin undone' PROVE KeysThere(x)'
    BY <1>3 DEF KeysThere, IndexType
  <1>4. ASSUME NEW q \in Admins \ {p} PROVE CommandFits(command[q], commands[q])'
    <2>1. command[q] \in Command /\ CommandFits(command[q], commands[q]) /\ command'[q] = command[q]
      BY <1>0, <1>1
    <2>2. command[q].loaded \in IndexType
      BY <2>1 DEF Command
    <2>3. KnownIndex(command[q].loaded)'
      BY <1>1, <1>2, <2>1 DEF CommandFits
    <2>4. "key removed" \notin undone' =>
             /\ KeysThere(command[q].loaded)'
             /\ command[q].at \in {"load", "save"} /\ command[q].op # "revoke" =>
                   keyFile'[command[q].key] # Nowhere
      <3> SUFFICES ASSUME "key removed" \notin undone'
                   PROVE  /\ KeysThere(command[q].loaded)'
                          /\ command[q].at \in {"load", "save"} /\ command[q].op # "revoke" =>
                                keyFile'[command[q].key] # Nowhere
        OBVIOUS
      <3>1. KeysThere(command[q].loaded)'
        BY <1>3, <2>1, <2>2 DEF CommandFits
      <3>2. ASSUME command[q].at \in {"load", "save"}, command[q].op # "revoke"
            PROVE  keyFile'[command[q].key] # Nowhere
        <4>1. keyFile[command[q].key] # Nowhere
          BY <2>1, <3>2 DEF CommandFits
        <4>2. command[q].key \in Keys
          BY <2>1, <3>2 DEF CommandFits, PlaceOf, Command
        <4> QED
          BY <4>1, <4>2
      <3> QED
        BY <3>1, <3>2
    <2> QED
      BY <2>1, <2>3, <2>4 DEF CommandFits
  <1>m. CommandFits(m, commands[p])'
    <2>1. KnownIndex(m.loaded)'
      BY <1>2
    <2>2. m.loaded \in IndexType
      BY DEF Command
    <2>3. "key removed" \notin undone' => KeysThere(m.loaded)'
      BY <1>3, <2>2
    <2> QED
      BY <2>1, <2>3 DEF CommandFits
  <1>5. \A q \in Admins : CommandFits(command[q], commands[q])'
    BY <1>1, <1>4, <1>m
  <1>6. /\ RevocationsHold' /\ NothingForgotten' /\ KnownIndex(index)'
    BY <1>2 DEF TrustInv, RevocationsHold, NothingForgotten
  <1>7. TrustedKeysThere'
    <2>1. "key removed" \notin undone' => KeysThere(index)
      BY DEF TrustInv, TrustedKeysThere, KeysThere
    <2> QED
      BY <1>0, <1>3, <2>1 DEF TrustedKeysThere, KeysThere
  <1> QED
    BY <1>0, <1>1, <1>5, <1>6, <1>7 DEF TrustInv

\* A command that ends.
LEMMA CommandEndsInv ==
    ASSUME TrustInv, NEW p \in Admins, CommandEnds(p), commands' = commands, index' = index,
           unreadd' = unreadd, undone \subseteq undone', keyFile' \in [Keys -> Stamps],
           "key removed" \notin undone' =>
              \A k \in Keys : keyFile[k] # Nowhere => keyFile'[k] # Nowhere
    PROVE  TrustInv'
  <1>1. KnownIndex(NoIndex)
    BY NoCommandFacts DEF KnownIndex, KnownFile
  <1>2. index.file = Nowhere => index = NoIndex
    BY DEF TrustInv, KnownIndex
  <1>3. KeysThere(NoIndex) /\ ~Rotating(NoCommand)
    BY NoCommandFacts DEF KeysThere, Rotating
  <1> QED
    BY <1>1, <1>2, <1>3, NoCommandFacts, CommandMoves DEF CommandEnds, HasSaved

\* How a command may begin.
Begins(op, at, k) ==
    \/ op \in {"add", "replace"} /\ at = "key" /\ k \in Keys
    \/ op = "rotate" /\ at = "look" /\ k \in Keys
    \/ op = "get" /\ at = "look"
    \/ op = "revoke" /\ at = "load"

\* A command that begins is the one whose next file has no stamp of an earlier one.
LEMMA StartCommandInv ==
    ASSUME TrustInv, NEW p \in Admins, NEW op, NEW at, NEW i \in Identities,
           NEW k \in Keys \cup {"none"}, Begins(op, at, k), StartCommand(p, op, at, i, k),
           UNCHANGED <<index, keyFile, unreadd, undone>>
    PROVE  TrustInv'
  <1>m. PICK m : m = [NoCommand EXCEPT !.op = op, !.at = at, !.id = i, !.key = k]
    OBVIOUS
  <1>0. /\ command \in [Admins -> Command] /\ commands \in [Admins -> Nat] /\ index \in IndexType
        /\ keyFile \in [Keys -> Stamps] /\ unreadd \subseteq Identities
        /\ \A q \in Admins : CommandFits(command[q], commands[q])
        /\ NoCommandIn(p)
    BY DEF TrustInv, StartCommand
  <1>1. /\ m \in Command /\ m.op = op /\ m.at = at /\ m.id = i /\ m.key = k /\ m.loaded = NoIndex
    <2>1. op \in {"none", "add", "replace", "rotate", "get", "revoke"} /\ at \in {"look", "key", "load"}
      BY DEF Begins
    <2> QED
      BY <1>m, <2>1, NoCommandFacts DEF NoCommand, Command
  <1>2. command' = [command EXCEPT ![p] = m] /\ commands' = [commands EXCEPT ![p] = @ + 1]
    BY <1>m DEF StartCommand
  <1>3. PlaceOf(m)
    BY <1>1 DEF PlaceOf, Begins
  <1>4. /\ command' \in [Admins -> Command] /\ command'[p] = m
        /\ \A q \in Admins \ {p} : command'[q] = command[q] /\ commands'[q] = commands[q]
        /\ commands' \in [Admins -> Nat] /\ commands'[p] = commands[p] + 1
    BY <1>0, <1>1, <1>2
  <1>5. ASSUME NEW f, KnownFile(f) PROVE KnownFile(f)'
    <2> SUFFICES ASSUME f # Nowhere
                 PROVE  /\ f[1] \in Admins /\ f[2] \in 1 .. commands'[f[1]]
                        /\ f[2] = commands'[f[1]] => HasSaved(command'[f[1]])
      BY DEF KnownFile
    <2>1. /\ f[1] \in Admins /\ f[2] \in 1 .. commands[f[1]]
          /\ f[2] = commands[f[1]] => HasSaved(command[f[1]])
      BY <1>5 DEF KnownFile
    <2>2. CASE f[1] = p
      BY <1>0, <1>4, <2>1, <2>2
    <2>3. CASE f[1] # p
      BY <1>4, <2>1, <2>3
    <2> QED
      BY <2>2, <2>3
  <1>6. \A x : KnownIndex(x) => KnownIndex(x)'
    BY <1>5 DEF KnownIndex
  <1>7. KnownIndex(index)' /\ KnownIndex(NoIndex)'
    <2>1. KnownIndex(NoIndex)
      BY NoCommandFacts DEF KnownIndex, KnownFile
    <2>2. KnownIndex(index)
      BY DEF TrustInv
    <2> QED
      BY <1>6, <2>1, <2>2
  <1>8. CommandFits(m, commands[p])'
    <2>1. commands'[p] > 0
      BY <1>0, <1>4
    <2>2. KnownIndex(m.loaded)' /\ (m.loaded.file = index'.file => m.loaded = index')
      BY <1>1, <1>7, NoCommandFacts DEF KnownIndex
    <2>3. ~Rotating(m) /\ m.at # "save" /\ (m.at = "load" => m.op = "revoke")
      BY <1>1 DEF Rotating, Begins
    <2>4. KeysThere(m.loaded)'
      BY <1>1, NoCommandFacts DEF KeysThere
    <2> QED
      BY <1>3, <2>1, <2>2, <2>3, <2>4 DEF CommandFits
  <1>9. ASSUME NEW q \in Admins \ {p} PROVE CommandFits(command[q], commands[q])'
    <2>1. CommandFits(command[q], commands[q]) /\ KnownIndex(command[q].loaded)'
      BY <1>0, <1>4, <1>6 DEF CommandFits
    <2> QED
      BY <1>4, <2>1 DEF CommandFits, KeysThere
  <1>10. \A q \in Admins : CommandFits(command[q], commands[q])'
    BY <1>4, <1>8, <1>9
  <1>11. RevocationsHold' /\ TrustedKeysThere' /\ NothingForgotten'
    BY DEF TrustInv, RevocationsHold, TrustedKeysThere, NothingForgotten
  <1> QED
    BY <1>0, <1>4, <1>7, <1>10, <1>11 DEF TrustInv

\* What a command at a place with an identity knows of itself.
LEMMA CommandKnows ==
    ASSUME TrustInv, NEW p \in Admins, ~NoCommandIn(p)
    PROVE  /\ command \in [Admins -> Command] /\ command[p] \in Command
           /\ command[p].id \in Identities /\ commands[p] \in Nat /\ commands[p] > 0
           /\ CommandFits(command[p], commands[p]) /\ PlaceOf(command[p])
           /\ command[p].op # "none" /\ command[p].loaded \in IndexType
  <1>1. /\ command \in [Admins -> Command] /\ command[p] \in Command /\ commands[p] \in Nat
        /\ CommandFits(command[p], commands[p])
    BY DEF TrustInv
  <1> QED
    BY <1>1 DEF CommandFits, PlaceOf, Command, NoCommandIn

LEMMA ConfirmFileInv == ASSUME TrustInv, NEW p \in Admins, ConfirmFile(p) PROVE TrustInv'
  <1>0. PICK at \in {command[p].then, "withdraw"} : CommandAt(p, at)
    BY DEF ConfirmFile
  <1>m. PICK m : m = [command[p] EXCEPT !.at = at]
    OBVIOUS
  <1>1. ~NoCommandIn(p) /\ command[p].at = "confirm"
    BY DEF ConfirmFile, NoCommandIn
  <1>2. /\ PlaceOf(command[p]) /\ command[p] \in Command /\ CommandFits(command[p], commands[p])
        /\ command \in [Admins -> Command]
    BY <1>1, CommandKnows
  <1>3. /\ command' = [command EXCEPT ![p] = m]
        /\ m.op = command[p].op /\ m.at = at /\ m.id = command[p].id /\ m.key = command[p].key
        /\ m.target = command[p].target /\ m.then = command[p].then
        /\ m.loaded = command[p].loaded
    BY <1>0, <1>m, <1>2 DEF CommandAt, Command
  <1>4. at \in {"done", "key id", "withdraw"}
        /\ (command[p].target = "index" => at # "key id")
        /\ (command[p].target # "index" => at # "done" /\ command[p].op \in {"add", "replace", "rotate"})
    BY <1>0, <1>1, <1>2, TrustAssumption DEF PlaceOf
  <1>5. m \in Command
    BY <1>m, <1>2, <1>4 DEF Command
  <1>6. PlaceOf(m)
    BY <1>1, <1>2, <1>3, <1>4 DEF PlaceOf
  <1>7. HasSaved(command[p]) => HasSaved(m)
    BY <1>1, <1>3, <1>4 DEF HasSaved
  <1>8. Rotating(m) => Rotating(command[p])
    BY <1>1, <1>3, <1>4 DEF Rotating
  <1>9. UNCHANGED <<index, keyFile, commands, unreadd, undone>>
    BY DEF ConfirmFile
  <1>10. m.at \notin {"load", "save"} /\ commands[p] > 0
    BY <1>1, <1>3, <1>4, CommandKnows
  <1>11. keyFile \in [Keys -> Stamps]
    BY DEF TrustInv
  <1>12. /\ KnownIndex(m.loaded) /\ (m.loaded.file = index.file => m.loaded = index)
         /\ Rotating(m) => m.loaded.entries[m.id].status = "active"
         /\ "key removed" \notin undone => KeysThere(m.loaded)
    BY <1>2, <1>3, <1>8 DEF CommandFits
  <1> QED
    BY <1>3, <1>5, <1>6, <1>7, <1>9, <1>10, <1>11, <1>12, CommandMoves

\* A step of one command that only changes where it is.
LEMMA PlaceMoves ==
    ASSUME TrustInv, NEW p \in Admins, ~NoCommandIn(p), command[p].at \notin {"confirm", "withdraw"},
           NEW at \in {"look key", "key", "load", "done"}, CommandAt(p, at),
           UNCHANGED <<index, keyFile, commands, unreadd, undone>>,
           PlaceOf([command[p] EXCEPT !.at = at]),
           Rotating([command[p] EXCEPT !.at = at]) => Rotating(command[p]),
           "key removed" \notin undone /\ at = "load" /\ command[p].op # "revoke" =>
              keyFile[command[p].key] # Nowhere
    PROVE  TrustInv'
  <1>m. PICK m : m = [command[p] EXCEPT !.at = at]
    OBVIOUS
  <1>1. /\ command[p] \in Command /\ CommandFits(command[p], commands[p])
        /\ command \in [Admins -> Command] /\ commands[p] > 0 /\ command[p].at \notin {"idle", "done"}
    BY CommandKnows DEF NoCommandIn
  <1>2. /\ command' = [command EXCEPT ![p] = m] /\ m \in Command
        /\ m.op = command[p].op /\ m.at = at /\ m.id = command[p].id /\ m.key = command[p].key
        /\ m.loaded = command[p].loaded
    BY <1>m, <1>1 DEF CommandAt, Command
  <1>3. ~HasSaved(command[p])
    BY <1>1 DEF HasSaved
  <1>4. keyFile \in [Keys -> Stamps]
    BY DEF TrustInv
  <1>5. PlaceOf(m) /\ (Rotating(m) => Rotating(command[p])) /\ m.at # "save"
    BY <1>m, <1>2
  <1>6. /\ KnownIndex(m.loaded) /\ (m.loaded.file = index.file => m.loaded = index)
        /\ Rotating(m) => m.loaded.entries[m.id].status = "active"
        /\ "key removed" \notin undone => KeysThere(m.loaded)
    BY <1>1, <1>2, <1>5 DEF CommandFits
  <1> QED
    BY <1>1, <1>2, <1>3, <1>4, <1>5, <1>6, CommandMoves

LEMMA CheckKeyFileInv == ASSUME TrustInv, NEW p \in Admins, CheckKeyFile(p) PROVE TrustInv'
  <1>1. command[p].at = "key id" /\ ~NoCommandIn(p)
    BY DEF CheckKeyFile, NoCommandIn
  <1>2. command[p] \in Command /\ PlaceOf(command[p]) /\ keyFile \in [Keys -> Stamps]
    BY <1>1, CommandKnows DEF TrustInv
  <1>3. CASE CommandEnds(p)
    BY <1>2, <1>3, CommandEndsInv DEF CheckKeyFile
  <1>4. CASE keyFile[command[p].key] # Nowhere /\ CommandAt(p, "load")
    <2>1. PlaceOf([command[p] EXCEPT !.at = "load"])
      BY <1>1, <1>2 DEF PlaceOf, Command
    <2>2. Rotating([command[p] EXCEPT !.at = "load"]) => Rotating(command[p])
      BY <1>1, <1>2 DEF Rotating, Command
    <2> QED
      BY <1>1, <1>4, <2>1, <2>2, PlaceMoves DEF CheckKeyFile
  <1> QED
    BY <1>3, <1>4 DEF CheckKeyFile

LEMMA LookUpKeyInv == ASSUME TrustInv, NEW p \in Admins, LookUpKey(p) PROVE TrustInv'
  <1>1. command[p].at = "look key" /\ ~NoCommandIn(p)
    BY DEF LookUpKey, NoCommandIn
  <1>2. command[p] \in Command /\ PlaceOf(command[p]) /\ keyFile \in [Keys -> Stamps]
    BY <1>1, CommandKnows DEF TrustInv
  <1>3. CASE CommandEnds(p)
    BY <1>2, <1>3, CommandEndsInv DEF LookUpKey
  <1>4. CASE command[p].op = "get" /\ CommandAt(p, "done")
    <2>1. PlaceOf([command[p] EXCEPT !.at = "done"])
      BY <1>1, <1>2, <1>4 DEF PlaceOf, Command
    <2>2. Rotating([command[p] EXCEPT !.at = "done"]) => Rotating(command[p])
      BY <1>1, <1>2, <1>4 DEF Rotating, Command
    <2> QED
      BY <1>1, <1>4, <2>1, <2>2, PlaceMoves DEF LookUpKey
  <1>5. CASE command[p].op # "get" /\ CommandAt(p, "key")
    <2>1. PlaceOf([command[p] EXCEPT !.at = "key"])
      BY <1>1, <1>2, <1>5 DEF PlaceOf, Command
    <2>2. Rotating([command[p] EXCEPT !.at = "key"]) => Rotating(command[p])
      BY <1>1, <1>2, <1>5 DEF Rotating, Command
    <2> QED
      BY <1>1, <1>5, <2>1, <2>2, PlaceMoves DEF LookUpKey
  <1> QED
    BY <1>3, <1>4, <1>5 DEF LookUpKey

\* A command that loads the index holds the one that is there.
LEMMA CommandLoads ==
    ASSUME TrustInv, NEW p \in Admins, command[p].at \in {"look", "load"},
           NEW at \in {"look key", "save"},
           command' = [command EXCEPT ![p].at = at, ![p].loaded = index],
           UNCHANGED <<index, keyFile, commands, unreadd>>,
           undone \subseteq undone', "key removed" \notin undone => "key removed" \notin undone',
           command[p].at = "look" => at = "look key" /\ command[p].op \in {"get", "rotate"},
           command[p].at = "load" => at = "save",
           \/ command[p].op # "rotate"
           \/ "rotated" \in undone' /\ at = "save"
           \/ index.entries[command[p].id].status = "active"
    PROVE  TrustInv'
  <1>m. PICK m : m = [command[p] EXCEPT !.at = at, !.loaded = index]
    OBVIOUS
  <1>1. /\ command[p] \in Command /\ CommandFits(command[p], commands[p]) /\ PlaceOf(command[p])
        /\ command \in [Admins -> Command] /\ commands[p] > 0
    BY CommandKnows DEF NoCommandIn
  <1>2. index \in IndexType /\ keyFile \in [Keys -> Stamps] /\ KnownIndex(index)
    BY DEF TrustInv
  <1>3. /\ command' = [command EXCEPT ![p] = m] /\ m \in Command
        /\ m.op = command[p].op /\ m.at = at /\ m.id = command[p].id /\ m.key = command[p].key
        /\ m.loaded = index
    BY <1>m, <1>1, <1>2 DEF Command
  <1>4. ~HasSaved(command[p])
    BY DEF HasSaved
  <1>5. PlaceOf(m)
    BY <1>1, <1>3 DEF PlaceOf
  <1>6. Rotating(m) \/ (m.op = "rotate" /\ m.at = "save" /\ "rotated" \notin undone') =>
           m.loaded.entries[m.id].status = "active"
    BY <1>3 DEF Rotating
  <1>7. "key removed" \notin undone' =>
           KeysThere(m.loaded) /\ (m.at \in {"load", "save"} /\ m.op # "revoke" =>
                                      keyFile[m.key] # Nowhere)
    <2> SUFFICES ASSUME "key removed" \notin undone
                 PROVE  KeysThere(m.loaded) /\ (m.at \in {"load", "save"} /\ m.op # "revoke" =>
                                                   keyFile[m.key] # Nowhere)
      OBVIOUS
    <2>1. KeysThere(index)
      BY DEF TrustInv, TrustedKeysThere, KeysThere
    <2>2. m.at \in {"load", "save"} => command[p].at = "load"
      BY <1>3
    <2>3. command[p].at = "load" /\ command[p].op # "revoke" => keyFile[command[p].key] # Nowhere
      BY <1>1 DEF CommandFits
    <2> QED
      BY <1>3, <2>1, <2>2, <2>3
  <1> QED
    BY <1>1, <1>2, <1>3, <1>4, <1>5, <1>6, <1>7, CommandMoves

LEMMA LoadForAddInv == ASSUME TrustInv, NEW p \in Admins, LoadForAdd(p) PROVE TrustInv'
  <1>1. /\ command[p].at = "load" /\ command[p].op # "revoke" /\ ~NoCommandIn(p)
        /\ undone \subseteq undone' /\ ("key removed" \notin undone => "key removed" \notin undone')
        /\ UNCHANGED <<index, keyFile, commands, unreadd>>
    BY DEF LoadForAdd, NoCommandIn
  <1>2. CommandFits(command[p], commands[p]) /\ keyFile \in [Keys -> Stamps]
    BY <1>1, CommandKnows DEF TrustInv
  <1>3. CASE CommandEnds(p)
    BY <1>1, <1>2, <1>3, CommandEndsInv
  <1>4. CASE command' = [command EXCEPT ![p].at = "save", ![p].loaded = index]
    <2>1. \/ command[p].op # "rotate" \/ "rotated" \in undone'
          \/ index.entries[command[p].id].status = "active"
      BY <1>1, <1>2 DEF LoadForAdd, CommandFits, Rotating
    <2> QED
      BY <1>1, <1>4, <2>1, CommandLoads
  <1> QED
    BY <1>3, <1>4 DEF LoadForAdd

LEMMA LoadForRevokeInv == ASSUME TrustInv, NEW p \in Admins, LoadForRevoke(p) PROVE TrustInv'
  <1>1. /\ command[p].at = "load" /\ command[p].op = "revoke" /\ keyFile \in [Keys -> Stamps]
        /\ UNCHANGED <<index, keyFile, commands, unreadd, undone>>
    BY DEF LoadForRevoke, TrustInv
  <1>2. CASE CommandEnds(p)
    BY <1>1, <1>2, CommandEndsInv
  <1>3. CASE command' = [command EXCEPT ![p].at = "save", ![p].loaded = index]
    BY <1>1, <1>3, CommandLoads
  <1> QED
    BY <1>2, <1>3 DEF LoadForRevoke

LEMMA LookUpInv == ASSUME TrustInv, NEW p \in Admins, LookUp(p) PROVE TrustInv'
  <1>1. /\ command[p].at = "look" /\ ~NoCommandIn(p) /\ keyFile \in [Keys -> Stamps]
        /\ UNCHANGED <<index, keyFile, commands, unreadd, undone>>
    BY DEF LookUp, NoCommandIn, TrustInv
  <1>2. command[p].op \in {"get", "rotate"}
    <2>1. PlaceOf(command[p]) /\ command[p] \in Command /\ command[p].op # "none"
      BY <1>1, CommandKnows
    <2> QED
      BY <1>1, <2>1 DEF PlaceOf, Command
  <1>3. CASE CommandEnds(p)
    BY <1>1, <1>3, CommandEndsInv
  <1>4. CASE /\ index.entries[command[p].id].status = "active"
             /\ command' = [command EXCEPT ![p].at = "look key", ![p].loaded = index]
    BY <1>1, <1>2, <1>4, CommandLoads
  <1> QED
    BY <1>3, <1>4 DEF LookUp

LEMMA WriteKeyFileInv == ASSUME TrustInv, NEW p \in Admins, WriteKeyFile(p) PROVE TrustInv'
  <1>m. PICK m : m = [command[p] EXCEPT !.at = "confirm", !.target = command[p].key, !.then = "key id"]
    OBVIOUS
  <1>1. /\ command[p].at = "key" /\ ~NoCommandIn(p)
        /\ UNCHANGED <<index, commands, unreadd, undone>>
        /\ keyFile' = [keyFile EXCEPT ![command[p].key] = OwnFile(p)]
    BY DEF WriteKeyFile, NoCommandIn
  <1>2. /\ command[p] \in Command /\ CommandFits(command[p], commands[p]) /\ PlaceOf(command[p])
        /\ command \in [Admins -> Command] /\ commands[p] > 0 /\ commands[p] \in Nat
        /\ command[p].op # "none"
    BY <1>1, CommandKnows
  <1>3. command[p].op \in {"add", "replace", "rotate"} /\ command[p].key \in Keys
    BY <1>1, <1>2 DEF PlaceOf, Command
  <1>4. /\ command' = [command EXCEPT ![p] = m] /\ m \in Command
        /\ m.op = command[p].op /\ m.at = "confirm" /\ m.id = command[p].id
        /\ m.key = command[p].key /\ m.target = m.key /\ m.then = "key id"
        /\ m.loaded = command[p].loaded
    BY <1>m, <1>2, <1>3 DEF WriteKeyFile, Command
  <1>5. ~HasSaved(command[p])
    BY <1>1 DEF HasSaved
  <1>6. PlaceOf(m)
    BY <1>2, <1>3, <1>4 DEF PlaceOf
  <1>7. Rotating(m) => Rotating(command[p])
    BY <1>1, <1>4 DEF Rotating
  <1>8. /\ keyFile \in [Keys -> Stamps] /\ OwnFile(p) \in Stamps /\ OwnFile(p) # Nowhere
    BY <1>2 DEF TrustInv, OwnFile, Stamps, Nowhere
  <1>9. keyFile' \in [Keys -> Stamps] /\ \A k \in Keys : keyFile[k] # Nowhere => keyFile'[k] # Nowhere
    BY <1>1, <1>8
  <1>10. /\ KnownIndex(m.loaded) /\ (m.loaded.file = index.file => m.loaded = index)
         /\ Rotating(m) => m.loaded.entries[m.id].status = "active"
         /\ "key removed" \notin undone => KeysThere(m.loaded)
    BY <1>2, <1>4, <1>7 DEF CommandFits
  <1> QED
    BY <1>1, <1>2, <1>4, <1>5, <1>6, <1>9, <1>10, CommandMoves

\* What removes the index leaves one that is empty.
LEMMA WithdrawIndexInv ==
    ASSUME TrustInv, NEW p \in Admins, command[p].at = "withdraw", CommandEnds(p),
           index' = NoIndex, UNCHANGED <<keyFile, commands, unreadd>>,
           undone' = undone \cup {"index removed"}
    PROVE  TrustInv'
  <1>1. /\ command \in [Admins -> Command] /\ commands \in [Admins -> Nat]
        /\ keyFile \in [Keys -> Stamps] /\ unreadd \subseteq Identities
        /\ \A q \in Admins : CommandFits(command[q], commands[q])
    BY DEF TrustInv
  <1>2. /\ command' = [command EXCEPT ![p] = NoCommand] /\ command' \in [Admins -> Command]
        /\ command'[p] = NoCommand /\ \A q \in Admins \ {p} : command'[q] = command[q]
    BY <1>1, NoCommandFacts DEF CommandEnds
  <1>3. HasSaved(NoCommand)
    BY NoCommandFacts DEF HasSaved
  <1>4. \A x : KnownIndex(x) => KnownIndex(x)'
    BY <1>1, <1>2, <1>3, KnownStays
  <1>5. KnownIndex(NoIndex)'
    BY NoCommandFacts DEF KnownIndex, KnownFile
  <1>6. ASSUME NEW q \in Admins \ {p} PROVE CommandFits(command[q], commands[q])'
    <2>1. CommandFits(command[q], commands[q]) /\ KnownIndex(command[q].loaded)'
      BY <1>1, <1>2, <1>4 DEF CommandFits
    <2>2. command[q].loaded.file = NoIndex.file => command[q].loaded = NoIndex
      BY <2>1, NoCommandFacts DEF CommandFits, KnownIndex
    <2> QED
      BY <1>2, <2>1, <2>2 DEF CommandFits, KeysThere
  <1>7. CommandFits(command[p], commands[p])'
    BY <1>2, <1>5, NoCommandFacts DEF CommandFits, Rotating, KeysThere
  <1>8. \A q \in Admins : CommandFits(command[q], commands[q])'
    BY <1>6, <1>7
  <1>9. RevocationsHold' /\ TrustedKeysThere' /\ NothingForgotten'
    BY <1>1, NoCommandFacts DEF RevocationsHold, TrustedKeysThere, NothingForgotten
  <1> QED
    BY <1>1, <1>2, <1>5, <1>8, <1>9, NoCommandFacts DEF TrustInv

LEMMA WithdrawFileInv == ASSUME TrustInv, NEW p \in Admins, WithdrawFile(p) PROVE TrustInv'
  <1>1. /\ command[p].at = "withdraw" /\ CommandEnds(p) /\ UNCHANGED <<commands, unreadd>>
        /\ keyFile \in [Keys -> Stamps]
    BY DEF WithdrawFile, TrustInv
  <1>2. CASE command[p].target = "index"
    BY <1>1, <1>2, WithdrawIndexInv, TrustAssumption DEF WithdrawFile
  <1>3. CASE command[p].target # "index"
    <2>1. index' = index /\ undone' = undone \cup {"key removed"}
      BY <1>3 DEF WithdrawFile
    <2>2. keyFile' \in [Keys -> Stamps]
      <3>1. Nowhere \in Stamps
        BY DEF Nowhere, Stamps
      <3> QED
        BY <1>1, <3>1 DEF WithdrawFile
    <2> QED
      BY <1>1, <2>1, <2>2, CommandEndsInv
  <1> QED
    BY <1>2, <1>3

LEMMA KeyDeathInv == ASSUME TrustInv, NEW p \in Admins, KeyDeath(p) PROVE TrustInv'
  <1>1. keyFile \in [Keys -> Stamps]
    BY DEF TrustInv
  <1> QED
    BY <1>1, CommandEndsInv DEF KeyDeath

\* A save stamps the index with what no command has seen, and unless another saved
\* after its load it changes the entry of its identity and no other.
LEMMA SaveIndexInv == ASSUME TrustInv, NEW p \in Admins, SaveIndex(p) PROVE TrustInv'
  <1>m. PICK m : m = [command[p] EXCEPT !.at = "confirm", !.target = "index", !.then = "done"]
    OBVIOUS
  <1>e. PICK e : e = NewEntry(p)
    OBVIOUS
  <1>i. PICK i \in Identities : i = command[p].id
    BY CommandKnows DEF SaveIndex, NoCommandIn
  <1>x. PICK x : x = command[p].loaded
    OBVIOUS
  <1>1. /\ command[p].at = "save" /\ ~NoCommandIn(p) /\ UNCHANGED <<keyFile, commands>>
        /\ index' = [file |-> OwnFile(p), entries |-> [x.entries EXCEPT ![i] = e]]
        /\ undone' = IF index.file # x.file THEN undone \cup {"stale write"} ELSE undone
        /\ command' = [command EXCEPT ![p] = m]
        /\ unreadd' = IF command[p].op = "revoke" THEN unreadd \cup {i}
                      ELSE IF command[p].op = "rotate" THEN unreadd ELSE unreadd \ {i}
    BY <1>m, <1>e, <1>i, <1>x DEF SaveIndex, NoCommandIn
  <1>2. /\ command[p] \in Command /\ CommandFits(command[p], commands[p]) /\ PlaceOf(command[p])
        /\ command \in [Admins -> Command] /\ commands[p] > 0 /\ commands[p] \in Nat
        /\ command[p].op # "none" /\ x \in IndexType
    BY <1>1, <1>x, CommandKnows
  <1>3. /\ commands \in [Admins -> Nat] /\ keyFile \in [Keys -> Stamps] /\ index \in IndexType
        /\ unreadd \subseteq Identities /\ KnownIndex(index)
        /\ \A q \in Admins : CommandFits(command[q], commands[q])
        /\ RevocationsHold /\ TrustedKeysThere /\ NothingForgotten
    BY DEF TrustInv
  <1>4. /\ m \in Command /\ m.op = command[p].op /\ m.at = "confirm" /\ m.id = i
        /\ m.key = command[p].key /\ m.target = "index" /\ m.then = "done" /\ m.loaded = x
    BY <1>m, <1>2, <1>i, <1>x DEF Command
  <1>5. command[p].op = "revoke" \/ (command[p].op \in {"add", "replace", "rotate"}
                                     /\ command[p].key \in Keys)
    BY <1>1, <1>2 DEF PlaceOf, Command
  <1>6. /\ e \in Entry /\ e.status \in {"active", "revoked"}
        /\ e.status = "active" => command[p].op # "revoke" /\ e.key = command[p].key
        /\ command[p].op = "revoke" => e.status = "revoked"
    <2>1. CASE command[p].op = "revoke"
      <3>1. e = [x.entries[i] EXCEPT !.status = "revoked"]
        BY <1>e, <1>i, <1>x, <2>1 DEF NewEntry
      <3>2. x.entries[i] \in Entry
        BY <1>2 DEF IndexType
      <3> QED
        BY <2>1, <3>1, <3>2 DEF Entry
    <2>2. CASE command[p].op # "revoke"
      <3>1. e = [status |-> "active", key |-> command[p].key]
        BY <1>e, <2>2 DEF NewEntry
      <3> QED
        BY <1>5, <2>2, <3>1 DEF Entry
    <2> QED
      BY <2>1, <2>2
  <1>7. /\ OwnFile(p) \in Stamps /\ OwnFile(p) # Nowhere
        /\ OwnFile(p)[1] = p /\ OwnFile(p)[2] = commands[p]
    BY <1>2 DEF OwnFile, Stamps, Nowhere
  <1>8. /\ index'.file = OwnFile(p)
        /\ index'.entries[i] = e
        /\ \A j \in Identities \ {i} : index'.entries[j] = x.entries[j]
        /\ index' \in IndexType
    <2>1. x.entries \in [Identities -> Entry]
          /\ \A j \in Identities : x.entries[j].status = "active" => x.entries[j].key \in Keys
      BY <1>2 DEF IndexType
    <2>2. PICK w : w = [x.entries EXCEPT ![i] = e]
      OBVIOUS
    <2>3. /\ w \in [Identities -> Entry] /\ w[i] = e
          /\ \A j \in Identities \ {i} : w[j] = x.entries[j]
      BY <1>6, <2>1, <2>2
    <2>4. index' = [file |-> OwnFile(p), entries |-> w]
      BY <1>1, <2>2
    <2>5. \A j \in Identities : w[j].status = "active" => w[j].key \in Keys
      BY <1>5, <1>6, <2>1, <2>3
    <2> QED
      BY <1>7, <2>3, <2>4, <2>5 DEF IndexType
  <1>9. ~HasSaved(command[p]) /\ HasSaved(m)
    BY <1>1, <1>4 DEF HasSaved
  <1>10. \A f : KnownFile(f) => f # OwnFile(p)
    BY <1>7, <1>9 DEF KnownFile
  <1>11. \A z : KnownIndex(z) => KnownIndex(z)'
    BY <1>1, <1>2, <1>9, KnownStays
  <1>12. KnownIndex(index)'
    <2>1. command'[p] = m
      BY <1>1, <1>2
    <2>2. commands[p] \in 1 .. commands'[p]
      <3>1. commands' = commands
        BY <1>1
      <3>2. \A n \in Nat : n > 0 => n \in 1 .. n
        OBVIOUS
      <3> QED
        BY <1>2, <3>1, <3>2
    <2>3. KnownFile(OwnFile(p))'
      <3>1. PICK f : f = OwnFile(p)
        OBVIOUS
      <3>2. /\ f[1] = p /\ f[2] = commands[p] /\ f = OwnFile(p)'
        BY <1>1, <1>7, <3>1 DEF OwnFile
      <3>3. KnownFile(f)'
        BY <1>9, <2>1, <2>2, <3>2 DEF KnownFile
      <3> QED
        BY <3>2, <3>3
    <2>4. index'.file = OwnFile(p)' /\ OwnFile(p)' # Nowhere
      BY <1>1, <1>7, <1>8 DEF OwnFile
    <2> QED
      BY <2>3, <2>4 DEF KnownIndex
  <1>13. ASSUME NEW q \in Admins, q # p PROVE CommandFits(command[q], commands[q])'
    <2>1. /\ CommandFits(command[q], commands[q]) /\ KnownIndex(command[q].loaded)'
          /\ command[q].loaded.file # OwnFile(p) /\ command'[q] = command[q]
      BY <1>1, <1>2, <1>3, <1>10, <1>11, <1>13 DEF CommandFits, KnownIndex
    <2> QED
      BY <1>1, <1>8, <2>1 DEF CommandFits, KeysThere
  <1>14. CommandFits(m, commands[p])'
    <2>1. KnownIndex(x) /\ x.file # OwnFile(p) /\ ("key removed" \notin undone => KeysThere(x))
      BY <1>2, <1>x, <1>10 DEF CommandFits, KnownIndex
    <2>2. PlaceOf(m) /\ ~Rotating(m)
      BY <1>2, <1>4, <1>5 DEF PlaceOf, Rotating
    <2>3. KnownIndex(x)'
      BY <1>11, <2>1
    <2> QED
      BY <1>1, <1>2, <1>4, <1>8, <2>1, <2>2, <2>3 DEF CommandFits, KeysThere
  <1>15. \A q \in Admins : CommandFits(command[q], commands[q])'
    BY <1>1, <1>2, <1>13, <1>14
  <1>16. command' \in [Admins -> Command] /\ unreadd' \subseteq Identities
    BY <1>1, <1>2, <1>3, <1>4
  <1>17. "stale write" \notin undone' => x = index /\ undone' = undone
    <2>1. x.file = index.file => x = index
      BY <1>2, <1>x DEF CommandFits
    <2> QED
      BY <1>1, <2>1
  <1>18. RevocationsHold'
    <2> SUFFICES ASSUME undone' \cap {"stale write", "rotated"} = {}, NEW j \in unreadd'
                 PROVE  index'.entries[j].status # "active"
      BY DEF RevocationsHold
    <2>1. /\ x = index /\ undone \cap {"stale write", "rotated"} = {} /\ j \in Identities
          /\ \A o \in unreadd : index.entries[o].status # "active"
      BY <1>3, <1>16, <1>17 DEF RevocationsHold
    <2>2. CASE j # i
      BY <1>1, <1>8, <2>1, <2>2
    <2>3. CASE j = i /\ command[p].op = "revoke"
      BY <1>6, <1>8, <2>3
    <2>4. CASE j = i /\ command[p].op = "rotate"
      <3>1. x.entries[i].status = "active"
        BY <1>1, <1>2, <1>i, <1>x, <2>1, <2>4 DEF CommandFits
      <3> QED
        BY <1>1, <2>1, <2>4, <3>1
    <2>5. CASE j = i /\ command[p].op \notin {"revoke", "rotate"}
      BY <1>1, <2>5
    <2> QED
      BY <2>2, <2>3, <2>4, <2>5
  <1>19. TrustedKeysThere'
    <2> SUFFICES ASSUME "key removed" \notin undone', NEW j \in Identities,
                        index'.entries[j].status = "active"
                 PROVE  keyFile[index'.entries[j].key] # Nowhere
      BY <1>1 DEF TrustedKeysThere
    <2>1. /\ KeysThere(x)
          /\ command[p].op # "revoke" => keyFile[command[p].key] # Nowhere
      BY <1>1, <1>2, <1>x DEF CommandFits
    <2> QED
      BY <1>6, <1>8, <2>1 DEF KeysThere
  <1>20. NothingForgotten'
    <2> SUFFICES ASSUME undone' \cap {"stale write", "index removed"} = {}, NEW j \in unreadd'
                 PROVE  index'.entries[j].status # "absent"
      BY DEF NothingForgotten
    <2>1. /\ x = index /\ undone \cap {"stale write", "index removed"} = {} /\ j \in Identities
          /\ \A o \in unreadd : index.entries[o].status # "absent"
      BY <1>3, <1>16, <1>17 DEF NothingForgotten
    <2> QED
      BY <1>1, <1>6, <1>8, <2>1
  <1> QED
    BY <1>1, <1>3, <1>8, <1>12, <1>15, <1>16, <1>18, <1>19, <1>20 DEF TrustInv

LEMMA InitTrustInv == TrustInit => TrustInv
  <1> SUFFICES ASSUME TrustInit PROVE TrustInv
    OBVIOUS
  <1>1. /\ index = NoIndex /\ \A p \in Admins : command[p] = NoCommand
        /\ command \in [Admins -> Command] /\ commands \in [Admins -> Nat]
        /\ keyFile \in [Keys -> Stamps] /\ unreadd = {}
    BY NoCommandFacts DEF TrustInit, Stamps, Nowhere
  <1>2. KnownIndex(NoIndex)
    BY NoCommandFacts DEF KnownIndex, KnownFile
  <1>3. \A p \in Admins : CommandFits(command[p], commands[p])
    BY <1>1, <1>2, NoCommandFacts DEF CommandFits, Rotating, KeysThere
  <1>4. RevocationsHold /\ TrustedKeysThere /\ NothingForgotten
    BY <1>1, NoCommandFacts DEF RevocationsHold, TrustedKeysThere, NothingForgotten
  <1> QED
    BY <1>1, <1>2, <1>3, <1>4, NoCommandFacts DEF TrustInv

LEMMA NextTrustInv == TrustInv /\ [TrustNext]_trustVars => TrustInv'
  <1> SUFFICES ASSUME TrustInv, [TrustNext]_trustVars PROVE TrustInv'
    OBVIOUS
  <1>1. CASE UNCHANGED trustVars
    BY <1>1 DEF trustVars, TrustInv, KnownIndex, KnownFile, CommandFits, KeysThere,
                RevocationsHold, TrustedKeysThere, NothingForgotten
  <1>2. ASSUME NEW p \in Admins, NEW i \in Identities, NEW k \in Keys, NEW replace \in BOOLEAN,
               AddBegin(p, i, k, replace)
        PROVE  TrustInv'
    <2>1. PICK op \in {"add", "replace"} : StartCommand(p, op, "key", i, k)
      BY <1>2 DEF AddBegin
    <2>2. PICK at : at = "key"
      OBVIOUS
    <2>3. Begins(op, at, k)
      BY <2>1, <2>2 DEF Begins
    <2> QED
      BY <1>2, <2>1, <2>2, <2>3, StartCommandInv DEF AddBegin
  <1>3. ASSUME NEW p \in Admins, NEW i \in Identities, NEW k \in Keys \cup {"none"},
               NEW op, op = "rotate" => k \in Keys, LookUpBegin(p, op, i, k)
        PROVE  TrustInv'
    <2>1. PICK at : at = "look"
      OBVIOUS
    <2>2. Begins(op, at, k)
      BY <1>3, <2>1 DEF Begins, LookUpBegin
    <2> QED
      BY <1>3, <2>1, <2>2, StartCommandInv DEF LookUpBegin
  <1>4. ASSUME NEW p \in Admins, NEW i \in Identities, RevokeBegin(p, i) PROVE TrustInv'
    <2>1. PICK op : op = "revoke"
      OBVIOUS
    <2>2. PICK at : at = "load"
      OBVIOUS
    <2>3. PICK k \in Keys \cup {"none"} : k = "none"
      OBVIOUS
    <2>4. Begins(op, at, k)
      BY <2>1, <2>2 DEF Begins
    <2> QED
      BY <1>4, <2>1, <2>2, <2>3, <2>4, StartCommandInv DEF RevokeBegin
  <1>6. ASSUME NEW p \in Admins, NEW i \in Identities, NEW k \in Keys,
               LookUpBegin(p, "rotate", i, k)
        PROVE  TrustInv'
    BY <1>3, <1>6
  <1>7. ASSUME NEW p \in Admins, NEW i \in Identities, LookUpBegin(p, "get", i, "none")
        PROVE  TrustInv'
    BY <1>3, <1>7
  <1> QED
    BY <1>1, <1>2, <1>4, <1>6, <1>7, ConfirmFileInv, WithdrawFileInv, WriteKeyFileInv,
       CheckKeyFileInv, LoadForAddInv, LoadForRevokeInv, LookUpInv, LookUpKeyInv, SaveIndexInv,
       KeyDeathInv DEF TrustNext

LEMMA TrustInvHolds == TrustSpec => []TrustInv
  BY InitTrustInv, NextTrustInv, PTL DEF TrustSpec

-----------------------------------------------------------------------------
(* The key of the gate.  A key that somebody has, that a receipt is signed   *)
(* with or that a verifier claims, is the stored one or was taken back; the  *)
(* link that is made only where no key is and the file that only its own     *)
(* call removes keep it so.                                                  *)

KeyStamps == (Signers \cup {"nothing"}) \X Nat
GatePlaces == {"idle", "look", "look again", "create", "read", "use", "unlink", "persist",
               "rollback", "confirm", "readback", "withdraw", "valid", "invalid"}
GateCall == [at : GatePlaces, op : {"none", "issue", "verify"},
             key : KeyStamps, seen : KeyStamps, claim : KeyStamps]

KnownKey(k) == k # Nothing /\ k \in takenBack \cup {hmac}

\* A call with what it holds.
CallFits(m, n) ==
    /\ m.at # "idle" => n > 0
    /\ m.at \in {"use", "confirm", "readback", "withdraw", "valid", "invalid"} => KnownKey(m.key)
    /\ m.at = "read" => m.seen # Nothing
    /\ m.op = "verify" => KnownKey(m.claim)
    /\ m.at = "invalid" => m.claim \in takenBack \/ m.key \in takenBack

DeliveryFits == delivery = NoDelivery \/ (delivery.file # Nothing /\ KnownKey(delivery.key))

GateInv ==
    /\ hmac \in KeyStamps /\ twoLinks \in BOOLEAN /\ orphaned \in BOOLEAN /\ issued \in BOOLEAN
    /\ delivery \in [file : KeyStamps, key : KeyStamps]
    /\ caller \in [Signers -> GateCall] /\ issues \in [Signers -> Nat]
    /\ \A s \in Signers : CallFits(caller[s], issues[s])
    /\ DeliveryFits /\ OnlyDeathBlocksTheGate /\ IssuedStays

\* What the invariant is for.
LEMMA GateInvProperties == GateInv => OneKey /\ OnlyDeathBlocksTheGate /\ IssuedStays
  <1> SUFFICES ASSUME GateInv PROVE OneKey
    BY DEF GateInv
  <1> QED
    BY DEF GateInv, CallFits, OneKey, HasKey, KnownKey

LEMMA GateFacts ==
    /\ Nothing \in KeyStamps /\ Waiting \in GateCall
    /\ Waiting.at = "idle" /\ Waiting.op = "none"
    /\ NoDelivery \in [file : KeyStamps, key : KeyStamps]
    /\ NoDelivery.file = Nothing /\ NoDelivery.key = Nothing
  BY DEF Nothing, KeyStamps, Waiting, GateCall, GatePlaces, NoDelivery

\* A call at work has a key of its own.
LEMMA OwnKeyFacts ==
    ASSUME GateInv, NEW s \in Signers, caller[s].at # "idle"
    PROVE  OwnKey(s) \in KeyStamps /\ OwnKey(s) # Nothing
  BY DEF GateInv, CallFits, OwnKey, KeyStamps, Nothing

\* A key that is known stays known while keys are only linked where none is and
\* only removed by being taken back.
LEMMA KnownKeyStays ==
    ASSUME takenBack \subseteq takenBack', hmac' = hmac \/ hmac = Nothing \/ hmac \in takenBack'
    PROVE  \A k : KnownKey(k) => KnownKey(k)'
  BY DEF KnownKey

\* A step of one call.
LEMMA CallMoves ==
    ASSUME GateInv, NEW s \in Signers, NEW m \in GateCall, caller' = [caller EXCEPT ![s] = m],
           issues' = issues, hmac' \in KeyStamps, twoLinks' \in BOOLEAN, orphaned' \in BOOLEAN,
           issued' \in BOOLEAN, delivery' \in [file : KeyStamps, key : KeyStamps],
           takenBack \subseteq takenBack', hmac' = hmac \/ hmac = Nothing \/ hmac \in takenBack',
           CallFits(m, issues[s]),
           delivery' = delivery \/ delivery' = NoDelivery
              \/ (delivery'.file # Nothing /\ KnownKey(delivery'.key)),
           \/ ~twoLinks' \/ orphaned' \/ (m.at \in {"unlink", "rollback"} /\ hmac' = OwnKey(s))
           \/ /\ twoLinks /\ hmac' = hmac /\ ~orphaned
              /\ ~(caller[s].at \in {"unlink", "rollback"} /\ hmac = OwnKey(s)),
           issued' /\ withdrawal' = "none" => delivery' # NoDelivery
    PROVE  GateInv'
  <1>1. /\ caller \in [Signers -> GateCall] /\ issues \in [Signers -> Nat]
        /\ \A q \in Signers : CallFits(caller[q], issues[q])
        /\ DeliveryFits /\ OnlyDeathBlocksTheGate
    BY DEF GateInv
  <1>2. /\ caller' \in [Signers -> GateCall] /\ caller'[s] = m
        /\ \A q \in Signers \ {s} : caller'[q] = caller[q]
    BY <1>1
  <1>3. \A k : KnownKey(k) => KnownKey(k)'
    BY KnownKeyStays
  <1>4. CallFits(m, issues[s])'
    BY <1>3 DEF CallFits
  <1>5. ASSUME NEW q \in Signers \ {s} PROVE CallFits(caller[q], issues[q])'
    <2>1. CallFits(caller[q], issues[q])
      BY <1>1
    <2> QED
      BY <1>2, <1>3, <2>1 DEF CallFits
  <1>6. \A q \in Signers : CallFits(caller[q], issues[q])'
    BY <1>2, <1>4, <1>5
  <1>7. DeliveryFits'
    <2>1. CASE delivery' = delivery
      BY <1>1, <1>3, <2>1 DEF DeliveryFits
    <2>2. CASE delivery' = NoDelivery
      BY <2>2 DEF DeliveryFits
    <2>3. CASE delivery'.file # Nothing /\ KnownKey(delivery'.key)
      <3>1. PICK k : k = delivery'.key /\ KnownKey(k)
        BY <2>3
      <3>2. KnownKey(k)'
        BY <1>3, <3>1
      <3> QED
        BY <2>3, <3>1, <3>2 DEF DeliveryFits
    <2> QED
      BY <2>1, <2>2, <2>3
  <1>8. OnlyDeathBlocksTheGate'
    <2> SUFFICES ASSUME twoLinks', ~orphaned'
                 PROVE  \E q \in Signers : caller'[q].at \in {"unlink", "rollback"}
                                             /\ hmac' = OwnKey(q)'
      BY DEF OnlyDeathBlocksTheGate
    <2>1. \A q \in Signers : OwnKey(q)' = OwnKey(q)
      BY DEF OwnKey
    <2>2. CASE m.at \in {"unlink", "rollback"} /\ hmac' = OwnKey(s)
      BY <1>2, <2>1, <2>2
    <2>3. CASE /\ twoLinks /\ hmac' = hmac /\ ~orphaned
               /\ ~(caller[s].at \in {"unlink", "rollback"} /\ hmac = OwnKey(s))
      <3>1. PICK q \in Signers : caller[q].at \in {"unlink", "rollback"} /\ hmac = OwnKey(q)
        BY <1>1, <2>3 DEF OnlyDeathBlocksTheGate
      <3> QED
        BY <1>2, <2>1, <2>3, <3>1
    <2> QED
      BY <2>2, <2>3
  <1>9. IssuedStays'
    BY DEF IssuedStays
  <1> QED
    BY <1>1, <1>2, <1>6, <1>7, <1>8, <1>9 DEF GateInv

\* A call that begins has made no key yet.
LEMMA BeginInv ==
    ASSUME GateInv, NEW s \in Signers, NEW m \in GateCall, Ended(s),
           caller' = [caller EXCEPT ![s] = m], issues' = [issues EXCEPT ![s] = @ + 1],
           m.at = "look", m.op = "verify" => KnownKey(m.claim),
           UNCHANGED <<hmac, twoLinks, delivery, takenBack, issued, orphaned, withdrawal>>
    PROVE  GateInv'
  <1>1. /\ caller \in [Signers -> GateCall] /\ issues \in [Signers -> Nat]
        /\ \A q \in Signers : CallFits(caller[q], issues[q])
        /\ DeliveryFits /\ OnlyDeathBlocksTheGate /\ IssuedStays
    BY DEF GateInv
  <1>2. /\ caller' \in [Signers -> GateCall] /\ caller'[s] = m
        /\ issues' \in [Signers -> Nat] /\ issues'[s] = issues[s] + 1
        /\ \A q \in Signers \ {s} : caller'[q] = caller[q] /\ issues'[q] = issues[q]
    BY <1>1
  <1>3. CallFits(m, issues[s])'
    BY <1>1, <1>2 DEF CallFits, KnownKey
  <1>4. ASSUME NEW q \in Signers \ {s} PROVE CallFits(caller[q], issues[q])'
    BY <1>1, <1>2 DEF CallFits, KnownKey
  <1>5. OnlyDeathBlocksTheGate'
    <2> SUFFICES ASSUME twoLinks, ~orphaned
                 PROVE  \E q \in Signers : caller'[q].at \in {"unlink", "rollback"}
                                             /\ hmac = OwnKey(q)'
      BY DEF OnlyDeathBlocksTheGate
    <2>1. PICK q \in Signers : caller[q].at \in {"unlink", "rollback"} /\ hmac = OwnKey(q)
      BY <1>1 DEF OnlyDeathBlocksTheGate
    <2>2. q # s
      BY <2>1 DEF Ended
    <2> QED
      BY <1>2, <2>1, <2>2 DEF OwnKey
  <1>6. \A q \in Signers : CallFits(caller[q], issues[q])'
    BY <1>2, <1>3, <1>4
  <1> QED
    BY <1>1, <1>2, <1>5, <1>6 DEF GateInv, DeliveryFits, KnownKey, IssuedStays

LEMMA IssueBeginInv == ASSUME GateInv, NEW s \in Signers, IssueBegin(s) PROVE GateInv'
  <1>m. PICK m : m = [Waiting EXCEPT !.at = "look", !.op = "issue"]
    OBVIOUS
  <1>1. m \in GateCall /\ m.at = "look" /\ m.op = "issue"
    BY <1>m, GateFacts DEF Waiting, GateCall, GatePlaces
  <1> QED
    BY <1>m, <1>1, BeginInv DEF IssueBegin

LEMMA VerifyBeginInv == ASSUME GateInv, NEW s \in Signers, VerifyBegin(s) PROVE GateInv'
  <1>m. PICK m : m = [Waiting EXCEPT !.at = "look", !.op = "verify", !.claim = delivery.key]
    OBVIOUS
  <1>1. delivery.key \in KeyStamps /\ KnownKey(delivery.key)
    BY DEF GateInv, DeliveryFits, VerifyBegin
  <1>2. m \in GateCall /\ m.at = "look" /\ m.op = "verify" /\ m.claim = delivery.key
    BY <1>m, <1>1, GateFacts DEF Waiting, GateCall, GatePlaces
  <1> QED
    BY <1>m, <1>1, <1>2, BeginInv DEF VerifyBegin

\* What every call at work may rely on.
LEMMA CallKnows ==
    ASSUME GateInv, NEW s \in Signers
    PROVE  /\ caller \in [Signers -> GateCall] /\ caller[s] \in GateCall /\ issues \in [Signers -> Nat]
           /\ CallFits(caller[s], issues[s]) /\ DeliveryFits
           /\ hmac \in KeyStamps /\ twoLinks \in BOOLEAN /\ orphaned \in BOOLEAN
           /\ issued \in BOOLEAN /\ delivery \in [file : KeyStamps, key : KeyStamps]
           /\ issued /\ withdrawal = "none" => delivery # NoDelivery
  BY DEF GateInv, IssuedStays

\* A call that ends, and leaves no key it half published.
LEMMA CallEndsInv ==
    ASSUME GateInv, NEW s \in Signers, GateRefuses(s), orphaned' \in BOOLEAN, orphaned => orphaned',
           orphaned' \/ ~twoLinks \/ caller[s].at \notin {"unlink", "rollback"} \/ hmac # OwnKey(s),
           UNCHANGED <<hmac, twoLinks, delivery, issues, takenBack, issued, withdrawal>>
    PROVE  GateInv'
  <1>1. CallFits(Waiting, issues[s])
    BY GateFacts DEF CallFits
  <1> QED
    BY <1>1, GateFacts, CallKnows, CallMoves DEF GateRefuses

\* A call that goes on to another place.
LEMMA CallGoesOn ==
    ASSUME GateInv, NEW s \in Signers, NEW at \in GatePlaces, GateAt(s, at),
           caller[s].at # "idle", at # "read", caller[s].at # "invalid",
           at \in {"use", "confirm", "readback", "withdraw", "valid", "invalid"} =>
              KnownKey(caller[s].key),
           at = "invalid" => caller[s].claim \in takenBack \/ caller[s].key \in takenBack,
           hmac' \in KeyStamps, twoLinks' \in BOOLEAN,
           delivery' \in [file : KeyStamps, key : KeyStamps],
           hmac' = hmac \/ hmac = Nothing,
           delivery' = delivery \/ (delivery'.file # Nothing /\ KnownKey(delivery'.key)),
           \/ ~twoLinks' \/ orphaned \/ (at \in {"unlink", "rollback"} /\ hmac' = OwnKey(s))
           \/ /\ twoLinks /\ hmac' = hmac
              /\ ~(caller[s].at \in {"unlink", "rollback"} /\ hmac = OwnKey(s)),
           UNCHANGED <<issues, takenBack, issued, orphaned, withdrawal>>
    PROVE  GateInv'
  <1>m. PICK m : m = [caller[s] EXCEPT !.at = at]
    OBVIOUS
  <1>1. /\ m \in GateCall /\ m.at = at /\ m.op = caller[s].op /\ m.key = caller[s].key
        /\ m.seen = caller[s].seen /\ m.claim = caller[s].claim
        /\ caller' = [caller EXCEPT ![s] = m]
    BY <1>m, CallKnows DEF GateCall, GateAt
  <1>2. CallFits(m, issues[s])
    BY <1>1, CallKnows DEF CallFits
  <1>3. issued' /\ withdrawal' = "none" => delivery' # NoDelivery
    BY GateFacts, CallKnows
  <1> QED
    BY <1>1, <1>2, <1>3, CallKnows, CallMoves

LEMMA LookForKeyInv == ASSUME GateInv, NEW s \in Signers, LookForKey(s) PROVE GateInv'
  <1>1. /\ caller[s].at \in {"look", "look again"}
        /\ UNCHANGED <<hmac, twoLinks, delivery, issues, takenBack, issued, orphaned, withdrawal>>
    BY DEF LookForKey
  <1>2. CASE GateRefuses(s)
    BY <1>1, <1>2, CallKnows, CallEndsInv
  <1>3. CASE GateAt(s, "create")
    <2>1. PICK at \in GatePlaces : at = "create"
      BY DEF GatePlaces
    <2> QED
      BY <1>1, <1>3, <2>1, CallKnows, CallGoesOn
  <1>4. CASE hmac # Nothing /\ caller' = [caller EXCEPT ![s].at = "read", ![s].seen = hmac]
    <2>1. PICK m : m = [caller[s] EXCEPT !.at = "read", !.seen = hmac]
      OBVIOUS
    <2>2. /\ m \in GateCall /\ m.at = "read" /\ m.op = caller[s].op /\ m.seen = hmac
          /\ m.claim = caller[s].claim /\ caller' = [caller EXCEPT ![s] = m]
      BY <1>4, <2>1, CallKnows DEF GateCall, GatePlaces
    <2>3. CallFits(m, issues[s])
      BY <1>1, <1>4, <2>2, CallKnows DEF CallFits
    <2>4. CallFits(m, issues[s]) /\ (issued' /\ withdrawal' = "none" => delivery' # NoDelivery)
      BY <1>1, <2>3, CallKnows
    <2> QED
      BY <1>1, <2>2, <2>4, CallKnows, CallMoves
  <1> QED
    BY <1>2, <1>3, <1>4 DEF LookForKey

LEMMA ReadKeyInv == ASSUME GateInv, NEW s \in Signers, ReadKey(s) PROVE GateInv'
  <1>1. /\ caller[s].at = "read"
        /\ UNCHANGED <<hmac, twoLinks, delivery, issues, takenBack, issued, orphaned, withdrawal>>
    BY DEF ReadKey
  <1>2. CASE GateRefuses(s)
    BY <1>1, <1>2, CallKnows, CallEndsInv
  <1>3. CASE hmac = caller[s].seen /\ caller' = [caller EXCEPT ![s].at = "use", ![s].key = hmac]
    <2>1. PICK m : m = [caller[s] EXCEPT !.at = "use", !.key = hmac]
      OBVIOUS
    <2>2. /\ m \in GateCall /\ m.at = "use" /\ m.op = caller[s].op /\ m.key = hmac
          /\ m.claim = caller[s].claim /\ caller' = [caller EXCEPT ![s] = m]
      BY <1>3, <2>1, CallKnows DEF GateCall, GatePlaces
    <2>3. CallFits(m, issues[s])
      BY <1>1, <1>3, <2>2, CallKnows DEF CallFits, KnownKey
    <2> QED
      BY <1>1, <2>2, <2>3, CallKnows, CallMoves
  <1> QED
    BY <1>2, <1>3 DEF ReadKey

LEMMA LinkKeyInv == ASSUME GateInv, NEW s \in Signers, LinkKey(s) PROVE GateInv'
  <1>1. /\ caller[s].at = "create"
        /\ UNCHANGED <<delivery, issues, takenBack, issued, orphaned, withdrawal>>
    BY DEF LinkKey
  <1>2. CASE hmac = Nothing /\ hmac' = OwnKey(s) /\ twoLinks' = TRUE /\ GateAt(s, "unlink")
    <2>1. PICK at \in GatePlaces : at = "unlink"
      BY DEF GatePlaces
    <2>2. OwnKey(s) \in KeyStamps
      BY <1>1, OwnKeyFacts
    <2> QED
      BY <1>1, <1>2, <2>1, <2>2, CallKnows, CallGoesOn
  <1>3. CASE GateAt(s, "look again") /\ UNCHANGED <<hmac, twoLinks>>
    <2>1. PICK at \in GatePlaces : at = "look again"
      BY DEF GatePlaces
    <2> QED
      BY <1>1, <1>3, <2>1, CallKnows, CallGoesOn
  <1> QED
    BY <1>2, <1>3 DEF LinkKey

LEMMA CreateFailsInv == ASSUME GateInv, NEW s \in Signers, CreateFails(s) PROVE GateInv'
  BY CallKnows, CallEndsInv DEF CreateFails

LEMMA UnlinkTemporaryInv ==
    ASSUME GateInv, NEW s \in Signers, UnlinkTemporary(s) PROVE GateInv'
  <1>1. /\ caller[s].at = "unlink"
        /\ UNCHANGED <<hmac, delivery, issues, takenBack, issued, orphaned, withdrawal>>
    BY DEF UnlinkTemporary
  <1>2. CASE twoLinks' = FALSE /\ GateAt(s, "persist")
    <2>1. PICK at \in GatePlaces : at = "persist"
      BY DEF GatePlaces
    <2> QED
      BY <1>1, <1>2, <2>1, CallKnows, CallGoesOn
  <1>3. CASE UNCHANGED twoLinks /\ GateAt(s, "rollback")
    <2>1. PICK at \in GatePlaces : at = "rollback"
      BY DEF GatePlaces
    <2>2. CASE hmac = OwnKey(s)
      BY <1>1, <1>3, <2>1, <2>2, CallKnows, CallGoesOn
    <2>3. CASE hmac # OwnKey(s)
      BY <1>1, <1>3, <2>1, <2>3, CallKnows, CallGoesOn
    <2> QED
      BY <2>2, <2>3
  <1> QED
    BY <1>2, <1>3 DEF UnlinkTemporary

LEMMA PersistKeyInv == ASSUME GateInv, NEW s \in Signers, PersistKey(s) PROVE GateInv'
  <1>1. /\ caller[s].at = "persist"
        /\ UNCHANGED <<hmac, twoLinks, delivery, issues, takenBack, issued, orphaned, withdrawal>>
    BY DEF PersistKey
  <1>2. CASE hmac = OwnKey(s) /\ caller' = [caller EXCEPT ![s].at = "use", ![s].key = hmac]
    <2>1. PICK m : m = [caller[s] EXCEPT !.at = "use", !.key = hmac]
      OBVIOUS
    <2>2. /\ m \in GateCall /\ m.at = "use" /\ m.op = caller[s].op /\ m.key = hmac
          /\ m.claim = caller[s].claim /\ caller' = [caller EXCEPT ![s] = m]
      BY <1>2, <2>1, CallKnows DEF GateCall, GatePlaces
    <2>3. CallFits(m, issues[s])
      BY <1>1, <1>2, <2>2, CallKnows, OwnKeyFacts DEF CallFits, KnownKey
    <2> QED
      BY <1>1, <2>2, <2>3, CallKnows, CallMoves
  <1>3. CASE GateAt(s, "rollback")
    <2>1. PICK at \in GatePlaces : at = "rollback"
      BY DEF GatePlaces
    <2> QED
      BY <1>1, <1>3, <2>1, CallKnows, CallGoesOn
  <1> QED
    BY <1>2, <1>3 DEF PersistKey

LEMMA RollbackKeyInv == ASSUME GateInv, NEW s \in Signers, RollbackKey(s) PROVE GateInv'
  <1>1. /\ caller[s].at = "rollback" /\ GateRefuses(s)
        /\ UNCHANGED <<delivery, issues, issued, orphaned, withdrawal>>
    BY DEF RollbackKey
  <1>2. CASE /\ hmac = OwnKey(s) /\ hmac' = Nothing /\ twoLinks' = FALSE
             /\ takenBack' = takenBack \cup {OwnKey(s)}
    <2>1. CallFits(Waiting, issues[s])
      BY GateFacts DEF CallFits
    <2> QED
      BY <1>1, <1>2, <2>1, GateFacts, CallKnows, CallMoves DEF GateRefuses
  <1>3. CASE hmac # OwnKey(s) /\ UNCHANGED <<hmac, twoLinks, takenBack>>
    BY <1>1, <1>3, CallKnows, CallEndsInv
  <1> QED
    BY <1>2, <1>3 DEF RollbackKey

LEMMA CheckSignatureInv ==
    ASSUME GateInv, NEW s \in Signers, CheckSignature(s) PROVE GateInv'
  <1>1. /\ caller[s].at = "use" /\ caller[s].op = "verify"
        /\ UNCHANGED <<hmac, twoLinks, delivery, issues, takenBack, issued, orphaned, withdrawal>>
    BY DEF CheckSignature
  <1>2. PICK at \in GatePlaces : /\ at \in {"valid", "invalid"} /\ GateAt(s, at)
                                 /\ at = "invalid" => caller[s].key # caller[s].claim
    BY DEF CheckSignature, GatePlaces
  <1>3. KnownKey(caller[s].key) /\ KnownKey(caller[s].claim)
    BY <1>1, CallKnows DEF CallFits
  <1>4. at = "invalid" => caller[s].claim \in takenBack \/ caller[s].key \in takenBack
    BY <1>2, <1>3 DEF KnownKey
  <1> QED
    BY <1>1, <1>2, <1>3, <1>4, CallKnows, CallGoesOn

LEMMA ReplaceReceiptInv ==
    ASSUME GateInv, NEW s \in Signers, ReplaceReceipt(s) PROVE GateInv'
  <1>1. /\ caller[s].at = "use" /\ GateAt(s, "confirm")
        /\ delivery' = [file |-> OwnKey(s), key |-> caller[s].key]
        /\ UNCHANGED <<hmac, twoLinks, issues, takenBack, issued, orphaned, withdrawal>>
    BY DEF ReplaceReceipt
  <1>2. /\ KnownKey(caller[s].key) /\ caller[s].key \in KeyStamps
        /\ OwnKey(s) \in KeyStamps /\ OwnKey(s) # Nothing
    BY <1>1, CallKnows, OwnKeyFacts DEF CallFits, GateCall
  <1>3. PICK at \in GatePlaces : at = "confirm"
    BY DEF GatePlaces
  <1>4. /\ delivery' \in [file : KeyStamps, key : KeyStamps]
        /\ delivery'.file # Nothing /\ KnownKey(delivery'.key)
    BY <1>1, <1>2
  <1> QED
    BY <1>1, <1>2, <1>3, <1>4, CallKnows, CallGoesOn

LEMMA ConfirmReceiptInv ==
    ASSUME GateInv, NEW s \in Signers, ConfirmReceipt(s) PROVE GateInv'
  <1>1. /\ caller[s].at = "confirm"
        /\ UNCHANGED <<hmac, twoLinks, delivery, issues, takenBack, issued, orphaned, withdrawal>>
    BY DEF ConfirmReceipt
  <1>2. PICK at \in GatePlaces : at \in {"readback", "withdraw"} /\ GateAt(s, at)
    BY DEF ConfirmReceipt, GatePlaces
  <1>3. KnownKey(caller[s].key)
    BY <1>1, CallKnows DEF CallFits
  <1> QED
    BY <1>1, <1>2, <1>3, CallKnows, CallGoesOn

LEMMA WithdrawReceiptInv ==
    ASSUME GateInv, NEW s \in Signers, WithdrawReceipt(s) PROVE GateInv'
  <1>1. /\ caller[s].at = "withdraw" /\ GateRefuses(s) /\ delivery' = NoDelivery
        /\ UNCHANGED <<hmac, twoLinks, issues, takenBack, issued, orphaned>>
    BY DEF WithdrawReceipt
  <1>2. CallFits(Waiting, issues[s])
    BY GateFacts DEF CallFits
  <1>3. ~(issued' /\ withdrawal' = "none")
    <2>1. CASE delivery.file = Nothing
      BY <1>1, <2>1, CallKnows DEF DeliveryFits, WithdrawReceipt
    <2>2. CASE delivery.file # Nothing
      BY <2>2 DEF WithdrawReceipt
    <2> QED
      BY <2>1, <2>2
  <1> QED
    BY <1>1, <1>2, <1>3, GateFacts, CallKnows, CallMoves DEF GateRefuses

LEMMA ReadBackInv == ASSUME GateInv, NEW s \in Signers, ReadBack(s) PROVE GateInv'
  <1>1. /\ caller[s].at = "readback" /\ GateRefuses(s)
        /\ UNCHANGED <<hmac, twoLinks, delivery, issues, takenBack, orphaned>>
    BY DEF ReadBack
  <1>2. CallFits(Waiting, issues[s])
    BY GateFacts DEF CallFits
  <1>3. OwnKey(s) # Nothing
    BY <1>1, OwnKeyFacts
  <1>4. issued' \in BOOLEAN /\ (issued' /\ withdrawal' = "none" => delivery' # NoDelivery)
    <2>1. CASE delivery.file = OwnKey(s)
      BY <1>1, <1>3, <2>1, GateFacts DEF ReadBack
    <2>2. CASE delivery.file # OwnKey(s)
      BY <1>1, <2>2, CallKnows DEF ReadBack
    <2> QED
      BY <2>1, <2>2
  <1> QED
    BY <1>1, <1>2, <1>4, GateFacts, CallKnows, CallMoves DEF GateRefuses

LEMMA GateDeathInv == ASSUME GateInv, NEW s \in Signers, GateDeath(s) PROVE GateInv'
  <1>1. /\ GateRefuses(s) /\ orphaned' \in BOOLEAN
        /\ orphaned' <=> (orphaned \/ (caller[s].at \in {"unlink", "rollback"} /\ twoLinks))
        /\ UNCHANGED <<hmac, twoLinks, delivery, issues, takenBack, issued, withdrawal>>
    BY CallKnows DEF GateDeath
  <1> QED
    BY <1>1, CallEndsInv

LEMMA InitGateInv == GateInit => GateInv
  <1> SUFFICES ASSUME GateInit PROVE GateInv
    OBVIOUS
  <1>1. /\ hmac \in KeyStamps /\ ~twoLinks /\ twoLinks \in BOOLEAN /\ orphaned \in BOOLEAN
        /\ issued \in BOOLEAN /\ ~issued /\ delivery = NoDelivery
        /\ caller \in [Signers -> GateCall] /\ issues \in [Signers -> Nat]
        /\ \A s \in Signers : caller[s] = Waiting
    BY GateFacts DEF GateInit
  <1> QED
    BY <1>1, GateFacts DEF GateInv, CallFits, DeliveryFits, OnlyDeathBlocksTheGate, IssuedStays

LEMMA NextGateInv == GateInv /\ [GateNext]_gateVars => GateInv'
  <1> SUFFICES ASSUME GateInv, [GateNext]_gateVars PROVE GateInv'
    OBVIOUS
  <1>1. CASE UNCHANGED gateVars
    BY <1>1 DEF gateVars, GateInv, CallFits, KnownKey, DeliveryFits, OnlyDeathBlocksTheGate,
                OwnKey, IssuedStays
  <1>2. ASSUME NEW s \in Signers,
               \/ IssueBegin(s) \/ VerifyBegin(s) \/ LookForKey(s) \/ ReadKey(s) \/ LinkKey(s)
               \/ CreateFails(s) \/ UnlinkTemporary(s) \/ PersistKey(s) \/ RollbackKey(s)
        PROVE  GateInv'
    BY <1>2, IssueBeginInv, VerifyBeginInv, LookForKeyInv, ReadKeyInv, LinkKeyInv,
       CreateFailsInv, UnlinkTemporaryInv, PersistKeyInv, RollbackKeyInv
  <1>3. ASSUME NEW s \in Signers,
               \/ CheckSignature(s) \/ ReplaceReceipt(s) \/ ConfirmReceipt(s)
               \/ WithdrawReceipt(s) \/ ReadBack(s) \/ GateDeath(s)
        PROVE  GateInv'
    BY <1>3, CheckSignatureInv, ReplaceReceiptInv, ConfirmReceiptInv, WithdrawReceiptInv,
       ReadBackInv, GateDeathInv
  <1> QED
    BY <1>1, <1>2, <1>3 DEF GateNext

LEMMA GateInvHolds == GateSpec => []GateInv
  BY InitGateInv, NextGateInv, PTL DEF GateSpec

-----------------------------------------------------------------------------
(* HTTP requests.  A key that nothing disturbed has one execution at most,  *)
(* and while it is not remembered the thread that executed it is still at   *)
(* work; the record of an execution is in the log before it is answered,    *)
(* and whoever writes the log is alone at it.                               *)

HttpKeys == RequestKeys \cup {"none"}
DoneSteps == {"append", "write", "sync", "check", "remember", "answer"}
LogSteps == {"write", "sync", "check"}
HttpSteps == {"idle", "lookup", "permit", "handle", "upload"} \cup DoneSteps

HttpRequestStates ==
    [at: HttpSteps, kind: HttpMethods, key: HttpKeys, content: Contents \cup {"none"},
     separated: BOOLEAN, number: Nat, sequence: Nat]
KeptAnswers == [key: HttpKeys, content: Contents \cup {"none"}, execution: Nat]
LogRecords == [sequence: Nat, execution: Nat]

SlotOf(m) == <<m.kind, m.key>>
DeedOf(m) == [slot |-> SlotOf(m), execution |-> m.number, content |-> m.content]
AnswerDeed(a) == [slot |-> a.slot, execution |-> a.execution, content |-> a.content]
KeptDeed(method, entry) ==
    [slot |-> <<method, entry.key>>, execution |-> entry.execution, content |-> entry.content]

\* At work on it, executed, and executed and remembered.
AtWork(m) == m.at \notin {"idle", "lookup"}
IsDone(m) == m.at \in DoneSteps
IsKept(m) == IF m.kind = "POST" THEN m.at \in DoneSteps \ {"remember"} ELSE m.at = "answer"
\* The log holds its record.
IsLogged(m) == m.at \in {"sync", "check", "answer"} \/ (m.kind = "PUT" /\ m.at = "remember")

KeyKept(slot) == Entries(slot[1], slot[2]) # {}
Recorded(n) == \E i \in DOMAIN auditLog : auditLog[i].execution = n

HttpTypes ==
    /\ request \in [Requesters -> HttpRequestStates] /\ received \in Nat
    /\ remembered \in [HttpMethods -> Seq(KeptAnswers)]
    /\ \A method \in HttpMethods : Len(remembered[method]) <= MaxRemembered
    /\ auditLog \in Seq(LogRecords)

\* What a thread may be at, by the method of its request and the server.
PathFits(m) ==
    /\ m.at = "upload" => m.kind = "PUT"
    /\ m.at \in {"permit", "handle"} => m.kind = "POST"
    /\ m.at # "idle" => running

DeedsFit ==
    /\ \A t \in Requesters : IsDone(request[t]) => DeedOf(request[t]) \in executions
    /\ \A method \in HttpMethods : \A i \in DOMAIN remembered[method] :
          KeptDeed(method, remembered[method][i]) \in executions
    /\ \A a \in answers : AnswerDeed(a) \in executions
    /\ \A e \in executions : e.slot \in HttpMethods \X HttpKeys

SlotFits(slot) ==
    /\ \A e, o \in executions : e.slot = slot /\ o.slot = slot => e = o
    /\ \A t, o \in Requesters :
          /\ AtWork(request[t]) /\ SlotOf(request[t]) = slot
          /\ AtWork(request[o]) /\ SlotOf(request[o]) = slot
          => t = o
    /\ \A t \in Requesters :
          AtWork(request[t]) /\ ~IsDone(request[t]) /\ SlotOf(request[t]) = slot =>
             \A e \in executions : e.slot # slot
    /\ \A e \in executions : e.slot = slot /\ running =>
          \/ KeyKept(slot)
          \/ \E t \in Requesters : IsDone(request[t]) /\ SlotOf(request[t]) = slot
    /\ \A t \in Requesters : IsKept(request[t]) /\ SlotOf(request[t]) = slot => KeyKept(slot)

LogFits ==
    /\ \A i \in DOMAIN auditLog : auditLog[i].sequence = i
    /\ \A t, o \in Requesters :
          request[t].at \in LogSteps /\ request[o].at \in LogSteps => t = o
    /\ \A t \in Requesters : request[t].at = "write" => request[t].sequence = Len(auditLog) + 1
    /\ \A t \in Requesters : IsLogged(request[t]) => Recorded(request[t].number)
    /\ \A i \in DOMAIN remembered["PUT"] : Recorded(remembered["PUT"][i].execution)
    /\ \A a \in answers : (a.again /\ a.slot[1] = "POST") \/ Recorded(a.execution)

HttpInv ==
    /\ HttpTypes /\ \A t \in Requesters : PathFits(request[t])
    /\ DeedsFit
    /\ \A slot \in (HttpMethods \X HttpKeys) \ disturbed : SlotFits(slot)
    /\ LogFits

\* What the invariant is for.
LEMMA HttpInvProperties == HttpInv => KeysHold /\ AnsweredIsRecorded
  <1> SUFFICES ASSUME HttpInv PROVE KeysHold /\ AnsweredIsRecorded
    OBVIOUS
  <1>1. KeysHold
    <2> SUFFICES ASSUME NEW e \in executions, e.slot \notin disturbed
                 PROVE  /\ \A o \in executions : o.slot = e.slot => o = e
                        /\ \A a \in answers : a.slot = e.slot =>
                              a.execution = e.execution /\ a.content = e.content
      BY DEF KeysHold
    <2>1. SlotFits(e.slot)
      BY DEF HttpInv, DeedsFit
    <2>2. \A o \in executions : o.slot = e.slot => o = e
      BY <2>1 DEF SlotFits
    <2>3. ASSUME NEW a \in answers, a.slot = e.slot
          PROVE  a.execution = e.execution /\ a.content = e.content
      <3>1. PICK d : d = AnswerDeed(a)
        OBVIOUS
      <3>2. d \in executions /\ d.slot = e.slot /\ d.execution = a.execution /\ d.content = a.content
        BY <2>3, <3>1 DEF HttpInv, DeedsFit, AnswerDeed
      <3> QED
        BY <2>2, <3>2
    <2> QED
      BY <2>2, <2>3
  <1>2. AnsweredIsRecorded
    BY DEF HttpInv, LogFits, AnsweredIsRecorded, Recorded
  <1> QED
    BY <1>1, <1>2

LEMMA DoneIsAtWork == \A m : (IsDone(m) => AtWork(m)) /\ (IsKept(m) => IsDone(m))
  BY DEF IsDone, AtWork, IsKept, DoneSteps

\* The parts of the invariant, and what changes with one thread.
LEMMA ThreadChanges ==
    ASSUME HttpInv, NEW t \in Requesters, NEW m \in HttpRequestStates,
           request' = [request EXCEPT ![t] = m]
    PROVE  /\ request' \in [Requesters -> HttpRequestStates] /\ request'[t] = m
           /\ \A o \in Requesters \ {t} : request'[o] = request[o]
           /\ HttpTypes /\ DeedsFit /\ LogFits /\ \A o \in Requesters : PathFits(request[o])
           /\ \A slot \in (HttpMethods \X HttpKeys) \ disturbed : SlotFits(slot)
  BY DEF HttpInv, HttpTypes

\* A step of one thread that executes, remembers and records nothing.
LEMMA QuietMoves ==
    ASSUME HttpInv, NEW t \in Requesters, NEW m \in HttpRequestStates, PathFits(m),
           request' = [request EXCEPT ![t] = m], received' \in Nat,
           UNCHANGED <<remembered, auditLog, running, executions>>, disturbed \subseteq disturbed',
           \A a \in answers' :
              \/ a \in answers
              \/ /\ AnswerDeed(a) \in executions
                 /\ (a.again /\ a.slot[1] = "POST") \/ Recorded(a.execution),
           AtWork(m) =>
              \/ /\ AtWork(request[t]) /\ SlotOf(m) = SlotOf(request[t])
                 /\ DeedOf(m) = DeedOf(request[t]) /\ (IsDone(m) <=> IsDone(request[t]))
              \/ /\ ~AtWork(request[t]) /\ ~IsDone(m) /\ ~KeyKept(SlotOf(m))
                 /\ \/ SlotOf(m) \in disturbed'
                    \/ \A o \in Requesters \ {t} : AtWork(request[o]) => SlotOf(request[o]) # SlotOf(m),
           IsKept(m) => IsKept(request[t]),
           IsDone(request[t]) /\ ~IsDone(m) =>
              SlotOf(request[t]) \in disturbed' \/ KeyKept(SlotOf(request[t])),
           m.at \in LogSteps =>
              request[t].at \in LogSteps \/ \A o \in Requesters : request[o].at \notin LogSteps,
           m.at = "write" => m.sequence = Len(auditLog) + 1,
           IsLogged(m) => Recorded(m.number)
    PROVE  HttpInv'
  <1>1. /\ request' \in [Requesters -> HttpRequestStates] /\ request'[t] = m
        /\ \A o \in Requesters \ {t} : request'[o] = request[o]
        /\ HttpTypes /\ DeedsFit /\ LogFits /\ \A o \in Requesters : PathFits(request[o])
        /\ \A slot \in (HttpMethods \X HttpKeys) \ disturbed : SlotFits(slot)
    BY ThreadChanges
  <1>2. HttpTypes' /\ \A o \in Requesters : PathFits(request[o])'
    BY <1>1 DEF HttpTypes, PathFits
  <1>3. DeedsFit'
    <2>1. \A o \in Requesters : IsDone(request'[o]) => DeedOf(request'[o]) \in executions
      <3>1. IsDone(m) => DeedOf(m) \in executions
        BY <1>1, DoneIsAtWork DEF DeedsFit
      <3> QED
        BY <1>1, <3>1 DEF DeedsFit
    <2>2. \A a \in answers' : AnswerDeed(a) \in executions
      BY <1>1 DEF DeedsFit
    <2> QED
      BY <1>1, <2>1, <2>2 DEF DeedsFit
  <1>4. ASSUME NEW slot \in HttpMethods \X HttpKeys, slot \notin disturbed'
        PROVE  SlotFits(slot)'
    <2>1. SlotFits(slot)
      BY <1>1, <1>4
    <2>2. KeyKept(slot)' <=> KeyKept(slot)
      BY DEF KeyKept, Entries
    <2>3. AtWork(m) /\ SlotOf(m) = slot =>
             \/ AtWork(request[t]) /\ SlotOf(request[t]) = slot
             \/ \A o \in Requesters \ {t} : ~(AtWork(request[o]) /\ SlotOf(request[o]) = slot)
      BY <1>4
    <2>4. ASSUME NEW o \in Requesters, NEW q \in Requesters,
                 AtWork(request'[o]) /\ SlotOf(request'[o]) = slot,
                 AtWork(request'[q]) /\ SlotOf(request'[q]) = slot
          PROVE  o = q
      BY <1>1, <2>1, <2>3, <2>4 DEF SlotFits
    <2>5. ASSUME AtWork(m), ~IsDone(m), SlotOf(m) = slot, NEW e \in executions, e.slot = slot
          PROVE  FALSE
      <3>1. CASE AtWork(request[t]) /\ SlotOf(m) = SlotOf(request[t]) /\ ~IsDone(request[t])
        <4>1. SlotOf(request[t]) = slot
          BY <2>5, <3>1
        <4> QED
          BY <2>1, <2>5, <3>1, <4>1 DEF SlotFits
      <3>2. CASE ~AtWork(request[t]) /\ ~KeyKept(slot)
                 /\ \A o \in Requesters \ {t} : AtWork(request[o]) => SlotOf(request[o]) # slot
        <4>1. running
          BY <2>5 DEF PathFits, AtWork
        <4>2. \A o \in Requesters : IsDone(request[o]) => SlotOf(request[o]) # slot
          BY <3>2, DoneIsAtWork
        <4> QED
          BY <2>1, <2>5, <3>2, <4>1, <4>2 DEF SlotFits
      <3> QED
        BY <1>4, <2>5, <3>1, <3>2
    <2>6. ASSUME NEW e \in executions, e.slot = slot, running
          PROVE  KeyKept(slot) \/ \E o \in Requesters : IsDone(request'[o]) /\ SlotOf(request'[o]) = slot
      <3>1. CASE KeyKept(slot)
        BY <3>1
      <3>2. CASE \E o \in Requesters : IsDone(request[o]) /\ SlotOf(request[o]) = slot
        <4>1. PICK o \in Requesters : IsDone(request[o]) /\ SlotOf(request[o]) = slot
          BY <3>2
        <4>2. CASE o # t
          BY <1>1, <4>1, <4>2
        <4>3. CASE o = t /\ IsDone(m)
          <5>1. SlotOf(m) = slot
            BY <4>1, <4>3, DoneIsAtWork
          <5> QED
            BY <1>1, <4>3, <5>1
        <4>4. CASE o = t /\ ~IsDone(m)
          BY <1>4, <4>1, <4>4
        <4> QED
          BY <4>2, <4>3, <4>4
      <3> QED
        BY <2>1, <2>6, <3>1, <3>2 DEF SlotFits
    <2>7. ASSUME NEW o \in Requesters, IsKept(request'[o]), SlotOf(request'[o]) = slot
          PROVE  KeyKept(slot)
      <3>1. CASE o = t
        <4>1. IsKept(request[t]) /\ IsKept(m) /\ SlotOf(m) = slot
          BY <1>1, <2>7, <3>1
        <4>2. SlotOf(request[t]) = slot
          BY <4>1, DoneIsAtWork
        <4> QED
          BY <2>1, <4>1, <4>2 DEF SlotFits
      <3>2. CASE o # t
        BY <1>1, <2>1, <2>7, <3>2 DEF SlotFits
      <3> QED
        BY <3>1, <3>2
    <2>8. \A e, o \in executions : e.slot = slot /\ o.slot = slot => e = o
      BY <2>1 DEF SlotFits
    <2>9. ASSUME NEW o \in Requesters, AtWork(request'[o]), ~IsDone(request'[o]),
                 SlotOf(request'[o]) = slot, NEW e \in executions
          PROVE  e.slot # slot
      BY <1>1, <2>1, <2>5, <2>9 DEF SlotFits
    <2> QED
      BY <2>2, <2>4, <2>6, <2>7, <2>8, <2>9 DEF SlotFits
  <1>5. LogFits'
    <2>1. \A n : Recorded(n)' <=> Recorded(n)
      BY DEF Recorded
    <2>2. \A o, q \in Requesters :
             request'[o].at \in LogSteps /\ request'[q].at \in LogSteps => o = q
      BY <1>1 DEF LogFits
    <2>3. \A o \in Requesters : request'[o].at = "write" => request'[o].sequence = Len(auditLog) + 1
      BY <1>1 DEF LogFits
    <2>4. \A o \in Requesters : IsLogged(request'[o]) => Recorded(request'[o].number)
      BY <1>1 DEF LogFits
    <2>5. \A a \in answers' : (a.again /\ a.slot[1] = "POST") \/ Recorded(a.execution)
      BY <1>1 DEF LogFits
    <2>6. /\ \A i \in DOMAIN auditLog : auditLog[i].sequence = i
          /\ \A i \in DOMAIN remembered["PUT"] : Recorded(remembered["PUT"][i].execution)
      BY <1>1 DEF LogFits
    <2> QED
      BY <2>1, <2>2, <2>3, <2>4, <2>5, <2>6 DEF LogFits
  <1> QED
    BY <1>2, <1>3, <1>4, <1>5 DEF HttpInv

\* A thread executes its request.
LEMMA ExecuteMoves ==
    ASSUME HttpInv, NEW t \in Requesters, NEW m \in HttpRequestStates, PathFits(m),
           request' = [request EXCEPT ![t] = m], executions' = executions \cup {DeedOf(m)},
           UNCHANGED <<received, remembered, auditLog, running, answers, disturbed>>,
           AtWork(request[t]), ~IsDone(request[t]), IsDone(m), ~IsKept(m), ~IsLogged(m),
           m.at \notin LogSteps, SlotOf(m) = SlotOf(request[t])
    PROVE  HttpInv'
  <1>1. /\ request' \in [Requesters -> HttpRequestStates] /\ request'[t] = m
        /\ \A o \in Requesters \ {t} : request'[o] = request[o]
        /\ HttpTypes /\ DeedsFit /\ LogFits /\ \A o \in Requesters : PathFits(request[o])
        /\ \A slot \in (HttpMethods \X HttpKeys) \ disturbed : SlotFits(slot)
    BY ThreadChanges
  <1>2. HttpTypes' /\ \A o \in Requesters : PathFits(request[o])'
    BY <1>1 DEF HttpTypes, PathFits
  <1>3. AtWork(m) /\ DeedOf(m).slot = SlotOf(m) /\ SlotOf(m) \in HttpMethods \X HttpKeys
    BY DoneIsAtWork DEF DeedOf, SlotOf, HttpRequestStates
  <1>4. DeedsFit'
    <2>1. \A o \in Requesters : IsDone(request'[o]) => DeedOf(request'[o]) \in executions'
      BY <1>1 DEF DeedsFit
    <2> QED
      BY <1>1, <1>3, <2>1 DEF DeedsFit
  <1>5. ASSUME NEW slot \in HttpMethods \X HttpKeys, slot \notin disturbed
        PROVE  SlotFits(slot)'
    <2>1. SlotFits(slot)
      BY <1>1, <1>5
    <2>2. KeyKept(slot)' <=> KeyKept(slot)
      BY DEF KeyKept, Entries
    <2>3. \A e, o \in executions' : e.slot = slot /\ o.slot = slot => e = o
      BY <1>3, <2>1 DEF SlotFits
    <2>4. \A o \in Requesters : /\ AtWork(request'[o]) <=> AtWork(request[o])
                                /\ AtWork(request[o]) => SlotOf(request'[o]) = SlotOf(request[o])
      BY <1>1, <1>3
    <2>5. \A o, q \in Requesters :
             /\ AtWork(request'[o]) /\ SlotOf(request'[o]) = slot
             /\ AtWork(request'[q]) /\ SlotOf(request'[q]) = slot
             => o = q
      BY <2>1, <2>4 DEF SlotFits
    <2>6. ASSUME NEW o \in Requesters, AtWork(request'[o]), ~IsDone(request'[o]),
                 SlotOf(request'[o]) = slot, NEW e \in executions', e.slot = slot
          PROVE  FALSE
      <3>1. o # t /\ request'[o] = request[o]
        BY <1>1, <2>6
      <3>2. \A d \in executions : d.slot # slot
        BY <2>1, <2>6, <3>1 DEF SlotFits
      <3>3. e = DeedOf(m) /\ SlotOf(m) = slot
        BY <1>3, <2>6, <3>2
      <3> QED
        BY <1>1, <1>3, <2>5, <2>6, <3>1, <3>3
    <2>7. ASSUME NEW e \in executions', e.slot = slot, running
          PROVE  KeyKept(slot) \/ \E o \in Requesters : IsDone(request'[o]) /\ SlotOf(request'[o]) = slot
      <3>1. CASE e \in executions
        <4>1. \A o \in Requesters : IsDone(request[o]) => request'[o] = request[o]
          BY <1>1
        <4> QED
          BY <2>1, <2>7, <3>1, <4>1 DEF SlotFits
      <3>2. CASE e = DeedOf(m)
        BY <1>1, <1>3, <2>7, <3>2
      <3> QED
        BY <3>1, <3>2
    <2>8. \A o \in Requesters : IsKept(request'[o]) /\ SlotOf(request'[o]) = slot => KeyKept(slot)
      BY <1>1, <2>1 DEF SlotFits
    <2> QED
      BY <2>2, <2>3, <2>5, <2>6, <2>7, <2>8 DEF SlotFits
  <1>6. LogFits'
    <2>1. \A n : Recorded(n)' <=> Recorded(n)
      BY DEF Recorded
    <2>2. m.at # "write"
      BY DEF LogSteps
    <2> QED
      BY <1>1, <2>1, <2>2 DEF LogFits
  <1> QED
    BY <1>2, <1>4, <1>5, <1>6 DEF HttpInv

\* A thread that holds the log appends the record of its request.
LEMMA RecordMoves ==
    ASSUME HttpInv, NEW t \in Requesters, NEW m \in HttpRequestStates, PathFits(m),
           request' = [request EXCEPT ![t] = m],
           request[t].at = "write", m.at = "sync", DeedOf(m) = DeedOf(request[t]),
           m.kind = request[t].kind, m.number = request[t].number,
           NEW line, line = [sequence |-> request[t].sequence, execution |-> request[t].number],
           auditLog' = Append(auditLog, line),
           UNCHANGED <<received, remembered, executions, running, answers, disturbed>>
    PROVE  HttpInv'
  <1>1. /\ request' \in [Requesters -> HttpRequestStates] /\ request'[t] = m
        /\ \A o \in Requesters \ {t} : request'[o] = request[o]
        /\ HttpTypes /\ DeedsFit /\ LogFits /\ \A o \in Requesters : PathFits(request[o])
        /\ \A slot \in (HttpMethods \X HttpKeys) \ disturbed : SlotFits(slot)
    BY ThreadChanges
  <1>2. line \in LogRecords /\ line.sequence = Len(auditLog) + 1 /\ line.execution = m.number
    BY <1>1 DEF HttpTypes, HttpRequestStates, LogRecords, LogFits
  <1>3. /\ auditLog' \in Seq(LogRecords) /\ Len(auditLog') = Len(auditLog) + 1
        /\ \A i \in 1 .. Len(auditLog) : auditLog'[i] = auditLog[i]
        /\ auditLog'[Len(auditLog) + 1] = line /\ Len(auditLog) \in Nat
        /\ DOMAIN auditLog' = 1 .. (Len(auditLog) + 1) /\ DOMAIN auditLog = 1 .. Len(auditLog)
    BY <1>1, <1>2 DEF HttpTypes
  <1>4. HttpTypes' /\ \A o \in Requesters : PathFits(request[o])'
    BY <1>1, <1>3 DEF HttpTypes, PathFits
  <1>5. /\ IsDone(request[t]) /\ IsDone(m) /\ AtWork(m) /\ AtWork(request[t])
        /\ SlotOf(m) = SlotOf(request[t]) /\ (IsKept(m) <=> IsKept(request[t]))
    BY DEF IsDone, DoneSteps, AtWork, IsKept, DeedOf
  <1>6. DeedsFit'
    BY <1>1, <1>5 DEF DeedsFit
  <1>7. ASSUME NEW slot \in HttpMethods \X HttpKeys, slot \notin disturbed
        PROVE  SlotFits(slot)'
    <2>1. \A o \in Requesters :
             /\ AtWork(request'[o]) <=> AtWork(request[o])
             /\ IsDone(request'[o]) <=> IsDone(request[o])
             /\ IsKept(request'[o]) <=> IsKept(request[o])
             /\ SlotOf(request'[o]) = SlotOf(request[o])
      BY <1>1, <1>5
    <2>2. KeyKept(slot)' <=> KeyKept(slot)
      BY DEF KeyKept, Entries
    <2> QED
      BY <1>1, <1>7, <2>1, <2>2 DEF SlotFits
  <1>8. LogFits'
    <2>1. ASSUME NEW n, Recorded(n) \/ n = m.number PROVE Recorded(n)'
      <3>1. CASE Recorded(n)
        <4>1. PICK i \in 1 .. Len(auditLog) : auditLog[i].execution = n
          BY <1>3, <3>1 DEF Recorded
        <4>2. i \in 1 .. (Len(auditLog) + 1) /\ auditLog'[i].execution = n
          BY <1>3, <4>1
        <4> QED
          BY <1>3, <4>2 DEF Recorded
      <3>2. CASE n = m.number
        <4>1. Len(auditLog) + 1 \in 1 .. (Len(auditLog) + 1)
          BY <1>3
        <4> QED
          BY <1>2, <1>3, <3>2, <4>1 DEF Recorded
      <3> QED
        BY <2>1, <3>1, <3>2
    <2>2. \A i \in DOMAIN auditLog' : auditLog'[i].sequence = i
      <3> SUFFICES ASSUME NEW i \in 1 .. (Len(auditLog) + 1) PROVE auditLog'[i].sequence = i
        BY <1>3
      <3>1. CASE i \in 1 .. Len(auditLog)
        BY <1>1, <1>3, <3>1 DEF LogFits
      <3>2. CASE i = Len(auditLog) + 1
        BY <1>2, <1>3, <3>2
      <3> QED
        BY <1>3, <3>1, <3>2
    <2>3. /\ \A o, q \in Requesters :
                request'[o].at \in LogSteps /\ request'[q].at \in LogSteps => o = q
          /\ \A o \in Requesters : request'[o].at # "write"
      BY <1>1 DEF LogFits, LogSteps
    <2>4. \A o \in Requesters : IsLogged(request'[o]) => Recorded(request[o].number)'
      <3> SUFFICES ASSUME NEW o \in Requesters, IsLogged(request'[o])
                   PROVE  Recorded(request[o].number)'
        OBVIOUS
      <3>1. PICK n : n = request'[o].number
        OBVIOUS
      <3>2. Recorded(n) \/ n = m.number
        BY <1>1, <3>1 DEF LogFits
      <3>3. Recorded(n)'
        BY <2>1, <3>2
      <3> QED
        BY <3>1, <3>3 DEF Recorded
    <2>5. \A i \in DOMAIN remembered["PUT"] : Recorded(remembered["PUT"][i].execution)'
      <3> SUFFICES ASSUME NEW i \in DOMAIN remembered["PUT"]
                   PROVE  Recorded(remembered["PUT"][i].execution)'
        OBVIOUS
      <3>1. PICK n : n = remembered["PUT"][i].execution
        OBVIOUS
      <3>2. Recorded(n)
        BY <1>1, <3>1 DEF LogFits
      <3>3. Recorded(n)'
        BY <2>1, <3>2
      <3> QED
        BY <3>1, <3>3 DEF Recorded
    <2>6. \A a \in answers : (a.again /\ a.slot[1] = "POST") \/ Recorded(a.execution)'
      BY <1>1, <2>1 DEF LogFits
    <2> QED
      BY <2>2, <2>3, <2>4, <2>5, <2>6 DEF LogFits
  <1> QED
    BY <1>4, <1>6, <1>7, <1>8 DEF HttpInv

\* The answers without those of a key are some of the answers.
LEMMA OtherAnswersFit ==
    ASSUME NEW method \in HttpMethods, NEW key, remembered[method] \in Seq(KeptAnswers)
    PROVE  /\ OtherAnswers(method, key) \in Seq(KeptAnswers)
           /\ Len(OtherAnswers(method, key)) <= Len(remembered[method])
           /\ \A j \in DOMAIN OtherAnswers(method, key) :
                 \E i \in DOMAIN remembered[method] : OtherAnswers(method, key)[j] = remembered[method][i]
  <1>1. PICK old \in Seq(KeptAnswers) : old = remembered[method]
    OBVIOUS
  <1>2. CASE Entries(method, key) = {}
    BY <1>1, <1>2 DEF OtherAnswers
  <1>3. CASE Entries(method, key) # {}
    <2>1. PICK i : i = CHOOSE k \in Entries(method, key) : TRUE
      OBVIOUS
    <2>2. i \in 1 .. Len(old)
      BY <1>1, <1>3, <2>1 DEF Entries
    <2>3. PICK n \in Nat : n = Len(old)
      BY <1>1
    <2>4. \A j \in 1 .. n : old[j] \in KeptAnswers
      BY <1>1, <2>3
    <2>5. PICK front : front = SubSeq(old, 1, i - 1)
      OBVIOUS
    <2>6. PICK back : back = SubSeq(old, i + 1, n)
      OBVIOUS
    <2>7. /\ front \in Seq(KeptAnswers) /\ Len(front) = i - 1
          /\ \A j \in 1 .. (i - 1) : front[j] = old[j]
      <3>1. i - 1 \in Int /\ 1 \in Int /\ \A j \in 1 .. (i - 1) : old[j] \in KeptAnswers
        BY <2>2, <2>3, <2>4
      <3>2. /\ SubSeq(old, 1, i - 1) \in Seq(KeptAnswers)
            /\ Len(SubSeq(old, 1, i - 1)) = IF 1 <= i - 1 THEN i - 1 - 1 + 1 ELSE 0
            /\ \A j \in 1 .. i - 1 - 1 + 1 : SubSeq(old, 1, i - 1)[j] = old[1 + j - 1]
        BY <3>1, SubSeqProperties
      <3> QED
        BY <2>2, <2>3, <2>5, <3>2
    <2>8. /\ back \in Seq(KeptAnswers) /\ Len(back) = n - i
          /\ \A j \in 1 .. (n - i) : back[j] = old[i + j]
      <3>1. i + 1 \in Int /\ n \in Int /\ \A j \in (i + 1) .. n : old[j] \in KeptAnswers
        BY <2>2, <2>3, <2>4
      <3>2. /\ SubSeq(old, i + 1, n) \in Seq(KeptAnswers)
            /\ Len(SubSeq(old, i + 1, n)) = IF i + 1 <= n THEN n - (i + 1) + 1 ELSE 0
            /\ \A j \in 1 .. n - (i + 1) + 1 : SubSeq(old, i + 1, n)[j] = old[(i + 1) + j - 1]
        BY <3>1, SubSeqProperties
      <3> QED
        BY <2>2, <2>3, <2>6, <3>2
    <2>9. OtherAnswers(method, key) = front \o back
      BY <1>1, <1>3, <2>1, <2>3, <2>5, <2>6 DEF OtherAnswers
    <2>10. /\ front \o back \in Seq(KeptAnswers) /\ Len(front \o back) = n - 1
           /\ \A j \in 1 .. (n - 1) :
                 (front \o back)[j] = IF j <= i - 1 THEN old[j] ELSE old[j + 1]
      <3>1. /\ front \o back \in Seq(KeptAnswers) /\ Len(front \o back) = Len(front) + Len(back)
            /\ \A j \in 1 .. Len(front) + Len(back) :
                  (front \o back)[j] = IF j <= Len(front) THEN front[j] ELSE back[j - Len(front)]
        BY <2>7, <2>8, ConcatProperties
      <3>2. Len(front) + Len(back) = n - 1
        BY <2>2, <2>3, <2>7, <2>8
      <3>3. ASSUME NEW j \in 1 .. (n - 1)
            PROVE  (front \o back)[j] = IF j <= i - 1 THEN old[j] ELSE old[j + 1]
        <4>1. (front \o back)[j] = IF j <= i - 1 THEN front[j] ELSE back[j - (i - 1)]
          BY <2>7, <3>1, <3>2
        <4>2. CASE j <= i - 1
          <5>1. j \in 1 .. (i - 1)
            BY <2>2, <2>3, <4>2
          <5> QED
            BY <2>7, <4>1, <4>2, <5>1
        <4>3. CASE ~(j <= i - 1)
          <5>1. j - (i - 1) \in 1 .. (n - i) /\ i + (j - (i - 1)) = j + 1
            BY <2>2, <2>3, <4>3
          <5> QED
            BY <2>8, <4>1, <4>3, <5>1
        <4> QED
          BY <4>2, <4>3
      <3> QED
        BY <3>1, <3>2, <3>3
    <2>11. ASSUME NEW j \in 1 .. (n - 1)
           PROVE  \E k \in 1 .. n : (front \o back)[j] = old[k]
      <3>1. j \in 1 .. n /\ j + 1 \in 1 .. n
        BY <2>3
      <3> QED
        BY <2>10, <3>1
    <2>12. DOMAIN (front \o back) = 1 .. (n - 1) /\ DOMAIN old = 1 .. n /\ n - 1 <= n
      BY <2>3, <2>10
    <2>13. PICK others : others = front \o back
      OBVIOUS
    <2>14. /\ others \in Seq(KeptAnswers) /\ Len(others) <= Len(old)
           /\ \A j \in DOMAIN others : \E k \in DOMAIN old : others[j] = old[k]
      BY <2>3, <2>10, <2>11, <2>12, <2>13
    <2> QED
      BY <1>1, <2>9, <2>13, <2>14
  <1> QED
    BY <1>2, <1>3

\* What is remembered once a request is: its answer, and nothing that was not there.
LEMMA WithAnswerFits ==
    ASSUME HttpInv, NEW t \in Requesters, NEW method, method = request[t].kind,
           NEW entry, entry = [key |-> request[t].key, content |-> request[t].content,
                               execution |-> request[t].number],
           NEW w, w = WithAnswer(t)
    PROVE  /\ w \in Seq(KeptAnswers) /\ Len(w) <= MaxRemembered
           /\ \E j \in DOMAIN w : w[j] = entry
           /\ \A j \in DOMAIN w : w[j] = entry \/ \E i \in DOMAIN remembered[method] : w[j] = remembered[method][i]
  <1>1. /\ method \in HttpMethods /\ request[t] \in HttpRequestStates
        /\ MaxRemembered \in Nat /\ MaxRemembered >= 1
    BY HttpAssumption DEF HttpInv, HttpTypes, HttpRequestStates
  <1>2. PICK old \in Seq(KeptAnswers) : old = remembered[method] /\ Len(old) <= MaxRemembered
    BY <1>1 DEF HttpInv, HttpTypes
  <1>3. entry \in KeptAnswers
    BY <1>1 DEF HttpRequestStates, KeptAnswers
  <1>4. CASE method = "PUT" /\ Entries(method, entry.key) # {}
    <2>1. PICK all : all = [i \in DOMAIN old |-> IF old[i].key = entry.key THEN entry ELSE old[i]]
      OBVIOUS
    <2>2. /\ all \in Seq(KeptAnswers) /\ Len(all) = Len(old) /\ DOMAIN all = DOMAIN old
          /\ \A j \in DOMAIN old : all[j] = IF old[j].key = entry.key THEN entry ELSE old[j]
      BY <1>2, <1>3, <2>1
    <2>3. w = all
      <3>1. ~(Len(all) > MaxRemembered)
        BY <1>1, <1>2, <2>2
      <3> QED
        BY <1>2, <1>4, <2>1, <3>1 DEF WithAnswer, Execution
    <2>4. \E j \in DOMAIN all : all[j] = entry
      BY <1>2, <1>4, <2>2 DEF Entries
    <2> QED
      BY <1>2, <2>2, <2>3, <2>4
  <1>5. CASE ~(method = "PUT" /\ Entries(method, entry.key) # {})
    <2>1. PICK others : others = OtherAnswers(method, entry.key)
      OBVIOUS
    <2>2. /\ others \in Seq(KeptAnswers) /\ Len(others) <= Len(old)
          /\ \A j \in DOMAIN others : \E i \in DOMAIN old : others[j] = old[i]
      BY <1>1, <1>2, <2>1, OtherAnswersFit
    <2>3. PICK n \in Nat : n = Len(others) /\ n <= MaxRemembered
      BY <1>1, <1>2, <2>2
    <2>4. PICK all : all = Append(others, entry)
      OBVIOUS
    <2>5. /\ all \in Seq(KeptAnswers) /\ Len(all) = n + 1 /\ all # <<>>
          /\ \A j \in 1 .. n : all[j] = others[j]
          /\ all[n + 1] = entry
      BY <1>3, <2>2, <2>3, <2>4, AppendProperties
    <2>6. w = IF Len(all) > MaxRemembered THEN Tail(all) ELSE all
      BY <1>2, <1>5, <2>1, <2>4 DEF WithAnswer, Execution
    <2>7. ASSUME NEW j \in 1 .. (n + 1)
          PROVE  all[j] = entry \/ \E i \in DOMAIN old : all[j] = old[i]
      <3>1. CASE j = n + 1
        BY <2>5, <3>1
      <3>2. CASE j # n + 1
        <4>1. j \in 1 .. n /\ DOMAIN others = 1 .. n
          BY <2>2, <2>3, <3>2
        <4> QED
          BY <2>2, <2>5, <4>1
      <3> QED
        BY <3>1, <3>2
    <2>8. CASE ~(n + 1 > MaxRemembered)
      <3>1. w = all /\ DOMAIN all = 1 .. (n + 1) /\ n + 1 \in 1 .. (n + 1) /\ Len(all) <= MaxRemembered
        BY <1>1, <2>3, <2>5, <2>6, <2>8
      <3> QED
        BY <1>2, <2>5, <2>7, <3>1
    <2>9. CASE n + 1 > MaxRemembered
      <3>1. /\ Tail(all) \in Seq(KeptAnswers) /\ Len(Tail(all)) = n
            /\ \A j \in 1 .. n : Tail(all)[j] = all[j + 1]
        BY <2>3, <2>5, HeadTailProperties
      <3>2. w = Tail(all) /\ DOMAIN w = 1 .. n
        BY <2>5, <2>6, <2>9, <3>1
      <3>3. n \in 1 .. n
        BY <1>1, <2>3, <2>9
      <3>4. \A j \in 1 .. n : j + 1 \in 1 .. (n + 1)
        BY <2>3
      <3> QED
        BY <1>2, <2>3, <2>5, <2>7, <3>1, <3>2, <3>3, <3>4
    <2> QED
      BY <2>8, <2>9
  <1> QED
    BY <1>4, <1>5

LEMMA RememberKeeps ==
    ASSUME HttpInv, NEW t \in Requesters, Remember(t)
    PROVE  HttpInv'
  <1>1. PICK m : m = [request[t] EXCEPT !.at = IF request[t].kind = "POST" THEN "append" ELSE "answer"]
    OBVIOUS
  <1>2. PICK method : method = request[t].kind
    OBVIOUS
  <1>3. PICK entry : entry = [key |-> request[t].key, content |-> request[t].content,
                              execution |-> request[t].number]
    OBVIOUS
  <1>4. PICK w : w = WithAnswer(t)
    OBVIOUS
  <1>5. /\ request[t] \in HttpRequestStates /\ request[t].at = "remember" /\ PathFits(request[t])
        /\ request \in [Requesters -> HttpRequestStates] /\ method \in HttpMethods
    BY <1>2 DEF HttpInv, HttpTypes, HttpRequestStates, Remember
  <1>6. /\ m \in HttpRequestStates /\ DeedOf(m) = DeedOf(request[t]) /\ SlotOf(m) = SlotOf(request[t])
        /\ m.number = request[t].number /\ m.kind = method
        /\ m.at = (IF method = "POST" THEN "append" ELSE "answer")
    BY <1>1, <1>2, <1>5 DEF HttpRequestStates, HttpSteps, DoneSteps, DeedOf, SlotOf
  <1>7. /\ AtWork(m) /\ IsDone(m) /\ AtWork(request[t]) /\ IsDone(request[t])
        /\ m.at \notin LogSteps /\ (IsLogged(m) => IsLogged(request[t])) /\ PathFits(m)
    BY <1>2, <1>5, <1>6 DEF AtWork, IsDone, DoneSteps, LogSteps, IsLogged, PathFits, HttpMethods
  <1>8. request' = [request EXCEPT ![t] = m]
    BY <1>1, <1>5 DEF Remember, RequestAt
  <1>9. /\ request' \in [Requesters -> HttpRequestStates] /\ request'[t] = m
        /\ \A o \in Requesters \ {t} : request'[o] = request[o]
        /\ HttpTypes /\ DeedsFit /\ LogFits /\ \A o \in Requesters : PathFits(request[o])
        /\ \A slot \in (HttpMethods \X HttpKeys) \ disturbed : SlotFits(slot)
    BY <1>6, <1>8, ThreadChanges
  <1>10. /\ w \in Seq(KeptAnswers) /\ Len(w) <= MaxRemembered
         /\ \E j \in DOMAIN w : w[j] = entry
         /\ \A j \in DOMAIN w : w[j] = entry \/ \E i \in DOMAIN remembered[method] : w[j] = remembered[method][i]
    BY <1>2, <1>3, <1>4, WithAnswerFits
  <1>11. /\ remembered' = [remembered EXCEPT ![method] = w]
         /\ remembered' \in [HttpMethods -> Seq(KeptAnswers)] /\ remembered'[method] = w
         /\ \A k \in HttpMethods \ {method} : remembered'[k] = remembered[k]
    BY <1>2, <1>4, <1>5, <1>9, <1>10 DEF Remember, HttpTypes
  <1>12. /\ received' = received /\ auditLog' = auditLog /\ running' = running
         /\ executions' = executions /\ answers' = answers /\ disturbed \subseteq disturbed'
    BY DEF Remember
  <1>13. HttpTypes' /\ \A o \in Requesters : PathFits(request[o])'
    <2>1. \A k \in HttpMethods : Len(remembered'[k]) <= MaxRemembered
      BY <1>9, <1>10, <1>11 DEF HttpTypes
    <2> QED
      BY <1>7, <1>9, <1>11, <1>12, <2>1 DEF HttpTypes, PathFits
  \* an answer is remembered still, or its key is one of those disturbed
  <1>14. ASSUME NEW k \in HttpMethods, NEW key, Entries(k, key) # {}, <<k, key>> \notin disturbed'
         PROVE  \E j \in DOMAIN remembered'[k] : remembered'[k][j].key = key
    <2>1. CASE k # method
      BY <1>11, <1>14, <2>1 DEF Entries
    <2>2. CASE k = method
      <3>1. PICK i \in DOMAIN remembered[method] : remembered[method][i].key = key
        BY <1>14, <2>2 DEF Entries
      <3>2. ASSUME \A j \in DOMAIN w : w[j].key # remembered[method][i].key
            PROVE  <<method, remembered[method][i].key>> \in disturbed'
        BY <1>2, <1>4, <3>2 DEF Remember
      <3> QED
        BY <1>11, <1>14, <2>2, <3>1, <3>2
    <2> QED
      BY <2>1, <2>2
  <1>15. ASSUME NEW slot \in HttpMethods \X HttpKeys, slot \notin disturbed', KeyKept(slot)
         PROVE  KeyKept(slot)'
    <2>1. slot = <<slot[1], slot[2]>> /\ slot[1] \in HttpMethods
      OBVIOUS
    <2>2. \E j \in DOMAIN remembered'[slot[1]] : remembered'[slot[1]][j].key = slot[2]
      BY <1>14, <1>15, <2>1 DEF KeyKept
    <2> QED
      BY <2>2 DEF KeyKept, Entries
  <1>16. KeyKept(SlotOf(m))'
    <2>1. SlotOf(m)[1] = method /\ SlotOf(m)[2] = request[t].key
      BY <1>2, <1>6 DEF SlotOf
    <2>2. \E j \in DOMAIN remembered'[method] : remembered'[method][j].key = request[t].key
      BY <1>3, <1>10, <1>11
    <2> QED
      BY <2>1, <2>2 DEF KeyKept, Entries
  <1>17. DeedsFit'
    <2>1. \A o \in Requesters : IsDone(request'[o]) => DeedOf(request'[o]) \in executions
      BY <1>6, <1>7, <1>9 DEF DeedsFit
    <2>2. ASSUME NEW k \in HttpMethods, NEW j \in DOMAIN remembered'[k]
          PROVE  KeptDeed(k, remembered'[k][j]) \in executions
      <3>1. CASE k # method
        BY <1>9, <1>11, <3>1 DEF DeedsFit
      <3>2. CASE k = method /\ w[j] = entry
        <4>1. KeptDeed(method, entry) = DeedOf(request[t])
          BY <1>2, <1>3 DEF KeptDeed, DeedOf, SlotOf
        <4> QED
          BY <1>7, <1>9, <1>11, <3>2, <4>1 DEF DeedsFit
      <3>3. CASE k = method /\ w[j] # entry
        <4>1. PICK i \in DOMAIN remembered[method] : w[j] = remembered[method][i]
          BY <1>10, <1>11, <3>3
        <4> QED
          BY <1>5, <1>9, <1>11, <3>3, <4>1 DEF DeedsFit
      <3> QED
        BY <3>1, <3>2, <3>3
    <2> QED
      BY <1>9, <1>12, <2>1, <2>2 DEF DeedsFit
  <1>18. ASSUME NEW slot \in HttpMethods \X HttpKeys, slot \notin disturbed'
         PROVE  SlotFits(slot)'
    <2>1. SlotFits(slot)
      BY <1>9, <1>12, <1>18
    <2>2. \A o \in Requesters : /\ AtWork(request'[o]) <=> AtWork(request[o])
                                /\ IsDone(request'[o]) <=> IsDone(request[o])
                                /\ SlotOf(request'[o]) = SlotOf(request[o])
      BY <1>6, <1>7, <1>9
    <2>3. ASSUME NEW o \in Requesters, IsKept(request'[o]), SlotOf(request'[o]) = slot
          PROVE  KeyKept(slot)'
      <3>1. CASE o = t
        <4>1. slot = SlotOf(m)
          BY <1>9, <2>3, <3>1
        <4> QED
          BY <1>16, <4>1
      <3>2. CASE o # t
        <4>1. KeyKept(slot)
          BY <1>9, <2>1, <2>3, <3>2 DEF SlotFits
        <4> QED
          BY <1>15, <1>18, <4>1
      <3> QED
        BY <3>1, <3>2
    <2>4. ASSUME NEW e \in executions, e.slot = slot, running
          PROVE  \/ KeyKept(slot)'
                 \/ \E o \in Requesters : IsDone(request'[o]) /\ SlotOf(request'[o]) = slot
      <3>1. KeyKept(slot) \/ \E o \in Requesters : IsDone(request[o]) /\ SlotOf(request[o]) = slot
        BY <2>1, <2>4 DEF SlotFits
      <3> QED
        BY <1>15, <1>18, <2>2, <3>1
    <2>5. /\ \A e, o \in executions : e.slot = slot /\ o.slot = slot => e = o
          /\ \A o, q \in Requesters :
                /\ AtWork(request'[o]) /\ SlotOf(request'[o]) = slot
                /\ AtWork(request'[q]) /\ SlotOf(request'[q]) = slot
                => o = q
          /\ \A o \in Requesters :
                AtWork(request'[o]) /\ ~IsDone(request'[o]) /\ SlotOf(request'[o]) = slot =>
                   \A e \in executions : e.slot # slot
      BY <2>1, <2>2 DEF SlotFits
    <2> QED
      BY <1>12, <2>3, <2>4, <2>5 DEF SlotFits
  <1>19. LogFits'
    <2>1. \A n : Recorded(n)' <=> Recorded(n)
      BY <1>12 DEF Recorded
    <2>2. \A o \in Requesters : IsLogged(request'[o]) => Recorded(request'[o].number)
      BY <1>6, <1>7, <1>9 DEF LogFits
    <2>3. ASSUME NEW j \in DOMAIN remembered'["PUT"]
          PROVE  Recorded(remembered'["PUT"][j].execution)
      <3>1. "PUT" \in HttpMethods
        BY DEF HttpMethods
      <3>2. CASE method # "PUT"
        BY <1>9, <1>11, <3>1, <3>2 DEF LogFits
      <3>3. CASE method = "PUT" /\ w[j] = entry
        <4>1. IsLogged(request[t]) /\ entry.execution = request[t].number
          BY <1>2, <1>3, <1>5, <3>3 DEF IsLogged
        <4> QED
          BY <1>9, <1>11, <3>3, <4>1 DEF LogFits
      <3>4. CASE method = "PUT" /\ w[j] # entry
        <4>1. PICK i \in DOMAIN remembered["PUT"] : w[j] = remembered["PUT"][i]
          BY <1>10, <1>11, <3>4
        <4> QED
          BY <1>9, <1>11, <3>4, <4>1 DEF LogFits
      <3> QED
        BY <3>2, <3>3, <3>4
    <2>4. /\ \A o, q \in Requesters :
                request'[o].at \in LogSteps /\ request'[q].at \in LogSteps => o = q
          /\ \A o \in Requesters : request'[o].at = "write" => request'[o].sequence = Len(auditLog) + 1
      BY <1>7, <1>9 DEF LogFits, LogSteps
    <2>5. /\ \A i \in DOMAIN auditLog : auditLog[i].sequence = i
          /\ \A a \in answers : (a.again /\ a.slot[1] = "POST") \/ Recorded(a.execution)
      BY <1>9 DEF LogFits
    <2> QED
      BY <1>12, <2>1, <2>2, <2>3, <2>4, <2>5 DEF LogFits
  <1> QED
    BY <1>13, <1>17, <1>18, <1>19 DEF HttpInv

LEMMA NoRequestFits ==
    /\ NoRequest \in HttpRequestStates /\ PathFits(NoRequest)
    /\ ~AtWork(NoRequest) /\ ~IsDone(NoRequest) /\ ~IsKept(NoRequest) /\ ~IsLogged(NoRequest)
    /\ NoRequest.at \notin LogSteps /\ NoRequest.at # "write"
  <1>1. NoRequest \in HttpRequestStates
    BY DEF NoRequest, HttpRequestStates, HttpSteps, HttpMethods, HttpKeys
  <1>2. NoRequest.at = "idle" /\ NoRequest.kind = "POST"
    BY DEF NoRequest
  <1> QED
    BY <1>1, <1>2 DEF PathFits, AtWork, IsDone, IsKept, IsLogged, DoneSteps, LogSteps

\* A key whose request is kept can be looked up, or was disturbed.
LEMMA KeptIsThere ==
    ASSUME HttpInv, NEW t \in Requesters, IsKept(request[t])
    PROVE  SlotOf(request[t]) \in disturbed \/ KeyKept(SlotOf(request[t]))
  <1>1. SlotOf(request[t]) \in HttpMethods \X HttpKeys
    BY DEF HttpInv, HttpTypes, HttpRequestStates, SlotOf
  <1> QED
    BY <1>1 DEF HttpInv, SlotFits

\* A request that ends.
LEMMA EndMoves ==
    ASSUME HttpInv, NEW t \in Requesters, RequestEnds(t),
           UNCHANGED <<received, remembered, auditLog, running, executions>>,
           disturbed \subseteq disturbed',
           \A a \in answers' :
              \/ a \in answers
              \/ /\ AnswerDeed(a) \in executions
                 /\ (a.again /\ a.slot[1] = "POST") \/ Recorded(a.execution),
           IsDone(request[t]) => IsKept(request[t]) \/ SlotOf(request[t]) \in disturbed'
    PROVE  HttpInv'
  <1>1. PICK m : m = NoRequest
    OBVIOUS
  <1>2. /\ m \in HttpRequestStates /\ PathFits(m) /\ ~AtWork(m) /\ ~IsKept(m) /\ ~IsLogged(m)
        /\ m.at \notin LogSteps /\ m.at # "write" /\ request' = [request EXCEPT ![t] = m]
    BY <1>1, NoRequestFits DEF RequestEnds
  <1>3. received' \in Nat
    BY DEF HttpInv, HttpTypes
  <1>4. IsDone(request[t]) => SlotOf(request[t]) \in disturbed' \/ KeyKept(SlotOf(request[t]))
    BY KeptIsThere
  <1> QED
    BY <1>2, <1>3, <1>4, QuietMoves

\* A record that cannot be appended ends its request.
LEMMA FailMoves ==
    ASSUME HttpInv, NEW t \in Requesters, AppendFails(t),
           request[t].at \in {"append", "write", "sync", "check"},
           UNCHANGED <<received, remembered, auditLog, running, executions, answers>>
    PROVE  HttpInv'
  <1>1. request[t].kind \in HttpMethods
    BY DEF HttpInv, HttpTypes, HttpRequestStates
  <1>2. IsKept(request[t]) \/ SlotOf(request[t]) \in disturbed'
    BY <1>1 DEF IsKept, DoneSteps, AppendFails, HttpMethods, Slot, SlotOf
  <1>3. RequestEnds(t) /\ disturbed \subseteq disturbed'
    BY DEF AppendFails
  <1> QED
    BY <1>2, <1>3, EndMoves

\* A request goes on from one step to the next.
Going(t, at, sequence) == [request[t] EXCEPT !.at = at, !.sequence = sequence]

LEMMA GoesOn ==
    ASSUME HttpInv, NEW t \in Requesters, NEW at \in HttpSteps, NEW sequence \in Nat,
           NEW m, m = Going(t, at, sequence)
    PROVE  /\ m \in HttpRequestStates /\ m.at = at /\ m.kind = request[t].kind
           /\ m.sequence = sequence /\ SlotOf(m) = SlotOf(request[t])
           /\ DeedOf(m) = DeedOf(request[t]) /\ m.number = request[t].number
           /\ m.kind \in HttpMethods /\ PathFits(request[t])
           /\ request \in [Requesters -> HttpRequestStates] /\ received \in Nat
  <1>1. request[t] \in HttpRequestStates
    BY DEF HttpInv, HttpTypes
  <1>2. /\ m \in HttpRequestStates /\ m.at = at /\ m.kind = request[t].kind /\ m.key = request[t].key
        /\ m.content = request[t].content /\ m.sequence = sequence /\ m.number = request[t].number
        /\ m.kind \in HttpMethods
    BY <1>1 DEF HttpRequestStates, Going
  <1> QED
    BY <1>2 DEF SlotOf, DeedOf, HttpInv, HttpTypes

LEMMA ReceiveKeeps ==
    ASSUME HttpInv, NEW t \in Requesters, NEW method \in HttpMethods, NEW key \in RequestKeys,
           NEW content \in Contents, NEW separated \in BOOLEAN,
           Receive(t, method, key, content, separated)
    PROVE  HttpInv'
  <1>1. PICK m : m = [at |-> "lookup", kind |-> method, key |-> key, content |-> content,
                      separated |-> separated, number |-> received + 1, sequence |-> 0]
    OBVIOUS
  <1>2. received \in Nat
    BY DEF HttpInv, HttpTypes
  <1>3. m \in HttpRequestStates /\ m.at = "lookup"
    BY <1>1, <1>2 DEF HttpRequestStates, HttpSteps, HttpKeys
  <1>4. /\ PathFits(m) /\ ~AtWork(m) /\ ~IsKept(m) /\ ~IsLogged(m) /\ m.at \notin LogSteps
        /\ m.at # "write"
    BY <1>3 DEF PathFits, AtWork, IsKept, IsLogged, LogSteps, DoneSteps, Receive
  <1>5. ~IsDone(request[t])
    BY DEF IsDone, DoneSteps, Receive
  <1>6. request' = [request EXCEPT ![t] = m] /\ received' \in Nat
    BY <1>1, <1>2 DEF Receive
  <1>7. /\ UNCHANGED <<remembered, auditLog, running, executions>> /\ disturbed \subseteq disturbed'
        /\ answers' = answers
    BY DEF Receive
  <1> QED
    BY <1>3, <1>4, <1>5, <1>6, <1>7, QuietMoves

LEMMA RememberedRequestKeeps ==
    ASSUME HttpInv, NEW t \in Requesters, RememberedRequest(t)
    PROVE  HttpInv'
  <1>1. PICK method : method = request[t].kind
    OBVIOUS
  <1>2. method \in HttpMethods
    BY <1>1 DEF HttpInv, HttpTypes, HttpRequestStates
  <1>3. PICK i \in Entries(method, request[t].key) :
           answers' = IF SameRequest(t, remembered[method][i])
                      THEN answers \cup {[slot |-> Slot(t), execution |-> remembered[method][i].execution,
                                          content |-> request[t].content, again |-> TRUE]}
                      ELSE answers
    BY <1>1 DEF RememberedRequest
  <1>4. i \in DOMAIN remembered[method] /\ remembered[method][i].key = request[t].key
    BY <1>3 DEF Entries
  <1>5. PICK entry : entry = remembered[method][i]
    OBVIOUS
  <1>6. PICK given : given = [slot |-> Slot(t), execution |-> entry.execution,
                              content |-> request[t].content, again |-> TRUE]
    OBVIOUS
  <1>7. CASE ~(entry.content = request[t].content)
    <2>1. answers' = answers
      BY <1>3, <1>5, <1>7 DEF SameRequest
    <2>2. ~IsDone(request[t])
      BY DEF IsDone, DoneSteps, RememberedRequest
    <2> QED
      BY <2>1, <2>2, EndMoves DEF RememberedRequest
  <1>8. CASE entry.content = request[t].content
    <2>1. answers' = answers \cup {given}
      BY <1>3, <1>5, <1>6, <1>8 DEF SameRequest
    <2>2. AnswerDeed(given) = KeptDeed(method, entry)
      BY <1>1, <1>4, <1>5, <1>6, <1>8 DEF AnswerDeed, KeptDeed, Slot
    <2>3. AnswerDeed(given) \in executions
      BY <1>2, <1>4, <1>5, <2>2 DEF HttpInv, DeedsFit
    <2>4. (given.again /\ given.slot[1] = "POST") \/ Recorded(given.execution)
      <3>1. given.again /\ given.slot[1] = method /\ given.execution = entry.execution
        BY <1>1, <1>6 DEF Slot
      <3>2. CASE method = "POST"
        BY <3>1, <3>2
      <3>3. CASE method = "PUT"
        BY <1>4, <1>5, <3>1, <3>3 DEF HttpInv, LogFits
      <3> QED
        BY <1>2, <3>2, <3>3 DEF HttpMethods
    <2>5. ~IsDone(request[t])
      BY DEF IsDone, DoneSteps, RememberedRequest
    <2> QED
      BY <2>1, <2>3, <2>4, <2>5, EndMoves DEF RememberedRequest
  <1> QED
    BY <1>7, <1>8

LEMMA NewRequestKeeps ==
    ASSUME HttpInv, NEW t \in Requesters, NewRequest(t)
    PROVE  HttpInv'
  <1>1. PICK at : at = IF request[t].kind = "POST" THEN "permit" ELSE "upload"
    OBVIOUS
  <1>2. request[t] \in HttpRequestStates
    BY DEF HttpInv, HttpTypes
  <1>11. PICK n \in Nat : n = request[t].sequence
    BY <1>2 DEF HttpRequestStates
  <1>3. PICK m : m = Going(t, at, n)
    OBVIOUS
  <1>4. /\ m \in HttpRequestStates /\ m.at = at /\ m.kind = request[t].kind
        /\ SlotOf(m) = SlotOf(request[t]) /\ m.kind \in HttpMethods /\ PathFits(request[t])
        /\ request \in [Requesters -> HttpRequestStates] /\ received \in Nat
    <2>1. at \in HttpSteps
      BY <1>1 DEF HttpSteps
    <2> QED
      BY <1>3, <2>1, GoesOn
  <1>5. request' = [request EXCEPT ![t] = m]
    BY <1>1, <1>2, <1>3, <1>4, <1>11 DEF NewRequest, RequestAt, HttpRequestStates, Going
  <1>6. /\ ~AtWork(request[t]) /\ ~IsDone(request[t]) /\ running
    BY <1>4 DEF NewRequest, AtWork, IsDone, DoneSteps, PathFits
  <1>7. /\ PathFits(m) /\ ~IsDone(m) /\ ~IsKept(m) /\ ~IsLogged(m) /\ m.at \notin LogSteps
        /\ m.at # "write"
    BY <1>1, <1>4, <1>6 DEF PathFits, IsDone, IsKept, IsLogged, DoneSteps, LogSteps, HttpMethods
  <1>8. ~KeyKept(SlotOf(m))
    BY <1>4 DEF NewRequest, KeyKept, SlotOf
  <1>9. \/ SlotOf(m) \in disturbed'
        \/ \A o \in Requesters \ {t} : AtWork(request[o]) => SlotOf(request[o]) # SlotOf(m)
    BY <1>4 DEF NewRequest, Working, AtWork, Slot, SlotOf
  <1>10. disturbed \subseteq disturbed'
    BY DEF NewRequest
  <1> QED
    BY <1>4, <1>5, <1>6, <1>7, <1>8, <1>9, <1>10, QuietMoves DEF NewRequest

LEMMA TakePermitKeeps ==
    ASSUME HttpInv, NEW t \in Requesters, TakePermit(t)
    PROVE  HttpInv'
  <1>1. request[t] \in HttpRequestStates /\ request[t].at = "permit" /\ ~IsDone(request[t])
    BY DEF HttpInv, HttpTypes, TakePermit, IsDone, DoneSteps
  <1>2. CASE RequestEnds(t)
    BY <1>1, <1>2, EndMoves DEF TakePermit
  <1>3. CASE RequestAt(t, "handle")
    <2>5. PICK n \in Nat : n = request[t].sequence
      BY <1>1 DEF HttpRequestStates
    <2>6. PICK at \in HttpSteps : at = "handle"
      BY DEF HttpSteps
    <2>1. PICK m : m = Going(t, at, n)
      OBVIOUS
    <2>2. /\ m \in HttpRequestStates /\ m.at = "handle" /\ m.kind = request[t].kind
          /\ SlotOf(m) = SlotOf(request[t]) /\ m.kind \in HttpMethods /\ PathFits(request[t])
          /\ request \in [Requesters -> HttpRequestStates] /\ received \in Nat
          /\ DeedOf(m) = DeedOf(request[t])
      BY <2>1, <2>6, GoesOn
    <2>3. request' = [request EXCEPT ![t] = m]
      BY <1>1, <1>3, <2>1, <2>2, <2>5, <2>6 DEF RequestAt, HttpRequestStates, Going
    <2>4. /\ PathFits(m) /\ AtWork(request[t]) /\ ~IsDone(m) /\ ~IsKept(m) /\ ~IsLogged(m)
          /\ m.at \notin LogSteps /\ m.at # "write"
      BY <1>1, <2>2 DEF PathFits, AtWork, IsDone, IsKept, IsLogged, DoneSteps, LogSteps
    <2> QED
      BY <1>1, <2>2, <2>3, <2>4, QuietMoves DEF TakePermit
  <1> QED
    BY <1>2, <1>3 DEF TakePermit

\* A request that is handled or uploaded was executed, and is at the next step.
LEMMA ExecutesKeep ==
    ASSUME HttpInv, NEW t \in Requesters, HandleMessage(t) \/ UploadFile(t)
    PROVE  HttpInv'
  <1>1. PICK at : at = IF request[t].at = "handle" THEN "remember" ELSE "append"
    OBVIOUS
  <1>2. request[t] \in HttpRequestStates /\ request[t].at \in {"handle", "upload"}
    BY DEF HttpInv, HttpTypes, HandleMessage, UploadFile
  <1>3. PICK n \in Nat : n = request[t].sequence
    BY <1>2 DEF HttpRequestStates
  <1>4. PICK m : m = Going(t, at, n)
    OBVIOUS
  <1>5. /\ m \in HttpRequestStates /\ m.at = at /\ m.kind = request[t].kind
        /\ SlotOf(m) = SlotOf(request[t]) /\ m.kind \in HttpMethods /\ PathFits(request[t])
        /\ request \in [Requesters -> HttpRequestStates] /\ DeedOf(m) = DeedOf(request[t])
    <2>1. at \in HttpSteps
      BY <1>1 DEF HttpSteps, DoneSteps
    <2> QED
      BY <1>4, <2>1, GoesOn
  <1>6. RequestAt(t, at)
    BY <1>1 DEF HandleMessage, UploadFile
  <1>7. request' = [request EXCEPT ![t] = m]
    BY <1>2, <1>3, <1>4, <1>5, <1>6 DEF RequestAt, HttpRequestStates, Going
  <1>8. /\ AtWork(request[t]) /\ ~IsDone(request[t]) /\ running
        /\ \/ request[t].at = "handle" /\ m.kind = "POST" /\ m.at = "remember"
           \/ request[t].at = "upload" /\ m.kind = "PUT" /\ m.at = "append"
    BY <1>1, <1>2, <1>5 DEF AtWork, IsDone, DoneSteps, PathFits
  <1>9. /\ PathFits(m) /\ IsDone(m) /\ ~IsKept(m) /\ ~IsLogged(m) /\ m.at \notin LogSteps
    BY <1>8 DEF PathFits, IsDone, IsKept, IsLogged, DoneSteps, LogSteps
  <1>10. executions' = executions \cup {DeedOf(m)}
    BY <1>5 DEF HandleMessage, UploadFile, Executed, DeedOf, Slot, SlotOf, Execution
  <1>11. UNCHANGED <<received, remembered, auditLog, running, answers, disturbed>>
    BY DEF HandleMessage, UploadFile
  <1> QED
    BY <1>5, <1>7, <1>8, <1>9, <1>10, <1>11, ExecuteMoves

LEMMA AnswerRequestKeeps ==
    ASSUME HttpInv, NEW t \in Requesters, AnswerRequest(t)
    PROVE  HttpInv'
  <1>1. request[t].at = "answer" /\ request[t].kind \in HttpMethods
    BY DEF AnswerRequest, HttpInv, HttpTypes, HttpRequestStates
  <1>2. IsKept(request[t]) /\ IsDone(request[t]) /\ IsLogged(request[t])
    BY <1>1 DEF IsKept, IsDone, IsLogged, DoneSteps
  <1>3. PICK given : given = [slot |-> Slot(t), execution |-> Execution(t),
                              content |-> request[t].content, again |-> FALSE]
    OBVIOUS
  <1>4. AnswerDeed(given) = DeedOf(request[t]) /\ given.execution = request[t].number
    BY <1>3 DEF AnswerDeed, DeedOf, Slot, SlotOf, Execution
  <1>5. AnswerDeed(given) \in executions /\ Recorded(given.execution)
    BY <1>2, <1>4 DEF HttpInv, DeedsFit, LogFits
  <1>6. answers' = answers \cup {given} /\ RequestEnds(t) /\ disturbed' = disturbed
    BY <1>3 DEF AnswerRequest
  <1> QED
    BY <1>2, <1>5, <1>6, EndMoves DEF AnswerRequest

\* A request whose record is on its way to the log goes on there.
LEMMA LogStepKeeps ==
    ASSUME HttpInv, NEW t \in Requesters, request[t].at \in {"append", "write", "sync", "check"},
           NEW at \in HttpSteps, NEW n \in Nat, NEW m, m = Going(t, at, n),
           request' = [request EXCEPT ![t] = m],
           UNCHANGED <<received, remembered, auditLog, running, executions, answers, disturbed>>,
           \/ /\ at = "write" /\ n = Len(auditLog) + 1
              /\ \A o \in Requesters : request[o].at \notin LogSteps
           \/ request[t].at = "sync" /\ at = "check"
           \/ request[t].at = "check" /\ at = (IF request[t].kind = "POST" THEN "answer" ELSE "remember")
    PROVE  HttpInv'
  <1>1. /\ m \in HttpRequestStates /\ m.at = at /\ m.kind = request[t].kind /\ m.sequence = n
        /\ SlotOf(m) = SlotOf(request[t]) /\ m.kind \in HttpMethods /\ PathFits(request[t])
        /\ DeedOf(m) = DeedOf(request[t]) /\ m.number = request[t].number /\ received \in Nat
    BY GoesOn
  <1>2. /\ AtWork(request[t]) /\ IsDone(request[t]) /\ IsDone(m) /\ AtWork(m) /\ PathFits(m)
    BY <1>1 DEF AtWork, IsDone, DoneSteps, PathFits
  <1>3. IsKept(m) => IsKept(request[t])
    BY <1>1 DEF IsKept, DoneSteps, HttpMethods
  <1>4. IsLogged(m) => Recorded(m.number)
    <2>1. IsLogged(m) => IsLogged(request[t])
      BY <1>1 DEF IsLogged
    <2> QED
      BY <1>1, <2>1 DEF HttpInv, LogFits
  <1>5. /\ m.at = "write" => m.sequence = Len(auditLog) + 1
        /\ m.at \in LogSteps =>
              request[t].at \in LogSteps \/ \A o \in Requesters : request[o].at \notin LogSteps
    BY <1>1 DEF LogSteps
  <1> QED
    BY <1>1, <1>2, <1>3, <1>4, <1>5, QuietMoves

LEMMA AppendBeginKeeps ==
    ASSUME HttpInv, NEW t \in Requesters, AppendBegin(t)
    PROVE  HttpInv'
  <1>1. request[t] \in HttpRequestStates /\ request[t].at = "append"
    BY DEF HttpInv, HttpTypes, AppendBegin
  <1>2. CASE AppendFails(t)
    BY <1>1, <1>2, FailMoves DEF AppendBegin
  <1>3. CASE request' = [request EXCEPT ![t].at = "write", ![t].sequence = Len(auditLog) + 1] /\ UNCHANGED disturbed
    <2>1. PICK at \in HttpSteps : at = "write"
      BY DEF HttpSteps, DoneSteps
    <2>2. PICK n \in Nat : n = Len(auditLog) + 1
      BY DEF HttpInv, HttpTypes
    <2>3. PICK m : m = Going(t, at, n)
      OBVIOUS
    <2>4. request \in [Requesters -> HttpRequestStates]
      BY DEF HttpInv, HttpTypes
    <2>5. request' = [request EXCEPT ![t] = m]
      BY <1>1, <1>3, <2>1, <2>2, <2>3, <2>4 DEF Going, HttpRequestStates
    <2>6. \A o \in Requesters : request[o].at \notin LogSteps
      BY DEF AppendBegin, LogFree, HoldsLog, LogSteps
    <2> QED
      BY <1>1, <1>3, <2>1, <2>2, <2>3, <2>5, <2>6, LogStepKeeps DEF AppendBegin
  <1> QED
    BY <1>2, <1>3 DEF AppendBegin

LEMMA WriteRecordKeeps ==
    ASSUME HttpInv, NEW t \in Requesters, WriteRecord(t)
    PROVE  HttpInv'
  <1>1. /\ request[t] \in HttpRequestStates /\ request[t].at = "write"
        /\ request \in [Requesters -> HttpRequestStates]
    BY DEF HttpInv, HttpTypes, WriteRecord
  <1>2. CASE AppendFails(t) /\ UNCHANGED auditLog
    BY <1>1, <1>2, FailMoves DEF WriteRecord
  <1>3. CASE /\ auditLog' = Append(auditLog, [sequence |-> request[t].sequence, execution |-> Execution(t)])
             /\ RequestAt(t, "sync") /\ UNCHANGED disturbed
    <2>1. PICK at \in HttpSteps : at = "sync"
      BY DEF HttpSteps, DoneSteps
    <2>2. PICK n \in Nat : n = request[t].sequence
      BY <1>1 DEF HttpRequestStates
    <2>3. PICK m : m = Going(t, at, n)
      OBVIOUS
    <2>4. request' = [request EXCEPT ![t] = m]
      BY <1>1, <1>3, <2>1, <2>2, <2>3 DEF Going, HttpRequestStates, RequestAt
    <2>5. /\ m \in HttpRequestStates /\ m.at = "sync" /\ m.kind = request[t].kind
          /\ DeedOf(m) = DeedOf(request[t]) /\ m.number = request[t].number /\ PathFits(request[t])
      BY <2>1, <2>3, GoesOn
    <2>6. PathFits(m)
      BY <1>1, <2>5 DEF PathFits
    <2>7. PICK line : line = [sequence |-> request[t].sequence, execution |-> request[t].number]
      OBVIOUS
    <2>8. auditLog' = Append(auditLog, line)
      BY <1>3, <2>7 DEF Execution
    <2>9. UNCHANGED <<received, remembered, executions, running, answers, disturbed>>
      BY <1>3 DEF WriteRecord
    <2> QED
      BY <1>1, <2>4, <2>5, <2>6, <2>7, <2>8, <2>9, RecordMoves
  <1> QED
    BY <1>2, <1>3 DEF WriteRecord

LEMMA SyncLogKeeps ==
    ASSUME HttpInv, NEW t \in Requesters, SyncLog(t)
    PROVE  HttpInv'
  <1>1. /\ request[t] \in HttpRequestStates /\ request[t].at = "sync"
        /\ request \in [Requesters -> HttpRequestStates]
    BY DEF HttpInv, HttpTypes, SyncLog
  <1>2. CASE AppendFails(t)
    BY <1>1, <1>2, FailMoves DEF SyncLog
  <1>3. CASE RequestAt(t, "check") /\ UNCHANGED disturbed
    <2>1. PICK at \in HttpSteps : at = "check"
      BY DEF HttpSteps, DoneSteps
    <2>2. PICK n \in Nat : n = request[t].sequence
      BY <1>1 DEF HttpRequestStates
    <2>3. PICK m : m = Going(t, at, n)
      OBVIOUS
    <2>4. request' = [request EXCEPT ![t] = m]
      BY <1>1, <1>3, <2>1, <2>2, <2>3 DEF Going, HttpRequestStates, RequestAt
    <2> QED
      BY <1>1, <1>3, <2>1, <2>3, <2>4, LogStepKeeps DEF SyncLog
  <1> QED
    BY <1>2, <1>3 DEF SyncLog

LEMMA CheckLogKeeps ==
    ASSUME HttpInv, NEW t \in Requesters, CheckLog(t)
    PROVE  HttpInv'
  <1>1. /\ request[t] \in HttpRequestStates /\ request[t].at = "check"
        /\ request \in [Requesters -> HttpRequestStates]
    BY DEF HttpInv, HttpTypes, CheckLog
  <1>2. CASE AppendFails(t)
    BY <1>1, <1>2, FailMoves DEF CheckLog
  <1>3. CASE /\ RequestAt(t, IF request[t].kind = "POST" THEN "answer" ELSE "remember")
             /\ UNCHANGED disturbed
    <2>1. PICK at \in HttpSteps : at = IF request[t].kind = "POST" THEN "answer" ELSE "remember"
      BY DEF HttpSteps, DoneSteps
    <2>2. PICK n \in Nat : n = request[t].sequence
      BY <1>1 DEF HttpRequestStates
    <2>3. PICK m : m = Going(t, at, n)
      OBVIOUS
    <2>4. request' = [request EXCEPT ![t] = m]
      BY <1>1, <1>3, <2>1, <2>2, <2>3 DEF Going, HttpRequestStates, RequestAt
    <2> QED
      BY <1>1, <1>3, <2>1, <2>3, <2>4, LogStepKeeps DEF CheckLog
  <1> QED
    BY <1>2, <1>3 DEF CheckLog

\* Nothing is at work once the server is dead, and nothing is remembered.
LEMMA ServerDeathKeeps ==
    ASSUME HttpInv, ServerDeath
    PROVE  HttpInv'
  <1>1. /\ request' = [t \in Requesters |-> NoRequest] /\ running' = FALSE
        /\ remembered' = [k \in HttpMethods |-> <<>>] /\ received' = received
        /\ auditLog' = auditLog /\ executions' = executions /\ answers' = answers
        /\ disturbed' = disturbed
    BY DEF ServerDeath
  <1>2. /\ \A t \in Requesters : request'[t] = NoRequest
        /\ NoRequest \in HttpRequestStates /\ NoRequest.at = "idle"
        /\ ~AtWork(NoRequest) /\ ~IsDone(NoRequest) /\ ~IsKept(NoRequest) /\ ~IsLogged(NoRequest)
    BY <1>1, NoRequestFits DEF NoRequest
  <1>3. \A k \in HttpMethods : remembered'[k] = <<>> /\ Len(remembered'[k]) = 0
    BY <1>1
  <1>4. HttpTypes'
    <2>1. remembered' \in [HttpMethods -> Seq(KeptAnswers)]
      BY <1>1
    <2>2. \A k \in HttpMethods : Len(remembered'[k]) <= MaxRemembered
      BY <1>3, HttpAssumption
    <2>3. request' \in [Requesters -> HttpRequestStates]
      BY <1>1, <1>2
    <2> QED
      BY <1>1, <2>1, <2>2, <2>3 DEF HttpInv, HttpTypes
  <1>5. \A t \in Requesters : PathFits(request[t])'
    BY <1>2 DEF PathFits
  <1>6. DeedsFit'
    BY <1>1, <1>2, <1>3 DEF HttpInv, DeedsFit
  <1>7. ASSUME NEW slot \in HttpMethods \X HttpKeys, slot \notin disturbed'
        PROVE  SlotFits(slot)'
    <2>1. \A e, o \in executions : e.slot = slot /\ o.slot = slot => e = o
      BY <1>1, <1>7 DEF HttpInv, SlotFits
    <2> QED
      BY <1>1, <1>2, <2>1 DEF SlotFits
  <1>8. LogFits'
    <2>1. \A n : Recorded(n)' <=> Recorded(n)
      BY <1>1 DEF Recorded
    <2>2. DOMAIN remembered'["PUT"] = {}
      BY <1>3 DEF HttpMethods
    <2> QED
      BY <1>1, <1>2, <2>1, <2>2 DEF HttpInv, LogFits, LogSteps
  <1> QED
    BY <1>4, <1>5, <1>6, <1>7, <1>8 DEF HttpInv

LEMMA InitHttpInv == HttpInit => HttpInv
  <1> SUFFICES ASSUME HttpInit PROVE HttpInv
    OBVIOUS
  <1>1. /\ request = [t \in Requesters |-> NoRequest] /\ received = 0 /\ auditLog = <<>>
        /\ remembered = [k \in HttpMethods |-> <<>>] /\ executions = {} /\ answers = {}
    BY DEF HttpInit
  <1>2. /\ \A t \in Requesters : request[t] = NoRequest
        /\ NoRequest \in HttpRequestStates /\ NoRequest.at = "idle"
        /\ ~AtWork(NoRequest) /\ ~IsDone(NoRequest) /\ ~IsKept(NoRequest) /\ ~IsLogged(NoRequest)
    BY <1>1, NoRequestFits DEF NoRequest
  <1>3. \A k \in HttpMethods : remembered[k] = <<>> /\ Len(remembered[k]) = 0
    BY <1>1
  <1>4. HttpTypes
    <2>1. remembered \in [HttpMethods -> Seq(KeptAnswers)] /\ auditLog \in Seq(LogRecords)
      BY <1>1
    <2>2. \A k \in HttpMethods : Len(remembered[k]) <= MaxRemembered
      BY <1>3, HttpAssumption
    <2>3. request \in [Requesters -> HttpRequestStates]
      BY <1>1, <1>2
    <2> QED
      BY <1>1, <2>1, <2>2, <2>3 DEF HttpTypes
  <1>5. \A t \in Requesters : PathFits(request[t])
    BY <1>2 DEF PathFits
  <1>6. DeedsFit
    BY <1>1, <1>2, <1>3 DEF DeedsFit
  <1>7. \A slot : SlotFits(slot)
    BY <1>1, <1>2 DEF SlotFits
  <1>8. LogFits
    <2>1. DOMAIN remembered["PUT"] = {} /\ DOMAIN auditLog = {}
      BY <1>1, <1>3 DEF HttpMethods
    <2> QED
      BY <1>1, <1>2, <2>1 DEF LogFits, LogSteps
  <1> QED
    BY <1>4, <1>5, <1>6, <1>7, <1>8 DEF HttpInv

LEMMA NextHttpInv == HttpInv /\ [HttpNext]_httpVars => HttpInv'
  <1> SUFFICES ASSUME HttpInv, [HttpNext]_httpVars PROVE HttpInv'
    OBVIOUS
  <1>1. CASE UNCHANGED httpVars
    <2>1. /\ request' = request /\ received' = received /\ remembered' = remembered
          /\ auditLog' = auditLog /\ running' = running /\ executions' = executions
          /\ answers' = answers /\ disturbed' = disturbed
      BY <1>1 DEF httpVars
    <2>2. HttpTypes' /\ \A t \in Requesters : PathFits(request[t])'
      BY <2>1 DEF HttpInv, HttpTypes, PathFits
    <2>3. DeedsFit'
      BY <2>1 DEF HttpInv, DeedsFit
    <2>4. \A slot : SlotFits(slot)' <=> SlotFits(slot)
      BY <2>1 DEF SlotFits, KeyKept, Entries
    <2>5. LogFits'
      BY <2>1 DEF HttpInv, LogFits, Recorded
    <2> QED
      BY <2>1, <2>2, <2>3, <2>4, <2>5 DEF HttpInv
  <1>2. CASE ServerDeath
    BY <1>2, ServerDeathKeeps
  <1>3. ASSUME NEW t \in Requesters, NEW method \in HttpMethods, NEW key \in RequestKeys,
               NEW content \in Contents, NEW separated \in BOOLEAN,
               Receive(t, method, key, content, separated)
        PROVE  HttpInv'
    BY <1>3, ReceiveKeeps
  <1>4. ASSUME NEW t \in Requesters,
               \/ RememberedRequest(t) \/ NewRequest(t) \/ TakePermit(t) \/ HandleMessage(t)
               \/ UploadFile(t) \/ Remember(t) \/ AnswerRequest(t) \/ AppendBegin(t)
               \/ WriteRecord(t) \/ SyncLog(t) \/ CheckLog(t)
        PROVE  HttpInv'
    BY <1>4, RememberedRequestKeeps, NewRequestKeeps, TakePermitKeeps, ExecutesKeep, RememberKeeps,
       AnswerRequestKeeps, AppendBeginKeeps, WriteRecordKeeps, SyncLogKeeps, CheckLogKeeps
  <1> QED
    BY <1>1, <1>2, <1>3, <1>4 DEF HttpNext

LEMMA HttpInvHolds == HttpSpec => []HttpInv
  BY InitHttpInv, NextHttpInv, PTL DEF HttpSpec
-----------------------------------------------------------------------------
(* The theorems.                                                             *)

\* Whenever nobody is inside a repair the project holds the tree that was last
\* accepted, a session keeps its budget of attempts, and the bytes under a patch
\* that was not accepted are backed up, but for the faults and overlaps each names.
THEOREM RepairsSoundHolds == RepairSpec => [](RepairTypeOK /\ RepairsSound)
  BY RepairInvHolds, RepairInvProperties, PTL

\* A package that is installed, found or restored is whole, unless a removal or a
\* death met it.
THEOREM PackagesSoundHolds == PackageSpec => []PackagesSound
  BY PackInvHolds, PackInvProperties, PTL

\* The three files of a worker's credentials are of one bundle, and the server
\* starts only on such, unless two applications overlapped or one died.
THEOREM OnlyOverlapsMixFilesHolds == RotationSpec => []OnlyOverlapsMixFiles
  BY RotationInvHolds, RotationInvProperties, PTL

\* The two halves of a key pair are of one generation, and a signature fits its
\* public key, unless a generator overlapped or died.
THEOREM PairsMatchHolds == PairSpec => []PairsMatch
  BY PairInvHolds, PairInvProperties, PTL

\* A revocation that was saved stays, an active identity has its key file, and no
\* command that was done is forgotten, but for the commands that overlap or die.
THEOREM TrustKeptHolds == TrustSpec => [](RevocationsHold /\ TrustedKeysThere /\ NothingForgotten)
  <1>1. TrustInv => RevocationsHold /\ TrustedKeysThere /\ NothingForgotten
    BY DEF TrustInv
  <1> QED
    BY <1>1, TrustInvHolds, PTL

\* One key signs every receipt of the gate, only a death blocks the gate, and a
\* receipt that was issued is not lost, but for the races and failures named.
THEOREM GateSoundHolds == GateSpec => []GateSound
  <1>1. OneKey /\ OnlyDeathBlocksTheGate /\ IssuedStays => GateSound
    BY DEF GateSound
  <1> QED
    BY <1>1, GateInvHolds, GateInvProperties, PTL

\* A key is executed once and answered with that execution, unless it overlapped
\* itself, was evicted or could not be recorded; and what was answered is in the
\* audit log, whose numbers have no gap.
THEOREM RequestsSoundHolds == HttpSpec => [](KeysHold /\ AnsweredIsRecorded)
  BY HttpInvHolds, HttpInvProperties, PTL

\* Every step of the host's stores is a step of one store, or of none: the
\* composition implements the specification of each.
THEOREM HostImplementsStores ==
    HostSpec => /\ RepairSpec /\ TransferSpec /\ DeliverySpec
                /\ PackageSpec /\ RotationSpec
                /\ GateSpec /\ TrustSpec /\ PairSpec /\ HttpSpec
  <1>1. HostInit => /\ RepairInit /\ TransferInit /\ DeliveryInit
                    /\ PackageInit /\ RotationInit
                    /\ GateInit /\ TrustInit /\ PairInit /\ HttpInit
    BY DEF HostInit
  <1>2. [HostNext]_hostVars =>
            /\ [RepairNext]_repairVars /\ [TransferNext]_transferVars
            /\ [DeliveryNext]_deliveryVars /\ [PackageNext]_packVars
            /\ [RotationNext]_rotVars /\ [GateNext]_gateVars /\ [TrustNext]_trustVars
            /\ [PairNext]_pairVars /\ [HttpNext]_httpVars
    BY DEF HostNext, hostVars, RepairMoves, TransferMoves, DeliveryMoves, PackageMoves,
           RotationMoves, GateMoves, TrustMoves, PairMoves, HttpMoves
  <1> QED
    BY <1>1, <1>2, PTL DEF HostSpec, RepairSpec, TransferSpec, DeliverySpec, PackageSpec,
                           RotationSpec, GateSpec, TrustSpec, PairSpec, HttpSpec

\* So whatever moves, the trees under repair and the installed packages are whole
\* or what a caller was told they are, ...
COROLLARY HostFilesSound == HostSpec => []FilesSound
  <1>1. RepairsSound /\ PackagesSound => FilesSound
    BY DEF FilesSound
  <1> QED
    BY <1>1, HostImplementsStores, RepairsSoundHolds, PackagesSoundHolds, PTL

\* ... no call that finds a package installed leaves it with files missing, ...
COROLLARY HostInstalledIsWhole == HostSpec => InstalledIsWhole
  BY HostImplementsStores, InstalledIsWholeHolds

\* ... credentials, key pairs and the trust store hold together, ...
COROLLARY HostCredentialsSound == HostSpec => []CredentialsSound
  <1>1. /\ OnlyOverlapsMixFiles /\ PairsMatch
        /\ RevocationsHold /\ TrustedKeysThere /\ NothingForgotten
        => CredentialsSound
    BY DEF CredentialsSound
  <1> QED
    BY <1>1, HostImplementsStores, OnlyOverlapsMixFilesHolds, PairsMatchHolds, TrustKeptHolds, PTL

\* ... what the gate and the HTTP server told a caller stays true, ...
COROLLARY HostServersSound == HostSpec => []ServersSound
  <1>1. GateSound /\ KeysHold /\ AnsweredIsRecorded => ServersSound
    BY DEF ServersSound
  <1> QED
    BY <1>1, HostImplementsStores, GateSoundHolds, RequestsSoundHolds, PTL

\* ... uploads that were acknowledged stay, and only races deliver what was not
\* validated, ...
COROLLARY HostUploadsAndDeliveries ==
    HostSpec => [](/\ OneActiveSession /\ AcknowledgedUploadsStay /\ CompletionFollowsTheObject
                   /\ OnlyCutWorkIsHalfDone
                   /\ TerminatedStaysRemoved /\ OnlyRacesDeliverUnvalidated)
  BY HostImplementsStores, OneActiveSessionHolds, AcknowledgedUploadsStayHolds,
     CompletionFollowsTheObjectHolds, OnlyCutWorkIsHalfDoneHolds, TerminatedStaysRemovedHolds,
     OnlyRacesDeliverUnvalidatedHolds, PTL

\* ... and every store has the values its code can give it.
COROLLARY HostTypeCorrect == HostSpec => []StoresTypeOK
  <1>1. RepairTypeOK /\ TransferTypeOK /\ DeliveryTypeOK => StoresTypeOK
    BY DEF StoresTypeOK
  <1> QED
    BY <1>1, HostImplementsStores, RepairsSoundHolds, TransferTypeCorrect, DeliveryTypeCorrect, PTL
=============================================================================
