-------------------------- MODULE FleetQueueProofs --------------------------
(* Theorems about FleetQueue, for any number of jobs and clients and any    *)
(* lease and delay.                                                        *)
EXTENDS FleetQueue, TLAPS

-----------------------------------------------------------------------------
(* What the table operators return.                                        *)

LEMMA BoundsFacts == /\ LongOver \in Int
                     /\ LongOver < 0
                     /\ LongOver <= LeaseTime
                     /\ \A a \in 0 .. MaxDelay : LeaseTime - a \in LongOver .. LeaseTime
  BY QueueAssumption DEF LongOver

LEMMA NullFacts == /\ NoRow \in Row
                   /\ Idle \in Call
                   /\ NoJob \in Holding
  BY QueueAssumption, BoundsFacts
     DEF NoRow, Row, States, Idle, Call, Calls, Finishes, NoJob, Holding

LEMMA UnleasedType ==
    ASSUME NEW row \in Row, NEW s \in States
    PROVE  Unleased(row, s) \in Row
  <1> DEFINE r == [row EXCEPT !.state = s, !.owner = None]
  <1>1. r \in Row
    BY DEF Row
  <1>2. Unleased(row, s) = [r EXCEPT !.lease = 0]
    BY DEF Unleased, Row
  <1>3. 0 \in LongOver .. LeaseTime
    BY BoundsFacts, QueueAssumption
  <1> HIDE DEF r
  <1> QED
    BY <1>1, <1>2, <1>3 DEF Row

LEMMA RetryStateType ==
    ASSUME NEW row, NEW k
    PROVE  RetryState(row, k) \in {"QUEUED", "FAILED"}
  BY DEF RetryState

LEMMA SweptType ==
    ASSUME NEW j \in [Keys -> Row], NEW age
    PROVE  RequeueExpired(j, age) \in [Keys -> Row]
  BY UnleasedType, RetryStateType DEF RequeueExpired, States

LEMMA LeasedType ==
    ASSUME NEW row \in Row, NEW c \in Clients, NEW age \in 0 .. MaxDelay
    PROVE  Leased(row, c, age) \in Row
  <1> DEFINE q == [row EXCEPT !.attempts = @ + 1]
             r == [q EXCEPT !.lease = LeaseTime - age]
  <1>1. q \in Row
    BY DEF Row
  <1>2. r \in Row
    <2> HIDE DEF q
    <2> QED
      BY <1>1, BoundsFacts DEF Row
  <1>3. Leased(row, c, age) = [r EXCEPT !.state = "LEASED", !.owner = OwnerOf[c]]
    BY DEF Leased, Row
  <1>4. OwnerOf[c] \in Owners /\ "LEASED" \in States
    BY QueueAssumption DEF States
  <1> HIDE DEF r
  <1> QED
    BY <1>2, <1>3, <1>4 DEF Row

LEMMA AgedType ==
    ASSUME NEW row \in Row
    PROVE  Aged(row) \in Row
  BY BoundsFacts, QueueAssumption DEF Aged, Row

-----------------------------------------------------------------------------
(* Type correctness.                                                       *)

LEMMA InitTypeOK == Init => TypeOK
  BY NullFacts DEF Init, TypeOK

LEMMA BeginTypeOK ==
    ASSUME TypeOK, NEW c \in Clients, BeginCall(c)
    PROVE  TypeOK'
  <1>1. \E op \in Calls, k \in Keys \cup {None} : Begin(c, op, k)
    <2>1. held[c].key \in Keys \cup {None}
      BY DEF TypeOK, Holding
    <2> QED
      BY <2>1 DEF BeginCall, BeginEnqueue, BeginReconcile, BeginClaim,
                  BeginHeartbeat, BeginFinish, Calls, Finishes
  <1>2. PICK op \in Calls, k \in Keys \cup {None} : Begin(c, op, k)
    BY <1>1
  <1> DEFINE older == IF op = "enqueue" THEN Present(jobs) ELSE {}
             i == [Idle EXCEPT !.op = op, !.key = k]
  <1>3. older \in SUBSET Keys
    BY DEF Present
  <1>4. i \in Call
    BY NullFacts DEF Call
  <1>5. [Idle EXCEPT !.op = op, !.key = k, !.older = older] = [i EXCEPT !.older = older]
    BY DEF Idle
  <1>6. [i EXCEPT !.older = older] \in Call
    <2> HIDE DEF i, older
    <2> QED
      BY <1>3, <1>4 DEF Call
  <1> QED
    BY <1>2, <1>5, <1>6 DEF Begin, TypeOK

LEMMA ReturnType ==
    ASSUME TypeOK, NEW c \in Clients, Return(c)
    PROVE  call' \in [Clients -> Call]
  BY NullFacts DEF Return, TypeOK

LEMMA SaveType ==
    ASSUME TypeOK, NEW c \in Clients, Save(c)
    PROVE  call' \in [Clients -> Call]
  <1>1. call[c] \in Call /\ 0 \in 0 .. MaxDelay
    BY QueueAssumption DEF TypeOK
  <1> DEFINE s == [call[c] EXCEPT !.phase = "saving", !.age = 0]
  <1>2. s \in Call
    BY <1>1 DEF Call
  <1>3. call' = [call EXCEPT ![c] = [s EXCEPT !.older = {}]]
    BY DEF Save, TypeOK, Call
  <1>4. [s EXCEPT !.older = {}] \in Call
    <2> HIDE DEF s
    <2> QED
      BY <1>2 DEF Call
  <1> QED
    BY <1>3, <1>4 DEF TypeOK

LEMMA SaveClaimType ==
    ASSUME TypeOK, NEW c \in Clients, NEW k \in Keys \cup {None}, NEW n \in Nat,
           SaveClaim(c, k, n)
    PROVE  call' \in [Clients -> Call]
  <1> DEFINE s == [Idle EXCEPT !.op = "claim", !.phase = "saving"]
             t == [s EXCEPT !.key = k, !.attempt = n]
  <1>1. s \in Call
    BY NullFacts DEF Call, Calls
  <1>2. t \in Call
    <2> HIDE DEF s
    <2> QED
      BY <1>1 DEF Call
  <1>3. call' = [call EXCEPT ![c] = t]
    BY DEF SaveClaim, Idle
  <1> HIDE DEF t
  <1> QED
    BY <1>2, <1>3 DEF TypeOK

\* Storing a row of the right type under any key keeps the table well typed.
LEMMA PutRowType ==
    ASSUME NEW j \in [Keys -> Row], NEW k, NEW row,
           k \in Keys => row \in Row
    PROVE  [j EXCEPT ![k] = row] \in [Keys -> Row]
  OBVIOUS

LEMMA CommitTypeOK ==
    ASSUME TypeOK, NEW c \in Clients, CommitCall(c)
    PROVE  TypeOK'
  <1> DEFINE k == call[c].key
             age == call[c].age
             swept == RequeueExpired(jobs, age)
  <1>0. /\ age \in 0 .. MaxDelay
        /\ k \in Keys => jobs[k] \in Row
        /\ swept \in [Keys -> Row]
        /\ jobs \in [Keys -> Row]
        /\ held \in [Clients -> Holding]
    BY SweptType DEF TypeOK, Call
  <1>1. CASE CommitEnqueue(c)
    <2>1. [NoRow EXCEPT !.state = "QUEUED", !.older = call[c].older] \in Row
      <3>1. call[c].older \in SUBSET Keys /\ "QUEUED" \in States
        BY DEF TypeOK, Call, States
      <3> QED
        BY <3>1, NullFacts DEF Row
    <2>2. jobs' \in [Keys -> Row]
      BY <1>0, <1>1, <2>1, PutRowType DEF CommitEnqueue
    <2>3. call' \in [Clients -> Call]
      BY <1>1, ReturnType, SaveType DEF CommitEnqueue
    <2> QED
      BY <1>0, <1>1, <2>2, <2>3 DEF TypeOK, CommitEnqueue
  <1>2. CASE CommitClaim(c)
    <2>1. CASE \E m \in First(swept, c) :
                  /\ jobs' = [swept EXCEPT ![m] = Leased(swept[m], c, age)]
                  /\ SaveClaim(c, m, swept[m].attempts + 1)
      <3>1. PICK m \in First(swept, c) :
                  /\ jobs' = [swept EXCEPT ![m] = Leased(swept[m], c, age)]
                  /\ SaveClaim(c, m, swept[m].attempts + 1)
        BY <2>1
      <3>2. m \in Keys /\ swept[m] \in Row
        BY <1>0 DEF First, Ready
      <3>3. swept[m].attempts + 1 \in Nat
        BY <3>2 DEF Row
      <3>4. jobs' \in [Keys -> Row]
        BY <1>0, <3>1, <3>2, LeasedType, PutRowType
      <3>5. call' \in [Clients -> Call]
        BY <3>1, <3>2, <3>3, SaveClaimType
      <3> QED
        BY <1>0, <1>2, <3>4, <3>5 DEF TypeOK, CommitClaim
    <2>2. CASE /\ jobs' = swept
               /\ IF ExpiredKeys(jobs, age) = {} THEN Return(c)
                                                 ELSE SaveClaim(c, None, 0)
      <3>1. call' \in [Clients -> Call]
        BY <2>2, ReturnType, SaveClaimType
      <3> QED
        BY <1>0, <1>2, <2>2, <3>1 DEF TypeOK, CommitClaim
    <2> QED
      BY <1>2, <2>1, <2>2 DEF CommitClaim
  <1>3. CASE CommitHeartbeat(c)
    <2>1. k \in Keys => [jobs[k] EXCEPT !.lease = LeaseTime - age] \in Row
      BY <1>0, BoundsFacts DEF Row
    <2>2. jobs' = [jobs EXCEPT ![k] = [jobs[k] EXCEPT !.lease = LeaseTime - age]]
      BY <1>3 DEF CommitHeartbeat
    <2>3. jobs' \in [Keys -> Row]
      BY <1>0, <2>1, <2>2, PutRowType
    <2> QED
      BY <1>0, <1>3, <2>3, SaveType DEF TypeOK, CommitHeartbeat
  <1>4. CASE CommitFinish(c)
    <2>1. PICK op \in Finishes :
             jobs' = [jobs EXCEPT ![k] =
                         Unleased(jobs[k], FinishState(op, jobs[k], k))]
      BY <1>4 DEF CommitFinish
    <2>2. FinishState(op, jobs[k], k) \in States
      BY RetryStateType DEF FinishState, Finishes, States
    <2>3. jobs' \in [Keys -> Row]
      BY <1>0, <2>1, <2>2, UnleasedType, PutRowType
    <2> QED
      BY <1>0, <1>4, <2>3, SaveType DEF TypeOK, CommitFinish
  <1>5. CASE CommitReconcile(c)
    <2>1. call' \in [Clients -> Call]
      BY <1>5, ReturnType, SaveType DEF CommitReconcile
    <2> QED
      BY <1>0, <1>5, <2>1 DEF TypeOK, CommitReconcile
  <1>6. CASE RefuseHeartbeat(c)
    BY <1>6, ReturnType DEF RefuseHeartbeat, TypeOK
  <1>7. CASE RefuseFinish(c)
    BY <1>7, ReturnType, NullFacts DEF RefuseFinish, TypeOK
  <1> QED
    BY <1>1, <1>2, <1>3, <1>4, <1>5, <1>6, <1>7 DEF CommitCall

LEMMA EndTypeOK ==
    ASSUME TypeOK, NEW c \in Clients, EndCall(c)
    PROVE  TypeOK'
  <1>1. HeldAfter(c) \in Holding
    BY NullFacts DEF HeldAfter, TypeOK, Call, Holding
  <1>2. CASE SaveMirror(c)
    BY <1>1, <1>2, ReturnType DEF SaveMirror, TypeOK
  <1>3. CASE SaveFails(c)
    BY <1>3, ReturnType DEF SaveFails, TypeOK
  <1>4. CASE LockTimeout(c)
    BY <1>4, ReturnType DEF LockTimeout, TypeOK
  <1>5. CASE Crash(c)
    BY <1>5, NullFacts DEF Crash, TypeOK
  <1> QED
    BY <1>2, <1>3, <1>4, <1>5 DEF EndCall

LEMMA TickTypeOK ==
    ASSUME TypeOK, Tick
    PROVE  TypeOK'
  <1>1. jobs' \in [Keys -> Row]
    BY AgedType DEF Tick, TypeOK
  <1>2. ASSUME NEW c \in Clients, IsWaiting(c)
        PROVE  [call[c] EXCEPT !.age = @ + 1] \in Call
    <2>1. call[c] \in Call /\ call[c].age + 1 \in 0 .. MaxDelay
      BY <1>2, QueueAssumption DEF TypeOK, Call, Tick
    <2> QED
      BY <2>1 DEF Call
  <1>3. call' \in [Clients -> Call]
    BY <1>2 DEF Tick, TypeOK
  <1> QED
    BY <1>1, <1>3 DEF Tick, TypeOK

LEMMA NextTypeOK == TypeOK /\ [Next]_vars => TypeOK'
  <1> SUFFICES ASSUME TypeOK, [Next]_vars
               PROVE  TypeOK'
    OBVIOUS
  <1>1. CASE UNCHANGED vars
    BY <1>1 DEF vars, TypeOK
  <1> QED
    BY <1>1, BeginTypeOK, CommitTypeOK, EndTypeOK, TickTypeOK DEF Next

\* Every reachable row, call and holding has the shape the code gives it; in
\* particular leases and the ages of waiting calls stay within their bounds.
THEOREM TypeCorrect == Spec => []TypeOK
  BY InitTypeOK, NextTypeOK, PTL DEF Spec

-----------------------------------------------------------------------------
(* What one step does to a row, and to what a client has been given.       *)

RowKept(k) ==
    /\ jobs'[k].state = jobs[k].state
    /\ jobs'[k].attempts = jobs[k].attempts
    /\ jobs'[k].owner = jobs[k].owner

Accepted(k) ==
    /\ jobs[k].state = "ABSENT"
    /\ jobs'[k].state = "QUEUED"
    /\ jobs'[k].attempts = 0

\* The lease is over: finished by its owner, or swept.
Freed(k) ==
    /\ jobs[k].state = "LEASED"
    /\ jobs'[k].state \in {"QUEUED", "COMPLETE", "FAILED"}
    /\ jobs'[k].state = "QUEUED" => HasBudget(jobs[k], k)
    /\ jobs'[k].attempts = jobs[k].attempts

ClaimedBy(c, k) ==
    /\ jobs[k].state = "QUEUED" \/ (jobs[k].state = "LEASED" /\ HasBudget(jobs[k], k))
    /\ jobs'[k].state = "LEASED"
    /\ jobs'[k].owner = OwnerOf[c]
    /\ jobs'[k].attempts = jobs[k].attempts + 1
    /\ Given(c)' = [key |-> k, attempt |-> jobs[k].attempts + 1]

RowStep == \A k \in Keys : \/ RowKept(k)
                           \/ Accepted(k)
                           \/ Freed(k)
                           \/ \E c \in Clients : ClaimedBy(c, k)

GivenStep == \A c \in Clients : \/ Given(c)' \in {Given(c), NoJob}
                                \/ \E k \in Keys : ClaimedBy(c, k)

\* How the parts of a pending call hang together.
CallInv ==
    \A c \in Clients :
        /\ call[c].op \in {"enqueue", "heartbeat"} \cup Finishes => call[c].key \in Keys
        /\ call[c].op \in {"heartbeat"} \cup Finishes => held[c].key = call[c].key
        /\ call[c].op = "claim" => held[c] = NoJob
        /\ call[c].op = "claim" /\ call[c].key = None => call[c].attempt = 0
        /\ held[c].key = None => held[c] = NoJob

\* What a client was given never runs ahead of the row, and is the row's
\* current attempt as long as the row names the client as its owner.
GivenInv ==
    \A c \in Clients :
        Given(c) # NoJob =>
            LET row == jobs[Given(c).key] IN
            /\ Given(c).key \in Keys
            /\ Given(c).attempt <= row.attempts
            /\ row.state = "LEASED" /\ row.owner = OwnerOf[c]
                  => Given(c).attempt = row.attempts

LEMMA UnleasedFields ==
    ASSUME NEW row \in Row, NEW s
    PROVE  /\ Unleased(row, s).state = s
           /\ Unleased(row, s).attempts = row.attempts
           /\ Unleased(row, s).owner = None
  BY DEF Unleased, Row

LEMMA LeasedFields ==
    ASSUME NEW row \in Row, NEW c, NEW age
    PROVE  /\ Leased(row, c, age).state = "LEASED"
           /\ Leased(row, c, age).attempts = row.attempts + 1
           /\ Leased(row, c, age).owner = OwnerOf[c]
  BY DEF Leased, Row

LEMMA SweptRow ==
    ASSUME NEW j \in [Keys -> Row], NEW age, NEW k \in Keys
    PROVE  /\ ~Expired(j[k], age) => RequeueExpired(j, age)[k] = j[k]
           /\ Expired(j[k], age) =>
                 /\ j[k].state = "LEASED"
                 /\ RequeueExpired(j, age)[k].state = RetryState(j[k], k)
                 /\ RequeueExpired(j, age)[k].attempts = j[k].attempts
  BY UnleasedFields DEF RequeueExpired, Expired

LEMMA SweepRowStep ==
    ASSUME TypeOK, NEW age, jobs' = RequeueExpired(jobs, age)
    PROVE  RowStep
  <1> SUFFICES ASSUME NEW k \in Keys
               PROVE  RowKept(k) \/ Freed(k)
    BY DEF RowStep
  <1>1. jobs \in [Keys -> Row]
    BY DEF TypeOK
  <1>2. CASE Expired(jobs[k], age)
    BY <1>1, <1>2, SweptRow DEF Freed, RetryState
  <1>3. CASE ~Expired(jobs[k], age)
    BY <1>1, <1>3, SweptRow DEF RowKept
  <1> QED
    BY <1>2, <1>3

LEMMA ClaimStep ==
    ASSUME TypeOK, NEW c \in Clients, NEW m \in Keys, NEW age,
           RequeueExpired(jobs, age)[m].state = "QUEUED",
           jobs' = [RequeueExpired(jobs, age) EXCEPT
                       ![m] = Leased(RequeueExpired(jobs, age)[m], c, age)],
           SaveClaim(c, m, RequeueExpired(jobs, age)[m].attempts + 1)
    PROVE  RowStep /\ ClaimedBy(c, m)
  <1> DEFINE swept == RequeueExpired(jobs, age)
  <1>1. jobs \in [Keys -> Row] /\ swept \in [Keys -> Row]
    BY SweptType DEF TypeOK
  <1>2. swept[m].attempts = jobs[m].attempts
    BY <1>1, SweptRow
  <1>3. /\ jobs'[m].state = "LEASED"
        /\ jobs'[m].attempts = swept[m].attempts + 1
        /\ jobs'[m].owner = OwnerOf[c]
    BY <1>1, LeasedFields
  <1>4. Given(c)' = [key |-> m, attempt |-> swept[m].attempts + 1]
    BY DEF SaveClaim, Given, TypeOK, Idle
  <1>5. jobs[m].state = "QUEUED" \/ (jobs[m].state = "LEASED" /\ HasBudget(jobs[m], m))
    BY <1>1, SweptRow DEF RetryState
  <1>6. ClaimedBy(c, m)
    BY <1>2, <1>3, <1>4, <1>5 DEF ClaimedBy
  <1>7. ASSUME NEW k \in Keys, k # m
        PROVE  RowKept(k) \/ Freed(k)
    <2>1. jobs'[k] = swept[k]
      BY <1>1, <1>7
    <2>2. CASE Expired(jobs[k], age)
      BY <1>1, <2>1, <2>2, SweptRow DEF Freed, RetryState
    <2>3. CASE ~Expired(jobs[k], age)
      BY <1>1, <2>1, <2>3, SweptRow DEF RowKept
    <2> QED
      BY <2>2, <2>3
  <1> QED
    BY <1>6, <1>7 DEF RowStep

LEMMA CommitSteps ==
    ASSUME TypeOK, CallInv, NEW c \in Clients, CommitCall(c)
    PROVE  RowStep /\ GivenStep
  <1> DEFINE k == call[c].key
             age == call[c].age
             swept == RequeueExpired(jobs, age)
  <1>0. jobs \in [Keys -> Row] /\ call \in [Clients -> Call] /\ held \in [Clients -> Holding]
    BY DEF TypeOK
  <1>others. ASSUME held' = held \/ held' = [held EXCEPT ![c] = NoJob],
                    NEW d \in Clients, d # c, call'[d] = call[d]
             PROVE  Given(d)' = Given(d)
    BY <1>others, <1>0 DEF Given
  <1>same. ASSUME jobs' = jobs
           PROVE  RowStep
    BY <1>same DEF RowStep, RowKept
  <1>1. CASE CommitEnqueue(c)
    <2>1. RowStep
      <3>1. CASE jobs' = jobs
        BY <3>1, <1>same
      <3>2. CASE /\ jobs[k].state = "ABSENT"
                 /\ jobs' = [jobs EXCEPT ![k] = [NoRow EXCEPT !.state = "QUEUED",
                                                              !.older = call[c].older]]
        BY <1>0, <3>2 DEF RowStep, RowKept, Accepted, NoRow
      <3> QED
        BY <1>1, <3>1, <3>2 DEF CommitEnqueue
    <2>2. GivenStep
      <3>1. /\ \A d \in Clients : d # c => call'[d] = call[d]
            /\ held' = held
            /\ call'[c].op # "claim" /\ call[c].op # "claim"
        BY <1>0, <1>1 DEF CommitEnqueue, Waiting, Return, Save, Idle, Call
      <3>2. Given(c)' = Given(c)
        BY <3>1 DEF Given
      <3> QED
        BY <1>others, <3>1, <3>2 DEF GivenStep
    <2> QED
      BY <2>1, <2>2
  <1>2. CASE CommitClaim(c)
    <2>1. CASE \E m \in First(swept, c) :
                  /\ jobs' = [swept EXCEPT ![m] = Leased(swept[m], c, age)]
                  /\ SaveClaim(c, m, swept[m].attempts + 1)
      <3>1. PICK m \in First(swept, c) :
                  /\ jobs' = [swept EXCEPT ![m] = Leased(swept[m], c, age)]
                  /\ SaveClaim(c, m, swept[m].attempts + 1)
        BY <2>1
      <3>2. m \in Keys /\ swept[m].state = "QUEUED"
        BY DEF First, Ready
      <3>3. RowStep /\ ClaimedBy(c, m)
        BY <3>1, <3>2, ClaimStep
      <3>4. \A d \in Clients : d # c => call'[d] = call[d]
        BY <1>0, <3>1 DEF SaveClaim
      <3> QED
        BY <1>2, <1>others, <3>2, <3>3, <3>4 DEF GivenStep, CommitClaim
    <2>2. CASE /\ jobs' = swept
               /\ IF ExpiredKeys(jobs, age) = {} THEN Return(c)
                                                 ELSE SaveClaim(c, None, 0)
      <3>1. RowStep
        BY <2>2, SweepRowStep
      <3>2. held' = held /\ held[c] = NoJob
        BY <1>2 DEF CommitClaim, Waiting, CallInv
      <3>3. Given(c)' = NoJob
        <4>1. CASE Return(c)
          BY <1>0, <3>2, <4>1 DEF Given, Return, Idle
        <4>2. CASE SaveClaim(c, None, 0)
          <5>1. call'[c].key = None /\ call'[c].attempt = 0
            BY <1>0, <4>2 DEF SaveClaim, Idle
          <5> QED
            BY <3>2, <5>1 DEF Given, NoJob
        <4> QED
          BY <2>2, <4>1, <4>2
      <3>4. \A d \in Clients : d # c => call'[d] = call[d]
        BY <1>0, <2>2 DEF SaveClaim, Return
      <3> QED
        BY <1>others, <3>1, <3>2, <3>3, <3>4 DEF GivenStep
    <2> QED
      BY <1>2, <2>1, <2>2 DEF CommitClaim
  <1>3. CASE CommitHeartbeat(c)
    <2>1. RowStep
      BY <1>0, <1>3 DEF CommitHeartbeat, RowStep, RowKept, Row
    <2>2. /\ \A d \in Clients : d # c => call'[d] = call[d]
          /\ held' = held
          /\ call'[c].op # "claim" /\ call[c].op # "claim"
      BY <1>0, <1>3 DEF CommitHeartbeat, Waiting, Save, Call
    <2>3. Given(c)' = Given(c)
      BY <2>2 DEF Given
    <2> QED
      BY <1>others, <2>1, <2>2, <2>3 DEF GivenStep
  <1>4. CASE CommitFinish(c)
    <2>1. PICK op \in Finishes :
             /\ Waiting(c, op)
             /\ jobs' = [jobs EXCEPT ![k] =
                            Unleased(jobs[k], FinishState(op, jobs[k], k))]
      BY <1>4 DEF CommitFinish
    <2>2. jobs[k].state = "LEASED" /\ k \in Keys
      BY <1>4, <2>1 DEF CommitFinish, Owns, CallInv, Waiting
    <2>3. /\ FinishState(op, jobs[k], k) \in {"QUEUED", "COMPLETE", "FAILED"}
          /\ FinishState(op, jobs[k], k) = "QUEUED" => HasBudget(jobs[k], k)
      BY DEF FinishState, Finishes, RetryState
    <2>4. Freed(k)
      BY <1>0, <2>1, <2>2, <2>3, UnleasedFields DEF Freed
    <2>5. RowStep
      BY <1>0, <2>1, <2>4 DEF RowStep, RowKept
    <2>6. /\ \A d \in Clients : d # c => call'[d] = call[d]
          /\ held' = held
          /\ call'[c].op # "claim" /\ call[c].op # "claim"
      BY <1>0, <1>4, <2>1 DEF CommitFinish, Waiting, Save, Call, Finishes
    <2>7. Given(c)' = Given(c)
      BY <2>6 DEF Given
    <2> QED
      BY <1>others, <2>5, <2>6, <2>7 DEF GivenStep
  <1>5. CASE CommitReconcile(c)
    <2>1. RowStep
      BY <1>5, SweepRowStep DEF CommitReconcile
    <2>2. /\ \A d \in Clients : d # c => call'[d] = call[d]
          /\ held' = held
          /\ call'[c].op # "claim" /\ call[c].op # "claim"
      BY <1>0, <1>5 DEF CommitReconcile, Waiting, Save, Return, Idle, Call
    <2>3. Given(c)' = Given(c)
      BY <2>2 DEF Given
    <2> QED
      BY <1>others, <2>1, <2>2, <2>3 DEF GivenStep
  <1>6. CASE RefuseHeartbeat(c) \/ RefuseFinish(c)
    <2>1. RowStep
      BY <1>6, <1>same DEF RefuseHeartbeat, RefuseFinish
    <2>2. /\ \A d \in Clients : d # c => call'[d] = call[d]
          /\ held' = held \/ held' = [held EXCEPT ![c] = NoJob]
          /\ call'[c].op # "claim" /\ call[c].op # "claim"
      BY <1>0, <1>6
         DEF RefuseHeartbeat, RefuseFinish, Waiting, Return, Idle, Call, Finishes
    <2>3. Given(c)' \in {Given(c), NoJob}
      BY <1>0, <2>2 DEF Given
    <2> QED
      BY <1>others, <2>1, <2>2, <2>3 DEF GivenStep
  <1> QED
    BY <1>1, <1>2, <1>3, <1>4, <1>5, <1>6 DEF CommitCall

LEMMA NextSteps == TypeOK /\ CallInv /\ [Next]_vars => RowStep /\ GivenStep
  <1> SUFFICES ASSUME TypeOK, CallInv, [Next]_vars
               PROVE  RowStep /\ GivenStep
    OBVIOUS
  <1>0. jobs \in [Keys -> Row] /\ call \in [Clients -> Call] /\ held \in [Clients -> Holding]
    BY DEF TypeOK
  <1>same. ASSUME jobs' = jobs
           PROVE  RowStep
    BY <1>same DEF RowStep, RowKept
  <1>1. ASSUME NEW c \in Clients, BeginCall(c)
        PROVE  RowStep /\ GivenStep
    <2>0. held[c].key \in Keys \cup {None}
      BY DEF TypeOK, Holding
    <2>1. PICK op \in Calls, k \in Keys \cup {None} : Begin(c, op, k)
      BY <1>1, <2>0 DEF BeginCall, BeginEnqueue, BeginReconcile, BeginClaim,
                        BeginHeartbeat, BeginFinish, Calls, Finishes
    <2>2. \A d \in Clients : Given(d)' = Given(d)
      BY <1>0, <2>1 DEF Begin, Given, Idle
    <2> QED
      BY <1>same, <2>1, <2>2 DEF Begin, GivenStep
  <1>2. ASSUME NEW c \in Clients, CommitCall(c)
        PROVE  RowStep /\ GivenStep
    BY <1>2, CommitSteps
  <1>3. ASSUME NEW c \in Clients, EndCall(c)
        PROVE  RowStep /\ GivenStep
    <2>1. jobs' = jobs /\ call'[c] = Idle
      BY <1>0, <1>3 DEF EndCall, SaveMirror, SaveFails, LockTimeout, Crash, Return
    <2>2. ASSUME NEW d \in Clients, d # c
          PROVE  Given(d)' = Given(d)
      BY <1>0, <1>3, <2>2
         DEF EndCall, SaveMirror, SaveFails, LockTimeout, Crash, Return, Given
    <2>3. Given(c)' = held'[c]
      BY <2>1 DEF Given, Idle
    <2>4. held'[c] \in {Given(c), NoJob}
      <3>1. CASE SaveMirror(c)
        BY <1>0, <3>1 DEF SaveMirror, HeldAfter, Given, Finishes
      <3>2. CASE SaveFails(c)
        BY <1>0, <3>2 DEF SaveFails, Given, CallInv
      <3>3. CASE LockTimeout(c)
        BY <1>0, <3>3 DEF LockTimeout, Given
      <3>4. CASE Crash(c)
        BY <1>0, <3>4 DEF Crash
      <3> QED
        BY <1>3, <3>1, <3>2, <3>3, <3>4 DEF EndCall
    <2> QED
      BY <1>same, <2>1, <2>2, <2>3, <2>4 DEF GivenStep
  <1>4. CASE Tick
    <2>1. RowStep
      BY <1>0, <1>4 DEF Tick, RowStep, RowKept, Aged, Row
    <2>2. \A c \in Clients : Given(c)' = Given(c)
      BY <1>0, <1>4 DEF Tick, Given, IsWaiting, Call
    <2> QED
      BY <2>1, <2>2 DEF GivenStep
  <1>5. CASE UNCHANGED vars
    BY <1>5, <1>same DEF vars, GivenStep, Given
  <1> QED
    BY <1>1, <1>2, <1>3, <1>4, <1>5 DEF Next

-----------------------------------------------------------------------------
(* The parts of a pending call stay consistent.                            *)

LEMMA InitCallInv == Init => CallInv
  BY DEF Init, CallInv, Idle, NoJob, Finishes

LEMMA NextCallInv == TypeOK /\ CallInv /\ [Next]_vars => CallInv'
  <1> SUFFICES ASSUME TypeOK, CallInv, [Next]_vars
               PROVE  CallInv'
    OBVIOUS
  <1>0. /\ call \in [Clients -> Call]
        /\ held \in [Clients -> Holding]
        /\ None \notin Keys
    BY QueueAssumption DEF TypeOK
  <1> DEFINE Good(d) ==
        /\ call[d].op \in {"enqueue", "heartbeat"} \cup Finishes => call[d].key \in Keys
        /\ call[d].op \in {"heartbeat"} \cup Finishes => held[d].key = call[d].key
        /\ call[d].op = "claim" => held[d] = NoJob
        /\ call[d].op = "claim" /\ call[d].key = None => call[d].attempt = 0
        /\ held[d].key = None => held[d] = NoJob
  <1>good. \A d \in Clients : Good(d)
    BY DEF CallInv
  <1>goal. (\A d \in Clients : Good(d)') => CallInv'
    BY DEF CallInv
  <1>other. ASSUME NEW d \in Clients, call'[d] = call[d], held'[d] = held[d]
            PROVE  Good(d)'
    BY <1>other, <1>good
  <1>idle. ASSUME NEW c \in Clients, call'[c] = Idle,
                  held'[c] = held[c] \/ held'[c] = NoJob
           PROVE  Good(c)'
    BY <1>idle, <1>good DEF Idle, NoJob, Finishes
  <1>1. ASSUME NEW c \in Clients, BeginCall(c)
        PROVE  CallInv'
    <2>1. PICK op \in Calls, k \in Keys \cup {None} :
             /\ Begin(c, op, k)
             /\ op \in {"enqueue", "heartbeat"} \cup Finishes => k \in Keys
             /\ op \in {"heartbeat"} \cup Finishes => held[c].key = k
             /\ op = "claim" => held[c] = NoJob
      <3>1. /\ held[c] # NoJob => held[c].key \in Keys
            /\ held[c].key \in Keys \cup {None}
        BY <1>0, <1>good DEF Holding
      <3> QED
        BY <1>1, <3>1 DEF BeginCall, BeginEnqueue, BeginReconcile, BeginClaim,
                          BeginHeartbeat, BeginFinish, Calls, Finishes
    <2>2. call'[c].op = op /\ call'[c].key = k /\ call'[c].attempt = 0
      BY <1>0, <2>1 DEF Begin, Idle
    <2>3. Good(c)'
      BY <1>good, <2>1, <2>2 DEF Begin
    <2>4. \A d \in Clients : d # c => Good(d)'
      BY <1>0, <1>other, <2>1 DEF Begin
    <2> QED
      BY <1>goal, <2>3, <2>4
  <1>2. ASSUME NEW c \in Clients, CommitCall(c)
        PROVE  CallInv'
    <2>1. \A d \in Clients : d # c => call'[d] = call[d] /\ held'[d] = held[d]
      BY <1>0, <1>2 DEF CommitCall, CommitEnqueue, CommitClaim, CommitHeartbeat,
         CommitFinish, CommitReconcile, RefuseHeartbeat, RefuseFinish,
         Return, Save, SaveClaim
    <2>2. CASE Return(c)
      <3>1. call'[c] = Idle
        BY <1>0, <2>2 DEF Return
      <3>2. held'[c] = held[c] \/ held'[c] = NoJob
        BY <1>0, <1>2 DEF CommitCall, CommitEnqueue, CommitClaim, CommitHeartbeat,
           CommitFinish, CommitReconcile, RefuseHeartbeat, RefuseFinish
      <3> QED
        BY <1>goal, <1>idle, <1>other, <2>1, <3>1, <3>2
    <2>3. CASE Save(c) /\ held' = held /\ call[c].op # "claim"
      <3>1. call'[c].op = call[c].op /\ call'[c].key = call[c].key
        BY <1>0, <2>3 DEF Save, Call
      <3>2. Good(c)'
        BY <1>good, <2>3, <3>1
      <3> QED
        BY <1>goal, <1>other, <2>1, <3>2
    <2>4. CASE CommitClaim(c)
      <3>1. held' = held /\ held[c] = NoJob
        BY <1>good, <2>4 DEF CommitClaim, Waiting
      <3>2. CASE \E k \in Keys : \E n : SaveClaim(c, k, n)
        <4>1. PICK k \in Keys : \E n : SaveClaim(c, k, n)
          BY <3>2
        <4>2. call'[c].op = "claim" /\ call'[c].key = k
          BY <1>0, <4>1 DEF SaveClaim, Idle
        <4>3. Good(c)'
          BY <1>0, <3>1, <4>2 DEF Finishes
        <4> QED
          BY <1>goal, <1>other, <2>1, <4>3
      <3>3. CASE SaveClaim(c, None, 0)
        <4>1. call'[c].op = "claim" /\ call'[c].key = None /\ call'[c].attempt = 0
          BY <1>0, <3>3 DEF SaveClaim, Idle
        <4>2. Good(c)'
          BY <1>0, <3>1, <4>1 DEF Finishes
        <4> QED
          BY <1>goal, <1>other, <2>1, <4>2
      <3> QED
        BY <2>2, <2>4, <3>2, <3>3 DEF CommitClaim, First, Ready
    <2> QED
      BY <1>2, <2>2, <2>3, <2>4 DEF CommitCall, CommitEnqueue, CommitHeartbeat,
         CommitFinish, CommitReconcile, RefuseHeartbeat, RefuseFinish, Waiting, Finishes
  <1>3. ASSUME NEW c \in Clients, EndCall(c)
        PROVE  CallInv'
    <2>1. \A d \in Clients : d # c => call'[d] = call[d] /\ held'[d] = held[d]
      BY <1>0, <1>3 DEF EndCall, SaveMirror, SaveFails, LockTimeout, Crash, Return
    <2>2. call'[c] = Idle
      BY <1>0, <1>3 DEF EndCall, SaveMirror, SaveFails, LockTimeout, Crash, Return
    <2>3. Good(c)'
      <3>1. CASE SaveMirror(c)
        <4>1. held'[c] = HeldAfter(c)
          BY <1>0, <3>1 DEF SaveMirror
        <4>2. HeldAfter(c).key = None => HeldAfter(c) = NoJob
          BY <1>good DEF HeldAfter, NoJob
        <4> QED
          BY <2>2, <4>1, <4>2 DEF Idle, Finishes
      <3>2. CASE ~SaveMirror(c)
        BY <1>0, <1>3, <1>idle, <2>2, <3>2
           DEF EndCall, SaveFails, LockTimeout, Crash
      <3> QED
        BY <3>1, <3>2
    <2> QED
      BY <1>goal, <1>other, <2>1, <2>3
  <1>4. CASE Tick
    <2>1. \A c \in Clients : /\ call'[c].op = call[c].op
                             /\ call'[c].key = call[c].key
                             /\ call'[c].attempt = call[c].attempt
      BY <1>0, <1>4 DEF Tick, Call
    <2>2. held' = held
      BY <1>4 DEF Tick
    <2> QED
      BY <1>good, <1>goal, <2>1, <2>2
  <1>5. CASE UNCHANGED vars
    BY <1>5, <1>good, <1>goal DEF vars
  <1> QED
    BY <1>1, <1>2, <1>3, <1>4, <1>5 DEF Next

\* A key nobody enqueued has not been attempted.
Untried == \A k \in Keys : jobs[k].state = "ABSENT" => jobs[k].attempts = 0

\* The reachable states the other arguments start from.
Shape == TypeOK /\ CallInv /\ Untried

LEMMA InitShape == Init => Shape
  BY InitTypeOK, InitCallInv DEF Shape, Untried, Init, NoRow

LEMMA NextShape == Shape /\ [Next]_vars => Shape'
  <1> SUFFICES ASSUME Shape, [Next]_vars
               PROVE  Shape'
    OBVIOUS
  <1>1. TypeOK' /\ CallInv'
    BY NextTypeOK, NextCallInv DEF Shape
  <1>2. Untried'
    BY NextSteps DEF Shape, Untried, RowStep, RowKept, Accepted, Freed, ClaimedBy
  <1> QED
    BY <1>1, <1>2 DEF Shape

LEMMA ShapeHolds == Spec => []Shape
  BY InitShape, NextShape, PTL DEF Spec

-----------------------------------------------------------------------------
(* The retry budget, and the life of a job.                                *)

LEMMA InitRetryBudget == Init => RetryBudget
  BY QueueAssumption DEF Init, RetryBudget, NoRow

LEMMA NextRetryBudget == Shape /\ RetryBudget /\ [Next]_vars => RetryBudget'
  <1> SUFFICES ASSUME Shape, RetryBudget, [Next]_vars, NEW k \in Keys
               PROVE  /\ jobs'[k].attempts <= MaxAttempts[k]
                      /\ jobs'[k].state = "QUEUED" => jobs'[k].attempts < MaxAttempts[k]
    BY DEF RetryBudget, HasBudget
  <1>1. /\ jobs[k].attempts \in Nat
        /\ MaxAttempts[k] \in Nat \ {0}
        /\ jobs[k].attempts <= MaxAttempts[k]
        /\ jobs[k].state = "QUEUED" => jobs[k].attempts < MaxAttempts[k]
    BY QueueAssumption DEF Shape, TypeOK, Row, RetryBudget, HasBudget
  <1>2. \/ RowKept(k) \/ Accepted(k) \/ Freed(k)
        \/ \E c \in Clients : ClaimedBy(c, k)
    BY NextSteps DEF Shape, RowStep
  <1> QED
    BY <1>1, <1>2 DEF RowKept, Accepted, Freed, ClaimedBy, HasBudget

\* A job is attempted at most max_attempts times, and only a job with attempts
\* left waits in the queue, for every schedule of callers, crashes and delays.
THEOREM RetryBudgetHolds == Spec => []RetryBudget
  <1>1. Init => Shape /\ RetryBudget
    BY InitShape, InitRetryBudget
  <1>2. (Shape /\ RetryBudget) /\ [Next]_vars => (Shape /\ RetryBudget)'
    BY NextShape, NextRetryBudget
  <1> QED
    BY <1>1, <1>2, PTL DEF Spec

LEMMA InitLifecycle == Init => Lifecycle!Init
  BY DEF Init, Lifecycle!Init, NoRow

LEMMA NextLifecycle ==
    Shape /\ RetryBudget /\ [Next]_vars => [Lifecycle!Next]_(Lifecycle!lifecycle)
  <1> SUFFICES ASSUME Shape, RetryBudget, [Next]_vars, NEW k \in Keys
               PROVE  Lifecycle!Step(k) \/ Lifecycle!Stay(k)
    BY DEF Lifecycle!Next
  <1> DEFINE status == [q \in Keys |-> jobs[q].state]
             tries  == [q \in Keys |-> jobs[q].attempts]
  <1>1. /\ status[k] = jobs[k].state
        /\ status'[k] = jobs'[k].state
        /\ tries[k] = jobs[k].attempts
        /\ tries'[k] = jobs'[k].attempts
    OBVIOUS
  <1>2. jobs[k].state = "QUEUED" => jobs[k].attempts < MaxAttempts[k]
    BY DEF RetryBudget, HasBudget
  <1>3. CASE RowKept(k)
    BY <1>1, <1>3 DEF RowKept, Lifecycle!Stay
  <1>4. CASE Accepted(k)
    BY <1>1, <1>4 DEF Accepted, Lifecycle!Step, Lifecycle!Accept, Lifecycle!From
  <1>5. CASE Freed(k)
    BY <1>1, <1>5 DEF Freed, HasBudget, Lifecycle!Step, Lifecycle!GiveBack,
                      Lifecycle!Settle, Lifecycle!From
  <1>6. CASE \E c \in Clients : ClaimedBy(c, k)
    BY <1>1, <1>2, <1>6 DEF ClaimedBy, HasBudget, Lifecycle!Step, Lifecycle!Start,
                            Lifecycle!StartAgain, Lifecycle!From
  <1> QED
    BY <1>3, <1>4, <1>5, <1>6, NextSteps DEF Shape, RowStep

\* The queue implements the life of a job that JobLifecycle specifies: a
\* settled job never changes again, and no job is started without a budget.
THEOREM ImplementsLifecycle == Spec => LifecycleSpec
  <1>1. Init => Lifecycle!Init
    BY InitLifecycle
  <1>2. Spec => [](Shape /\ RetryBudget)
    BY ShapeHolds, RetryBudgetHolds, PTL
  <1>3. Shape /\ RetryBudget /\ [Next]_vars => [Lifecycle!Next]_(Lifecycle!lifecycle)
    BY NextLifecycle
  <1> QED
    BY <1>1, <1>2, <1>3, PTL DEF Spec, LifecycleSpec, Lifecycle!Spec

\* How many more times a job can change hands, as a row not yet enqueued, a
\* waiting one, a leased one and a settled one.
ChangesLeft(k) ==
    CASE jobs[k].state = "ABSENT" -> 2 * MaxAttempts[k] + 1
      [] jobs[k].state = "QUEUED" -> 2 * (MaxAttempts[k] - jobs[k].attempts)
      [] jobs[k].state = "LEASED" -> 2 * (MaxAttempts[k] - jobs[k].attempts) + 1
      [] OTHER -> 0

\* Nothing is left exactly when the job is settled.
ChangesCounted ==
    \A k \in Keys : /\ ChangesLeft(k) \in 0 .. (2 * MaxAttempts[k] + 1)
                    /\ ChangesLeft(k) = 0 <=> jobs[k].state \in Settled

\* A step that changes the state of a job, or starts an attempt, leaves it
\* with fewer changes to come.
JobsWindDown ==
    [][\A k \in Keys :
          jobs'[k].state # jobs[k].state \/ jobs'[k].attempts # jobs[k].attempts
              => ChangesLeft(k)' < ChangesLeft(k)]_vars

LEMMA ChangesLeftType == Shape /\ RetryBudget => ChangesCounted
  <1> SUFFICES ASSUME Shape, RetryBudget, NEW k \in Keys
               PROVE  /\ ChangesLeft(k) \in 0 .. (2 * MaxAttempts[k] + 1)
                      /\ ChangesLeft(k) = 0 <=> jobs[k].state \in Settled
    BY DEF ChangesCounted
  <1>1. /\ jobs[k].attempts \in Nat /\ MaxAttempts[k] \in Nat \ {0}
        /\ jobs[k].state \in States
        /\ jobs[k].attempts <= MaxAttempts[k]
        /\ jobs[k].state = "QUEUED" => jobs[k].attempts < MaxAttempts[k]
    BY QueueAssumption DEF Shape, TypeOK, Row, RetryBudget, HasBudget
  <1> QED
    BY <1>1 DEF ChangesLeft, States, Settled

LEMMA ChangeCounts ==
    ASSUME Shape, RetryBudget, [Next]_vars, NEW k \in Keys,
           jobs'[k].state # jobs[k].state \/ jobs'[k].attempts # jobs[k].attempts
    PROVE  ChangesLeft(k)' < ChangesLeft(k)
  <1>1. /\ jobs[k].attempts \in Nat /\ MaxAttempts[k] \in Nat \ {0}
        /\ jobs[k].attempts <= MaxAttempts[k]
        /\ jobs[k].state = "QUEUED" => jobs[k].attempts < MaxAttempts[k]
    BY QueueAssumption DEF Shape, TypeOK, Row, RetryBudget, HasBudget
  <1>2. Accepted(k) \/ Freed(k) \/ \E c \in Clients : ClaimedBy(c, k)
    BY NextSteps DEF Shape, RowStep, RowKept
  <1>3. CASE Accepted(k)
    BY <1>1, <1>3 DEF Accepted, ChangesLeft
  <1>4. CASE Freed(k)
    BY <1>1, <1>4 DEF Freed, HasBudget, ChangesLeft
  <1>5. CASE \E c \in Clients : ClaimedBy(c, k)
    BY <1>1, <1>5 DEF ClaimedBy, HasBudget, ChangesLeft
  <1> QED
    BY <1>2, <1>3, <1>4, <1>5

\* A job changes state at most 2 * max_attempts + 1 times, whatever crashes,
\* expires or is retried, and has no change left exactly when it is settled:
\* what EveryJobSettles rests on besides the fairness of the controllers.
THEOREM EveryJobWindsDown == Spec => []ChangesCounted /\ JobsWindDown
  <1>1. Shape /\ RetryBudget /\ [Next]_vars =>
          \A k \in Keys :
             jobs'[k].state # jobs[k].state \/ jobs'[k].attempts # jobs[k].attempts
                 => ChangesLeft(k)' < ChangesLeft(k)
    BY ChangeCounts
  <1> QED
    BY <1>1, ChangesLeftType, ShapeHolds, RetryBudgetHolds, PTL DEF Spec, JobsWindDown

-----------------------------------------------------------------------------
(* Fencing by owner and attempt.                                           *)

Fence == GivenInv /\ AttemptGivenOnce

LEMMA InitFence == Init => Fence
  BY DEF Init, Fence, GivenInv, AttemptGivenOnce, Given, Idle, NoJob

LEMMA NextFence ==
    ASSUME DistinctOwners
    PROVE  Shape /\ Fence /\ [Next]_vars => Fence'
  <1> SUFFICES ASSUME Shape, Fence, [Next]_vars
               PROVE  Fence'
    OBVIOUS
  <1>0. RowStep /\ GivenStep
    BY NextSteps DEF Shape
  <1>rows. \A k \in Keys : /\ jobs[k].attempts \in Nat
                           /\ jobs'[k].attempts \in Nat
    <2>1. TypeOK'
      BY NextTypeOK DEF Shape
    <2> QED
      BY <2>1 DEF Shape, TypeOK, Row
  <1>old. ASSUME NEW c \in Clients, Given(c) # NoJob
          PROVE  /\ Given(c).key \in Keys
                 /\ Given(c).attempt \in Nat
                 /\ Given(c).attempt <= jobs[Given(c).key].attempts
    BY <1>old DEF Shape, TypeOK, Holding, Call, Given, Fence, GivenInv
  <1>1. GivenInv'
    <2> SUFFICES ASSUME NEW c \in Clients, Given(c)' # NoJob
                 PROVE  /\ Given(c)'.key \in Keys
                        /\ Given(c)'.attempt <= jobs'[Given(c)'.key].attempts
                        /\ /\ jobs'[Given(c)'.key].state = "LEASED"
                           /\ jobs'[Given(c)'.key].owner = OwnerOf[c]
                           => Given(c)'.attempt = jobs'[Given(c)'.key].attempts
      BY DEF GivenInv
    <2>1. CASE Given(c)' = Given(c)
      <3> DEFINE k == Given(c).key
      <3>1. k \in Keys /\ Given(c).attempt <= jobs[k].attempts /\ Given(c).attempt \in Nat
        BY <1>old, <2>1
      <3>2. jobs[k].state = "LEASED" /\ jobs[k].owner = OwnerOf[c]
                => Given(c).attempt = jobs[k].attempts
        BY <2>1 DEF Fence, GivenInv
      <3>3. CASE RowKept(k)
        BY <2>1, <3>1, <3>2, <3>3 DEF RowKept
      <3>4. CASE Accepted(k)
        <4>1. jobs[k].attempts = 0
          BY <3>1, <3>4 DEF Shape, Untried, Accepted
        <4> QED
          BY <2>1, <3>1, <3>4, <4>1 DEF Accepted
      <3>5. CASE Freed(k)
        BY <2>1, <3>1, <3>5 DEF Freed
      <3>6. CASE \E d \in Clients : ClaimedBy(d, k)
        <4>1. PICK d \in Clients : ClaimedBy(d, k)
          BY <3>6
        <4>2. jobs'[k].owner = OwnerOf[c] => d = c
          BY <4>1 DEF ClaimedBy, DistinctOwners
        <4>3. Given(c).attempt <= jobs'[k].attempts
          BY <1>rows, <3>1, <4>1 DEF ClaimedBy
        <4> QED
          BY <2>1, <3>1, <4>1, <4>2, <4>3 DEF ClaimedBy
      <3> QED
        BY <1>0, <3>1, <3>3, <3>4, <3>5, <3>6 DEF RowStep
    <2>2. CASE \E k \in Keys : ClaimedBy(c, k)
      <3>1. PICK k \in Keys : ClaimedBy(c, k)
        BY <2>2
      <3>2. Given(c)'.key = k /\ Given(c)'.attempt = jobs'[k].attempts
        BY <3>1 DEF ClaimedBy
      <3> QED
        BY <1>rows, <3>2
    <2> QED
      BY <1>0, <2>1, <2>2 DEF GivenStep
  <1>2. AttemptGivenOnce'
    <2> SUFFICES ASSUME NEW c \in Clients, NEW d \in Clients, c # d,
                        Given(c)' # NoJob, Given(c)'.key = Given(d)'.key
                 PROVE  Given(c)'.attempt # Given(d)'.attempt
      BY DEF AttemptGivenOnce
    <2>0. Given(d)' # NoJob
      <3>1. Given(c)'.key \in Keys
        BY <1>1 DEF GivenInv
      <3> QED
        BY <3>1, QueueAssumption DEF NoJob
    <2>new. ASSUME NEW a \in Clients, NEW b \in Clients, NEW k \in Keys,
                   a # b, ClaimedBy(a, k), Given(b)' # NoJob, Given(b)'.key = k
            PROVE  Given(a)'.attempt # Given(b)'.attempt
      <3>1. Given(a)'.attempt = jobs[k].attempts + 1
        BY <2>new DEF ClaimedBy
      <3>2. CASE Given(b)' = Given(b)
        <4>1. Given(b).attempt <= jobs[k].attempts /\ Given(b).attempt \in Nat
          BY <1>old, <2>new, <3>2
        <4> QED
          BY <1>rows, <3>1, <3>2, <4>1
      <3>3. CASE \E q \in Keys : ClaimedBy(b, q)
        <4>1. ClaimedBy(b, k)
          BY <2>new, <3>3 DEF ClaimedBy
        <4> QED
          BY <2>new, <4>1 DEF ClaimedBy, DistinctOwners
      <3> QED
        BY <1>0, <2>new, <3>2, <3>3 DEF GivenStep
    <2>1. CASE \E k \in Keys : ClaimedBy(c, k)
      <3>1. PICK k \in Keys : ClaimedBy(c, k)
        BY <2>1
      <3>2. Given(d)'.key = k
        BY <3>1 DEF ClaimedBy
      <3> QED
        BY <2>0, <2>new, <3>1, <3>2
    <2>2. CASE \E k \in Keys : ClaimedBy(d, k)
      <3>1. PICK k \in Keys : ClaimedBy(d, k)
        BY <2>2
      <3>2. Given(c)'.key = k
        BY <3>1 DEF ClaimedBy
      <3> QED
        BY <2>new, <3>1, <3>2
    <2>3. CASE Given(c)' = Given(c) /\ Given(d)' = Given(d)
      BY <2>3 DEF Fence, AttemptGivenOnce
    <2> QED
      BY <1>0, <2>0, <2>1, <2>2, <2>3 DEF GivenStep
  <1> QED
    BY <1>1, <1>2 DEF Fence

LEMMA FenceHolds ==
    ASSUME DistinctOwners
    PROVE  Spec => [](Shape /\ Fence)
  <1>1. Init => Shape /\ Fence
    BY InitShape, InitFence
  <1>2. (Shape /\ Fence) /\ [Next]_vars => (Shape /\ Fence)'
    BY NextShape, NextFence
  <1> QED
    BY <1>1, <1>2, PTL DEF Spec

\* With an owner string per process, no attempt of a job is ever given to two
\* of them.
THEOREM AttemptGivenOnceHolds ==
    ASSUME DistinctOwners
    PROVE  Spec => []AttemptGivenOnce
  <1>1. Shape /\ Fence => AttemptGivenOnce
    BY DEF Fence
  <1> QED
    BY <1>1, FenceHolds, PTL

\* With an owner string per process, comparing the owner and the expiry is as
\* good as a fencing token: a heartbeat, a complete or a fail is accepted only
\* for the attempt its caller was given.
THEOREM AcceptedFromHolderHolds ==
    ASSUME DistinctOwners
    PROVE  Spec => AcceptedFromHolder
  <1>1. ASSUME Shape, Fence, NEW c \in Clients, CommitHeartbeat(c) \/ CommitFinish(c)
        PROVE  held[c] = [key |-> call[c].key,
                          attempt |-> jobs[call[c].key].attempts]
    <2>1. /\ call[c].op \in {"heartbeat"} \cup Finishes
          /\ Owns(c, call[c].key)
      BY <1>1 DEF CommitHeartbeat, CommitFinish, Waiting
    <2>2. Given(c) = held[c]
      BY <2>1 DEF Given, Finishes
    <2>3. held[c].key = call[c].key /\ held[c].key \in Keys
      BY <1>1, <2>1 DEF Shape, CallInv
    <2>4. held[c] # NoJob
      BY <2>3, QueueAssumption DEF NoJob
    <2>5. held[c].attempt = jobs[call[c].key].attempts
      BY <1>1, <2>1, <2>2, <2>3, <2>4 DEF Fence, GivenInv, Owns
    <2>6. held[c] \in Holding
      BY <1>1 DEF Shape, TypeOK
    <2> QED
      BY <2>3, <2>5, <2>6 DEF Holding
  <1>2. Shape /\ Fence =>
          \A c \in Clients :
             CommitHeartbeat(c) \/ CommitFinish(c) =>
                held[c] = [key |-> call[c].key,
                           attempt |-> jobs[call[c].key].attempts]
    BY <1>1
  <1> QED
    BY <1>2, FenceHolds, PTL DEF AcceptedFromHolder

-----------------------------------------------------------------------------
(* Leases.                                                                 *)

LEMMA LeaseEnds ==
    ASSUME Shape, [Next]_vars, NEW k \in Keys,
           jobs[k].state = "LEASED", jobs[k].lease >= 0,
           jobs'[k].state # "LEASED" \/ jobs'[k].attempts # jobs[k].attempts
    PROVE  \E c \in Clients : /\ OwnerOf[c] = jobs[k].owner
                              /\ CommitFinish(c)
                              /\ call[c].key = k
  <1>0. /\ jobs \in [Keys -> Row]
        /\ \A c \in Clients : call[c].age \in Nat
    BY QueueAssumption DEF Shape, TypeOK, Call
  <1>1. jobs[k].lease \in Int
    BY <1>0, BoundsFacts DEF Row
  <1>2. \A c \in Clients : ~Expired(jobs[k], call[c].age)
    BY <1>0, <1>1 DEF Expired
  <1>swept. ASSUME NEW c \in Clients
            PROVE  RequeueExpired(jobs, call[c].age)[k] = jobs[k]
    BY <1>0, <1>2, SweptRow
  <1>3. ASSUME NEW c \in Clients, BeginCall(c) \/ EndCall(c)
        PROVE  FALSE
    <2>1. jobs' = jobs
      BY <1>3 DEF BeginCall, BeginEnqueue, BeginReconcile, BeginClaim, BeginHeartbeat,
         BeginFinish, Begin, EndCall, SaveMirror, SaveFails, LockTimeout, Crash
    <2> QED
      BY <2>1
  <1>4. ASSUME Tick \/ UNCHANGED vars
        PROVE  FALSE
    BY <1>0, <1>4 DEF Tick, Aged, Row, vars
  <1>5. ASSUME NEW c \in Clients, CommitCall(c)
        PROVE  /\ OwnerOf[c] = jobs[k].owner
               /\ CommitFinish(c)
               /\ call[c].key = k
    <2>1. CASE CommitEnqueue(c)
      BY <1>0, <2>1 DEF CommitEnqueue
    <2>2. CASE CommitClaim(c)
      BY <1>0, <1>swept, <2>2, SweptType DEF CommitClaim, First, Ready
    <2>3. CASE CommitHeartbeat(c)
      BY <1>0, <2>3 DEF CommitHeartbeat, Row
    <2>4. CASE CommitReconcile(c)
      BY <1>swept, <2>4 DEF CommitReconcile
    <2>5. CASE RefuseHeartbeat(c) \/ RefuseFinish(c)
      BY <2>5 DEF RefuseHeartbeat, RefuseFinish
    <2>6. CASE CommitFinish(c)
      BY <1>0, <2>6 DEF CommitFinish, Owns
    <2> QED
      BY <1>5, <2>1, <2>2, <2>3, <2>4, <2>5, <2>6 DEF CommitCall
  <1> QED
    BY <1>3, <1>4, <1>5 DEF Next

\* Nobody but its owner ends a lease that has not run out, whatever `now` the
\* sweeps of other callers are based on.
THEOREM LeaseRespectedHolds == Spec => LeaseRespected
  <1>1. Shape /\ [Next]_vars =>
          \A k \in Keys :
             /\ jobs[k].state = "LEASED"
             /\ jobs[k].lease >= 0
             /\ jobs'[k].state # "LEASED" \/ jobs'[k].attempts # jobs[k].attempts
             => \E c \in Clients : /\ OwnerOf[c] = jobs[k].owner
                                   /\ CommitFinish(c)
                                   /\ call[c].key = k
    BY LeaseEnds
  <1> QED
    BY <1>1, ShapeHolds, PTL DEF Spec, LeaseRespected

\* The lease a waiting heartbeat is about to renew is not longer than the one
\* it will write.
HeartbeatInv ==
    \A c \in Clients :
        LET row == jobs[call[c].key] IN
        /\ Waiting(c, "heartbeat")
        /\ row.state = "LEASED"
        /\ row.owner = OwnerOf[c]
        => row.lease <= LeaseTime - call[c].age

\* What another client's transaction can do to a row: leave it alone, or take
\* it away from its owner.
LEMMA ForeignCommit ==
    ASSUME DistinctOwners, Shape, NEW c \in Clients, NEW d \in Clients, c # d,
           CommitCall(d), NEW k \in Keys
    PROVE  \/ jobs'[k] = jobs[k]
           \/ jobs'[k].state # "LEASED"
           \/ jobs'[k].owner # OwnerOf[c]
  <1>0. jobs \in [Keys -> Row] /\ OwnerOf[c] # OwnerOf[d]
    BY DEF Shape, TypeOK, DistinctOwners
  <1> DEFINE age == call[d].age
             swept == RequeueExpired(jobs, age)
  <1>swept. swept[k] = jobs[k] \/ swept[k].state # "LEASED"
    BY <1>0, SweptRow, RetryStateType
  <1>1. CASE CommitEnqueue(d)
    BY <1>0, <1>1 DEF CommitEnqueue, NoRow
  <1>2. CASE CommitClaim(d)
    <2>1. CASE \E m \in First(swept, d) :
                  jobs' = [swept EXCEPT ![m] = Leased(swept[m], d, age)]
      BY <1>0, <1>swept, <2>1, SweptType, LeasedFields DEF First, Ready
    <2>2. CASE jobs' = swept
      BY <1>swept, <2>2
    <2> QED
      BY <1>2, <2>1, <2>2 DEF CommitClaim
  <1>3. CASE CommitHeartbeat(d)
    BY <1>0, <1>3 DEF CommitHeartbeat, Owns, Row
  <1>4. CASE CommitFinish(d)
    <2>1. PICK op \in Finishes :
             jobs' = [jobs EXCEPT ![call[d].key] =
                         Unleased(jobs[call[d].key],
                                  FinishState(op, jobs[call[d].key], call[d].key))]
      BY <1>4 DEF CommitFinish
    <2>2. FinishState(op, jobs[k], k) # "LEASED"
      BY RetryStateType DEF FinishState, Finishes
    <2> QED
      BY <1>0, <2>1, <2>2, UnleasedFields
  <1>5. CASE CommitReconcile(d)
    BY <1>swept, <1>5 DEF CommitReconcile
  <1>6. CASE RefuseHeartbeat(d) \/ RefuseFinish(d)
    BY <1>6 DEF RefuseHeartbeat, RefuseFinish
  <1> QED
    BY <1>1, <1>2, <1>3, <1>4, <1>5, <1>6 DEF CommitCall

LEMMA InitHeartbeatInv == Init => HeartbeatInv
  BY DEF Init, HeartbeatInv, Waiting, Idle

LEMMA NextHeartbeatInv ==
    ASSUME DistinctOwners
    PROVE  Shape /\ HeartbeatInv /\ [Next]_vars => HeartbeatInv'
  <1> SUFFICES ASSUME Shape, HeartbeatInv, [Next]_vars, NEW c \in Clients,
                      Waiting(c, "heartbeat")',
                      jobs'[call'[c].key].state = "LEASED",
                      jobs'[call'[c].key].owner = OwnerOf[c]
               PROVE  jobs'[call'[c].key].lease <= LeaseTime - call'[c].age
    BY DEF HeartbeatInv
  <1> DEFINE k == call'[c].key
  <1>0. /\ jobs \in [Keys -> Row] /\ jobs' \in [Keys -> Row]
        /\ call \in [Clients -> Call] /\ call' \in [Clients -> Call]
        /\ k \in Keys
    BY NextShape DEF Shape, TypeOK, CallInv, Waiting
  <1>old. ASSUME call'[c] = call[c], jobs'[k] = jobs[k]
          PROVE  jobs'[k].lease <= LeaseTime - call'[c].age
    BY <1>old DEF HeartbeatInv, Waiting
  <1>1. ASSUME NEW d \in Clients, BeginCall(d)
        PROVE  jobs'[k].lease <= LeaseTime - call'[c].age
    <2>0. held[d].key \in Keys \cup {None}
      BY DEF Shape, TypeOK, Holding
    <2>1. PICK op \in Calls, q \in Keys \cup {None} : Begin(d, op, q)
      BY <1>1, <2>0 DEF BeginCall, BeginEnqueue, BeginReconcile, BeginClaim,
                  BeginHeartbeat, BeginFinish, Calls, Finishes
    <2>2. CASE d = c
      <3>1. call'[c].age = 0
        BY <1>0, <2>1, <2>2 DEF Begin, Idle
      <3> QED
        BY <1>0, <3>1, QueueAssumption, BoundsFacts DEF Row
    <2>3. CASE d # c
      BY <1>0, <1>old, <2>1, <2>3 DEF Begin
    <2> QED
      BY <2>2, <2>3
  <1>2. ASSUME NEW d \in Clients, CommitCall(d)
        PROVE  jobs'[k].lease <= LeaseTime - call'[c].age
    <2>1. CASE d = c
      <3>1. CASE Return(c)
        BY <1>0, <3>1 DEF Return, Waiting, Idle
      <3>2. CASE Save(c)
        BY <1>0, <3>2 DEF Save, Waiting, Call
      <3>3. CASE \E q, n : SaveClaim(c, q, n)
        BY <1>0, <3>3 DEF SaveClaim, Waiting, Idle
      <3> QED
        BY <1>2, <2>1, <3>1, <3>2, <3>3
           DEF CommitCall, CommitEnqueue, CommitClaim, CommitHeartbeat, CommitFinish,
               CommitReconcile, RefuseHeartbeat, RefuseFinish
    <2>2. CASE d # c
      <3>1. call'[c] = call[c]
        BY <1>0, <1>2, <2>2
           DEF CommitCall, CommitEnqueue, CommitClaim, CommitHeartbeat, CommitFinish,
               CommitReconcile, RefuseHeartbeat, RefuseFinish, Return, Save, SaveClaim
      <3> QED
        BY <1>0, <1>2, <1>old, <2>2, <3>1, ForeignCommit
    <2> QED
      BY <2>1, <2>2
  <1>3. ASSUME NEW d \in Clients, EndCall(d)
        PROVE  jobs'[k].lease <= LeaseTime - call'[c].age
    <2>1. jobs' = jobs /\ call' = [call EXCEPT ![d] = Idle]
      BY <1>3 DEF EndCall, SaveMirror, SaveFails, LockTimeout, Crash, Return
    <2>2. d # c
      BY <1>0, <2>1 DEF Waiting, Idle
    <2> QED
      BY <1>0, <1>old, <2>1, <2>2
  <1>4. CASE Tick
    <2>1. /\ call'[c].op = call[c].op /\ call'[c].phase = call[c].phase
          /\ call'[c].key = call[c].key
      BY <1>0, <1>4 DEF Tick, Call
    <2>2. IsWaiting(c) /\ Waiting(c, "heartbeat")
      BY <2>1 DEF Waiting, IsWaiting
    <2>3. call'[c].age = call[c].age + 1
      BY <1>0, <1>4, <2>2 DEF Tick, Call
    <2>4. /\ jobs[k].state = "LEASED" /\ jobs[k].owner = OwnerOf[c]
          /\ jobs'[k].lease = IF jobs[k].lease > LongOver THEN jobs[k].lease - 1
                                                         ELSE jobs[k].lease
      BY <1>0, <1>4 DEF Tick, Aged, Row
    <2>5. jobs[k].lease <= LeaseTime - call[c].age
      BY <2>1, <2>2, <2>4 DEF HeartbeatInv
    <2>6. call[c].age \in Int /\ call'[c].age \in 0 .. MaxDelay
      BY <1>0, QueueAssumption DEF Call
    <2>7. LeaseTime - call'[c].age >= LongOver
      BY <2>6, BoundsFacts
    <2>8. /\ jobs[k].lease \in LongOver .. LeaseTime
          /\ LongOver \in Int
          /\ LeaseTime \in Int
      BY <1>0, BoundsFacts, QueueAssumption DEF Row
    <2> QED
      BY <2>3, <2>4, <2>5, <2>6, <2>7, <2>8
  <1>5. CASE UNCHANGED vars
    BY <1>5, <1>old DEF vars
  <1> QED
    BY <1>1, <1>2, <1>3, <1>4, <1>5 DEF Next

\* With an owner string per process, a heartbeat that waited for the write
\* lock never cuts a lease short.
THEOREM LeaseNeverShortenedHolds ==
    ASSUME DistinctOwners
    PROVE  Spec => LeaseNeverShortened
  <1>1. Init => Shape /\ HeartbeatInv
    BY InitShape, InitHeartbeatInv
  <1>2. (Shape /\ HeartbeatInv) /\ [Next]_vars => (Shape /\ HeartbeatInv)'
    BY NextShape, NextHeartbeatInv
  <1>3. ASSUME Shape, HeartbeatInv, [Next]_vars, NEW k \in Keys,
               jobs[k].state = "LEASED", jobs'[k].state = "LEASED",
               jobs'[k].attempts = jobs[k].attempts, ~Tick
        PROVE  jobs'[k].lease >= jobs[k].lease
    <2>0. /\ jobs \in [Keys -> Row]
          /\ \A c \in Clients : call[c].age \in 0 .. MaxDelay
          /\ jobs[k].lease \in Int /\ LeaseTime \in Int /\ jobs[k].attempts \in Nat
      BY <1>3, BoundsFacts, QueueAssumption DEF Shape, TypeOK, Row, Call
    <2>same. (jobs' = jobs) => jobs'[k].lease >= jobs[k].lease
      BY <2>0
    <2>1. ASSUME NEW c \in Clients, BeginCall(c) \/ EndCall(c)
          PROVE  jobs'[k].lease >= jobs[k].lease
      <3>1. jobs' = jobs
        BY <2>1 DEF BeginCall, BeginEnqueue, BeginReconcile, BeginClaim, BeginHeartbeat,
           BeginFinish, Begin, EndCall, SaveMirror, SaveFails, LockTimeout, Crash
      <3> QED
        BY <2>same, <3>1
    <2>2. ASSUME NEW c \in Clients, CommitCall(c)
          PROVE  jobs'[k].lease >= jobs[k].lease
      <3> DEFINE swept == RequeueExpired(jobs, call[c].age)
      <3>swept. swept[k] = jobs[k] \/ swept[k].state # "LEASED"
        BY <2>0, SweptRow, RetryStateType
      <3>swept2. swept \in [Keys -> Row] /\ swept[k].attempts = jobs[k].attempts
        BY <2>0, SweptType, SweptRow
      <3>1. CASE CommitEnqueue(c)
        BY <1>3, <2>0, <2>same, <3>1 DEF CommitEnqueue
      <3>2. CASE CommitClaim(c)
        <4>1. CASE \E m \in First(swept, c) :
                      jobs' = [swept EXCEPT ![m] = Leased(swept[m], c, call[c].age)]
          <5>1. PICK m \in First(swept, c) :
                      jobs' = [swept EXCEPT ![m] = Leased(swept[m], c, call[c].age)]
            BY <4>1
          <5>2. m # k
            BY <1>3, <2>0, <3>swept2, <5>1, LeasedFields DEF First, Ready
          <5>3. jobs'[k] = swept[k]
            BY <3>swept2, <5>1, <5>2
          <5> QED
            BY <1>3, <2>0, <3>swept, <5>3
        <4>2. CASE jobs' = swept
          BY <1>3, <2>0, <3>swept, <4>2
        <4> QED
          BY <3>2, <4>1, <4>2 DEF CommitClaim
      <3>3. CASE CommitHeartbeat(c)
        <4>1. CASE call[c].key = k
          <5>1. jobs[k].lease <= LeaseTime - call[c].age
            BY <1>3, <3>3, <4>1 DEF CommitHeartbeat, HeartbeatInv, Owns
          <5>2. jobs'[k].lease = LeaseTime - call[c].age
            BY <2>0, <3>3, <4>1 DEF CommitHeartbeat, Row
          <5> QED
            BY <2>0, <5>1, <5>2
        <4>2. CASE call[c].key # k
          BY <2>0, <3>3, <4>2 DEF CommitHeartbeat
        <4> QED
          BY <4>1, <4>2
      <3>4. CASE CommitFinish(c)
        <4>1. PICK op \in Finishes :
                 jobs' = [jobs EXCEPT ![call[c].key] =
                             Unleased(jobs[call[c].key],
                                      FinishState(op, jobs[call[c].key], call[c].key))]
          BY <3>4 DEF CommitFinish
        <4>2. FinishState(op, jobs[k], k) # "LEASED"
          BY RetryStateType DEF FinishState, Finishes
        <4> QED
          BY <1>3, <2>0, <4>1, <4>2, UnleasedFields
      <3>5. CASE CommitReconcile(c)
        BY <1>3, <2>0, <3>swept, <3>5 DEF CommitReconcile
      <3>6. CASE RefuseHeartbeat(c) \/ RefuseFinish(c)
        BY <2>same, <3>6 DEF RefuseHeartbeat, RefuseFinish
      <3> QED
        BY <2>2, <3>1, <3>2, <3>3, <3>4, <3>5, <3>6 DEF CommitCall
    <2>3. CASE UNCHANGED vars
      BY <2>same, <2>3 DEF vars
    <2> QED
      BY <1>3, <2>1, <2>2, <2>3 DEF Next
  <1>4. Shape /\ HeartbeatInv /\ [Next]_vars =>
          \A k \in Keys :
             /\ jobs[k].state = "LEASED"
             /\ jobs'[k].state = "LEASED"
             /\ jobs'[k].attempts = jobs[k].attempts
             => Tick \/ jobs'[k].lease >= jobs[k].lease
    BY <1>3
  <1> QED
    BY <1>1, <1>2, <1>4, PTL DEF Spec, LeaseNeverShortened
=============================================================================
