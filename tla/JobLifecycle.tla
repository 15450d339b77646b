---------------------------- MODULE JobLifecycle ----------------------------
(* What the fleet queue promises of each accepted job, whoever calls it and *)
(* however calls interleave: a job is queued once, is started only out of  *)
(* the queue and at most max_attempts times, and once it is COMPLETE or    *)
(* FAILED it stays as it is.  One transaction of the queue may move several *)
(* jobs: a claim also sweeps every expired lease.                          *)
EXTENDS Naturals

CONSTANTS Keys, MaxAttempts

VARIABLES status, tries

lifecycle == <<status, tries>>

Init ==
    /\ status = [k \in Keys |-> "ABSENT"]
    /\ tries = [k \in Keys |-> 0]

From(k, s, t) == status[k] = s /\ status'[k] = t

Accept(k) == From(k, "ABSENT", "QUEUED") /\ tries'[k] = 0

Start(k) ==
    /\ From(k, "QUEUED", "LEASED")
    /\ tries[k] < MaxAttempts[k]
    /\ tries'[k] = tries[k] + 1

\* A failed attempt, or an expired lease, goes back into the queue ...
GiveBack(k) ==
    /\ From(k, "LEASED", "QUEUED")
    /\ tries[k] < MaxAttempts[k]
    /\ tries'[k] = tries[k]

\* ... or is taken out of it again by the claim that swept it.
StartAgain(k) ==
    /\ From(k, "LEASED", "LEASED")
    /\ tries[k] < MaxAttempts[k]
    /\ tries'[k] = tries[k] + 1

Settle(k) ==
    /\ From(k, "LEASED", "COMPLETE") \/ From(k, "LEASED", "FAILED")
    /\ tries'[k] = tries[k]

Stay(k) == status'[k] = status[k] /\ tries'[k] = tries[k]

Step(k) == Accept(k) \/ Start(k) \/ GiveBack(k) \/ StartAgain(k) \/ Settle(k)

Next == \A k \in Keys : Step(k) \/ Stay(k)

Spec == Init /\ [][Next]_lifecycle
=============================================================================
