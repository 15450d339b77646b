---------------------------- MODULE MCManagedJob ----------------------------
(***************************************************************************)
(* ManagedJob for TLC: two runners, of which both may use w1 and only the   *)
(* first w2; a worker whose clock is right, or behind that of the           *)
(* controller by more than the skew.                                       *)
(***************************************************************************)
EXTENDS ManagedJob

CONSTANTS r1, w1

MCWorkersFor == [r \in Runners |-> IF r = r1 THEN Workers ELSE {w1}]
MCOffsets == {-2, 0}
=============================================================================
