----------------------------- MODULE ManagedJob -----------------------------
(***************************************************************************)
(* A job between the controller and its worker: the managed transaction     *)
(* that chooses, probes and resets the worker, and the submission of the    *)
(* request to the worker's service.                                        *)
(*                                                                         *)
(* The transaction takes the outcome of the submission as its input and     *)
(* allows for every one; nothing else goes from one to the other.  A        *)
(* property of either therefore holds of both if it holds while that one    *)
(* moves and the other stays as it started: `acting` is the one that moves. *)
(***************************************************************************)
EXTENDS ManagedFleet, RemoteExecution

VARIABLE acting

JobInit == acting \in {"fleet", "remote"} /\ Init /\ RemoteInit

JobNext ==
    \/ acting = "fleet" /\ Next /\ UNCHANGED <<acting, remoteVars>>
    \/ acting = "remote" /\ RemoteNext /\ UNCHANGED <<acting, vars>>

JobSpec == JobInit /\ [][JobNext]_<<vars, remoteVars, acting>>
=============================================================================
