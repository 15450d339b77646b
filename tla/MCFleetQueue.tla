---------------------------- MODULE MCFleetQueue ----------------------------
(* FleetQueue on two jobs, one with a retry and one that is attempted once, *)
(* and two controllers with owner strings of their own (docs/              *)
(* REMOTE_WORKERS.md: "Use distinct owner IDs"): each stands for its owner. *)
EXTENDS FleetQueue, TLC

CONSTANTS k1, k2, w51

MCOwnerOf     == [c \in Clients |-> c]
MCRuntimeOf   == [k \in Keys |-> w51]
MCServes      == [c \in Clients |-> {w51}]
MCPriority    == [k \in Keys |-> 100]
MCMaxAttempts == [k \in Keys |-> IF k = k1 THEN 2 ELSE 1]

Controllers == Permutations(Clients)
=============================================================================
