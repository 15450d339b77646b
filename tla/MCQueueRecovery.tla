---------------------------- MODULE MCQueueRecovery ----------------------------
(* QueueRecovery on one job that is attempted once, and any number of controllers. *)
EXTENDS QueueRecovery, TLC

CONSTANTS k1, w51

MCOwnerOf     == [c \in Clients |-> c]
MCRuntimeOf   == [k \in Keys |-> w51]
MCServes      == [c \in Clients |-> {w51}]
MCPriority    == [k \in Keys |-> 100]
MCMaxAttempts == [k \in Keys |-> 1]

Controllers == Permutations(Clients)
=============================================================================
