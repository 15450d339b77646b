-------------------------- MODULE MCControllerStores --------------------------
(* ControllerStores with one job and two controllers, of which one works when *)
(* the database is lost, and with two processes and two things they work on.  *)
EXTENDS ControllerStores, TLC

CONSTANTS k1, w51, p1, p2, p3, x, y

MCOwnerOf     == [c \in Clients |-> c]
MCRuntimeOf   == [k \in Keys |-> w51]
MCServes      == [c \in Clients |-> {w51}]
MCPriority    == [k \in Keys |-> 100]
MCMaxAttempts == [k \in Keys |-> 1]

\* A run resumes from the checkpoint, uses the cache and stops at a failure.
ResumingRuns == {[resume |-> TRUE, cacheMode |-> "auto", failFast |-> TRUE]}

Interchangeable == Permutations({p1, p2}) \cup Permutations({x, y})
=============================================================================
