---------------------------- MODULE MCHostStores ----------------------------
(* HostStores on two processes and two things they work on, whatever these   *)
(* are in each store: the stores have the same symmetry then.               *)
EXTENDS HostStores, TLC

CONSTANTS p1, p2, x, y

Interchangeable == Permutations({p1, p2}) \cup Permutations({x, y})
=============================================================================
