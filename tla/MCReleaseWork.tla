---------------------------- MODULE MCReleaseWork ----------------------------
(* ReleaseWork with two processes in each task, an image manifest and a      *)
(* fixture pack that may be edited, and two commits of a branch.             *)
EXTENDS ReleaseWork, TLC

CONSTANTS p1, p2, x, y

Interchangeable == Permutations({p1, p2})
=============================================================================
