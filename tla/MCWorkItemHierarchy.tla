------------------------ MODULE MCWorkItemHierarchy -------------------------
(* Instances of WorkItemHierarchy for TLC.                                   *)
EXTENDS WorkItemHierarchy, TLC

CONSTANTS r1, r2, p1, p2

Symmetric == Permutations(Requests) \cup Permutations(Projects)
=============================================================================
