----------------------------- MODULE MCCycleCounts -----------------------------
(* Instances of CycleCounts for TLC.                                        *)
EXTENDS CycleCounts, TLC

CONSTANTS i1, i2

IssueSymmetry == Permutations(Issues)
=============================================================================
