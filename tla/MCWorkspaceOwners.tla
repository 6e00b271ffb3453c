-------------------------- MODULE MCWorkspaceOwners --------------------------
(* Instances of WorkspaceOwners for TLC.                                    *)
EXTENDS WorkspaceOwners, TLC

CONSTANTS u1, u2, u3, p1, p2

RequestSymmetry == Permutations(Requests) \cup Permutations(Users)
=============================================================================
