-------------------------- MODULE MCPullRequestLinks --------------------------
(* Instances of PullRequestLinks for TLC.                                   *)
EXTENDS PullRequestLinks

CONSTANTS i1, w1, w2
=============================================================================
