----------------------------- MODULE MCTeamPurge -----------------------------
(* Instances of TeamPurge for TLC.                                          *)
EXTENDS TeamPurge, TLC

CONSTANTS w1, w2

\* A worker with a message to send or to acknowledge no longer reads how far it
\* got, so states that differ in that alone are one.
Reached(w) == IF pc[w] \in {"send", "ack"} THEN <<>> ELSE <<todo[w], at[w], cursor[w], files[w]>>

LiveState ==
  <<data, starting, queue, job, pc, out, [w \in Workers |-> Reached(w)], again, faults>>

WorkerSymmetry == Permutations(Workers)
=============================================================================
