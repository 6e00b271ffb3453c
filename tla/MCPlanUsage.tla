----------------------------- MODULE MCPlanUsage -----------------------------
(* Instances of PlanUsage for TLC.                                          *)
EXTENDS PlanUsage, TLC

CONSTANTS u1, u2, u3, i1, i2, p1, p2

\* One invite, or two sent to the same person.
MCAddressee1 == i1 :> u1

MCAddressee2 == (i1 :> u1) @@ (i2 :> u1)

\* Role changes: none, or u1 to a seat and the others to a guest.
NoAsks == {}

OneAskEach == {<<u, role>> \in Users \X Roles : role = (IF u = u1 THEN "member" ELSE "guest")}

\* The calls that move members, and those that move pending invites alone.
MemberKinds == {"accept_invite", "join", "leave", "change_role", "delete_invite"}

PendingKinds == {"create_invite", "delete_invite"}

\* One slot of everything, so that every pair of creates races for the last one;
\* room for two members, of whom the second may be a guest; and a larger plan to
\* move to and back from.
OnePlan == {[members |-> 1, invites |-> 1, perSeat |-> 1]}

RoomForTwo == {[members |-> 2, invites |-> 1, perSeat |-> 1]}

TwoPlans == OnePlan \cup {[members |-> 2, invites |-> 2, perSeat |-> 1]}

\* What a request still reads: nothing once it has its answer, and before that
\* only what the steps ahead of it read.  States that differ in the rest are one
\* to TLC; that the rest keeps its type too is TypeCorrect.
Needed(p) ==
  IF pc[p] \in Finished THEN <<>>
  ELSE <<op[p], cap[p], tries[p], rounds[p],
         IF pc[p] \in Committing \ {"open"} THEN <<seen[p], todo[p]>> ELSE <<>>,
         IF pc[p] \in {"seed", "seedput", "reconcile"} THEN <<on[p]>> ELSE <<>>,
         IF pc[p] \in {"seedput", "reconcile"} THEN <<counted[p]>> ELSE <<>>,
         IF pc[p] \in {"recount", "reconcile", "rejudge"} THEN <<phase[p]>> ELSE <<>>>>

LiveState == <<rows, usage, plan, pc, [p \in Requests |-> Needed(p)]>>

RequestSymmetry == Permutations(Requests)

\* With the one invite sent to u1, the others are alike too.
MemberSymmetry == RequestSymmetry \cup Permutations(Users \ {u1})
=============================================================================
