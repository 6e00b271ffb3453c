------------------------ MODULE WorkspaceOwnersProofs ------------------------
(***************************************************************************)
(* Proofs about WorkspaceOwners for any set of users and requests, in any  *)
(* order: what a request judged stands unless it was overtaken, so the     *)
(* last owner is lost only by an overtaken write, and ownership otherwise  *)
(* moves at an owner's hand.                                               *)
(***************************************************************************)
EXTENDS WorkspaceOwners, FiniteSetTheorems, TLAPS

USE OwnersAssumption

-----------------------------------------------------------------------------
(* Types.                                                                  *)

\* A request that goes on keeps its call.
LEMMA GoType ==
  ASSUME TypeOK, NEW p \in Requests, pc[p] # "idle",
         Answer(p) \/ Finish(p) \/ \E where \in {"count", "write", "close"} : Proceed(p, where)
  PROVE  /\ pc' \in [Requests -> {"idle", "judge", "count", "write", "close", "more"}]
         /\ call' \in [Requests -> CallType \cup {NoCall}]
         /\ \A q \in Requests : pc'[q] # "idle" => call'[q] \in CallType
BY DEF TypeOK, Answer, Finish, Proceed, Goto

\* A request that starts carries a well-formed call.
LEMMA BeginType ==
  ASSUME TypeOK, NEW p \in Requests, NEW kind \in AllKinds, NEW a \in Users,
         NEW rank \in Roles \cup {"none"}, NEW u \in Users, NEW to \in Roles,
         NEW bulk \in BOOLEAN, Begin(p, kind, a, rank, u, to, bulk)
  PROVE  TypeOK'
<1> DEFINE c == [kind |-> kind, actor |-> a, rank |-> rank, user |-> u, to |-> to, bulk |-> bulk]
<1>1. c \in CallType
  BY DEF CallType
<1>2. call' = [call EXCEPT ![p] = c] /\ pc' = [pc EXCEPT ![p] = "judge"] /\ UNCHANGED workspace
  BY DEF Begin, Goto
<1>3. overtaken' \subseteq Requests
  BY DEF Begin, Watch
<1> QED BY <1>1, <1>2, <1>3 DEF TypeOK, workspace

\* What a write may leave the rows as.
LEMMA WriteType ==
  ASSUME TypeOK, NEW c \in CallType,
         \/ ChangeRole(c) \/ RemoveMembership(c) \/ SetSuspended(c) \/ ClearSuspended(c)
         \/ MarkDeleted(c)
  PROVE  /\ role' \in [Users -> Roles \cup {"none"}]
         /\ suspended' \subseteq Users /\ deleted' \subseteq Users
<1>1. c.user \in Users /\ c.to \in Roles
  BY DEF CallType
<1> QED BY <1>1 DEF TypeOK, ChangeRole, RemoveMembership, SetSuspended, ClearSuspended, MarkDeleted

\* Every step but a stutter keeps watch.
LEMMA NextWatches ==
  ASSUME Next
  PROVE  Watch
BY DEF Next, Join, Start, StartMemberCall, StartDeprovision, StartDeleteAccount, StartPurgeAccount,
   Begin, Step, JudgeMember, JudgeAccount, CountOwners, Write, Busy, CloseWorkspace, NextInBulk,
   EndBulk

\* Every step keeps the types.
LEMMA NextType ==
  ASSUME TypeOK, [Next]_vars
  PROVE  TypeOK'
<1>0. ASSUME Next PROVE overtaken' \subseteq Requests
  BY <1>0, NextWatches DEF Watch
<1>1. CASE UNCHANGED vars
  BY <1>1 DEF TypeOK, vars, workspace
<1>2. CASE \E u \in Users : Join(u)
  BY <1>0, <1>2 DEF TypeOK, Join, Roles, Next
<1>3. ASSUME NEW p \in Requests, Start(p) PROVE TypeOK'
  <2>1. ASSUME NEW kind \in MemberKinds, NEW a \in Users, NEW u \in Users, NEW to \in Roles,
               NEW bulk \in BOOLEAN, StartMemberCall(p, kind, a, u, to, bulk)
        PROVE  TypeOK'
    <3>1. role[a] \in Roles \cup {"none"} /\ kind \in AllKinds
      BY DEF TypeOK, AllKinds
    <3> QED BY <2>1, <3>1, BeginType DEF StartMemberCall
  <2>2. ASSUME NEW u \in Users, NEW kind \in {"deprovision", "delete_account", "purge_account"},
               Begin(p, kind, u, "none", u, "member", FALSE)
        PROVE  TypeOK'
    <3>1. kind \in AllKinds /\ "member" \in Roles /\ FALSE \in BOOLEAN
      BY DEF AllKinds, AccountKinds, Roles
    <3> QED BY <2>2, <3>1, BeginType
  <2> QED BY <1>3, <2>1, <2>2 DEF Start, StartDeprovision, StartDeleteAccount, StartPurgeAccount
<1>4. ASSUME NEW p \in Requests, Step(p) PROVE TypeOK'
  <2>0. overtaken' \subseteq Requests
    BY <1>0, <1>4 DEF Next
  <2>1. CASE JudgeMember(p) \/ JudgeAccount(p) \/ CountOwners(p) \/ Busy(p) \/ EndBulk(p)
    <3>1. pc[p] # "idle" /\ UNCHANGED workspace
      BY <2>1 DEF JudgeMember, JudgeAccount, CountOwners, Busy, EndBulk
    <3>2. Answer(p) \/ Finish(p) \/ \E where \in {"count", "write", "close"} : Proceed(p, where)
      BY <2>1 DEF JudgeMember, JudgeAccount, CountOwners, Busy, EndBulk
    <3> QED BY <2>0, <3>1, <3>2, GoType DEF TypeOK, workspace
  <2>2. CASE Write(p)
    <3>1. pc[p] # "idle" /\ Answer(p) /\ UNCHANGED live /\ call[p] \in CallType
      BY <2>2 DEF Write, TypeOK
    <3>2. /\ role' \in [Users -> Roles \cup {"none"}]
          /\ suspended' \subseteq Users /\ deleted' \subseteq Users
      BY <2>2, <3>1, WriteType DEF Write
    <3> QED BY <2>0, <3>1, <3>2, GoType DEF TypeOK
  <2>3. CASE CloseWorkspace(p)
    <3>1. pc[p] # "idle" /\ Finish(p)
      BY <2>3 DEF CloseWorkspace
    <3> QED BY <2>0, <2>3, <3>1, GoType DEF TypeOK, CloseWorkspace
  <2>4. ASSUME NEW u \in Users, NextInBulk(p, u) PROVE TypeOK'
    <3>1. call[p] \in CallType
      BY <2>4 DEF TypeOK, NextInBulk
    <3>2. [call[p] EXCEPT !.user = u] \in CallType
      BY <3>1 DEF CallType
    <3> QED BY <2>0, <2>4, <3>2 DEF TypeOK, NextInBulk, Goto, workspace
  <2> QED BY <1>4, <2>1, <2>2, <2>3, <2>4 DEF Step
<1> QED BY <1>1, <1>2, <1>3, <1>4 DEF Next

-----------------------------------------------------------------------------
(* The count.                                                              *)

\* More than one active owner leaves another whoever goes.
LEMMA AnotherOwner ==
  ASSUME NEW u, ~(Cardinality(ActiveOwners) <= 1)
  PROVE  ActiveOwners \ {u} # {}
<1>1. SUFFICES ASSUME ActiveOwners \subseteq {u} PROVE FALSE
  OBVIOUS
<1>2. IsFiniteSet({u}) /\ Cardinality({u}) = 1
  BY FS_Singleton
<1>3. Cardinality(ActiveOwners) <= Cardinality({u})
  BY <1>1, <1>2, FS_Subset
<1> QED BY <1>2, <1>3

-----------------------------------------------------------------------------
(* What was judged.                                                        *)

\* A request's own step from where it was judged.
LEMMA OwnStep ==
  ASSUME TypeOK, Next, NEW q \in Requests, pc'[q] \in Judged,
         ~(pc'[q] = pc[q] /\ call'[q] = call[q])
  PROVE  /\ JudgeMember(q) \/ JudgeAccount(q) \/ CountOwners(q)
         /\ call' = call
<1>1. PICK p \in Requests : Start(p) \/ Step(p)
  BY DEF Next, Join
<1>2. p = q
  <2>1. CASE Start(p)
    BY <2>1 DEF TypeOK, Start, StartMemberCall, StartDeprovision, StartDeleteAccount,
       StartPurgeAccount, Begin, Goto
  <2>2. CASE Step(p)
    BY <2>2 DEF TypeOK, Step, JudgeMember, JudgeAccount, CountOwners, Write, Busy, CloseWorkspace,
       NextInBulk, EndBulk, Answer, Finish, Proceed, Goto
  <2> QED BY <1>1, <2>1, <2>2
<1>3. ~Start(q)
  BY DEF TypeOK, Judged, Start, StartMemberCall, StartDeprovision, StartDeleteAccount,
     StartPurgeAccount, Begin, Goto
<1>4. JudgeMember(q) \/ JudgeAccount(q) \/ CountOwners(q)
  BY <1>1, <1>2, <1>3 DEF TypeOK, Judged, Step, Write, Busy, CloseWorkspace, NextInBulk, EndBulk,
     Answer, Finish, Goto
<1>5. call' = call
  BY <1>4 DEF TypeOK, Judged, JudgeMember, JudgeAccount, CountOwners, Answer, Finish, Proceed, Goto
<1> QED BY <1>4, <1>5

\* What was judged of a call, as one formula.
Stands(p) ==
  LET c == call[p] IN
  /\ pc[p] \in Judged /\ c.kind \notin AccountKinds => ~Refused(c)
  /\ pc[p] = "write" /\ (TakesAnOwner(c) \/ (c.kind = "purge_account" /\ role[c.user] = "owner"))
       => ActiveOwners \ {c.user} # {}

\* A request nobody overtakes finds what it judged.
LEMMA OthersStand ==
  ASSUME TypeOK, Watch, NEW q \in Requests \ overtaken', pc'[q] \in Judged, Stands(q),
         pc'[q] = pc[q], call'[q] = call[q]
  PROVE  Stands(q)'
<1> DEFINE c == call[q]
<1>1. ~Overtakes(q)
  BY DEF Watch
<1>2. /\ role'[c.user] = role[c.user]
      /\ c.user \in suspended' <=> c.user \in suspended
      /\ ActiveOwners \subseteq ActiveOwners'
  BY <1>1 DEF Overtakes
<1>3. Refused(c)' <=> Refused(c)
  BY <1>2 DEF Refused, TouchesOwnership
<1>4. TakesAnOwner(c)' <=> TakesAnOwner(c)
  BY <1>2 DEF TakesAnOwner
<1> QED BY <1>2, <1>3, <1>4 DEF Stands

\* What was judged still holds when it is written, unless it was overtaken.
LEMMA JudgmentStep ==
  ASSUME TypeOK, JudgmentStands, [Next]_vars
  PROVE  JudgmentStands'
<1>1. CASE UNCHANGED vars
  BY <1>1 DEF JudgmentStands, Refused, TakesAnOwner, TouchesOwnership, ActiveOwners, vars, workspace
<1>2. SUFFICES ASSUME Next, NEW q \in Requests \ overtaken', pc'[q] \in Judged
      PROVE  Stands(q)'
  BY <1>1 DEF JudgmentStands, Stands, Judged
<1>3. CASE pc'[q] = pc[q] /\ call'[q] = call[q]
  <2>1. q \notin overtaken
    BY <1>2, <1>3, NextWatches DEF Watch
  <2> QED BY <1>2, <1>3, <2>1, NextWatches, OthersStand DEF JudgmentStands, Stands
<1>4. CASE ~(pc'[q] = pc[q] /\ call'[q] = call[q])
  <2>1. /\ JudgeMember(q) \/ JudgeAccount(q) \/ CountOwners(q)
        /\ call' = call
    BY <1>2, <1>4, OwnStep
  <2>2. UNCHANGED workspace
    BY <2>1 DEF JudgeMember, JudgeAccount, CountOwners
  <2>3. ActiveOwners' = ActiveOwners /\ role' = role
    BY <2>2 DEF workspace, ActiveOwners
  <2>4. Refused(call[q])' = Refused(call[q]) /\ TakesAnOwner(call[q])' = TakesAnOwner(call[q])
    BY <2>1, <2>2 DEF workspace, Refused, TakesAnOwner, TouchesOwnership
  <2>5. CASE JudgeMember(q)
    <3>1. ~Refused(call[q]) /\ call[q].kind \notin AccountKinds
      BY <1>2, <2>5 DEF JudgeMember, TypeOK, Judged, Answer, Finish, Goto
    <3>2. pc'[q] = "write" => ~TakesAnOwner(call[q])
      BY <2>5, <3>1 DEF JudgeMember, Proceed, Goto, TypeOK
    <3> QED BY <2>1, <2>3, <2>4, <3>1, <3>2 DEF AccountKinds, Stands
  <2>6. CASE JudgeAccount(q)
    <3>1. call[q].kind \in AccountKinds /\ ~TakesAnOwner(call[q])
      BY <2>6 DEF JudgeAccount, AccountKinds, TakesAnOwner
    <3>2. pc'[q] = "write" /\ call[q].kind = "purge_account" /\ role[call[q].user] = "owner"
            => ActiveOwners \ {call[q].user} # {}
      BY <1>2, <2>6 DEF JudgeAccount, Finish, Proceed, Goto, TypeOK
    <3> QED BY <2>1, <2>3, <2>4, <3>1, <3>2 DEF Stands
  <2>7. CASE CountOwners(q)
    <3>1. ActiveOwners \ {call[q].user} # {}
      BY <1>2, <2>7, AnotherOwner DEF CountOwners, Judged, Answer, Finish, Goto, TypeOK
    <3>2. q \notin overtaken
      BY <1>2, <2>7 DEF CountOwners, Watch, Judged
    <3>3. call[q].kind \notin AccountKinds => ~Refused(call[q])
      BY <2>7, <3>2 DEF CountOwners, JudgmentStands, Judged
    <3> QED BY <2>1, <2>3, <2>4, <3>1, <3>3 DEF Stands
  <2> QED BY <2>1, <2>5, <2>6, <2>7
<1> QED BY <1>3, <1>4

-----------------------------------------------------------------------------
(* The last owner.                                                         *)

\* A write that stands as judged leaves an active owner.
LEMMA WriteKeepsOwner ==
  ASSUME TypeOK, JudgmentStands, NEW p \in Requests \ overtaken, Write(p), ActiveOwners # {}
  PROVE  ActiveOwners' # {}
<1> DEFINE c == call[p]
<1>1. c \in CallType /\ c.user \in Users /\ pc[p] = "write"
  BY DEF TypeOK, Write, CallType
<1>2. \A w \in Users \ {c.user} : role'[w] = role[w] /\ (w \in suspended' <=> w \in suspended)
  BY <1>1 DEF TypeOK, Write, ChangeRole, RemoveMembership, SetSuspended, ClearSuspended, MarkDeleted
<1>3. CASE ActiveOwners \ {c.user} # {}
  BY <1>2, <1>3 DEF ActiveOwners
<1>4. CASE ActiveOwners \ {c.user} = {}
  <2>1. role[c.user] = "owner" /\ c.user \notin suspended
    BY <1>4 DEF ActiveOwners
  <2>2. ~TakesAnOwner(c) /\ c.kind # "purge_account"
    BY <1>1, <1>4, <2>1 DEF JudgmentStands
  <2>3. \/ c.kind = "change_role" /\ c.to = "owner"
        \/ c.kind \in {"reactivate", "delete_account"}
    BY <2>1, <2>2 DEF TakesAnOwner, Write
  <2>4. role'[c.user] = "owner" /\ c.user \notin suspended'
    BY <1>1, <2>1, <2>3 DEF TypeOK, Write, ChangeRole, ClearSuspended, MarkDeleted
  <2> QED BY <1>1, <2>4 DEF ActiveOwners
<1> QED BY <1>3, <1>4

\* The rows change by a join, a write or the end of the workspace.
LEMMA OnlyWrites ==
  ASSUME Next, live' # FALSE, ~UNCHANGED workspace, \A u \in Users : ~Join(u)
  PROVE  \E p \in Requests : Write(p)
<1>1. PICK p \in Requests : Start(p) \/ Step(p)
  BY DEF Next
<1>2. ~Start(p)
  BY DEF Start, StartMemberCall, StartDeprovision, StartDeleteAccount, StartPurgeAccount, Begin
<1>3. ~CloseWorkspace(p)
  BY DEF CloseWorkspace
<1>4. Step(p) => Write(p)
  BY <1>3 DEF Step, JudgeMember, JudgeAccount, CountOwners, Busy, NextInBulk, EndBulk
<1> QED BY <1>1, <1>2, <1>4

\* The step that loses the last owner is an overtaken write's.
LEMMA LastOwnerStep ==
  ASSUME TypeOK, JudgmentStands, Next, live', ActiveOwners # {}, ActiveOwners' = {}
  PROVE  \E p \in overtaken : pc[p] = "write" /\ pc'[p] # "write"
<1>1. ~UNCHANGED workspace
  BY DEF workspace, ActiveOwners
<1>2. ASSUME NEW u \in Users, Join(u) PROVE FALSE
  BY <1>2 DEF Join, ActiveOwners, TypeOK, Roles
<1>3. PICK p \in Requests : Write(p)
  BY <1>1, <1>2, OnlyWrites
<1>4. p \in overtaken
  BY <1>3, WriteKeepsOwner
<1>5. pc[p] = "write" /\ pc'[p] # "write"
  BY <1>3 DEF TypeOK, Write, Answer, Finish, Goto
<1> QED BY <1>4, <1>5

\* The invariant holds at the start.
LEMMA InitOwners == Init => OwnersInv
BY DEF Init, OwnersInv, TypeOK, JudgmentStands, Judged, Members

\* ... and through every step.
LEMMA NextOwners ==
  ASSUME OwnersInv, [Next]_vars
  PROVE  OwnersInv'
BY NextType, JudgmentStep DEF OwnersInv

\* However requests interleave, what one judged of its member and of the owners
\* is still so when its write lands, unless it was overtaken.
THEOREM OwnersHold == Spec => []OwnersInv
<1>1. OwnersInv /\ [Next]_vars => OwnersInv'
  BY NextOwners
<1> QED BY <1>1, InitOwners, PTL DEF Spec

\* Whoever leaves, is demoted, suspended, deprovisioned or deletes their account,
\* and however the requests interleave, the last active owner of a workspace that
\* lives is lost only by a write overtaken since it judged.
THEOREM LastOwnerLost == Spec => LastOwnerLostOnlyOvertaken
<1>1. OwnersInv /\ [Next]_vars /\ live' /\ ActiveOwners # {} /\ ActiveOwners' = {}
        => \E p \in overtaken : pc[p] = "write" /\ pc'[p] # "write"
  BY LastOwnerStep DEF OwnersInv, vars, workspace, ActiveOwners
<1>2. OwnersInv /\ [Next]_vars =>
        [live' /\ ActiveOwners # {} /\ ActiveOwners' = {}
           => \E p \in overtaken : pc[p] = "write" /\ pc'[p] # "write"]_vars
  BY <1>1
<1> QED BY <1>2, OwnersHold, PTL DEF Spec, LastOwnerLostOnlyOvertaken

-----------------------------------------------------------------------------
(* Who moves ownership.                                                    *)

\* What one step does to one user's ownership, given the invariant.
LEMMA OwnershipStep ==
  ASSUME TypeOK, JudgmentStands, [Next]_vars, NEW u \in Users, live' # FALSE,
         \/ (role[u] = "owner") # (role'[u] = "owner")
         \/ role[u] = "owner" /\ role'[u] = "owner" /\ (u \in suspended) # (u \in suspended')
  PROVE  \E p \in Requests :
           pc[p] = "write" /\ pc'[p] # "write" /\ MayMoveOwnership(p, u)
<1>1. ~UNCHANGED workspace
  BY DEF workspace
<1>2. \A w \in Users : ~Join(w)
  BY DEF Join, TypeOK, Roles
<1>3. PICK p \in Requests : Write(p)
  BY <1>1, <1>2, OnlyWrites DEF vars
<1> DEFINE c == call[p]
<1>4. c \in CallType /\ c.user \in Users /\ pc[p] = "write" /\ pc'[p] # "write"
  BY <1>3 DEF TypeOK, Write, CallType, Answer, Finish, Goto
<1>5. c.user = u
  BY <1>3, <1>4 DEF TypeOK, Write, ChangeRole, RemoveMembership, SetSuspended, ClearSuspended,
     MarkDeleted
<1>6. \/ c.kind \in MemberKinds /\ ~Refused(c)
      \/ c.kind \in {"deprovision", "purge_account"}
      \/ p \in overtaken
  <2>1. c.kind # "delete_account"
    BY <1>3, <1>4 DEF Write, MarkDeleted
  <2> QED BY <1>4, <2>1 DEF CallType, AllKinds, AccountKinds, JudgmentStands, Judged
<1>7. CASE c.kind = "change_role" /\ ~Refused(c)
  <2>1. role[u] = "owner" \/ c.to = "owner"
    BY <1>3, <1>4, <1>5, <1>7 DEF TypeOK, Write, ChangeRole
  <2> QED BY <1>4, <1>5, <1>7, <2>1 DEF Refused, TouchesOwnership, MayMoveOwnership
<1>8. CASE c.kind \in {"remove", "suspend", "reactivate"} /\ ~Refused(c)
  <2>1. role[u] = "owner"
    BY <1>3, <1>4, <1>5, <1>8
       DEF TypeOK, Write, RemoveMembership, SetSuspended, ClearSuspended
  <2> QED BY <1>4, <1>5, <1>8, <2>1 DEF Refused, MayMoveOwnership
<1> QED BY <1>4, <1>5, <1>6, <1>7, <1>8 DEF MemberKinds, MayMoveOwnership

\* However requests interleave, only an owner grants ownership, takes it from
\* somebody else or suspends them; beside leaving, the directory, the purge of
\* the owner's account and a request overtaken since it judged.
THEOREM OwnershipMoves == Spec => OwnershipMovesByOwners
<1>1. OwnersInv /\ [Next]_vars =>
        \A u \in Users :
          \/ (role[u] = "owner") # (role'[u] = "owner")
          \/ role[u] = "owner" /\ role'[u] = "owner" /\ (u \in suspended) # (u \in suspended')
          => \/ live' = FALSE
             \/ \E p \in Requests :
                  pc[p] = "write" /\ pc'[p] # "write" /\ MayMoveOwnership(p, u)
  BY OwnershipStep DEF OwnersInv
<1> QED BY <1>1, OwnersHold, PTL DEF Spec, OwnershipMovesByOwners
=============================================================================
