--------------------------- MODULE WorkspaceOwners ---------------------------
(***************************************************************************)
(* Who owns a workspace: common/workspace_members.py, the directory's      *)
(* deprovisioning (common/scim.py) and account deletion                    *)
(* (common/account_deletion.py), all of which judge the owners that would  *)
(* be left, and then write.                                                *)
(*                                                                         *)
(* A request resolves its caller, reads its target, counts the owners and  *)
(* writes, in four steps, and any other request may come between two of    *)
(* them.  Nothing in the write is conditional on what was judged: the      *)
(* history variable `overtaken` says of which requests what they judged    *)
(* has changed under them.                                                 *)
(***************************************************************************)
EXTENDS Integers, FiniteSets

CONSTANTS
  Requests,   \* one process per request in flight
  Users,
  Kinds       \* the calls requests make

MemberKinds    == {"change_role", "remove", "suspend", "reactivate"}
AccountKinds   == {"delete_account", "purge_account"}
AllKinds       == MemberKinds \cup AccountKinds \cup {"deprovision"}

ASSUME OwnersAssumption ==
  /\ IsFiniteSet(Users)
  /\ Kinds \subseteq AllKinds

VARIABLES
  live,       \* the workspace has no purge under way
  role,       \* the membership rows: a role, or "none"
  suspended,  \* the members whose row carries suspended_at
  deleted,    \* the accounts marked deleted, which sign in nowhere
  pc, call,   \* where each request is, and the call it serves
  overtaken   \* history: the judged requests whose ground has shifted since

workspace == <<live, role, suspended, deleted>>
vars      == <<workspace, pc, call, overtaken>>

\* `guest` acts as `member` does here.
Roles == {"owner", "admin", "member"}

Admins == {"owner", "admin"}

\* `rank` is the caller's role, read once when the request is authorised.
CallType == [kind : AllKinds, actor : Users, rank : Roles \cup {"none"}, user : Users,
             to : Roles, bulk : BOOLEAN]

NoCall == [kind |-> "none"]

TypeOK ==
  /\ live \in BOOLEAN
  /\ role \in [Users -> Roles \cup {"none"}]
  /\ suspended \subseteq Users
  /\ deleted \subseteq Users
  /\ pc \in [Requests -> {"idle", "judge", "count", "write", "close", "more"}]
  /\ call \in [Requests -> CallType \cup {NoCall}]
  /\ \A p \in Requests : pc[p] # "idle" => call[p] \in CallType
  /\ overtaken \subseteq Requests

Members == {u \in Users : role[u] # "none"}

\* count_owners: a suspended owner administers nothing.
ActiveOwners == {u \in Users : role[u] = "owner" /\ u \notin suspended}

Init ==
  /\ live = TRUE
  /\ role \in [Users -> Roles \cup {"none"}]
  /\ suspended \in SUBSET Members
  /\ deleted = {}
  /\ ActiveOwners # {}
  /\ pc = [p \in Requests |-> "idle"]
  /\ call = [p \in Requests |-> NoCall]
  /\ overtaken = {}

\* Between its judgment and its write.
Judged == {"count", "write"}

\* This step changes what q's judgment was about: its member, or the owners left.
Overtakes(q) ==
  LET u == call[q].user IN
  \/ role'[u] # role[u]
  \/ (u \in suspended') # (u \in suspended)
  \/ ~(ActiveOwners \subseteq ActiveOwners')

\* Every action ends with it.
Watch ==
  overtaken' = {q \in Requests : /\ pc[q] \in Judged /\ pc'[q] \in Judged
                                 /\ q \in overtaken \/ Overtakes(q)}

Goto(p, where) == pc' = [pc EXCEPT ![p] = where]

Finish(p) == Goto(p, "idle") /\ call' = [call EXCEPT ![p] = NoCall]

\* A bulk call goes on to its next member, whether this one was changed or refused.
Answer(p) == IF call[p].bulk THEN Goto(p, "more") /\ UNCHANGED call ELSE Finish(p)

Proceed(p, where) == Goto(p, where) /\ UNCHANGED call

-----------------------------------------------------------------------------
(* Starting a call.                                                        *)

Begin(p, kind, a, rank, u, to, bulk) ==
  /\ pc[p] = "idle" /\ live
  /\ kind \in Kinds
  /\ call' = [call EXCEPT ![p] = [kind |-> kind, actor |-> a, rank |-> rank, user |-> u,
                                  to |-> to, bulk |-> bulk]]
  /\ Goto(p, "judge")
  /\ UNCHANGED workspace
  /\ Watch

\* resolve: a suspended member holds no role, and a deleted account no session.
MayAct(a) == role[a] # "none" /\ a \notin suspended /\ a \notin deleted

\* The member routes need the admin capability; removing is checked inside, so
\* that anyone may leave.  A bulk call skips the caller.
StartMemberCall(p, kind, a, u, to, bulk) ==
  /\ kind \in MemberKinds
  /\ MayAct(a)
  /\ role[a] \in Admins \/ (kind = "remove" /\ ~bulk)
  /\ bulk => u # a
  /\ kind # "change_role" => to = "member"
  /\ Begin(p, kind, a, role[a], u, to, bulk)

\* A directory's DELETE of a user, or its PATCH to inactive.
StartDeprovision(p, u) == Begin(p, "deprovision", u, "none", u, "member", FALSE)

StartDeleteAccount(p, u) ==
  /\ u \notin deleted /\ role[u] # "none"
  /\ Begin(p, "delete_account", u, "none", u, "member", FALSE)

\* The sweep takes up a deleted account that still has a membership here.
StartPurgeAccount(p, u) ==
  /\ u \in deleted /\ role[u] # "none"
  /\ Begin(p, "purge_account", u, "none", u, "member", FALSE)

-----------------------------------------------------------------------------
(* Judging it.                                                             *)

TouchesOwnership(c) == c.to = "owner" \/ role[c.user] = "owner"

\* Variant: a demotion judged as an admin's work.
RefusedGrantOnly(c) ==
  \/ role[c.user] = "none"
  \/ c.kind = "change_role" /\ c.to = "owner" /\ c.rank # "owner"
  \/ c.kind = "remove" /\ c.user # c.actor
       /\ (c.rank \notin Admins \/ (role[c.user] = "owner" /\ c.rank # "owner"))
  \/ c.kind \in {"suspend", "reactivate"} /\ role[c.user] = "owner" /\ c.rank # "owner"
  \/ c.kind = "suspend" /\ (c.user = c.actor \/ c.user \in suspended)
  \/ c.kind = "reactivate" /\ c.user \notin suspended

\* No such member, or not for this caller to do, or nothing to do.
Refused(c) ==
  \/ role[c.user] = "none"
  \/ c.kind = "change_role" /\ TouchesOwnership(c) /\ c.rank # "owner"
  \/ c.kind = "remove" /\ c.user # c.actor
       /\ (c.rank \notin Admins \/ (role[c.user] = "owner" /\ c.rank # "owner"))
  \/ c.kind \in {"suspend", "reactivate"} /\ role[c.user] = "owner" /\ c.rank # "owner"
  \/ c.kind = "suspend" /\ (c.user = c.actor \/ c.user \in suspended)
  \/ c.kind = "reactivate" /\ c.user \notin suspended

\* Variant: the directory takes an owner as it takes anyone.
TakesAnOwnerButDirectory(c) ==
  /\ role[c.user] = "owner" /\ c.user \notin suspended
  /\ \/ c.kind \in {"remove", "suspend"}
     \/ c.kind = "change_role" /\ c.to # "owner"

\* The calls that would leave one active owner fewer, for which count_owners is read.
TakesAnOwner(c) ==
  /\ role[c.user] = "owner" /\ c.user \notin suspended
  /\ \/ c.kind \in {"remove", "suspend", "deprovision"}
     \/ c.kind = "change_role" /\ c.to # "owner"

JudgeMember(p) ==
  LET c == call[p] IN
  /\ pc[p] = "judge" /\ c.kind \notin AccountKinds
  /\ IF Refused(c) THEN Answer(p)
     ELSE Proceed(p, IF TakesAnOwner(c) THEN "count" ELSE "write")
  /\ UNCHANGED workspace
  /\ Watch

\* plan_account_deletion: blocked by other people left with no owner.  A purge
\* closes a workspace the person is alone in; a deletion only marks the account.
JudgeAccount(p) ==
  LET c == call[p]
      others == Members \ {c.user}
      blocking == others # {} /\ role[c.user] = "owner" /\ ActiveOwners \ {c.user} = {}
  IN
  /\ pc[p] = "judge" /\ c.kind \in AccountKinds
  /\ IF blocking THEN Finish(p)
     ELSE Proceed(p, IF others = {} /\ c.kind = "purge_account" THEN "close" ELSE "write")
  /\ UNCHANGED workspace
  /\ Watch

\* Variant: the last owner counted as one to spare.
CountOwnersOffByOne(p) ==
  /\ pc[p] = "count"
  /\ IF Cardinality(ActiveOwners) < 1 THEN Answer(p) ELSE Proceed(p, "write")
  /\ UNCHANGED workspace
  /\ Watch

\* A strongly consistent count, read again for each member of a bulk call.
CountOwners(p) ==
  /\ pc[p] = "count"
  /\ IF Cardinality(ActiveOwners) <= 1 THEN Answer(p) ELSE Proceed(p, "write")
  /\ UNCHANGED workspace
  /\ Watch

-----------------------------------------------------------------------------
(* Writing it: each write is conditional on its row alone.                 *)

ChangeRole(c) ==
  /\ role' = [role EXCEPT ![c.user] = IF @ = "none" THEN @ ELSE c.to]
  /\ UNCHANGED <<suspended, deleted>>

RemoveMembership(c) ==
  /\ role' = [role EXCEPT ![c.user] = "none"]
  /\ suspended' = suspended \ {c.user}
  /\ UNCHANGED deleted

SetSuspended(c) ==
  /\ suspended' = IF role[c.user] = "none" THEN suspended ELSE suspended \cup {c.user}
  /\ UNCHANGED <<role, deleted>>

ClearSuspended(c) ==
  /\ suspended' = suspended \ {c.user}
  /\ UNCHANGED <<role, deleted>>

MarkDeleted(c) ==
  /\ deleted' = deleted \cup {c.user}
  /\ UNCHANGED <<role, suspended>>

Write(p) ==
  LET c == call[p] IN
  /\ pc[p] = "write"
  /\ \/ c.kind = "change_role" /\ ChangeRole(c)
     \/ c.kind \in {"remove", "deprovision", "purge_account"} /\ RemoveMembership(c)
     \/ c.kind = "suspend" /\ SetSuspended(c)
     \/ c.kind = "reactivate" /\ ClearSuspended(c)
     \/ c.kind = "delete_account" /\ MarkDeleted(c)
  /\ Answer(p)
  /\ UNCHANGED live
  /\ Watch

\* remove_membership and change_role give up after losing every round.
Busy(p) ==
  /\ pc[p] = "write" /\ call[p].kind \notin {"suspend", "reactivate", "delete_account"}
  /\ Answer(p)
  /\ UNCHANGED workspace
  /\ Watch

\* begin_workspace_purge, for a workspace deleted with its only member's account.
CloseWorkspace(p) ==
  /\ pc[p] = "close"
  /\ live' = FALSE
  /\ role' = [u \in Users |-> "none"]
  /\ suspended' = {}
  /\ Finish(p)
  /\ UNCHANGED deleted
  /\ Watch

NextInBulk(p, u) ==
  /\ pc[p] = "more" /\ u # call[p].actor
  /\ call' = [call EXCEPT ![p].user = u]
  /\ Goto(p, "judge")
  /\ UNCHANGED workspace
  /\ Watch

EndBulk(p) ==
  /\ pc[p] = "more"
  /\ Finish(p)
  /\ UNCHANGED workspace
  /\ Watch

\* An accepted invite, a link, a domain or the directory: never as an owner.
Join(u) ==
  /\ live
  /\ role[u] = "none" /\ u \notin deleted
  /\ \E r \in Roles \ {"owner"} : role' = [role EXCEPT ![u] = r]
  /\ UNCHANGED <<live, suspended, deleted, pc, call>>
  /\ Watch

Start(p) ==
  \/ \E kind \in MemberKinds, a \in Users, u \in Users, to \in Roles, bulk \in BOOLEAN :
       StartMemberCall(p, kind, a, u, to, bulk)
  \/ \E u \in Users : StartDeprovision(p, u) \/ StartDeleteAccount(p, u) \/ StartPurgeAccount(p, u)

Step(p) ==
  \/ JudgeMember(p) \/ JudgeAccount(p) \/ CountOwners(p)
  \/ Write(p) \/ Busy(p) \/ CloseWorkspace(p)
  \/ \E u \in Users : NextInBulk(p, u)
  \/ EndBulk(p)

Next == (\E u \in Users : Join(u)) \/ \E p \in Requests : Start(p) \/ Step(p)

Spec == Init /\ [][Next]_vars

-----------------------------------------------------------------------------
(* What the checks are for.                                                *)

\* A workspace keeps an active owner for as long as it lives, by whichever of
\* leaving, demotion, suspension, deprovisioning and account deletion its
\* owners go (LAST_OWNER, "A workspace must keep one owner").
AnOwnerRemains == live => ActiveOwners # {}

\* The checks do their part of that: the last active owner is only ever lost by
\* a write overtaken by a change of its member or of the owners since it judged
\* them, whatever the caller, the call and the order of the requests.
LastOwnerLostOnlyOvertaken ==
  [][live' /\ ActiveOwners # {} /\ ActiveOwners' = {}
       => \E p \in overtaken : pc[p] = "write" /\ pc'[p] # "write"]_vars

\* An owner who goes leaves behind one who can still sign in, "because the last
\* owner must not be able to leave a workspace nobody can then administer"
\* (count_owners).
LeavesAnOwnerWhoCanAct ==
  [][\A p \in Requests :
       /\ pc[p] = "write" /\ pc'[p] # "write" /\ call[p].user \notin deleted
       /\ ActiveOwners' # ActiveOwners /\ ActiveOwners' \subseteq ActiveOwners
       => ActiveOwners' \ deleted' # {}]_vars

\* A request that may move somebody's ownership or suspend them as an owner:
\* an owner's, their own leaving, the directory's, the purge of their account,
\* or one that judged them as something else (OWNER_ONLY).
MayMoveOwnership(p, u) ==
  /\ call[p].user = u
  /\ \/ call[p].rank = "owner"
     \/ call[p].kind \in {"deprovision", "purge_account"}
     \/ call[p].kind = "remove" /\ call[p].actor = u
     \/ p \in overtaken

\* Only an owner grants ownership, or takes it from somebody else or suspends
\* them; beside the exceptions above, and the end of the workspace.
OwnershipMovesByOwners ==
  [][\A u \in Users :
       \/ (role[u] = "owner") # (role'[u] = "owner")
       \/ role[u] = "owner" /\ role'[u] = "owner" /\ (u \in suspended) # (u \in suspended')
       => \/ live' = FALSE
          \/ \E p \in Requests :
               pc[p] = "write" /\ pc'[p] # "write" /\ MayMoveOwnership(p, u)]_vars

-----------------------------------------------------------------------------
(* Why they hold.                                                          *)

\* What a request judged is still so when it writes, unless it was overtaken.
JudgmentStands ==
  \A p \in Requests \ overtaken :
    LET c == call[p] IN
    /\ pc[p] \in Judged /\ c.kind \notin AccountKinds => ~Refused(c)
    /\ pc[p] = "write" /\ (TakesAnOwner(c) \/ (c.kind = "purge_account" /\ role[c.user] = "owner"))
         => ActiveOwners \ {c.user} # {}

OwnersInv == TypeOK /\ JudgmentStands
=============================================================================
