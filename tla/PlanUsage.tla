------------------------------ MODULE PlanUsage ------------------------------
(***************************************************************************)
(* Plan caps kept by conditional counters: common/plan_usage.py over the   *)
(* `counters`, `memberships` and `invites` tables of one workspace.        *)
(*                                                                         *)
(* A request runs as a process whose every call on a table is one action,  *)
(* so any other request, an invite expiring or a plan change can come      *)
(* between a read and the write that relies on it.  The members and the    *)
(* invites rows are modelled; teams, webhooks and API keys take and free   *)
(* their slots through the same `commit` with one row and one delta.       *)
(***************************************************************************)
EXTENDS Integers, FiniteSets

CONSTANTS
  Requests,          \* one process per request, each serving one call
  Users,
  InviteIds,
  Addressee,         \* the user each invite is sent to
  Plans,             \* the ceilings a workspace can be on
  ATTEMPTS,          \* the code's ATTEMPTS, 4 there
  OpKinds,           \* the calls requests make
  RoleAsks,          \* the <<user, role>> changes an admin may ask for
  StraddlingExpiry   \* whether an invite may expire between the moment a
                     \* request builds its delete and the moment it lands

Resources == {"members", "invites"}

\* `admin` and `owner` hold a seat exactly as `member` does.
Roles == {"member", "guest"}

PlanType == [members : Nat, invites : Nat, perSeat : Nat]

ASSUME ConstantsAssumption ==
  /\ IsFiniteSet(Users) /\ Users # {}
  /\ IsFiniteSet(InviteIds) /\ InviteIds # {}
  /\ Addressee \in [InviteIds -> Users]
  /\ Plans \subseteq PlanType /\ Plans # {}
  /\ ATTEMPTS \in Nat \ {0}
  /\ RoleAsks \subseteq Users \X Roles
  /\ StraddlingExpiry \in BOOLEAN

VARIABLES
  members,   \* the workspace membership rows: a role, or "none"
  invites,   \* the invite rows: "none" before, a role, "gone" once deleted
  expired,   \* the invites past their expires_at
  usage,     \* the plan#members and plan#invites rows
  plan,      \* the plan the workspace row names
  pc, op,    \* where each request is, and the call it serves
  cap,       \* the plan each request's commit read
  seen,      \* the usage rows each request holds
  todo, on,  \* the rows it has yet to read or recount, and the one in hand
  counted,   \* its last row count
  phase,     \* which check asked for a recount
  tries, rounds

rows  == <<members, invites, expired>>
local == <<pc, op, cap, seen, todo, on, counted, phase, tries, rounds>>
vars  == <<rows, usage, plan, local>>

-----------------------------------------------------------------------------
(* The rows, and what a count of them answers.                             *)

NoRow == [used |-> 0, guests |-> 0, version |-> -1]

Row == [used : Nat, guests : Nat, version : Nat \cup {-1}]

GreaterOf(a, b) == IF a >= b THEN a ELSE b

\* count_members, count_pending: the rows that hold a slot now.
Holders(r) ==
  IF r = "members" THEN {u \in Users : members[u] \in Roles}
                   ELSE {i \in InviteIds : invites[i] \in Roles /\ i \notin expired}

GuestHolders(r) ==
  IF r = "members" THEN {u \in Users : members[u] = "guest"}
                   ELSE {i \in InviteIds : invites[i] = "guest" /\ i \notin expired}

Count(r) == [used |-> Cardinality(Holders(r)), guests |-> Cardinality(GuestHolders(r))]

-----------------------------------------------------------------------------
(* One call of commit: the deltas and the guest rule each operation passes. *)

OpType == [kind : {"ensure_room", "create_invite", "accept_invite", "join", "leave",
                   "change_role", "delete_invite", "none"},
           user : Users, invite : InviteIds, role : Roles, current : Roles]

Adding(o) ==
  IF o.kind \in {"ensure_room", "accept_invite", "join"} THEN {"members"}
  ELSE IF o.kind = "create_invite" THEN {"invites"} ELSE {}

Freeing(o) ==
  IF o.kind = "leave" THEN {"members"}
  ELSE IF o.kind \in {"accept_invite", "delete_invite"} THEN {"invites"} ELSE {}

Moves(o) ==
  Adding(o) \cup Freeing(o) \cup (IF o.kind = "change_role" THEN {"members"} ELSE {})

GuestShare(role) == IF role = "guest" THEN 1 ELSE 0

UsedDelta(o, r) == IF r \in Adding(o) THEN 1 ELSE IF r \in Freeing(o) THEN -1 ELSE 0

GuestsDelta(o, r) ==
  IF r \in Adding(o) THEN GuestShare(o.role)
  ELSE IF r \in Freeing(o) THEN -GuestShare(o.current)
  ELSE IF r \in Moves(o) THEN GuestShare(o.role) - GuestShare(o.current) ELSE 0

\* The calls that pass a GuestRule, and the rows the rule pins.
AddsGuest(o) == o.kind # "ensure_room" /\ \E r \in Moves(o) : GuestsDelta(o, r) > 0

Pinned(o) ==
  IF ~AddsGuest(o) THEN {} ELSE IF o.kind = "create_invite" THEN Resources ELSE {"members"}

Wanted(o) == Moves(o) \cup Pinned(o)

RoomFits(o, have, pl) == \A r \in Adding(o) : have[r].used + 1 <= pl[r]

\* guest_allowance, judged by _guest_room.
Allowance(pl, seats) == pl.perSeat * GreaterOf(1, seats)

GuestRoomFits(o, have, pl) ==
  AddsGuest(o) =>
    LET m == have["members"]
        guests == m.guests + (IF o.kind = "create_invite" THEN have["invites"].guests ELSE 0)
        seats == m.used - m.guests - (IF o.kind = "change_role" THEN 1 ELSE 0)
    IN guests < Allowance(pl, seats)

Fits(ph, o, have, pl) ==
  IF ph = "room" THEN RoomFits(o, have, pl) ELSE GuestRoomFits(o, have, pl)

\* A release never asks for more than the row it read still holds.
Claim(o, have, r) ==
  [used   |-> GreaterOf(UsedDelta(o, r), -have[r].used),
   guests |-> GreaterOf(GuestsDelta(o, r), -have[r].guests)]

-----------------------------------------------------------------------------
Finished == {"done", "refused", "busy"}

\* From commit's read of the workspace to the transaction.
Committing == {"open", "load", "seed", "seedput", "room", "guest", "recount",
               "reconcile", "rejudge", "write"}

PcType == {"idle", "read", "reread", "setrole", "sweep", "plain"} \cup Committing \cup Finished

TypeOK ==
  /\ members \in [Users -> Roles \cup {"none"}]
  /\ invites \in [InviteIds -> Roles \cup {"none", "gone"}]
  /\ expired \subseteq InviteIds
  /\ usage \in [Resources -> Row]
  /\ plan \in Plans
  /\ pc \in [Requests -> PcType]
  /\ op \in [Requests -> OpType]
  /\ cap \in [Requests -> Plans]
  /\ seen \in [Requests -> [Resources -> Row]]
  /\ todo \in [Requests -> SUBSET Resources]
  /\ on \in [Requests -> Resources]
  /\ counted \in [Requests -> [used : Nat, guests : Nat]]
  /\ phase \in [Requests -> {"room", "guest"}]
  /\ tries \in [Requests -> 0..ATTEMPTS]
  /\ rounds \in [Requests -> 0..ATTEMPTS]

\* The invite a call that names none carries.
AnyInvite == CHOOSE i \in InviteIds : TRUE

NoOp == [kind |-> "none", user |-> Addressee[AnyInvite], invite |-> AnyInvite,
         role |-> "member", current |-> "member"]

\* Each usage row is not yet seeded, or counts its rows exactly.
Init ==
  /\ members \in [Users -> Roles \cup {"none"}]
  /\ invites \in [InviteIds -> Roles \cup {"none"}]
  /\ expired = {}
  /\ \E seeded \in SUBSET Resources :
       usage = [r \in Resources |->
                  IF r \in seeded THEN [used |-> Count(r).used, guests |-> Count(r).guests,
                                        version |-> 0]
                  ELSE NoRow]
  /\ plan \in Plans
  /\ pc = [p \in Requests |-> "idle"]
  /\ op = [p \in Requests |-> NoOp]
  /\ cap = [p \in Requests |-> plan]
  /\ seen = [p \in Requests |-> [r \in Resources |-> NoRow]]
  /\ todo = [p \in Requests |-> {}]
  /\ on = [p \in Requests |-> "members"]
  /\ counted = [p \in Requests |-> [used |-> 0, guests |-> 0]]
  /\ phase = [p \in Requests |-> "room"]
  /\ tries = [p \in Requests |-> 0]
  /\ rounds = [p \in Requests |-> 0]

-----------------------------------------------------------------------------
(* The calls: what each handler reads before it reaches commit.            *)

Goto(p, where) == pc' = [pc EXCEPT ![p] = where]

Begin(p, kind, u, i, role, where) ==
  /\ pc[p] = "idle"
  /\ op' = [op EXCEPT ![p] = [kind |-> kind, user |-> u, invite |-> i, role |-> role,
                              current |-> role]]
  /\ Goto(p, where)
  /\ UNCHANGED <<rows, usage, plan, cap, seen, todo, on, counted, phase, tries, rounds>>

\* create_invite: a new id, and a member slot only looked at.
BeginCreateInvite(p, i, role) ==
  /\ "create_invite" \in OpKinds
  /\ invites[i] = "none"
  /\ \A q \in Requests : pc[q] \notin Finished /\ op[q].kind \in {"ensure_room", "create_invite"}
                          => op[q].invite # i
  /\ Begin(p, "ensure_room", Addressee[i], i, role, "open")

\* accept_invite: a live token; memberships.get is eventually consistent, so
\* it may still miss a membership.
BeginAccept(p, i) ==
  /\ "accept_invite" \in OpKinds
  /\ invites[i] \in Roles /\ i \notin expired
  /\ \/ Begin(p, "accept_invite", Addressee[i], i, invites[i], "open")
     \/ /\ members[Addressee[i]] # "none"
        /\ Begin(p, "delete_invite", Addressee[i], i, invites[i], "read")

\* join_invite_link, approved domains, SCIM and SSO: always at member.
BeginJoin(p, u) ==
  /\ "join" \in OpKinds
  /\ members[u] = "none"
  /\ Begin(p, "join", u, AnyInvite, "member", "open")

BeginLeave(p, u) ==
  /\ "leave" \in OpKinds
  /\ Begin(p, "leave", u, AnyInvite, "member", "read")

BeginChangeRole(p, u, role) ==
  /\ "change_role" \in OpKinds
  /\ <<u, role>> \in RoleAsks
  /\ Begin(p, "change_role", u, AnyInvite, role, "read")

BeginDeleteInvite(p, i) ==
  /\ "delete_invite" \in OpKinds
  /\ invites[i] # "none"
  /\ Begin(p, "delete_invite", Addressee[i], i, "member", "read")

\* The strongly consistent read remove_membership and change_role start a round with.
ReadMember(p) ==
  LET u == op[p].user IN
  /\ pc[p] = "read" /\ op[p].kind \in {"leave", "change_role"}
  /\ IF members[u] = "none"
     THEN /\ Goto(p, IF op[p].kind = "leave" THEN "sweep" ELSE "done")
          /\ UNCHANGED op
     ELSE /\ op' = [op EXCEPT ![p].current = members[u]]
          /\ Goto(p, IF op[p].kind = "change_role"
                        /\ GuestShare(op[p].role) = GuestShare(members[u])
                     THEN "setrole" ELSE "open")
  /\ UNCHANGED <<rows, usage, plan, cap, seen, todo, on, counted, phase, tries, rounds>>

\* delete_invite: an expired invite holds no slot and is deleted uncounted.
ReadInvite(p) ==
  LET i == op[p].invite IN
  /\ pc[p] = "read" /\ op[p].kind = "delete_invite"
  /\ IF invites[i] \notin Roles
     THEN Goto(p, "done") /\ UNCHANGED op
     ELSE /\ op' = [op EXCEPT ![p].current = invites[i]]
          /\ Goto(p, IF i \in expired THEN "plain" ELSE "open")
  /\ UNCHANGED <<rows, usage, plan, cap, seen, todo, on, counted, phase, tries, rounds>>

-----------------------------------------------------------------------------
(* commit, one attempt.                                                    *)

OpenCommit(p) ==
  /\ pc[p] = "open"
  /\ cap' = [cap EXCEPT ![p] = plan]
  /\ tries' = [tries EXCEPT ![p] = 0]
  /\ todo' = [todo EXCEPT ![p] = Wanted(op[p])]
  /\ Goto(p, "load")
  /\ UNCHANGED <<rows, usage, plan, op, seen, on, counted, phase, rounds>>

\* usage(): a row that is there is held as read; one that is not is seeded first.
ReadUsage(p, r) ==
  /\ pc[p] = "load" /\ r \in todo[p]
  /\ IF usage[r] # NoRow
     THEN /\ seen' = [seen EXCEPT ![p][r] = usage[r]]
          /\ todo' = [todo EXCEPT ![p] = @ \ {r}]
          /\ Goto(p, IF todo[p] = {r} THEN "room" ELSE "load")
          /\ UNCHANGED on
     ELSE /\ on' = [on EXCEPT ![p] = r]
          /\ Goto(p, "seed")
          /\ UNCHANGED <<seen, todo>>
  /\ UNCHANGED <<rows, usage, plan, op, cap, counted, phase, tries, rounds>>

CountToSeed(p) ==
  /\ pc[p] = "seed"
  /\ counted' = [counted EXCEPT ![p] = Count(on[p])]
  /\ Goto(p, "seedput")
  /\ UNCHANGED <<rows, usage, plan, op, cap, seen, todo, on, phase, tries, rounds>>

\* Variant: the seed put without its condition.
SeedUsageUnconditional(p) ==
  /\ pc[p] = "seedput"
  /\ usage' = [usage EXCEPT ![on[p]] = [used |-> counted[p].used, guests |-> counted[p].guests,
                                       version |-> 0]]
  /\ Goto(p, "load")
  /\ UNCHANGED <<rows, plan, op, cap, seen, todo, on, counted, phase, tries, rounds>>

\* seed_plan_usage, conditional on no row existing; usage() then reads again.
SeedUsage(p) ==
  /\ pc[p] = "seedput"
  /\ usage' = [usage EXCEPT ![on[p]] =
                 IF @ = NoRow THEN [used |-> counted[p].used, guests |-> counted[p].guests,
                                    version |-> 0] ELSE @]
  /\ Goto(p, "load")
  /\ UNCHANGED <<rows, plan, op, cap, seen, todo, on, counted, phase, tries, rounds>>

\* Where a request goes once a check passes.
AfterCheck(p, ph) ==
  IF ph = "guest" THEN Goto(p, "write") /\ UNCHANGED op
  ELSE IF op[p].kind = "ensure_room"
  THEN op' = [op EXCEPT ![p].kind = "create_invite"] /\ Goto(p, "open")
  ELSE Goto(p, "guest") /\ UNCHANGED op

\* _room and _guest_room: pass, or recount the rows the check reads.
Check(p) ==
  /\ pc[p] \in {"room", "guest"}
  /\ IF Fits(pc[p], op[p], seen[p], cap[p])
     THEN AfterCheck(p, pc[p]) /\ UNCHANGED <<todo, phase>>
     ELSE /\ todo' = [todo EXCEPT ![p] = IF pc[p] = "room" THEN Adding(op[p]) ELSE Pinned(op[p])]
          /\ phase' = [phase EXCEPT ![p] = pc[p]]
          /\ Goto(p, "recount") /\ UNCHANGED op
  /\ UNCHANGED <<rows, usage, plan, cap, seen, on, counted, tries, rounds>>

CountAgain(p, r) ==
  /\ pc[p] = "recount" /\ r \in todo[p]
  /\ on' = [on EXCEPT ![p] = r]
  /\ counted' = [counted EXCEPT ![p] = Count(r)]
  /\ Goto(p, "reconcile")
  /\ UNCHANGED <<rows, usage, plan, op, cap, seen, todo, phase, tries, rounds>>

\* Variant: the recount written whatever happened since it was read.
ReconcileUnpinned(p) ==
  LET r == on[p]
      fresh == [used |-> counted[p].used, guests |-> counted[p].guests,
                version |-> seen[p][r].version + 1]
  IN
  /\ pc[p] = "reconcile"
  /\ usage' = [usage EXCEPT ![r] = fresh]
  /\ seen' = [seen EXCEPT ![p][r] = fresh]
  /\ todo' = [todo EXCEPT ![p] = @ \ {r}]
  /\ Goto(p, IF todo[p] = {r} THEN "rejudge" ELSE "recount")
  /\ UNCHANGED <<rows, plan, op, cap, on, counted, phase, tries, rounds>>

\* reconcile_plan_usage, pinned to the version seen; a dropped recount rereads.
Reconcile(p) ==
  LET r == on[p]
      fresh == [used |-> counted[p].used, guests |-> counted[p].guests,
                version |-> seen[p][r].version + 1]
  IN
  /\ pc[p] = "reconcile"
  /\ IF usage[r].version = seen[p][r].version
     THEN /\ usage' = [usage EXCEPT ![r] = fresh]
          /\ seen' = [seen EXCEPT ![p][r] = fresh]
     ELSE /\ seen' = [seen EXCEPT ![p][r] = usage[r]]
          /\ UNCHANGED usage
  /\ todo' = [todo EXCEPT ![p] = @ \ {r}]
  /\ Goto(p, IF todo[p] = {r} THEN "rejudge" ELSE "recount")
  /\ UNCHANGED <<rows, plan, op, cap, on, counted, phase, tries, rounds>>

Rejudge(p) ==
  /\ pc[p] = "rejudge"
  /\ IF Fits(phase[p], op[p], seen[p], cap[p])
     THEN AfterCheck(p, phase[p])
     ELSE Goto(p, "refused") /\ UNCHANGED op
  /\ UNCHANGED <<rows, usage, plan, cap, seen, todo, on, counted, phase, tries, rounds>>

-----------------------------------------------------------------------------
(* The transaction: the caller's row actions and the usage row actions.    *)

\* Variant: a removal or role change conditional on the row existing only.
RowsHoldAnyRole(o) ==
  CASE o.kind = "accept_invite" -> members[o.user] = "none" /\ invites[o.invite] \in Roles
    [] o.kind = "create_invite" -> invites[o.invite] = "none"
    [] o.kind = "join"          -> members[o.user] = "none"
    [] o.kind = "delete_invite" -> invites[o.invite] \in Roles
    [] OTHER                    -> members[o.user] # "none"

\* create_action, delete_action, set_role_action and delete_live_action.  The
\* last compares with a time taken when the request built it, before it expired.
RowsHold(o) ==
  CASE o.kind = "create_invite" -> invites[o.invite] = "none"
    [] o.kind = "accept_invite" -> members[o.user] = "none" /\ invites[o.invite] \in Roles
    [] o.kind = "join"          -> members[o.user] = "none"
    [] o.kind = "delete_invite" -> invites[o.invite] \in Roles
    [] OTHER                    -> members[o.user] = o.current

\* Variant: the create trusts the check made before the transaction.
UsageHoldsUncapped(o, have, pl, r) ==
  LET c == Claim(o, have, r) IN
  /\ usage[r] # NoRow
  /\ c.used < 0 => usage[r].used >= -c.used
  /\ c.guests < 0 => usage[r].guests >= -c.guests

\* Variant: the ceiling tested before the addition.
UsageHoldsOffByOne(o, have, pl, r) ==
  UsageHoldsUncapped(o, have, pl, r) /\ (Claim(o, have, r).used > 0 => usage[r].used <= pl[r])

\* plan_usage_action's condition on one row.
UsageHolds(o, have, pl, r) ==
  LET c == Claim(o, have, r) IN
  /\ usage[r] # NoRow
  /\ c.used > 0 => usage[r].used <= pl[r] - c.used
  /\ c.used < 0 => usage[r].used >= -c.used
  /\ c.guests < 0 => usage[r].guests >= -c.guests

\* Variant: a guest judged on rows that may since have moved.
PinsHoldNever(o, have) == TRUE

\* ... and the pins, as a condition of the update or as a plan_usage_check.
PinsHold(o, have) == \A r \in Pinned(o) : usage[r].version = have[r].version

LandRows(o) ==
  /\ members' =
       IF o.kind \in {"accept_invite", "join", "change_role"} THEN [members EXCEPT ![o.user] = o.role]
       ELSE IF o.kind = "leave" THEN [members EXCEPT ![o.user] = "none"] ELSE members
  /\ invites' =
       IF o.kind = "create_invite" THEN [invites EXCEPT ![o.invite] = o.role]
       ELSE IF o.kind \in {"accept_invite", "delete_invite"}
       THEN [invites EXCEPT ![o.invite] = "gone"] ELSE invites
  /\ UNCHANGED expired

LandUsage(o, have) ==
  usage' = [r \in Resources |->
              IF r \in Moves(o)
              THEN [used    |-> usage[r].used + Claim(o, have, r).used,
                    guests  |-> usage[r].guests + Claim(o, have, r).guests,
                    version |-> usage[r].version + 1]
              ELSE usage[r]]

Transact(p) ==
  /\ pc[p] = "write"
  /\ RowsHold(op[p])
  /\ \A r \in Moves(op[p]) : UsageHolds(op[p], seen[p], cap[p], r)
  /\ PinsHold(op[p], seen[p])
  /\ LandRows(op[p])
  /\ LandUsage(op[p], seen[p])
  /\ Goto(p, IF op[p].kind = "leave" THEN "sweep" ELSE "done")
  /\ UNCHANGED <<plan, op, cap, seen, todo, on, counted, phase, tries, rounds>>

\* Variant: one retry too many.
LoseRaceOnceMore(p) ==
  /\ pc[p] = "write"
  /\ tries' = [tries EXCEPT ![p] = @ + 1]
  /\ IF tries[p] < ATTEMPTS
     THEN todo' = [todo EXCEPT ![p] = Wanted(op[p])] /\ Goto(p, "load")
     ELSE Goto(p, "busy") /\ UNCHANGED todo
  /\ UNCHANGED <<rows, usage, plan, op, cap, seen, on, counted, phase, rounds>>

\* A usage row condition failed, or DynamoDB found the rows in another
\* transaction: commit reads the rows again, ATTEMPTS times in all.
LoseRace(p) ==
  /\ pc[p] = "write"
  /\ tries' = [tries EXCEPT ![p] = @ + 1]
  /\ IF tries[p] + 1 < ATTEMPTS
     THEN todo' = [todo EXCEPT ![p] = Wanted(op[p])] /\ Goto(p, "load")
     ELSE Goto(p, "busy") /\ UNCHANGED todo
  /\ UNCHANGED <<rows, usage, plan, op, cap, seen, on, counted, phase, rounds>>

\* One of the caller's own rows failed: commit re-raises and the caller decides.
RowCancelled(p) ==
  LET kind == op[p].kind
      again == rounds[p] + 1 < ATTEMPTS
  IN
  /\ pc[p] = "write"
  /\ ~RowsHold(op[p])
  /\ Goto(p, CASE kind = "accept_invite" -> "reread"
               [] kind = "delete_invite" -> "plain"
               [] kind = "join"          -> "done"
               [] kind = "create_invite" -> "busy"
               [] OTHER                  -> IF again THEN "read" ELSE "busy")
  /\ rounds' = IF kind \in {"leave", "change_role"}
               THEN [rounds EXCEPT ![p] = @ + 1] ELSE rounds
  /\ UNCHANGED <<rows, usage, plan, op, cap, seen, todo, on, counted, phase, tries>>

\* accept_invite after a cancelled transaction: a member already drops the invite.
Reread(p) ==
  /\ pc[p] = "reread"
  /\ IF members[op[p].user] = "none"
     THEN Goto(p, "done") /\ UNCHANGED op
     ELSE op' = [op EXCEPT ![p].kind = "delete_invite"] /\ Goto(p, "read")
  /\ UNCHANGED <<rows, usage, plan, cap, seen, todo, on, counted, phase, tries, rounds>>

-----------------------------------------------------------------------------
(* Writes outside any count.                                               *)

\* set_role: conditional on the row existing, not on the role it holds.
SetRole(p) ==
  /\ pc[p] = "setrole"
  /\ members' = [members EXCEPT ![op[p].user] = IF @ = "none" THEN @ ELSE op[p].role]
  /\ Goto(p, "done")
  /\ UNCHANGED <<invites, expired, usage, plan, op, cap, seen, todo, on, counted, phase,
                 tries, rounds>>

\* memberships.remove_user, the unconditional deletes that end remove_membership.
RemoveUser(p) ==
  /\ pc[p] = "sweep"
  /\ members' = [members EXCEPT ![op[p].user] = "none"]
  /\ Goto(p, "done")
  /\ UNCHANGED <<invites, expired, usage, plan, op, cap, seen, todo, on, counted, phase,
                 tries, rounds>>

\* invites.delete, when the invite expired or its counted delete was cancelled.
DeletePlain(p) ==
  /\ pc[p] = "plain"
  /\ invites' = [invites EXCEPT ![op[p].invite] = IF @ = "none" THEN @ ELSE "gone"]
  /\ Goto(p, "done")
  /\ UNCHANGED <<members, expired, usage, plan, op, cap, seen, todo, on, counted, phase,
                 tries, rounds>>

\* A request that judged the invite live and has not yet written.
Judged(i) ==
  \E p \in Requests : /\ pc[p] \in Committing
                      /\ op[p].kind \in {"accept_invite", "delete_invite"}
                      /\ op[p].invite = i

Expire(i) ==
  /\ invites[i] \in Roles /\ i \notin expired
  /\ StraddlingExpiry \/ ~Judged(i)
  /\ expired' = expired \cup {i}
  /\ UNCHANGED <<members, invites, usage, plan, local>>

\* DynamoDB reclaims a row some time after its expires_at_ttl.
Reclaim(i) ==
  /\ invites[i] \in Roles /\ i \in expired
  /\ invites' = [invites EXCEPT ![i] = "gone"]
  /\ UNCHANGED <<members, expired, usage, plan, local>>

\* The billing webhook moves the workspace to another plan.
ChangePlan ==
  /\ \E pl \in Plans \ {plan} : plan' = pl
  /\ UNCHANGED <<rows, usage, local>>

-----------------------------------------------------------------------------
Start(p) ==
  \/ \E i \in InviteIds, role \in Roles : BeginCreateInvite(p, i, role)
  \/ \E i \in InviteIds : BeginAccept(p, i) \/ BeginDeleteInvite(p, i)
  \/ \E u \in Users : BeginJoin(p, u) \/ BeginLeave(p, u)
  \/ \E u \in Users, role \in Roles : BeginChangeRole(p, u, role)

Step(p) ==
  \/ ReadMember(p) \/ ReadInvite(p) \/ OpenCommit(p)
  \/ \E r \in Resources : ReadUsage(p, r) \/ CountAgain(p, r)
  \/ CountToSeed(p) \/ SeedUsage(p) \/ Check(p) \/ Reconcile(p) \/ Rejudge(p)
  \/ Transact(p) \/ LoseRace(p) \/ RowCancelled(p) \/ Reread(p)
  \/ SetRole(p) \/ RemoveUser(p) \/ DeletePlain(p)

Environment == ChangePlan \/ \E i \in InviteIds : Expire(i) \/ Reclaim(i)

Next == Environment \/ \E p \in Requests : Start(p) \/ Step(p)

Spec == Init /\ [][Next]_vars

-----------------------------------------------------------------------------
(* What the counters promise.                                              *)

\* A usage row that exists counts at least the rows that hold a slot: it may
\* drift high, as plan_usage.py's header allows, and never low.
CountCoversRows ==
  \A r \in Resources : usage[r] # NoRow => Cardinality(Holders(r)) <= usage[r].used

\* Rows only grow in a transaction, and then to no more than the plan that
\* transaction was judged against: racing creates never pass the last slot.
NeverOverCap ==
  [][\A r \in Resources :
       Cardinality(Holders(r))' > Cardinality(Holders(r)) =>
         \E p \in Requests : /\ pc[p] = "write" /\ pc'[p] = "done"
                             /\ Cardinality(Holders(r))' <= cap[p][r]]_vars

\* What keeps it so: a count taken for a seed or a recount still covers the
\* rows when it is written, because nothing counted came between.
PendingCountsCover ==
  \A p \in Requests :
    \/ pc[p] = "seedput" /\ usage[on[p]] = NoRow
    \/ pc[p] = "reconcile" /\ usage[on[p]].version = seen[p][on[p]].version
    => Cardinality(Holders(on[p])) <= counted[p].used

\* A version only grows, so an equal version is the same row.
SeenIsPast ==
  \A r \in Resources :
    /\ usage[r] = NoRow \/ usage[r].version \in Nat
    /\ \A p \in Requests : seen[p][r].version <= usage[r].version

RetriesBounded ==
  \A p \in Requests : pc[p] # "busy" => tries[p] < ATTEMPTS /\ rounds[p] < ATTEMPTS

JudgedLive ==
  \A p \in Requests :
    (pc[p] \in Committing /\ op[p].kind \in {"accept_invite", "delete_invite"})
      => op[p].invite \notin expired

\* The inductive invariant behind CountCoversRows.
CountInv ==
  TypeOK /\ RetriesBounded /\ SeenIsPast /\ JudgedLive /\ PendingCountsCover /\ CountCoversRows

\* The guest share of a row covers the guests among its rows.
GuestsCovered ==
  \A r \in Resources : usage[r] # NoRow => Cardinality(GuestHolders(r)) <= usage[r].guests

\* A guest only joins, or a seat only becomes a guest, while the guests the
\* members row then counts fit the allowance its seats then earn: the pins
\* rerun the check when either row moved under it.
GuestsWithinAllowance ==
  [][Cardinality(GuestHolders("members"))' > Cardinality(GuestHolders("members")) =>
       \E p \in Requests :
         /\ pc[p] = "write" /\ pc'[p] = "done"
         /\ usage'["members"].guests
              <= Allowance(cap[p], usage'["members"].used - usage'["members"].guests)]_vars
=============================================================================
