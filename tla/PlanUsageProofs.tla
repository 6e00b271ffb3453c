--------------------------- MODULE PlanUsageProofs ---------------------------
(***************************************************************************)
(* Proofs about PlanUsage for any number of requests, users, invites and   *)
(* plans: the usage rows never count fewer rows than hold a slot, nor      *)
(* fewer guests, no create lands past the plan it was judged against, no   *)
(* guest past its seats, and nothing is given back that is not held.       *)
(***************************************************************************)
EXTENDS PlanUsage, FiniteSetTheorems, TLAPS

USE ConstantsAssumption

-----------------------------------------------------------------------------
(* Operators of one call.                                                  *)

\* A call moves known rows, each by at most one.
LEMMA DeltaTypes ==
  ASSUME NEW o \in OpType
  PROVE  /\ Adding(o) \subseteq Resources /\ Moves(o) \subseteq Resources
         /\ Pinned(o) \subseteq Resources /\ Wanted(o) \subseteq Resources
         /\ \A r \in Resources : UsedDelta(o, r) \in Int /\ GuestsDelta(o, r) \in Int
<1>1. Adding(o) \subseteq Resources /\ Freeing(o) \subseteq Resources
  BY DEF Adding, Freeing, Resources
<1>2. Moves(o) \subseteq Resources /\ Pinned(o) \subseteq Resources
  BY <1>1 DEF Moves, Pinned, Resources
<1>3. \A r \in Resources : UsedDelta(o, r) \in Int
  BY DEF UsedDelta
<1>4. \A r \in Resources : GuestsDelta(o, r) \in Int
  BY DEF GuestsDelta, GuestShare
<1> QED BY <1>1, <1>2, <1>3, <1>4 DEF Wanted

\* A count of the rows is a pair of numbers.
LEMMA CountType ==
  ASSUME TypeOK, NEW r \in Resources
  PROVE  /\ IsFiniteSet(Holders(r)) /\ IsFiniteSet(GuestHolders(r))
         /\ Count(r) \in [used : Nat, guests : Nat]
<1>1. Holders(r) \subseteq Users \/ Holders(r) \subseteq InviteIds
  BY DEF Holders
<1>2. GuestHolders(r) \subseteq Users \/ GuestHolders(r) \subseteq InviteIds
  BY DEF GuestHolders
<1>3. IsFiniteSet(Holders(r)) /\ IsFiniteSet(GuestHolders(r))
  BY <1>1, <1>2, FS_Subset
<1> QED BY <1>3, FS_CardinalityType DEF Count

\* A call stays well formed when the role it read or its kind is filled in.
LEMMA OpUpdate ==
  ASSUME NEW ops \in [Requests -> OpType], NEW p \in Requests, NEW c \in Roles
  PROVE  [ops EXCEPT ![p].current = c] \in [Requests -> OpType]
<1>1. [ops[p] EXCEPT !.current = c] \in OpType
  BY DEF OpType
<1> QED BY <1>1

\* A check that passes turns a look for room into the create it was for.
LEMMA OpAdvance ==
  ASSUME NEW ops \in [Requests -> OpType], NEW p \in Requests,
         NEW k \in {"create_invite", "delete_invite"}
  PROVE  [ops EXCEPT ![p].kind = k] \in [Requests -> OpType]
<1>1. [ops[p] EXCEPT !.kind = k] \in OpType
  BY DEF OpType
<1> QED BY <1>1

\* A claim is the delta, cut so that it never takes more than the row read held.
LEMMA ClaimBounds ==
  ASSUME NEW o \in OpType, NEW have \in [Resources -> Row], NEW r \in Resources
  PROVE  /\ Claim(o, have, r).used \in Int /\ Claim(o, have, r).guests \in Int
         /\ Claim(o, have, r).used >= UsedDelta(o, r)
         /\ UsedDelta(o, r) >= 0 => Claim(o, have, r).used = UsedDelta(o, r)
<1>1. have[r].used \in Nat /\ have[r].guests \in Nat
  BY DEF Row
<1>2. UsedDelta(o, r) \in Int /\ GuestsDelta(o, r) \in Int
  BY DeltaTypes
<1> QED BY <1>1, <1>2 DEF Claim, GreaterOf

\* A release is only applied to a row that holds as much.
LEMMA LandUsageType ==
  ASSUME TypeOK, NEW o \in OpType, NEW have \in [Resources -> Row], NEW pl,
         \A r \in Moves(o) : UsageHolds(o, have, pl, r), LandUsage(o, have)
  PROVE  usage' \in [Resources -> Row]
<1>1. ASSUME NEW r \in Resources, r \in Moves(o)
      PROVE  [used    |-> usage[r].used + Claim(o, have, r).used,
              guests  |-> usage[r].guests + Claim(o, have, r).guests,
              version |-> usage[r].version + 1] \in Row
  <2>1. /\ usage[r].used \in Nat /\ usage[r].guests \in Nat
        /\ usage[r].version \in Nat \cup {-1}
    BY DEF TypeOK, Row
  <2>2. Claim(o, have, r).used \in Int /\ Claim(o, have, r).guests \in Int
    BY ClaimBounds
  <2>3. /\ Claim(o, have, r).used < 0 => usage[r].used >= -Claim(o, have, r).used
        /\ Claim(o, have, r).guests < 0 => usage[r].guests >= -Claim(o, have, r).guests
    BY <1>1 DEF UsageHolds
  <2>4. usage[r].used + Claim(o, have, r).used \in Nat
    BY <2>1, <2>2, <2>3
  <2>5. usage[r].guests + Claim(o, have, r).guests \in Nat
    BY <2>1, <2>2, <2>3
  <2> QED BY <2>1, <2>4, <2>5 DEF Row
<1>2. \A r \in Resources : usage[r] \in Row
  BY DEF TypeOK
<1> QED BY <1>1, <1>2 DEF LandUsage

-----------------------------------------------------------------------------
(* Types.                                                                  *)

\* The initial states are well typed.
LEMMA InitType == Init => TypeOK /\ RetriesBounded
<1> SUFFICES ASSUME Init PROVE TypeOK /\ RetriesBounded
  OBVIOUS
<1>1. members \in [Users -> Roles \cup {"none"}] /\ invites \in [InviteIds -> Roles \cup {"none", "gone"}]
  BY DEF Init
<1>2. \A r \in Resources : Count(r) \in [used : Nat, guests : Nat]
  <2> TAKE r \in Resources
  <2>1. Holders(r) \subseteq Users \/ Holders(r) \subseteq InviteIds
    BY DEF Holders
  <2>2. GuestHolders(r) \subseteq Users \/ GuestHolders(r) \subseteq InviteIds
    BY DEF GuestHolders
  <2> QED BY <2>1, <2>2, FS_Subset, FS_CardinalityType DEF Count
<1>3. usage \in [Resources -> Row]
  <2>1. NoRow \in Row
    BY DEF NoRow, Row
  <2>2. \A r \in Resources : [used |-> Count(r).used, guests |-> Count(r).guests, version |-> 0] \in Row
    BY <1>2 DEF Row
  <2> QED BY <2>1, <2>2 DEF Init
<1>4. NoOp \in OpType
  BY DEF NoOp, AnyInvite, OpType, Roles
<1>5. NoRow \in Row
  BY DEF NoRow, Row
<1>6. TypeOK
  BY <1>1, <1>3, <1>4, <1>5 DEF Init, TypeOK, PcType, Resources
<1> QED BY <1>6 DEF Init, RetriesBounded

\* Starting a call only fills in its op.
LEMMA BeginType ==
  ASSUME TypeOK, RetriesBounded, NEW p \in Requests,
         NEW kind \in {"ensure_room", "accept_invite", "join", "leave",
                       "change_role", "delete_invite"},
         NEW u \in Users, NEW i \in InviteIds, NEW role \in Roles,
         NEW where \in {"open", "read"}, Begin(p, kind, u, i, role, where)
  PROVE  TypeOK' /\ RetriesBounded'
<1>1. op' \in [Requests -> OpType]
  BY DEF Begin, TypeOK, OpType
<1>2. pc' \in [Requests -> PcType] /\ RetriesBounded'
  BY DEF Begin, Goto, TypeOK, RetriesBounded, PcType, Committing
<1> QED BY <1>1, <1>2 DEF Begin, TypeOK, rows

\* Taking up a call keeps the types.
LEMMA StartType ==
  ASSUME TypeOK, RetriesBounded, NEW p \in Requests, Start(p)
  PROVE  TypeOK' /\ RetriesBounded'
<1>1. ASSUME NEW i \in InviteIds, NEW role \in Roles, BeginCreateInvite(p, i, role)
      PROVE  TypeOK' /\ RetriesBounded'
  <2>1. Addressee[i] \in Users
    OBVIOUS
  <2> QED BY <1>1, <2>1, BeginType DEF BeginCreateInvite
<1>2. ASSUME NEW i \in InviteIds, BeginAccept(p, i)
      PROVE  TypeOK' /\ RetriesBounded'
  <2>1. Addressee[i] \in Users /\ invites[i] \in Roles
    BY <1>2 DEF BeginAccept
  <2> QED BY <1>2, <2>1, BeginType DEF BeginAccept
<1>3. ASSUME NEW i \in InviteIds, BeginDeleteInvite(p, i)
      PROVE  TypeOK' /\ RetriesBounded'
  <2>1. Addressee[i] \in Users /\ "member" \in Roles
    BY DEF Roles
  <2> QED BY <1>3, <2>1, BeginType DEF BeginDeleteInvite
<1>4. AnyInvite \in InviteIds /\ "member" \in Roles
  BY DEF AnyInvite, Roles
<1>5. ASSUME NEW u \in Users, BeginJoin(p, u) \/ BeginLeave(p, u)
      PROVE  TypeOK' /\ RetriesBounded'
  BY <1>4, <1>5, BeginType DEF BeginJoin, BeginLeave
<1>6. ASSUME NEW u \in Users, NEW role \in Roles, BeginChangeRole(p, u, role)
      PROVE  TypeOK' /\ RetriesBounded'
  BY <1>4, <1>6, BeginType DEF BeginChangeRole
<1> QED BY <1>1, <1>2, <1>3, <1>5, <1>6 DEF Start

\* What a request with a well-formed call moves to.
LEMMA AfterCheckType ==
  ASSUME TypeOK, NEW p \in Requests, NEW ph, AfterCheck(p, ph)
  PROVE  op' \in [Requests -> OpType] /\ pc' \in [Requests -> PcType]
         /\ \A q \in Requests : q # p => pc'[q] = pc[q]
<1>1. op' = op \/ op' = [op EXCEPT ![p].kind = "create_invite"]
  BY DEF AfterCheck
<1>2. op' \in [Requests -> OpType]
  <2>1. op \in [Requests -> OpType]
    BY DEF TypeOK
  <2>2. [op EXCEPT ![p].kind = "create_invite"] \in [Requests -> OpType]
    BY <2>1, OpAdvance
  <2> QED BY <1>1, <2>1, <2>2
<1> QED BY <1>2 DEF AfterCheck, Goto, TypeOK, PcType, Committing

\* The steps of a request that write no table.
LEMMA ReadsType ==
  ASSUME TypeOK, RetriesBounded, NEW p \in Requests,
         \/ ReadMember(p) \/ ReadInvite(p) \/ OpenCommit(p) \/ CountToSeed(p) \/ Check(p)
         \/ Rejudge(p) \/ LoseRace(p) \/ RowCancelled(p) \/ Reread(p)
         \/ \E r \in Resources : ReadUsage(p, r) \/ CountAgain(p, r)
  PROVE  TypeOK' /\ RetriesBounded'
<1>0. op[p].user \in Users /\ op[p].invite \in InviteIds /\ op[p] \in OpType
  BY DEF TypeOK, OpType
<1>1. CASE ReadMember(p)
  <2>1. CASE members[op[p].user] = "none"
    BY <1>1, <2>1 DEF ReadMember, Goto, TypeOK, RetriesBounded, rows, PcType, Finished
  <2>2. CASE members[op[p].user] # "none"
    <3>1. members[op[p].user] \in Roles
      BY <1>0, <2>2 DEF TypeOK
    <3>2. op' = [op EXCEPT ![p].current = members[op[p].user]]
      BY <1>1, <2>2 DEF ReadMember
    <3>3. op' \in [Requests -> OpType]
      BY <3>1, <3>2, OpUpdate DEF TypeOK
    <3>4. pc' \in [Requests -> PcType] /\ RetriesBounded'
      BY <1>1, <2>2 DEF ReadMember, Goto, TypeOK, RetriesBounded, PcType, Committing
    <3> QED BY <1>1, <3>3, <3>4 DEF ReadMember, TypeOK, rows
  <2> QED BY <2>1, <2>2
<1>2. CASE ReadInvite(p)
  <2>1. CASE invites[op[p].invite] \notin Roles
    BY <1>2, <2>1 DEF ReadInvite, Goto, TypeOK, RetriesBounded, rows, PcType, Finished
  <2>2. CASE invites[op[p].invite] \in Roles
    <3>2. op' = [op EXCEPT ![p].current = invites[op[p].invite]]
      BY <1>2, <2>2 DEF ReadInvite
    <3>3. op' \in [Requests -> OpType]
      BY <2>2, <3>2, OpUpdate DEF TypeOK
    <3>4. pc' \in [Requests -> PcType] /\ RetriesBounded'
      BY <1>2, <2>2 DEF ReadInvite, Goto, TypeOK, RetriesBounded, PcType, Committing
    <3> QED BY <1>2, <3>3, <3>4 DEF ReadInvite, TypeOK, rows
  <2> QED BY <2>1, <2>2
<1>3. CASE OpenCommit(p)
  <2>1. Wanted(op[p]) \in SUBSET Resources
    BY <1>0, DeltaTypes
  <2> QED BY <1>3, <2>1 DEF OpenCommit, Goto, TypeOK, RetriesBounded, rows, PcType, Committing
<1>4. CASE CountToSeed(p)
  <2>1. Count(on[p]) \in [used : Nat, guests : Nat]
    BY CountType DEF TypeOK
  <2> QED BY <1>4, <2>1 DEF CountToSeed, Goto, TypeOK, RetriesBounded, rows, PcType, Committing
<1>5. CASE Check(p)
  <2>1. Adding(op[p]) \in SUBSET Resources /\ Pinned(op[p]) \in SUBSET Resources
    BY <1>0, DeltaTypes
  <2>2. op' \in [Requests -> OpType] /\ pc' \in [Requests -> PcType] /\ RetriesBounded'
    <3>1. CASE AfterCheck(p, pc[p])
      <4>1. op' \in [Requests -> OpType] /\ pc' \in [Requests -> PcType]
            /\ \A q \in Requests : q # p => pc'[q] = pc[q]
        BY <3>1, AfterCheckType
      <4>2. pc[p] # "busy" /\ UNCHANGED <<tries, rounds>>
        BY <1>5 DEF Check
      <4> QED BY <4>1, <4>2 DEF RetriesBounded
    <3>2. CASE Goto(p, "recount") /\ UNCHANGED op
      BY <1>5, <3>2 DEF Check, Goto, TypeOK, RetriesBounded, PcType, Committing
    <3> QED BY <1>5, <3>1, <3>2 DEF Check
  <2>3. todo' \in [Requests -> SUBSET Resources] /\ phase' \in [Requests -> {"room", "guest"}]
    <3>1. CASE UNCHANGED <<todo, phase>>
      BY <3>1 DEF TypeOK
    <3>2. CASE /\ todo' = [todo EXCEPT ![p] = IF pc[p] = "room" THEN Adding(op[p])
                                                              ELSE Pinned(op[p])]
               /\ phase' = [phase EXCEPT ![p] = pc[p]]
      BY <1>5, <2>1, <3>2 DEF Check, TypeOK
    <3> QED BY <1>5, <3>1, <3>2 DEF Check
  <2> QED BY <1>5, <2>2, <2>3 DEF Check, TypeOK, rows
<1>6. CASE Rejudge(p)
  <2>1. op' \in [Requests -> OpType] /\ pc' \in [Requests -> PcType] /\ RetriesBounded'
    <3>1. CASE AfterCheck(p, phase[p])
      <4>1. op' \in [Requests -> OpType] /\ pc' \in [Requests -> PcType]
            /\ \A q \in Requests : q # p => pc'[q] = pc[q]
        BY <3>1, AfterCheckType
      <4>2. pc[p] # "busy" /\ UNCHANGED <<tries, rounds>>
        BY <1>6 DEF Rejudge
      <4> QED BY <4>1, <4>2 DEF RetriesBounded
    <3>2. CASE Goto(p, "refused") /\ UNCHANGED op
      BY <1>6, <3>2 DEF Rejudge, Goto, TypeOK, RetriesBounded, PcType, Finished
    <3> QED BY <1>6, <3>1, <3>2 DEF Rejudge
  <2> QED BY <1>6, <2>1 DEF Rejudge, TypeOK, rows
<1>7. CASE LoseRace(p)
  <2>1. Wanted(op[p]) \in SUBSET Resources
    BY <1>0, DeltaTypes
  <2>2. tries[p] < ATTEMPTS /\ tries[p] + 1 \in 0..ATTEMPTS
    BY <1>7 DEF LoseRace, RetriesBounded, TypeOK
  <2>3. tries' \in [Requests -> 0..ATTEMPTS] /\ todo' \in [Requests -> SUBSET Resources]
    <3>1. tries' \in [Requests -> 0..ATTEMPTS]
      BY <1>7, <2>2 DEF LoseRace, TypeOK
    <3>2. todo' = todo \/ todo' = [todo EXCEPT ![p] = Wanted(op[p])]
      BY <1>7 DEF LoseRace
    <3>3. todo \in [Requests -> SUBSET Resources]
      BY DEF TypeOK
    <3>4. [todo EXCEPT ![p] = Wanted(op[p])] \in [Requests -> SUBSET Resources]
      BY <2>1, <3>3
    <3> QED BY <3>1, <3>2, <3>3, <3>4
  <2>4. pc' \in [Requests -> PcType] /\ RetriesBounded'
    BY <1>7, <2>2 DEF LoseRace, Goto, TypeOK, RetriesBounded, PcType, Committing, Finished
  <2> QED BY <1>7, <2>3, <2>4 DEF LoseRace, TypeOK, rows
<1>8. CASE RowCancelled(p)
  <2>1. rounds[p] < ATTEMPTS /\ rounds[p] + 1 \in 0..ATTEMPTS
    BY <1>8 DEF RowCancelled, RetriesBounded, TypeOK
  <2>2. rounds' \in [Requests -> 0..ATTEMPTS]
    BY <1>8, <2>1 DEF RowCancelled, TypeOK
  <2>3. pc' \in [Requests -> PcType]
    BY <1>8 DEF RowCancelled, Goto, TypeOK, PcType, Committing, Finished
  <2>4. pc'[p] # "busy" => rounds'[p] < ATTEMPTS
    BY <1>8, <2>1 DEF RowCancelled, Goto, TypeOK
  <2>5. \A q \in Requests : q # p => pc'[q] = pc[q] /\ rounds'[q] = rounds[q]
    BY <1>8 DEF RowCancelled, Goto, TypeOK
  <2> QED BY <1>8, <2>2, <2>3, <2>4, <2>5 DEF RowCancelled, TypeOK, RetriesBounded, rows
<1>9. CASE Reread(p)
  <2>1. op' = op \/ op' = [op EXCEPT ![p].kind = "delete_invite"]
    BY <1>9 DEF Reread
  <2>2. op' \in [Requests -> OpType]
    <3>1. op \in [Requests -> OpType]
      BY DEF TypeOK
    <3>2. [op EXCEPT ![p].kind = "delete_invite"] \in [Requests -> OpType]
      BY <3>1, OpAdvance
    <3> QED BY <2>1, <3>1, <3>2
  <2>3. pc' \in [Requests -> PcType] /\ RetriesBounded'
    BY <1>9 DEF Reread, Goto, TypeOK, RetriesBounded, PcType, Finished
  <2> QED BY <1>9, <2>2, <2>3 DEF Reread, TypeOK, rows
<1>10. ASSUME NEW r \in Resources, ReadUsage(p, r)
       PROVE  TypeOK' /\ RetriesBounded'
  <2>1. pc' \in [Requests -> PcType] /\ RetriesBounded'
    BY <1>10 DEF ReadUsage, Goto, TypeOK, RetriesBounded, PcType, Committing
  <2>2. seen' \in [Requests -> [Resources -> Row]]
    <3>1. usage[r] \in Row
      BY DEF TypeOK
    <3>2. seen' = seen \/ seen' = [seen EXCEPT ![p][r] = usage[r]]
      BY <1>10 DEF ReadUsage
    <3>3. seen \in [Requests -> [Resources -> Row]]
      BY DEF TypeOK
    <3>4. [seen EXCEPT ![p][r] = usage[r]] \in [Requests -> [Resources -> Row]]
      BY <3>1, <3>3
    <3> QED BY <3>2, <3>3, <3>4
  <2>3. todo' \in [Requests -> SUBSET Resources] /\ on' \in [Requests -> Resources]
    <3>1. todo' = todo \/ todo' = [todo EXCEPT ![p] = todo[p] \ {r}]
      BY <1>10 DEF ReadUsage, TypeOK
    <3>2. on' = on \/ on' = [on EXCEPT ![p] = r]
      BY <1>10 DEF ReadUsage
    <3>3. todo \in [Requests -> SUBSET Resources] /\ on \in [Requests -> Resources]
      BY DEF TypeOK
    <3>4. /\ [todo EXCEPT ![p] = todo[p] \ {r}] \in [Requests -> SUBSET Resources]
          /\ [on EXCEPT ![p] = r] \in [Requests -> Resources]
      BY <3>3
    <3> QED BY <3>1, <3>2, <3>3, <3>4
  <2> QED BY <1>10, <2>1, <2>2, <2>3 DEF ReadUsage, TypeOK, rows
<1>11. ASSUME NEW r \in Resources, CountAgain(p, r)
       PROVE  TypeOK' /\ RetriesBounded'
  <2>1. Count(r) \in [used : Nat, guests : Nat]
    BY CountType
  <2> QED BY <1>11, <2>1 DEF CountAgain, Goto, TypeOK, RetriesBounded, rows, PcType, Committing
<1> QED BY <1>1, <1>2, <1>3, <1>4, <1>5, <1>6, <1>7, <1>8, <1>9, <1>10, <1>11

\* The steps that write a table.
LEMMA WritesType ==
  ASSUME TypeOK, RetriesBounded, NEW p \in Requests,
         \/ SeedUsage(p) \/ Reconcile(p) \/ Transact(p)
         \/ SetRole(p) \/ RemoveUser(p) \/ DeletePlain(p)
  PROVE  TypeOK' /\ RetriesBounded'
<1>0. /\ op[p] \in OpType /\ op[p].user \in Users /\ op[p].invite \in InviteIds
      /\ op[p].role \in Roles /\ on[p] \in Resources /\ seen[p] \in [Resources -> Row]
      /\ counted[p].used \in Nat /\ counted[p].guests \in Nat
  BY DEF TypeOK, OpType
<1>1. CASE SeedUsage(p)
  <2>1. [used |-> counted[p].used, guests |-> counted[p].guests, version |-> 0] \in Row
    BY <1>0 DEF Row
  <2>2. usage' \in [Resources -> Row]
    BY <1>0, <1>1, <2>1 DEF SeedUsage, TypeOK
  <2> QED BY <1>1, <2>2 DEF SeedUsage, Goto, TypeOK, RetriesBounded, rows, PcType, Committing
<1>2. CASE Reconcile(p)
  <2> DEFINE fresh == [used |-> counted[p].used, guests |-> counted[p].guests,
                       version |-> seen[p][on[p]].version + 1]
  <2>1. fresh \in Row /\ usage[on[p]] \in Row
    <3>1. seen[p][on[p]].version \in Nat \cup {-1}
      BY <1>0 DEF Row
    <3>2. seen[p][on[p]].version + 1 \in Nat
      BY <3>1
    <3>3. usage[on[p]] \in Row
      BY <1>0 DEF TypeOK
    <3> QED BY <1>0, <3>2, <3>3 DEF Row
  <2> HIDE DEF fresh
  <2>2. usage' \in [Resources -> Row] /\ seen' \in [Requests -> [Resources -> Row]]
    <3>1. CASE usage[on[p]].version = seen[p][on[p]].version
      <4>1. usage' = [usage EXCEPT ![on[p]] = fresh] /\ seen' = [seen EXCEPT ![p][on[p]] = fresh]
        BY <1>2, <3>1 DEF Reconcile, fresh
      <4> QED BY <2>1, <4>1 DEF TypeOK
    <3>2. CASE usage[on[p]].version # seen[p][on[p]].version
      <4>1. usage' = usage /\ seen' = [seen EXCEPT ![p][on[p]] = usage[on[p]]]
        BY <1>2, <3>2 DEF Reconcile
      <4> QED BY <2>1, <4>1 DEF TypeOK
    <3> QED BY <3>1, <3>2
  <2>3. pc' \in [Requests -> PcType] /\ RetriesBounded'
    BY <1>2 DEF Reconcile, Goto, TypeOK, RetriesBounded, PcType, Committing
  <2>4. todo' \in [Requests -> SUBSET Resources]
    BY <1>2 DEF Reconcile, TypeOK
  <2> QED BY <1>2, <2>2, <2>3, <2>4 DEF Reconcile, TypeOK, rows
<1>3. CASE Transact(p)
  <2>1. usage' \in [Resources -> Row]
    BY <1>0, <1>3, LandUsageType DEF Transact
  <2>2. members' \in [Users -> Roles \cup {"none"}]
    BY <1>0, <1>3 DEF Transact, LandRows, TypeOK
  <2>3. invites' \in [InviteIds -> Roles \cup {"none", "gone"}]
    BY <1>0, <1>3 DEF Transact, LandRows, TypeOK
  <2>4. pc' \in [Requests -> PcType] /\ RetriesBounded'
    BY <1>3 DEF Transact, Goto, TypeOK, RetriesBounded, PcType, Finished
  <2> QED BY <1>3, <2>1, <2>2, <2>3, <2>4 DEF Transact, LandRows, TypeOK
<1>4. CASE SetRole(p)
  <2>1. members' \in [Users -> Roles \cup {"none"}]
    BY <1>0, <1>4 DEF SetRole, TypeOK
  <2> QED BY <1>4, <2>1 DEF SetRole, Goto, TypeOK, RetriesBounded, PcType, Finished
<1>5. CASE RemoveUser(p)
  <2>1. members' \in [Users -> Roles \cup {"none"}]
    BY <1>0, <1>5 DEF RemoveUser, TypeOK
  <2> QED BY <1>5, <2>1 DEF RemoveUser, Goto, TypeOK, RetriesBounded, PcType, Finished
<1>6. CASE DeletePlain(p)
  <2>1. invites' \in [InviteIds -> Roles \cup {"none", "gone"}]
    BY <1>0, <1>6 DEF DeletePlain, TypeOK
  <2> QED BY <1>6, <2>1 DEF DeletePlain, Goto, TypeOK, RetriesBounded, PcType, Finished
<1> QED BY <1>1, <1>2, <1>3, <1>4, <1>5, <1>6

\* Every step keeps the types.
LEMMA NextType ==
  ASSUME TypeOK, RetriesBounded, [Next]_vars
  PROVE  TypeOK' /\ RetriesBounded'
<1>1. CASE UNCHANGED vars
  BY <1>1 DEF vars, rows, local, TypeOK, RetriesBounded
<1>2. CASE Environment
  <2>1. CASE ChangePlan
    BY <2>1 DEF ChangePlan, rows, local, TypeOK, RetriesBounded
  <2>2. ASSUME NEW i \in InviteIds, Expire(i) PROVE TypeOK' /\ RetriesBounded'
    BY <2>2 DEF Expire, local, TypeOK, RetriesBounded
  <2>3. ASSUME NEW i \in InviteIds, Reclaim(i) PROVE TypeOK' /\ RetriesBounded'
    <3>1. invites' \in [InviteIds -> Roles \cup {"none", "gone"}]
      BY <2>3 DEF Reclaim, TypeOK
    <3> QED BY <2>3, <3>1 DEF Reclaim, local, TypeOK, RetriesBounded
  <2> QED BY <1>2, <2>1, <2>2, <2>3 DEF Environment
<1>3. ASSUME NEW p \in Requests, Start(p) PROVE TypeOK' /\ RetriesBounded'
  BY <1>3, StartType
<1>4. ASSUME NEW p \in Requests, Step(p) PROVE TypeOK' /\ RetriesBounded'
  BY <1>4, ReadsType, WritesType DEF Step
<1> QED BY <1>1, <1>2, <1>3, <1>4 DEF Next

\* Every value stays in its type, and no request retries past ATTEMPTS.
THEOREM TypeCorrect == Spec => [](TypeOK /\ RetriesBounded)
<1>1. Init => TypeOK /\ RetriesBounded
  BY InitType
<1>2. TypeOK /\ RetriesBounded /\ [Next]_vars => TypeOK' /\ RetriesBounded'
  BY NextType
<1> QED BY <1>1, <1>2, PTL DEF Spec

-----------------------------------------------------------------------------
(* Sizes.                                                                  *)

\* A subset of a finite set holds no more elements.
LEMMA CardSubset ==
  ASSUME NEW S, IsFiniteSet(S), NEW T \in SUBSET S
  PROVE  Cardinality(T) \in Nat /\ Cardinality(S) \in Nat /\ Cardinality(T) <= Cardinality(S)
  BY FS_Subset, FS_CardinalityType

\* A set with at most one element more holds at most one more.
LEMMA CardGrow ==
  ASSUME NEW S, IsFiniteSet(S), NEW x, NEW T \in SUBSET (S \cup {x})
  PROVE  Cardinality(T) <= Cardinality(S) + 1
<1>1. IsFiniteSet(S \cup {x}) /\ Cardinality(S \cup {x}) <= Cardinality(S) + 1
  <2>1. Cardinality(S) \in Nat
    BY FS_CardinalityType
  <2>2. /\ IsFiniteSet(S \cup {x})
        /\ Cardinality(S \cup {x}) = IF x \in S THEN Cardinality(S) ELSE Cardinality(S) + 1
    BY FS_AddElement
  <2> QED BY <2>1, <2>2
<1>2. Cardinality(T) <= Cardinality(S \cup {x}) /\ Cardinality(T) \in Nat
      /\ Cardinality(S \cup {x}) \in Nat
  BY <1>1, CardSubset
<1> QED BY <1>1, <1>2, FS_CardinalityType

\* A set that lost an element holds one fewer.
LEMMA CardShrink ==
  ASSUME NEW S, IsFiniteSet(S), NEW x \in S, NEW T \in SUBSET (S \ {x})
  PROVE  Cardinality(T) <= Cardinality(S) - 1
<1>1. IsFiniteSet(S \ {x}) /\ Cardinality(S \ {x}) = Cardinality(S) - 1
  BY FS_RemoveElement
<1> QED BY <1>1, CardSubset

-----------------------------------------------------------------------------
(* How the rows that hold a slot change.                                   *)

\* The rows that hold a slot are finitely many.
LEMMA HoldersFinite == \A r \in Resources : IsFiniteSet(Holders(r)')
<1> TAKE r \in Resources
<1>1. Holders(r)' \subseteq Users \/ Holders(r)' \subseteq InviteIds
  BY DEF Holders
<1> QED BY <1>1, FS_Subset

\* A transaction moves them by no more than the delta it counts.
LEMMA TransactHolders ==
  ASSUME TypeOK, JudgedLive, NEW p \in Requests, Transact(p), NEW r \in Resources
  PROVE  Cardinality(Holders(r)') <= Cardinality(Holders(r)) + UsedDelta(op[p], r)
<1> DEFINE o == op[p]
<1>0. /\ o \in OpType /\ o.user \in Users /\ o.invite \in InviteIds /\ o.role \in Roles
      /\ o.current \in Roles /\ "none" \notin Roles /\ "gone" \notin Roles
      /\ pc[p] = "write" /\ RowsHold(o) /\ LandRows(o)
  BY DEF TypeOK, OpType, Roles, Transact
<1>1. IsFiniteSet(Holders(r)) /\ Cardinality(Holders(r)) \in Nat
  BY CountType, FS_CardinalityType
<1>2. CASE r = "members" /\ o.kind \in {"accept_invite", "join"}
  <2>1. Holders(r)' \in SUBSET (Holders(r) \cup {o.user})
    BY <1>0, <1>2 DEF LandRows, Holders, TypeOK
  <2>2. UsedDelta(o, r) = 1
    BY <1>2 DEF UsedDelta, Adding
  <2> QED BY <1>1, <2>1, <2>2, CardGrow
<1>3. CASE r = "members" /\ o.kind = "leave"
  <2>1. o.user \in Holders(r) /\ Holders(r)' \in SUBSET (Holders(r) \ {o.user})
    BY <1>0, <1>3 DEF LandRows, RowsHold, Holders, TypeOK
  <2>2. UsedDelta(o, r) = -1
    BY <1>3 DEF UsedDelta, Adding, Freeing
  <2> QED BY <1>1, <2>1, <2>2, CardShrink
<1>4. CASE r = "members" /\ o.kind \notin {"accept_invite", "join", "leave"}
  <2>1. Holders(r)' \in SUBSET Holders(r)
    BY <1>0, <1>4 DEF LandRows, RowsHold, Holders, TypeOK, OpType
  <2>2. UsedDelta(o, r) \in {0, 1}
    BY <1>4 DEF UsedDelta, Freeing
  <2> QED BY <1>1, <2>1, <2>2, CardSubset
<1>5. CASE r = "invites" /\ o.kind = "create_invite"
  <2>1. Holders(r)' \in SUBSET (Holders(r) \cup {o.invite})
    BY <1>0, <1>5 DEF LandRows, Holders, TypeOK
  <2>2. UsedDelta(o, r) = 1
    BY <1>5 DEF UsedDelta, Adding
  <2> QED BY <1>1, <2>1, <2>2, CardGrow
<1>6. CASE r = "invites" /\ o.kind \in {"accept_invite", "delete_invite"}
  <2>1. o.invite \notin expired
    BY <1>0, <1>6 DEF JudgedLive, Committing
  <2>2. o.invite \in Holders(r) /\ Holders(r)' \in SUBSET (Holders(r) \ {o.invite})
    BY <1>0, <1>6, <2>1 DEF LandRows, RowsHold, Holders, TypeOK
  <2>3. UsedDelta(o, r) = -1
    BY <1>6 DEF UsedDelta, Adding, Freeing
  <2> QED BY <1>1, <2>2, <2>3, CardShrink
<1>7. CASE r = "invites" /\ o.kind \notin {"create_invite", "accept_invite", "delete_invite"}
  <2>1. Holders(r)' \in SUBSET Holders(r)
    BY <1>0, <1>7 DEF LandRows, Holders, TypeOK
  <2>2. UsedDelta(o, r) = 0
    BY <1>7 DEF UsedDelta, Adding, Freeing
  <2> QED BY <1>1, <2>1, <2>2, CardSubset
<1> QED BY <1>2, <1>3, <1>4, <1>5, <1>6, <1>7 DEF Resources

\* Nothing else adds a row that holds a slot.
LEMMA OtherStepsShrink ==
  ASSUME TypeOK, [Next]_vars, \A p \in Requests : ~Transact(p), NEW r \in Resources
  PROVE  Cardinality(Holders(r)') <= Cardinality(Holders(r))
<1>1. Holders(r)' \in SUBSET Holders(r)
  <2>1. CASE UNCHANGED rows
    BY <2>1 DEF rows, Holders
  <2>2. ASSUME NEW i \in InviteIds, Expire(i) \/ Reclaim(i)
        PROVE  Holders(r)' \in SUBSET Holders(r)
    BY <2>2 DEF Expire, Reclaim, Holders, TypeOK, Roles
  <2>3. ASSUME NEW p \in Requests, SetRole(p) \/ RemoveUser(p) \/ DeletePlain(p)
        PROVE  Holders(r)' \in SUBSET Holders(r)
    <3>1. op[p].user \in Users /\ op[p].invite \in InviteIds
      BY DEF TypeOK, OpType
    <3>2. CASE SetRole(p)
      BY <3>1, <3>2 DEF SetRole, Holders, TypeOK
    <3>3. CASE RemoveUser(p)
      BY <3>1, <3>3 DEF RemoveUser, Holders, TypeOK, Roles
    <3>4. CASE DeletePlain(p)
      BY <3>1, <3>4 DEF DeletePlain, Holders, TypeOK, Roles
    <3> QED BY <2>3, <3>2, <3>3, <3>4
  <2>4. ASSUME NEW p \in Requests, Start(p) PROVE UNCHANGED rows
    BY <2>4 DEF Start, BeginCreateInvite, BeginAccept, BeginJoin, BeginLeave, BeginChangeRole,
                BeginDeleteInvite, Begin
  <2>5. ASSUME NEW p \in Requests, Step(p)
        PROVE  UNCHANGED rows \/ SetRole(p) \/ RemoveUser(p) \/ DeletePlain(p)
    BY <2>5 DEF Step, ReadMember, ReadInvite, OpenCommit, ReadUsage, CountAgain, CountToSeed,
                SeedUsage, Check, Reconcile, Rejudge, LoseRace, RowCancelled, Reread
  <2> QED BY <2>1, <2>2, <2>3, <2>4, <2>5 DEF Next, Environment, ChangePlan, vars
<1>2. IsFiniteSet(Holders(r))
  BY CountType
<1> QED BY <1>1, <1>2, CardSubset

-----------------------------------------------------------------------------
(* The inductive invariant.                                                *)

\* A request's step leaves what every other request holds alone.
LEMMA OnlyItsOwn ==
  ASSUME TypeOK, NEW p \in Requests, Start(p) \/ Step(p), NEW q \in Requests, q # p
  PROVE  /\ pc'[q] = pc[q] /\ op'[q] = op[q] /\ on'[q] = on[q]
         /\ seen'[q] = seen[q] /\ counted'[q] = counted[q]
<1>1. ASSUME NEW kind, NEW u, NEW i, NEW role, NEW where, Begin(p, kind, u, i, role, where)
      PROVE  /\ pc'[q] = pc[q] /\ op'[q] = op[q] /\ on'[q] = on[q]
             /\ seen'[q] = seen[q] /\ counted'[q] = counted[q]
  BY <1>1 DEF Begin, Goto, TypeOK
<1>2. CASE Start(p)
  BY <1>1, <1>2 DEF Start, BeginCreateInvite, BeginAccept, BeginJoin, BeginLeave,
                    BeginChangeRole, BeginDeleteInvite
<1>3. CASE ReadMember(p) \/ ReadInvite(p) \/ OpenCommit(p) \/ CountToSeed(p) \/ LoseRace(p)
           \/ RowCancelled(p) \/ Reread(p)
  BY <1>3 DEF ReadMember, ReadInvite, OpenCommit, CountToSeed, LoseRace, RowCancelled, Reread,
              Goto, TypeOK
<1>4. CASE \E r \in Resources : ReadUsage(p, r) \/ CountAgain(p, r)
  BY <1>4 DEF ReadUsage, CountAgain, Goto, TypeOK
<1>5. CASE Check(p) \/ Rejudge(p)
  BY <1>5 DEF Check, Rejudge, AfterCheck, Goto, TypeOK
<1>6. CASE SeedUsage(p) \/ Transact(p) \/ SetRole(p) \/ RemoveUser(p) \/ DeletePlain(p)
  BY <1>6 DEF SeedUsage, Transact, SetRole, RemoveUser, DeletePlain, Goto, TypeOK
<1>7. CASE Reconcile(p)
  BY <1>7 DEF Reconcile, Goto, TypeOK
<1> QED BY <1>2, <1>3, <1>4, <1>5, <1>6, <1>7 DEF Step

\* The environment touches neither the usage rows nor a request.
LEMMA EnvironmentLocal ==
  ASSUME Environment
  PROVE  UNCHANGED <<usage, pc, op, on, seen, counted>>
  BY DEF Environment, ChangePlan, Expire, Reclaim, local

\* Only a seed, a recount and a transaction write a usage row.
LEMMA UsageWriters ==
  ASSUME NEW p \in Requests, Start(p) \/ Step(p), ~SeedUsage(p), ~Reconcile(p), ~Transact(p)
  PROVE  UNCHANGED usage
<1>1. CASE Start(p)
  BY <1>1 DEF Start, BeginCreateInvite, BeginAccept, BeginJoin, BeginLeave, BeginChangeRole,
              BeginDeleteInvite, Begin
<1>2. CASE Step(p)
  BY <1>2 DEF Step, ReadMember, ReadInvite, OpenCommit, ReadUsage, CountAgain, CountToSeed,
              Check, Rejudge, LoseRace, RowCancelled, Reread, SetRole, RemoveUser, DeletePlain
<1> QED BY <1>1, <1>2

\* How a usage row moves: not at all, or to a later version.
LEMMA VersionsGrow ==
  ASSUME TypeOK, SeenIsPast, [Next]_vars, NEW r \in Resources
  PROVE  /\ usage'[r] = usage[r] \/ usage'[r].version > usage[r].version
         /\ usage'[r] = NoRow \/ usage'[r].version \in Nat
<1>0. /\ usage[r] = NoRow \/ usage[r].version \in Nat
      /\ usage[r].version \in Nat \cup {-1} /\ NoRow.version = -1
  BY DEF SeenIsPast, TypeOK, Row, NoRow
<1>1. CASE UNCHANGED usage
  BY <1>0, <1>1
<1>2. ASSUME NEW p \in Requests, SeedUsage(p)
      PROVE  \/ usage'[r] = usage[r]
             \/ usage[r] = NoRow /\ usage'[r].version = 0
  BY <1>2 DEF SeedUsage, TypeOK
<1>3. ASSUME NEW p \in Requests, Reconcile(p)
      PROVE  usage'[r] = usage[r] \/ usage'[r].version = usage[r].version + 1
  BY <1>3 DEF Reconcile, TypeOK
<1>4. ASSUME NEW p \in Requests, Transact(p)
      PROVE  usage'[r] = usage[r] \/ usage'[r].version = usage[r].version + 1
  BY <1>4 DEF Transact, LandUsage
<1>5. \/ UNCHANGED usage
      \/ \E p \in Requests : SeedUsage(p) \/ Reconcile(p) \/ Transact(p)
  BY EnvironmentLocal, UsageWriters DEF Next, vars
<1> QED BY <1>0, <1>1, <1>2, <1>3, <1>4, <1>5

\* What a request saw of a row stays no newer than the row.
LEMMA SeenIsPastStep ==
  ASSUME TypeOK, TypeOK', SeenIsPast, [Next]_vars
  PROVE  SeenIsPast'
<1> SUFFICES ASSUME NEW r \in Resources, NEW q \in Requests
             PROVE  seen'[q][r].version <= usage'[r].version
  BY VersionsGrow DEF SeenIsPast
<1>0. /\ usage[r].version \in Int /\ usage'[r].version \in Int
      /\ seen[q][r].version \in Int /\ seen'[q][r].version \in Int
  BY DEF TypeOK, Row
<1>1. usage[r].version <= usage'[r].version /\ seen[q][r].version <= usage[r].version
  BY <1>0, VersionsGrow DEF SeenIsPast
<1>2. CASE seen'[q][r] = seen[q][r]
  BY <1>0, <1>1, <1>2
<1>3. CASE ReadUsage(q, r)
  <2>1. seen'[q][r] = usage[r] \/ seen'[q][r] = seen[q][r]
    BY <1>3 DEF ReadUsage, TypeOK
  <2> QED BY <1>0, <1>1, <2>1
<1>4. CASE Reconcile(q)
  <2>1. \/ seen'[q][r] = seen[q][r]
        \/ seen'[q][r] = usage'[r]
    BY <1>4 DEF Reconcile, TypeOK
  <2> QED BY <1>0, <1>1, <2>1
<1>5. \/ seen'[q][r] = seen[q][r] \/ ReadUsage(q, r) \/ Reconcile(q)
  <2>1. CASE UNCHANGED vars \/ Environment
    BY <2>1, EnvironmentLocal DEF vars, local
  <2>2. ASSUME NEW p \in Requests, Start(p) \/ Step(p), p # q
        PROVE  seen'[q] = seen[q]
    BY <2>2, OnlyItsOwn
  <2>3. CASE Start(q)
    BY <2>3 DEF Start, BeginCreateInvite, BeginAccept, BeginJoin, BeginLeave, BeginChangeRole,
                BeginDeleteInvite, Begin
  <2>4. CASE Step(q)
    <3>1. ASSUME NEW s \in Resources, ReadUsage(q, s), s # r PROVE seen'[q][r] = seen[q][r]
      BY <3>1 DEF ReadUsage, TypeOK
    <3> QED BY <2>4, <3>1 DEF Step, ReadMember, ReadInvite, OpenCommit, CountAgain, CountToSeed,
              SeedUsage, Check, Rejudge, Transact, LoseRace, RowCancelled, Reread, SetRole,
              RemoveUser, DeletePlain
  <2> QED BY <2>1, <2>2, <2>3, <2>4 DEF Next
<1> QED BY <1>2, <1>3, <1>4, <1>5

\* A step that leaves a request committing a release read its invite, or left the call alone.
LEMMA ReleasingSteps ==
  ASSUME TypeOK, NEW q \in Requests, Step(q), pc'[q] \in Committing,
         op'[q].kind \in {"accept_invite", "delete_invite"}
  PROVE  ReadInvite(q) \/ (pc[q] \in Committing /\ op'[q] = op[q])
<1>0. ASSUME NEW ph, AfterCheck(q, ph) PROVE op'[q] = op[q]
  <2>1. CASE op' = [op EXCEPT ![q].kind = "create_invite"]
    <3>1. op'[q] = [op[q] EXCEPT !.kind = "create_invite"] /\ op[q] \in OpType
      BY <2>1 DEF TypeOK
    <3>2. op'[q].kind = "create_invite"
      BY <3>1 DEF OpType
    <3> QED BY <3>2
  <2> QED BY <1>0, <2>1 DEF AfterCheck
<1>1. CASE Check(q)
  BY <1>0, <1>1 DEF Check, Committing
<1>2. CASE Rejudge(q)
  BY <1>0, <1>2 DEF Rejudge, Committing
<1>3. CASE Reread(q) \/ SetRole(q) \/ RemoveUser(q) \/ DeletePlain(q) \/ Transact(q)
  BY <1>3 DEF Reread, SetRole, RemoveUser, DeletePlain, Transact, Goto, TypeOK, Committing
<1>4. CASE ReadMember(q)
  <2>1. op'[q].kind = op[q].kind
    <3>1. op' = op \/ op' = [op EXCEPT ![q].current = members[op[q].user]]
      BY <1>4 DEF ReadMember
    <3>2. op[q] \in OpType /\ op \in [Requests -> OpType]
      BY DEF TypeOK
    <3>3. CASE op' = [op EXCEPT ![q].current = members[op[q].user]]
      <4>1. op'[q] = [op[q] EXCEPT !.current = members[op[q].user]]
        BY <3>2, <3>3
      <4> QED BY <3>2, <4>1 DEF OpType
    <3> QED BY <3>1, <3>3
  <2> QED BY <1>4, <2>1 DEF ReadMember
<1> QED BY <1>1, <1>2, <1>3, <1>4
        DEF Step, OpenCommit, ReadUsage, CountAgain, CountToSeed, SeedUsage, Reconcile,
            LoseRace, RowCancelled, Committing

\* An invite a request judged live stays so until the request has written.
LEMMA JudgedLiveStep ==
  ASSUME TypeOK, JudgedLive, StraddlingExpiry = FALSE, [Next]_vars
  PROVE  JudgedLive'
<1> DEFINE Releasing(k) == k \in {"accept_invite", "delete_invite"}
<1> SUFFICES ASSUME NEW q \in Requests, pc'[q] \in Committing, Releasing(op'[q].kind)
             PROVE  op'[q].invite \notin expired'
  BY DEF JudgedLive, Committing
<1>1. CASE UNCHANGED <<pc, op, expired>>
  BY <1>1 DEF JudgedLive
<1>2. CASE Environment
  <2>1. pc' = pc /\ op' = op
    BY <1>2, EnvironmentLocal
  <2>2. CASE ChangePlan
    BY <2>1, <2>2 DEF ChangePlan, rows, JudgedLive
  <2>3. ASSUME NEW i \in InviteIds, Expire(i) PROVE op'[q].invite \notin expired'
    <3>1. op[q].invite # i
      BY <2>1, <2>3 DEF Expire, Judged
    <3> QED BY <2>1, <2>3, <3>1 DEF Expire, JudgedLive
  <2>4. ASSUME NEW i \in InviteIds, Reclaim(i) PROVE op'[q].invite \notin expired'
    BY <2>1, <2>4 DEF Reclaim, JudgedLive
  <2> QED BY <1>2, <2>2, <2>3, <2>4 DEF Environment
<1>3. ASSUME NEW p \in Requests, Start(p) \/ Step(p) PROVE expired' = expired
  BY <1>3 DEF Start, BeginCreateInvite, BeginAccept, BeginJoin, BeginLeave, BeginChangeRole,
              BeginDeleteInvite, Begin, Step, ReadMember, ReadInvite, OpenCommit, ReadUsage,
              CountAgain, CountToSeed, SeedUsage, Check, Reconcile, Rejudge, Transact, LandRows,
              LoseRace, RowCancelled, Reread, SetRole, RemoveUser, DeletePlain, rows
<1>4. ASSUME NEW p \in Requests, Start(p) \/ Step(p), p # q
      PROVE  op'[q].invite \notin expired'
  BY <1>3, <1>4, OnlyItsOwn DEF JudgedLive
<1>5. CASE Start(q)
  <2>1. ASSUME NEW kind, NEW u, NEW i, NEW role, NEW where, Begin(q, kind, u, i, role, where)
        PROVE  op'[q].kind = kind /\ op'[q].invite = i /\ pc'[q] = where
    BY <2>1 DEF Begin, Goto, TypeOK
  <2>2. ASSUME NEW i \in InviteIds, BeginAccept(q, i) PROVE op'[q].invite \notin expired'
    <3>1. op'[q].invite = i
      BY <2>1, <2>2 DEF BeginAccept
    <3> QED BY <1>3, <1>5, <2>2, <3>1 DEF BeginAccept
  <2>3. ASSUME NEW i \in InviteIds, NEW role \in Roles, BeginCreateInvite(q, i, role) PROVE FALSE
    BY <2>1, <2>3 DEF BeginCreateInvite
  <2>4. ASSUME NEW i \in InviteIds, BeginDeleteInvite(q, i) PROVE FALSE
    BY <2>1, <2>4 DEF BeginDeleteInvite, Committing
  <2>5. ASSUME NEW u \in Users, BeginJoin(q, u) \/ BeginLeave(q, u) PROVE FALSE
    BY <2>1, <2>5 DEF BeginJoin, BeginLeave
  <2>6. ASSUME NEW u \in Users, NEW role \in Roles, BeginChangeRole(q, u, role) PROVE FALSE
    BY <2>1, <2>6 DEF BeginChangeRole
  <2> QED BY <1>5, <2>2, <2>3, <2>4, <2>5, <2>6 DEF Start
<1>6. CASE Step(q)
  <2>1. CASE ReadInvite(q)
    <3>1. invites[op[q].invite] \in Roles /\ op[q].invite \notin expired
      BY <2>1 DEF ReadInvite, Goto, TypeOK, Committing
    <3>2. op' = [op EXCEPT ![q].current = invites[op[q].invite]]
      BY <2>1, <3>1 DEF ReadInvite
    <3>3. op'[q] = [op[q] EXCEPT !.current = invites[op[q].invite]] /\ op[q] \in OpType
      BY <3>2 DEF TypeOK
    <3>4. op'[q].invite = op[q].invite
      BY <3>3 DEF OpType
    <3> QED BY <1>3, <1>6, <3>1, <3>4
  <2>2. CASE pc[q] \in Committing /\ op'[q] = op[q]
    BY <1>3, <1>6, <2>2 DEF JudgedLive
  <2>3. ReadInvite(q) \/ (pc[q] \in Committing /\ op'[q] = op[q])
    BY <1>6, ReleasingSteps
  <2> QED BY <2>1, <2>2, <2>3
<1> QED BY <1>1, <1>2, <1>4, <1>5, <1>6 DEF Next, vars, rows, local

\* Where the usage row stays the same, the rows it counts only shrink.
LEMMA QuietRowsShrink ==
  ASSUME TypeOK, SeenIsPast, JudgedLive, [Next]_vars, NEW r \in Resources, usage'[r] = usage[r]
  PROVE  Cardinality(Holders(r)') <= Cardinality(Holders(r))
<1>1. CASE \A p \in Requests : ~Transact(p)
  BY <1>1, OtherStepsShrink
<1>2. ASSUME NEW p \in Requests, Transact(p)
      PROVE  Cardinality(Holders(r)') <= Cardinality(Holders(r))
  <2>1. r \notin Moves(op[p])
    <3>1. SUFFICES ASSUME r \in Moves(op[p]) PROVE FALSE
      OBVIOUS
    <3>2. usage'[r].version = usage[r].version + 1 /\ usage[r].version \in Int
      BY <1>2, <3>1 DEF Transact, LandUsage, TypeOK, Row
    <3> QED BY <3>2
  <2>2. UsedDelta(op[p], r) = 0
    BY <2>1 DEF UsedDelta, Moves
  <2>3. Cardinality(Holders(r)) \in Nat
    BY CountType, FS_CardinalityType
  <2> QED BY <1>2, <2>2, <2>3, TransactHolders
<1> QED BY <1>1, <1>2

\* A call starts by reading its row or by opening commit: it holds no count yet.
LEMMA StartOpens ==
  ASSUME TypeOK, NEW p \in Requests, Start(p)
  PROVE  pc'[p] \in {"open", "read"}
<1>1. ASSUME NEW kind, NEW u, NEW i, NEW role, NEW where, Begin(p, kind, u, i, role, where)
      PROVE  pc'[p] = where
  BY <1>1 DEF Begin, Goto, TypeOK
<1>2. CASE \E i \in InviteIds, role \in Roles : BeginCreateInvite(p, i, role)
  BY <1>1, <1>2 DEF BeginCreateInvite
<1>3. CASE \E i \in InviteIds : BeginAccept(p, i) \/ BeginDeleteInvite(p, i)
  BY <1>1, <1>3 DEF BeginAccept, BeginDeleteInvite
<1>4. CASE \E u \in Users : BeginJoin(p, u) \/ BeginLeave(p, u)
  BY <1>1, <1>4 DEF BeginJoin, BeginLeave
<1>5. CASE \E u \in Users, role \in Roles : BeginChangeRole(p, u, role)
  BY <1>1, <1>5 DEF BeginChangeRole
<1> QED BY <1>2, <1>3, <1>4, <1>5 DEF Start

\* A count taken for a seed or a recount goes on covering the rows until it is written, or is discarded.
LEMMA PendingStep ==
  ASSUME TypeOK, TypeOK', SeenIsPast, JudgedLive, PendingCountsCover, [Next]_vars
  PROVE  PendingCountsCover'
<1> SUFFICES ASSUME NEW q \in Requests, NEW r \in Resources, on'[q] = r,
                    \/ pc'[q] = "seedput" /\ usage'[r] = NoRow
                    \/ pc'[q] = "reconcile" /\ usage'[r].version = seen'[q][r].version
             PROVE  Cardinality(Holders(r)') <= counted'[q].used
  <2>1. \A q \in Requests : on'[q] \in Resources
    BY DEF TypeOK
  <2>2. NoRow' = NoRow
    BY DEF NoRow
  <2>3. \A q \in Requests : \A r \in Resources : on'[q] = r => Holders(on[q])' = Holders(r)'
    BY DEF Holders
  <2> QED BY <2>1, <2>2, <2>3 DEF PendingCountsCover
<1>1. ASSUME pc'[q] = pc[q], on'[q] = on[q], seen'[q] = seen[q], counted'[q] = counted[q]
      PROVE  Cardinality(Holders(r)') <= counted'[q].used
  <2>0. /\ seen[q][r].version \in Int /\ usage[r].version \in Int
        /\ usage'[r].version \in Int /\ counted[q].used \in Nat /\ NoRow.version = -1
        /\ usage[r] = NoRow \/ usage[r].version \in Nat
    BY DEF TypeOK, Row, NoRow, SeenIsPast
  <2>1. usage'[r] = usage[r]
    <3>1. CASE usage'[r] = NoRow
      BY <2>0, <3>1, VersionsGrow
    <3>2. CASE usage'[r].version = seen[q][r].version
      BY <2>0, <3>2, VersionsGrow DEF SeenIsPast
    <3> QED BY <1>1, <3>1, <3>2
  <2>2. Cardinality(Holders(r)) <= counted[q].used
    BY <1>1, <2>1 DEF PendingCountsCover
  <2>3. Cardinality(Holders(r)') <= Cardinality(Holders(r))
    BY <2>1, QuietRowsShrink
  <2>4. Cardinality(Holders(r)) \in Nat /\ Cardinality(Holders(r)') \in Nat
    BY CountType, HoldersFinite, FS_CardinalityType
  <2> QED BY <1>1, <2>0, <2>2, <2>3, <2>4
<1>2. CASE UNCHANGED vars
  BY <1>1, <1>2 DEF vars, local
<1>3. CASE Environment
  BY <1>1, <1>3, EnvironmentLocal
<1>4. ASSUME NEW p \in Requests, Start(p) \/ Step(p), p # q
      PROVE  Cardinality(Holders(r)') <= counted'[q].used
  BY <1>1, <1>4, OnlyItsOwn
<1>5. ASSUME UNCHANGED rows, counted'[q] = Count(r)
      PROVE  Cardinality(Holders(r)') <= counted'[q].used
  <2>1. Holders(r)' = Holders(r)
    BY <1>5 DEF Holders, rows
  <2>2. counted'[q].used = Cardinality(Holders(r)) /\ Cardinality(Holders(r)) \in Nat
    BY <1>5, CountType, FS_CardinalityType DEF Count
  <2> QED BY <2>1, <2>2
<1>6. CASE CountToSeed(q)
  BY <1>5, <1>6 DEF CountToSeed, TypeOK
<1>7. ASSUME NEW s \in Resources, CountAgain(q, s)
      PROVE  Cardinality(Holders(r)') <= counted'[q].used
  BY <1>5, <1>7 DEF CountAgain, TypeOK
<1>8. CASE Start(q) \/ Step(q)
  <2>1. ~Start(q)
    BY <1>1, StartOpens
  <2>2. CountToSeed(q) \/ \E s \in Resources : CountAgain(q, s)
    BY <1>8, <2>1 DEF Step, ReadMember, ReadInvite, OpenCommit, ReadUsage, SeedUsage, Check,
           Reconcile, Rejudge, AfterCheck, Transact, LoseRace, RowCancelled, Reread, SetRole,
           RemoveUser, DeletePlain, Goto, TypeOK
  <2> QED BY <1>6, <1>7, <2>2
<1> QED BY <1>2, <1>3, <1>4, <1>8 DEF Next

\* A usage row that covers its rows still covers them after a step.
LEMMA CountCoversStep ==
  ASSUME TypeOK, TypeOK', SeenIsPast, JudgedLive, PendingCountsCover, CountCoversRows, [Next]_vars
  PROVE  CountCoversRows'
<1> SUFFICES ASSUME NEW r \in Resources, usage'[r] # NoRow
             PROVE  Cardinality(Holders(r)') <= usage'[r].used
  BY DEF CountCoversRows, NoRow
<1>0. /\ Cardinality(Holders(r)) \in Nat /\ Cardinality(Holders(r)') \in Nat
      /\ usage[r].used \in Nat
  BY CountType, HoldersFinite, FS_CardinalityType DEF TypeOK, Row
<1>1. CASE usage'[r] = usage[r]
  <2>1. Cardinality(Holders(r)') <= Cardinality(Holders(r))
    BY <1>1, QuietRowsShrink
  <2> QED BY <1>0, <1>1, <2>1 DEF CountCoversRows
<1>2. ASSUME NEW p \in Requests, SeedUsage(p) \/ Reconcile(p), usage'[r] # usage[r]
      PROVE  Cardinality(Holders(r)') <= usage'[r].used
  <2>1. on[p] = r /\ usage'[r].used = counted[p].used /\ counted[p].used \in Nat
    BY <1>2 DEF SeedUsage, Reconcile, TypeOK
  <2>2. Cardinality(Holders(r)) <= counted[p].used
    BY <1>2, <2>1 DEF SeedUsage, Reconcile, PendingCountsCover, TypeOK
  <2>3. \A q \in Requests : ~Transact(q)
    BY <1>2 DEF SeedUsage, Reconcile, Transact, Goto, TypeOK
  <2>4. Cardinality(Holders(r)') <= Cardinality(Holders(r))
    BY <2>3, OtherStepsShrink
  <2> QED BY <1>0, <2>1, <2>2, <2>4
<1>3. ASSUME NEW p \in Requests, Transact(p), usage'[r] # usage[r]
      PROVE  Cardinality(Holders(r)') <= usage'[r].used
  <2>1. op[p] \in OpType /\ seen[p] \in [Resources -> Row]
    BY DEF TypeOK
  <2>2. /\ r \in Moves(op[p])
        /\ usage'[r].used = usage[r].used + Claim(op[p], seen[p], r).used
        /\ usage[r] # NoRow
    BY <1>3 DEF Transact, LandUsage, UsageHolds
  <2>3. /\ Claim(op[p], seen[p], r).used >= UsedDelta(op[p], r)
        /\ Claim(op[p], seen[p], r).used \in Int /\ UsedDelta(op[p], r) \in Int
    BY <2>1, ClaimBounds, DeltaTypes
  <2>4. Cardinality(Holders(r)) <= usage[r].used
    BY <2>2 DEF CountCoversRows
  <2>5. Cardinality(Holders(r)') <= Cardinality(Holders(r)) + UsedDelta(op[p], r)
    BY <1>3, TransactHolders
  <2> QED BY <1>0, <2>2, <2>3, <2>4, <2>5
<1>4. \/ UNCHANGED usage
      \/ \E p \in Requests : SeedUsage(p) \/ Reconcile(p) \/ Transact(p)
  BY EnvironmentLocal, UsageWriters DEF Next, vars
<1> QED BY <1>1, <1>2, <1>3, <1>4

\* The initial states satisfy the counting invariant.
LEMMA InitCount == Init => CountInv
<1> SUFFICES ASSUME Init PROVE CountInv
  OBVIOUS
<1>1. TypeOK /\ RetriesBounded
  BY InitType
<1>2. \A r \in Resources : usage[r] # NoRow => usage[r].used = Cardinality(Holders(r))
                                             /\ usage[r].version = 0
  BY DEF Init, Count
<1>3. CountCoversRows
  <2> SUFFICES ASSUME NEW r \in Resources, usage[r] # NoRow
               PROVE  Cardinality(Holders(r)) <= usage[r].used
    BY DEF CountCoversRows
  <2>1. Cardinality(Holders(r)) \in Nat
    BY <1>1, CountType, FS_CardinalityType
  <2> QED BY <1>2, <2>1
<1>4. SeenIsPast
  <2>1. NoRow.version = -1
    BY DEF NoRow
  <2> QED BY <1>2, <2>1 DEF Init, SeenIsPast
<1>5. JudgedLive /\ PendingCountsCover
  BY DEF Init, JudgedLive, PendingCountsCover, Committing
<1> QED BY <1>1, <1>3, <1>4, <1>5 DEF CountInv

\* The counting invariant is inductive.
LEMMA NextCount ==
  ASSUME CountInv, StraddlingExpiry = FALSE, [Next]_vars
  PROVE  CountInv'
<1>1. TypeOK' /\ RetriesBounded'
  BY NextType DEF CountInv
<1> QED BY <1>1, SeenIsPastStep, JudgedLiveStep, PendingStep, CountCoversStep DEF CountInv

\* Every part of the counting invariant holds: besides the rows, what a request has read
\* is never newer than the row it read, and a count still in hand that can be written
\* covers the rows there are.
THEOREM CountHolds ==
  ASSUME StraddlingExpiry = FALSE
  PROVE  Spec => []CountInv
<1>1. CountInv /\ [Next]_vars => CountInv'
  BY NextCount
<1> QED BY <1>1, InitCount, PTL DEF Spec

\* A usage row never counts fewer rows than hold a slot, however requests
\* interleave, as long as no invite expires under a request that judged it live.
THEOREM CountCovers ==
  ASSUME StraddlingExpiry = FALSE
  PROVE  Spec => []CountCoversRows
<1>1. CountInv => CountCoversRows
  BY DEF CountInv
<1> QED BY <1>1, CountHolds, PTL

\* What one step may do to the rows, given the invariant.
LEMMA CapStep ==
  ASSUME CountInv, [Next]_vars, NEW r \in Resources,
         Cardinality(Holders(r)') > Cardinality(Holders(r))
  PROVE  \E p \in Requests : /\ pc[p] = "write" /\ pc'[p] = "done"
                             /\ Cardinality(Holders(r)') <= cap[p][r]
<1>0. /\ TypeOK /\ JudgedLive /\ CountCoversRows
      /\ Cardinality(Holders(r)) \in Nat /\ Cardinality(Holders(r)') \in Nat
  BY CountType, HoldersFinite, FS_CardinalityType DEF CountInv
<1>1. PICK p \in Requests : Transact(p)
  <2>1. (\A p \in Requests : ~Transact(p)) => Cardinality(Holders(r)') <= Cardinality(Holders(r))
    BY <1>0, OtherStepsShrink
  <2> QED BY <1>0, <2>1
<1>2. op[p] \in OpType /\ seen[p] \in [Resources -> Row] /\ cap[p] \in PlanType
  BY <1>0 DEF TypeOK
<1>3. UsedDelta(op[p], r) = 1 /\ r \in Adding(op[p]) /\ r \in Moves(op[p])
  <2>1. Cardinality(Holders(r)') <= Cardinality(Holders(r)) + UsedDelta(op[p], r)
    BY <1>0, <1>1, TransactHolders
  <2>2. UsedDelta(op[p], r) > 0
    BY <1>0, <1>2, <2>1, DeltaTypes
  <2> QED BY <2>2 DEF UsedDelta, Moves
<1>4. Claim(op[p], seen[p], r).used = 1
  BY <1>2, <1>3, ClaimBounds
<1>5. usage[r] # NoRow /\ usage[r].used <= cap[p][r] - 1
  BY <1>1, <1>3, <1>4 DEF Transact, UsageHolds
<1>6. cap[p][r] \in Nat /\ usage[r].used \in Nat
  BY <1>0, <1>2 DEF Resources, PlanType, TypeOK, Row
<1>7. Cardinality(Holders(r)') <= cap[p][r]
  <2>1. Cardinality(Holders(r)) <= usage[r].used
    BY <1>0, <1>5 DEF CountCoversRows
  <2>2. Cardinality(Holders(r)') <= Cardinality(Holders(r)) + 1
    BY <1>0, <1>1, <1>3, TransactHolders
  <2> QED BY <1>0, <1>5, <1>6, <2>1, <2>2
<1>8. pc[p] = "write" /\ pc'[p] = "done"
  BY <1>0, <1>1, <1>3 DEF Transact, Goto, TypeOK, Adding
<1> QED BY <1>7, <1>8

\* No step takes the rows past the plan its request was judged against, whatever
\* other creates, releases, recounts and plan changes come between.
THEOREM CapHolds ==
  ASSUME StraddlingExpiry = FALSE
  PROVE  Spec => NeverOverCap
<1>1. Init => CountInv
  BY InitCount
<1>2. CountInv /\ [Next]_vars => CountInv'
  BY NextCount
<1>3. CountInv /\ [Next]_vars =>
        \A r \in Resources :
          Cardinality(Holders(r))' > Cardinality(Holders(r)) =>
            \E p \in Requests : /\ pc[p] = "write" /\ pc'[p] = "done"
                                /\ Cardinality(Holders(r))' <= cap[p][r]
  BY CapStep
<1> QED BY <1>1, <1>2, <1>3, PTL DEF Spec, NeverOverCap

-----------------------------------------------------------------------------
(* Guests.  A role that shifts no guest is written outside any count and   *)
(* without the role it read, so a seat taken in between can become a guest *)
(* nobody counted.  These results are about the behaviours where no such   *)
(* write lands on a seat.                                                  *)

\* An uncounted role write makes a guest of no seat.
SeatsKept ==
  \A p \in Requests : SetRole(p) /\ op[p].role = "guest" => members[op[p].user] # "member"

UncountedRolesKeepSeats == [][SeatsKept]_vars

\* An invite a request gives back is sent at the role the request counts for it,
\* unless somebody has given it back already.
InviteRolesKept ==
  \A p \in Requests :
    pc[p] \in Committing /\ op[p].kind \in {"accept_invite", "delete_invite"}
      => invites[op[p].invite] \in {op[p].current, "gone"}

\* The guest share of a count in hand, as PendingCountsCover has the rows.
PendingGuestsCover ==
  \A p \in Requests :
    \/ pc[p] = "seedput" /\ usage[on[p]] = NoRow
    \/ pc[p] = "reconcile" /\ usage[on[p]].version = seen[p][on[p]].version
    => Cardinality(GuestHolders(on[p])) <= counted[p].guests

\* The inductive invariant behind GuestsCovered.
GuestInv == InviteRolesKept /\ PendingGuestsCover /\ GuestsCovered

\* The guests among the rows are finitely many, after a step too.
LEMMA GuestsFinite == \A r \in Resources : IsFiniteSet(GuestHolders(r)')
<1> TAKE r \in Resources
<1>1. GuestHolders(r)' \subseteq Users \/ GuestHolders(r)' \subseteq InviteIds
  BY DEF GuestHolders
<1> QED BY <1>1, FS_Subset

\* A claim takes no more guests than the delta, and adds all the delta adds.
LEMMA ClaimGuests ==
  ASSUME NEW o \in OpType, NEW have \in [Resources -> Row], NEW r \in Resources
  PROVE  /\ Claim(o, have, r).guests \in Int
         /\ Claim(o, have, r).guests >= GuestsDelta(o, r)
         /\ GuestsDelta(o, r) >= 0 => Claim(o, have, r).guests = GuestsDelta(o, r)
<1>1. have[r].guests \in Nat
  BY DEF Row
<1>2. GuestsDelta(o, r) \in Int
  BY DeltaTypes
<1> QED BY <1>1, <1>2 DEF Claim, GreaterOf

\* A number negated is taken from zero.
LEMMA Negation == \A n \in Int : -n = 0 - n
  OBVIOUS

\* Nothing given back is nothing.
LEMMA NegatedZero ==
  ASSUME NEW n \in Int, n = 0
  PROVE  -n = 0
<1>1. -n = 0 - n
  BY Negation
<1> QED BY <1>1

\* A transaction moves the guests among the members by no more than it counts.
LEMMA TransactMemberGuests ==
  ASSUME TypeOK, NEW p \in Requests, Transact(p)
  PROVE  Cardinality(GuestHolders("members")')
           <= Cardinality(GuestHolders("members")) + GuestsDelta(op[p], "members")
<1> DEFINE o == op[p]
           G == GuestHolders("members")
<1>0. /\ o \in OpType /\ o.user \in Users /\ o.role \in Roles /\ o.current \in Roles
      /\ RowsHold(o) /\ LandRows(o) /\ "members" \in Resources
  BY DEF TypeOK, OpType, Transact, Resources
<1>1. IsFiniteSet(G) /\ Cardinality(G) \in Nat
  BY <1>0, CountType, FS_CardinalityType
<1>2. CASE o.kind \in {"accept_invite", "join", "change_role"} /\ o.role = "guest"
           /\ members[o.user] # "guest"
  <2>1. G' \in SUBSET (G \cup {o.user})
    BY <1>0, <1>2 DEF LandRows, GuestHolders, TypeOK
  <2>2. GuestsDelta(o, "members") = 1
    <3>1. CASE o.kind = "change_role"
      <4>1. o.current = "member"
        BY <1>0, <1>2, <3>1 DEF RowsHold, Roles
      <4> QED BY <1>2, <3>1, <4>1 DEF GuestsDelta, Adding, Freeing, Moves, GuestShare
    <3> QED BY <1>2, <3>1 DEF GuestsDelta, Adding, GuestShare
  <2> QED BY <1>1, <2>1, <2>2, CardGrow
<1>3. CASE o.kind \in {"accept_invite", "join", "change_role"} /\ o.role = "guest"
           /\ members[o.user] = "guest"
  <2>1. o.kind = "change_role" /\ o.current = "guest"
    BY <1>0, <1>3 DEF RowsHold
  <2>2. G' \in SUBSET G
    BY <1>0, <1>3, <2>1 DEF LandRows, GuestHolders, TypeOK
  <2>3. GuestsDelta(o, "members") = 0
    BY <1>3, <2>1 DEF GuestsDelta, Adding, Freeing, Moves, GuestShare
  <2> QED BY <1>1, <2>2, <2>3, CardSubset
<1>4. CASE o.kind \in {"leave", "change_role"} /\ o.current = "guest"
           /\ ~(o.kind = "change_role" /\ o.role = "guest")
  <2>1. o.user \in G /\ G' \in SUBSET (G \ {o.user})
    BY <1>0, <1>4 DEF LandRows, RowsHold, GuestHolders, TypeOK
  <2>2. GuestsDelta(o, "members") = -1
    BY <1>0, <1>4 DEF GuestsDelta, Adding, Freeing, Moves, GuestShare
  <2> QED BY <1>1, <2>1, <2>2, CardShrink
<1>5. CASE /\ ~(o.kind \in {"accept_invite", "join", "change_role"} /\ o.role = "guest")
           /\ ~(o.kind \in {"leave", "change_role"} /\ o.current = "guest")
  <2>1. G' \in SUBSET G
    BY <1>0, <1>5 DEF LandRows, GuestHolders, TypeOK
  <2>2. GuestsDelta(o, "members") \in {0, 1}
    <3>1. CASE "members" \in Adding(o)
      BY <3>1 DEF GuestsDelta, GuestShare
    <3>2. CASE "members" \notin Adding(o) /\ "members" \in Freeing(o)
      <4>1. GuestShare(o.current) = 0
        BY <1>5, <3>2 DEF Freeing, GuestShare
      <4>2. GuestsDelta(o, "members") = -GuestShare(o.current)
        BY <3>2 DEF GuestsDelta
      <4>3. GuestShare(o.current) \in Int
        BY <4>1
      <4> QED BY <4>1, <4>2, <4>3, NegatedZero
    <3>3. CASE "members" \notin Adding(o) /\ "members" \notin Freeing(o)
      <4>1. "members" \in Moves(o) => GuestShare(o.role) = 0 /\ GuestShare(o.current) = 0
        BY <1>5, <3>3 DEF Moves, GuestShare
      <4> QED BY <3>3, <4>1 DEF GuestsDelta
    <3> QED BY <3>1, <3>2, <3>3
  <2> QED BY <1>1, <2>1, <2>2, CardSubset
<1> QED BY <1>2, <1>3, <1>4, <1>5

\* ... and the guests among the invites.
LEMMA TransactInviteGuests ==
  ASSUME TypeOK, JudgedLive, InviteRolesKept, NEW p \in Requests, Transact(p)
  PROVE  Cardinality(GuestHolders("invites")')
           <= Cardinality(GuestHolders("invites")) + GuestsDelta(op[p], "invites")
<1> DEFINE o == op[p]
           G == GuestHolders("invites")
<1>0. /\ o \in OpType /\ o.invite \in InviteIds /\ o.role \in Roles /\ o.current \in Roles
      /\ RowsHold(o) /\ LandRows(o) /\ pc[p] \in Committing /\ "invites" \in Resources
      /\ "gone" \notin Roles
  BY DEF TypeOK, OpType, Transact, Resources, Committing, Roles
<1>1. IsFiniteSet(G) /\ Cardinality(G) \in Nat
  BY <1>0, CountType, FS_CardinalityType
<1>2. CASE o.kind = "create_invite" /\ o.role = "guest"
  <2>1. G' \in SUBSET (G \cup {o.invite})
    BY <1>0, <1>2 DEF LandRows, GuestHolders, TypeOK
  <2>2. GuestsDelta(o, "invites") = 1
    BY <1>2 DEF GuestsDelta, Adding, GuestShare
  <2> QED BY <1>1, <2>1, <2>2, CardGrow
<1>3. CASE o.kind \in {"accept_invite", "delete_invite"} /\ o.current = "guest"
  <2>1. invites[o.invite] = "guest" /\ o.invite \notin expired
    BY <1>0, <1>3 DEF RowsHold, InviteRolesKept, JudgedLive
  <2>2. o.invite \in G /\ G' \in SUBSET (G \ {o.invite})
    BY <1>0, <1>3, <2>1 DEF LandRows, GuestHolders, TypeOK
  <2>3. GuestsDelta(o, "invites") = -1
    BY <1>3 DEF GuestsDelta, Adding, Freeing, GuestShare
  <2> QED BY <1>1, <2>2, <2>3, CardShrink
<1>4. CASE /\ ~(o.kind = "create_invite" /\ o.role = "guest")
           /\ ~(o.kind \in {"accept_invite", "delete_invite"} /\ o.current = "guest")
  <2>1. G' \in SUBSET G
    BY <1>0, <1>4 DEF LandRows, GuestHolders, TypeOK
  <2>2. GuestsDelta(o, "invites") = 0
    <3>1. CASE "invites" \in Adding(o)
      BY <1>4, <3>1 DEF GuestsDelta, GuestShare, Adding
    <3>2. CASE "invites" \notin Adding(o) /\ "invites" \in Freeing(o)
      <4>1. GuestShare(o.current) = 0
        BY <1>4, <3>2 DEF Freeing, GuestShare
      <4>2. GuestsDelta(o, "invites") = -GuestShare(o.current)
        BY <3>2 DEF GuestsDelta
      <4>3. GuestShare(o.current) \in Int
        BY <4>1
      <4> QED BY <4>1, <4>2, <4>3, NegatedZero
    <3>3. CASE "invites" \notin Adding(o) /\ "invites" \notin Freeing(o)
      BY <3>3 DEF GuestsDelta, Moves
    <3> QED BY <3>1, <3>2, <3>3
  <2> QED BY <1>1, <2>1, <2>2, CardSubset
<1> QED BY <1>2, <1>3, <1>4

\* Nothing else adds a guest, when no uncounted role write makes one of a seat.
LEMMA OtherGuestsShrink ==
  ASSUME TypeOK, [Next]_vars, [SeatsKept]_vars, \A p \in Requests : ~Transact(p),
         NEW r \in Resources
  PROVE  Cardinality(GuestHolders(r)') <= Cardinality(GuestHolders(r))
<1>1. GuestHolders(r)' \in SUBSET GuestHolders(r)
  <2>1. CASE UNCHANGED rows
    BY <2>1 DEF rows, GuestHolders
  <2>2. ASSUME NEW i \in InviteIds, Expire(i) \/ Reclaim(i)
        PROVE  GuestHolders(r)' \in SUBSET GuestHolders(r)
    BY <2>2 DEF Expire, Reclaim, GuestHolders, TypeOK
  <2>3. ASSUME NEW p \in Requests, SetRole(p) \/ RemoveUser(p) \/ DeletePlain(p)
        PROVE  GuestHolders(r)' \in SUBSET GuestHolders(r)
    <3>1. op[p].user \in Users /\ op[p].invite \in InviteIds
      BY DEF TypeOK, OpType
    <3>2. CASE SetRole(p)
      <4>1. op[p].role = "guest" => members[op[p].user] # "member"
        <5>1. pc'[p] # pc[p]
          BY <3>2 DEF SetRole, Goto, TypeOK
        <5> QED BY <3>2, <5>1 DEF SeatsKept, vars, local
      <4>2. members[op[p].user] \in {"member", "guest", "none"}
        BY <3>1 DEF TypeOK, Roles
      <4> QED BY <3>1, <3>2, <4>1, <4>2 DEF SetRole, GuestHolders, TypeOK
    <3>3. CASE RemoveUser(p)
      BY <3>1, <3>3 DEF RemoveUser, GuestHolders, TypeOK
    <3>4. CASE DeletePlain(p)
      BY <3>1, <3>4 DEF DeletePlain, GuestHolders, TypeOK
    <3> QED BY <2>3, <3>2, <3>3, <3>4
  <2>4. ASSUME NEW p \in Requests, Start(p) PROVE UNCHANGED rows
    BY <2>4 DEF Start, BeginCreateInvite, BeginAccept, BeginJoin, BeginLeave, BeginChangeRole,
                BeginDeleteInvite, Begin
  <2>5. ASSUME NEW p \in Requests, Step(p)
        PROVE  UNCHANGED rows \/ SetRole(p) \/ RemoveUser(p) \/ DeletePlain(p)
    BY <2>5 DEF Step, ReadMember, ReadInvite, OpenCommit, ReadUsage, CountAgain, CountToSeed,
                SeedUsage, Check, Reconcile, Rejudge, LoseRace, RowCancelled, Reread
  <2> QED BY <2>1, <2>2, <2>3, <2>4, <2>5 DEF Next, Environment, ChangePlan, vars
<1>2. IsFiniteSet(GuestHolders(r))
  BY CountType
<1> QED BY <1>1, <1>2, CardSubset

\* The guests a transaction moves are the guests it counts, on either row.
LEMMA TransactGuests ==
  ASSUME TypeOK, JudgedLive, InviteRolesKept, NEW p \in Requests, Transact(p), NEW r \in Resources
  PROVE  Cardinality(GuestHolders(r)') <= Cardinality(GuestHolders(r)) + GuestsDelta(op[p], r)
<1>1. CASE r = "members"
  <2>1. GuestHolders("members")' = GuestHolders(r)'
    BY <1>1
  <2> QED BY <1>1, <2>1, TransactMemberGuests
<1>2. CASE r = "invites"
  <2>1. GuestHolders("invites")' = GuestHolders(r)'
    BY <1>2
  <2> QED BY <1>2, <2>1, TransactInviteGuests
<1> QED BY <1>1, <1>2 DEF Resources

\* Where the usage row stays the same, the guests it counts only go.
LEMMA QuietGuestsShrink ==
  ASSUME TypeOK, JudgedLive, InviteRolesKept, [Next]_vars, [SeatsKept]_vars,
         NEW r \in Resources, usage'[r] = usage[r]
  PROVE  Cardinality(GuestHolders(r)') <= Cardinality(GuestHolders(r))
<1>1. CASE \A p \in Requests : ~Transact(p)
  BY <1>1, OtherGuestsShrink
<1>2. ASSUME NEW p \in Requests, Transact(p)
      PROVE  Cardinality(GuestHolders(r)') <= Cardinality(GuestHolders(r))
  <2>1. r \notin Moves(op[p])
    <3>1. SUFFICES ASSUME r \in Moves(op[p]) PROVE FALSE
      OBVIOUS
    <3>2. usage'[r].version = usage[r].version + 1 /\ usage[r].version \in Int
      BY <1>2, <3>1 DEF Transact, LandUsage, TypeOK, Row
    <3> QED BY <3>2
  <2>2. GuestsDelta(op[p], r) = 0
    BY <2>1 DEF GuestsDelta, Moves
  <2>3. Cardinality(GuestHolders(r)) \in Nat
    BY CountType, FS_CardinalityType
  <2> QED BY <1>2, <2>2, <2>3, TransactGuests
<1> QED BY <1>1, <1>2

\* A count in hand goes on covering the guests until it is written, or is discarded.
LEMMA PendingGuestsStep ==
  ASSUME TypeOK, TypeOK', SeenIsPast, JudgedLive, InviteRolesKept, PendingGuestsCover,
         [Next]_vars, [SeatsKept]_vars
  PROVE  PendingGuestsCover'
<1> SUFFICES ASSUME NEW q \in Requests, NEW r \in Resources, on'[q] = r,
                    \/ pc'[q] = "seedput" /\ usage'[r] = NoRow
                    \/ pc'[q] = "reconcile" /\ usage'[r].version = seen'[q][r].version
             PROVE  Cardinality(GuestHolders(r)') <= counted'[q].guests
  <2>1. \A q \in Requests : on'[q] \in Resources
    BY DEF TypeOK
  <2>2. NoRow' = NoRow
    BY DEF NoRow
  <2>3. \A q \in Requests : \A r \in Resources :
          on'[q] = r => GuestHolders(on[q])' = GuestHolders(r)'
    BY DEF GuestHolders
  <2> QED BY <2>1, <2>2, <2>3 DEF PendingGuestsCover
<1>1. ASSUME pc'[q] = pc[q], on'[q] = on[q], seen'[q] = seen[q], counted'[q] = counted[q]
      PROVE  Cardinality(GuestHolders(r)') <= counted'[q].guests
  <2>0. /\ seen[q][r].version \in Int /\ usage[r].version \in Int
        /\ usage'[r].version \in Int /\ counted[q].guests \in Nat /\ NoRow.version = -1
        /\ usage[r] = NoRow \/ usage[r].version \in Nat
    BY DEF TypeOK, Row, NoRow, SeenIsPast
  <2>1. usage'[r] = usage[r]
    <3>1. CASE usage'[r] = NoRow
      BY <2>0, <3>1, VersionsGrow
    <3>2. CASE usage'[r].version = seen[q][r].version
      BY <2>0, <3>2, VersionsGrow DEF SeenIsPast
    <3> QED BY <1>1, <3>1, <3>2
  <2>2. Cardinality(GuestHolders(r)) <= counted[q].guests
    BY <1>1, <2>1 DEF PendingGuestsCover
  <2>3. Cardinality(GuestHolders(r)') <= Cardinality(GuestHolders(r))
    BY <2>1, QuietGuestsShrink
  <2>4. Cardinality(GuestHolders(r)) \in Nat /\ Cardinality(GuestHolders(r)') \in Nat
    BY CountType, GuestsFinite, FS_CardinalityType
  <2> QED BY <1>1, <2>0, <2>2, <2>3, <2>4
<1>2. CASE UNCHANGED vars
  BY <1>1, <1>2 DEF vars, local
<1>3. CASE Environment
  BY <1>1, <1>3, EnvironmentLocal
<1>4. ASSUME NEW p \in Requests, Start(p) \/ Step(p), p # q
      PROVE  Cardinality(GuestHolders(r)') <= counted'[q].guests
  BY <1>1, <1>4, OnlyItsOwn
<1>5. ASSUME UNCHANGED rows, counted'[q] = Count(r)
      PROVE  Cardinality(GuestHolders(r)') <= counted'[q].guests
  <2>1. GuestHolders(r)' = GuestHolders(r)
    BY <1>5 DEF GuestHolders, rows
  <2>2. counted'[q].guests = Cardinality(GuestHolders(r)) /\ Cardinality(GuestHolders(r)) \in Nat
    BY <1>5, CountType, FS_CardinalityType DEF Count
  <2> QED BY <2>1, <2>2
<1>6. CASE CountToSeed(q)
  BY <1>5, <1>6 DEF CountToSeed, TypeOK
<1>7. ASSUME NEW s \in Resources, CountAgain(q, s)
      PROVE  Cardinality(GuestHolders(r)') <= counted'[q].guests
  BY <1>5, <1>7 DEF CountAgain, TypeOK
<1>8. CASE Start(q) \/ Step(q)
  <2>1. ~Start(q)
    BY <1>1, StartOpens
  <2>2. CountToSeed(q) \/ \E s \in Resources : CountAgain(q, s)
    BY <1>8, <2>1 DEF Step, ReadMember, ReadInvite, OpenCommit, ReadUsage, SeedUsage, Check,
           Reconcile, Rejudge, AfterCheck, Transact, LoseRace, RowCancelled, Reread, SetRole,
           RemoveUser, DeletePlain, Goto, TypeOK
  <2> QED BY <1>6, <1>7, <2>2
<1> QED BY <1>2, <1>3, <1>4, <1>8 DEF Next

\* A guest share that covers the guests still covers them after a step.
LEMMA GuestsCoveredStep ==
  ASSUME TypeOK, TypeOK', SeenIsPast, JudgedLive, GuestInv, [Next]_vars, [SeatsKept]_vars
  PROVE  GuestsCovered'
<1> SUFFICES ASSUME NEW r \in Resources, usage'[r] # NoRow
             PROVE  Cardinality(GuestHolders(r)') <= usage'[r].guests
  BY DEF GuestsCovered, NoRow
<1>0. /\ Cardinality(GuestHolders(r)) \in Nat /\ Cardinality(GuestHolders(r)') \in Nat
      /\ usage[r].guests \in Nat
  BY CountType, GuestsFinite, FS_CardinalityType DEF TypeOK, Row
<1>1. CASE usage'[r] = usage[r]
  <2>1. Cardinality(GuestHolders(r)') <= Cardinality(GuestHolders(r))
    BY <1>1, QuietGuestsShrink DEF GuestInv
  <2> QED BY <1>0, <1>1, <2>1 DEF GuestInv, GuestsCovered
<1>2. ASSUME NEW p \in Requests, SeedUsage(p) \/ Reconcile(p), usage'[r] # usage[r]
      PROVE  Cardinality(GuestHolders(r)') <= usage'[r].guests
  <2>1. on[p] = r /\ usage'[r].guests = counted[p].guests /\ counted[p].guests \in Nat
    BY <1>2 DEF SeedUsage, Reconcile, TypeOK
  <2>2. Cardinality(GuestHolders(r)) <= counted[p].guests
    BY <1>2, <2>1 DEF SeedUsage, Reconcile, GuestInv, PendingGuestsCover, TypeOK
  <2>3. \A q \in Requests : ~Transact(q)
    BY <1>2 DEF SeedUsage, Reconcile, Transact, Goto, TypeOK
  <2>4. Cardinality(GuestHolders(r)') <= Cardinality(GuestHolders(r))
    BY <2>3, OtherGuestsShrink
  <2> QED BY <1>0, <2>1, <2>2, <2>4
<1>3. ASSUME NEW p \in Requests, Transact(p), usage'[r] # usage[r]
      PROVE  Cardinality(GuestHolders(r)') <= usage'[r].guests
  <2>1. op[p] \in OpType /\ seen[p] \in [Resources -> Row]
    BY DEF TypeOK
  <2>2. /\ r \in Moves(op[p])
        /\ usage'[r].guests = usage[r].guests + Claim(op[p], seen[p], r).guests
        /\ usage[r] # NoRow
    BY <1>3 DEF Transact, LandUsage, UsageHolds
  <2>3. /\ Claim(op[p], seen[p], r).guests >= GuestsDelta(op[p], r)
        /\ Claim(op[p], seen[p], r).guests \in Int /\ GuestsDelta(op[p], r) \in Int
    BY <2>1, ClaimGuests, DeltaTypes
  <2>4. Cardinality(GuestHolders(r)) <= usage[r].guests
    BY <2>2 DEF GuestInv, GuestsCovered
  <2>5. Cardinality(GuestHolders(r)') <= Cardinality(GuestHolders(r)) + GuestsDelta(op[p], r)
    BY <1>3, TransactGuests DEF GuestInv
  <2> QED BY <1>0, <2>2, <2>3, <2>4, <2>5
<1>4. \/ UNCHANGED usage
      \/ \E p \in Requests : SeedUsage(p) \/ Reconcile(p) \/ Transact(p)
  BY EnvironmentLocal, UsageWriters DEF Next, vars
<1> QED BY <1>1, <1>2, <1>3, <1>4

\* An invite's role is set once: it holds its role, or is gone for good.
LEMMA InvitesKeepRoles ==
  ASSUME TypeOK, [Next]_vars, NEW i \in InviteIds, invites[i] # "none"
  PROVE  invites'[i] \in {invites[i], "gone"}
<1>1. CASE UNCHANGED invites
  BY <1>1
<1>2. ASSUME NEW j \in InviteIds, Reclaim(j) PROVE invites'[i] \in {invites[i], "gone"}
  BY <1>2 DEF Reclaim, TypeOK
<1>3. ASSUME NEW p \in Requests, Transact(p) PROVE invites'[i] \in {invites[i], "gone"}
  <2>1. op[p].kind = "create_invite" => invites[op[p].invite] = "none"
    BY <1>3 DEF Transact, RowsHold
  <2> QED BY <1>3, <2>1 DEF Transact, LandRows, TypeOK
<1>4. ASSUME NEW p \in Requests, DeletePlain(p) PROVE invites'[i] \in {invites[i], "gone"}
  BY <1>4 DEF DeletePlain, TypeOK
<1>5. ASSUME NEW p \in Requests, Start(p) PROVE UNCHANGED invites
  BY <1>5 DEF Start, BeginCreateInvite, BeginAccept, BeginJoin, BeginLeave, BeginChangeRole,
              BeginDeleteInvite, Begin, rows
<1>6. ASSUME NEW p \in Requests, Step(p)
      PROVE  UNCHANGED invites \/ Transact(p) \/ DeletePlain(p)
  BY <1>6 DEF Step, ReadMember, ReadInvite, OpenCommit, ReadUsage, CountAgain, CountToSeed,
              SeedUsage, Check, Reconcile, Rejudge, LoseRace, RowCancelled, Reread, SetRole,
              RemoveUser, rows
<1> QED BY <1>1, <1>2, <1>3, <1>4, <1>5, <1>6
        DEF Next, Environment, ChangePlan, Expire, vars, rows

\* A request takes up an invite at the role it reads in the row, and keeps it.
LEMMA InviteRolesStep ==
  ASSUME TypeOK, InviteRolesKept, [Next]_vars
  PROVE  InviteRolesKept'
<1> DEFINE Releasing(k) == k \in {"accept_invite", "delete_invite"}
<1> SUFFICES ASSUME NEW q \in Requests, pc'[q] \in Committing, Releasing(op'[q].kind)
             PROVE  invites'[op'[q].invite] \in {op'[q].current, "gone"}
  BY DEF InviteRolesKept, Committing
<1>0. /\ op[q] \in OpType /\ op \in [Requests -> OpType] /\ op[q].invite \in InviteIds
      /\ "none" \notin Roles /\ \A i \in InviteIds : "none" # "gone" /\ invites[i] # "none" =>
           invites'[i] \in {invites[i], "gone"}
  BY InvitesKeepRoles DEF TypeOK, OpType, Roles
<1>1. ASSUME pc[q] \in Committing, op'[q] = op[q]
      PROVE  invites'[op'[q].invite] \in {op'[q].current, "gone"}
  <2>1. invites[op[q].invite] \in {op[q].current, "gone"}
    BY <1>1 DEF InviteRolesKept
  <2>2. invites[op[q].invite] # "none"
    <3>1. op[q].current \in Roles
      BY <1>0 DEF OpType
    <3> QED BY <1>0, <2>1, <3>1
  <2> QED BY <1>0, <1>1, <2>1, <2>2
<1>2. CASE UNCHANGED vars \/ Environment
  <2>1. pc' = pc /\ op' = op
    BY <1>2, EnvironmentLocal DEF vars, local
  <2> QED BY <1>1, <2>1 DEF Committing
<1>3. ASSUME NEW p \in Requests, Start(p) \/ Step(p), p # q
      PROVE  invites'[op'[q].invite] \in {op'[q].current, "gone"}
  BY <1>1, <1>3, OnlyItsOwn DEF Committing
<1>4. ASSUME NEW i \in InviteIds, invites[i] \in Roles, op'[q].invite = i,
             op'[q].current = invites[i]
      PROVE  invites'[op'[q].invite] \in {op'[q].current, "gone"}
  BY <1>0, <1>4
<1>5. CASE Start(q)
  <2>1. ASSUME NEW kind, NEW u, NEW i, NEW role, NEW where, Begin(q, kind, u, i, role, where)
        PROVE  /\ op'[q].kind = kind /\ op'[q].invite = i /\ op'[q].current = role
               /\ pc'[q] = where
    BY <2>1 DEF Begin, Goto, TypeOK
  <2>2. ASSUME NEW i \in InviteIds, BeginAccept(q, i)
        PROVE  invites'[op'[q].invite] \in {op'[q].current, "gone"}
    <3>1. op'[q].invite = i /\ op'[q].current = invites[i] /\ invites[i] \in Roles
      BY <2>1, <2>2 DEF BeginAccept
    <3> QED BY <1>4, <3>1
  <2>3. ASSUME NEW i \in InviteIds, NEW role \in Roles, BeginCreateInvite(q, i, role) PROVE FALSE
    BY <2>1, <2>3 DEF BeginCreateInvite
  <2>4. ASSUME NEW i \in InviteIds, BeginDeleteInvite(q, i) PROVE FALSE
    BY <2>1, <2>4 DEF BeginDeleteInvite, Committing
  <2>5. ASSUME NEW u \in Users, BeginJoin(q, u) \/ BeginLeave(q, u) PROVE FALSE
    BY <2>1, <2>5 DEF BeginJoin, BeginLeave
  <2>6. ASSUME NEW u \in Users, NEW role \in Roles, BeginChangeRole(q, u, role) PROVE FALSE
    BY <2>1, <2>6 DEF BeginChangeRole
  <2> QED BY <1>5, <2>2, <2>3, <2>4, <2>5, <2>6 DEF Start
<1>6. CASE Step(q)
  <2>1. CASE ReadInvite(q)
    <3>1. invites[op[q].invite] \in Roles
      BY <2>1 DEF ReadInvite, Goto, TypeOK, Committing
    <3>2. op' = [op EXCEPT ![q].current = invites[op[q].invite]]
      BY <2>1, <3>1 DEF ReadInvite
    <3>3. op'[q] = [op[q] EXCEPT !.current = invites[op[q].invite]]
      BY <1>0, <3>2
    <3>4. op'[q].invite = op[q].invite /\ op'[q].current = invites[op[q].invite]
      BY <1>0, <3>3 DEF OpType
    <3> QED BY <1>0, <1>4, <3>1, <3>4
  <2>2. ReadInvite(q) \/ (pc[q] \in Committing /\ op'[q] = op[q])
    BY <1>6, ReleasingSteps
  <2> QED BY <1>1, <2>1, <2>2 DEF Committing
<1> QED BY <1>2, <1>3, <1>5, <1>6 DEF Next

\* The guest invariant is inductive beside the counting one.
LEMMA NextGuests ==
  ASSUME CountInv, GuestInv, StraddlingExpiry = FALSE, [Next]_vars, [SeatsKept]_vars
  PROVE  GuestInv'
<1>1. TypeOK'
  BY NextType DEF CountInv
<1> QED BY <1>1, InviteRolesStep, PendingGuestsStep, GuestsCoveredStep DEF CountInv, GuestInv

\* Seeded rows count their guests exactly.
LEMMA InitGuests == Init => GuestInv
<1> SUFFICES ASSUME Init PROVE GuestInv
  OBVIOUS
<1>1. TypeOK
  BY InitType
<1>2. \A r \in Resources : usage[r] # NoRow => usage[r].guests = Cardinality(GuestHolders(r))
  BY DEF Init, Count
<1>3. GuestsCovered
  <2> SUFFICES ASSUME NEW r \in Resources, usage[r] # NoRow
               PROVE  Cardinality(GuestHolders(r)) <= usage[r].guests
    BY DEF GuestsCovered
  <2>1. Cardinality(GuestHolders(r)) \in Nat
    BY <1>1, CountType, FS_CardinalityType
  <2> QED BY <1>2, <2>1
<1>4. InviteRolesKept /\ PendingGuestsCover
  BY DEF Init, InviteRolesKept, PendingGuestsCover, Committing
<1> QED BY <1>3, <1>4 DEF GuestInv

\* No usage row counts fewer guests than it has, in every behaviour where no uncounted
\* role write lands on a seat and no invite expires under a request that judged it live.
THEOREM GuestsHold ==
  ASSUME StraddlingExpiry = FALSE
  PROVE  Spec /\ UncountedRolesKeepSeats => []GuestsCovered
<1>1. Init => CountInv /\ GuestInv
  BY InitCount, InitGuests
<1>2. CountInv /\ GuestInv /\ [Next]_vars /\ [SeatsKept]_vars => CountInv' /\ GuestInv'
  BY NextCount, NextGuests
<1>3. GuestInv => GuestsCovered
  BY DEF GuestInv
<1> QED BY <1>1, <1>2, <1>3, PTL DEF Spec, UncountedRolesKeepSeats

-----------------------------------------------------------------------------
(* The guest allowance.                                                    *)

\* A row at the version a request saw is the row it saw.
SameVersionSameRow ==
  \A p \in Requests, r \in Resources :
    seen[p][r].version = usage[r].version => seen[p][r] = usage[r]

\* A request about to write has passed the guest check on what it saw.
GuestRoomJudged ==
  \A p \in Requests : pc[p] = "write" => GuestRoomFits(op[p], seen[p], cap[p])

\* The inductive invariant behind GuestsWithinAllowance.
AllowanceInv ==
  TypeOK /\ RetriesBounded /\ SeenIsPast /\ SameVersionSameRow /\ GuestRoomJudged

\* What one request may see of a row: what it saw before, the row now, or its own recount.
LEMMA SeenSteps ==
  ASSUME TypeOK, [Next]_vars, NEW q \in Requests, NEW r \in Resources
  PROVE  seen'[q][r] = seen[q][r] \/ seen'[q][r] = usage'[r]
<1>1. CASE UNCHANGED vars \/ Environment
  BY <1>1, EnvironmentLocal DEF vars, local
<1>2. ASSUME NEW p \in Requests, Start(p) \/ Step(p), p # q PROVE seen'[q] = seen[q]
  BY <1>2, OnlyItsOwn
<1>3. CASE Start(q)
  BY <1>3 DEF Start, BeginCreateInvite, BeginAccept, BeginJoin, BeginLeave, BeginChangeRole,
              BeginDeleteInvite, Begin
<1>4. CASE Step(q)
  <2>1. ASSUME NEW s \in Resources, ReadUsage(q, s)
        PROVE  seen'[q][r] = seen[q][r] \/ seen'[q][r] = usage'[r]
    BY <2>1 DEF ReadUsage, TypeOK
  <2>2. CASE Reconcile(q)
    BY <2>2 DEF Reconcile, TypeOK
  <2> QED BY <1>4, <2>1, <2>2
          DEF Step, ReadMember, ReadInvite, OpenCommit, CountAgain, CountToSeed, SeedUsage, Check,
              Rejudge, Transact, LoseRace, RowCancelled, Reread, SetRole, RemoveUser, DeletePlain
<1> QED BY <1>1, <1>2, <1>3, <1>4 DEF Next

\* Every write of a row moves its version, so equal versions go on meaning equal rows.
LEMMA SameVersionStep ==
  ASSUME TypeOK, TypeOK', SeenIsPast, SameVersionSameRow, [Next]_vars
  PROVE  SameVersionSameRow'
<1> SUFFICES ASSUME NEW q \in Requests, NEW r \in Resources,
                    seen'[q][r].version = usage'[r].version
             PROVE  seen'[q][r] = usage'[r]
  BY DEF SameVersionSameRow
<1>0. /\ usage[r].version \in Int /\ usage'[r].version \in Int
      /\ seen[q][r].version \in Int /\ seen[q][r].version <= usage[r].version
  BY DEF TypeOK, Row, SeenIsPast
<1>1. CASE seen'[q][r] = seen[q][r]
  <2>1. usage'[r] = usage[r]
    BY <1>0, <1>1, VersionsGrow
  <2> QED BY <1>1, <2>1 DEF SameVersionSameRow
<1> QED BY <1>1, SeenSteps

\* A request keeps the plan it read until it opens commit again.
LEMMA CapStays ==
  ASSUME TypeOK, [Next]_vars, NEW q \in Requests, pc[q] # "open"
  PROVE  cap'[q] = cap[q]
<1>1. ASSUME NEW p \in Requests, OpenCommit(p) PROVE cap'[q] = cap[q]
  BY <1>1 DEF OpenCommit, TypeOK
<1>2. ASSUME NEW p \in Requests, Start(p) PROVE UNCHANGED cap
  BY <1>2 DEF Start, BeginCreateInvite, BeginAccept, BeginJoin, BeginLeave, BeginChangeRole,
              BeginDeleteInvite, Begin
<1>3. ASSUME NEW p \in Requests, Step(p) PROVE UNCHANGED cap \/ OpenCommit(p)
  BY <1>3 DEF Step, ReadMember, ReadInvite, ReadUsage, CountAgain, CountToSeed, SeedUsage, Check,
              Reconcile, Rejudge, Transact, LoseRace, RowCancelled, Reread, SetRole, RemoveUser,
              DeletePlain
<1> QED BY <1>1, <1>2, <1>3 DEF Next, Environment, ChangePlan, Expire, Reclaim, vars, local

\* Only a guest check that passes leads to the transaction.
LEMMA GuestRoomStep ==
  ASSUME TypeOK, TypeOK', GuestRoomJudged, [Next]_vars
  PROVE  GuestRoomJudged'
<1> SUFFICES ASSUME NEW q \in Requests, pc'[q] = "write"
             PROVE  GuestRoomFits(op'[q], seen'[q], cap'[q])
  BY DEF GuestRoomJudged, GuestRoomFits, AddsGuest, Moves, Adding, Freeing, GuestsDelta,
         GuestShare, Allowance, GreaterOf
<1>1. ASSUME pc[q] = "write", op'[q] = op[q], seen'[q] = seen[q]
      PROVE  GuestRoomFits(op'[q], seen'[q], cap'[q])
  BY <1>1, CapStays DEF GuestRoomJudged
<1>2. CASE UNCHANGED vars \/ Environment
  <2>1. pc' = pc /\ op' = op /\ seen' = seen
    BY <1>2, EnvironmentLocal DEF vars, local
  <2> QED BY <1>1, <2>1
<1>3. ASSUME NEW p \in Requests, Start(p) \/ Step(p), p # q
      PROVE  GuestRoomFits(op'[q], seen'[q], cap'[q])
  BY <1>1, <1>3, OnlyItsOwn
<1>4. ~Start(q)
  BY StartOpens
<1>5. CASE Step(q)
  <2>1. Check(q) \/ Rejudge(q)
    BY <1>5 DEF Step, ReadMember, ReadInvite, OpenCommit, ReadUsage, CountAgain, CountToSeed,
                SeedUsage, Reconcile, Transact, LoseRace, RowCancelled, Reread, SetRole,
                RemoveUser, DeletePlain, Goto, TypeOK
  <2>2. ASSUME NEW ph, AfterCheck(q, ph) PROVE ph = "guest" /\ op' = op
    BY <2>2 DEF AfterCheck, Goto, TypeOK
  <2>3. op' = op /\ seen' = seen /\ cap' = cap /\ GuestRoomFits(op[q], seen[q], cap[q])
    <3>1. CASE Check(q)
      BY <2>2, <3>1 DEF Check, Goto, Fits, TypeOK
    <3>2. CASE Rejudge(q)
      BY <2>2, <3>2 DEF Rejudge, Goto, Fits, TypeOK
    <3> QED BY <2>1, <3>1, <3>2
  <2> QED BY <2>3
<1> QED BY <1>2, <1>3, <1>4, <1>5 DEF Next

\* A guest allowance is a number.
LEMMA AllowanceType ==
  ASSUME NEW pl \in PlanType, NEW seats \in Int
  PROVE  Allowance(pl, seats) \in Nat
<1>1. pl.perSeat \in Nat /\ GreaterOf(1, seats) \in Nat
  BY DEF PlanType, GreaterOf
<1>2. \A a, b \in Nat : a * b \in Nat
  OBVIOUS
<1> QED BY <1>1, <1>2 DEF Allowance

\* A step that adds a guest is a transaction for one: it joins a guest, or makes one of a seat.
LEMMA GuestComesIn ==
  ASSUME TypeOK, [Next]_vars, [SeatsKept]_vars,
         Cardinality(GuestHolders("members")') > Cardinality(GuestHolders("members"))
  PROVE  \E p \in Requests :
           /\ Transact(p) /\ GuestsDelta(op[p], "members") = 1
           /\ op[p].kind \in {"accept_invite", "join", "change_role"}
<1>0. /\ "members" \in Resources
      /\ Cardinality(GuestHolders("members")) \in Nat
      /\ Cardinality(GuestHolders("members")') \in Nat
  BY CountType, GuestsFinite, FS_CardinalityType DEF Resources
<1>1. PICK p \in Requests : Transact(p)
  <2>1. (\A p \in Requests : ~Transact(p)) =>
          Cardinality(GuestHolders("members")') <= Cardinality(GuestHolders("members"))
    BY <1>0, OtherGuestsShrink
  <2> QED BY <1>0, <2>1
<1> DEFINE o == op[p]
<1>2. o \in OpType
  BY DEF TypeOK
<1>3. GuestsDelta(o, "members") \in Int /\ GuestsDelta(o, "members") > 0
  <2>1. GuestsDelta(o, "members") \in Int
    BY <1>0, <1>2, DeltaTypes
  <2>2. Cardinality(GuestHolders("members")')
          <= Cardinality(GuestHolders("members")) + GuestsDelta(o, "members")
    BY <1>1, TransactMemberGuests
  <2> QED BY <1>0, <2>1, <2>2
<1>4. o.kind \in {"accept_invite", "join", "change_role"}
  <2>1. SUFFICES ASSUME o.kind \notin {"accept_invite", "join", "change_role"} PROVE FALSE
    OBVIOUS
  <2>2. GuestHolders("members")' \in SUBSET GuestHolders("members")
    BY <1>1, <1>2, <2>1 DEF Transact, LandRows, GuestHolders, TypeOK, OpType
  <2>3. IsFiniteSet(GuestHolders("members"))
    BY <1>0, CountType
  <2> QED BY <1>0, <2>2, <2>3, CardSubset
<1>5. GuestsDelta(o, "members") = 1
  <2>1. GuestsDelta(o, "members") \in {-1, 0, 1}
    <3>1. CASE o.kind = "change_role"
      BY <3>1 DEF GuestsDelta, Adding, Freeing, GuestShare
    <3>2. CASE o.kind \in {"accept_invite", "join"}
      BY <3>2 DEF GuestsDelta, Adding, GuestShare
    <3> QED BY <1>4, <3>1, <3>2
  <2> QED BY <1>3, <2>1
<1> QED BY <1>1, <1>4, <1>5

\* What one step may do to the guests, given the invariant.
LEMMA AllowanceStep ==
  ASSUME AllowanceInv, [Next]_vars, [SeatsKept]_vars,
         Cardinality(GuestHolders("members")') > Cardinality(GuestHolders("members"))
  PROVE  \E p \in Requests :
           /\ pc[p] = "write" /\ pc'[p] = "done"
           /\ usage'["members"].guests
                <= Allowance(cap[p], usage'["members"].used - usage'["members"].guests)
<1>0. TypeOK /\ "members" \in Resources
  BY DEF AllowanceInv, Resources
<1>1. PICK p \in Requests :
           /\ Transact(p) /\ GuestsDelta(op[p], "members") = 1
           /\ op[p].kind \in {"accept_invite", "join", "change_role"}
  BY <1>0, GuestComesIn
<1> DEFINE o == op[p]
           m == usage["members"]
           seats == m.used - m.guests - (IF o.kind = "change_role" THEN 1 ELSE 0)
<1>2. /\ o \in OpType /\ seen[p] \in [Resources -> Row] /\ cap[p] \in PlanType
      /\ m \in Row /\ m.used \in Nat /\ m.guests \in Nat
  BY <1>0 DEF TypeOK, Row
<1>3. AddsGuest(o) /\ "members" \in Moves(o) /\ "members" \in Pinned(o)
  <2>1. "members" \in Moves(o) /\ o.kind # "ensure_room" /\ o.kind # "create_invite"
    BY <1>1 DEF Moves, Adding
  <2>2. AddsGuest(o)
    BY <1>1, <2>1 DEF AddsGuest
  <2> QED BY <2>1, <2>2 DEF Pinned
<1>4. seen[p]["members"] = m
  BY <1>0, <1>1, <1>3 DEF Transact, PinsHold, AllowanceInv, SameVersionSameRow
<1>5. m.guests < Allowance(cap[p], seats)
  <2>1. GuestRoomFits(o, seen[p], cap[p]) /\ o.kind # "create_invite"
    BY <1>1 DEF Transact, AllowanceInv, GuestRoomJudged
  <2>2. m.guests + 0 = m.guests
    BY <1>2
  <2> QED BY <1>3, <1>4, <2>1, <2>2 DEF GuestRoomFits
<1>6. /\ usage'["members"].guests = m.guests + 1
      /\ usage'["members"].used = m.used + (IF o.kind = "change_role" THEN 0 ELSE 1)
  <2>1. Claim(o, seen[p], "members").guests = 1
    BY <1>0, <1>1, <1>2, ClaimGuests
  <2>2. UsedDelta(o, "members") = IF o.kind = "change_role" THEN 0 ELSE 1
    BY <1>1 DEF UsedDelta, Adding, Freeing
  <2>3. Claim(o, seen[p], "members").used = UsedDelta(o, "members")
    BY <1>0, <1>2, <2>2, ClaimBounds
  <2> QED BY <1>0, <1>1, <1>3, <2>1, <2>2, <2>3 DEF Transact, LandUsage
<1>7. usage'["members"].used - usage'["members"].guests = seats /\ seats \in Int
  BY <1>2, <1>6
<1>8. pc[p] = "write" /\ pc'[p] = "done"
  BY <1>0, <1>1 DEF Transact, Goto, TypeOK
<1>9. Allowance(cap[p], seats) \in Nat
  BY <1>2, <1>7, AllowanceType
<1> QED BY <1>2, <1>5, <1>6, <1>7, <1>8, <1>9

\* A guest only comes in while the guests the members row then counts fit the allowance of
\* the seats it then counts, whatever seats and guests came and went since the check: in
\* every behaviour where no uncounted role write lands on a seat.
THEOREM AllowanceHolds == Spec /\ UncountedRolesKeepSeats => GuestsWithinAllowance
<1>1. Init => AllowanceInv
  <2> SUFFICES ASSUME Init PROVE AllowanceInv
    OBVIOUS
  <2>1. CountInv
    BY InitCount
  <2>2. SameVersionSameRow
    <3> SUFFICES ASSUME NEW r \in Resources, NoRow.version = usage[r].version
                 PROVE  NoRow = usage[r]
      BY DEF Init, SameVersionSameRow
    <3>1. usage[r].version = 0 \/ usage[r] = NoRow
      BY DEF Init
    <3> QED BY <3>1 DEF NoRow
  <2>3. GuestRoomJudged
    BY DEF Init, GuestRoomJudged
  <2> QED BY <2>1, <2>2, <2>3 DEF AllowanceInv, CountInv
<1>2. AllowanceInv /\ [Next]_vars => AllowanceInv'
  <2> SUFFICES ASSUME AllowanceInv, [Next]_vars PROVE AllowanceInv'
    OBVIOUS
  <2>1. TypeOK' /\ RetriesBounded'
    BY NextType DEF AllowanceInv
  <2> QED BY <2>1, SeenIsPastStep, SameVersionStep, GuestRoomStep DEF AllowanceInv
<1>3. AllowanceInv /\ [Next]_vars /\ [SeatsKept]_vars =>
        (Cardinality(GuestHolders("members"))' > Cardinality(GuestHolders("members")) =>
           \E p \in Requests :
             /\ pc[p] = "write" /\ pc'[p] = "done"
             /\ usage'["members"].guests
                  <= Allowance(cap[p], usage'["members"].used - usage'["members"].guests))
  BY AllowanceStep
<1> QED BY <1>1, <1>2, <1>3, PTL DEF Spec, UncountedRolesKeepSeats, GuestsWithinAllowance
=============================================================================
