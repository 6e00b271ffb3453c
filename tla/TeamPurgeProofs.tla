--------------------------- MODULE TeamPurgeProofs ---------------------------
(***************************************************************************)
(* The purge chain keeps its order, for every set of teams, issues and     *)
(* workers and any number of crashes, duplicates and restarts, as long as  *)
(* no workspace's purge begins over a team's; and its storage counter      *)
(* covers the files that are left, as long as no two workers are at one    *)
(* issue at once.                                                          *)
(***************************************************************************)
EXTENDS TeamPurge, FiniteSetTheorems, SequenceTheorems, WellFoundedInduction, TLAPS

-----------------------------------------------------------------------------
(* Least elements, and bags.                                               *)

\* A set of numbers that is not empty has the least element Min chooses.
LEMMA MinIsLeast ==
  ASSUME NEW S \in SUBSET Nat, S # {}
  PROVE  Min(S) \in S /\ \A x \in S : Min(S) <= x
<1>1. IsWellFoundedOn({p \in Nat \X Nat : p[1] < p[2]}, Nat)
  BY NatLessThanWellFounded DEF OpToRel
<1>2. PICK x \in S : \A y \in S : <<y, x>> \notin {p \in Nat \X Nat : p[1] < p[2]}
  BY <1>1, WFMin
<1>3. ASSUME NEW y \in S, y < x
      PROVE  FALSE
  <2>1. <<y, x>> \in Nat \X Nat /\ <<y, x>>[1] < <<y, x>>[2]
    BY <1>3
  <2> QED BY <1>2, <2>1
<1>4. \A y \in S : x <= y
  BY <1>3
<1> QED BY <1>4 DEF Min

\* A message put on the queues is there with those that were.
LEMMA BagPut ==
  ASSUME NEW B, IsABag(B), NEW x
  PROVE  /\ IsABag(B (+) SetToBag({x}))
         /\ BagToSet(B (+) SetToBag({x})) = BagToSet(B) \cup {x}
  BY DEF IsABag, BagToSet, SetToBag, (+)

\* A message taken off the queues leaves others that were there.
LEMMA BagTake ==
  ASSUME NEW B, IsABag(B), NEW x
  PROVE  /\ IsABag(B (-) SetToBag({x}))
         /\ BagToSet(B (-) SetToBag({x})) \subseteq BagToSet(B)
  BY DEF IsABag, BagToSet, SetToBag, (-)

-----------------------------------------------------------------------------
(* The order of the stages.                                                *)

TeamStages == {"discussion", "integrations", "views", "planning", "issues", "teams"}

AllStages == TeamStages \cup {"workspaces"}

\* The six stages every chain begins with.
LEMMA StagesAre ==
  /\ STAGES \in Seq(TeamStages) /\ Len(STAGES) = 6
  /\ STAGES[1] = "discussion" /\ STAGES[2] = "integrations" /\ STAGES[3] = "views"
  /\ STAGES[4] = "planning" /\ STAGES[5] = "issues" /\ STAGES[6] = "teams"
<1>1. /\ STAGES[1] = "discussion" /\ STAGES[2] = "integrations" /\ STAGES[3] = "views"
      /\ STAGES[4] = "planning" /\ STAGES[5] = "issues" /\ STAGES[6] = "teams"
  BY DEF STAGES
<1>2. STAGES = [i \in 1..6 |-> STAGES[i]] /\ Len(STAGES) = 6
  BY DEF STAGES
<1>3. \A i \in 1..6 : i = 1 \/ i = 2 \/ i = 3 \/ i = 4 \/ i = 5 \/ i = 6
  OBVIOUS
<1>4. \A i \in 1..6 : STAGES[i] \in TeamStages
  BY <1>1, <1>3 DEF TeamStages
<1>5. STAGES \in [1..6 -> TeamStages]
  BY <1>2, <1>4
<1>6. STAGES \in Seq(TeamStages)
  BY <1>5, SeqDef
<1> QED BY <1>1, <1>2, <1>6

\* The chain of a kind of purge, stage by stage.
LEMMA ChainIs ==
  ASSUME NEW kind \in {"team", "workspace"}
  PROVE  /\ Chain(kind) \in Seq(AllStages)
         /\ Len(Chain(kind)) = IF kind = "team" THEN 6 ELSE 7
         /\ Chain(kind)[1] = "discussion" /\ Chain(kind)[2] = "integrations"
         /\ Chain(kind)[3] = "views" /\ Chain(kind)[4] = "planning"
         /\ Chain(kind)[5] = "issues" /\ Chain(kind)[6] = "teams"
         /\ kind = "workspace" => Chain(kind)[7] = "workspaces"
<1>1. STAGES \in Seq(AllStages) /\ "workspaces" \in AllStages
  BY StagesAre, SeqMonotonic DEF AllStages
<1>2. /\ Append(STAGES, "workspaces") \in Seq(AllStages)
      /\ Len(Append(STAGES, "workspaces")) = Len(STAGES) + 1
      /\ \A i \in 1..Len(STAGES) : Append(STAGES, "workspaces")[i] = STAGES[i]
      /\ Append(STAGES, "workspaces")[Len(STAGES) + 1] = "workspaces"
  BY <1>1, AppendProperties
<1> QED BY <1>1, <1>2, StagesAre DEF Chain

\* Every stage there is.
LEMMA StageSet == Range(Chain("workspace")) = AllStages
<1> DEFINE c == Chain("workspace")
<1>1. /\ c \in Seq(AllStages) /\ Len(c) = 7
      /\ c[1] = "discussion" /\ c[2] = "integrations" /\ c[3] = "views" /\ c[4] = "planning"
      /\ c[5] = "issues" /\ c[6] = "teams" /\ c[7] = "workspaces"
  BY ChainIs
<1> HIDE DEF c
<1>2. DOMAIN c = 1..7 /\ \A i \in 1..7 : c[i] \in AllStages
  BY <1>1, LenProperties, ElementOfSeq
<1>3. Range(c) = {c[i] : i \in 1..7}
  BY <1>2 DEF Range
<1>4. \A x \in AllStages : \E i \in 1..7 : c[i] = x
  BY <1>1 DEF AllStages, TeamStages
<1>5. Range(c) = AllStages
  BY <1>2, <1>3, <1>4
<1> QED BY <1>5 DEF c

\* What comes after the first two of them.
LEMMA AfterIs ==
  /\ StagesAfter("discussion") = {"integrations", "views", "planning", "issues", "teams", "workspaces"}
  /\ StagesAfter("integrations") = {"views", "planning", "issues", "teams", "workspaces"}
  BY StageSet DEF StagesAfter, AllStages, TeamStages, ViaIssues

\* The stage after the first is the second; the others are followed by later ones.
LEMMA Follows ==
  ASSUME NEW c, NEW i \in 1..6,
         c[1] = "discussion", c[2] = "integrations", c[3] = "views", c[4] = "planning",
         c[5] = "issues", c[6] = "teams", i = 6 => c[7] = "workspaces"
  PROVE  \/ c[i] = "discussion" /\ c[i + 1] = "integrations"
         \/ c[i] \in AllStages \ {"discussion"} /\ c[i + 1] \in {"views", "planning", "issues", "teams"}
         \/ c[i] # "discussion" /\ c[i + 1] = "workspaces" /\ i = 6
<1>1. CASE i = 1
  BY <1>1 DEF AllStages, TeamStages
<1>2. CASE i = 2
  BY <1>2 DEF AllStages, TeamStages
<1>3. CASE i = 3
  BY <1>3 DEF AllStages, TeamStages
<1>4. CASE i = 4
  BY <1>4 DEF AllStages, TeamStages
<1>5. CASE i = 5
  BY <1>5 DEF AllStages, TeamStages
<1>6. CASE i = 6
  BY <1>6 DEF AllStages, TeamStages
<1> QED BY <1>1, <1>2, <1>3, <1>4, <1>5, <1>6

\* A message is handed on to the stage that follows its own, if any does.
LEMMA NextStage ==
  ASSUME NEW kind \in {"team", "workspace"}, NEW stage \in AllStages,
         kind = "team" => stage # "workspaces",
         NEW i, i = CHOOSE k \in DOMAIN Chain(kind) : Chain(kind)[k] = stage,
         i # Len(Chain(kind))
  PROVE  /\ Chain(kind)[i + 1] \in AllStages
         /\ kind = "team" => Chain(kind)[i + 1] # "workspaces"
         /\ \A s \in ViaIssues :
              /\ Chain(kind)[i + 1] = s => s = "integrations" /\ stage = "discussion"
              /\ Chain(kind)[i + 1] \in StagesAfter(s) => stage = s \/ stage \in StagesAfter(s)
<1> DEFINE c == Chain(kind)
           n == IF kind = "team" THEN 6 ELSE 7
<1>1. /\ c \in Seq(AllStages) /\ Len(c) = n
      /\ c[1] = "discussion" /\ c[2] = "integrations" /\ c[3] = "views" /\ c[4] = "planning"
      /\ c[5] = "issues" /\ c[6] = "teams" /\ (kind = "workspace" => c[7] = "workspaces")
  BY ChainIs
<1> HIDE DEF c
<1>2. DOMAIN c = 1..n
  BY <1>1, LenProperties
<1>3. \E k \in 1..n : c[k] = stage
  BY <1>1 DEF AllStages, TeamStages
<1>4. i \in 1..n /\ c[i] = stage
  BY <1>2, <1>3 DEF c
<1>5. i \in 1..6 /\ (i = 6 => kind = "workspace")
  BY <1>1, <1>4 DEF c
<1>6. \/ stage = "discussion" /\ c[i + 1] = "integrations"
      \/ stage \in AllStages \ {"discussion"} /\ c[i + 1] \in {"views", "planning", "issues", "teams"}
      \/ stage # "discussion" /\ c[i + 1] = "workspaces" /\ kind = "workspace"
  BY <1>1, <1>4, <1>5, Follows
<1> QED BY <1>6, AfterIs DEF c, ViaIssues, AllStages, TeamStages

-----------------------------------------------------------------------------
(* What was cleared stays so.                                              *)

\* The data a step leaves behind: no row comes back, no purge is taken back, and a
\* team's row goes only before its workspace's purge or once all is clear.
Keeps ==
  /\ \A s \in ViaIssues : rows'[s] \subseteq rows[s]
  /\ workspace = "live" \/ workspace' # "live"
  /\ \A t \in Teams : team'[t] = "gone" => team[t] = "gone" \/ workspace = "live" \/ AllClear

\* A row that is gone stays gone.
LEMMA ClearStays ==
  ASSUME Keeps
  PROVE  /\ \A s \in ViaIssues : \A t : Clear(s, t) => Clear(s, t)'
         /\ \A s \in ViaIssues : \A t, n : ClearTo(s, t, n) => ClearTo(s, t, n)'
         /\ AllClear => AllClear'
<1>1. \A s \in ViaIssues : \A t : Clear(s, t) => Clear(s, t)'
  BY DEF Keeps, Clear
<1>2. \A s \in ViaIssues : \A t, n : ClearTo(s, t, n) => ClearTo(s, t, n)'
  BY DEF Keeps, ClearTo
<1> QED BY <1>1, <1>2 DEF AllClear

\* What a message is made of.
LEMMA JobFields ==
  ASSUME NEW j \in JobType
  PROVE  /\ j.kind \in {"team", "workspace"} /\ j.stage \in AllStages
         /\ j.team \in Teams \cup {NoTeam, REST} /\ j.team \in Nat
         /\ j.cursor \in Numbers \cup {0} /\ j.cursor \in Nat
         /\ j # None
<1>1. JobType = [kind : {"team", "workspace"}, team : Teams \cup {NoTeam, REST},
                 stage : AllStages, cursor : Numbers \cup {0}]
  BY StageSet DEF JobType
<1>2. /\ j.kind \in {"team", "workspace"} /\ j.stage \in AllStages
      /\ j.team \in Teams \cup {NoTeam, REST} /\ j.cursor \in Numbers \cup {0}
  BY <1>1
<1>3. Teams \cup {NoTeam, REST} \subseteq Nat /\ Numbers \cup {0} \subseteq Nat
  BY PurgeAssumption DEF NoTeam
<1>4. j.team \in Nat /\ j.cursor \in Nat
  BY <1>2, <1>3
<1>5. None.kind = "none"
  BY DEF None
<1> QED BY <1>2, <1>4, <1>5

\* What a message says of the rows stays true.
LEMMA JobStays ==
  ASSUME Keeps, NEW j \in JobType, JobClear(j)
  PROVE  JobClear(j)'
<1>1. j.cursor \in Nat
  BY JobFields
<1>2. \A s \in ViaIssues :
        /\ j.stage \in StagesAfter(s) =>
             \A t \in Teams : (j.kind = "workspace" \/ t = j.team) => Clear(s, t)'
        /\ j.stage = s =>
             /\ j.kind = "workspace" => \A t \in Teams : t < j.team => Clear(s, t)'
             /\ j.team \in Teams => ClearTo(s, j.team, j.cursor)'
  BY <1>1, ClearStays DEF JobClear
<1>3. j.kind = "workspace" => /\ workspace' # "live"
                              /\ j.cursor > 0 => team'[j.team] # "gone" \/ AllClear'
  <2> SUFFICES ASSUME j.kind = "workspace"
               PROVE  /\ workspace' # "live"
                      /\ j.cursor > 0 => team'[j.team] # "gone" \/ AllClear'
    OBVIOUS
  <2>1. workspace # "live" /\ workspace' # "live"
    BY DEF JobClear, Keeps
  <2>2. j.cursor > 0 => j.team \in Teams
    BY DEF JobClear
  <2>3. j.cursor > 0 => team[j.team] # "gone" \/ AllClear
    BY DEF JobClear
  <2> QED BY <2>1, <2>2, <2>3, ClearStays DEF Keeps
<1>4. /\ j.kind = "team" => j.team \in Teams /\ j.stage # "workspaces"
      /\ j.team \notin Teams => j.cursor = 0
  BY DEF JobClear
<1> QED BY <1>2, <1>3, <1>4 DEF JobClear

-----------------------------------------------------------------------------
(* What a worker sends is clear.                                           *)

\* A cursor of 0 says nothing, and one past every issue says all.
LEMMA ClearEnds ==
  ASSUME NEW s, NEW t
  PROVE  ClearTo(s, t, 0) /\ ClearTo(s, t, 0)'
<1>1. \A k \in Numbers : ~(k <= 0)
  BY PurgeAssumption
<1> QED BY <1>1 DEF ClearTo

\* A step of w sends m: one that says no more than holds, or nothing.
Sends(w) == \E m \in JobType \cup {None} : Sending(w, m) /\ (m # None => JobClear(m)')

\* A stage that is done hands on a message that says no more than holds.
LEMMA HandOnClear ==
  ASSUME NEW w, NEW j \in JobType, j = job[w], JobClear(j)', HandOn(w),
         j.stage \in ViaIssues =>
           \A t \in Teams : (j.kind = "workspace" \/ t = j.team) => Clear(j.stage, t)'
  PROVE  Sends(w)
<1> DEFINE chain == Chain(j.kind)
           i == CHOOSE k \in DOMAIN chain : chain[k] = j.stage
<1>1. CASE i = Len(chain)
  BY <1>1 DEF HandOn, Sends
<1>2. CASE i # Len(chain)
  <2> DEFINE next == chain[i + 1]
             to == IF j.kind = "team" THEN j.team ELSE NoTeam
             m == [j EXCEPT !.stage = next, !.cursor = 0, !.team = to]
  <2>1. /\ j.kind \in {"team", "workspace"} /\ j.stage \in AllStages
        /\ j.team \in Teams \cup {NoTeam, REST} /\ j.cursor \in Numbers \cup {0}
    BY JobFields
  <2>2. /\ j.kind = "team" => j.team \in Teams /\ j.stage # "workspaces"
        /\ \A s \in ViaIssues : j.stage \in StagesAfter(s) =>
             \A t \in Teams : (j.kind = "workspace" \/ t = j.team) => Clear(s, t)'
        /\ j.kind = "workspace" => workspace' # "live"
    BY DEF JobClear
  <2>3. /\ next \in AllStages
        /\ j.kind = "team" => next # "workspaces"
        /\ \A s \in ViaIssues :
             /\ next = s => s = "integrations" /\ j.stage = "discussion"
             /\ next \in StagesAfter(s) => j.stage = s \/ j.stage \in StagesAfter(s)
    BY <1>2, <2>1, <2>2, NextStage
  <2>4. Sending(w, m)
    BY <1>2 DEF HandOn
  <2> HIDE DEF next
  <2>5. to \in Teams \cup {NoTeam, REST} /\ 0 \in Numbers \cup {0}
    BY <2>1
  <2>6. m = [j EXCEPT !.stage = next, !.cursor = 0, !.team = to]
    OBVIOUS
  <2> HIDE DEF m, to
  <2>7. m \in JobType /\ m.kind = j.kind /\ m.team = to /\ m.stage = next /\ m.cursor = 0
    BY <2>3, <2>5, <2>6, StageSet DEF JobType
  <2> USE DEF to
  <2>8. ASSUME NEW n, n = m
        PROVE  JobClear(n)'
    <3>1. ASSUME NEW s \in ViaIssues, next \in StagesAfter(s), NEW t \in Teams,
                 j.kind = "workspace" \/ t = j.team
          PROVE  Clear(s, t)'
      BY <2>2, <2>3, <3>1
    <3>2. NoTeam \notin Teams /\ \A t \in Teams : ~(t < NoTeam)
      BY PurgeAssumption DEF NoTeam
    <3>3. \A s, t : ClearTo(s, t, 0)'
      BY ClearEnds
    <3>4. /\ n.kind = "team" => n.team \in Teams /\ n.stage # "workspaces"
          /\ n.team \notin Teams => n.cursor = 0
      BY <2>2, <2>3, <2>7, <2>8
    <3>5. ASSUME NEW s \in ViaIssues
          PROVE  /\ n.stage \in StagesAfter(s) =>
                      \A t \in Teams : (n.kind = "workspace" \/ t = n.team) => Clear(s, t)'
                 /\ n.stage = s =>
                      /\ n.kind = "workspace" => \A t \in Teams : t < n.team => Clear(s, t)'
                      /\ n.team \in Teams => ClearTo(s, n.team, n.cursor)'
      BY <2>1, <2>7, <2>8, <3>1, <3>2, <3>3
    <3>6. n.kind = "workspace" => workspace' # "live" /\ ~(n.cursor > 0)
      BY <2>2, <2>7, <2>8
    <3> QED BY <3>4, <3>5, <3>6 DEF JobClear
  <2> QED BY <2>4, <2>7, <2>8 DEF Sends
<1> QED BY <1>1, <1>2

-----------------------------------------------------------------------------
(* The workers a step leaves alone, and the whole step.                    *)

Same(w) ==
  /\ job'[w] = job[w] /\ pc'[w] = pc[w] /\ todo'[w] = todo[w] /\ at'[w] = at[w]
  /\ cursor'[w] = cursor[w] /\ out'[w] = out[w]

\* What a worker says of the rows stays true while it does nothing.
LEMMA WorkStays ==
  ASSUME Keeps, TypeOK, NEW w \in Workers, WorkClear(w), HeldClear(w), Same(w)
  PROVE  WorkClear(w)' /\ HeldClear(w)'
<1>1. job[w] \in JobType \cup {None} /\ out[w] \in JobType \cup {None}
  BY DEF TypeOK
<1>2. HeldClear(w)'
  <2>1. \A j \in {job[w], out[w]} \ {None} : JobClear(j)'
    BY <1>1, JobStays DEF HeldClear
  <2> QED BY <2>1 DEF HeldClear, Same
<1>3. InTeam(w)' <=> InTeam(w)
  BY DEF InTeam, Same
<1>4. InTeam(w) /\ job[w].kind = "workspace" =>
        \A t \in todo[w] \cup {at[w]} : team'[t] # "gone" \/ AllClear'
  <2> SUFFICES ASSUME InTeam(w), job[w].kind = "workspace", NEW t \in todo[w] \cup {at[w]}
               PROVE  team'[t] # "gone" \/ AllClear'
    OBVIOUS
  <2>1. t \in Teams /\ (team[t] # "gone" \/ AllClear)
    BY DEF WorkClear, TypeOK
  <2>2. job[w] # None
    BY DEF WorkClear, InTeam
  <2>3. workspace # "live"
    BY <2>2 DEF HeldClear, JobClear
  <2> QED BY <2>1, <2>3, ClearStays DEF Keeps
<1>5. ASSUME NEW s \in ViaIssues, s = job[w].stage, job[w] # None,
             NEW a, a = at[w], NEW c, c = cursor[w]
      PROVE  /\ (job[w].kind = "workspace" /\ (InTeam(w) \/ pc[w] = "rest")) =>
                  \A t \in Teams \ (todo[w] \cup {a}) : Clear(s, t)'
             /\ pc[w] \in {"head", "work", "release"} => ClearTo(s, a, c)'
             /\ pc[w] = "erase" => ClearTo(s, a, c - 1)'
  BY <1>5, ClearStays DEF WorkClear
<1>6. WorkClear(w)'
  BY <1>3, <1>4, <1>5 DEF WorkClear, Same
<1> QED BY <1>2, <1>6

PCs == {"idle", "head", "work", "erase", "release", "rest", "send", "ack"}

WorkerTypes ==
  /\ job \in [Workers -> JobType \cup {None}]
  /\ pc \in [Workers -> PCs]
  /\ todo \in [Workers -> SUBSET Teams]
  /\ at \in [Workers -> Teams \cup {NoTeam}]
  /\ cursor \in [Workers -> Numbers \cup {0}]
  /\ out \in [Workers -> JobType \cup {None}]

DataTypes ==
  /\ workspace \in {"live", "purging", "gone"}
  /\ team \in [Teams -> {"live", "deleting", "gone"}]
  /\ rows \in [RowStages -> SUBSET (Teams \X (Numbers \cup {0}))]
  /\ \A s \in RowStages : rows[s] \subseteq AllRows[s]
  /\ stored \in Int
  /\ starting \subseteq Teams \cup {NoTeam}
  /\ IsABag(queue) /\ BagToSet(queue) \subseteq JobType
  /\ files \in [Workers -> {0, 1}]
  /\ again \in 0..AGAIN /\ faults \in 0..FAULTS

\* The types in two halves: the data and the queues, and what the workers hold.
LEMMA TypeHalves ==
  /\ TypeOK <=> WorkerTypes /\ DataTypes
  /\ TypeOK' <=> WorkerTypes' /\ DataTypes'
  BY DEF TypeOK, WorkerTypes, DataTypes, PCs

\* A step of the workers leaves each as it was, or still saying what holds.
WorkersStep ==
  /\ WorkerTypes'
  /\ \A v \in Workers : Same(v) \/ (WorkClear(v)' /\ HeldClear(v)')

\* The invariant of a step, put together.
LEMMA OneStep ==
  ASSUME ChainInv, Keeps, WorkersStep, DataTypes', ThreadsBeforeIssues', MarksClear',
         \A j \in BagToSet(queue)' : j \in BagToSet(queue) \/ JobClear(j)'
  PROVE  ChainInv'
<1>1. TypeOK'
  BY TypeHalves DEF WorkersStep
<1>2. \A j \in BagToSet(queue)' : JobClear(j)'
  BY JobStays DEF ChainInv, TypeOK
<1>3. \A w \in Workers : (WorkClear(w) /\ HeldClear(w))'
  BY WorkStays DEF ChainInv, WorkersStep
<1> QED BY <1>1, <1>2, <1>3 DEF ChainInv

\* The message a busy worker holds, and what it said before the step and says after it.
LEMMA JobInHand ==
  ASSUME ChainInv, Keeps, NEW w \in Workers, pc[w] # "idle", NEW j, j = job[w]
  PROVE  /\ j \in JobType /\ JobClear(j) /\ JobClear(j)'
         /\ j.kind = "workspace" => workspace # "live"
<1>1. j \in JobType /\ j # None
  BY DEF ChainInv, TypeOK, WorkClear
<1>2. JobClear(j)
  BY <1>1 DEF ChainInv, HeldClear
<1> QED BY <1>1, <1>2, JobStays DEF JobClear

\* A worker that sends leaves nothing to be said of what it works on.
LEMMA SentClear ==
  ASSUME ChainInv, Keeps, NEW w \in Workers, pc[w] # "idle", Sends(w),
         UNCHANGED <<job, todo, at, cursor>>
  PROVE  WorkersStep
<1>1. PICK m \in JobType \cup {None} : Sending(w, m) /\ (m # None => JobClear(m)')
  BY DEF Sends
<1>2. WorkerTypes'
  BY <1>1, TypeHalves DEF ChainInv, WorkerTypes, Sending, PCs
<1>3. ASSUME NEW v \in Workers, v # w
      PROVE  Same(v)
  BY <1>1, <1>3, TypeHalves DEF ChainInv, WorkerTypes, Sending, Same
<1>4. pc'[w] = "send" /\ out'[w] = m
  BY <1>1, TypeHalves DEF ChainInv, WorkerTypes, Sending
<1>5. WorkClear(w)'
  BY <1>4 DEF ChainInv, WorkClear, InTeam
<1>6. HeldClear(w)'
  <2>1. ASSUME NEW j, j = job[w]
        PROVE  JobClear(j)'
    BY <2>1, JobInHand
  <2> QED BY <1>1, <1>4, <2>1 DEF HeldClear
<1> QED BY <1>2, <1>3, <1>5, <1>6 DEF WorkersStep

-----------------------------------------------------------------------------
(* The ways a worker leaves a team.                                        *)

\* The message that resumes a stage at team t past issue c says what holds when the
\* teams before t are clear, and t up to c.
LEMMA PausedClear ==
  ASSUME ChainInv, Keeps, NEW w \in Workers, pc[w] # "idle", NEW j, j = job[w],
         NEW t \in Teams \cup {NoTeam, REST}, NEW c \in Numbers \cup {0},
         Sending(w, [job[w] EXCEPT !.team = t, !.cursor = c]),
         j.kind = "team" => t = j.team,
         t \notin Teams => c = 0,
         j.stage \in ViaIssues =>
           /\ j.kind = "workspace" => \A u \in Teams : u < t => Clear(j.stage, u)'
           /\ t \in Teams => ClearTo(j.stage, t, c)',
         j.kind = "workspace" /\ c > 0 => team'[t] # "gone" \/ AllClear'
  PROVE  Sends(w)
<1> DEFINE m == [j EXCEPT !.team = t, !.cursor = c]
<1>1. j \in JobType /\ JobClear(j)'
  BY JobInHand
<1>2. /\ j.kind = "team" => j.team \in Teams /\ j.stage # "workspaces"
      /\ j.kind = "workspace" => workspace' # "live"
      /\ \A s \in ViaIssues : j.stage \in StagesAfter(s) =>
           \A u \in Teams : (j.kind = "workspace" \/ u = j.team) => Clear(s, u)'
      /\ j.kind \in {"team", "workspace"}
  BY <1>1, JobFields DEF JobClear
<1>5. m = [j EXCEPT !.team = t, !.cursor = c] /\ Sending(w, m)
  OBVIOUS
<1> HIDE DEF m
<1>3. m \in JobType /\ m.kind = j.kind /\ m.team = t /\ m.stage = j.stage /\ m.cursor = c
  BY <1>1, <1>5, StageSet DEF JobType
<1>4. ASSUME NEW n, n = m
      PROVE  JobClear(n)'
  <2>1. /\ n.kind = j.kind /\ n.team = t /\ n.stage = j.stage /\ n.cursor = c
    BY <1>3, <1>4
  <2>2. ASSUME NEW s \in ViaIssues, n.stage \in StagesAfter(s), NEW u \in Teams,
               n.kind = "workspace" \/ u = n.team
        PROVE  Clear(s, u)'
    BY <1>2, <2>1, <2>2
  <2>3. /\ n.kind = "team" => n.team \in Teams /\ n.stage # "workspaces"
        /\ n.kind = "workspace" => workspace' # "live"
    BY <1>2, <2>1
  <2>4. n.kind = "workspace" /\ n.cursor > 0 => team'[n.team] # "gone" \/ AllClear'
    BY <2>1
  <2>5. ASSUME NEW s \in ViaIssues, n.stage = s
        PROVE  /\ n.kind = "workspace" => \A u \in Teams : u < n.team => Clear(s, u)'
               /\ n.team \in Teams => ClearTo(s, n.team, n.cursor)'
    BY <2>1, <2>5
  <2>6. n.team \notin Teams => n.cursor = 0
    BY <2>1
  <2> QED BY <2>2, <2>3, <2>4, <2>5, <2>6 DEF JobClear
<1> QED BY <1>5, <1>3, <1>4 DEF Sends

\* The cursors that are no team are below every team, and above.
LEMMA TeamsOrder ==
  /\ Teams \subseteq Nat /\ NoTeam \in Nat /\ REST \in Nat
  /\ NoTeam \notin Teams /\ \A t \in Teams : NoTeam < t
  /\ REST \notin Teams /\ \A t \in Teams : t < REST /\ t \in Nat
  BY PurgeAssumption DEF NoTeam

\* What a worker in a team may count on, before the step and after it.
LEMMA InTeamFacts ==
  ASSUME ChainInv, Keeps, NEW w \in Workers, InTeam(w), NEW j, j = job[w], NEW a, a = at[w],
         NEW left, left = todo[w]
  PROVE  /\ pc[w] # "idle" /\ a \in Teams /\ left \subseteq Teams
         /\ \A t \in left : a < t
         /\ j.kind = "team" => a = j.team
         /\ j.kind = "workspace" => \A t \in left \cup {a} : team'[t] # "gone" \/ AllClear'
         /\ j.kind = "workspace" /\ j.stage \in ViaIssues =>
              \A t \in Teams \ (left \cup {a}) : Clear(j.stage, t)'
<1>1. /\ pc[w] # "idle" /\ a \in Teams /\ left \subseteq Teams /\ a \notin left
      /\ \A t \in left : a < t
      /\ j.kind = "team" => a = j.team
      /\ j.kind = "workspace" => \A t \in left \cup {a} : team[t] # "gone" \/ AllClear
      /\ j # None
  <2>1. /\ pc[w] # "idle" /\ a \in Teams /\ left \subseteq Teams
        /\ \A t \in left : a < t
        /\ j.kind = "team" => a = j.team
        /\ j.kind = "workspace" => \A t \in left \cup {a} : team[t] # "gone" \/ AllClear
        /\ j # None
    BY DEF ChainInv, TypeOK, WorkClear, InTeam
  <2>2. a \notin left
    BY <2>1, PurgeAssumption
  <2> QED BY <2>1, <2>2
<1>2. j.kind = "workspace" => workspace # "live"
  BY <1>1, JobInHand
<1>3. j.kind = "workspace" => \A t \in left \cup {a} : team'[t] # "gone" \/ AllClear'
  BY <1>1, <1>2, ClearStays DEF Keeps
<1>4. j.kind = "workspace" /\ j.stage \in ViaIssues =>
        \A t \in Teams \ (left \cup {a}) : Clear(j.stage, t)
  BY <1>1 DEF ChainInv, WorkClear
<1>5. j.kind = "workspace" /\ j.stage \in ViaIssues =>
        \A t \in Teams \ (left \cup {a}) : Clear(j.stage, t)'
  BY <1>4, ClearStays
<1> QED BY <1>1, <1>3, <1>5

\* A worker done with its team hands on, goes to the next or leaves the rest to the
\* next message: all of which say what holds once its stage has cleared the team.
LEMMA TeamDoneClear ==
  ASSUME ChainInv, Keeps, NEW w \in Workers, pc[w] = "work", NEW j, j = job[w], job' = job,
         NEW a, a = at[w], j.stage \in ViaIssues => Clear(j.stage, a)', TeamDone(w),
         NEW left, left = todo[w], NEW next, next = IF left = {} THEN NoTeam ELSE Min(left)
  PROVE  WorkersStep
<1>1. /\ a \in Teams /\ left \subseteq Teams
      /\ j.kind = "team" => a = j.team
      /\ j.kind = "workspace" => \A t \in left \cup {a} : team'[t] # "gone" \/ AllClear'
      /\ j.kind = "workspace" /\ j.stage \in ViaIssues =>
           \A t \in Teams \ (left \cup {a}) : Clear(j.stage, t)'
  <2>1. InTeam(w)
    BY DEF InTeam
  <2> QED BY <2>1, InTeamFacts
<1>2. j \in JobType /\ JobClear(j)'
  BY JobInHand
<1>3. /\ left # {} => next \in left /\ \A t \in left \ {next} : next < t
      /\ left = {} => next = NoTeam
      /\ next \in Teams \cup {NoTeam}
  <2>1. left \subseteq Nat
    BY <1>1, PurgeAssumption
  <2>2. left # {} => Min(left) \in left /\ \A t \in left : Min(left) <= t
    BY <2>1, MinIsLeast
  <2> QED BY <1>1, <2>1, <2>2
<1>4. NoTeam \notin Teams /\ REST \notin Teams /\ \A t \in Teams : t < REST /\ t \in Nat
  BY TeamsOrder
<1>5. j.kind = "workspace" /\ j.stage \in ViaIssues => \A t \in Teams \ left : Clear(j.stage, t)'
  BY <1>1
<1>6. CASE j.kind = "team" /\ HandOn(w) /\ UNCHANGED <<at, todo, cursor>>
  <2>1. Sends(w)
    BY <1>1, <1>2, <1>6, HandOnClear
  <2> QED BY <1>6, <2>1, SentClear
<1>7. CASE j.kind = "workspace" /\ Resume(w, j, next, left \ {next}, 0) /\ UNCHANGED out
  <2>1. WorkerTypes'
    BY <1>1, <1>3, <1>7, TypeHalves DEF ChainInv, WorkerTypes, Resume, PCs
  <2>2. ASSUME NEW v \in Workers, v # w
        PROVE  Same(v)
    BY <1>7, <2>2, TypeHalves DEF ChainInv, WorkerTypes, Resume, Same
  <2>3. /\ job'[w] = j /\ out'[w] = out[w] /\ at'[w] = next /\ todo'[w] = left \ {next}
        /\ cursor'[w] = 0 /\ pc'[w] = IF next = NoTeam THEN "rest" ELSE "work"
    BY <1>7, TypeHalves DEF ChainInv, WorkerTypes, Resume
  <2>4. j # None
    BY <1>2, JobFields
  <2>5. HeldClear(w)'
    <3>1. out[w] \in JobType \cup {None} /\ HeldClear(w)
      BY DEF ChainInv, TypeOK
    <3>2. ASSUME NEW o, o = out[w], o # None
          PROVE  JobClear(o)'
      BY <3>1, <3>2, JobStays DEF HeldClear
    <3>3. ASSUME NEW o \in {job'[w], out'[w]} \ {None}
          PROVE  JobClear(o)'
      BY <1>2, <2>3, <3>2
    <3> QED BY <3>3 DEF HeldClear
  <2>6. CASE next = NoTeam
    <3>1. left = {}
      BY <1>1, <1>3, <1>4, <2>6
    <3>2. j.stage \in ViaIssues => \A t \in Teams : Clear(j.stage, t)'
      BY <1>5, <1>7, <3>1
    <3>3. WorkClear(w)'
      BY <1>7, <2>3, <2>4, <2>6, <3>1, <3>2 DEF WorkClear, InTeam
    <3> QED BY <2>1, <2>2, <2>5, <3>3 DEF WorkersStep
  <2>7. CASE next # NoTeam
    <3>1. next \in left /\ next \in Teams
      BY <1>1, <1>3, <2>7
    <3>2. /\ left = (left \ {next}) \cup {next}
          /\ \A t \in left \ {next} : next < t
      BY <1>3, <3>1
    <3>3. ClearTo(j.stage, next, 0)'
      BY ClearEnds
    <3>4. \A t \in (left \ {next}) \cup {next} : team'[t] # "gone" \/ AllClear'
      BY <1>1, <1>7, <3>2
    <3>5. j.stage \in ViaIssues =>
            \A t \in Teams \ ((left \ {next}) \cup {next}) : Clear(j.stage, t)'
      BY <1>5, <1>7, <3>2
    <3>6. WorkClear(w)'
      BY <1>7, <2>3, <2>4, <2>7, <3>1, <3>2, <3>3, <3>4, <3>5 DEF WorkClear, InTeam
    <3> QED BY <2>1, <2>2, <2>5, <3>6 DEF WorkersStep
  <2> QED BY <2>6, <2>7
<1>8. CASE /\ j.kind = "workspace"
           /\ Sending(w, [j EXCEPT !.team = IF next = NoTeam THEN REST ELSE next, !.cursor = 0])
           /\ UNCHANGED <<at, todo, cursor>>
  <2> DEFINE to == IF next = NoTeam THEN REST ELSE next
  <2>1. to \in Teams \cup {NoTeam, REST} /\ (to \notin Teams => to = REST)
    BY <1>3
  <2>2. Sending(w, [job[w] EXCEPT !.team = to, !.cursor = 0])
    BY <1>8
  <2>3. \A t \in Teams : t < to => t \notin left
    <3>1. CASE left = {}
      BY <3>1
    <3>2. CASE left # {}
      <4>1. next \in left /\ next \in Teams /\ to = next
        BY <1>1, <1>3, <1>4, <3>2
      <4> QED BY <1>1, <1>3, <1>4, <4>1
    <3> QED BY <3>1, <3>2
  <2> HIDE DEF to
  <2>4. j.stage \in ViaIssues => /\ \A t \in Teams : t < to => Clear(j.stage, t)'
                                 /\ to \in Teams => ClearTo(j.stage, to, 0)'
    BY <1>5, <1>8, <2>3, ClearEnds
  <2>5. 0 \in Numbers \cup {0} /\ ~(0 > 0) /\ pc[w] # "idle" /\ j.kind # "team"
    BY <1>8
  <2>6. Sends(w)
    BY <2>1, <2>2, <2>4, <2>5, PausedClear
  <2> QED BY <1>8, <2>6, SentClear
<1> QED BY <1>6, <1>7, <1>8 DEF TeamDone

\* A worker that stays in its team says what holds when the team is clear up to its
\* cursor, or short of it while the thread in hand is still to go.
LEMMA StaysInTeam ==
  ASSUME ChainInv, Keeps, NEW w \in Workers, InTeam(w), NEW j, j = job[w], NEW a, a = at[w],
         NEW left, left = todo[w], UNCHANGED <<job, todo, at, out>>,
         NEW p \in {"work", "erase", "release"}, pc' = [pc EXCEPT ![w] = p],
         NEW c \in Numbers \cup {0}, cursor' = [cursor EXCEPT ![w] = c],
         p # "work" => j.stage = "discussion",
         j.stage \in ViaIssues => /\ p # "erase" => ClearTo(j.stage, a, c)'
                                  /\ p = "erase" => ClearTo(j.stage, a, c - 1)'
  PROVE  WorkersStep
<1>1. /\ pc[w] # "idle" /\ a \in Teams /\ left \subseteq Teams
      /\ \A t \in left : a < t
      /\ j.kind = "team" => a = j.team
      /\ j.kind = "workspace" => \A t \in left \cup {a} : team'[t] # "gone" \/ AllClear'
      /\ j.kind = "workspace" /\ j.stage \in ViaIssues =>
           \A t \in Teams \ (left \cup {a}) : Clear(j.stage, t)'
  BY InTeamFacts
<1>2. j \in JobType /\ j # None /\ JobClear(j)'
  BY <1>1, JobInHand, JobFields
<1>3. WorkerTypes'
  BY TypeHalves DEF ChainInv, WorkerTypes, PCs
<1>4. ASSUME NEW v \in Workers, v # w
      PROVE  Same(v)
  BY <1>4, TypeHalves DEF ChainInv, WorkerTypes, Same
<1>5. /\ job'[w] = j /\ out'[w] = out[w] /\ at'[w] = a /\ todo'[w] = left
      /\ cursor'[w] = c /\ pc'[w] = p
  BY TypeHalves DEF ChainInv, WorkerTypes
<1>6. HeldClear(w)'
  <2>1. out[w] \in JobType \cup {None} /\ HeldClear(w)
    BY DEF ChainInv, TypeOK
  <2>2. ASSUME NEW o, o = out[w], o # None
        PROVE  JobClear(o)'
    BY <2>1, <2>2, JobStays DEF HeldClear
  <2>3. ASSUME NEW o \in {job'[w], out'[w]} \ {None}
        PROVE  JobClear(o)'
    BY <1>2, <1>5, <2>2
  <2> QED BY <2>3 DEF HeldClear
<1>7. WorkClear(w)'
  BY <1>1, <1>2, <1>5 DEF WorkClear, InTeam
<1> QED BY <1>3, <1>4, <1>6, <1>7 DEF WorkersStep

\* A worker done with an issue goes on, or leaves off there.
LEMMA StepOnClear ==
  ASSUME ChainInv, Keeps, NEW w \in Workers, InTeam(w), NEW j, j = job[w], NEW a, a = at[w],
         NEW left, left = todo[w], UNCHANGED <<job, todo, at>>, NEW c \in Numbers \cup {0},
         j.stage \in ViaIssues => ClearTo(j.stage, a, c)', StepOn(w, c)
  PROVE  WorkersStep
<1>1. /\ pc[w] # "idle" /\ a \in Teams
      /\ \A t \in left : a < t
      /\ j.kind = "team" => a = j.team
      /\ j.kind = "workspace" => \A t \in left \cup {a} : team'[t] # "gone" \/ AllClear'
      /\ j.kind = "workspace" /\ j.stage \in ViaIssues =>
           \A t \in Teams \ (left \cup {a}) : Clear(j.stage, t)'
  BY InTeamFacts
<1>2. CASE /\ pc' = [pc EXCEPT ![w] = "work"] /\ cursor' = [cursor EXCEPT ![w] = c]
           /\ UNCHANGED out
  BY <1>2, StaysInTeam
<1>3. CASE Sending(w, [job[w] EXCEPT !.team = a, !.cursor = c]) /\ UNCHANGED cursor
  <2>1. \A t \in Teams : t < a => t \notin left \cup {a}
    BY <1>1, TeamsOrder
  <2>2. a \in Teams \cup {NoTeam, REST}
    BY <1>1
  <2>3. Sends(w)
    BY <1>1, <1>3, <2>1, <2>2, PausedClear
  <2> QED BY <1>1, <1>3, <2>3, SentClear
<1> QED BY <1>2, <1>3 DEF StepOn

-----------------------------------------------------------------------------
(* The rows a step leaves.                                                 *)

\* Rows that only go away keep every claim, and the order too if no issue goes.
LEMMA Shrinks ==
  ASSUME ChainInv, UNCHANGED <<workspace, team>>, NoTeam \in starting' => NoTeam \in starting,
         \A s \in RowStages : rows'[s] \subseteq rows[s]
  PROVE  /\ Keeps /\ MarksClear'
         /\ rows'["issues"] = rows["issues"] => ThreadsBeforeIssues'
<1>1. Keeps
  BY DEF Keeps, ViaIssues, RowStages
<1>2. MarksClear'
  <2>1. MarksClear
    BY DEF ChainInv
  <2> QED BY <1>1, <2>1, ClearStays DEF MarksClear
<1>3. rows'["issues"] = rows["issues"] => ThreadsBeforeIssues'
  BY DEF ChainInv, ThreadsBeforeIssues, RowStages
<1> QED BY <1>1, <1>2, <1>3

\* The rows left when some are deleted.
LEMMA RowsLeft ==
  ASSUME DataTypes, NEW s \in RowStages, NEW X, rows' = [rows EXCEPT ![s] = @ \ X]
  PROVE  /\ rows' \in [RowStages -> SUBSET (Teams \X (Numbers \cup {0}))]
         /\ \A r \in RowStages : /\ rows'[r] = IF r = s THEN rows[r] \ X ELSE rows[r]
                                 /\ rows'[r] \subseteq rows[r] /\ rows'[r] \subseteq AllRows[r]
  BY DEF DataTypes

-----------------------------------------------------------------------------
(* A worker in a team.                                                     *)

\* The issue in hand is the team's lowest past the cursor.
LEMMA HandIs ==
  ASSUME ChainInv, NEW w \in Workers, Ahead(w) # {}, NEW n, n = Min(Ahead(w))
  PROVE  /\ n \in Numbers /\ n > cursor[w] /\ InHand(w) = <<at[w], n>> /\ InHand(w)[2] = n
         /\ \A k \in Numbers : k > cursor[w] /\ k < n => <<at[w], k>> \notin rows["issues"]
<1>1. Ahead(w) \in SUBSET Nat /\ Numbers \subseteq Nat
  BY PurgeAssumption DEF Ahead
<1>2. n \in Ahead(w) /\ \A k \in Ahead(w) : n <= k
  BY <1>1, MinIsLeast
<1>3. n \in Numbers /\ n > cursor[w]
  BY <1>2 DEF Ahead
<1>4. ASSUME NEW k \in Numbers, k > cursor[w], k < n
      PROVE  <<at[w], k>> \notin rows["issues"]
  <2>1. k \notin Ahead(w)
    BY <1>1, <1>2, <1>3, <1>4
  <2> QED BY <1>4, <2>1 DEF Ahead
<1>5. InHand(w) = <<at[w], n>>
  BY DEF InHand
<1> QED BY <1>3, <1>4, <1>5

\* A stage that finds its rows through the issues has none left up to the issue in
\* hand, and none at all when no issue is.
LEMMA ClearUpTo ==
  ASSUME ChainInv, NEW w \in Workers, pc[w] = "work", NEW s \in ViaIssues, s = job[w].stage,
         NEW a, a = at[w]
  PROVE  /\ Ahead(w) = {} => Clear(s, a)
         /\ \A n : Ahead(w) # {} /\ n = Min(Ahead(w)) => ClearTo(s, a, n - 1)
<1>1. /\ ClearTo(s, a, cursor[w]) /\ a \in Teams
      /\ cursor[w] \in Nat /\ Numbers \subseteq Nat
  <2>1. cursor[w] \in Numbers \cup {0} /\ Numbers \subseteq Nat
    BY PurgeAssumption DEF ChainInv, TypeOK
  <2>2. job[w] # None /\ InTeam(w)
    BY DEF ChainInv, WorkClear, InTeam
  <2>3. ClearTo(s, a, cursor[w]) /\ a \in Teams
    BY <2>2 DEF ChainInv, WorkClear
  <2>4. cursor[w] \in Nat
    <3>1. Numbers \cup {0} \subseteq Nat
      BY PurgeAssumption
    <3> QED BY <2>1, <3>1
  <2> QED BY <2>1, <2>3, <2>4
<1>2. \A k \in Numbers : <<a, k>> \in rows[s] => <<a, k>> \in rows["issues"]
  BY <1>1 DEF ChainInv, ThreadsBeforeIssues, ViaIssues
<1>3. \A k \in Numbers : <<a, k>> \in rows[s] => k > cursor[w]
  BY <1>1 DEF ClearTo
<1>4. Ahead(w) = {} => Clear(s, a)
  BY <1>2, <1>3 DEF Ahead, Clear
<1>5. ASSUME NEW n, Ahead(w) # {}, n = Min(Ahead(w))
      PROVE  ClearTo(s, a, n - 1)
  <2>1. /\ n \in Numbers
        /\ \A k \in Numbers : k > cursor[w] /\ k < n => <<a, k>> \notin rows["issues"]
    BY <1>5, HandIs
  <2>2. \A k \in Numbers : k <= n - 1 => k < n
    BY <1>1, <2>1
  <2> QED BY <1>2, <1>3, <2>1, <2>2 DEF ClearTo
<1> QED BY <1>4, <1>5

\* Up to an issue and the issue is up to and including it.
LEMMA ClearNext ==
  ASSUME NEW s, NEW t, NEW n \in Numbers, ClearTo(s, t, n - 1)',
         <<t, n>> \notin rows'[s]
  PROVE  ClearTo(s, t, n)'
<1>1. n \in Nat /\ \A k \in Numbers : k <= n => k <= n - 1 \/ k = n
  BY PurgeAssumption
<1> QED BY <1>1 DEF ClearTo

\* The worker reads an issue's files.
LEMMA ReadFilesKeeps ==
  ASSUME ChainInv, NEW w \in Workers, ReadFiles(w)
  PROVE  ChainInv'
<1>1. PICK n : n = Min(Ahead(w))
  OBVIOUS
<1>2. PICK a : a = at[w]
  OBVIOUS
<1>3. pc[w] = "work" /\ job[w].stage = "discussion" /\ InTeam(w) /\ Ahead(w) # {}
  BY DEF ReadFiles, Working, InTeam
<1>4. n \in Numbers /\ InHand(w)[2] = n
  BY <1>1, <1>3, HandIs
<1>5. Keeps /\ MarksClear' /\ ThreadsBeforeIssues'
  BY Shrinks DEF ReadFiles, data
<1>6. ClearTo("discussion", a, n - 1)'
  <2>1. ClearTo("discussion", a, n - 1)
    BY <1>1, <1>2, <1>3, ClearUpTo DEF ViaIssues
  <2> QED BY <1>5, <2>1, ClearStays DEF ViaIssues
<1>7. WorkersStep
  <2>1. /\ UNCHANGED <<job, todo, at, out>> /\ pc' = [pc EXCEPT ![w] = "erase"]
        /\ cursor' = [cursor EXCEPT ![w] = n]
    BY <1>4 DEF ReadFiles
  <2>2. PICK j, left : j = job[w] /\ left = todo[w]
    OBVIOUS
  <2>3. j.stage \in ViaIssues => ClearTo(j.stage, a, n - 1)'
    BY <1>3, <1>6, <2>2
  <2> QED BY <1>2, <1>3, <1>4, <1>5, <2>1, <2>2, <2>3, StaysInTeam
<1>8. DataTypes'
  BY TypeHalves DEF ReadFiles, ChainInv, DataTypes, data
<1> QED BY <1>5, <1>7, <1>8, OneStep DEF ReadFiles

\* The worker deletes the thread in hand.
LEMMA EraseThreadKeeps ==
  ASSUME ChainInv, NEW w \in Workers, EraseThread(w)
  PROVE  ChainInv'
<1>1. PICK n : n = cursor[w]
  OBVIOUS
<1>2. PICK a : a = at[w]
  OBVIOUS
<1>3. pc[w] = "erase" /\ InTeam(w) /\ job[w] # None /\ job[w].stage = "discussion"
  BY DEF EraseThread, InTeam, ChainInv, WorkClear
<1>4. n \in Numbers \cup {0}
  BY <1>1 DEF ChainInv, TypeOK
<1>5. /\ rows' \in [RowStages -> SUBSET (Teams \X (Numbers \cup {0}))]
      /\ \A r \in RowStages :
           /\ rows'[r] = IF r = "discussion" THEN rows[r] \ {<<a, n>>} ELSE rows[r]
           /\ rows'[r] \subseteq rows[r] /\ rows'[r] \subseteq AllRows[r]
  BY <1>1, <1>2, RowsLeft, TypeHalves DEF EraseThread, ChainInv, RowStages
<1>6. Keeps /\ MarksClear' /\ ThreadsBeforeIssues'
  BY <1>5, Shrinks DEF EraseThread, RowStages
<1>7. ClearTo("discussion", a, n)'
  <2>1. ClearTo("discussion", a, n - 1)
    BY <1>1, <1>2, <1>3 DEF ChainInv, WorkClear, ViaIssues
  <2>2. ClearTo("discussion", a, n - 1)'
    BY <1>6, <2>1, ClearStays DEF ViaIssues
  <2>3. <<a, n>> \notin rows'["discussion"]
    BY <1>5 DEF RowStages
  <2> QED BY <1>4, <2>2, <2>3, ClearNext, ClearEnds
<1>8. WorkersStep
  <2>1. cursor' = [cursor EXCEPT ![w] = n]
    BY <1>1, TypeHalves DEF EraseThread, ChainInv, WorkerTypes
  <2>2. UNCHANGED <<job, todo, at, out>> /\ pc' = [pc EXCEPT ![w] = "release"]
    BY DEF EraseThread
  <2>3. PICK j, left : j = job[w] /\ left = todo[w]
    OBVIOUS
  <2>4. j.stage \in ViaIssues => ClearTo(j.stage, a, n)'
    BY <1>3, <1>7, <2>3
  <2> QED BY <1>2, <1>3, <1>4, <1>6, <2>1, <2>2, <2>3, <2>4, StaysInTeam
<1>9. DataTypes'
  BY <1>5, TypeHalves DEF EraseThread, ChainInv, DataTypes
<1> QED BY <1>6, <1>8, <1>9, OneStep DEF EraseThread

\* The worker gives the thread's bytes back.
LEMMA ReleaseBytesKeeps ==
  ASSUME ChainInv, NEW w \in Workers, ReleaseBytes(w)
  PROVE  ChainInv'
<1>1. PICK n, a, j, left : n = cursor[w] /\ a = at[w] /\ j = job[w] /\ left = todo[w]
  OBVIOUS
<1>2. pc[w] = "release" /\ InTeam(w) /\ j # None /\ j.stage = "discussion"
  BY <1>1 DEF ReleaseBytes, InTeam, ChainInv, WorkClear
<1>3. n \in Numbers \cup {0}
  BY <1>1 DEF ChainInv, TypeOK
<1>4. Keeps /\ MarksClear' /\ ThreadsBeforeIssues'
  BY Shrinks DEF ReleaseBytes
<1>5. ClearTo(j.stage, a, n)'
  <2>1. ClearTo(j.stage, a, n)
    BY <1>1, <1>2 DEF ChainInv, WorkClear, ViaIssues
  <2> QED BY <1>2, <1>4, <2>1, ClearStays DEF ViaIssues
<1>6. WorkersStep
  <2>1. StepOn(w, n) /\ UNCHANGED <<job, todo, at>>
    BY <1>1 DEF ReleaseBytes, StepOn
  <2> QED BY <1>1, <1>2, <1>3, <1>4, <1>5, <2>1, StepOnClear
<1>7. DataTypes'
  BY TypeHalves DEF ReleaseBytes, ChainInv, DataTypes
<1> QED BY <1>4, <1>6, <1>7, OneStep DEF ReleaseBytes

\* The worker deletes the team's own links.
LEMMA UnlinkTeamKeeps ==
  ASSUME ChainInv, NEW w \in Workers, UnlinkTeam(w)
  PROVE  ChainInv'
<1>1. PICK n, a, j, left : n = cursor[w] /\ a = at[w] /\ j = job[w] /\ left = todo[w]
  OBVIOUS
<1>2. pc[w] = "head" /\ InTeam(w) /\ j # None /\ j.stage = "integrations"
  BY <1>1 DEF UnlinkTeam, InTeam, ChainInv, WorkClear
<1>3. n \in Numbers \cup {0}
  BY <1>1 DEF ChainInv, TypeOK
<1>4. /\ rows' \in [RowStages -> SUBSET (Teams \X (Numbers \cup {0}))]
      /\ \A r \in RowStages :
           /\ rows'[r] = IF r = "integrations" THEN rows[r] \ {<<a, 0>>} ELSE rows[r]
           /\ rows'[r] \subseteq rows[r] /\ rows'[r] \subseteq AllRows[r]
  BY <1>1, RowsLeft, TypeHalves DEF UnlinkTeam, ChainInv, RowStages
<1>5. Keeps /\ MarksClear' /\ ThreadsBeforeIssues'
  BY <1>4, Shrinks DEF UnlinkTeam, RowStages
<1>6. ClearTo(j.stage, a, n)'
  <2>1. ClearTo(j.stage, a, n)
    BY <1>1, <1>2 DEF ChainInv, WorkClear, ViaIssues
  <2> QED BY <1>2, <1>5, <2>1, ClearStays DEF ViaIssues
<1>7. WorkersStep
  <2>1. cursor' = [cursor EXCEPT ![w] = n]
    BY <1>1, TypeHalves DEF UnlinkTeam, ChainInv, WorkerTypes
  <2>2. UNCHANGED <<job, todo, at, out>> /\ pc' = [pc EXCEPT ![w] = "work"]
    BY DEF UnlinkTeam
  <2> QED BY <1>1, <1>2, <1>3, <1>5, <1>6, <2>1, <2>2, StaysInTeam
<1>8. DataTypes'
  BY <1>4, TypeHalves DEF UnlinkTeam, ChainInv, DataTypes
<1> QED BY <1>5, <1>7, <1>8, OneStep DEF UnlinkTeam

\* The worker deletes an issue's links.
LEMMA UnlinkIssueKeeps ==
  ASSUME ChainInv, NEW w \in Workers, UnlinkIssue(w)
  PROVE  ChainInv'
<1>1. PICK n, a, j, left :
        n = Min(Ahead(w)) /\ a = at[w] /\ j = job[w] /\ left = todo[w]
  OBVIOUS
<1>2. pc[w] = "work" /\ InTeam(w) /\ Ahead(w) # {} /\ j.stage = "integrations"
  BY <1>1 DEF UnlinkIssue, Working, InTeam
<1>3. n \in Numbers /\ InHand(w) = <<a, n>> /\ InHand(w)[2] = n
  BY <1>1, <1>2, HandIs
<1>4. /\ rows' \in [RowStages -> SUBSET (Teams \X (Numbers \cup {0}))]
      /\ \A r \in RowStages :
           /\ rows'[r] = IF r = "integrations" THEN rows[r] \ {<<a, n>>} ELSE rows[r]
           /\ rows'[r] \subseteq rows[r] /\ rows'[r] \subseteq AllRows[r]
  BY <1>3, RowsLeft, TypeHalves DEF UnlinkIssue, ChainInv, RowStages
<1>5. Keeps /\ MarksClear' /\ ThreadsBeforeIssues'
  BY <1>4, Shrinks DEF UnlinkIssue, RowStages
<1>6. ClearTo(j.stage, a, n)'
  <2>1. ClearTo("integrations", a, n - 1)
    BY <1>1, <1>2, ClearUpTo DEF ViaIssues
  <2>2. ClearTo("integrations", a, n - 1)'
    BY <1>5, <2>1, ClearStays DEF ViaIssues
  <2>3. <<a, n>> \notin rows'["integrations"]
    BY <1>4 DEF RowStages
  <2> QED BY <1>2, <1>3, <2>2, <2>3, ClearNext
<1>7. WorkersStep
  <2>1. StepOn(w, n) /\ UNCHANGED <<job, todo, at>>
    BY <1>3 DEF UnlinkIssue, StepOn
  <2> QED BY <1>1, <1>2, <1>3, <1>5, <1>6, <2>1, StepOnClear
<1>8. DataTypes'
  BY <1>4, TypeHalves DEF UnlinkIssue, ChainInv, DataTypes
<1> QED BY <1>5, <1>7, <1>8, OneStep DEF UnlinkIssue

\* By the time a worker deletes issues, nothing is found through them.
LEMMA NothingLeftVia ==
  ASSUME ChainInv, NEW w \in Workers, pc[w] # "idle", NEW s \in ViaIssues,
         job[w].stage \in StagesAfter(s), NEW t \in Teams,
         job[w].kind = "workspace" \/ t = job[w].team
  PROVE  Clear(s, t)
<1>1. job[w] # None
  BY DEF ChainInv, WorkClear
<1> QED BY <1>1 DEF ChainInv, HeldClear, JobClear

\* The worker deletes an issue.
LEMMA DeleteIssueKeeps ==
  ASSUME ChainInv, NEW w \in Workers, DeleteIssue(w)
  PROVE  ChainInv'
<1>1. PICK n, a, j, left :
        n = Min(Ahead(w)) /\ a = at[w] /\ j = job[w] /\ left = todo[w]
  OBVIOUS
<1>2. pc[w] = "work" /\ InTeam(w) /\ Ahead(w) # {} /\ j.stage = "issues" /\ j # None
  BY <1>1 DEF DeleteIssue, Working, InTeam, ChainInv, WorkClear
<1>3. n \in Numbers /\ InHand(w) = <<a, n>>
  BY <1>1, <1>2, HandIs
<1>4. /\ rows' \in [RowStages -> SUBSET (Teams \X (Numbers \cup {0}))]
      /\ \A r \in RowStages :
           /\ rows'[r] = IF r = "issues" THEN rows[r] \ {<<a, n>>} ELSE rows[r]
           /\ rows'[r] \subseteq rows[r] /\ rows'[r] \subseteq AllRows[r]
  BY <1>3, RowsLeft, TypeHalves DEF DeleteIssue, ChainInv, RowStages
<1>5. Keeps /\ MarksClear'
  BY <1>4, Shrinks DEF DeleteIssue
<1>6. a \in Teams /\ (j.kind = "workspace" \/ a = j.team)
  <2>1. j.kind \in {"team", "workspace"}
    BY <1>1, <1>2, JobFields DEF ChainInv, TypeOK
  <2> QED BY <1>1, <1>2, <2>1 DEF ChainInv, WorkClear
<1>7. \A s \in ViaIssues : Clear(s, a)
  BY <1>1, <1>2, <1>6, AfterIs, NothingLeftVia DEF ViaIssues
<1>8. ThreadsBeforeIssues'
  <2> SUFFICES ASSUME NEW t \in Teams, NEW k \in Numbers,
                      <<t, k>> \in rows'["discussion"] \cup rows'["integrations"]
               PROVE  <<t, k>> \in rows'["issues"]
    BY DEF ThreadsBeforeIssues
  <2>1. <<t, k>> \in rows["discussion"] \cup rows["integrations"]
    BY <1>4 DEF RowStages
  <2>2. t # a
    BY <1>7, <2>1 DEF Clear, ViaIssues
  <2>3. <<t, k>> \in rows["issues"]
    BY <2>1 DEF ChainInv, ThreadsBeforeIssues
  <2> QED BY <1>4, <2>2, <2>3 DEF RowStages
<1>9. WorkersStep
  <2>1. StepOn(w, 0) /\ UNCHANGED <<job, todo, at>> /\ j.stage \notin ViaIssues
    BY <1>2 DEF DeleteIssue, ViaIssues
  <2> QED BY <1>1, <1>2, <1>5, <2>1, StepOnClear
<1>10. DataTypes'
  BY <1>4, TypeHalves DEF DeleteIssue, ChainInv, DataTypes
<1> QED BY <1>5, <1>8, <1>9, <1>10, OneStep DEF DeleteIssue

\* The worker finds no issue left in its team.
LEMMA FinishIssuesKeeps ==
  ASSUME ChainInv, NEW w \in Workers, FinishIssues(w)
  PROVE  ChainInv'
<1>1. PICK a, j, left, next : /\ a = at[w] /\ j = job[w] /\ left = todo[w]
                              /\ next = IF left = {} THEN NoTeam ELSE Min(left)
  OBVIOUS
<1>2. pc[w] = "work" /\ Ahead(w) = {}
  BY DEF FinishIssues
<1>3. Keeps /\ MarksClear' /\ ThreadsBeforeIssues'
  BY Shrinks DEF FinishIssues, data
<1>4. j.stage \in ViaIssues => Clear(j.stage, a)'
  BY <1>1, <1>2, <1>3, ClearUpTo, ClearStays
<1>5. WorkersStep
  BY <1>1, <1>2, <1>3, <1>4, TeamDoneClear DEF FinishIssues
<1>6. DataTypes'
  BY TypeHalves DEF FinishIssues, ChainInv, DataTypes, data
<1> QED BY <1>3, <1>5, <1>6, OneStep DEF FinishIssues

\* The worker deletes the team's views, or its planning rows.
LEMMA ClearTeamKeeps ==
  ASSUME ChainInv, NEW w \in Workers, ClearTeam(w)
  PROVE  ChainInv'
<1>1. PICK a, j, left, next : /\ a = at[w] /\ j = job[w] /\ left = todo[w]
                              /\ next = IF left = {} THEN NoTeam ELSE Min(left)
  OBVIOUS
<1>2. pc[w] = "work" /\ j.stage \in {"views", "planning"} /\ j.stage \notin ViaIssues
  BY <1>1 DEF ClearTeam, ViaIssues
<1>3. /\ rows' \in [RowStages -> SUBSET (Teams \X (Numbers \cup {0}))]
      /\ \A r \in RowStages :
           /\ rows'[r] = IF r = j.stage THEN rows[r] \ {<<a, 0>>} ELSE rows[r]
           /\ rows'[r] \subseteq rows[r] /\ rows'[r] \subseteq AllRows[r]
  BY <1>1, <1>2, RowsLeft, TypeHalves DEF ClearTeam, ChainInv, RowStages
<1>4. Keeps /\ MarksClear' /\ ThreadsBeforeIssues'
  BY <1>2, <1>3, Shrinks DEF ClearTeam, RowStages
<1>5. WorkersStep
  BY <1>1, <1>2, <1>4, TeamDoneClear DEF ClearTeam
<1>6. DataTypes'
  BY <1>3, TypeHalves DEF ClearTeam, ChainInv, DataTypes
<1> QED BY <1>4, <1>5, <1>6, OneStep DEF ClearTeam

\* The worker deletes the team's row, with nothing left to find through its issues.
LEMMA DeleteTeamRowKeeps ==
  ASSUME ChainInv, NEW w \in Workers, DeleteTeamRow(w)
  PROVE  ChainInv'
<1>1. PICK a, j, left, next : /\ a = at[w] /\ j = job[w] /\ left = todo[w]
                              /\ next = IF left = {} THEN NoTeam ELSE Min(left)
  OBVIOUS
<1>2. /\ pc[w] = "work" /\ InTeam(w) /\ j.stage = "teams" /\ j # None /\ j.stage \notin ViaIssues
      /\ j \in JobType
  BY <1>1 DEF DeleteTeamRow, Working, InTeam, ChainInv, WorkClear, ViaIssues, TypeOK
<1>3. /\ a \in Teams /\ j.kind \in {"team", "workspace"}
      /\ j.kind = "team" => a = j.team
      /\ j.kind = "workspace" => workspace # "live"
  BY <1>1, <1>2, JobFields DEF ChainInv, WorkClear, HeldClear, JobClear
<1>4. /\ team' \in [Teams -> {"live", "deleting", "gone"}]
      /\ \A t \in Teams : t # a => team'[t] = team[t]
      /\ team'[a] = IF j.kind = "workspace" \/ team[a] = "deleting" THEN "gone" ELSE team[a]
  BY <1>1, <1>3, TypeHalves DEF DeleteTeamRow, ChainInv, DataTypes
<1>5. \A s \in ViaIssues : Clear(s, a) /\ (j.kind = "workspace" => AllClear)
  BY <1>1, <1>2, <1>3, AfterIs, NothingLeftVia DEF ViaIssues, AllClear
<1>6. workspace = "live" \/ team[a] # "deleting"
  BY <1>3 DEF ChainInv, MarksClear
<1>7. Keeps
  <2>1. \A s \in ViaIssues : rows'[s] \subseteq rows[s] /\ workspace' = workspace
    BY DEF DeleteTeamRow
  <2>2. ASSUME NEW t \in Teams, team'[t] = "gone"
        PROVE  team[t] = "gone" \/ workspace = "live" \/ AllClear
    BY <1>3, <1>4, <1>5, <1>6, <2>2 DEF ViaIssues
  <2> QED BY <2>1, <2>2 DEF Keeps, ViaIssues
<1>8. MarksClear'
  <2>1. \A t \in Teams, s \in ViaIssues : team'[t] = "gone" => Clear(s, t)
    BY <1>4, <1>5 DEF ChainInv, MarksClear
  <2>2. workspace' = "live" \/ \A t \in Teams : team'[t] # "deleting"
    BY <1>4 DEF ChainInv, MarksClear, DeleteTeamRow
  <2>3. NoTeam \in starting' => workspace' # "live"
    BY DEF ChainInv, MarksClear, DeleteTeamRow
  <2> QED BY <1>7, <2>1, <2>2, <2>3, ClearStays DEF MarksClear
<1>9. ThreadsBeforeIssues'
  BY DEF DeleteTeamRow, ChainInv, ThreadsBeforeIssues
<1>10. WorkersStep
  BY <1>1, <1>2, <1>7, TeamDoneClear DEF DeleteTeamRow
<1>11. DataTypes'
  BY <1>4, TypeHalves DEF DeleteTeamRow, ChainInv, DataTypes
<1> QED BY <1>7, <1>8, <1>9, <1>10, <1>11, OneStep DEF DeleteTeamRow

-----------------------------------------------------------------------------
(* A worker past every team.                                               *)

\* A worker at a whole-workspace step holds a workspace's message, and its stage has
\* cleared every team.
LEMMA RestFacts ==
  ASSUME ChainInv, NEW w \in Workers, pc[w] = "rest", NEW j, j = job[w]
  PROVE  /\ j \in JobType /\ j # None /\ j.kind = "workspace" /\ workspace # "live"
         /\ \A s \in ViaIssues, t \in Teams : j.stage = s \/ j.stage \in StagesAfter(s) => Clear(s, t)
<1>1. j \in JobType /\ j # None /\ j.kind = "workspace" /\ todo[w] = {} /\ at[w] = NoTeam
  BY DEF ChainInv, WorkClear, TypeOK
<1>2. workspace # "live"
  BY <1>1 DEF ChainInv, HeldClear, JobClear
<1>3. ASSUME NEW s \in ViaIssues, NEW t \in Teams, j.stage = s
      PROVE  Clear(s, t)
  <2>1. t \in Teams \ (todo[w] \cup {at[w]})
    BY <1>1, TeamsOrder
  <2> QED BY <1>1, <1>3, <2>1 DEF ChainInv, WorkClear
<1>4. ASSUME NEW s \in ViaIssues, NEW t \in Teams, j.stage \in StagesAfter(s)
      PROVE  Clear(s, t)
  BY <1>1, <1>4, NothingLeftVia
<1> QED BY <1>1, <1>2, <1>3, <1>4

\* The worker takes a whole-workspace step.
LEMMA SweepWorkspaceKeeps ==
  ASSUME ChainInv, NEW w \in Workers, SweepWorkspace(w)
  PROVE  ChainInv'
<1>1. PICK j : j = job[w]
  OBVIOUS
<1>2. pc[w] = "rest" /\ pc[w] # "idle"
  BY DEF SweepWorkspace
<1>3. /\ j \in JobType /\ j # None /\ j.kind = "workspace" /\ workspace # "live"
      /\ \A s \in ViaIssues, t \in Teams : j.stage = s \/ j.stage \in StagesAfter(s) => Clear(s, t)
  BY <1>1, <1>2, RestFacts
<1>4. rows' = IF j.stage \in {"integrations", "views", "planning"}
              THEN [rows EXCEPT ![j.stage] = {}] ELSE rows
  BY <1>1 DEF SweepWorkspace
<1>5. /\ rows' \in [RowStages -> SUBSET (Teams \X (Numbers \cup {0}))]
      /\ \A r \in RowStages : rows'[r] \subseteq rows[r] /\ rows'[r] \subseteq AllRows[r]
      /\ rows'["issues"] = rows["issues"]
  BY <1>4, TypeHalves DEF ChainInv, DataTypes, RowStages
<1>6. /\ team' = IF j.stage = "teams" THEN [t \in Teams |-> "gone"] ELSE team
      /\ workspace' = IF j.stage = "workspaces" THEN "gone" ELSE workspace
      /\ starting' = starting
  BY <1>1 DEF SweepWorkspace
<1>7. j.stage = "teams" => AllClear
  BY <1>3, AfterIs DEF AllClear, ViaIssues
<1>8. Keeps
  BY <1>3, <1>5, <1>6, <1>7 DEF Keeps, ViaIssues, RowStages
<1>9. MarksClear'
  <2>1. \A t \in Teams, s \in ViaIssues : team'[t] = "gone" => Clear(s, t)
    BY <1>6, <1>7 DEF ChainInv, MarksClear, AllClear
  <2>2. \A t \in Teams : team'[t] # "deleting"
    BY <1>3, <1>6 DEF ChainInv, MarksClear
  <2>3. workspace' # "live"
    BY <1>3, <1>6
  <2> QED BY <1>8, <2>1, <2>2, <2>3, ClearStays DEF MarksClear
<1>10. ThreadsBeforeIssues'
  BY <1>5 DEF ChainInv, ThreadsBeforeIssues, RowStages
<1>11. WorkersStep
  <2>1. JobClear(j)'
    BY <1>1, <1>2, <1>8, JobInHand
  <2>2. j.stage \in ViaIssues => \A t \in Teams : Clear(j.stage, t)'
    BY <1>3, <1>8, ClearStays
  <2>3. HandOn(w) /\ UNCHANGED <<job, todo, at, cursor>>
    BY DEF SweepWorkspace
  <2>4. Sends(w)
    BY <1>1, <1>3, <2>1, <2>2, <2>3, HandOnClear
  <2> QED BY <1>2, <1>8, <2>3, <2>4, SentClear
<1>12. DataTypes'
  BY <1>5, <1>6, TypeHalves DEF SweepWorkspace, ChainInv, DataTypes
<1> QED BY <1>8, <1>9, <1>10, <1>11, <1>12, OneStep DEF SweepWorkspace

\* The worker deletes an issue that belongs to no team still there.
LEMMA SweepIssuesKeeps ==
  ASSUME ChainInv, NEW w \in Workers, SweepIssues(w)
  PROVE  ChainInv'
<1>1. PICK j : j = job[w]
  OBVIOUS
<1>2. pc[w] = "rest" /\ pc[w] # "idle" /\ j.stage = "issues" /\ j.stage \notin ViaIssues
  BY <1>1 DEF SweepIssues, ViaIssues
<1>3. /\ j \in JobType /\ j # None /\ j.kind = "workspace"
      /\ \A s \in ViaIssues, t \in Teams : Clear(s, t)
  BY <1>1, <1>2, RestFacts, AfterIs DEF ViaIssues
<1>4. PICK X : rows' = [rows EXCEPT !["issues"] = @ \ X]
  <2>1. CASE rows["issues"] = {}
    <3>1. rows' = [rows EXCEPT !["issues"] = @ \ {}]
      BY <2>1, TypeHalves DEF SweepIssues, ChainInv, DataTypes
    <3> QED BY <3>1
  <2>2. CASE rows["issues"] # {}
    BY <2>2 DEF SweepIssues
  <2> QED BY <2>1, <2>2
<1>5. /\ rows' \in [RowStages -> SUBSET (Teams \X (Numbers \cup {0}))]
      /\ \A r \in RowStages :
           /\ rows'[r] = IF r = "issues" THEN rows[r] \ X ELSE rows[r]
           /\ rows'[r] \subseteq rows[r] /\ rows'[r] \subseteq AllRows[r]
  BY <1>4, RowsLeft, TypeHalves DEF ChainInv, RowStages
<1>6. Keeps /\ MarksClear'
  BY <1>5, Shrinks DEF SweepIssues
<1>7. ThreadsBeforeIssues'
  BY <1>3, <1>5 DEF ThreadsBeforeIssues, Clear, ViaIssues, RowStages
<1>8. WorkersStep
  <2>1. CASE HandOn(w)
    <3>1. JobClear(j)'
      BY <1>1, <1>2, <1>6, JobInHand
    <3>2. Sends(w)
      BY <1>1, <1>2, <1>3, <2>1, <3>1, HandOnClear
    <3> QED BY <1>2, <1>6, <3>2, SentClear DEF SweepIssues
  <2>2. CASE UNCHANGED <<pc, out>>
    <3>1. WorkerTypes'
      BY <2>2, TypeHalves DEF SweepIssues, ChainInv, WorkerTypes
    <3> QED BY <2>2, <3>1 DEF SweepIssues, Same, WorkersStep
  <2>3. CASE Sending(w, [job[w] EXCEPT !.team = REST, !.cursor = 0])
    <3>1. REST \in Teams \cup {NoTeam, REST} /\ 0 \in Numbers \cup {0} /\ ~(0 > 0)
          /\ j.kind # "team"
      BY <1>3
    <3>2. Sends(w)
      BY <1>1, <1>2, <1>6, <2>3, <3>1, PausedClear
    <3> QED BY <1>2, <1>6, <3>2, SentClear DEF SweepIssues
  <2> QED BY <2>1, <2>2, <2>3 DEF SweepIssues
<1>9. DataTypes'
  BY <1>5, TypeHalves DEF SweepIssues, ChainInv, DataTypes
<1> QED BY <1>6, <1>7, <1>8, <1>9, OneStep DEF SweepIssues

-----------------------------------------------------------------------------
(* The queues.                                                             *)

\* A message that says what holds may join the others.
LEMMA QueuePut ==
  ASSUME ChainInv, NEW m \in JobType, queue' = queue (+) SetToBag({m})
  PROVE  /\ IsABag(queue') /\ BagToSet(queue') \subseteq JobType
         /\ BagToSet(queue)' = BagToSet(queue) \cup {m}
<1>1. IsABag(queue) /\ BagToSet(queue) \subseteq JobType
  BY DEF ChainInv, TypeOK
<1>2. /\ IsABag(queue (+) SetToBag({m}))
      /\ BagToSet(queue (+) SetToBag({m})) = BagToSet(queue) \cup {m}
  BY <1>1, BagPut
<1> QED BY <1>1, <1>2

\* A worker let go of its message has nothing to say.
LEMMA ReleaseClear ==
  ASSUME ChainInv, NEW w \in Workers, Release(w)
  PROVE  WorkersStep /\ files' \in [Workers -> {0, 1}]
<1>1. WorkerTypes' /\ files' \in [Workers -> {0, 1}]
  BY TypeHalves DEF ChainInv, WorkerTypes, DataTypes, Release, PCs
<1>2. ASSUME NEW v \in Workers, v # w
      PROVE  Same(v)
  BY <1>2, TypeHalves DEF ChainInv, WorkerTypes, Release, Same
<1>3. job'[w] = None /\ out'[w] = None /\ pc'[w] = "idle"
  BY TypeHalves DEF ChainInv, WorkerTypes, Release
<1>4. WorkClear(w)' /\ HeldClear(w)'
  BY <1>3 DEF WorkClear, HeldClear, InTeam
<1> QED BY <1>1, <1>2, <1>4 DEF WorkersStep

\* The worker sends its message.
LEMMA SendKeeps ==
  ASSUME ChainInv, NEW w \in Workers, Send(w)
  PROVE  ChainInv'
<1>1. Keeps /\ MarksClear' /\ ThreadsBeforeIssues'
  BY Shrinks DEF Send, data
<1>2. PICK m : m = out[w] /\ m \in JobType \cup {None}
  BY DEF ChainInv, TypeOK
<1>3. /\ IsABag(queue') /\ BagToSet(queue') \subseteq JobType
      /\ \A j \in BagToSet(queue)' : j \in BagToSet(queue) \/ JobClear(j)'
  <2>1. CASE m = None
    BY <1>2, <2>1 DEF Send, ChainInv, TypeOK
  <2>2. CASE m # None
    <3>1. m \in JobType /\ JobClear(m)
      BY <1>2, <2>2 DEF ChainInv, HeldClear
    <3>2. JobClear(m)'
      BY <1>1, <3>1, JobStays
    <3>3. queue' = queue (+) SetToBag({m})
      BY <1>2, <2>2 DEF Send
    <3> QED BY <3>1, <3>2, <3>3, QueuePut
  <2> QED BY <2>1, <2>2
<1>4. WorkersStep
  <2>1. WorkerTypes'
    BY TypeHalves DEF Send, ChainInv, WorkerTypes, PCs
  <2>2. ASSUME NEW v \in Workers, v # w
        PROVE  Same(v)
    BY <2>2, TypeHalves DEF Send, ChainInv, WorkerTypes, Same
  <2>3. job'[w] = job[w] /\ out'[w] = None /\ pc'[w] = "ack" /\ pc[w] # "idle"
    BY TypeHalves DEF Send, ChainInv, WorkerTypes
  <2>4. WorkClear(w)'
    BY <2>3 DEF ChainInv, WorkClear, InTeam
  <2>5. ASSUME NEW j, j = job[w]
        PROVE  JobClear(j)'
    BY <1>1, <2>3, <2>5, JobInHand
  <2>6. HeldClear(w)'
    BY <2>3, <2>5 DEF HeldClear
  <2> QED BY <2>1, <2>2, <2>4, <2>6 DEF WorkersStep
<1>5. DataTypes'
  BY <1>3, TypeHalves DEF Send, ChainInv, DataTypes, data
<1> QED BY <1>1, <1>3, <1>4, <1>5, OneStep

\* The worker acknowledges the message it took.
LEMMA AckKeeps ==
  ASSUME ChainInv, NEW w \in Workers, Ack(w)
  PROVE  ChainInv'
<1>1. Keeps /\ MarksClear' /\ ThreadsBeforeIssues'
  BY Shrinks DEF Ack, data
<1>2. WorkersStep /\ files' \in [Workers -> {0, 1}]
  BY ReleaseClear DEF Ack
<1>3. DataTypes'
  BY <1>2, TypeHalves DEF Ack, ChainInv, DataTypes, data
<1> QED BY <1>1, <1>2, <1>3, OneStep DEF Ack

\* The worker fails, and its message comes back.
LEMMA CrashKeeps ==
  ASSUME ChainInv, NEW w \in Workers, Crash(w)
  PROVE  ChainInv'
<1>1. Keeps /\ MarksClear' /\ ThreadsBeforeIssues'
  BY Shrinks DEF Crash, data
<1>2. WorkersStep /\ files' \in [Workers -> {0, 1}]
  BY ReleaseClear DEF Crash
<1>3. PICK m : m = job[w]
  OBVIOUS
<1>4. m \in JobType /\ JobClear(m)'
  BY <1>1, <1>3, JobInHand DEF Crash
<1>5. /\ IsABag(queue') /\ BagToSet(queue') \subseteq JobType
      /\ BagToSet(queue)' = BagToSet(queue) \cup {m}
  BY <1>3, <1>4, QueuePut DEF Crash
<1>6. faults' \in 0..FAULTS
  BY PurgeAssumption DEF Crash, Fault, ChainInv, TypeOK
<1>7. DataTypes'
  BY <1>2, <1>5, <1>6, TypeHalves DEF Crash, ChainInv, DataTypes, data
<1> QED BY <1>1, <1>2, <1>4, <1>5, <1>7, OneStep

\* A worker that takes a message up says what holds when the teams it passes over are
\* clear, and the one it starts in up to its cursor.
LEMMA TakenUp ==
  ASSUME ChainInv, Keeps, NEW w \in Workers, pc[w] = "idle", NEW m \in JobType, JobClear(m),
         job' = [job EXCEPT ![w] = m], UNCHANGED out,
         NEW t \in Teams \cup {NoTeam}, NEW later \in SUBSET Teams, NEW c \in Numbers \cup {0},
         Resume(w, m, t, later, c),
         t = NoTeam => m.kind = "workspace" /\ later = {},
         t # NoTeam =>
           /\ \A u \in later : t < u
           /\ m.kind = "team" => t = m.team
           /\ m.kind = "workspace" => \A u \in later \cup {t} : team[u] # "gone" \/ AllClear
           /\ m.stage \in ViaIssues => ClearTo(m.stage, t, c),
         m.kind = "workspace" /\ m.stage \in ViaIssues =>
           \A u \in Teams \ (later \cup {t}) : Clear(m.stage, u)
  PROVE  WorkersStep
<1>1. m # None /\ JobClear(m)'
  BY JobFields, JobStays
<1>2. m.kind = "workspace" => workspace # "live"
  BY DEF JobClear
<1>3. /\ m.kind = "workspace" /\ t # NoTeam =>
           \A u \in later \cup {t} : team'[u] # "gone" \/ AllClear'
      /\ m.stage \in ViaIssues /\ t # NoTeam => ClearTo(m.stage, t, c)'
      /\ m.kind = "workspace" /\ m.stage \in ViaIssues =>
           \A u \in Teams \ (later \cup {t}) : Clear(m.stage, u)'
  <2>1. m.kind = "workspace" /\ t # NoTeam =>
          \A u \in later \cup {t} : team'[u] # "gone" \/ AllClear'
    BY <1>2, ClearStays DEF Keeps
  <2>2. /\ m.stage \in ViaIssues /\ t # NoTeam => ClearTo(m.stage, t, c)'
        /\ m.kind = "workspace" /\ m.stage \in ViaIssues =>
             \A u \in Teams \ (later \cup {t}) : Clear(m.stage, u)'
    BY ClearStays
  <2> QED BY <2>1, <2>2
<1>4. WorkerTypes'
  BY TypeHalves DEF ChainInv, WorkerTypes, Resume, PCs
<1>5. ASSUME NEW v \in Workers, v # w
      PROVE  Same(v)
  BY <1>5, TypeHalves DEF ChainInv, WorkerTypes, Resume, Same
<1>6. /\ job'[w] = m /\ out'[w] = out[w] /\ at'[w] = t /\ todo'[w] = later /\ cursor'[w] = c
      /\ pc'[w] = IF t = NoTeam THEN "rest"
                  ELSE IF m.stage = "integrations" /\ m.kind = "team" /\ c = 0
                  THEN "head" ELSE "work"
  BY TypeHalves DEF ChainInv, WorkerTypes, Resume
<1>7. HeldClear(w)'
  <2>1. out[w] \in JobType \cup {None} /\ HeldClear(w)
    BY DEF ChainInv, TypeOK
  <2>2. ASSUME NEW o, o = out[w], o # None
        PROVE  JobClear(o)'
    BY <2>1, <2>2, JobStays DEF HeldClear
  <2>3. ASSUME NEW o \in {job'[w], out'[w]} \ {None}
        PROVE  JobClear(o)'
    BY <1>1, <1>6, <2>2
  <2> QED BY <2>3 DEF HeldClear
<1>8. WorkClear(w)'
  <2>1. CASE t = NoTeam
    BY <1>1, <1>3, <1>6, <2>1 DEF WorkClear, InTeam
  <2>2. CASE t # NoTeam
    BY <1>1, <1>3, <1>6, <2>2 DEF WorkClear, InTeam
  <2> QED BY <2>1, <2>2
<1> QED BY <1>4, <1>5, <1>7, <1>8 DEF WorkersStep

\* What a message says, piece by piece.
LEMMA JobSays ==
  ASSUME NEW m \in JobType, JobClear(m)
  PROVE  /\ m.kind = "team" => m.team \in Teams
         /\ m.team \notin Teams => m.cursor = 0
         /\ m.kind = "workspace" /\ m.stage \in ViaIssues =>
              \A t \in Teams : t < m.team => Clear(m.stage, t)
         /\ m.team \in Teams /\ m.stage \in ViaIssues => ClearTo(m.stage, m.team, m.cursor)
         /\ m.kind = "workspace" /\ m.cursor > 0 => team[m.team] # "gone" \/ AllClear
  BY DEF JobClear

\* A worker takes a message.
LEMMA ReceiveKeeps ==
  ASSUME ChainInv, NEW w \in Workers, NEW m \in BagToSet(queue), Receive(w, m)
  PROVE  ChainInv'
<1>1. Keeps /\ MarksClear' /\ ThreadsBeforeIssues'
  BY Shrinks DEF Receive, data
<1>2. m \in JobType /\ JobClear(m) /\ IsABag(queue) /\ pc[w] = "idle"
  BY DEF ChainInv, TypeOK, Receive
<1>3. IsABag(queue') /\ BagToSet(queue') \subseteq BagToSet(queue)
  BY <1>2, BagTake DEF Receive
<1>4. /\ m.kind \in {"team", "workspace"} /\ m.team \in Nat
      /\ m.team \in Teams \cup {NoTeam, REST} /\ m.cursor \in Numbers \cup {0} /\ m.cursor \in Nat
  BY <1>2, JobFields
<1>5. /\ m.kind = "team" => m.team \in Teams
      /\ m.team \notin Teams => m.cursor = 0
      /\ m.kind = "workspace" /\ m.stage \in ViaIssues =>
           \A t \in Teams : t < m.team => Clear(m.stage, t)
      /\ m.team \in Teams /\ m.stage \in ViaIssues => ClearTo(m.stage, m.team, m.cursor)
      /\ m.kind = "workspace" /\ m.cursor > 0 => team[m.team] # "gone" \/ AllClear
  BY <1>2, JobSays
<1>6. WorkersStep
  <2>1. CASE UNCHANGED <<job, pc, todo, at, cursor>>
    <3>1. WorkerTypes'
      BY <2>1, TypeHalves DEF Receive, ChainInv, WorkerTypes
    <3> QED BY <2>1, <3>1 DEF Receive, Same, WorkersStep
  <2>2. CASE job' = [job EXCEPT ![w] = m] /\ TakeUp(w, m)
    <3> DEFINE pending == {t \in TeamRows : t >= m.team}
    <3>1. UNCHANGED out
      BY DEF Receive
    <3>2. CASE m.kind = "team"
      <4>1. m.team # NoTeam /\ {} \in SUBSET Teams /\ m.team \in Teams \cup {NoTeam}
        BY <1>5, <3>2, TeamsOrder
      <4>2. Resume(w, m, m.team, {}, m.cursor)
        BY <2>2, <3>2 DEF TakeUp
      <4> QED BY <1>1, <1>2, <1>4, <1>5, <2>2, <3>1, <3>2, <4>1, <4>2, TakenUp
    <3>3. CASE /\ m.kind = "workspace"
               /\ ~(m.team # REST /\ HasTeamStep(m.stage) /\ pending # {})
      <4>1. Resume(w, m, NoTeam, {}, 0)
        BY <2>2, <3>3 DEF TakeUp
      <4>2. m.stage \in ViaIssues => HasTeamStep(m.stage)
        BY DEF ViaIssues, HasTeamStep
      <4>3. ASSUME NEW u \in Teams, m.stage \in ViaIssues
            PROVE  Clear(m.stage, u)
        <5>1. CASE m.team = REST
          BY <1>5, <3>3, <4>3, <5>1, TeamsOrder
        <5>2. CASE pending = {}
          <6>1. u < m.team \/ team[u] = "gone"
            BY <1>4, <5>2, TeamsOrder DEF TeamRows
          <6> QED BY <1>5, <3>3, <4>3, <6>1 DEF ChainInv, MarksClear
        <5> QED BY <3>3, <4>2, <4>3, <5>1, <5>2
      <4>4. NoTeam \in Teams \cup {NoTeam} /\ {} \in SUBSET Teams /\ 0 \in Numbers \cup {0}
        OBVIOUS
      <4> QED BY <1>1, <1>2, <2>2, <3>1, <3>3, <4>1, <4>3, <4>4, TakenUp
    <3>4. CASE /\ m.kind = "workspace"
               /\ m.team # REST /\ HasTeamStep(m.stage) /\ pending # {}
      <4>1. PICK t, later : t = Min(pending) /\ later = pending \ {t}
        OBVIOUS
      <4>2. Resume(w, m, t, later, m.cursor)
        BY <2>2, <3>4, <4>1 DEF TakeUp
      <4>3. pending \in SUBSET Nat /\ pending \subseteq Teams
        BY TeamsOrder DEF TeamRows
      <4>4. t \in pending /\ \A u \in pending : t <= u
        BY <3>4, <4>1, <4>3, MinIsLeast
      <4>5. /\ t \in Teams /\ t # NoTeam /\ later \in SUBSET Teams /\ later \cup {t} = pending
            /\ \A u \in later : t < u
        <5> HIDE DEF pending
        <5>1. t \in Teams /\ t # NoTeam /\ later \in SUBSET Teams /\ later \cup {t} = pending
          BY <4>1, <4>3, <4>4, TeamsOrder
        <5>2. \A u \in later : u \in Nat /\ t \in Nat /\ u # t /\ t <= u
          BY <4>1, <4>3, <4>4
        <5>3. \A u \in later : t < u
          BY <5>2
        <5> QED BY <5>1, <5>3
      <4>6. \A u \in later \cup {t} : team[u] # "gone"
        BY <4>5 DEF TeamRows
      <4>7. ASSUME m.stage \in ViaIssues
            PROVE  ClearTo(m.stage, t, m.cursor)
        <5>1. CASE m.cursor = 0
          BY <5>1, ClearEnds
        <5>2. CASE m.cursor > 0 /\ AllClear
          BY <4>5, <4>7, <5>2 DEF AllClear, Clear, ClearTo
        <5>3. CASE m.cursor > 0 /\ ~AllClear
          <6>1. m.team \in Teams /\ team[m.team] # "gone"
            BY <1>4, <1>5, <3>4, <5>3
          <6>2. m.team \in pending
            BY <1>4, <6>1 DEF TeamRows
          <6>3. t = m.team
            BY <1>4, <4>3, <4>4, <6>2
          <6> QED BY <1>5, <4>7, <6>1, <6>3
        <5> QED BY <1>4, <5>1, <5>2, <5>3
      <4>8. ASSUME m.stage \in ViaIssues, NEW u \in Teams \ (later \cup {t})
            PROVE  Clear(m.stage, u)
        <5>1. u < m.team \/ team[u] = "gone"
          BY <1>4, <4>5, <4>8, TeamsOrder DEF TeamRows
        <5> QED BY <1>5, <3>4, <4>8, <5>1 DEF ChainInv, MarksClear
      <4> HIDE DEF pending
      <4> QED BY <1>1, <1>2, <1>4, <2>2, <3>1, <3>4, <4>2, <4>5, <4>6, <4>7, <4>8, TakenUp
    <3> QED BY <1>4, <3>2, <3>3, <3>4
  <2> QED BY <2>1, <2>2 DEF Receive
<1>7. DataTypes'
  BY <1>3, TypeHalves DEF Receive, ChainInv, DataTypes, data
<1> QED BY <1>1, <1>3, <1>6, <1>7, OneStep

-----------------------------------------------------------------------------
(* Starting a chain, and what the queues do of themselves.                 *)

\* While no worker moves, each says what it said.
LEMMA WorkersIdle ==
  ASSUME ChainInv, UNCHANGED worker
  PROVE  WorkersStep /\ files' = files
<1>1. WorkerTypes'
  BY TypeHalves DEF ChainInv, WorkerTypes, worker
<1> QED BY <1>1 DEF Same, WorkersStep, worker

\* A team's purge begins.
LEMMA DeleteTeamKeeps ==
  ASSUME ChainInv, NEW t \in Teams, DeleteTeam(t)
  PROVE  ChainInv'
<1>1. /\ team' \in [Teams -> {"live", "deleting", "gone"}]
      /\ team'[t] = "deleting" /\ \A u \in Teams : u # t => team'[u] = team[u]
  BY TypeHalves DEF DeleteTeam, ChainInv, DataTypes
<1>2. Keeps
  BY <1>1 DEF Keeps, DeleteTeam
<1>3. MarksClear'
  <2>1. \A u \in Teams, s \in ViaIssues : team'[u] = "gone" => Clear(s, u)
    BY <1>1 DEF ChainInv, MarksClear
  <2>2. workspace' = "live" /\ NoTeam \notin starting'
    BY TeamsOrder DEF ChainInv, MarksClear, DeleteTeam
  <2> QED BY <1>2, <2>1, <2>2, ClearStays DEF MarksClear
<1>4. ThreadsBeforeIssues'
  BY DEF DeleteTeam, ChainInv, ThreadsBeforeIssues
<1>5. WorkersStep /\ files' = files
  BY WorkersIdle DEF DeleteTeam
<1>6. again' \in 0..AGAIN
  BY PurgeAssumption DEF DeleteTeam, StartAgain, ChainInv, TypeOK
<1>7. DataTypes'
  BY <1>1, <1>5, <1>6, TypeHalves DEF DeleteTeam, ChainInv, DataTypes
<1> QED BY <1>2, <1>3, <1>4, <1>5, <1>7, OneStep DEF DeleteTeam

\* A workspace's purge begins, with no team's still running.
LEMMA BeginWorkspacePurgeKeeps ==
  ASSUME Overlap = FALSE, ChainInv, BeginWorkspacePurge
  PROVE  ChainInv'
<1>1. Keeps
  BY DEF Keeps, BeginWorkspacePurge
<1>2. MarksClear'
  <2>1. \A t \in Teams : team'[t] # "deleting"
    BY DEF ChainInv, MarksClear, BeginWorkspacePurge
  <2>2. workspace' # "live" /\ team' = team
    BY DEF BeginWorkspacePurge
  <2>3. \A t \in Teams, s \in ViaIssues : team'[t] = "gone" => Clear(s, t)
    BY <2>2 DEF ChainInv, MarksClear
  <2> QED BY <1>1, <2>1, <2>2, <2>3, ClearStays DEF MarksClear
<1>3. ThreadsBeforeIssues'
  BY DEF BeginWorkspacePurge, ChainInv, ThreadsBeforeIssues
<1>4. WorkersStep /\ files' = files
  BY WorkersIdle DEF BeginWorkspacePurge
<1>5. again' \in 0..AGAIN
  BY PurgeAssumption DEF BeginWorkspacePurge, StartAgain, ChainInv, TypeOK
<1>6. DataTypes'
  BY <1>4, <1>5, TypeHalves DEF BeginWorkspacePurge, ChainInv, DataTypes
<1> QED BY <1>1, <1>2, <1>3, <1>4, <1>6, OneStep DEF BeginWorkspacePurge

\* The first message of a chain says nothing but that its purge is on.
LEMMA FirstClear ==
  ASSUME ChainInv, NEW t \in starting
  PROVE  FirstJob(t) \in JobType /\ JobClear(FirstJob(t))
<1>1. t \in Teams \cup {NoTeam} /\ (t = NoTeam => workspace # "live")
  BY DEF ChainInv, TypeOK, MarksClear
<1>2. PICK j : j = FirstJob(t)
  OBVIOUS
<1>3. /\ j.kind = (IF t = NoTeam THEN "workspace" ELSE "team")
      /\ j.team = t /\ j.stage = "discussion" /\ j.cursor = 0
  BY <1>2, StagesAre DEF FirstJob
<1>4. j \in JobType
  BY <1>1, <1>2, StagesAre, StageSet DEF FirstJob, JobType, AllStages, TeamStages
<1>5. \A s \in ViaIssues : j.stage \notin StagesAfter(s)
  BY <1>3, AfterIs DEF ViaIssues
<1>6. \A s : ClearTo(s, t, 0)
  BY ClearEnds
<1>7. \A u \in Teams : ~(u < NoTeam)
  BY TeamsOrder
<1>8. JobClear(j)
  <2>1. /\ j.kind = "team" => j.team \in Teams /\ j.stage # "workspaces"
        /\ j.team \notin Teams => j.cursor = 0
        /\ j.kind = "workspace" => workspace # "live" /\ ~(j.cursor > 0)
    BY <1>1, <1>3
  <2>2. \A s \in ViaIssues :
          /\ j.kind = "workspace" => \A u \in Teams : u < j.team => Clear(s, u)
          /\ j.team \in Teams => ClearTo(s, j.team, j.cursor)
    BY <1>3, <1>6, <1>7
  <2> QED BY <1>5, <2>1, <2>2 DEF JobClear
<1> QED BY <1>2, <1>4, <1>8

\* The first message of a chain is sent.
LEMMA SendStartKeeps ==
  ASSUME ChainInv, NEW t \in Teams \cup {NoTeam}, SendStart(t)
  PROVE  ChainInv'
<1>1. Keeps /\ MarksClear' /\ ThreadsBeforeIssues'
  BY Shrinks DEF SendStart, data
<1>2. PICK m : m = FirstJob(t)
  OBVIOUS
<1>3. m \in JobType /\ JobClear(m)'
  BY <1>1, <1>2, FirstClear, JobStays DEF SendStart
<1>4. /\ IsABag(queue') /\ BagToSet(queue') \subseteq JobType
      /\ BagToSet(queue)' = BagToSet(queue) \cup {m}
  BY <1>2, <1>3, QueuePut DEF SendStart
<1>5. WorkersStep /\ files' = files
  BY WorkersIdle DEF SendStart
<1>6. DataTypes'
  BY <1>4, <1>5, TypeHalves DEF SendStart, ChainInv, DataTypes, data
<1> QED BY <1>1, <1>3, <1>4, <1>5, <1>6, OneStep

\* A start is lost, or a message delivered again or parked.
LEMMA FaultKeeps ==
  ASSUME ChainInv,
         \/ \E t \in Teams \cup {NoTeam} : LoseStart(t)
         \/ \E m \in BagToSet(queue) : Duplicate(m) \/ Park(m)
  PROVE  ChainInv'
<1>1. /\ UNCHANGED data /\ UNCHANGED <<worker, again>> /\ faults' \in 0..FAULTS
      /\ starting' \subseteq starting
  <2>1. UNCHANGED <<data, worker, again>> /\ Fault /\ starting' \subseteq starting
    BY DEF LoseStart, Duplicate, Park
  <2>2. faults' \in 0..FAULTS
    BY <2>1, PurgeAssumption DEF Fault, ChainInv, TypeOK
  <2> QED BY <2>1, <2>2
<1>2. Keeps /\ MarksClear' /\ ThreadsBeforeIssues'
  BY <1>1, Shrinks DEF data
<1>3. IsABag(queue') /\ BagToSet(queue') \subseteq BagToSet(queue)
  <2>1. IsABag(queue)
    BY DEF ChainInv, TypeOK
  <2>2. CASE \E t \in Teams \cup {NoTeam} : LoseStart(t)
    BY <2>1, <2>2 DEF LoseStart
  <2>3. ASSUME NEW m \in BagToSet(queue), Duplicate(m)
        PROVE  IsABag(queue') /\ BagToSet(queue') \subseteq BagToSet(queue)
    <3>1. queue' = queue (+) SetToBag({m})
      BY <2>3 DEF Duplicate
    <3>2. /\ IsABag(queue (+) SetToBag({m}))
          /\ BagToSet(queue (+) SetToBag({m})) = BagToSet(queue) \cup {m}
      BY <2>1, BagPut
    <3> QED BY <3>1, <3>2
  <2>4. ASSUME NEW m \in BagToSet(queue), Park(m)
        PROVE  IsABag(queue') /\ BagToSet(queue') \subseteq BagToSet(queue)
    <3>1. queue' = queue (-) SetToBag({m})
      BY <2>4 DEF Park
    <3>2. /\ IsABag(queue (-) SetToBag({m}))
          /\ BagToSet(queue (-) SetToBag({m})) \subseteq BagToSet(queue)
      BY <2>1, BagTake
    <3> QED BY <3>1, <3>2
  <2> QED BY <2>2, <2>3, <2>4
<1>4. WorkersStep /\ files' = files
  BY <1>1, WorkersIdle
<1>5. DataTypes'
  BY <1>1, <1>3, <1>4, TypeHalves DEF ChainInv, DataTypes, data
<1> QED BY <1>2, <1>3, <1>4, <1>5, OneStep

-----------------------------------------------------------------------------
(* The theorems.                                                           *)

\* Nothing is purged at first.
LEMMA ChainStarts == Init => ChainInv
<1> SUFFICES ASSUME Init
             PROVE  ChainInv
  OBVIOUS
<1>1. \A s \in RowStages : AllRows[s] \in SUBSET (Teams \X (Numbers \cup {0}))
  BY DEF AllRows
<1>2. AllRows \in [RowStages -> SUBSET (Teams \X (Numbers \cup {0}))]
  BY <1>1 DEF AllRows
<1>3. Cardinality(AllRows["discussion"]) \in Int
  <2>1. AllRows["discussion"] = Teams \X Numbers
    BY DEF AllRows, RowStages, ByIssue, ByTeam
  <2>2. IsFiniteSet(Teams \X Numbers)
    BY PurgeAssumption, FS_Product
  <2> QED BY <2>1, <2>2, FS_CardinalityType
<1>4. IsABag(EmptyBag) /\ BagToSet(EmptyBag) = {}
  BY DEF EmptyBag, IsABag, BagToSet, SetToBag
<1>5. TypeOK
  <2>1. WorkerTypes
    BY DEF Init, WorkerTypes, PCs
  <2>2. DataTypes
    BY <1>2, <1>3, <1>4, PurgeAssumption DEF Init, DataTypes
  <2> QED BY <2>1, <2>2, TypeHalves
<1>6. ThreadsBeforeIssues
  <2>1. /\ AllRows["discussion"] = Teams \X Numbers /\ AllRows["issues"] = Teams \X Numbers
        /\ AllRows["integrations"] = Teams \X Numbers \cup Teams \X {0}
    BY DEF AllRows, RowStages, ByIssue, ByTeam
  <2> QED BY <2>1 DEF Init, ThreadsBeforeIssues
<1>7. MarksClear
  BY DEF Init, MarksClear
<1>8. \A w \in Workers : WorkClear(w) /\ HeldClear(w)
  BY DEF Init, WorkClear, HeldClear, InTeam
<1> QED BY <1>4, <1>5, <1>6, <1>7, <1>8 DEF Init, ChainInv

\* Every step keeps the claims the messages and the workers make, while no workspace's
\* purge may begin over a team's.
LEMMA ChainSteps ==
  ASSUME Overlap = FALSE, ChainInv, [Next]_vars
  PROVE  ChainInv'
<1>1. CASE BeginWorkspacePurge
  BY <1>1, BeginWorkspacePurgeKeeps
<1>2. CASE \E t \in Teams : DeleteTeam(t)
  BY <1>2, DeleteTeamKeeps
<1>3. CASE \E t \in Teams \cup {NoTeam} : SendStart(t)
  BY <1>3, SendStartKeeps
<1>4. CASE \/ \E t \in Teams \cup {NoTeam} : LoseStart(t)
           \/ \E m \in BagToSet(queue) : Duplicate(m) \/ Park(m)
  BY <1>4, FaultKeeps
<1>5. ASSUME NEW w \in Workers, Work(w)
      PROVE  ChainInv'
  BY <1>5, ReceiveKeeps, ReadFilesKeeps, EraseThreadKeeps, ReleaseBytesKeeps, UnlinkTeamKeeps,
     UnlinkIssueKeeps, DeleteIssueKeeps, FinishIssuesKeeps, ClearTeamKeeps, DeleteTeamRowKeeps,
     SweepWorkspaceKeeps, SweepIssuesKeeps, SendKeeps, AckKeeps DEF Work
<1>6. ASSUME NEW w \in Workers, Crash(w)
      PROVE  ChainInv'
  BY <1>6, CrashKeeps
<1>7. CASE UNCHANGED vars
  <2>1. UNCHANGED <<data, starting, queue, worker, again, faults>>
    BY <1>7 DEF vars
  <2>2. Keeps /\ MarksClear' /\ ThreadsBeforeIssues'
    BY <2>1, Shrinks DEF data
  <2>3. WorkersStep /\ files' = files
    BY <2>1, WorkersIdle
  <2>4. DataTypes'
    BY <2>1, <2>3, TypeHalves DEF ChainInv, DataTypes, data
  <2> QED BY <2>1, <2>2, <2>3, <2>4, OneStep
<1> QED BY <1>1, <1>2, <1>3, <1>4, <1>5, <1>6, <1>7 DEF Next

\* What every message and every worker says of the rows is true, through crashes, lost
\* starts, messages delivered twice or parked, and chains started over.
THEOREM ClaimsHold ==
  ASSUME Overlap = FALSE
  PROVE  Spec => []ChainInv
<1>1. Init => ChainInv
  BY ChainStarts
<1>2. ChainInv /\ [Next]_vars => ChainInv'
  BY ChainSteps
<1> QED BY <1>1, <1>2, PTL DEF Spec

\* An issue goes only after its thread, its files and its links, whatever the teams,
\* their issues and the workers are, while no workspace's purge overlaps a team's.
THEOREM ThreadsGoFirst ==
  ASSUME Overlap = FALSE
  PROVE  Spec => []ThreadsBeforeIssues
<1>1. ChainInv => ThreadsBeforeIssues
  BY DEF ChainInv
<1> QED BY <1>1, ClaimsHold, PTL

\* Whatever runs, a worker and a queue only ever hold jobs of the chain, a worker is in a
\* team it was handed, and a domain holds only rows it had.
THEOREM ChainTypes ==
  ASSUME Overlap = FALSE
  PROVE  Spec => []TypeOK
<1>1. ChainInv => TypeOK
  BY DEF ChainInv
<1> QED BY <1>1, ClaimsHold, PTL


-----------------------------------------------------------------------------
(* The storage counter.                                                    *)

\* The issue whose thread a worker deletes, from its files' read to their release.
Held(w) == <<at[w], cursor[w]>>

Holding(w) == pc[w] \in {"erase", "release"}

\* No two workers do the same one at once, as a copy of a message may.
HandsApart ==
  \A v, w \in Workers : v # w /\ Holding(v) /\ Holding(w) => Held(v) # Held(w)

\* The threads that are deleted and whose bytes have still to be given back.
Returning == {x \in Teams \X Numbers : \E w \in Workers : pc[w] = "release" /\ files[w] = 1 /\ x = Held(w)}

StorageTypes ==
  /\ DOMAIN rows = RowStages /\ rows["discussion"] \subseteq Teams \X Numbers
  /\ stored \in Int
  /\ pc = [w \in Workers |-> pc[w]] /\ at = [w \in Workers |-> at[w]]
  /\ cursor = [w \in Workers |-> cursor[w]] /\ files \in [Workers -> {0, 1}]

\* A file counted is there until it is deleted, and then still counted until its bytes
\* are given back, once.
HeldRight(w) ==
  /\ pc[w] = "erase" /\ files[w] = 1 => Held(w) \in rows["discussion"]
  /\ pc[w] = "release" => Held(w) \notin rows["discussion"]
  /\ pc[w] = "release" /\ files[w] = 1 => Held(w) \in Teams \X Numbers

StorageInv ==
  /\ StorageTypes
  /\ \A w \in Workers : HeldRight(w)
  /\ Cardinality(rows["discussion"] \cup Returning) <= stored

LEMMA ThreadsFinite ==
  ASSUME NEW S \in SUBSET (Teams \X Numbers)
  PROVE  IsFiniteSet(S) /\ Cardinality(S) \in Nat
         /\ \A T \in SUBSET S : Cardinality(T) <= Cardinality(S) /\ Cardinality(T) \in Nat
<1>1. IsFiniteSet(Teams \X Numbers)
  BY PurgeAssumption, FS_Product
<1>2. IsFiniteSet(S)
  BY <1>1, FS_Subset
<1> QED BY <1>2, FS_Subset, FS_CardinalityType

\* The steps of the other stages, and of the queue: no thread, no byte, and no worker
\* in the midst of one.
Apart ==
  /\ DOMAIN rows' = DOMAIN rows /\ rows'["discussion"] = rows["discussion"] /\ stored' = stored
  /\ pc' = [w \in Workers |-> pc'[w]] /\ at' = [w \in Workers |-> at'[w]]
  /\ cursor' = [w \in Workers |-> cursor'[w]] /\ files' \in [Workers -> {0, 1}]
  /\ \A w \in Workers : Holding(w)' =>
       pc'[w] = pc[w] /\ at'[w] = at[w] /\ cursor'[w] = cursor[w] /\ files'[w] = files[w]

LEMMA ApartKeeps == StorageInv /\ Apart => StorageInv'
<1> SUFFICES ASSUME StorageInv, Apart PROVE StorageInv'
  OBVIOUS
<1>1. StorageTypes'
  BY DEF Apart, StorageInv, StorageTypes
<1>2. ASSUME NEW w \in Workers
      PROVE  HeldRight(w)'
  BY DEF Apart, StorageInv, HeldRight, Held, Holding
<1>3. Returning' \subseteq Returning
  BY DEF Apart, Returning, Held, Holding
<1>4. Cardinality(rows'["discussion"] \cup Returning') <= Cardinality(rows["discussion"] \cup Returning)
  <2>1. rows["discussion"] \cup Returning \in SUBSET (Teams \X Numbers)
    BY DEF StorageInv, StorageTypes, Returning
  <2>2. rows'["discussion"] \cup Returning' \in SUBSET (rows["discussion"] \cup Returning)
    BY <1>3 DEF Apart
  <2> QED BY <2>1, <2>2, ThreadsFinite
<1>5. Cardinality(rows'["discussion"] \cup Returning') \in Nat
      /\ Cardinality(rows["discussion"] \cup Returning) \in Nat
  <2>1. rows["discussion"] \cup Returning \in SUBSET (Teams \X Numbers)
    BY DEF StorageInv, StorageTypes, Returning
  <2>2. rows'["discussion"] \cup Returning' \in SUBSET (Teams \X Numbers)
    BY <1>3, <2>1 DEF Apart
  <2> QED BY <2>1, <2>2, ThreadsFinite
<1>6. Cardinality(rows'["discussion"] \cup Returning') <= stored'
  BY <1>4, <1>5 DEF StorageInv, StorageTypes, Apart
<1> QED BY <1>1, <1>2, <1>6 DEF StorageInv

\* A worker that goes on to its next team, issue or message is in the midst of none.
LEMMA GoesOn ==
  ASSUME StorageTypes, NEW w \in Workers,
         DOMAIN rows' = DOMAIN rows, rows'["discussion"] = rows["discussion"], stored' = stored,
         files' = files \/ files' = [files EXCEPT ![w] = 0],
         \E p : p \notin {"erase", "release"} /\ pc' = [pc EXCEPT ![w] = p],
         at' = at \/ \E t : at' = [at EXCEPT ![w] = t],
         cursor' = cursor \/ \E c : cursor' = [cursor EXCEPT ![w] = c]
  PROVE  Apart
<1>1. pc' = [v \in Workers |-> pc'[v]] /\ pc'[w] \notin {"erase", "release"}
      /\ \A v \in Workers \ {w} : pc'[v] = pc[v]
  BY DEF StorageTypes
<1>2. at' = [v \in Workers |-> at'[v]] /\ \A v \in Workers \ {w} : at'[v] = at[v]
  BY DEF StorageTypes
<1>3. cursor' = [v \in Workers |-> cursor'[v]] /\ \A v \in Workers \ {w} : cursor'[v] = cursor[v]
  BY DEF StorageTypes
<1>4. files' \in [Workers -> {0, 1}] /\ \A v \in Workers \ {w} : files'[v] = files[v]
  BY DEF StorageTypes
<1> QED BY <1>1, <1>2, <1>3, <1>4 DEF Apart, Holding

LEMMA OthersApart ==
  ASSUME StorageTypes, [Next]_vars,
         \A w \in Workers : ~ReadFiles(w) /\ ~EraseThread(w) /\ ~ReleaseBytes(w)
  PROVE  Apart
<1>1. CASE UNCHANGED <<rows, stored, worker>>
  BY <1>1 DEF StorageTypes, Apart, worker
<1>2. CASE \/ BeginWorkspacePurge \/ UNCHANGED vars
           \/ \E t \in Teams : DeleteTeam(t)
           \/ \E t \in Teams \cup {NoTeam} : SendStart(t) \/ LoseStart(t)
           \/ \E m \in BagToSet(queue) : Duplicate(m) \/ Park(m)
  BY <1>1, <1>2 DEF BeginWorkspacePurge, vars, DeleteTeam, SendStart, LoseStart, Duplicate, Park, data
<1>3. ASSUME NEW w \in Workers, Work(w) \/ Crash(w)
      PROVE  Apart
  <2>1. CASE \E m \in BagToSet(queue) : Receive(w, m)
    <3>1. PICK m \in BagToSet(queue) : Receive(w, m)
      BY <2>1
    <3>2. UNCHANGED <<rows, stored, files>>
      BY <3>1 DEF Receive, data
    <3>3. CASE UNCHANGED <<pc, at, cursor>>
      BY <3>2, <3>3 DEF StorageTypes, Apart
    <3>4. CASE TakeUp(w, m)
      <4>1. \E t, later, c : Resume(w, m, t, later, c)
        BY <3>4 DEF TakeUp
      <4>2. /\ \E p : p \notin {"erase", "release"} /\ pc' = [pc EXCEPT ![w] = p]
            /\ \E t : at' = [at EXCEPT ![w] = t]
            /\ \E c : cursor' = [cursor EXCEPT ![w] = c]
        BY <4>1 DEF Resume
      <4> QED BY <3>2, <4>2, GoesOn
    <3> QED BY <3>1, <3>3, <3>4 DEF Receive
  <2>2. CASE UnlinkTeam(w)
    <3>1. /\ rows' = [rows EXCEPT !["integrations"] = @ \ {<<at[w], 0>>}]
          /\ pc' = [pc EXCEPT ![w] = "work"] /\ UNCHANGED <<stored, files, at, cursor>>
      BY <2>2 DEF UnlinkTeam
    <3>2. DOMAIN rows' = DOMAIN rows /\ rows'["discussion"] = rows["discussion"]
      BY <3>1 DEF StorageTypes, RowStages
    <3> QED BY <3>1, <3>2, GoesOn
  <2>3. ASSUME NEW c, StepOn(w, c)
        PROVE  /\ \E p : p \notin {"erase", "release"} /\ pc' = [pc EXCEPT ![w] = p]
               /\ cursor' = cursor \/ \E x : cursor' = [cursor EXCEPT ![w] = x]
    BY <2>3 DEF StepOn, Sending
  <2>4. CASE UnlinkIssue(w) \/ DeleteIssue(w)
    <3>1. /\ \E s \in {"integrations", "issues"} : rows' = [rows EXCEPT ![s] = @ \ {InHand(w)}]
          /\ \E c : StepOn(w, c)
          /\ UNCHANGED <<stored, files, at>>
      BY <2>4 DEF UnlinkIssue, DeleteIssue
    <3>2. DOMAIN rows' = DOMAIN rows /\ rows'["discussion"] = rows["discussion"]
      BY <3>1 DEF StorageTypes, RowStages
    <3> QED BY <2>3, <3>1, <3>2, GoesOn
  <2>5. ASSUME TeamDone(w)
        PROVE  /\ \E p : p \notin {"erase", "release"} /\ pc' = [pc EXCEPT ![w] = p]
               /\ at' = at \/ \E t : at' = [at EXCEPT ![w] = t]
               /\ cursor' = cursor \/ \E c : cursor' = [cursor EXCEPT ![w] = c]
    <3>1. CASE HandOn(w) /\ UNCHANGED <<at, todo, cursor>>
      BY <3>1 DEF HandOn, Sending
    <3>2. CASE \E t, later : Resume(w, job[w], t, later, 0)
      BY <3>2 DEF Resume
    <3>3. CASE (\E m : Sending(w, m)) /\ UNCHANGED <<at, todo, cursor>>
      BY <3>3 DEF Sending
    <3> QED BY <2>5, <3>1, <3>2, <3>3 DEF TeamDone
  <2>6. CASE FinishIssues(w) \/ ClearTeam(w) \/ DeleteTeamRow(w)
    <3>1. TeamDone(w) /\ UNCHANGED <<stored, files>>
      BY <2>6 DEF FinishIssues, ClearTeam, DeleteTeamRow, data
    <3>2. DOMAIN rows' = DOMAIN rows /\ rows'["discussion"] = rows["discussion"]
      <4>1. CASE FinishIssues(w) \/ DeleteTeamRow(w)
        BY <4>1 DEF FinishIssues, DeleteTeamRow, data
      <4>2. CASE ClearTeam(w)
        BY <4>2 DEF ClearTeam, StorageTypes, RowStages
      <4> QED BY <2>6, <4>1, <4>2
    <3> QED BY <2>5, <3>1, <3>2, GoesOn
  <2>7. CASE SweepWorkspace(w)
    <3>1. HandOn(w) /\ UNCHANGED <<stored, files, at, cursor>>
      BY <2>7 DEF SweepWorkspace
    <3>2. \E p : p \notin {"erase", "release"} /\ pc' = [pc EXCEPT ![w] = p]
      BY <3>1 DEF HandOn, Sending
    <3>3. DOMAIN rows' = DOMAIN rows /\ rows'["discussion"] = rows["discussion"]
      BY <2>7 DEF SweepWorkspace, StorageTypes, RowStages
    <3> QED BY <3>1, <3>2, <3>3, GoesOn
  <2>8. CASE SweepIssues(w)
    <3>1. UNCHANGED <<stored, files, at, cursor>>
      BY <2>8 DEF SweepIssues
    <3>2. UNCHANGED pc \/ \E p : p \notin {"erase", "release"} /\ pc' = [pc EXCEPT ![w] = p]
      BY <2>8 DEF SweepIssues, HandOn, Sending
    <3>3. DOMAIN rows' = DOMAIN rows /\ rows'["discussion"] = rows["discussion"]
      BY <2>8 DEF SweepIssues, StorageTypes, RowStages
    <3>4. CASE UNCHANGED pc
      BY <3>1, <3>3, <3>4 DEF StorageTypes, Apart
    <3> QED BY <3>1, <3>2, <3>3, <3>4, GoesOn
  <2>9. CASE Send(w)
    <3>1. UNCHANGED <<rows, stored, files, at, cursor>> /\ pc' = [pc EXCEPT ![w] = "ack"]
      BY <2>9 DEF Send, data
    <3> QED BY <3>1, GoesOn
  <2>10. CASE Ack(w) \/ Crash(w)
    <3>1. /\ UNCHANGED <<rows, stored>> /\ files' = [files EXCEPT ![w] = 0]
          /\ pc' = [pc EXCEPT ![w] = "idle"]
          /\ at' = [at EXCEPT ![w] = NoTeam] /\ cursor' = [cursor EXCEPT ![w] = 0]
      BY <2>10 DEF Ack, Crash, Release, data
    <3> QED BY <3>1, GoesOn
  <2> QED BY <1>3, <2>1, <2>2, <2>4, <2>6, <2>7, <2>8, <2>9, <2>10 DEF Work
<1> QED BY <1>2, <1>3 DEF Next

\* The files of an issue are read, ...
LEMMA ReadStores ==
  ASSUME StorageInv, NEW w \in Workers, ReadFiles(w)
  PROVE  StorageInv'
<1>1. /\ UNCHANGED <<rows, stored, at>> /\ pc' = [pc EXCEPT ![w] = "erase"]
      /\ cursor' = [cursor EXCEPT ![w] = InHand(w)[2]]
      /\ files' = [files EXCEPT ![w] = IF InHand(w) \in rows["discussion"] THEN 1 ELSE 0]
  BY DEF ReadFiles, data
<1>2. InHand(w) = <<at[w], InHand(w)[2]>>
  BY DEF InHand
<1> DEFINE x == InHand(w)
<1> HIDE DEF x
<1>3. /\ pc'[w] = "erase" /\ cursor'[w] = x[2] /\ at'[w] = at[w]
      /\ files'[w] = (IF x \in rows["discussion"] THEN 1 ELSE 0)
      /\ \A v \in Workers \ {w} :
           pc'[v] = pc[v] /\ cursor'[v] = cursor[v] /\ files'[v] = files[v] /\ at'[v] = at[v]
  BY <1>1 DEF StorageInv, StorageTypes, x
<1>4. StorageTypes'
  BY <1>1 DEF StorageInv, StorageTypes
<1>5. ASSUME NEW v \in Workers
      PROVE  HeldRight(v)'
  <2>1. CASE v = w
    BY <1>1, <1>2, <1>3, <2>1 DEF HeldRight, Held, x
  <2>2. CASE v # w
    BY <1>1, <1>3, <2>2 DEF HeldRight, Held, StorageInv
  <2> QED BY <2>1, <2>2
<1>6. Returning' \subseteq Returning
  BY <1>3 DEF Returning, Held
<1>7. rows["discussion"] \cup Returning \in SUBSET (Teams \X Numbers)
  BY DEF StorageInv, StorageTypes, Returning
<1>8. Cardinality(rows'["discussion"] \cup Returning') <= Cardinality(rows["discussion"] \cup Returning)
      /\ Cardinality(rows'["discussion"] \cup Returning') \in Nat
      /\ Cardinality(rows["discussion"] \cup Returning) \in Nat
  <2>1. rows'["discussion"] \cup Returning' \in SUBSET (rows["discussion"] \cup Returning)
    BY <1>1, <1>6
  <2> QED BY <1>7, <2>1, ThreadsFinite
<1> QED BY <1>1, <1>4, <1>5, <1>8 DEF StorageInv, StorageTypes

\* ... it is deleted and its bytes are still counted, ...
LEMMA EraseStores ==
  ASSUME StorageInv, HandsApart, NEW w \in Workers, EraseThread(w)
  PROVE  StorageInv'
<1> DEFINE D == rows["discussion"]
           x == Held(w)
<1>1. /\ UNCHANGED <<stored, at, cursor, files>> /\ pc' = [pc EXCEPT ![w] = "release"]
      /\ pc[w] = "erase" /\ rows' = [rows EXCEPT !["discussion"] = @ \ {x}]
  BY DEF EraseThread, Held
<1>2. rows'["discussion"] = D \ {x} /\ DOMAIN rows' = RowStages
  BY <1>1 DEF StorageInv, StorageTypes, RowStages
<1>3. pc'[w] = "release" /\ \A v \in Workers \ {w} : pc'[v] = pc[v]
  BY <1>1 DEF StorageInv, StorageTypes
<1>4. \A v \in Workers : Held(v)' = Held(v) /\ files'[v] = files[v]
  BY <1>1 DEF Held
<1>5. \A v \in Workers \ {w} : Holding(v) => Held(v) # x
  BY <1>1 DEF HandsApart, Holding
<1>6. D \subseteq Teams \X Numbers /\ (files[w] = 1 => x \in D)
  BY <1>1 DEF StorageInv, StorageTypes, HeldRight
<1> HIDE DEF D, x
<1>7. StorageTypes'
  BY <1>1, <1>2, <1>6 DEF StorageInv, StorageTypes
<1>8. ASSUME NEW v \in Workers
      PROVE  HeldRight(v)'
  <2>1. CASE v = w
    BY <1>2, <1>3, <1>4, <1>6, <2>1 DEF HeldRight, x
  <2>2. CASE v # w
    <3>1. HeldRight(v)
      BY DEF StorageInv
    <3> QED BY <1>2, <1>3, <1>4, <1>5, <2>2, <3>1 DEF HeldRight, Holding, D
  <2> QED BY <2>1, <2>2
<1>9. Returning' \subseteq Returning \cup (IF files[w] = 1 THEN {x} ELSE {})
  BY <1>3, <1>4 DEF Returning, x
<1>10. D \cup Returning \in SUBSET (Teams \X Numbers)
  BY <1>6 DEF Returning
<1>11. Cardinality(rows'["discussion"] \cup Returning') <= Cardinality(D \cup Returning)
       /\ Cardinality(rows'["discussion"] \cup Returning') \in Nat
       /\ Cardinality(D \cup Returning) \in Nat
  <2>1. rows'["discussion"] \cup Returning' \in SUBSET (D \cup Returning)
    BY <1>2, <1>6, <1>9
  <2> QED BY <1>10, <2>1, ThreadsFinite
<1> QED BY <1>1, <1>7, <1>8, <1>11 DEF StorageInv, StorageTypes, D

\* ... and they are given back once.
LEMMA ReleaseStores ==
  ASSUME StorageInv, HandsApart, NEW w \in Workers, ReleaseBytes(w)
  PROVE  StorageInv'
<1> DEFINE D == rows["discussion"]
           x == Held(w)
<1>1. /\ UNCHANGED <<rows, at>> /\ stored' = stored - files[w]
      /\ pc[w] = "release" /\ files' = [files EXCEPT ![w] = 0]
      /\ StepOn(w, cursor[w])
  BY DEF ReleaseBytes
<1>2. /\ \E p : p \notin {"erase", "release"} /\ pc' = [pc EXCEPT ![w] = p]
      /\ cursor' = cursor \/ \E c : cursor' = [cursor EXCEPT ![w] = c]
  BY <1>1 DEF StepOn, Sending
<1>3. /\ pc'[w] \notin {"erase", "release"} /\ files'[w] = 0
      /\ pc' = [v \in Workers |-> pc'[v]] /\ cursor' = [v \in Workers |-> cursor'[v]]
      /\ files' \in [Workers -> {0, 1}]
      /\ \A v \in Workers \ {w} :
           pc'[v] = pc[v] /\ cursor'[v] = cursor[v] /\ files'[v] = files[v] /\ at'[v] = at[v]
  BY <1>1, <1>2 DEF StorageInv, StorageTypes
<1>4. \A v \in Workers \ {w} : Holding(v) => Held(v) # x
  BY <1>1 DEF HandsApart, Holding
<1>5. D \subseteq Teams \X Numbers /\ x \notin D /\ (files[w] = 1 => x \in Teams \X Numbers)
      /\ files[w] \in {0, 1} /\ stored \in Int
  BY <1>1 DEF StorageInv, StorageTypes, HeldRight
<1>6. D \cup Returning \in SUBSET (Teams \X Numbers)
  BY <1>5 DEF Returning
<1>7. files[w] = 1 => x \in Returning
  BY <1>1, <1>5 DEF Returning
<1>8. Returning' \subseteq Returning \ {x}
  BY <1>3, <1>4 DEF Returning, Held, Holding
<1> HIDE DEF x
<1>9. StorageTypes'
  BY <1>1, <1>3, <1>5 DEF StorageInv, StorageTypes
<1>10. ASSUME NEW v \in Workers
       PROVE  HeldRight(v)'
  <2>1. CASE v = w
    BY <1>3, <2>1 DEF HeldRight
  <2>2. CASE v # w
    BY <1>1, <1>3, <2>2 DEF HeldRight, Held, StorageInv
  <2> QED BY <2>1, <2>2
<1>11. Cardinality(D \cup Returning') <= stored - files[w]
  <2> DEFINE S == D \cup Returning
             T == D \cup Returning'
  <2>1. T \in SUBSET (S \ {x}) /\ IsFiniteSet(S) /\ Cardinality(S) \in Nat
    BY <1>5, <1>6, <1>8, ThreadsFinite
  <2>2. S \ {x} \in SUBSET (Teams \X Numbers) /\ (files[w] = 1 => x \in S)
    BY <1>6, <1>7
  <2>3. Cardinality(S) <= stored
    BY DEF StorageInv
  <2> HIDE DEF S, T
  <2>4. Cardinality(T) <= Cardinality(S \ {x}) /\ Cardinality(T) \in Nat /\ Cardinality(S \ {x}) \in Nat
    BY <2>1, <2>2, ThreadsFinite
  <2>5. Cardinality(S \ {x}) = IF x \in S THEN Cardinality(S) - 1 ELSE Cardinality(S)
    BY <2>1, FS_RemoveElement
  <2>6. Cardinality(S \ {x}) <= Cardinality(S) - files[w]
    BY <1>5, <2>1, <2>2, <2>5
  <2>7. Cardinality(T) <= stored - files[w]
    BY <1>5, <2>1, <2>3, <2>4, <2>6
  <2> QED BY <2>7 DEF T
<1> QED BY <1>1, <1>9, <1>10, <1>11 DEF StorageInv

LEMMA StorageStarts == Init => StorageInv
<1> SUFFICES ASSUME Init PROVE StorageInv
  OBVIOUS
<1>1. DOMAIN rows = RowStages /\ rows["discussion"] = Teams \X Numbers
  BY DEF Init, AllRows, RowStages, ByIssue, ByTeam
<1>2. Cardinality(Teams \X Numbers) \in Nat
  BY ThreadsFinite
<1>3. stored = Cardinality(rows["discussion"])
  BY DEF Init
<1>4. Returning = {}
  BY DEF Init, Returning
<1>5. StorageTypes
  BY <1>1, <1>2, <1>3 DEF Init, StorageTypes
<1>6. \A w \in Workers : HeldRight(w)
  BY DEF Init, HeldRight
<1>7. rows["discussion"] \cup Returning = rows["discussion"]
  BY <1>4
<1>8. Cardinality(rows["discussion"]) \in Nat
  BY <1>1, <1>2
<1>9. Cardinality(rows["discussion"] \cup Returning) = stored
  BY <1>3, <1>7
<1>10. Cardinality(rows["discussion"] \cup Returning) <= stored
  BY <1>3, <1>8, <1>9
<1> QED BY <1>5, <1>6, <1>10 DEF StorageInv

LEMMA StorageSteps == StorageInv /\ HandsApart /\ [Next]_vars => StorageInv'
<1> SUFFICES ASSUME StorageInv, HandsApart, [Next]_vars PROVE StorageInv'
  OBVIOUS
<1>1. CASE \E w \in Workers : ReadFiles(w) \/ EraseThread(w) \/ ReleaseBytes(w)
  BY <1>1, ReadStores, EraseStores, ReleaseStores
<1>2. CASE \A w \in Workers : ~ReadFiles(w) /\ ~EraseThread(w) /\ ~ReleaseBytes(w)
  BY <1>2, OthersApart, ApartKeeps DEF StorageInv
<1> QED BY <1>1, <1>2

LEMMA StorageEnough == StorageInv => StorageCoversFiles
<1> SUFFICES ASSUME StorageInv PROVE StorageCoversFiles
  OBVIOUS
<1>1. rows["discussion"] \cup Returning \in SUBSET (Teams \X Numbers)
  BY DEF StorageInv, StorageTypes, Returning
<1>2. rows["discussion"] \in SUBSET (rows["discussion"] \cup Returning)
  OBVIOUS
<1>3. Cardinality(rows["discussion"]) <= Cardinality(rows["discussion"] \cup Returning)
      /\ Cardinality(rows["discussion"]) \in Nat /\ Cardinality(rows["discussion"] \cup Returning) \in Nat
  BY <1>1, <1>2, ThreadsFinite
<1> QED BY <1>3 DEF StorageInv, StorageTypes, StorageCoversFiles

\* The storage counter never falls below the files the workspace still holds, whatever
\* crashes, starts again or overlaps, as long as no copy of a message brings two workers
\* to one issue at once: they would both read its files, and both give them back.
THEOREM StorageHolds == Spec /\ []HandsApart => []StorageCoversFiles
  BY StorageStarts, StorageSteps, StorageEnough, PTL DEF Spec
=============================================================================
