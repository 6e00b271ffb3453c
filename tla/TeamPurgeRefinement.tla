------------------------- MODULE TeamPurgeRefinement -------------------------
(***************************************************************************)
(* The purge chain implements PurgePromise, for every set of teams, issues *)
(* and workers and any number of faults and restarts, as long as no        *)
(* workspace's purge begins over a team's.                                 *)
(***************************************************************************)
EXTENDS TeamPurgeProofs

-----------------------------------------------------------------------------
(* What has gone by a stage, and what is marked.                           *)

\* The stages done with by the time a chain is at this one, the discussion aside.
Passed(stage) ==
  CASE stage = "views"      -> {"integrations"}
    [] stage = "planning"   -> {"integrations", "views"}
    [] stage = "issues"     -> {"integrations", "views", "planning"}
    [] stage = "teams"      -> {"integrations", "views", "planning", "issues"}
    [] stage = "workspaces" -> {"integrations", "views", "planning", "issues", "teams"}
    [] OTHER -> {}

\* A stage has nothing left of a team.
Emptied(s, t) ==
  IF s = "teams" THEN team[t] = "gone" ELSE \A n \in Numbers \cup {0} : <<t, n>> \notin rows[s]

\* What a message says of the rows: its team is marked, the stages before its own are
\* done with it, and so are the team's own links once its issues' are under way.
JobDone(j) ==
  /\ j.kind = "team" => team[j.team] # "live"
  /\ j.stage = "issues" => j.cursor = 0
  /\ j.kind = "team" /\ j.stage = "integrations" /\ j.cursor > 0 =>
       <<j.team, 0>> \notin rows["integrations"]
  /\ \A s \in Passed(j.stage), t \in Teams :
       j.kind = "workspace" \/ t = j.team => Emptied(s, t)

\* What a worker says of them.
WorkDone(w) ==
  /\ InTeam(w) /\ job[w].stage = "issues" => cursor[w] = 0
  /\ pc[w] = "work" /\ job[w].kind = "team" /\ job[w].stage = "integrations" =>
       <<at[w], 0>> \notin rows["integrations"]

HeldDone(w) == \A j \in {job[w], out[w]} \ {None} : JobDone(j)

\* Nothing of a team is left once its row is gone, and no team once its workspace's is.
Closed ==
  /\ \A t \in Teams, s \in RowStages : team[t] = "gone" => Emptied(s, t)
  /\ workspace = "gone" => \A t \in Teams : team[t] = "gone"

\* The inductive invariant behind the refinement, beside ChainInv.
PromiseInv ==
  /\ Closed
  /\ \A t \in starting \cap Teams : team[t] # "live"
  /\ \A j \in BagToSet(queue) : JobDone(j)
  /\ \A w \in Workers : WorkDone(w) /\ HeldDone(w)

-----------------------------------------------------------------------------
(* What has gone stays gone.                                               *)

\* The data a step leaves behind: no row comes back, and no mark is taken back.
KeepsAll ==
  /\ \A s \in RowStages : rows'[s] \subseteq rows[s]
  /\ \A t \in Teams : /\ team[t] # "live" => team'[t] # "live"
                      /\ team[t] = "gone" => team'[t] = "gone"

\* The stages a chain goes through have rows, or are the teams' own.
LEMMA PassedAre ==
  ASSUME NEW stage \in AllStages
  PROVE  Passed(stage) \subseteq RowStages \cup {"teams"}
  BY DEF Passed, RowStages, AllStages, TeamStages

\* Stage by stage.
LEMMA PassedIs ==
  /\ Passed("discussion") = {} /\ Passed("integrations") = {}
  /\ Passed("views") = {"integrations"}
  /\ Passed("planning") = {"integrations", "views"}
  /\ Passed("issues") = {"integrations", "views", "planning"}
  /\ Passed("teams") = {"integrations", "views", "planning", "issues"}
  /\ Passed("workspaces") = {"integrations", "views", "planning", "issues", "teams"}
  BY DEF Passed

\* What follows what.
LEMMA Successor ==
  ASSUME NEW c, NEW i \in 1..6,
         c[1] = "discussion", c[2] = "integrations", c[3] = "views", c[4] = "planning",
         c[5] = "issues", c[6] = "teams", i = 6 => c[7] = "workspaces"
  PROVE  \/ c[i] = "discussion" /\ c[i + 1] = "integrations"
         \/ c[i] = "integrations" /\ c[i + 1] = "views"
         \/ c[i] = "views" /\ c[i + 1] = "planning"
         \/ c[i] = "planning" /\ c[i + 1] = "issues"
         \/ c[i] = "issues" /\ c[i + 1] = "teams"
         \/ c[i] = "teams" /\ c[i + 1] = "workspaces"
<1>1. i = 1 \/ i = 2 \/ i = 3 \/ i = 4 \/ i = 5 \/ i = 6
  OBVIOUS
<1> QED BY <1>1

\* The stage that follows has only one more behind it.
LEMMA PassedNext ==
  ASSUME NEW kind \in {"team", "workspace"}, NEW stage \in AllStages,
         kind = "team" => stage # "workspaces",
         NEW i, i = CHOOSE k \in DOMAIN Chain(kind) : Chain(kind)[k] = stage,
         i # Len(Chain(kind))
  PROVE  Passed(Chain(kind)[i + 1]) \subseteq
           Passed(stage) \cup ({stage} \cap {"integrations", "views", "planning", "issues", "teams"})
<1> DEFINE c == Chain(kind)
           n == IF kind = "team" THEN 6 ELSE 7
<1>1. /\ c \in Seq(AllStages) /\ Len(c) = n
      /\ c[1] = "discussion" /\ c[2] = "integrations" /\ c[3] = "views" /\ c[4] = "planning"
      /\ c[5] = "issues" /\ c[6] = "teams" /\ (kind = "workspace" => c[7] = "workspaces")
  BY ChainIs
<1> HIDE DEF c
<1>2. DOMAIN c = 1..n
  BY <1>1, LenProperties
<1>3. \E k \in 1..n : c[k] = stage
  BY <1>1 DEF AllStages, TeamStages
<1>4. i \in 1..n /\ c[i] = stage
  BY <1>2, <1>3 DEF c
<1>5. i \in 1..6 /\ (i = 6 => kind = "workspace")
  BY <1>1, <1>4 DEF c
<1>6. ASSUME NEW next, next = c[i + 1]
      PROVE  \/ stage = "discussion" /\ next = "integrations"
             \/ stage = "integrations" /\ next = "views"
             \/ stage = "views" /\ next = "planning"
             \/ stage = "planning" /\ next = "issues"
             \/ stage = "issues" /\ next = "teams"
             \/ stage = "teams" /\ next = "workspaces"
  <2>1. i = 6 => c[7] = "workspaces"
    BY <1>1, <1>5
  <2>2. \/ c[i] = "discussion" /\ c[i + 1] = "integrations"
        \/ c[i] = "integrations" /\ c[i + 1] = "views"
        \/ c[i] = "views" /\ c[i + 1] = "planning"
        \/ c[i] = "planning" /\ c[i + 1] = "issues"
        \/ c[i] = "issues" /\ c[i + 1] = "teams"
        \/ c[i] = "teams" /\ c[i + 1] = "workspaces"
    <3> HIDE DEF n
    <3> QED BY <1>1, <1>5, <2>1, Successor
  <2>3. c[i] = stage /\ c[i + 1] = next
    BY <1>4, <1>6
  <2> HIDE DEF n
  <2> QED BY <2>2, <2>3
<1>7. ASSUME NEW next, next = c[i + 1], NEW s \in Passed(next)
      PROVE  s \in Passed(stage) \/ (s = stage /\ s \in {"integrations", "views", "planning", "issues", "teams"})
  <2>1. CASE stage = "discussion" /\ next = "integrations"
    BY <1>7, <2>1, PassedIs
  <2>2. CASE stage = "integrations" /\ next = "views"
    BY <1>7, <2>2, PassedIs
  <2>3. CASE stage = "views" /\ next = "planning"
    BY <1>7, <2>3, PassedIs
  <2>4. CASE stage = "planning" /\ next = "issues"
    BY <1>7, <2>4, PassedIs
  <2>5. CASE stage = "issues" /\ next = "teams"
    BY <1>7, <2>5, PassedIs
  <2>6. CASE stage = "teams" /\ next = "workspaces"
    BY <1>7, <2>6, PassedIs
  <2> QED BY <1>6, <1>7, <2>1, <2>2, <2>3, <2>4, <2>5, <2>6
<1> QED BY <1>7 DEF c

\* A stage done with a team stays so.
LEMMA EmptiedStays ==
  ASSUME KeepsAll, NEW s \in RowStages \cup {"teams"}, NEW t \in Teams, Emptied(s, t)
  PROVE  Emptied(s, t)'
  BY DEF KeepsAll, Emptied, RowStages

\* What a message says stays true.
LEMMA DoneStays ==
  ASSUME KeepsAll, NEW j \in JobType, JobClear(j), JobDone(j)
  PROVE  JobDone(j)'
<1>1. j.stage \in AllStages /\ (j.kind = "team" => j.team \in Teams)
  BY JobFields DEF JobClear
<1>2. \A s \in Passed(j.stage), t \in Teams :
        j.kind = "workspace" \/ t = j.team => Emptied(s, t)'
  BY <1>1, PassedAre, EmptiedStays DEF JobDone
<1>3. j.kind = "team" => team'[j.team] # "live"
  BY <1>1 DEF JobDone, KeepsAll
<1>4. j.kind = "team" /\ j.stage = "integrations" /\ j.cursor > 0 =>
        <<j.team, 0>> \notin rows'["integrations"]
  BY DEF JobDone, KeepsAll, RowStages
<1>5. j.stage = "issues" => j.cursor = 0
  BY DEF JobDone
<1> QED BY <1>2, <1>3, <1>4, <1>5 DEF JobDone

\* The message a busy worker holds, and what it says before the step and after it.
LEMMA DoneInHand ==
  ASSUME ChainInv, PromiseInv, KeepsAll, NEW w \in Workers, pc[w] # "idle", NEW j, j = job[w]
  PROVE  j \in JobType /\ JobClear(j) /\ JobDone(j) /\ JobDone(j)'
<1>1. j \in JobType /\ j # None
  BY DEF ChainInv, TypeOK, WorkClear
<1>2. JobClear(j) /\ JobDone(j)
  BY <1>1 DEF ChainInv, HeldClear, PromiseInv, HeldDone
<1> QED BY <1>1, <1>2, DoneStays

\* What a worker says stays true while it does nothing.
LEMMA WorkerDoneStays ==
  ASSUME ChainInv, PromiseInv, KeepsAll, NEW w \in Workers, Same(w)
  PROVE  WorkDone(w)' /\ HeldDone(w)'
<1>1. job[w] \in JobType \cup {None} /\ out[w] \in JobType \cup {None}
  BY DEF ChainInv, TypeOK
<1>2. \A j \in {job[w], out[w]} \ {None} : JobDone(j)'
  BY <1>1, DoneStays DEF ChainInv, HeldClear, PromiseInv, HeldDone
<1>3. HeldDone(w)'
  BY <1>2 DEF HeldDone, Same
<1>4. WorkDone(w)'
  <2>1. InTeam(w)' <=> InTeam(w)
    BY DEF InTeam, Same
  <2>2. WorkDone(w)
    BY DEF PromiseInv
  <2> QED BY <2>1, <2>2 DEF WorkDone, Same, KeepsAll, RowStages
<1> QED BY <1>3, <1>4

\* A step of the workers leaves each as it was, or still saying what holds.
WorkersDone == \A v \in Workers : Same(v) \/ (WorkDone(v)' /\ HeldDone(v)')

\* The invariant of a step, put together.
LEMMA DoneStep ==
  ASSUME ChainInv, PromiseInv, KeepsAll, WorkersDone, Closed',
         \A t \in starting' \cap Teams : t \in starting \/ team'[t] # "live",
         \A j \in BagToSet(queue)' : j \in BagToSet(queue) \/ JobDone(j)'
  PROVE  PromiseInv'
<1>1. \A t \in (starting \cap Teams)' : team'[t] # "live"
  BY DEF PromiseInv, KeepsAll
<1>2. \A j \in BagToSet(queue)' : JobDone(j)'
  BY DoneStays DEF ChainInv, TypeOK, PromiseInv
<1>3. \A w \in Workers : (WorkDone(w) /\ HeldDone(w))'
  BY WorkerDoneStays DEF WorkersDone
<1> QED BY <1>1, <1>2, <1>3 DEF PromiseInv

-----------------------------------------------------------------------------
(* What a worker sends, and how it goes on.                                *)

\* A step of w sends m: one that says no more than holds, or nothing.
SendsDone(w) == \E m \in JobType \cup {None} : Sending(w, m) /\ (m # None => JobDone(m)')

\* The stages that leave nothing of a team.
Emptying == {"integrations", "views", "planning", "issues", "teams"}

\* A stage that left nothing hands on a message that says no more than holds.
LEMMA HandOnDone ==
  ASSUME NEW w, NEW j \in JobType, j = job[w], JobClear(j), JobDone(j)', HandOn(w),
         j.stage \in Emptying =>
           \A t \in Teams : j.kind = "workspace" \/ t = j.team => Emptied(j.stage, t)'
  PROVE  SendsDone(w)
<1> DEFINE chain == Chain(j.kind)
           i == CHOOSE k \in DOMAIN chain : chain[k] = j.stage
<1>1. CASE i = Len(chain)
  BY <1>1 DEF HandOn, SendsDone
<1>2. CASE i # Len(chain)
  <2> DEFINE next == chain[i + 1]
             to == IF j.kind = "team" THEN j.team ELSE NoTeam
             m == [j EXCEPT !.stage = next, !.cursor = 0, !.team = to]
  <2>1. /\ j.kind \in {"team", "workspace"} /\ j.stage \in AllStages
        /\ j.team \in Teams \cup {NoTeam, REST}
        /\ j.kind = "team" => j.stage # "workspaces"
    BY JobFields DEF JobClear
  <2>2. next \in AllStages
    BY <1>2, <2>1, NextStage
  <2>3. Passed(next) \subseteq Passed(j.stage) \cup ({j.stage} \cap Emptying)
    BY <1>2, <2>1, PassedNext DEF Emptying
  <2>4. Sending(w, m)
    BY <1>2 DEF HandOn
  <2> HIDE DEF next
  <2>5. to \in Teams \cup {NoTeam, REST} /\ 0 \in Numbers \cup {0}
    BY <2>1
  <2>6. m = [j EXCEPT !.stage = next, !.cursor = 0, !.team = to]
    OBVIOUS
  <2> HIDE DEF m, to
  <2>7. m \in JobType /\ m.kind = j.kind /\ m.team = to /\ m.stage = next /\ m.cursor = 0
    BY <2>2, <2>5, <2>6, StageSet DEF JobType
  <2> USE DEF to
  <2>8. ASSUME NEW n, n = m
        PROVE  JobDone(n)'
    <3>1. ASSUME NEW s \in Passed(next), NEW t \in Teams, j.kind = "workspace" \/ t = j.team
          PROVE  Emptied(s, t)'
      <4>1. CASE s \in Passed(j.stage)
        BY <3>1, <4>1 DEF JobDone
      <4>2. CASE s = j.stage /\ j.stage \in Emptying
        BY <3>1, <4>2
      <4> QED BY <2>3, <4>1, <4>2
    <3>2. \A s \in Passed(n.stage), t \in Teams :
            n.kind = "workspace" \/ t = n.team => Emptied(s, t)'
      BY <2>1, <2>7, <2>8, <3>1
    <3>3. n.kind = "team" => team'[n.team] # "live"
      BY <2>7, <2>8 DEF JobDone
    <3>4. n.cursor = 0 /\ ~(n.cursor > 0)
      BY <2>7, <2>8
    <3> QED BY <3>2, <3>3, <3>4 DEF JobDone
  <2> QED BY <2>4, <2>7, <2>8 DEF SendsDone
<1> QED BY <1>1, <1>2

\* The message that resumes a stage says no more either, when it stays with its team
\* and the team's own links are gone.
LEMMA PausedDone ==
  ASSUME NEW w, NEW j \in JobType, j = job[w], JobDone(j)',
         NEW t \in Teams \cup {NoTeam, REST}, NEW c \in Numbers \cup {0},
         Sending(w, [job[w] EXCEPT !.team = t, !.cursor = c]),
         j.kind = "team" => t = j.team,
         j.stage = "issues" => c = 0,
         j.kind = "team" /\ j.stage = "integrations" => <<t, 0>> \notin rows'["integrations"]
  PROVE  SendsDone(w)
<1> DEFINE m == [j EXCEPT !.team = t, !.cursor = c]
<1>1. m = [j EXCEPT !.team = t, !.cursor = c] /\ Sending(w, m)
  OBVIOUS
<1> HIDE DEF m
<1>2. m \in JobType /\ m.kind = j.kind /\ m.team = t /\ m.stage = j.stage /\ m.cursor = c
  BY <1>1 DEF JobType
<1>3. j.kind \in {"team", "workspace"}
  BY JobFields
<1>4. ASSUME NEW n, n = m
      PROVE  JobDone(n)'
  <2>1. n.kind = j.kind /\ n.team = t /\ n.stage = j.stage /\ n.cursor = c
    BY <1>2, <1>4
  <2>2. \A s \in Passed(n.stage), u \in Teams :
          n.kind = "workspace" \/ u = n.team => Emptied(s, u)'
    BY <1>3, <2>1 DEF JobDone
  <2>3. n.kind = "team" => team'[n.team] # "live"
    BY <2>1 DEF JobDone
  <2> QED BY <2>1, <2>2, <2>3 DEF JobDone
<1> QED BY <1>1, <1>2, <1>4 DEF SendsDone

\* A worker that sends leaves nothing to be said of what it works on.
LEMMA SentDone ==
  ASSUME ChainInv, PromiseInv, KeepsAll, NEW w \in Workers, pc[w] # "idle", SendsDone(w),
         UNCHANGED <<job, todo, at, cursor>>
  PROVE  WorkersDone
<1>1. PICK m \in JobType \cup {None} : Sending(w, m) /\ (m # None => JobDone(m)')
  BY DEF SendsDone
<1>2. ASSUME NEW v \in Workers, v # w
      PROVE  Same(v)
  BY <1>1, <1>2, TypeHalves DEF ChainInv, WorkerTypes, Sending, Same
<1>3. pc'[w] = "send" /\ out'[w] = m
  BY <1>1, TypeHalves DEF ChainInv, WorkerTypes, Sending
<1>4. WorkDone(w)'
  BY <1>3 DEF WorkDone, InTeam
<1>5. HeldDone(w)'
  <2>1. ASSUME NEW j, j = job[w]
        PROVE  JobDone(j)'
    BY <2>1, DoneInHand
  <2> QED BY <1>1, <1>3, <2>1 DEF HeldDone
<1> QED BY <1>2, <1>4, <1>5 DEF WorkersDone

\* The messages of a worker that sends nothing new still say what holds.
LEMMA HeldStays ==
  ASSUME ChainInv, PromiseInv, KeepsAll, NEW w \in Workers, job'[w] = job[w], out'[w] = out[w]
  PROVE  HeldDone(w)'
<1>1. job[w] \in JobType \cup {None} /\ out[w] \in JobType \cup {None}
  BY DEF ChainInv, TypeOK
<1>2. \A j \in {job[w], out[w]} \ {None} : JobDone(j)'
  BY <1>1, DoneStays DEF ChainInv, HeldClear, PromiseInv, HeldDone
<1> QED BY <1>2 DEF HeldDone

\* A worker in a team knows its message and its team, which is marked.
LEMMA TeamInHand ==
  ASSUME ChainInv, PromiseInv, NEW w \in Workers, InTeam(w), NEW j, j = job[w]
  PROVE  /\ pc[w] # "idle" /\ j \in JobType /\ j.kind \in {"team", "workspace"}
         /\ at[w] \in Teams /\ (j.kind = "team" => at[w] = j.team)
         /\ workspace # "live" \/ team[at[w]] # "live"
<1>1. pc[w] # "idle"
  BY DEF InTeam
<1>2. j \in JobType /\ j # None /\ at[w] \in Teams /\ (j.kind = "team" => at[w] = j.team)
  BY <1>1 DEF ChainInv, TypeOK, WorkClear
<1>3. j.kind \in {"team", "workspace"} /\ JobClear(j) /\ JobDone(j)
  BY <1>2, JobFields DEF ChainInv, HeldClear, PromiseInv, HeldDone
<1> QED BY <1>1, <1>2, <1>3 DEF JobClear, JobDone

\* A worker done with an issue goes on, or leaves off there.
LEMMA StepOnDone ==
  ASSUME ChainInv, PromiseInv, KeepsAll, NEW w \in Workers, InTeam(w), NEW j, j = job[w],
         NEW a, a = at[w], UNCHANGED <<job, todo, at>>, NEW c \in Numbers \cup {0}, StepOn(w, c),
         j.stage = "issues" => c = 0,
         j.kind = "team" /\ j.stage = "integrations" => <<a, 0>> \notin rows'["integrations"]
  PROVE  WorkersDone
<1>1. /\ pc[w] # "idle" /\ j \in JobType /\ a \in Teams \cup {NoTeam, REST}
      /\ j.kind = "team" => a = j.team
  BY TeamInHand
<1>2. CASE /\ pc' = [pc EXCEPT ![w] = "work"] /\ cursor' = [cursor EXCEPT ![w] = c]
           /\ UNCHANGED out
  <2>1. ASSUME NEW v \in Workers, v # w
        PROVE  Same(v)
    BY <1>2, <2>1, TypeHalves DEF ChainInv, WorkerTypes, Same
  <2>2. job'[w] = j /\ at'[w] = a /\ out'[w] = out[w] /\ cursor'[w] = c /\ pc'[w] = "work"
    BY <1>2, TypeHalves DEF ChainInv, WorkerTypes
  <2>3. WorkDone(w)'
    BY <2>2 DEF WorkDone
  <2>4. HeldDone(w)'
    BY <2>2, HeldStays
  <2> QED BY <2>1, <2>3, <2>4 DEF WorkersDone
<1>3. CASE Sending(w, [job[w] EXCEPT !.team = a, !.cursor = c]) /\ UNCHANGED cursor
  <2>1. JobDone(j)'
    BY <1>1, DoneInHand
  <2>2. SendsDone(w)
    BY <1>1, <1>3, <2>1, PausedDone
  <2> QED BY <1>1, <1>3, <2>2, SentDone
<1> QED BY <1>2, <1>3 DEF StepOn

\* A worker done with its team hands on, goes to the next or leaves the rest to the
\* next message.
LEMMA TeamDoneDone ==
  ASSUME ChainInv, PromiseInv, KeepsAll, NEW w \in Workers, pc[w] = "work", NEW j, j = job[w],
         job' = job, TeamDone(w),
         j.kind = "team" /\ j.stage \in Emptying => Emptied(j.stage, j.team)'
  PROVE  WorkersDone
<1>1. pc[w] # "idle" /\ InTeam(w)
  BY DEF InTeam
<1>2. j \in JobType /\ JobClear(j) /\ JobDone(j)' /\ j.kind \in {"team", "workspace"}
  BY <1>1, DoneInHand, JobFields
<1>3. PICK left, next : left = todo[w] /\ next = IF left = {} THEN NoTeam ELSE Min(left)
  OBVIOUS
<1>4. CASE j.kind = "team" /\ HandOn(w) /\ UNCHANGED <<at, todo, cursor>>
  <2>1. SendsDone(w)
    BY <1>2, <1>4, HandOnDone
  <2> QED BY <1>1, <1>4, <2>1, SentDone
<1>5. CASE j.kind = "workspace" /\ Resume(w, j, next, left \ {next}, 0) /\ UNCHANGED out
  <2>1. ASSUME NEW v \in Workers, v # w
        PROVE  Same(v)
    BY <1>5, <2>1, TypeHalves DEF ChainInv, WorkerTypes, Resume, Same
  <2>2. job'[w] = j /\ out'[w] = out[w] /\ cursor'[w] = 0
    BY <1>5, TypeHalves DEF ChainInv, WorkerTypes, Resume
  <2>3. WorkDone(w)'
    BY <1>5, <2>2 DEF WorkDone
  <2>4. HeldDone(w)'
    BY <2>2, HeldStays
  <2> QED BY <2>1, <2>3, <2>4 DEF WorkersDone
<1>6. CASE /\ j.kind = "workspace"
           /\ Sending(w, [j EXCEPT !.team = IF next = NoTeam THEN REST ELSE next, !.cursor = 0])
           /\ UNCHANGED <<at, todo, cursor>>
  <2>1. left \subseteq Teams /\ left \in SUBSET Nat
    BY <1>3, TeamsOrder DEF ChainInv, TypeOK
  <2>2. left # {} => next \in left
    BY <1>3, <2>1, MinIsLeast
  <2>3. PICK to : to = IF next = NoTeam THEN REST ELSE next
    OBVIOUS
  <2>4. to \in Teams \cup {NoTeam, REST} /\ 0 \in Numbers \cup {0}
    BY <1>3, <2>1, <2>2, <2>3
  <2>5. Sending(w, [job[w] EXCEPT !.team = to, !.cursor = 0])
    BY <1>6, <2>3
  <2>6. SendsDone(w)
    BY <1>2, <1>6, <2>4, <2>5, PausedDone
  <2> QED BY <1>1, <1>6, <2>6, SentDone
<1> QED BY <1>3, <1>4, <1>5, <1>6 DEF TeamDone

-----------------------------------------------------------------------------
(* What a step takes away.                                                 *)

\* Nothing comes back, rows go only under a mark, and no mark is set or taken back.
Purges ==
  /\ KeepsAll
  /\ workspace = "live" <=> workspace' = "live"
  /\ workspace = "gone" => workspace' = "gone"
  /\ \A t \in Teams : workspace = "live" => (team[t] = "live" <=> team'[t] = "live")
  /\ \A s \in RowStages, t \in Teams, n \in Numbers \cup {0} :
       <<t, n>> \in rows[s] \ rows'[s] => workspace # "live" \/ team[t] # "live"

\* A step that takes nothing.
LEMMA NothingGoes ==
  ASSUME PromiseInv, UNCHANGED <<workspace, team, rows>>
  PROVE  KeepsAll /\ Purges /\ Closed'
<1>1. KeepsAll /\ Purges
  BY DEF KeepsAll, Purges
<1>2. Closed'
  BY DEF PromiseInv, Closed, Emptied
<1> QED BY <1>1, <1>2

\* A step that takes rows of a team that is marked.
LEMMA TeamRowsGo ==
  ASSUME ChainInv, PromiseInv, UNCHANGED <<workspace, team>>, NEW a \in Teams,
         workspace # "live" \/ team[a] # "live",
         NEW s \in RowStages, NEW X, X \subseteq {a} \X (Numbers \cup {0}),
         rows' = [rows EXCEPT ![s] = @ \ X]
  PROVE  KeepsAll /\ Purges /\ Closed'
<1>1. \A r \in RowStages : /\ rows'[r] = IF r = s THEN rows[r] \ X ELSE rows[r]
                           /\ rows'[r] \subseteq rows[r]
  BY RowsLeft, TypeHalves DEF ChainInv
<1>2. KeepsAll
  BY <1>1 DEF KeepsAll
<1>3. Purges
  <2>1. ASSUME NEW r \in RowStages, NEW t \in Teams, NEW n \in Numbers \cup {0},
               <<t, n>> \in rows[r] \ rows'[r]
        PROVE  t = a
    BY <1>1, <2>1
  <2> QED BY <1>2, <2>1 DEF Purges
<1>4. Closed'
  BY <1>2, EmptiedStays DEF PromiseInv, Closed
<1> QED BY <1>2, <1>3, <1>4

-----------------------------------------------------------------------------
(* A worker in a team.                                                     *)

\* The worker reads an issue's files, erases its thread or the team's own links: it
\* stays in its team, and what its stage asks for holds.
LEMMA StaysDone ==
  ASSUME ChainInv, PromiseInv, KeepsAll, NEW w \in Workers, UNCHANGED <<job, todo, at, out>>,
         NEW p \in {"work", "erase", "release"}, pc' = [pc EXCEPT ![w] = p],
         NEW c \in Numbers \cup {0}, cursor' = [cursor EXCEPT ![w] = c],
         job[w].stage # "issues",
         p = "work" => <<at[w], 0>> \notin rows'["integrations"]
  PROVE  WorkersDone
<1>1. ASSUME NEW v \in Workers, v # w
      PROVE  Same(v)
  BY <1>1, TypeHalves DEF ChainInv, WorkerTypes, Same
<1>2. job'[w] = job[w] /\ at'[w] = at[w] /\ out'[w] = out[w] /\ pc'[w] = p
  BY TypeHalves DEF ChainInv, WorkerTypes
<1>3. WorkDone(w)'
  BY <1>2 DEF WorkDone
<1>4. HeldDone(w)'
  BY <1>2, HeldStays
<1> QED BY <1>1, <1>3, <1>4 DEF WorkersDone

\* The worker reads an issue's files.
LEMMA ReadFilesDone ==
  ASSUME ChainInv, PromiseInv, NEW w \in Workers, ReadFiles(w)
  PROVE  PromiseInv' /\ Purges
<1>1. KeepsAll /\ Purges /\ Closed'
  BY NothingGoes DEF ReadFiles, data
<1>2. PICK n : n = Min(Ahead(w))
  OBVIOUS
<1>3. n \in Numbers /\ InHand(w)[2] = n
  BY <1>2, HandIs DEF ReadFiles
<1>4. WorkersDone
  BY <1>1, <1>3, StaysDone DEF ReadFiles, Working
<1> QED BY <1>1, <1>4, DoneStep DEF ReadFiles

\* The worker deletes the thread in hand.
LEMMA EraseThreadDone ==
  ASSUME ChainInv, PromiseInv, NEW w \in Workers, EraseThread(w)
  PROVE  PromiseInv' /\ Purges
<1>1. PICK a, n : a = at[w] /\ n = cursor[w]
  OBVIOUS
<1>2. /\ InTeam(w) /\ job[w].stage = "discussion" /\ n \in Numbers \cup {0}
  BY <1>1 DEF EraseThread, InTeam, ChainInv, WorkClear, TypeOK
<1>3. a \in Teams /\ (workspace # "live" \/ team[a] # "live")
  BY <1>1, <1>2, TeamInHand
<1>4. {<<a, n>>} \subseteq {a} \X (Numbers \cup {0}) /\ "discussion" \in RowStages
  BY <1>2 DEF RowStages
<1>5. KeepsAll /\ Purges /\ Closed'
  BY <1>1, <1>3, <1>4, TeamRowsGo DEF EraseThread
<1>6. cursor' = [cursor EXCEPT ![w] = n]
  BY <1>1, TypeHalves DEF EraseThread, ChainInv, WorkerTypes
<1>7. WorkersDone
  BY <1>2, <1>5, <1>6, StaysDone DEF EraseThread
<1> QED BY <1>5, <1>7, DoneStep DEF EraseThread

\* The worker gives the thread's bytes back.
LEMMA ReleaseBytesDone ==
  ASSUME ChainInv, PromiseInv, NEW w \in Workers, ReleaseBytes(w)
  PROVE  PromiseInv' /\ Purges
<1>1. KeepsAll /\ Purges /\ Closed'
  BY NothingGoes DEF ReleaseBytes
<1>2. PICK n, a, j : n = cursor[w] /\ a = at[w] /\ j = job[w]
  OBVIOUS
<1>3. InTeam(w) /\ j.stage = "discussion" /\ n \in Numbers \cup {0}
  BY <1>2 DEF ReleaseBytes, InTeam, ChainInv, WorkClear, TypeOK
<1>4. StepOn(w, n) /\ UNCHANGED <<job, todo, at>>
  BY <1>2 DEF ReleaseBytes, StepOn
<1>5. WorkersDone
  BY <1>1, <1>2, <1>3, <1>4, StepOnDone
<1> QED BY <1>1, <1>5, DoneStep DEF ReleaseBytes

\* The worker deletes the team's own links.
LEMMA UnlinkTeamDone ==
  ASSUME ChainInv, PromiseInv, NEW w \in Workers, UnlinkTeam(w)
  PROVE  PromiseInv' /\ Purges
<1>1. PICK a, n : a = at[w] /\ n = cursor[w]
  OBVIOUS
<1>2. /\ InTeam(w) /\ job[w].stage = "integrations" /\ n \in Numbers \cup {0}
  BY <1>1 DEF UnlinkTeam, InTeam, ChainInv, WorkClear, TypeOK
<1>3. a \in Teams /\ (workspace # "live" \/ team[a] # "live")
  BY <1>1, <1>2, TeamInHand
<1>4. PICK X : X = {<<a, 0>>}
  OBVIOUS
<1>5. /\ KeepsAll /\ Purges /\ Closed'
      /\ rows'["integrations"] = rows["integrations"] \ {<<a, 0>>}
  <2>1. X \subseteq {a} \X (Numbers \cup {0}) /\ "integrations" \in RowStages
    BY <1>4 DEF RowStages
  <2>2. rows' = [rows EXCEPT !["integrations"] = @ \ X] /\ UNCHANGED <<workspace, team>>
    BY <1>1, <1>4 DEF UnlinkTeam
  <2>3. KeepsAll /\ Purges /\ Closed'
    BY <1>3, <2>1, <2>2, TeamRowsGo
  <2>4. rows'["integrations"] = rows["integrations"] \ X
    BY <2>1, <2>2, RowsLeft, TypeHalves DEF ChainInv
  <2> QED BY <1>4, <2>3, <2>4
<1>6. cursor' = [cursor EXCEPT ![w] = n] /\ <<a, 0>> \notin rows'["integrations"]
  BY <1>1, <1>5, TypeHalves DEF UnlinkTeam, ChainInv, WorkerTypes
<1>7. WorkersDone
  BY <1>1, <1>2, <1>5, <1>6, StaysDone DEF UnlinkTeam
<1> QED BY <1>5, <1>7, DoneStep DEF UnlinkTeam

\* The worker deletes an issue's links.
LEMMA UnlinkIssueDone ==
  ASSUME ChainInv, PromiseInv, NEW w \in Workers, UnlinkIssue(w)
  PROVE  PromiseInv' /\ Purges
<1>1. PICK n, a, j : n = Min(Ahead(w)) /\ a = at[w] /\ j = job[w]
  OBVIOUS
<1>2. pc[w] = "work" /\ InTeam(w) /\ Ahead(w) # {} /\ j.stage = "integrations"
  BY <1>1 DEF UnlinkIssue, Working, InTeam
<1>3. n \in Numbers /\ InHand(w) = <<a, n>> /\ InHand(w)[2] = n
  BY <1>1, <1>2, HandIs
<1>4. a \in Teams /\ (workspace # "live" \/ team[a] # "live")
  BY <1>1, <1>2, TeamInHand
<1>5. PICK X : X = {<<a, n>>}
  OBVIOUS
<1>6. KeepsAll /\ Purges /\ Closed'
  <2>1. X \subseteq {a} \X (Numbers \cup {0}) /\ "integrations" \in RowStages
    BY <1>3, <1>5 DEF RowStages
  <2>2. rows' = [rows EXCEPT !["integrations"] = @ \ X] /\ UNCHANGED <<workspace, team>>
    BY <1>3, <1>5 DEF UnlinkIssue
  <2> QED BY <1>4, <2>1, <2>2, TeamRowsGo
<1>7. j.kind = "team" => <<a, 0>> \notin rows'["integrations"]
  <2>1. j.kind = "team" => <<a, 0>> \notin rows["integrations"]
    BY <1>1, <1>2 DEF PromiseInv, WorkDone
  <2> QED BY <1>6, <2>1 DEF KeepsAll, RowStages
<1>8. WorkersDone
  <2>1. StepOn(w, n) /\ UNCHANGED <<job, todo, at>>
    BY <1>3 DEF UnlinkIssue, StepOn
  <2> QED BY <1>1, <1>2, <1>3, <1>6, <1>7, <2>1, StepOnDone
<1> QED BY <1>6, <1>8, DoneStep DEF UnlinkIssue

\* The worker deletes an issue.
LEMMA DeleteIssueDone ==
  ASSUME ChainInv, PromiseInv, NEW w \in Workers, DeleteIssue(w)
  PROVE  PromiseInv' /\ Purges
<1>1. PICK n, a, j : n = Min(Ahead(w)) /\ a = at[w] /\ j = job[w]
  OBVIOUS
<1>2. pc[w] = "work" /\ InTeam(w) /\ Ahead(w) # {} /\ j.stage = "issues"
  BY <1>1 DEF DeleteIssue, Working, InTeam
<1>3. n \in Numbers /\ InHand(w) = <<a, n>>
  BY <1>1, <1>2, HandIs
<1>4. a \in Teams /\ (workspace # "live" \/ team[a] # "live")
  BY <1>1, <1>2, TeamInHand
<1>5. PICK X : X = {<<a, n>>}
  OBVIOUS
<1>6. KeepsAll /\ Purges /\ Closed'
  <2>1. X \subseteq {a} \X (Numbers \cup {0}) /\ "issues" \in RowStages
    BY <1>3, <1>5 DEF RowStages
  <2>2. rows' = [rows EXCEPT !["issues"] = @ \ X] /\ UNCHANGED <<workspace, team>>
    BY <1>3, <1>5 DEF DeleteIssue
  <2> QED BY <1>4, <2>1, <2>2, TeamRowsGo
<1>7. WorkersDone
  <2>1. StepOn(w, 0) /\ UNCHANGED <<job, todo, at>> /\ j.stage # "integrations"
    BY <1>2 DEF DeleteIssue, StepOn
  <2> QED BY <1>1, <1>2, <1>6, <2>1, StepOnDone
<1> QED BY <1>6, <1>7, DoneStep DEF DeleteIssue

\* The worker finds no issue left in its team.
LEMMA FinishIssuesDone ==
  ASSUME ChainInv, PromiseInv, NEW w \in Workers, FinishIssues(w)
  PROVE  PromiseInv' /\ Purges
<1>1. KeepsAll /\ Purges /\ Closed'
  BY NothingGoes DEF FinishIssues, data
<1>2. PICK a, j : a = at[w] /\ j = job[w]
  OBVIOUS
<1>3. pc[w] = "work" /\ InTeam(w) /\ Ahead(w) = {} /\ j.stage \in ByIssue
  BY <1>2 DEF FinishIssues, InTeam
<1>4. a \in Teams /\ (j.kind = "team" => a = j.team)
  BY <1>2, <1>3, TeamInHand
<1>5. ASSUME j.kind = "team", j.stage \in Emptying
      PROVE  Emptied(j.stage, a)
  <2>1. CASE j.stage = "integrations"
    <3>1. Clear("integrations", a)
      BY <1>2, <1>3, <2>1, ClearUpTo DEF ViaIssues
    <3>2. <<a, 0>> \notin rows["integrations"]
      BY <1>2, <1>3, <1>5, <2>1 DEF PromiseInv, WorkDone
    <3> QED BY <2>1, <3>1, <3>2 DEF Emptied, Clear
  <2>2. CASE j.stage = "issues"
    <3>1. cursor[w] = 0
      BY <1>2, <1>3, <2>2 DEF PromiseInv, WorkDone
    <3>2. \A k \in Numbers : k > 0
      BY PurgeAssumption
    <3>3. \A k \in Numbers : <<a, k>> \notin rows["issues"]
      BY <1>2, <1>3, <3>1, <3>2 DEF Ahead
    <3>4. <<a, 0>> \notin rows["issues"]
      <4>1. rows["issues"] \subseteq Teams \X Numbers
        BY DEF ChainInv, TypeOK, AllRows, RowStages, ByIssue, ByTeam
      <4>2. 0 \notin Numbers
        BY <3>2
      <4> QED BY <4>1, <4>2
    <3> QED BY <2>2, <3>3, <3>4 DEF Emptied
  <2> QED BY <1>3, <1>5, <2>1, <2>2 DEF ByIssue, Emptying
<1>6. j.kind = "team" /\ j.stage \in Emptying => Emptied(j.stage, j.team)'
  BY <1>1, <1>3, <1>4, <1>5, EmptiedStays DEF ByIssue, RowStages
<1>7. WorkersDone
  BY <1>1, <1>2, <1>3, <1>6, TeamDoneDone DEF FinishIssues
<1> QED BY <1>1, <1>7, DoneStep DEF FinishIssues

\* The worker deletes the team's views, or its planning rows.
LEMMA ClearTeamDone ==
  ASSUME ChainInv, PromiseInv, NEW w \in Workers, ClearTeam(w)
  PROVE  PromiseInv' /\ Purges
<1>1. PICK a, j : a = at[w] /\ j = job[w]
  OBVIOUS
<1>2. pc[w] = "work" /\ InTeam(w) /\ j.stage \in {"views", "planning"}
  BY <1>1 DEF ClearTeam, InTeam
<1>3. /\ a \in Teams /\ (j.kind = "team" => a = j.team)
      /\ workspace # "live" \/ team[a] # "live"
  BY <1>1, <1>2, TeamInHand
<1>4. PICK s, X : s = j.stage /\ X = {<<a, 0>>}
  OBVIOUS
<1>5. /\ X \subseteq {a} \X (Numbers \cup {0}) /\ s \in RowStages
      /\ rows' = [rows EXCEPT ![s] = @ \ X] /\ UNCHANGED <<workspace, team>>
  BY <1>1, <1>2, <1>4 DEF ClearTeam, RowStages
<1>6. KeepsAll /\ Purges /\ Closed' /\ rows'[j.stage] = rows[j.stage] \ {<<a, 0>>}
  <2>1. KeepsAll /\ Purges /\ Closed'
    BY <1>3, <1>5, TeamRowsGo
  <2>2. rows'[s] = rows[s] \ X
    BY <1>5, RowsLeft, TypeHalves DEF ChainInv
  <2> QED BY <1>4, <2>1, <2>2
<1>7. Emptied(j.stage, a)'
  <2>1. rows[j.stage] \subseteq Teams \X {0}
    BY <1>2 DEF ChainInv, TypeOK, AllRows, RowStages, ByIssue, ByTeam
  <2>2. \A n \in Numbers \cup {0} : <<a, n>> \notin rows'[j.stage]
    BY <1>6, <2>1
  <2> QED BY <1>2, <2>2 DEF Emptied
<1>8. WorkersDone
  BY <1>1, <1>2, <1>3, <1>6, <1>7, TeamDoneDone DEF ClearTeam
<1> QED BY <1>6, <1>8, DoneStep DEF ClearTeam

\* What a worker at the teams' stage may count on: nothing is left of the teams its
\* message is about.
LEMMA NothingLeftOf ==
  ASSUME ChainInv, PromiseInv, NEW w \in Workers, pc[w] # "idle", NEW j, j = job[w],
         j.stage = "teams", NEW t \in Teams, j.kind = "workspace" \/ t = j.team,
         NEW s \in RowStages
  PROVE  Emptied(s, t)
<1>1. j \in JobType /\ j # None
  BY DEF ChainInv, TypeOK, WorkClear
<1>2. JobDone(j)
  BY <1>1 DEF PromiseInv, HeldDone
<1>3. CASE s = "discussion"
  <2>1. Clear("discussion", t)
    BY AfterIs, NothingLeftVia DEF ViaIssues
  <2>2. rows["discussion"] \subseteq Teams \X Numbers
    BY DEF ChainInv, TypeOK, AllRows, RowStages, ByIssue, ByTeam
  <2>3. 0 \notin Numbers
    BY PurgeAssumption
  <2>4. \A n \in Numbers \cup {0} : <<t, n>> \notin rows["discussion"]
    BY <2>1, <2>2, <2>3 DEF Clear
  <2> QED BY <1>3, <2>4 DEF Emptied
<1>4. CASE s # "discussion"
  <2>1. s \in Passed("teams")
    BY <1>4, PassedIs DEF RowStages
  <2> QED BY <1>2, <2>1 DEF JobDone
<1> QED BY <1>3, <1>4

\* The worker deletes the team's row.
LEMMA DeleteTeamRowDone ==
  ASSUME ChainInv, PromiseInv, NEW w \in Workers, DeleteTeamRow(w)
  PROVE  PromiseInv' /\ Purges
<1>1. PICK a, j : a = at[w] /\ j = job[w]
  OBVIOUS
<1>2. pc[w] = "work" /\ InTeam(w) /\ j.stage = "teams" /\ pc[w] # "idle"
  BY <1>1 DEF DeleteTeamRow, Working, InTeam
<1>3. /\ a \in Teams /\ j \in JobType /\ j.kind \in {"team", "workspace"}
      /\ j.kind = "team" => a = j.team
      /\ workspace # "live" \/ team[a] # "live"
  BY <1>1, <1>2, TeamInHand
<1>4. /\ j.kind = "workspace" => workspace # "live"
      /\ j.kind = "team" => team[a] # "live"
  <2>1. j # None /\ JobClear(j) /\ JobDone(j)
    BY <1>1, <1>2, <1>3, JobFields DEF ChainInv, HeldClear, PromiseInv, HeldDone
  <2> QED BY <1>3, <2>1 DEF JobClear, JobDone
<1>5. /\ \A t \in Teams : t # a => team'[t] = team[t]
      /\ team'[a] = IF j.kind = "workspace" \/ team[a] = "deleting" THEN "gone" ELSE team[a]
      /\ team[a] \in {"live", "deleting", "gone"}
      /\ UNCHANGED <<workspace, rows>>
  BY <1>1, <1>3, TypeHalves DEF DeleteTeamRow, ChainInv, DataTypes
<1>6. KeepsAll
  BY <1>5 DEF KeepsAll
<1>7. Purges
  BY <1>3, <1>4, <1>5, <1>6 DEF Purges
<1>8. Closed'
  <2>1. ASSUME NEW t \in Teams, NEW s \in RowStages, team'[t] = "gone"
        PROVE  Emptied(s, t)
    <3>1. CASE team[t] = "gone"
      BY <3>1 DEF PromiseInv, Closed
    <3>2. CASE t = a
      BY <1>1, <1>2, <1>3, <3>2, NothingLeftOf
    <3> QED BY <1>5, <2>1, <3>1, <3>2
  <2>2. \A t \in Teams, s \in RowStages : team'[t] = "gone" => Emptied(s, t)'
    BY <1>6, <2>1, EmptiedStays
  <2>3. workspace' = "gone" => \A t \in Teams : team'[t] = "gone"
    BY <1>5, <1>6 DEF PromiseInv, Closed, KeepsAll
  <2> QED BY <2>2, <2>3 DEF Closed
<1>9. WorkersDone
  <2>1. ASSUME j.kind = "team"
        PROVE  Emptied(j.stage, j.team)'
    BY <1>2, <1>3, <1>4, <1>5, <2>1 DEF Emptied
  <2> QED BY <1>1, <1>2, <1>6, <2>1, TeamDoneDone DEF DeleteTeamRow
<1> QED BY <1>6, <1>7, <1>8, <1>9, DoneStep DEF DeleteTeamRow

-----------------------------------------------------------------------------
(* A worker past every team.                                               *)

\* The worker takes a whole-workspace step.
LEMMA SweepWorkspaceDone ==
  ASSUME ChainInv, PromiseInv, NEW w \in Workers, SweepWorkspace(w)
  PROVE  PromiseInv' /\ Purges
<1>1. PICK j : j = job[w]
  OBVIOUS
<1>2. pc[w] = "rest" /\ pc[w] # "idle" /\ j.stage # "issues"
  BY <1>1 DEF SweepWorkspace
<1>3. j \in JobType /\ j # None /\ j.kind = "workspace" /\ workspace # "live"
  BY <1>1, <1>2, RestFacts
<1>4. JobClear(j) /\ JobDone(j)
  BY <1>1, <1>3 DEF ChainInv, HeldClear, PromiseInv, HeldDone
<1>5. rows' = IF j.stage \in {"integrations", "views", "planning"}
              THEN [rows EXCEPT ![j.stage] = {}] ELSE rows
  BY <1>1 DEF SweepWorkspace
<1>6. /\ \A r \in RowStages : rows'[r] \subseteq rows[r]
      /\ j.stage \in {"integrations", "views", "planning"} => rows'[j.stage] = {}
  BY <1>5, TypeHalves DEF ChainInv, DataTypes, RowStages
<1>7. /\ team' = IF j.stage = "teams" THEN [t \in Teams |-> "gone"] ELSE team
      /\ workspace' = IF j.stage = "workspaces" THEN "gone" ELSE workspace
  BY <1>1 DEF SweepWorkspace
<1>8. KeepsAll /\ Purges
  <2>1. KeepsAll
    BY <1>6, <1>7 DEF KeepsAll
  <2>2. Purges
    BY <1>3, <1>7, <2>1 DEF Purges
  <2> QED BY <2>1, <2>2
<1>9. Closed'
  <2>1. ASSUME NEW t \in Teams, NEW s \in RowStages, team'[t] = "gone"
        PROVE  Emptied(s, t)
    <3>1. CASE team[t] = "gone"
      BY <3>1 DEF PromiseInv, Closed
    <3>2. CASE j.stage = "teams"
      BY <1>1, <1>2, <1>3, <3>2, NothingLeftOf
    <3> QED BY <1>7, <2>1, <3>1, <3>2
  <2>2. \A t \in Teams, s \in RowStages : team'[t] = "gone" => Emptied(s, t)'
    BY <1>8, <2>1, EmptiedStays
  <2>3. ASSUME workspace' = "gone", NEW t \in Teams
        PROVE  team'[t] = "gone"
    <3>1. CASE workspace = "gone"
      BY <1>8, <3>1 DEF PromiseInv, Closed, KeepsAll
    <3>2. CASE j.stage = "workspaces"
      <4>1. Emptied("teams", t)
        BY <1>3, <1>4, <3>2, PassedIs DEF JobDone
      <4> QED BY <1>8, <4>1 DEF Emptied, KeepsAll
    <3> QED BY <1>7, <2>3, <3>1, <3>2
  <2> QED BY <2>2, <2>3 DEF Closed
<1>10. WorkersDone
  <2>1. ASSUME j.stage \in Emptying, NEW t \in Teams
        PROVE  Emptied(j.stage, t)'
    <3>1. CASE j.stage = "teams"
      BY <1>7, <3>1 DEF Emptied
    <3>2. CASE j.stage \in {"integrations", "views", "planning"}
      BY <1>6, <3>2 DEF Emptied
    <3> QED BY <1>2, <2>1, <3>1, <3>2 DEF Emptying
  <2>2. JobDone(j)'
    BY <1>3, <1>4, <1>8, DoneStays
  <2>3. HandOn(w) /\ UNCHANGED <<job, todo, at, cursor>>
    BY DEF SweepWorkspace
  <2>4. SendsDone(w)
    BY <1>1, <1>3, <1>4, <2>1, <2>2, <2>3, HandOnDone
  <2> QED BY <1>2, <1>8, <2>3, <2>4, SentDone
<1> QED BY <1>8, <1>9, <1>10, DoneStep DEF SweepWorkspace

\* The worker deletes an issue that belongs to no team still there.
LEMMA SweepIssuesDone ==
  ASSUME ChainInv, PromiseInv, NEW w \in Workers, SweepIssues(w)
  PROVE  PromiseInv' /\ Purges
<1>1. PICK j : j = job[w]
  OBVIOUS
<1>2. pc[w] = "rest" /\ pc[w] # "idle" /\ j.stage = "issues"
  BY <1>1 DEF SweepIssues
<1>3. j \in JobType /\ j # None /\ j.kind = "workspace" /\ workspace # "live"
  BY <1>1, <1>2, RestFacts
<1>4. JobClear(j) /\ JobDone(j)
  BY <1>1, <1>3 DEF ChainInv, HeldClear, PromiseInv, HeldDone
<1>5. \A r \in RowStages : rows'[r] \subseteq rows[r]
  <2>1. CASE UNCHANGED rows
    BY <2>1
  <2>2. CASE \E x \in rows["issues"] : rows' = [rows EXCEPT !["issues"] = @ \ {x}]
    BY <2>2, TypeHalves DEF ChainInv, DataTypes, RowStages
  <2> QED BY <2>1, <2>2 DEF SweepIssues
<1>6. KeepsAll /\ Purges
  BY <1>3, <1>5 DEF KeepsAll, Purges, SweepIssues
<1>7. Closed'
  <2>1. \A t \in Teams, s \in RowStages : team'[t] = "gone" => Emptied(s, t)'
    BY <1>6, EmptiedStays DEF PromiseInv, Closed, SweepIssues
  <2> QED BY <2>1 DEF PromiseInv, Closed, SweepIssues
<1>8. JobDone(j)'
  BY <1>3, <1>4, <1>6, DoneStays
<1>9. WorkersDone
  <2>1. CASE rows["issues"] = {} /\ HandOn(w) /\ UNCHANGED rows
    <3>1. \A t \in Teams : Emptied(j.stage, t)'
      BY <1>2, <2>1 DEF Emptied
    <3>2. SendsDone(w)
      BY <1>1, <1>3, <1>4, <1>8, <2>1, <3>1, HandOnDone
    <3> QED BY <1>2, <1>6, <3>2, SentDone DEF SweepIssues
  <2>2. CASE UNCHANGED <<pc, out>>
    BY <2>2 DEF SweepIssues, Same, WorkersDone
  <2>3. CASE Sending(w, [job[w] EXCEPT !.team = REST, !.cursor = 0])
    <3>1. REST \in Teams \cup {NoTeam, REST} /\ 0 \in Numbers \cup {0} /\ j.kind # "team"
      BY <1>3
    <3>2. SendsDone(w)
      BY <1>1, <1>3, <1>8, <2>3, <3>1, PausedDone
    <3> QED BY <1>2, <1>6, <3>2, SentDone DEF SweepIssues
  <2> QED BY <2>1, <2>2, <2>3 DEF SweepIssues
<1> QED BY <1>6, <1>7, <1>9, DoneStep DEF SweepIssues

-----------------------------------------------------------------------------
(* The queues, and what starts a chain.                                    *)

\* The worker sends its message.
LEMMA SendDone ==
  ASSUME ChainInv, PromiseInv, NEW w \in Workers, Send(w)
  PROVE  PromiseInv' /\ Purges
<1>1. KeepsAll /\ Purges /\ Closed'
  BY NothingGoes DEF Send, data
<1>2. PICK m : m = out[w] /\ m \in JobType \cup {None}
  BY DEF ChainInv, TypeOK
<1>3. \A j \in BagToSet(queue)' : j \in BagToSet(queue) \/ JobDone(j)'
  <2>1. CASE m = None
    BY <1>2, <2>1 DEF Send
  <2>2. CASE m # None
    <3>1. m \in JobType /\ JobClear(m) /\ JobDone(m)
      BY <1>2, <2>2 DEF ChainInv, HeldClear, PromiseInv, HeldDone
    <3>2. JobDone(m)'
      BY <1>1, <3>1, DoneStays
    <3>3. queue' = queue (+) SetToBag({m})
      BY <1>2, <2>2 DEF Send
    <3> QED BY <3>1, <3>2, <3>3, QueuePut
  <2> QED BY <2>1, <2>2
<1>4. WorkersDone
  <2>1. ASSUME NEW v \in Workers, v # w
        PROVE  Same(v)
    BY <2>1, TypeHalves DEF Send, ChainInv, WorkerTypes, Same
  <2>2. job'[w] = job[w] /\ out'[w] = None /\ pc'[w] = "ack" /\ pc[w] # "idle"
    BY TypeHalves DEF Send, ChainInv, WorkerTypes
  <2>3. WorkDone(w)'
    BY <2>2 DEF WorkDone, InTeam
  <2>4. ASSUME NEW j, j = job[w]
        PROVE  JobDone(j)'
    BY <1>1, <2>2, <2>4, DoneInHand
  <2>5. HeldDone(w)'
    BY <2>2, <2>4 DEF HeldDone
  <2> QED BY <2>1, <2>3, <2>5 DEF WorkersDone
<1> QED BY <1>1, <1>3, <1>4, DoneStep DEF Send

\* A worker let go of its message has nothing to say.
LEMMA ReleaseDone ==
  ASSUME ChainInv, NEW w \in Workers, Release(w)
  PROVE  WorkersDone
<1>1. ASSUME NEW v \in Workers, v # w
      PROVE  Same(v)
  BY <1>1, TypeHalves DEF ChainInv, WorkerTypes, Release, Same
<1>2. job'[w] = None /\ out'[w] = None /\ pc'[w] = "idle"
  BY TypeHalves DEF ChainInv, WorkerTypes, Release
<1>3. WorkDone(w)' /\ HeldDone(w)'
  BY <1>2 DEF WorkDone, HeldDone, InTeam
<1> QED BY <1>1, <1>3 DEF WorkersDone

\* The worker acknowledges the message it took.
LEMMA AckDone ==
  ASSUME ChainInv, PromiseInv, NEW w \in Workers, Ack(w)
  PROVE  PromiseInv' /\ Purges
<1>1. KeepsAll /\ Purges /\ Closed'
  BY NothingGoes DEF Ack, data
<1>2. WorkersDone
  BY ReleaseDone DEF Ack
<1> QED BY <1>1, <1>2, DoneStep DEF Ack

\* The worker fails, and its message comes back.
LEMMA CrashDone ==
  ASSUME ChainInv, PromiseInv, NEW w \in Workers, Crash(w)
  PROVE  PromiseInv' /\ Purges
<1>1. KeepsAll /\ Purges /\ Closed'
  BY NothingGoes DEF Crash, data
<1>2. WorkersDone
  BY ReleaseDone DEF Crash
<1>3. PICK m : m = job[w]
  OBVIOUS
<1>4. m \in JobType /\ JobDone(m)'
  BY <1>1, <1>3, DoneInHand DEF Crash
<1>5. BagToSet(queue)' = BagToSet(queue) \cup {m}
  BY <1>3, <1>4, QueuePut DEF Crash
<1> QED BY <1>1, <1>2, <1>4, <1>5, DoneStep DEF Crash

\* A worker takes a message.
LEMMA ReceiveDone ==
  ASSUME ChainInv, PromiseInv, NEW w \in Workers, NEW m \in BagToSet(queue), Receive(w, m)
  PROVE  PromiseInv' /\ Purges
<1>1. KeepsAll /\ Purges /\ Closed'
  BY NothingGoes DEF Receive, data
<1>2. /\ m \in JobType /\ JobClear(m) /\ JobDone(m) /\ JobDone(m)'
      /\ IsABag(queue) /\ pc[w] = "idle"
  BY <1>1, DoneStays DEF ChainInv, PromiseInv, TypeOK, Receive
<1>3. BagToSet(queue') \subseteq BagToSet(queue)
  BY <1>2, BagTake DEF Receive
<1>4. m.cursor \in Nat /\ m.kind \in {"team", "workspace"}
  BY <1>2, JobFields
<1>5. WorkersDone
  <2>1. CASE UNCHANGED <<job, pc, todo, at, cursor>>
    BY <2>1 DEF Receive, Same, WorkersDone
  <2>2. CASE job' = [job EXCEPT ![w] = m] /\ TakeUp(w, m)
    <3>1. PICK t, later, c : /\ Resume(w, m, t, later, c)
                             /\ c = m.cursor \/ c = 0
                             /\ m.kind = "team" => t = m.team /\ c = m.cursor
      BY <2>2, <1>4 DEF TakeUp
    <3>2. ASSUME NEW v \in Workers, v # w
          PROVE  Same(v)
      BY <2>2, <3>1, <3>2, TypeHalves DEF ChainInv, WorkerTypes, Resume, Receive, Same
    <3>3. /\ job'[w] = m /\ out'[w] = out[w] /\ at'[w] = t /\ cursor'[w] = c
          /\ pc'[w] = IF t = NoTeam THEN "rest"
                      ELSE IF m.stage = "integrations" /\ m.kind = "team" /\ c = 0
                      THEN "head" ELSE "work"
      BY <2>2, <3>1, TypeHalves DEF ChainInv, WorkerTypes, Resume, Receive
    <3>4. WorkDone(w)'
      <4>1. m.stage = "issues" => c = 0
        BY <1>2, <3>1 DEF JobDone
      <4>2. ASSUME pc'[w] = "work", m.kind = "team", m.stage = "integrations"
            PROVE  <<t, 0>> \notin rows'["integrations"]
        <5>1. t = m.team /\ m.cursor # 0
          BY <3>1, <3>3, <4>2
        <5>2. m.cursor > 0
          BY <1>4, <5>1
        <5> QED BY <1>2, <4>2, <5>1, <5>2 DEF JobDone
      <4> QED BY <3>3, <4>1, <4>2 DEF WorkDone
    <3>5. HeldDone(w)'
      <4>1. out[w] \in JobType \cup {None}
        BY DEF ChainInv, TypeOK
      <4>2. ASSUME NEW o, o = out[w], o # None
            PROVE  JobDone(o)'
        BY <1>1, <4>1, <4>2, DoneStays DEF ChainInv, HeldClear, PromiseInv, HeldDone
      <4>3. ASSUME NEW o \in {job'[w], out'[w]} \ {None}
            PROVE  JobDone(o)'
        BY <1>2, <3>3, <4>2
      <4> QED BY <4>3 DEF HeldDone
    <3> QED BY <3>2, <3>4, <3>5 DEF WorkersDone
  <2> QED BY <2>1, <2>2 DEF Receive
<1> QED BY <1>1, <1>3, <1>5, DoneStep DEF Receive

\* While no worker moves, each says what it said.
LEMMA WorkersRest ==
  ASSUME UNCHANGED worker
  PROVE  WorkersDone
  BY DEF WorkersDone, Same, worker

\* The first message of a chain is sent.
LEMMA SendStartDone ==
  ASSUME ChainInv, PromiseInv, NEW t \in Teams \cup {NoTeam}, SendStart(t)
  PROVE  PromiseInv' /\ Purges
<1>1. KeepsAll /\ Purges /\ Closed'
  BY NothingGoes DEF SendStart, data
<1>2. PICK m : m = FirstJob(t)
  OBVIOUS
<1>3. m \in JobType /\ t \in starting
  BY <1>2, FirstClear DEF SendStart
<1>4. /\ m.kind = (IF t = NoTeam THEN "workspace" ELSE "team")
      /\ m.team = t /\ m.stage = "discussion" /\ m.cursor = 0
  BY <1>2, StagesAre DEF FirstJob
<1>5. JobDone(m)'
  <2>1. m.kind = "team" => team'[m.team] # "live"
    BY <1>1, <1>3, <1>4 DEF PromiseInv, SendStart, data
  <2> QED BY <1>4, <2>1, PassedIs DEF JobDone
<1>6. BagToSet(queue)' = BagToSet(queue) \cup {m}
  BY <1>2, <1>3, QueuePut DEF SendStart
<1>7. WorkersDone
  BY WorkersRest DEF SendStart
<1> QED BY <1>1, <1>5, <1>6, <1>7, DoneStep DEF SendStart

\* A start is lost, or a message delivered again or parked.
LEMMA FaultDone ==
  ASSUME ChainInv, PromiseInv,
         \/ \E t \in Teams \cup {NoTeam} : LoseStart(t)
         \/ \E m \in BagToSet(queue) : Duplicate(m) \/ Park(m)
  PROVE  PromiseInv' /\ Purges
<1>1. UNCHANGED <<workspace, team, rows, worker>> /\ starting' \subseteq starting
  BY DEF LoseStart, Duplicate, Park, data
<1>2. KeepsAll /\ Purges /\ Closed'
  BY <1>1, NothingGoes
<1>3. BagToSet(queue') \subseteq BagToSet(queue)
  <2>1. IsABag(queue)
    BY DEF ChainInv, TypeOK
  <2>2. CASE \E t \in Teams \cup {NoTeam} : LoseStart(t)
    BY <2>2 DEF LoseStart
  <2>3. ASSUME NEW m \in BagToSet(queue), Duplicate(m)
        PROVE  BagToSet(queue') \subseteq BagToSet(queue)
    <3>1. queue' = queue (+) SetToBag({m})
      BY <2>3 DEF Duplicate
    <3>2. BagToSet(queue (+) SetToBag({m})) = BagToSet(queue) \cup {m}
      BY <2>1, BagPut
    <3> QED BY <3>1, <3>2
  <2>4. ASSUME NEW m \in BagToSet(queue), Park(m)
        PROVE  BagToSet(queue') \subseteq BagToSet(queue)
    <3>1. queue' = queue (-) SetToBag({m})
      BY <2>4 DEF Park
    <3>2. BagToSet(queue (-) SetToBag({m})) \subseteq BagToSet(queue)
      BY <2>1, BagTake
    <3> QED BY <3>1, <3>2
  <2> QED BY <2>2, <2>3, <2>4
<1>4. WorkersDone
  BY <1>1, WorkersRest
<1> QED BY <1>1, <1>2, <1>3, <1>4, DoneStep

\* Every worker's step, and every fault, erases as the promise allows.
LEMMA ChainPurges ==
  ASSUME ChainInv, PromiseInv,
         \/ \E t \in Teams \cup {NoTeam} : SendStart(t) \/ LoseStart(t)
         \/ \E w \in Workers : Work(w) \/ Crash(w)
         \/ \E m \in BagToSet(queue) : Duplicate(m) \/ Park(m)
  PROVE  PromiseInv' /\ Purges
<1>1. ASSUME NEW w \in Workers, Work(w)
      PROVE  PromiseInv' /\ Purges
  BY <1>1, ReceiveDone, ReadFilesDone, EraseThreadDone, ReleaseBytesDone, UnlinkTeamDone,
     UnlinkIssueDone, DeleteIssueDone, FinishIssuesDone, ClearTeamDone, DeleteTeamRowDone,
     SweepWorkspaceDone, SweepIssuesDone, SendDone, AckDone DEF Work
<1>2. ASSUME NEW w \in Workers, Crash(w)
      PROVE  PromiseInv' /\ Purges
  BY <1>2, CrashDone
<1>3. ASSUME NEW t \in Teams \cup {NoTeam}, SendStart(t)
      PROVE  PromiseInv' /\ Purges
  BY <1>3, SendStartDone
<1>4. CASE \/ \E t \in Teams \cup {NoTeam} : LoseStart(t)
           \/ \E m \in BagToSet(queue) : Duplicate(m) \/ Park(m)
  BY <1>4, FaultDone
<1> QED BY <1>1, <1>2, <1>3, <1>4

\* What a step marks: a team, or the whole workspace, and takes nothing away.
Marks ==
  /\ UNCHANGED rows
  /\ \A t \in Teams : /\ team[t] # "live" => team'[t] # "live"
                      /\ team'[t] = "gone" <=> team[t] = "gone"
  /\ workspace # "live" => workspace' # "live"
  /\ workspace' = "gone" <=> workspace = "gone"

\* A purge begins.
LEMMA BeginDone ==
  ASSUME ChainInv, PromiseInv, BeginWorkspacePurge \/ \E t \in Teams : DeleteTeam(t)
  PROVE  PromiseInv' /\ Marks
<1>1. ASSUME NEW t \in Teams, DeleteTeam(t)
      PROVE  PromiseInv' /\ Marks
  <2>1. /\ team'[t] = "deleting" /\ \A u \in Teams : u # t => team'[u] = team[u]
        /\ UNCHANGED <<workspace, rows, queue, worker>> /\ starting' = starting \cup {t}
        /\ team[t] # "gone" /\ workspace # "gone"
    BY <1>1, TypeHalves DEF DeleteTeam, ChainInv, DataTypes
  <2>2. KeepsAll /\ Marks
    BY <2>1 DEF KeepsAll, Marks
  <2>3. Closed'
    <3>1. \A u \in Teams, s \in RowStages : team'[u] = "gone" => Emptied(s, u)'
      BY <2>1, <2>2, EmptiedStays DEF PromiseInv, Closed
    <3> QED BY <2>1, <3>1 DEF Closed
  <2>4. WorkersDone
    BY <2>1, WorkersRest
  <2> QED BY <2>1, <2>2, <2>3, <2>4, DoneStep
<1>2. ASSUME BeginWorkspacePurge
      PROVE  PromiseInv' /\ Marks
  <2>1. /\ UNCHANGED <<team, rows, queue, worker>> /\ starting' = starting \cup {NoTeam}
        /\ workspace # "gone" /\ workspace' = "purging"
    BY <1>2 DEF BeginWorkspacePurge
  <2>2. KeepsAll /\ Marks
    BY <2>1 DEF KeepsAll, Marks
  <2>3. Closed'
    BY <2>1 DEF PromiseInv, Closed, Emptied
  <2>4. WorkersDone /\ NoTeam \notin Teams
    BY <2>1, WorkersRest, TeamsOrder
  <2> QED BY <2>1, <2>2, <2>3, <2>4, DoneStep
<1> QED BY <1>1, <1>2

-----------------------------------------------------------------------------
(* The rows as PurgePromise sees them.                                     *)

\* The rows still there, and those given up, of any data, team rows and workspace row.
LeftOf(there, mark, ws) ==
  (UNION {ItemsOf(s, there[s]) : s \in RowStages})
    \cup {TeamItem(t) : t \in {u \in Teams : mark[u] # "gone"}}
    \cup (IF ws = "gone" THEN {} ELSE {WorkspaceItem})

MarkedOf(mark, ws) ==
  {x \in AllItems : ws # "live" \/ (x # WorkspaceItem /\ mark[x[2]] # "live")}

\* The kinds of row there are.
LEMMA ItemsAre ==
  /\ \A x \in AllItems :
       \/ \E s \in RowStages, t \in Teams, n \in Numbers \cup {0} :
            x = <<s, t, n>> /\ <<t, n>> \in AllRows[s]
       \/ \E t \in Teams : x = TeamItem(t)
       \/ x = WorkspaceItem
  /\ \A x \in DataItems : \E s \in RowStages, t \in Teams, n \in Numbers \cup {0} :
       x = <<s, t, n>> /\ <<t, n>> \in AllRows[s]
<1>1. ASSUME NEW x \in DataItems
      PROVE  \E s \in RowStages, t \in Teams, n \in Numbers \cup {0} :
               x = <<s, t, n>> /\ <<t, n>> \in AllRows[s]
  <2>1. PICK s \in RowStages : x \in ItemsOf(s, AllRows[s])
    BY DEF DataItems
  <2>2. PICK y \in AllRows[s] : x = <<s, y[1], y[2]>>
    BY <2>1 DEF ItemsOf
  <2>3. AllRows[s] \subseteq Teams \X (Numbers \cup {0})
    BY DEF AllRows
  <2>4. y = <<y[1], y[2]>> /\ y[1] \in Teams /\ y[2] \in Numbers \cup {0}
    BY <2>2, <2>3
  <2> QED BY <2>2, <2>4
<1> QED BY <1>1 DEF AllItems

\* Which of them are still there.
LEMMA LeftIs ==
  ASSUME NEW there, NEW mark, NEW ws,
         \A s \in RowStages : there[s] \subseteq Teams \X (Numbers \cup {0})
  PROVE  /\ \A s \in RowStages, t \in Teams, n \in Numbers \cup {0} :
              <<s, t, n>> \in LeftOf(there, mark, ws) <=> <<t, n>> \in there[s]
         /\ \A t \in Teams : TeamItem(t) \in LeftOf(there, mark, ws) <=> mark[t] # "gone"
         /\ WorkspaceItem \in LeftOf(there, mark, ws) <=> ws # "gone"
<1>1. \A x : x \in LeftOf(there, mark, ws) <=>
               \/ \E s \in RowStages : x \in ItemsOf(s, there[s])
               \/ \E t \in Teams : mark[t] # "gone" /\ x = TeamItem(t)
               \/ ws # "gone" /\ x = WorkspaceItem
  <2> SUFFICES ASSUME NEW x
               PROVE  x \in LeftOf(there, mark, ws) <=>
                        \/ \E s \in RowStages : x \in ItemsOf(s, there[s])
                        \/ \E t \in Teams : mark[t] # "gone" /\ x = TeamItem(t)
                        \/ ws # "gone" /\ x = WorkspaceItem
    OBVIOUS
  <2>1. x \in UNION {ItemsOf(s, there[s]) : s \in RowStages}
          <=> \E s \in RowStages : x \in ItemsOf(s, there[s])
    OBVIOUS
  <2>2. x \in {TeamItem(t) : t \in {u \in Teams : mark[u] # "gone"}}
          <=> \E t \in Teams : mark[t] # "gone" /\ x = TeamItem(t)
    OBVIOUS
  <2>3. x \in (IF ws = "gone" THEN {} ELSE {WorkspaceItem}) <=> ws # "gone" /\ x = WorkspaceItem
    OBVIOUS
  <2> QED BY <2>1, <2>2, <2>3 DEF LeftOf
<1>2. ASSUME NEW s \in RowStages, NEW x \in ItemsOf(s, there[s])
      PROVE  \E t \in Teams, n \in Numbers \cup {0} : x = <<s, t, n>> /\ <<t, n>> \in there[s]
  <2>1. PICK y \in there[s] : x = <<s, y[1], y[2]>>
    BY <1>2 DEF ItemsOf
  <2>2. y = <<y[1], y[2]>> /\ y[1] \in Teams /\ y[2] \in Numbers \cup {0}
    BY <2>1
  <2> QED BY <2>1, <2>2
<1>3. /\ \A s \in RowStages : s # "team" /\ s # "workspace"
      /\ \A t : TeamItem(t)[1] = "team" /\ TeamItem(t)[2] = t
      /\ WorkspaceItem[1] = "workspace"
      /\ \A s, t, n : <<s, t, n>>[1] = s /\ <<s, t, n>>[2] = t /\ <<s, t, n>>[3] = n
  BY DEF RowStages, TeamItem, WorkspaceItem
<1>4. ASSUME NEW s \in RowStages, NEW t \in Teams, NEW n \in Numbers \cup {0}
      PROVE  <<s, t, n>> \in LeftOf(there, mark, ws) <=> <<t, n>> \in there[s]
  <2>1. ASSUME <<s, t, n>> \in LeftOf(there, mark, ws)
        PROVE  <<t, n>> \in there[s]
    <3>1. PICK r \in RowStages : <<s, t, n>> \in ItemsOf(r, there[r])
      BY <1>1, <1>3, <2>1
    <3>2. PICK u \in Teams, m \in Numbers \cup {0} :
            <<s, t, n>> = <<r, u, m>> /\ <<u, m>> \in there[r]
      BY <1>2, <3>1
    <3> QED BY <3>2
  <2>2. ASSUME <<t, n>> \in there[s]
        PROVE  <<s, t, n>> \in LeftOf(there, mark, ws)
    <3>1. <<s, t, n>> = <<s, <<t, n>>[1], <<t, n>>[2]>>
      OBVIOUS
    <3>2. <<s, t, n>> \in ItemsOf(s, there[s])
      BY <2>2, <3>1 DEF ItemsOf
    <3> QED BY <1>1, <3>2
  <2> QED BY <2>1, <2>2
<1>5. ASSUME NEW t \in Teams
      PROVE  TeamItem(t) \in LeftOf(there, mark, ws) <=> mark[t] # "gone"
  <2>1. ASSUME NEW s \in RowStages
        PROVE  TeamItem(t) \notin ItemsOf(s, there[s])
    <3>1. ASSUME NEW x \in ItemsOf(s, there[s])
          PROVE  x[1] = s
      <4>1. PICK u \in Teams, n \in Numbers \cup {0} : x = <<s, u, n>>
        BY <1>2
      <4> QED BY <4>1
    <3> QED BY <1>3, <3>1
  <2>2. TeamItem(t) # WorkspaceItem
    BY <1>3
  <2> QED BY <1>1, <1>3, <2>1, <2>2
<1>6. WorkspaceItem \in LeftOf(there, mark, ws) <=> ws # "gone"
  <2>1. ASSUME NEW s \in RowStages
        PROVE  WorkspaceItem \notin ItemsOf(s, there[s])
    <3>1. ASSUME NEW x \in ItemsOf(s, there[s])
          PROVE  x[1] = s
      <4>1. PICK u \in Teams, n \in Numbers \cup {0} : x = <<s, u, n>>
        BY <1>2
      <4> QED BY <4>1
    <3> QED BY <1>3, <3>1
  <2>2. \A t \in Teams : TeamItem(t) # WorkspaceItem
    BY <1>3
  <2> QED BY <1>1, <2>1, <2>2
<1> QED BY <1>4, <1>5, <1>6

\* Only rows there were are still there.
LEMMA LeftAreItems ==
  ASSUME NEW there, NEW mark, NEW ws, \A s \in RowStages : there[s] \subseteq AllRows[s]
  PROVE  LeftOf(there, mark, ws) \subseteq AllItems
<1>1. \A s \in RowStages : ItemsOf(s, there[s]) \subseteq ItemsOf(s, AllRows[s])
  BY DEF ItemsOf
<1>2. UNION {ItemsOf(s, there[s]) : s \in RowStages} \subseteq DataItems
  BY <1>1 DEF DataItems
<1>3. {TeamItem(t) : t \in {u \in Teams : mark[u] # "gone"}} \subseteq {TeamItem(t) : t \in Teams}
  OBVIOUS
<1>4. (IF ws = "gone" THEN {} ELSE {WorkspaceItem}) \subseteq {WorkspaceItem}
  OBVIOUS
<1> QED BY <1>2, <1>3, <1>4 DEF LeftOf, AllItems

\* The refinement mapping is these.
LEMMA Mapping ==
  /\ Promise!Init <=> MarkedOf(team, workspace) = {} /\ LeftOf(rows, team, workspace) = AllItems
  /\ Promise!Mark <=>
       /\ MarkedOf(team, workspace) \subseteq MarkedOf(team', workspace')
       /\ MarkedOf(team', workspace') \subseteq AllItems
       /\ LeftOf(rows', team', workspace') = LeftOf(rows, team, workspace)
  /\ Promise!Erase <=>
       /\ LeftOf(rows', team', workspace') \subseteq LeftOf(rows, team, workspace)
       /\ LeftOf(rows, team, workspace) \ LeftOf(rows', team', workspace')
            \subseteq MarkedOf(team, workspace)
       /\ \A n \in FoundThrough :
            n[1] \in LeftOf(rows', team', workspace') => n[2] \in LeftOf(rows', team', workspace')
       /\ MarkedOf(team', workspace') = MarkedOf(team, workspace)
  BY DEF Promise!Init, Promise!Mark, Promise!Erase, MarkedOf, LeftOf, TeamRows

\* The chain starts where the promise does.
LEMMA PromiseStarts ==
  ASSUME Init
  PROVE  Promise!Init /\ PromiseInv
<1>1. LeftOf(rows, team, workspace) = AllItems
  <2>1. {u \in Teams : team[u] # "gone"} = Teams
    BY DEF Init
  <2>2. (UNION {ItemsOf(s, rows[s]) : s \in RowStages}) = DataItems
    BY DEF Init, DataItems
  <2>3. workspace # "gone"
    BY DEF Init
  <2> QED BY <2>1, <2>2, <2>3 DEF LeftOf, AllItems
<1>2. MarkedOf(team, workspace) = {}
  <2>1. ASSUME NEW x \in AllItems, x # WorkspaceItem
        PROVE  x[2] \in Teams
    <3>1. CASE \E s \in RowStages, t \in Teams, n \in Numbers \cup {0} :
                 x = <<s, t, n>> /\ <<t, n>> \in AllRows[s]
      BY <3>1
    <3>2. CASE \E t \in Teams : x = TeamItem(t)
      BY <3>2 DEF TeamItem
    <3> QED BY <2>1, <3>1, <3>2, ItemsAre
  <2>2. workspace = "live" /\ \A t \in Teams : team[t] = "live"
    BY DEF Init
  <2> QED BY <2>1, <2>2 DEF MarkedOf
<1>3. PromiseInv
  <2>1. BagToSet(queue) = {} /\ starting = {}
    BY DEF Init, EmptyBag, BagToSet, SetToBag
  <2>2. \A w \in Workers : WorkDone(w) /\ HeldDone(w)
    BY DEF Init, WorkDone, HeldDone, InTeam
  <2>3. Closed
    BY DEF Init, Closed
  <2> QED BY <2>1, <2>2, <2>3 DEF PromiseInv
<1> QED BY <1>1, <1>2, <1>3, Mapping

\* What is left is closed under what it is found through.
LEMMA ClosedUnder ==
  ASSUME NEW there, NEW mark, NEW ws,
         \A s \in RowStages : there[s] \subseteq AllRows[s],
         \A s \in RowStages, t \in Teams, n \in Numbers \cup {0} :
           <<t, n>> \in there[s] => mark[t] # "gone",
         \A t \in Teams : mark[t] # "gone" => ws # "gone",
         \A t \in Teams, n \in Numbers :
           <<t, n>> \in there["discussion"] \cup there["integrations"] => <<t, n>> \in there["issues"],
         NEW need \in FoundThrough, need[1] \in LeftOf(there, mark, ws)
  PROVE  need[2] \in LeftOf(there, mark, ws)
<1> DEFINE left == LeftOf(there, mark, ws)
<1>1. /\ \A s \in RowStages, t \in Teams, n \in Numbers \cup {0} :
           <<s, t, n>> \in left <=> <<t, n>> \in there[s]
      /\ \A t \in Teams : TeamItem(t) \in left <=> mark[t] # "gone"
      /\ WorkspaceItem \in left <=> ws # "gone"
  <2>1. \A s \in RowStages : there[s] \subseteq Teams \X (Numbers \cup {0})
    BY DEF AllRows
  <2> QED BY <2>1, LeftIs
<1> HIDE DEF left
<1>2. need[1] \in left
  BY DEF left
<1>3. ASSUME NEW x \in DataItems, x \in left
      PROVE  /\ TeamItem(x[2]) \in left
             /\ x[3] # 0 => <<"issues", x[2], x[3]>> \in left
  <2>1. PICK s \in RowStages, t \in Teams, n \in Numbers \cup {0} :
          x = <<s, t, n>> /\ <<t, n>> \in AllRows[s]
    BY ItemsAre
  <2>2. x[2] = t /\ x[3] = n /\ <<t, n>> \in there[s]
    BY <1>1, <1>3, <2>1
  <2>3. TeamItem(t) \in left
    BY <1>1, <2>2
  <2>4. ASSUME n # 0
        PROVE  <<"issues", t, n>> \in left
    <3>1. n \in Numbers /\ s \in ByIssue
      BY <2>1, <2>4 DEF AllRows
    <3>2. <<t, n>> \in there["issues"]
      BY <2>2, <3>1 DEF ByIssue
    <3>3. "issues" \in RowStages
      BY DEF RowStages
    <3> QED BY <1>1, <3>2, <3>3
  <2> QED BY <2>2, <2>3, <2>4
<1>4. CASE need \in {<<x, TeamItem(x[2])>> : x \in DataItems}
  <2>1. PICK x \in DataItems : need = <<x, TeamItem(x[2])>>
    BY <1>4
  <2>2. need[1] = x /\ need[2] = TeamItem(x[2])
    BY <2>1
  <2> QED BY <1>2, <1>3, <2>2 DEF left
<1>5. CASE need \in {<<x, <<"issues", x[2], x[3]>>>> : x \in {y \in DataItems : y[3] # 0}}
  <2>1. PICK x \in DataItems : x[3] # 0 /\ need = <<x, <<"issues", x[2], x[3]>>>>
    BY <1>5
  <2>2. need[1] = x /\ need[2] = <<"issues", x[2], x[3]>>
    BY <2>1
  <2> QED BY <1>2, <1>3, <2>1, <2>2 DEF left
<1>6. CASE need \in {<<TeamItem(t), WorkspaceItem>> : t \in Teams}
  <2>1. PICK t \in Teams : need = <<TeamItem(t), WorkspaceItem>>
    BY <1>6
  <2>2. need[1] = TeamItem(t) /\ need[2] = WorkspaceItem
    BY <2>1
  <2> QED BY <1>1, <1>2, <2>2 DEF left
<1> QED BY <1>4, <1>5, <1>6 DEF FoundThrough

\* A step that purges erases as the promise allows.
LEMMA Erases ==
  ASSUME ChainInv, Purges, ChainInv', PromiseInv'
  PROVE  Promise!Erase
<1>1. /\ \A s \in RowStages : rows[s] \subseteq AllRows[s] /\ rows'[s] \subseteq AllRows[s]
      /\ \A s \in RowStages : rows'[s] \subseteq rows[s]
  BY DEF ChainInv, TypeOK, Purges, KeepsAll
<1>2. \A s \in RowStages : AllRows[s] \subseteq Teams \X (Numbers \cup {0})
  BY DEF AllRows
<1>3. PICK there, there2, mark, mark2, ws, ws2 :
        /\ there = rows /\ there2 = rows' /\ mark = team /\ mark2 = team'
        /\ ws = workspace /\ ws2 = workspace'
  OBVIOUS
<1>4. /\ \A s \in RowStages, t \in Teams, n \in Numbers \cup {0} :
           <<s, t, n>> \in LeftOf(there, mark, ws) <=> <<t, n>> \in there[s]
      /\ \A t \in Teams : TeamItem(t) \in LeftOf(there, mark, ws) <=> mark[t] # "gone"
      /\ WorkspaceItem \in LeftOf(there, mark, ws) <=> ws # "gone"
  BY <1>1, <1>2, <1>3, LeftIs
<1>5. /\ \A s \in RowStages, t \in Teams, n \in Numbers \cup {0} :
           <<s, t, n>> \in LeftOf(there2, mark2, ws2) <=> <<t, n>> \in there2[s]
      /\ \A t \in Teams : TeamItem(t) \in LeftOf(there2, mark2, ws2) <=> mark2[t] # "gone"
      /\ WorkspaceItem \in LeftOf(there2, mark2, ws2) <=> ws2 # "gone"
  BY <1>1, <1>2, <1>3, LeftIs
<1>6. LeftOf(there, mark, ws) \subseteq AllItems /\ LeftOf(there2, mark2, ws2) \subseteq AllItems
  BY <1>1, <1>3, LeftAreItems
<1>7. ASSUME NEW x \in LeftOf(there2, mark2, ws2)
      PROVE  x \in LeftOf(there, mark, ws)
  <2>1. CASE \E s \in RowStages, t \in Teams, n \in Numbers \cup {0} :
               x = <<s, t, n>> /\ <<t, n>> \in AllRows[s]
    BY <1>1, <1>3, <1>4, <1>5, <1>7, <2>1
  <2>2. CASE \E t \in Teams : x = TeamItem(t)
    BY <1>3, <1>4, <1>5, <1>7, <2>2 DEF Purges, KeepsAll
  <2>3. CASE x = WorkspaceItem
    BY <1>3, <1>4, <1>5, <1>7, <2>3 DEF Purges
  <2> QED BY <1>6, <1>7, <2>1, <2>2, <2>3, ItemsAre
<1>8. ASSUME NEW x \in LeftOf(there, mark, ws), x \notin LeftOf(there2, mark2, ws2)
      PROVE  x \in MarkedOf(mark, ws)
  <2>1. x # WorkspaceItem => x[2] \in Teams /\ (ws # "live" \/ mark[x[2]] # "live")
    <3>1. CASE \E s \in RowStages, t \in Teams, n \in Numbers \cup {0} :
                 x = <<s, t, n>> /\ <<t, n>> \in AllRows[s]
      <4>1. PICK s \in RowStages, t \in Teams, n \in Numbers \cup {0} : x = <<s, t, n>>
        BY <3>1
      <4>2. <<t, n>> \in there[s] \ there2[s] /\ x[2] = t
        BY <1>4, <1>5, <1>8, <4>1
      <4> QED BY <1>3, <4>2 DEF Purges
    <3>2. CASE \E t \in Teams : x = TeamItem(t)
      <4>1. PICK t \in Teams : x = TeamItem(t)
        BY <3>2
      <4>2. x[2] = t /\ mark2[t] = "gone"
        BY <1>5, <1>8, <4>1 DEF TeamItem
      <4> QED BY <1>3, <4>2 DEF Purges
    <3> QED BY <1>6, <1>8, <3>1, <3>2, ItemsAre
  <2>2. x = WorkspaceItem => ws # "live"
    BY <1>3, <1>5, <1>8 DEF Purges
  <2>3. x \in AllItems
    BY <1>6, <1>8
  <2> QED BY <2>1, <2>2, <2>3 DEF MarkedOf
<1>9. ASSUME NEW need \in FoundThrough, need[1] \in LeftOf(there2, mark2, ws2)
      PROVE  need[2] \in LeftOf(there2, mark2, ws2)
  <2>1. ASSUME NEW s \in RowStages, NEW t \in Teams, NEW n \in Numbers \cup {0},
               <<t, n>> \in there2[s]
        PROVE  mark2[t] # "gone"
    BY <1>3, <2>1 DEF PromiseInv, Closed, Emptied, RowStages
  <2>2. \A t \in Teams : mark2[t] # "gone" => ws2 # "gone"
    BY <1>3 DEF PromiseInv, Closed
  <2>3. \A t \in Teams, n \in Numbers :
          <<t, n>> \in there2["discussion"] \cup there2["integrations"] => <<t, n>> \in there2["issues"]
    BY <1>3 DEF ChainInv, ThreadsBeforeIssues
  <2>4. \A s \in RowStages : there2[s] \subseteq AllRows[s]
    BY <1>1, <1>3
  <2> QED BY <1>9, <2>1, <2>2, <2>3, <2>4, ClosedUnder
<1>10. MarkedOf(mark2, ws2) = MarkedOf(mark, ws)
  <2>1. ASSUME NEW x \in AllItems, x # WorkspaceItem, ws = "live"
        PROVE  mark2[x[2]] # "live" <=> mark[x[2]] # "live"
    <3>1. x[2] \in Teams
      <4>1. CASE \E s \in RowStages, t \in Teams, n \in Numbers \cup {0} :
                   x = <<s, t, n>> /\ <<t, n>> \in AllRows[s]
        BY <4>1
      <4>2. CASE \E t \in Teams : x = TeamItem(t)
        BY <4>2 DEF TeamItem
      <4> QED BY <2>1, <4>1, <4>2, ItemsAre
    <3> QED BY <1>3, <2>1, <3>1 DEF Purges
  <2>2. ws = "live" <=> ws2 = "live"
    BY <1>3 DEF Purges
  <2> QED BY <2>1, <2>2 DEF MarkedOf
<1> QED BY <1>3, <1>7, <1>8, <1>9, <1>10, Mapping

\* A step that marks marks as the promise allows.
LEMMA MarksMore ==
  ASSUME Marks
  PROVE  Promise!Mark
<1>1. {u \in Teams : team'[u] # "gone"} = {u \in Teams : team[u] # "gone"}
  BY DEF Marks
<1>2. LeftOf(rows', team', workspace') = LeftOf(rows, team, workspace)
  BY <1>1 DEF LeftOf, Marks
<1>3. ASSUME NEW x \in MarkedOf(team, workspace)
      PROVE  x \in MarkedOf(team', workspace')
  <2>1. x \in AllItems /\ (workspace # "live" \/ (x # WorkspaceItem /\ team[x[2]] # "live"))
    BY <1>3 DEF MarkedOf
  <2>2. x # WorkspaceItem => x[2] \in Teams
    <3>1. CASE \E s \in RowStages, t \in Teams, n \in Numbers \cup {0} :
                 x = <<s, t, n>> /\ <<t, n>> \in AllRows[s]
      BY <3>1
    <3>2. CASE \E t \in Teams : x = TeamItem(t)
      BY <3>2 DEF TeamItem
    <3> QED BY <2>1, <3>1, <3>2, ItemsAre
  <2> QED BY <2>1, <2>2 DEF MarkedOf, Marks
<1>4. MarkedOf(team', workspace') \subseteq AllItems
  BY DEF MarkedOf
<1> QED BY <1>2, <1>3, <1>4, Mapping

\* Every step of the chain is one of the promise's, while no workspace's purge may begin
\* over a team's.
LEMMA PromiseSteps ==
  ASSUME Overlap = FALSE, ChainInv, PromiseInv, [Next]_vars
  PROVE  PromiseInv' /\ (Promise!Mark \/ Promise!Erase)
<1>1. ChainInv'
  BY ChainSteps
<1>2. CASE BeginWorkspacePurge \/ \E t \in Teams : DeleteTeam(t)
  BY <1>2, BeginDone, MarksMore
<1>3. CASE \/ \E t \in Teams \cup {NoTeam} : SendStart(t) \/ LoseStart(t)
           \/ \E w \in Workers : Work(w) \/ Crash(w)
           \/ \E m \in BagToSet(queue) : Duplicate(m) \/ Park(m)
  <2>1. PromiseInv' /\ Purges
    BY <1>3, ChainPurges
  <2> QED BY <1>1, <2>1, Erases
<1>4. CASE UNCHANGED vars
  <2>1. UNCHANGED <<workspace, team, rows, starting, queue, worker>>
    BY <1>4 DEF vars, data
  <2>2. KeepsAll /\ Purges /\ Closed' /\ WorkersDone
    BY <2>1, NothingGoes, WorkersRest
  <2>3. PromiseInv'
    BY <2>1, <2>2, DoneStep
  <2> QED BY <1>1, <2>2, <2>3, Erases
<1> QED BY <1>2, <1>3, <1>4 DEF Next

\* The chain keeps its promise, whatever the teams, their issues and the workers are and
\* whatever crashes, is lost, delivered twice, parked or started over: rows go only under
\* a mark, nothing comes back, and no row goes before the rows it is found or authorised
\* through. Holds while no workspace's purge begins over a team's.
THEOREM ChainKeepsPromise ==
  ASSUME Overlap = FALSE
  PROVE  Spec => KeepsPromise
<1>1. Init => ChainInv /\ PromiseInv /\ Promise!Init
  BY ChainStarts, PromiseStarts
<1>2. /\ ChainInv /\ PromiseInv /\ [Next]_vars
      => ChainInv' /\ PromiseInv' /\ (Promise!Mark \/ Promise!Erase)
  BY ChainSteps, PromiseSteps
<1> QED BY <1>1, <1>2, PTL DEF Spec, KeepsPromise, Promise!Spec

=============================================================================
