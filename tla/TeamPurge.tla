------------------------------ MODULE TeamPurge ------------------------------
(***************************************************************************)
(* The purge chain of common/team_purge.py over one workspace: a deleted   *)
(* team, or the whole workspace, handed from queue to queue, one domain    *)
(* deleting its rows at each stage (domains/*/consumers/purge.py).         *)
(*                                                                         *)
(* A worker's every delete is a step of its own.  The queue hides a        *)
(* message for longer than the worker that took it may run, so a crash     *)
(* brings it back, and only a copy of it can be at work beside it: one the *)
(* queue delivered twice, or one from the same chain started over.         *)
(***************************************************************************)
EXTENDS Integers, Sequences, FiniteSets, Bags, SequencesExt, FiniteSetsExt

CONSTANTS
  Teams,     \* team ids, in the order list_team_ids sorts them
  Numbers,   \* the issue numbers each team uses
  Workers,   \* the purge consumers' concurrent invocations
  REST,      \* the team cursor that sorts after every team id
  Starts,    \* which purges are started: "team", "workspace"
  Overlap,   \* whether a workspace's purge may start over a team's
  AGAIN,     \* bound: chains started over one that still runs
  FAULTS     \* bound: crashes, lost starts, duplicated and parked messages

ASSUME PurgeAssumption ==
  /\ IsFiniteSet(Teams) /\ Teams \subseteq Nat \ {0}
  /\ IsFiniteSet(Numbers) /\ Numbers \subseteq Nat \ {0}
  /\ REST \in Nat /\ \A t \in Teams : t < REST
  /\ Starts \subseteq {"team", "workspace"}
  /\ Overlap \in BOOLEAN
  /\ AGAIN \in Nat /\ FAULTS \in Nat

\* Variants: the team rows before the issues filed under them; the issues before
\* the links found through them.
StagesTeamsEarly == <<"discussion", "integrations", "views", "planning", "teams", "issues">>

StagesIssuesEarly == <<"discussion", "issues", "integrations", "views", "planning", "teams">>

\* The order is fixed: what is found through the issues, then they, then the teams.
STAGES == <<"discussion", "integrations", "views", "planning", "issues", "teams">>

\* The chain each kind of purge runs through.
Chain(kind) == IF kind = "team" THEN STAGES ELSE Append(STAGES, "workspaces")

\* What each domain deletes: the stages whose rows belong to an issue, and those
\* with rows of the team itself, numbered 0.
RowStages == {"discussion", "integrations", "views", "planning", "issues"}

ByIssue == {"discussion", "integrations", "issues"}

ByTeam == {"integrations", "views", "planning"}

\* The team a job names: none yet, one, or REST once every team is done.
NoTeam == 0

None == [kind |-> "none"]

JobType == [kind : {"team", "workspace"}, team : Teams \cup {NoTeam, REST},
            stage : Range(Chain("workspace")), cursor : Numbers \cup {0}]

VARIABLES
  workspace,  \* "live", "purging" once its mark is on the row, "gone"
  team,       \* each team row: "live", "deleting" once tombstoned, "gone"
  rows,       \* the rows each domain still holds
  stored,     \* the workspace's storage counter, in files
  starting,   \* the purges marked whose first message is not yet sent
  queue,      \* the messages on the stages' queues
  job,        \* the message each worker holds
  pc,
  todo,       \* the teams it has still to do, as it read them
  at, cursor, \* the team it is in, and how far
  files,      \* the files it read for the issue in hand
  out,        \* the message it is to send
  again, faults

data   == <<workspace, team, rows, stored>>
worker == <<job, pc, todo, at, cursor, files, out>>
vars   == <<data, starting, queue, worker, again, faults>>

AllRows ==
  [s \in RowStages |-> (IF s \in ByIssue THEN Teams \X Numbers ELSE {})
                         \cup (IF s \in ByTeam THEN Teams \X {0} ELSE {})]

TypeOK ==
  /\ workspace \in {"live", "purging", "gone"}
  /\ team \in [Teams -> {"live", "deleting", "gone"}]
  /\ rows \in [RowStages -> SUBSET (Teams \X (Numbers \cup {0}))]
  /\ \A s \in RowStages : rows[s] \subseteq AllRows[s]
  /\ stored \in Int
  /\ starting \subseteq Teams \cup {NoTeam}
  /\ IsABag(queue) /\ BagToSet(queue) \subseteq JobType
  /\ job \in [Workers -> JobType \cup {None}]
  /\ pc \in [Workers -> {"idle", "head", "work", "erase", "release", "rest", "send", "ack"}]
  /\ todo \in [Workers -> SUBSET Teams]
  /\ at \in [Workers -> Teams \cup {NoTeam}]
  /\ cursor \in [Workers -> Numbers \cup {0}]
  /\ files \in [Workers -> {0, 1}]
  /\ out \in [Workers -> JobType \cup {None}]
  /\ again \in 0..AGAIN /\ faults \in 0..FAULTS

\* Every issue has a thread with one file, and links.
Init ==
  /\ workspace = "live"
  /\ team = [t \in Teams |-> "live"]
  /\ rows = AllRows
  /\ stored = Cardinality(AllRows["discussion"])
  /\ starting = {} /\ queue = EmptyBag
  /\ job = [w \in Workers |-> None]
  /\ pc = [w \in Workers |-> "idle"]
  /\ todo = [w \in Workers |-> {}]
  /\ at = [w \in Workers |-> NoTeam]
  /\ cursor = [w \in Workers |-> 0]
  /\ files = [w \in Workers |-> 0]
  /\ out = [w \in Workers |-> None]
  /\ again = 0 /\ faults = 0

-----------------------------------------------------------------------------
(* Starting a chain.                                                       *)

\* The chain's jobs, wherever they are.
JobsOf(kind, t) ==
  {j \in BagToSet(queue) \cup {job[w] : w \in Workers} \cup {out[w] : w \in Workers} :
     j.kind = kind /\ (kind = "workspace" \/ j.team = t)}

Quiet(kind, t) == JobsOf(kind, t) = {} /\ (IF kind = "team" THEN t ELSE NoTeam) \notin starting

\* A chain that still runs is started again at most AGAIN times.
StartAgain(kind, t) ==
  \/ Quiet(kind, t) /\ UNCHANGED again
  \/ ~Quiet(kind, t) /\ again < AGAIN /\ again' = again + 1

\* delete_team: the tombstone, or a repeat of it while the team still purges.
DeleteTeam(t) ==
  /\ "team" \in Starts
  /\ workspace = "live"
  /\ team[t] \in {"live", "deleting"}
  /\ IF team[t] = "live" THEN UNCHANGED again ELSE StartAgain("team", t)
  /\ team' = [team EXCEPT ![t] = "deleting"]
  /\ starting' = starting \cup {t}
  /\ UNCHANGED <<workspace, rows, stored, queue, worker, faults>>

\* Variant: a purge that stopped on the way is never started again.
BeginWorkspacePurgeOnce ==
  /\ "workspace" \in Starts
  /\ workspace = "live" /\ UNCHANGED again
  /\ Overlap \/ \A t \in Teams : team[t] # "deleting"
  /\ workspace' = "purging"
  /\ starting' = starting \cup {NoTeam}
  /\ UNCHANGED <<team, rows, stored, queue, worker, faults>>

\* begin_workspace_purge, by the sweep: a due workspace, or one whose purge
\* began longer than STALE_PURGE ago, however far it has got.
BeginWorkspacePurge ==
  /\ "workspace" \in Starts
  /\ \/ /\ workspace = "live" /\ UNCHANGED again
        /\ Overlap \/ \A t \in Teams : team[t] # "deleting"
     \/ workspace = "purging" /\ StartAgain("workspace", NoTeam)
  /\ workspace' = "purging"
  /\ starting' = starting \cup {NoTeam}
  /\ UNCHANGED <<team, rows, stored, queue, worker, faults>>

FirstJob(t) ==
  [kind |-> IF t = NoTeam THEN "workspace" ELSE "team", team |-> t, stage |-> STAGES[1], cursor |-> 0]

\* start, start_workspace: the send that ends either.
SendStart(t) ==
  /\ t \in starting
  /\ starting' = starting \ {t}
  /\ queue' = queue (+) SetToBag({FirstJob(t)})
  /\ UNCHANGED <<data, worker, again, faults>>

Fault == faults < FAULTS /\ faults' = faults + 1

\* The function died between the mark and the send.
LoseStart(t) ==
  /\ t \in starting /\ Fault
  /\ starting' = starting \ {t}
  /\ UNCHANGED <<data, queue, worker, again>>

-----------------------------------------------------------------------------
(* handle_record.                                                          *)

\* The purge mark is the only authority for deleting anything.
Authorised(j) == IF j.kind = "team" THEN team[j.team] = "deleting" ELSE workspace = "purging"

\* list_team_ids: every team row there is, tombstoned or not.
TeamRows == {t \in Teams : team[t] # "gone"}

HasTeamStep(stage) == stage # "workspaces"

\* Variant: the team's own integrations are never visited.
ResumePastHead(w, j, t, later, c) ==
  /\ at' = [at EXCEPT ![w] = t]
  /\ todo' = [todo EXCEPT ![w] = later]
  /\ cursor' = [cursor EXCEPT ![w] = c]
  /\ pc' = [pc EXCEPT ![w] = IF t = NoTeam THEN "rest" ELSE "work"]

\* A worker with a job goes on at team t, from cursor c.
Resume(w, j, t, later, c) ==
  /\ at' = [at EXCEPT ![w] = t]
  /\ todo' = [todo EXCEPT ![w] = later]
  /\ cursor' = [cursor EXCEPT ![w] = c]
  /\ pc' = [pc EXCEPT ![w] = IF t = NoTeam THEN "rest"
                             ELSE IF j.stage = "integrations" /\ j.kind = "team" /\ c = 0
                             THEN "head" ELSE "work"]

\* _run_workspace reads the teams from the job's on, and takes the cursor up in
\* the first of them.
TakeUp(w, m) ==
  LET pending == {t \in TeamRows : t >= m.team} IN
  IF m.kind = "team" THEN Resume(w, m, m.team, {}, m.cursor)
  ELSE IF m.team # REST /\ HasTeamStep(m.stage) /\ pending # {}
  THEN Resume(w, m, Min(pending), pending \ {Min(pending)}, m.cursor)
  ELSE Resume(w, m, NoTeam, {}, 0)

Receive(w, m) ==
  /\ pc[w] = "idle"
  /\ queue' = queue (-) SetToBag({m})
  /\ IF Authorised(m)
     THEN job' = [job EXCEPT ![w] = m] /\ TakeUp(w, m)
     ELSE UNCHANGED <<job, pc, todo, at, cursor>>
  /\ UNCHANGED <<data, starting, files, out, again, faults>>

Sending(w, m) == pc' = [pc EXCEPT ![w] = "send"] /\ out' = [out EXCEPT ![w] = m]

\* Variant: the next stage is entered with the last one's cursor.
HandOnKeepsCursor(w) ==
  LET j == job[w]
      chain == Chain(j.kind)
      i == CHOOSE k \in DOMAIN chain : chain[k] = j.stage
  IN Sending(w, IF i = Len(chain) THEN None
                ELSE [j EXCEPT !.stage = chain[i + 1],
                               !.team = IF j.kind = "team" THEN @ ELSE NoTeam])

\* _hand_on: the next stage of the chain from the top, or the chain's end.
HandOn(w) ==
  LET j == job[w]
      chain == Chain(j.kind)
      i == CHOOSE k \in DOMAIN chain : chain[k] = j.stage
  IN Sending(w, IF i = Len(chain) THEN None
                ELSE [j EXCEPT !.stage = chain[i + 1], !.cursor = 0,
                               !.team = IF j.kind = "team" THEN @ ELSE NoTeam])

\* Variant: past the deadline the teams still to do are left out.
TeamDoneToRest(w) ==
  LET next == IF todo[w] = {} THEN NoTeam ELSE Min(todo[w]) IN
  \/ job[w].kind = "team" /\ HandOn(w) /\ UNCHANGED <<at, todo, cursor>>
  \/ job[w].kind = "workspace" /\ Resume(w, job[w], next, todo[w] \ {next}, 0) /\ UNCHANGED out
  \/ /\ job[w].kind = "workspace"
     /\ Sending(w, [job[w] EXCEPT !.team = REST, !.cursor = 0])
     /\ UNCHANGED <<at, todo, cursor>>

\* The stage is done with the team in hand: a team's chain moves on, a
\* workspace's goes to its next team, in this message or, past the deadline,
\* in the next.
TeamDone(w) ==
  LET next == IF todo[w] = {} THEN NoTeam ELSE Min(todo[w]) IN
  \/ job[w].kind = "team" /\ HandOn(w) /\ UNCHANGED <<at, todo, cursor>>
  \/ job[w].kind = "workspace" /\ Resume(w, job[w], next, todo[w] \ {next}, 0) /\ UNCHANGED out
  \/ /\ job[w].kind = "workspace"
     /\ Sending(w, [job[w] EXCEPT !.team = IF next = NoTeam THEN REST ELSE next, !.cursor = 0])
     /\ UNCHANGED <<at, todo, cursor>>

\* Variant: past the deadline the resume is numbered from the next issue on.
StepOnNext(w, c) ==
  \/ pc' = [pc EXCEPT ![w] = "work"] /\ cursor' = [cursor EXCEPT ![w] = c] /\ UNCHANGED out
  \/ Sending(w, [job[w] EXCEPT !.team = at[w], !.cursor = c + 1]) /\ UNCHANGED cursor

\* An issue is done: on to the next past cursor c, or past the deadline a fresh
\* message resumes there.
StepOn(w, c) ==
  \/ pc' = [pc EXCEPT ![w] = "work"] /\ cursor' = [cursor EXCEPT ![w] = c] /\ UNCHANGED out
  \/ Sending(w, [job[w] EXCEPT !.team = at[w], !.cursor = c]) /\ UNCHANGED cursor

\* page_with_trash_after: the team's issues past the cursor, lowest first.
Ahead(w) == {n \in Numbers : n > cursor[w] /\ <<at[w], n>> \in rows["issues"]}

InHand(w) == <<at[w], Min(Ahead(w))>>

Working(w, stage) == pc[w] = "work" /\ job[w].stage = stage

\* Variant: the bytes given back before the rows are deleted.
ReadFilesReleasing(w) ==
  /\ Working(w, "discussion") /\ Ahead(w) # {}
  /\ stored' = stored - (IF InHand(w) \in rows["discussion"] THEN 1 ELSE 0)
  /\ cursor' = [cursor EXCEPT ![w] = InHand(w)[2]]
  /\ pc' = [pc EXCEPT ![w] = "erase"]
  /\ UNCHANGED <<workspace, team, rows, starting, queue, job, todo, at, files, out, again, faults>>

\* The discussion's purge_issue: reads the attachments ...
ReadFiles(w) ==
  /\ Working(w, "discussion") /\ Ahead(w) # {}
  /\ files' = [files EXCEPT ![w] = IF InHand(w) \in rows["discussion"] THEN 1 ELSE 0]
  /\ cursor' = [cursor EXCEPT ![w] = InHand(w)[2]]
  /\ pc' = [pc EXCEPT ![w] = "erase"]
  /\ UNCHANGED <<data, starting, queue, job, todo, at, out, again, faults>>

\* ... deletes the thread and them ...
EraseThread(w) ==
  /\ pc[w] = "erase"
  /\ rows' = [rows EXCEPT !["discussion"] = @ \ {<<at[w], cursor[w]>>}]
  /\ pc' = [pc EXCEPT ![w] = "release"]
  /\ UNCHANGED <<workspace, team, stored, starting, queue, job, todo, at, cursor, files, out,
                 again, faults>>

\* ... and gives their bytes back.
ReleaseBytes(w) ==
  /\ pc[w] = "release"
  /\ stored' = stored - files[w]
  /\ StepOn(w, cursor[w])
  /\ files' = [files EXCEPT ![w] = 0]
  /\ UNCHANGED <<workspace, team, rows, starting, queue, job, todo, at, again, faults>>

\* The team's own integrations, before its issues' and only from the top.
UnlinkTeam(w) ==
  /\ pc[w] = "head"
  /\ rows' = [rows EXCEPT !["integrations"] = @ \ {<<at[w], 0>>}]
  /\ pc' = [pc EXCEPT ![w] = "work"]
  /\ UNCHANGED <<workspace, team, stored, starting, queue, job, todo, at, cursor, files, out,
                 again, faults>>

UnlinkIssue(w) ==
  /\ Working(w, "integrations") /\ Ahead(w) # {}
  /\ rows' = [rows EXCEPT !["integrations"] = @ \ {InHand(w)}]
  /\ StepOn(w, InHand(w)[2])
  /\ UNCHANGED <<workspace, team, stored, starting, queue, job, todo, at, files, again, faults>>

\* The issues stage always pages from 0.
DeleteIssue(w) ==
  /\ Working(w, "issues") /\ Ahead(w) # {}
  /\ rows' = [rows EXCEPT !["issues"] = @ \ {InHand(w)}]
  /\ StepOn(w, 0)
  /\ UNCHANGED <<workspace, team, stored, starting, queue, job, todo, at, files, again, faults>>

FinishIssues(w) ==
  /\ pc[w] = "work" /\ job[w].stage \in ByIssue /\ Ahead(w) = {}
  /\ TeamDone(w)
  /\ UNCHANGED <<data, starting, queue, job, files, again, faults>>

\* The views and the planning rows of one team.
ClearTeam(w) ==
  /\ pc[w] = "work" /\ job[w].stage \in {"views", "planning"}
  /\ rows' = [rows EXCEPT ![job[w].stage] = @ \ {<<at[w], 0>>}]
  /\ TeamDone(w)
  /\ UNCHANGED <<workspace, team, stored, starting, queue, job, files, again, faults>>

\* The team row: only while tombstoned, or outright in a workspace's purge.
DeleteTeamRow(w) ==
  /\ Working(w, "teams")
  /\ team' = [team EXCEPT ![at[w]] =
                IF job[w].kind = "workspace" \/ @ = "deleting" THEN "gone" ELSE @]
  /\ TeamDone(w)
  /\ UNCHANGED <<workspace, rows, stored, starting, queue, job, files, again, faults>>

\* The whole-workspace steps; the discussion has none.
SweepWorkspace(w) ==
  LET stage == job[w].stage IN
  /\ pc[w] = "rest" /\ stage \notin {"issues"}
  /\ rows' = IF stage \in {"integrations", "views", "planning"} THEN [rows EXCEPT ![stage] = {}]
             ELSE rows
  /\ team' = IF stage = "teams" THEN [t \in Teams |-> "gone"] ELSE team
  /\ workspace' = IF stage = "workspaces" THEN "gone" ELSE workspace
  /\ HandOn(w)
  /\ UNCHANGED <<stored, starting, queue, job, todo, at, cursor, files, again, faults>>

\* The issues stage's, a page at a time.
SweepIssues(w) ==
  /\ pc[w] = "rest" /\ job[w].stage = "issues"
  /\ IF rows["issues"] = {}
     THEN HandOn(w) /\ UNCHANGED rows
     ELSE /\ \E x \in rows["issues"] : rows' = [rows EXCEPT !["issues"] = @ \ {x}]
          /\ \/ UNCHANGED <<pc, out>>
             \/ Sending(w, [job[w] EXCEPT !.team = REST, !.cursor = 0])
  /\ UNCHANGED <<workspace, team, stored, starting, queue, job, todo, at, cursor, files,
                 again, faults>>

Send(w) ==
  /\ pc[w] = "send"
  /\ queue' = IF out[w] = None THEN queue ELSE queue (+) SetToBag({out[w]})
  /\ out' = [out EXCEPT ![w] = None]
  /\ pc' = [pc EXCEPT ![w] = "ack"]
  /\ UNCHANGED <<data, starting, job, todo, at, cursor, files, again, faults>>

Release(w) ==
  /\ job' = [job EXCEPT ![w] = None]
  /\ pc' = [pc EXCEPT ![w] = "idle"]
  /\ todo' = [todo EXCEPT ![w] = {}]
  /\ at' = [at EXCEPT ![w] = NoTeam]
  /\ cursor' = [cursor EXCEPT ![w] = 0]
  /\ files' = [files EXCEPT ![w] = 0]
  /\ out' = [out EXCEPT ![w] = None]

Ack(w) ==
  /\ pc[w] = "ack"
  /\ Release(w)
  /\ UNCHANGED <<data, starting, queue, again, faults>>

\* A timeout or an error anywhere: the message comes back to be taken again.
Crash(w) ==
  /\ pc[w] # "idle" /\ Fault
  /\ queue' = queue (+) SetToBag({job[w]})
  /\ Release(w)
  /\ UNCHANGED <<data, starting, again>>

\* The queue delivers at least once.
Duplicate(m) ==
  /\ Fault
  /\ queue' = queue (+) SetToBag({m})
  /\ UNCHANGED <<data, starting, worker, again>>

\* A message received max_receive_count times goes to the dead-letter queue.
Park(m) ==
  /\ Fault
  /\ queue' = queue (-) SetToBag({m})
  /\ UNCHANGED <<data, starting, worker, again>>

-----------------------------------------------------------------------------
Work(w) ==
  \/ \E m \in BagToSet(queue) : Receive(w, m)
  \/ ReadFiles(w) \/ EraseThread(w) \/ ReleaseBytes(w)
  \/ UnlinkTeam(w) \/ UnlinkIssue(w) \/ DeleteIssue(w) \/ FinishIssues(w)
  \/ ClearTeam(w) \/ DeleteTeamRow(w) \/ SweepWorkspace(w) \/ SweepIssues(w)
  \/ Send(w) \/ Ack(w)

Next ==
  \/ BeginWorkspacePurge
  \/ \E t \in Teams : DeleteTeam(t)
  \/ \E t \in Teams \cup {NoTeam} : SendStart(t) \/ LoseStart(t)
  \/ \E w \in Workers : Work(w) \/ Crash(w)
  \/ \E m \in BagToSet(queue) : Duplicate(m) \/ Park(m)

Spec == Init /\ [][Next]_vars

\* Queues are drained, requests run on, and the sweep comes every hour.
FairSpec ==
  /\ Spec
  /\ \A w \in Workers : WF_vars(Work(w))
  /\ \A t \in Teams \cup {NoTeam} : WF_vars(SendStart(t))
  /\ WF_vars(BeginWorkspacePurge)

-----------------------------------------------------------------------------
(* What the chain promises.                                                *)

\* Discussion and integrations find their rows through the team's issues, so an
\* issue goes only after its thread, its files and its links.
ThreadsBeforeIssues ==
  \A t \in Teams, n \in Numbers :
    <<t, n>> \in rows["discussion"] \cup rows["integrations"] => <<t, n>> \in rows["issues"]

\* The storage counter never falls below the files the workspace still holds.
StorageCoversFiles == stored >= Cardinality(rows["discussion"])

\* A workspace marked for its purge is purged to the last row, through crashes,
\* messages parked in a DLQ and starts that were lost, because the sweep starts a
\* chain that went quiet again.
PurgeEnds == (workspace = "purging") ~> (workspace = "gone")

-----------------------------------------------------------------------------
(* Why the order holds, while no workspace's purge overlaps a team's.      *)

\* The stages that find their rows through the issues.
ViaIssues == {"discussion", "integrations"}

\* A stage has no row left for a team's issues: up to number n, for all of them,
\* for every team.
ClearTo(s, t, n) == \A k \in Numbers : k <= n => <<t, k>> \notin rows[s]

Clear(s, t) == \A k \in Numbers : <<t, k>> \notin rows[s]

AllClear == \A s \in ViaIssues, t \in Teams : Clear(s, t)

StagesAfter(s) ==
  Range(Chain("workspace")) \ (IF s = "discussion" THEN {"discussion"} ELSE ViaIssues)

\* What a message says of the rows, wherever it is: the stages before its own are
\* clear, and its own up to its cursor.
JobClear(j) ==
  /\ j.kind = "team" => j.team \in Teams /\ j.stage # "workspaces"
  /\ j.team \notin Teams => j.cursor = 0
  /\ \A s \in ViaIssues :
       /\ j.stage \in StagesAfter(s) =>
            \A t \in Teams : (j.kind = "workspace" \/ t = j.team) => Clear(s, t)
       /\ j.stage = s =>
            /\ j.kind = "workspace" => \A t \in Teams : t < j.team => Clear(s, t)
            /\ j.team \in Teams => ClearTo(s, j.team, j.cursor)
  /\ j.kind = "workspace" =>
       /\ workspace # "live"
       /\ j.cursor > 0 => team[j.team] # "gone" \/ AllClear

InTeam(w) == pc[w] \in {"head", "work", "erase", "release"}

\* What a worker says of them: it has cleared every team but those it still has to
\* do, and the one it is in up to its cursor.
WorkClear(w) ==
  LET j == job[w] IN
  /\ pc[w] # "idle" => j # None
  /\ InTeam(w) =>
       /\ at[w] \in Teams
       /\ \A t \in todo[w] : at[w] < t
       /\ j.kind = "team" => at[w] = j.team
       /\ j.kind = "workspace" => \A t \in todo[w] \cup {at[w]} : team[t] # "gone" \/ AllClear
  /\ pc[w] = "rest" => j.kind = "workspace" /\ todo[w] = {} /\ at[w] = NoTeam
  /\ pc[w] = "head" => j.stage = "integrations"
  /\ pc[w] \in {"erase", "release"} => j.stage = "discussion"
  /\ (j # None /\ j.stage \in ViaIssues) =>
       /\ (j.kind = "workspace" /\ (InTeam(w) \/ pc[w] = "rest")) =>
            \A t \in Teams \ (todo[w] \cup {at[w]}) : Clear(j.stage, t)
       /\ pc[w] \in {"head", "work", "release"} => ClearTo(j.stage, at[w], cursor[w])
       /\ pc[w] = "erase" => ClearTo(j.stage, at[w], cursor[w] - 1)

\* A message in its hands is one like any other.
HeldClear(w) == \A j \in {job[w], out[w]} \ {None} : JobClear(j)

\* A team whose row is gone was cleared first, and no team purges beside its workspace.
MarksClear ==
  /\ \A t \in Teams, s \in ViaIssues : team[t] = "gone" => Clear(s, t)
  /\ workspace = "live" \/ \A t \in Teams : team[t] # "deleting"
  /\ NoTeam \in starting => workspace # "live"

\* The inductive invariant behind ThreadsBeforeIssues.
ChainInv ==
  /\ TypeOK /\ ThreadsBeforeIssues /\ MarksClear
  /\ \A j \in BagToSet(queue) : JobClear(j)
  /\ \A w \in Workers : WorkClear(w) /\ HeldClear(w)

-----------------------------------------------------------------------------
(* The chain as an implementation of PurgePromise.                         *)

\* The rows as PurgePromise sees them, and which are found through which.
ItemsOf(s, there) == {<<s, x[1], x[2]>> : x \in there}

TeamItem(t) == <<"team", t, 0>>

WorkspaceItem == <<"workspace", 0, 0>>

DataItems == UNION {ItemsOf(s, AllRows[s]) : s \in RowStages}

AllItems == DataItems \cup {TeamItem(t) : t \in Teams} \cup {WorkspaceItem}

\* Everything is authorised through its team or its workspace, and the rows of
\* an issue are found through it.
FoundThrough ==
  {<<x, TeamItem(x[2])>> : x \in DataItems}
    \cup {<<x, <<"issues", x[2], x[3]>>>> : x \in {y \in DataItems : y[3] # 0}}
    \cup {<<TeamItem(t), WorkspaceItem>> : t \in Teams}

Promise == INSTANCE PurgePromise WITH
  Items  <- AllItems,
  Needs  <- FoundThrough,
  marked <- {x \in AllItems :
               workspace # "live" \/ (x # WorkspaceItem /\ team[x[2]] # "live")},
  left   <- (UNION {ItemsOf(s, rows[s]) : s \in RowStages})
            \cup {TeamItem(t) : t \in TeamRows}
            \cup (IF workspace = "gone" THEN {} ELSE {WorkspaceItem})

\* The chain keeps its promise: rows go only under a mark, none goes before what
\* is found through it, and the row that holds the mark goes last.
KeepsPromise == Promise!Spec
=============================================================================
