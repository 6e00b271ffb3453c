# Standupless: a TLA+ development of the backend

Standupless is an issue tracker. Its state lives in DynamoDB tables, its requests
run in Lambda functions behind FastAPI, and the work that does not fit a request
runs in consumers of SQS queues and DynamoDB streams. There is no lock anywhere:
everything rests on conditional writes, on at-least-once queues and on what one
function read before another wrote. This development models the parts where that
matters most, checks them with TLC and proves the main results with TLAPS.

All paths below are under `src/backend/app/` unless they begin with another
directory of the repository.

## What is here

| module | what it is |
| --- | --- |
| `PlanUsage` | the conditional counters that keep a workspace inside its plan |
| `MCPlanUsage`, `PlanUsageProofs` | its instances for TLC; its theorems |
| `WorkspaceOwners` | who owns a workspace, through every call that can take an owner away |
| `MCWorkspaceOwners`, `WorkspaceOwnersProofs` | its instances for TLC; its theorems |
| `PurgePromise` | the abstract promise of a purge: marked rows only, in order, never back |
| `TeamPurge` | the queued purge chain of a team and of a workspace, which implements it |
| `MCTeamPurge`, `TeamPurgeProofs` | its instances for TLC; the invariant of the chain |
| `TeamPurgeRefinement` | the proof that the chain implements `PurgePromise` |
| `DeliveryPromise` | what the delivery log promises of the requests a receiver sees |
| `WebhookDelivery` | outbound webhooks, which implement it: attempts, slot leases, retries, the breaker |
| `MCWebhookDelivery`, `WebhookDeliveryProofs` | its instances for TLC; its theorems |
| `WebhookDeliveryRefinement` | the proof that they implement `DeliveryPromise` |
| `CycleCounts` | a cycle's counters, moved by a stream, a rollover and a recount |
| `MCCycleCounts`, `CycleCountsProofs` | its instances for TLC; its theorems |
| `PullRequestLinks` | a pull request's events, its links and the issues they move |
| `MCPullRequestLinks`, `PullRequestLinksProofs` | its instances for TLC; its theorems |

Run `tlc -config PlanUsageMembers.cfg MCPlanUsage.tla` and the like to check, and
`tlapm PlanUsageProofs.tla` to prove. The runs, the correspondence between each
definition and its lines of source, the hazards and the known disagreements
between code and documentation are listed in `PROJECT.json`.

Operators called a *variant* in a comment are the code with one bug put in; the
mutants in `PROJECT.json` use them to show that each property depends on the code.

## The system, part by part

For each part: the state it keeps, its operations, how it meets the others, what
is hard about it, and what makes it correct.

**Plan usage counters** (`common/plan_usage.py`, `common/db/dynamo/counters.py`).
One row per workspace and resource (`plan#members`, `plan#invites`, `plan#teams`,
`plan#webhooks`, `plan#apikeys`) with `used`, `guests` and `version`. `commit`
loads the rows (seeding a missing one from a count), judges the room and the guest
allowance, recounts a row before refusing, and writes the caller's rows and the
counter deltas in one transaction conditional on what was judged. Every domain
that creates something capped goes through it. *Hard:* the seed and the recount
replace a row with a count that may be old; the transaction races others and is
retried, at two levels; an invite stops holding its slot by the passage of time.
*Correct when* a row never counts fewer than there are, no create passes the plan,
and no release gives back what was not held.

**Joining and inviting** (`domains/workspaces/endpoints/invite_links.py`,
`common/approved_domains.py`, `common/db/dynamo/invites.py`). Invite rows with an
expiry DynamoDB enforces late. Create, accept, revoke, join by link or domain: the
calls that move the members and invites rows. *Correct when* accepting moves one
slot from one row to the other exactly once.

**Workspace ownership** (`common/workspace_members.py`, `common/scim.py`,
`common/account_deletion.py`). Membership rows with a role and a suspension.
Role changes, removals, suspensions, bulk calls, directory deprovisioning and
account deletion all judge which owners would be left and then write. *Hard:* the
judgment and the write are not one transaction, and an account marked deleted
still has its membership. *Correct when* a workspace keeps an owner who can act,
and only owners move ownership.

**Purge chain** (`common/team_purge.py`, `domains/*/consumers/purge.py`,
`terraform/sqs.tf`). A purge mark on a team or workspace row and one message that
walks the stages discussion, integrations, views, planning, issues, teams and, for
a workspace, workspaces; each stage deletes for as long as its deadline allows and
hands itself or the next stage on. *Hard:* redelivery, duplicates, crashes between
the mark and the send, dead-letter queues, a chain started twice, a cursor that
belongs to one team. *Correct when* nothing unmarked goes, no row goes before the
rows found through it, the row with the mark goes last, and the purge ends.

**Issues, relations, parents** (`common/issue_writes.py`, `common/issue_trash.py`,
`common/relation_effects.py`). Issue rows numbered from a counter, moved between
teams, trashed and restored; a parent chain that must stay a forest; relations
kept as two rows. *Hard:* a move is several transactions; two re-parentings race
to a cycle.

**Stream consumers** (`domains/issues/consumers/rollup.py`,
`domains/planning/consumers/rollup.py`, `domains/views/consumers/search.py`,
`notify.py`). Counts, postings and inbox rows derived from streams that replay.
The planning rollup claims a record, moves the counters of each cycle, project and
milestone it touches, and writes the day's snapshot. *Hard:* a record comes again
after a failure between its claim and its last move; different issues' records move
one cycle side by side; a recount replaces what they move. *Correct when* a replayed
or delayed record leaves what it would have left once.

**Planning** (`common/cycle_writes.py`, `common/cycle_rollover.py`,
`common/cycle_schedule.py`, `common/project_writes.py`,
`domains/issues/cycle_close.py`), **releases** (`common/releases.py`). The rollover of
an ending cycle reads its unfinished issues from an index and moves them one by one,
while people move them too. *Correct when* a person's move stands and what was carried
is counted once.

**Outbound webhooks** (`domains/integrations/outbound/`, the endpoint, delivery and
slot rows of `common/db/dynamo/github.py`). A stream consumer logs a delivery and
queues its first attempt; a dispatch worker makes one attempt per message and queues
the next itself. *Hard:* messages and stream batches come again, a worker stops while
it holds a slot, an attempt's outcome is written over an endpoint that an admin has
changed since. *Correct when* a delivery is posted once per attempt, ends, keeps its
outcome, and neither the slots nor the breaker let through more than they say.

**GitHub and GitLab sync** (`domains/integrations/consumers/events.py`, `linking.py`,
`pr_resync.py`, the link rows of `common/db/dynamo/github.py`). Events arrive out of
order and again, write pull request links and move issues; a sweep that later events of
the workspace set off, at most every 15 minutes, reads back pull requests whose links
stayed open. *Correct when* the links end on the state of the
pull request, a merge closes what it names, and a person's later change stays.
Two-way issue sync, GitLab, Slack, Discord and MCP are adapters beside it.

**Identity and sign-in** (`domains/identity/`, `domains/workspaces/consumers/sso_recheck.py`,
`common/scim.py`). Accounts, sessions, single sign-on domains that are claimed,
rechecked and lapse, directory groups.

**Billing** (`common/billing.py`). The plan a workspace is on and the seats Stripe
is told. **Attachments** (`common/attachment_uploads.py`). A storage counter moved
by uploads and deletes. **Label merge, imports, exports, digests, saved views,
dashboards, realtime, admin, clients**: sequential jobs, reads or single-row
writes; see the notes in `PROJECT.json`.

## PlanUsage

A request is a process and every call it makes on a table is one action, so other
requests, an expiry (`Expire`), DynamoDB's late removal (`Reclaim`) and a change of
plan (`ChangePlan`) can come between a read and the write that relies on it.

| model | code |
| --- | --- |
| `members`, `invites`, `expired` | the membership and invite rows; `expires_at_ttl` passed |
| `usage[r]` | the `plan#r` counter row; `version = -1` while it does not exist |
| `Begin...`, `ReadMember`, `ReadInvite` | what each caller reads before it reaches `commit` |
| `OpenCommit`, `ReadUsage`, `CountToSeed`, `SeedUsage` | `commit`'s start and `usage()` |
| `Check`, `CountAgain`, `Reconcile`, `Rejudge` | `_room`, `_guest_room` and `_recount` |
| `Transact`, `LoseRace`, `RowCancelled`, `Reread` | the transaction, and what each cancellation does |
| `SetRole`, `RemoveUser`, `DeletePlain` | the writes outside any count |

The data is abstracted to what a count tells apart: a role is a seat or a guest;
each count is one read (a strongly consistent query that fits one page); a throttled call that aborts a request is not modelled,
since it leaves the rows as any request that stops there would. Teams, webhooks
and API keys take and free slots through the same `commit` with one row and one
delta, so they add no new step; the API key count's lagging index is planned.

**Runs.**

- `plan_usage_members` (two requests, three users, one invite, room for two members
  of whom one may be a guest, two attempts): accept, join, leave, change role and
  revoke in every interleaving. Three users and room for two make joins race for the
  last slot and let two requests each bring the guest; two attempts reach the retry
  and the give-up; two requests are the least that race. `CountCoversRows`, `GuestsCovered`, `NeverOverCap`, `GuestsWithinAllowance`.
  Role changes go one way per user here, because with both, or with a third request,
  `GuestsCovered` fails (below). Requests are symmetric, and so are the users the invite is not sent to. In
  this run and the next the view `LiveState` merges states that differ only in values
  a request no longer reads; that those keep their type too is `TypeCorrect`.
- `plan_usage_invites` (two invites, two plans): create and revoke while invites
  expire and the workspace changes plan. Checks `CountInv`, the invariant the
  proof rests on, so that the proof's assumptions are known to be reachable,
  and `NeverOverCap`.

**Known limits.** Two races the code has are kept out of these runs by a constant, and
each property named fails without it.

- A role change that shifts no guest is written without the role it read
  (`common/plan_usage.py:309`, `common/db/dynamo/memberships.py:517-518` beside
  `560-578`), so it can land over one that does, and a guest goes uncounted. `RoleAsks`
  therefore asks for one role per user in `plan_usage_members` (`GuestsCovered`). That
  is enough for two requests only: with three, one reads a user as a guest, another
  removes them, a third lets them in as a member, and the first makes a guest of that
  seat. The proofs name the condition itself: no such write lands on a seat
  (`UncountedRolesKeepSeats`).
- The condition of an invite's delete compares its expiry with a time taken when the
  delete was built (`common/db/dynamo/invites.py:124-129`), so a slot that a recount
  has already taken out can be given back again. `StraddlingExpiry = FALSE` lets no
  invite expire in between (`CountCoversRows`).

**Proved** (`PlanUsageProofs`), for any finite sets of users and invites, any number
of requests, any plans and any number of attempts:

- `TypeCorrect`: `TypeOK` and `RetriesBounded`. The counters staying in `Nat` is the
  content: a release is cut to the row that was *read* (`Claim`), and it is the
  transaction's condition that makes that enough for the row that is *there*.
- `CountCovers`: `CountCoversRows`, under `StraddlingExpiry = FALSE`.
- `CapHolds`: `NeverOverCap`, under the same assumption.
- `CountHolds`: the invariant `CountInv` itself, as `plan_usage_invites` checks it.
- `GuestsHold`: `GuestsCovered`, under `StraddlingExpiry = FALSE` and
  `UncountedRolesKeepSeats`, which every behaviour of `plan_usage_members` meets.
- `AllowanceHolds`: `GuestsWithinAllowance`, under `UncountedRolesKeepSeats`.

`CountCoversRows` is not inductive: a seed or a recount writes a number that was
counted earlier. `CountInv` strengthens it with `PendingCountsCover` (a count in
hand that can still be written covers the rows) which in turn needs `SeenIsPast`
(versions only grow, so a version that is still the same means the row was not
touched, and no counted row was added without touching it) and `JudgedLive` (no
expiry between a judgment and its write). The argument per action is: a
transaction moves the rows by no more than its delta (`TransactHolders`), any other
step only lets rows go (`OtherStepsShrink`). The assumption is needed for the
proof's `JudgedLive`.

`GuestsHold` repeats the argument for guests over `GuestInv` (a count of guests in hand
that can still be written covers the guests, and an invite in hand still has the role
the request counts for it). Here a step outside any count may add a guest, and the
hypothesis excludes exactly that one; it is about the behaviour and not a constant,
since no choice of `RoleAsks` with both roles excludes it for any number of requests.
`AllowanceHolds` needs no count of rows: `AllowanceInv` says that the row a request
holds is the row that is there if the version still is (`SameVersionSameRow`), and that
a guest about to be written was judged against that row (`GuestRoomJudged`).

Nothing of this module is model-checked only.

## WorkspaceOwners

| model | code |
| --- | --- |
| `role`, `suspended` | membership rows, `suspended_at` |
| `deleted` | accounts `users.mark_deleted` marked, whose membership the purge has yet to take |
| `live` | the workspace has no `purging_at` |
| `StartMemberCall` ... `StartPurgeAccount` | the routes, the SCIM hooks, the account sweep |
| `JudgeMember`, `JudgeAccount` | the checks before the count; `plan_account_deletion` |
| `CountOwners` | `count_owners`, wherever a call asks it (`guard_last_owner` for the directory) |
| `Write`, `Busy`, `CloseWorkspace` | the write, its give-up, `begin_workspace_purge` |
| `NextInBulk`, `EndBulk` | the loop of the bulk routes |

`rank` is the caller's role when the request was authorised: the code reads it once
and does not read it again. Nothing serialises requests, so any other may come between
a judgment and its write. `overtaken` is a history variable: the judged requests whose
member has changed role or suspension since, or since whose judgment an active owner
was lost. It guards nothing.

**Runs.**

- `workspace_owners` (two requests, two users, every initial assignment of roles and
  suspensions with an owner, every call): `OwnersInv`, `LastOwnerLostOnlyOvertaken`,
  `OwnershipMovesByOwners`. Two requests and two owners are what the race needs; a
  third user, who only adds bulk calls with two targets, is left to the proofs, since
  two requests among three users are too many states.
- `workspace_owners_overlap` finds `AnOwnerRemains` violated when two calls overlap.
- `workspace_owners_deleted` (one request at a time) finds `LeavesAnOwnerWhoCanAct`
  violated with no overlap: the owner who is counted as staying is already marked deleted.

**Proved** (`WorkspaceOwnersProofs`), for any finite set of users, any number of
requests and every interleaving:

- `OwnersHold`: `OwnersInv`, that is `TypeOK` and `JudgmentStands` (a request that was
  not overtaken is still not refused, and another active owner stays if it takes one).
- `LastOwnerLost`: `LastOwnerLostOnlyOvertaken`. The checks are complete: no call, bulk
  call or directory removal loses the last owner but by a race with another change.
- `OwnershipMoves`: `OwnershipMovesByOwners`. Here a race shows as an admin's write on
  somebody made an owner since the judgment.

The argument is one case split per step: a request's own step to its count or its write
judges rows that the step leaves alone (`OwnStep`), and another's step either leaves
what was judged or puts the request among the overtaken (`OthersStand`). That the last
owner does go by such a write is the run `workspace_owners_overlap`.

## TeamPurge and PurgePromise

`PurgePromise` is what a purge promises whatever queues and retries it takes: a set
of rows, which of them are marked, which row is found through which. A step marks
rows, or erases marked rows and leaves no row whose finder is gone.

`TeamPurge` is the chain as it runs, over one workspace. A worker is one invocation
of a purge consumer; each delete is a step of its own.

| model | code |
| --- | --- |
| `workspace`, `team` | `purging_at` and the team tombstone: the mark that authorises deletes |
| `rows[stage]` | what each domain holds: per issue, or per team (numbered 0) |
| `stored` | the workspace's storage counter, one per file |
| `starting`, `queue` | a mark whose first message is not yet sent; the stage queues together |
| `DeleteTeam`, `BeginWorkspacePurge`, `SendStart` | the route, the sweep, and the send that ends each |
| `Receive`, `TakeUp`, `Resume`, `TeamDone`, `StepOn`, `HandOn` | `handle_record`, `_run_workspace`, the stages' team steps, `_hand_on` |
| `ReadFiles`, `EraseThread`, `ReleaseBytes` | `purge_issue` of the discussion |
| `UnlinkTeam`, `UnlinkIssue`, `DeleteIssue`, `ClearTeam`, `DeleteTeamRow`, `SweepWorkspace`, `SweepIssues` | the other stages |
| `Crash`, `Duplicate`, `Park`, `LoseStart` | a timeout or error, a second delivery, the dead-letter queue, a function that dies between mark and send |

The deadline is a choice: after every unit of work a worker may go on or send a
message that resumes there. A message is hidden while its worker runs, because the
queues' visibility timeout (180 s, `terraform/sqs.tf`) is longer than the function's
(29 s); it comes back at a crash. Two copies can run at once only after `Duplicate`,
a crash after a send, or a chain started again over itself.

Bounds: `AGAIN` counts chains started while the same chain still runs (the code
allows it for a repeated DELETE and once `STALE_PURGE` passed; time is not modelled,
so any number of times up to the bound); `FAULTS` counts crashes, lost starts,
duplicates and parked messages together. `Overlap` says whether a workspace's purge
may begin while one of its teams is still tombstoned. Every issue has one thread
with one file; comments written meanwhile are not modelled; a team is deleted only
while the workspace is live, and the refusal for a team with sub-teams is left out
since it only makes a deletion rarer.

**Runs.**

- `team_purge_restart` (one team of two issues, two workers, a team purge and a
  workspace purge, one chain started over, one fault): `ThreadsBeforeIssues`,
  `KeepsPromise`. Two workers and one duplicate are the least that puts two copies of
  a chain out of step with each other, and two issues the least with which one is
  ahead of the other inside a team.
- `team_purge_walk` (two teams of two issues, one worker, one fault): the walk from
  team to team, `ChainInv`, the invariant the proof rests on, and the liveness
  property `PurgeEnds`.
- `team_purge_overlap` finds `ThreadsBeforeIssues` violated when a workspace purge
  begins over a team's: the cursor of the team that went is applied to the next.

**Known limit.** `StorageCoversFiles` is checked with one worker, and proved for workers
that are never at one issue at once. Otherwise both copies
of a chain can read an issue's attachments before either deletes them, and each
subtracts their bytes (`domains/discussion/consumers/purge.py:44`), although a repeated
message is said to be a no-op (`common/team_purge.py:17-19`).

`REST` is the cursor that sorts after every team id, whatever the ids are. In
`team_purge_restart` the view `LiveState` merges states that differ only in how far a
worker got that has a message to send or to acknowledge, which no later step reads.

`KeepsPromise` is the refinement: `TeamPurge` implements `PurgePromise` under the
mapping `Promise`, with the marks and the rows of the domains as the promise sees them.

**Fairness** (`FairSpec`, used for `PurgeEnds` only). Weak fairness of each worker's
steps: Lambda polls a queue until it is empty and a message that is not deleted is
delivered again. Weak fairness of the send after a mark: the request runs on unless
it dies, and dying is `LoseStart`, bounded by `FAULTS`. Weak fairness of
`BeginWorkspacePurge`: the sweep is scheduled every hour (`terraform/sqs.tf`) and
starts a purge that went stale. Nothing is assumed of crashes, duplicates, parked
messages or deletions of teams. A team's own purge has no sweep, so its end is not
claimed: one parked in a dead-letter queue waits for another DELETE.

**Proved** (`TeamPurgeProofs`), for any finite sets of teams, issue numbers and workers
and any number of faults and restarts, under `Overlap = FALSE`:

- `ClaimsHold`: `ChainInv`. `ChainTypes`: `TypeOK`, which is part of it.
- `ThreadsGoFirst`: `ThreadsBeforeIssues`.
- `StorageHolds`: `StorageCoversFiles` in every behaviour where no two workers delete the
  thread of one issue at once (`HandsApart`), with or without `Overlap`.

`ThreadsBeforeIssues` is not inductive: nothing in a worker that deletes an issue
looks at the discussion or the integrations. What makes it safe is what the message it
holds says of the rows. `ChainInv` writes that down: a message at a stage says that
the stages before it are clear, and its own for the teams before its cursor and in its
team up to it (`JobClear`); a worker says the same of the teams it is past and of the
one it is in (`WorkClear`); a team row that is gone was cleared first, and no team is
tombstoned beside a workspace that purges (`MarksClear`). Rows never come back, so a
claim once true stays true (`Keeps`, `JobStays`, `WorkStays`): a copy of a message, a
restart from the top, a crash that returns the message can only say less. The proof
has one lemma per action. The step that needs most is `ReceiveKeeps`, where a cursor
is applied to the first team still there: that team is the cursor's own, or all is
clear, and this is where `Overlap = FALSE` is used; `team_purge_overlap` shows what
happens without it.

**Proved** (`TeamPurgeRefinement`), under the same assumption: `ChainKeepsPromise`, that
is `Spec => KeepsPromise`. The initial state maps to the initial state of the promise,
the starts of a purge map to its `Mark` (`BeginDone`, `MarksMore`) and every other step
to its `Erase`, which a step that erases nothing is too (`ChainPurges`, `Erases`).
`ChainInv` is not enough for it, since it speaks only of the stages that go through the
issues. `PromiseInv` adds what a message says of all stages (`JobDone`: every stage
before its own has nothing left of its teams, and its team is marked), of the team's own
links, which are erased only at the top of their stage, and that nothing of a team is
left once its row is gone, nor a team once its workspace is (`Closed`). The last part of
the proof (`LeftIs`, `ItemsAre`, `ClosedUnder`) is about the mapping alone: which items
stand for which rows, and that what is left is closed under `FoundThrough`.

`StorageCoversFiles` is not inductive either: between the deletion of a thread and the
release of its bytes the counter must still hold them. `StorageInv` counts the threads
that are left together with those whose bytes have yet to be given back (`Returning`),
and says that a worker about to release bytes holds those of an issue nobody else does.
A crash in between only leaves the counter high. TLC met no violation of it with two
workers either (`Overlap = TRUE`, one team of two issues, stopped after 15 million
states, behaviours cut where hands meet).

*Model-checked only:* `PurgeEnds` (liveness). `ThreadsBeforeIssues` where purges overlap
is false.

## WebhookDelivery and DeliveryPromise

`DeliveryPromise` is what the log says of the requests, whatever queue, slots and workers
there are: a delivery is announced before it is called; `Call` makes the request of the
attempt whose turn it is, on an open delivery, and makes it again only after a worker
stopped (`lost`); `Note` records a request that was made; `Drop` ends a delivery without
one. Once the endpoint is deleted, or being deleted, nothing is promised (`Leave`): a
worker at its request then puts back a row that the deletion removed. `LogTellsRequests` maps
`log` to the rows, `made` and `lost` to the histories, `kept` to an endpoint that is there
and not being deleted.

`WebhookDelivery` has one endpoint of one workspace. Every read and write of a row is a step of its own.

| model | code |
| --- | --- |
| `endpoint`, `rows`, `slots` | the endpoint, delivery and slot rows of `common/db/dynamo/github.py` |
| `record`, `PassedOver`, `Log`, `QueueFirst` | the stream consumer: a change that `publish` passes over, the row and the first job of `schedule` |
| `BatchStops`, `BatchAgain` | a batch that stopped half way, or failed at a later record, and is handed over again |
| `queue`, `worker`, `Receive`, `Check`, `Skip` | a dispatch job, and what `run_attempt` reads and decides first |
| `Acquire`, `Defer`, `Answer` | `_acquire_slot`, the job put back, the request and `release_dispatch_slot` |
| `Deliver`, `ResetRun`, `CountFailure`, `OpenBreaker`, `Close`, `Retry`, `Requeue`, `Ack` | the outcome, row by row |
| `Crash`, `Tick` | a worker that stops; time, for the leases only |
| `enabling`, `AskEnable`, `Enable` | `_update` turning the endpoint on: the read that decides whether the run is cleared; the write |
| `Disable`, `DeleteLog`, `DeleteEndpoint` | the other settings routes |
| `posts`, `unlogged`, `stopped`, `spared` | history: requests made; workers that stopped between one and its row; changes whose batch stopped between row and job; the run the last enabling left standing |

Whether the endpoint wants a change (its row, cached for five seconds, active and
subscribed, its team still there) is a free choice of `PassedOver`, made anew each time the
change is handed over. A job's delay is left out: it may be received at any time after it is queued, which
allows more than the code does. A retry's back-off, the signature and the body are
data. `Timeout < Lease` is the code's relation between `DELIVERY_TIMEOUT_SECONDS`
(`domains/integrations/outbound/ssrf.py:33`) and `SLOT_LEASE_SECONDS`, ten seconds more
(`delivery.py:76-77`). A test ping and a manual redelivery (`send_now`) write one fresh
row that nothing queues and leave the failure run alone, so they touch nothing modelled
here; secrets, the endpoint's last status and the parking of a job after five receipts
are left out too.

**Run** `webhook_delivery` (two workers, two deliveries, one slot, two attempts, a
breaker at two failures, one fault): two deliveries and one slot make a slot change
hands and be refused; two attempts reach a retry and the last try; two failures open the
breaker with a second worker still holding what it read; the one fault is each of a lost
batch, a batch handed over again, a stopped worker, an admin's change. The second part of
`RunBounded`, a run longer than the threshold that an enabling left standing, takes more
faults than the run has; it is proved. `TypeOK`,
`InFlightWithinLimit`, `PostedOnce`, `RunBounded`, `ClosedStaysClosed`,
`OnlyAdminEnables`, `DeliveryEnds`, `LogTellsRequests`.

**Fairness** (for `DeliveryEnds`): weak of `Log` and `QueueFirst`, since the stream
retries a batch until it is handled; strong of receiving a job, since the queue offers
it again each time it is put back, while others may take the worker; weak of a worker's
step and of `Tick`, since a function runs on and time passes. Nothing is assumed of
crashes, admins or outcomes.

**Known limits.** Two are in the properties themselves.

- `DeliveryEnds` excepts a row that was never queued (`Unsent`): a batch stops between
  `create_delivery` and the queueing (`delivery.py:239-246`), and when it comes again the
  endpoint no longer wants the change, so `publish` returns before `schedule`
  (`stream.py:174-188`) and the row stays `pending`. `schedule` says that queueing again
  "covers a first run that wrote the row and then failed to enqueue".
- `RunBounded` lets a run grow on from where an enabling left it (`spared`): `_update`
  decides from the row it read (`webhooks.py:247-253`), so an endpoint that was active and
  without failures then, and that the breaker disabled before the write, is active again
  with its run standing, where the docstring says that "turning it back on also clears its
  failure run and notice". The next failure disables it again.

Two constants keep apart what the code promises and what it does.

- `Overlap = FALSE`: no two jobs of one delivery are at work at once. For redelivery the
  queue sees to it (hidden 180 s, a worker runs at most 29 s, `terraform/sqs.tf:23-39`).
  But a stream batch that comes again before the first attempt was recorded queues a
  second job, and two workers may take both; then one attempt is posted twice, where
  `run_attempt` says "a queue redelivery never posts twice" and `schedule` that the
  duplicate is dropped. `PostedOnce` fails with `Overlap = TRUE`.
- `CrashBeforeRequeue = FALSE`: a worker that stops between a retry's row and its job
  leaves the delivery at `retrying` for good, because the job that comes back finds its
  attempt recorded (`delivery.py:355-357`). `DeliveryEnds` fails with it.

**Proved** (`WebhookDeliveryProofs`), for any deliveries, finite set of workers, slots,
attempts, threshold, deadline before the lease, and any number of faults:

- `TypeCorrect`: `TypeOK`; a lease never goes below its end, no attempt past the last.
- `InFlightHolds`: `InFlightWithinLimit`. The invariant `LeaseInv` says that a worker with
  a request holds a slot of its own (`Leased`) whose lease has at least as many ticks left
  as the request may still take (`Fresh`), so leases of workers that stopped never make
  room too early; the posting workers then inject into the slots.
- `AdminEnables`: `OnlyAdminEnables`, because every write of the endpoint names its columns.
- `ClosedStays` and `PostsOnce`: `ClosedStaysClosed` and `PostedOnce`, under
  `Overlap = FALSE`. `RowInv` says that a worker's copy of its row is the row
  (`Current`), since no other has the delivery in hand (`Apart`); `PostInv` accounts for
  each request made by a row that records it, a worker about to, or one that stopped.

- `RunHolds`: `RunBounded`. `RunInv` says that past the threshold, or past the run that the
  last enabling left standing (`Room`), an active endpoint has
  a worker on the way to disable it for each failure more, or one that stopped on it,
  and that a disabled one has room for the workers that read it active and do not know
  yet; the two sets of workers are disjoint, and a failure moves one from the second
  to the first.

`WebhookDeliveryRefinement` proves `LogKeepsPromise`, that is `Spec => LogTellsRequests`, under
`Overlap = FALSE`. Beside `RowInv` and `PostInv` it takes `AskInv`: a worker with an
attempt to record has made its request, and one that judged a delivery found its row and
still finds it while the log is kept. Then a judged attempt is the one whose turn it is
(`InTurn`), and every step is a `Call`, a `Note`, a `Drop`, an `Announce`, a `Lose`, or
one the promise does not see. It says more than `PostedOnce` and `ClosedStaysClosed`: no
attempt is skipped, none is made before the one it follows is on record, and no row
claims a request that was not made.

*Model-checked only:* `DeliveryEnds` (liveness).

## CycleCounts

A team's cycles, the issues in them, and the stream of the issues table.

| model | code |
| --- | --- |
| `issue`, `stream`, `Edit`, `Trash` | the issues table, its records, a person's changes |
| `closing`, `CloseRead`, `Carry`, `CloseStops` | `cycle_close.sweep` and `carry_unfinished`, each issue's conditional move |
| `claimed`, `pc`, `todo`, `after`, `Take` ... `Ack` | `handle_record` of `domains/planning/consumers/rollup.py` |
| `MoveFails`, `Crash` | a move that raises, so the claim is given back; a consumer that stops |
| `cycle`, `ids`, `snapshot` | the counters and revision of a cycle, the ids carried out and in, the day's snapshot |
| `RecountRead`, `RecountCount`, `RecountWrite`, `RecountSnapshot` | `recount_cycle` of `scripts/recount_planning_rollups.py` |
| `drifted` | history: the counters a fault left wrong until a recount |

Records of one issue are in order, those of different issues side by side, as the
stream's shards by key hand them over. The index a sweep or a recount reads may be
behind, so each may see any part. Points, the days and the opening counts of a snapshot,
projects and milestones, starting and ending a cycle by hand and automatic joining of a
cycle are left out.

**Run** `cycle_counts` (two issues, two cycles, one edit, one fault, one recount): the
close and an edit race over one issue while the other's records move the same cycles,
and a recount or a fault falls anywhere between. `TypeOK`, `ExactUnlessDrifted`,
`CarriedAreCounted`, `SnapshotCurrent`. Issues are symmetric.

**Known limits** (`drifted` marks the counters concerned, and the property says that no
others are wrong). A consumer that stops after its claim loses the moves still to make;
one whose second move fails gives the claim back and makes the first again
(`rollup.py:662-664`), although the module says a repeated record moves nothing
(`rollup.py:10-12`, `597-599`); a recount made over pending records or an index that is
behind writes what it saw. The marker of a carry stays on the row, so a planner's own
later move out of the same cycle counts as a carry-over; a carry moves an issue that was
finished since the sweep read it.

**Proved** (`CycleCountsProofs`), for any finite sets of issues and cycles and any number
of edits, faults and recounts:

- `TypeCorrect`: `TypeOK`, by `CyclesInv`, which says what a record in hand is (it moves a
  cycle, and its moves still to make are among them).
- `SnapshotHolds`: `SnapshotCurrent`. `SnapInv` says that whatever row somebody has in
  hand is of an earlier revision, or is the cycle's row (`InSync`), and that a snapshot
  that is behind has somebody on the way with the current row (`Pending`).
- `CountsHold`: `ExactUnlessDrifted`. What the records still to come will move a counter by
  is written as the difference of two sets of records (`Owes`, `Owed`), so that no sum
  has to be unrolled: a record that is written adds to one of them (`OwesMore`), one that
  is applied takes itself out and the rest move up (`OwesLess`, a bijection), and the
  issues in a cycle change by the same amount (`TallyMoves`). `CountInv` adds that a
  consumer in the middle of a record has written what its counters no longer owe
  (`HandsSteady`), and that a recount that counted right, and still holds the cycle's
  revision, would still write what is right (`RecountSteady`).
- `CarriesHold`: `CarriedAreCounted`, from `CarriesCounted`: the issues named as carried,
  with those a pending record will name, are no more than are counted or will be.

`RecountSteady` was not inductive as the model stood: a recount that counted, and was
marked as settled, stayed so when a consumer then stopped half way through a record of
that cycle. TLC shows it with two faults. `Unsettled` takes the mark back; it is history,
and no step reads it but the one that says which counters are known wrong.

Nothing of this module is model-checked only.

## PullRequestLinks

One pull request of a repository, from its events on GitHub to the issues they move.

| model | code |
| --- | --- |
| `pr`, `merge`, `sent`, `Open`, `Close`, `Reopen`, `Redraft`, `Edit` | the pull request on GitHub and its deliveries (external) |
| `queue`, `Lose`, `Repeat` | the events queue: no order, again, or gone after its retries |
| `worker`, `Receive`, `GetLink`, `PutLink`, `MoveIssue`, `ListLinks`, `Detach` | `_handle_pull_request` of `domains/integrations/consumers/events.py` |
| `Ordered`, `LeftToMerge`, `Older` | the conditions of the link writes in `common/db/dynamo/github.py` |
| `Target`, `MayApply`, `Unmoved` | the default transition rules and `OnReady`, `may_apply`, the revision check |
| `Resync` | `pr_resync.py`: links that stayed open are read back |
| `issue`, `Change` | an issue's status and revision; a person's change |

Every delivery is numbered by when it was accepted, and `at` counts the seconds of the
pull request's `updated_at`, so two deliveries may share a second. A pull request is
opened or reopened as a draft or open, a draft becomes ready (`ready_for_review`) and an
open one goes back (`converted_to_draft`); a draft moves no issue. `OnReady` is the status
a stored rule gives `pr_ready_for_review`, which has no default; `{}` is no such rule.
Pushes (`synchronize`), the review and check summaries, what is written back to GitHub,
label sync, branch rules, GitLab and all other stored rules are left out.

**Runs.**

- `pull_request_links` (one issue, two workers, three events, one edit, draft change or
  change by a person, one fault, `OnReady` = started): three events are an opening, a
  close and one more that comes late, or a draft that opens, becomes ready and closes; two
  workers put an earlier and a later event side by side; the fault is a stopped worker, a
  lost event or one that comes again. `TypeOK`, `LinksConverge`, `NamedStayAttached`,
  `MergeFolded`, `PersonKept`, `MergeReachesLinks`.
- `pull_request_own_move` (one worker, two events, no edit, no fault) finds `MergeCloses`
  violated: an opened event handled late stamps the issue with the present time, and the
  merge takes that for a person's change.

**Fairness** (for `MergeReachesLinks`): weak of a worker's step, and strong of the read
back (`handle_resync`), which later events of the workspace set off again and again
(`SWEEP_INTERVAL` apart). Nothing is assumed of the queue, of faults or of people: a merge
whose own event is never received is read back all the same.

**Known limits.** `PR_STATE_RANK` (`common/db/dynamo/github.py:48`) puts "draft" and "open"
both at 0, so of two deliveries of one second, opened as a draft and ready for review, the
one handled last wins: handled out of order they leave the link "draft" while the pull
request is open, until its next event. The comment below it (49-52) says that "the further
state is the one that happened last", which cannot tell these two apart. `LinksConverge`
excepts this case and no other (`Tied`): link and pull request are one the draft and one
open, and a delivery of the last second said what the link says.

Where an issue is taken off the pull request and put back,
`LinksConverge` fails (two edits, five events, one worker, no fault): an edit that takes
an issue off before the merge and one that names it again after it leave the link open,
since a delivery about a merged pull request that is not its merge is left to the merge;
and a detach stamps its own time on a closed link
(`common/db/dynamo/github.py:1124-1139`), so a delivery of the same second that names the
issue again is refused. Hence `EDITS = 1`, and the condition `NamedOnce` in the proofs.
A resync that stops between a link and its issue is not taken up again when the merge
itself was lost.

**Proved** (`PullRequestLinksProofs`), for any sets of issues and workers and any number
of events, edits and faults:

- `TypeCorrect` (`TypeOK`) and `PersonHolds` (`PersonKept`). The invariant `LinksInv` says
  of a worker's copy of an issue that its revision is one the row had and that the copy is
  the row if it still has it; a person's change moves the revision.
- `MergeHolds`: `MergeFolded`, with no condition. `MergeInv` says that for each issue the
  merge names, its delivery is queued, in a worker's hands with that issue still to do, or
  has done with it (`Settled`): the issue is closed, was changed since, or its link is
  later. The last two are there because a worker may decline for them, and stay true
  because links do not go back in time and a changed row is stamped with the present
  (`Later`); a worker's copy is the row unless that was changed after the delivery
  (`FreshReads`), so what it declines for holds of the row too.
- `LinksHold` and `AttachedHold`: `LinksConverge` and `NamedStayAttached` in every
  behaviour where an issue named anew was named by no delivery before (`NamedOnce`).
  `LinksHoldOnce` has no such condition, for `EDITS <= 1`, as in the run. `FoldInv` says
  that the link of each issue named is as far as GitHub, beyond the reach of every other
  delivery (`Arrived`: same second and same rank, or both merged), or that a delivery which
  brings it there (`Brings`) is queued or in a worker's hands before the write
  (`OnItsWay`). Where the rank is the same and the state is not, the two are a draft and an
  open one, and a link that reads either was written by a delivery of its second
  (`SaidBySent`): that is `Tied`. That such a delivery is not refused
  (`NotRefused`) needs to know what any link, delivery or earlier read may say of an issue
  (`SaysOf`): nothing beyond GitHub's last second and state; before the merge only of what
  the merge names; nothing older than a delivery that did not name the issue, so that none
  of those detaches it (`FoldOnDetach`).

*Model-checked only:* `MergeReachesLinks` (liveness).

## Findings

Four places where the code and what it says of itself disagree, each with a run that
shows it (see `findings` in `PROJECT.json` for the quotations):

1. `common/workspace_members.py:265` (`workspace_owners_overlap`): the last-owner rule is
   a count and then a write; two at once leave no owner.
2. `common/db/dynamo/memberships.py:1238` (`workspace_owners_deleted`): an owner whose
   account is marked deleted still counts as the owner who stays.
3. `common/team_purge.py:300` (`team_purge_overlap`): a cursor is applied to whichever
   team comes first.
4. `domains/integrations/linking.py:199` (`pull_request_own_move`): a move of the
   integration's own is taken for a person's, and a merged issue stays open.

The known limits above are further places where a property holds only under a named
constant; they have no run of their own.

## Reach of the proofs

Every invariant and action property that a passing run checks is also a theorem, and so
are the two refinements; the run shows that the formula is not vacuous on a small instance, the
theorem that the instance's size is not why. The theorems are about every value of the
constants that satisfies the modules' assumptions and, where named,
`StraddlingExpiry = FALSE` or `Overlap = FALSE`, or about the behaviours
that meet a condition, named where the code itself does not see to it:
`UncountedRolesKeepSeats`, `HandsApart`, `NamedOnce`. Each condition is met by every
behaviour of the run that checks the property, and each run or known limit above says
what happens without it.

Liveness under fairness (`PurgeEnds`, `DeliveryEnds`, `MergeReachesLinks`) is checked by
TLC only. No module here declares a recursive operator. `PromiseInv`, which only the
purge's refinement proof uses, was checked by TLC on the instances of `team_purge_restart` and of
two teams with one issue each.

## Plan

What is left, in this order:

1. The account purge chain, over `WorkspaceOwners` and `TeamPurge`: the plan made once,
   the memberships taken one by one.
2. `PlanUsage`: the API key row with its lagging count and `SETTLE_SECONDS`.
3. `IssueTree`: re-parenting and moves between teams; parents stay a forest, numbers are
   never used twice.
4. `Storage`: uploads, completion, deletion and the purge on one counter.
5. `IssueSync`: edits echoed between two trackers do not travel in circles.
6. `SsoDomains` and `LabelMerge`: a claim that is rechecked and lapses; a merge that resumes.
7. The project and milestone counts of the rollup, points, and the notify and search
   consumers, on the pattern of `CycleCounts`.
8. `Sla` and `CycleSchedule` as functions, checked against a reference definition.

Runs stay small: two actors, two of whatever they race over, one fault, and a bound
that lets the retry path give up once.

## Not modelled

Parsing, formatting, rendering and transport; paging inside one read; throttling;
the content of issues, comments and files; the `webbpulse` library's sessions,
passkeys and OAuth (only what this code does with a deleted account); Stripe; the
clients, which hold no authoritative state; imports, exports, digests and dashboards,
which are sequential jobs or reads. Each is listed with its reason in
`PROJECT.json` under `components`.
