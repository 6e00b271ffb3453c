--------------------------- MODULE PullRequestLinks ---------------------------
(***************************************************************************)
(* A pull request and the issues it names: the deliveries GitHub sends of  *)
(* it (domains/integrations/consumers/events.py), the link rows they fold  *)
(* into (common/db/dynamo/github.py), the move they make of each issue, the *)
(* detaching of issues no longer named (domains/integrations/pr_labels.py), *)
(* and the read back that heals a lost one (pr_resync.py).                 *)
(*                                                                         *)
(* The events queue keeps no order and may hand a delivery out again.      *)
(* Every key is named so that it moves its issue and closes it, and the    *)
(* team keeps the default rules, and may have one of its own for a draft   *)
(* that becomes ready.  Pushes to the pull request, the state row of       *)
(* reviews and checks, and what a job writes back to GitHub are left out.  *)
(***************************************************************************)
EXTENDS Integers, FiniteSets

CONSTANTS
  Issues,   \* the issues the pull request may name
  Workers,  \* the events consumer's concurrent invocations
  OnReady,  \* the status a draft that becomes ready moves its issues to, if any
  EVENTS,   \* bound: what happens to the pull request on GitHub
  EDITS,    \* bound: edits of the pull request's title, changes of its being a draft and
            \* changes to the issues, together
  FAULTS    \* bound: workers that stop, deliveries lost or handed out again

\* PR_STATE_RANK.
Rank == [draft |-> 0, open |-> 0, closed |-> 1, merged |-> 2]

\* OPEN_STATES: nothing orders the two within a second.
OpenStates == {"draft", "open"}

\* The status categories, as far along as CATEGORY_RANK puts them.
Unstarted == 1
Started   == 2
Completed == 3

ASSUME LinksAssumption ==
  /\ EVENTS \in Nat /\ EDITS \in Nat /\ FAULTS \in Nat
  /\ OnReady \subseteq Unstarted..Completed

NoLink == [state |-> "none", at |-> 0, detached |-> FALSE]

Idle == [pc |-> "idle"]

VARIABLES
  pr,      \* the pull request on GitHub: its state, the issues it names, when it was
           \* last updated, to the second, and how many deliveries it has sent
  merge,   \* the delivery of its merge, or none yet
  sent,    \* the deliveries GitHub has sent
  queue,   \* those that wait for a worker
  worker,  \* what each worker has in hand, with what it read
  link,    \* each issue's link row
  issue,   \* each issue's row: its status, its revision, and when it and when a person
           \* last changed it, as the number of deliveries accepted by then
  lost,    \* history: a delivery was lost
  edits, faults

vars == <<pr, merge, sent, queue, worker, link, issue, lost, edits, faults>>

Actions == {"opened", "edited", "closed", "reopened", "ready_for_review", "converted_to_draft"}

\* DELIVERY_ACTIONS: those after which the links no longer named are detached.
DeliveryActions == {"opened", "edited", "reopened", "ready_for_review"}

Delivery == [n : 1..EVENTS, action : Actions,
             state : DOMAIN Rank, names : SUBSET Issues, at : 1..EVENTS]

TypeOK ==
  /\ pr \in [state : {"none"} \cup DOMAIN Rank, names : SUBSET Issues, at : 0..EVENTS, n : 0..EVENTS]
  /\ merge \in Delivery \cup {Idle}
  /\ sent \subseteq Delivery /\ queue \subseteq sent
  /\ \A w \in Workers :
       \/ worker[w] = Idle
       \/ /\ worker[w].pc \in {"link", "put", "move", "list", "detach"}
          /\ worker[w].delivery \in Delivery
          /\ worker[w].todo \subseteq Issues
          /\ worker[w].pc \in {"put", "move"} => worker[w].of \in worker[w].delivery.names
  /\ \A i \in Issues :
       \/ link[i] = NoLink
       \/ link[i] \in [state : DOMAIN Rank, at : 1..pr.at, detached : BOOLEAN]
  /\ issue \in [Issues -> [status : Unstarted..Completed, rev : Nat, at : 0..EVENTS, person : -1..EVENTS]]
  /\ lost \in BOOLEAN
  /\ edits \in 0..EDITS /\ faults \in 0..FAULTS

Init ==
  /\ pr = [state |-> "none", names |-> {}, at |-> 0, n |-> 0]
  /\ merge = Idle
  /\ sent = {} /\ queue = {}
  /\ worker = [w \in Workers |-> Idle]
  /\ link = [i \in Issues |-> NoLink]
  /\ issue = [i \in Issues |-> [status |-> Unstarted, rev |-> 0, at |-> 0, person |-> -1]]
  /\ lost = FALSE
  /\ edits = 0 /\ faults = 0

-----------------------------------------------------------------------------
(* GitHub, and people.                                                     *)

\* The pull request changes and its delivery is accepted.  Its updated_at counts seconds.
Send(action, state, names, at) ==
  /\ pr.n < EVENTS
  /\ LET d == [n |-> pr.n + 1, action |-> action, state |-> state, names |-> names, at |-> at]
     IN  /\ pr' = [state |-> state, names |-> names, at |-> at, n |-> pr.n + 1]
         /\ sent' = sent \cup {d}
         /\ queue' = queue \cup {d}
         /\ merge' = IF action = "closed" /\ state = "merged" THEN d ELSE merge
  /\ UNCHANGED <<worker, link, issue, lost, faults>>

Open ==
  /\ pr.state = "none"
  /\ \E state \in OpenStates, names \in SUBSET Issues : Send("opened", state, names, 1)
  /\ UNCHANGED edits

\* A draft is not merged.
Close ==
  /\ pr.state \in OpenStates
  /\ \E state \in {"closed", "merged"}, at \in {pr.at, pr.at + 1} :
       /\ state = "merged" => pr.state = "open"
       /\ Send("closed", state, pr.names, at)
  /\ UNCHANGED edits

\* Never within the second it was closed in, as PR_STATE_RANK takes for granted.
\* Whether it comes back as a draft is left open.
Reopen ==
  /\ pr.state = "closed"
  /\ \E state \in OpenStates : Send("reopened", state, pr.names, pr.at + 1)
  /\ UNCHANGED edits

\* A draft becomes ready for review, or goes back to being one.
Redraft ==
  /\ edits < EDITS /\ edits' = edits + 1
  /\ \E at \in {pr.at, pr.at + 1} :
       \/ pr.state = "draft" /\ Send("ready_for_review", "open", pr.names, at)
       \/ pr.state = "open" /\ Send("converted_to_draft", "draft", pr.names, at)

\* The title changes, and may name other issues, also after the merge.
Edit ==
  /\ edits < EDITS /\ edits' = edits + 1
  /\ pr.state # "none"
  /\ \E names \in SUBSET Issues, at \in {pr.at, pr.at + 1} :
       Send("edited", pr.state, names, at)

Change(i) ==
  /\ edits < EDITS /\ edits' = edits + 1
  /\ \E status \in (Unstarted..Completed) \ {issue[i].status} :
       issue' = [issue EXCEPT ![i] =
         [status |-> status, rev |-> @.rev + 1, at |-> pr.n, person |-> pr.n]]
  /\ UNCHANGED <<pr, merge, sent, queue, worker, link, lost, faults>>

Fault == faults < FAULTS /\ faults' = faults + 1

\* A delivery is gone: retries used up, and nobody redrives it.
Lose(d) ==
  /\ Fault /\ d \in queue
  /\ queue' = queue \ {d}
  /\ lost' = TRUE
  /\ UNCHANGED <<pr, merge, sent, worker, link, issue, edits>>

\* A delivery comes again: the queue's, GitHub's or a redrive's doing.
Repeat(d) ==
  /\ Fault /\ d \in sent \ queue
  /\ queue' = queue \cup {d}
  /\ UNCHANGED <<pr, merge, sent, worker, link, issue, lost, edits>>

-----------------------------------------------------------------------------
(* One delivery: _handle_pull_request.                                     *)

At(w, pc) ==
  /\ worker[w].pc = pc
  /\ UNCHANGED <<pr, merge, sent, edits>>

Listing(d) == [pc |-> "list", delivery |-> d, todo |-> {}]

\* The issues are read first, all those the delivery names.
Handling(d) ==
  IF d.names # {} THEN [pc |-> "link", delivery |-> d, read |-> [i \in d.names |-> issue[i]],
                        todo |-> d.names, stale |-> FALSE]
  ELSE IF d.action \in DeliveryActions THEN Listing(d) ELSE Idle

Receive(w, d) ==
  /\ At(w, "idle") /\ d \in queue
  /\ queue' = queue \ {d}
  /\ worker' = [worker EXCEPT ![w] = Handling(d)]
  /\ UNCHANGED <<link, issue, lost, faults>>

\* The issue in hand is done with; after the last one come the links no longer named,
\* but only if no link refused the delivery, and on some actions only.
Proceed(w, stale) ==
  LET job  == worker[w]
      todo == job.todo \ {job.of}
  IN  worker' = [worker EXCEPT ![w] =
        IF todo # {} THEN [pc |-> "link", delivery |-> job.delivery, read |-> job.read,
                           todo |-> todo, stale |-> job.stale \/ stale]
        ELSE IF ~(job.stale \/ stale) /\ job.delivery.action \in DeliveryActions
             THEN Listing(job.delivery)
        ELSE Idle]

\* The next issue's link is read.
GetLink(w) ==
  /\ At(w, "link")
  /\ \E i \in worker[w].todo :
       worker' = [worker EXCEPT ![w] =
         [pc |-> "put", delivery |-> @.delivery, read |-> @.read, todo |-> @.todo, stale |-> @.stale,
          of |-> i, previous |-> link[i]]]
  /\ UNCHANGED <<queue, link, issue, lost, faults>>

\* A delivery about a merged pull request that is not its merge leaves a link the merge
\* has not reached to the merge.
LeftToMerge(d, previous) ==
  d.state = "merged" /\ d.action # "closed" /\ previous.state \notin {"none", "merged"}

\* Variant: the order of the states alone.
OrderedByState(l, d) == l.state # "none" => Rank[l.state] <= Rank[d.state]

\* Variant: a delivery as old as the row is refused.
OrderedStrictly(l, d) == l.at < d.at /\ (l.state = "merged" => d.state = "merged")

\* A row gives way to a newer delivery, and within its second to one as far along; a
\* merged one only to a merged one.
Ordered(l, d) ==
  \/ l.state = "none"
  \/ /\ l.at < d.at \/ (l.at = d.at /\ Rank[l.state] <= Rank[d.state])
     /\ l.state = "merged" => d.state = "merged"

\* The status a delivery moves its issue to; none when it is closed unmerged or is a
\* draft, and an edit only when it names the issue for the first time.
Target(d, previous) ==
  CASE d.action \in {"opened", "reopened"} /\ d.state = "open" -> {Started}
    [] d.action = "edited" /\ d.state = "open" /\ previous.state = "none" -> {Started}
    [] d.action = "ready_for_review" -> OnReady
    [] d.action = "closed" /\ d.state = "merged" -> {Completed}
    [] OTHER -> {}

\* The link is written, unless it is to be left or is newer: then the delivery is stale.
PutLink(w) ==
  /\ At(w, "put")
  /\ LET job == worker[w]
         d   == job.delivery
         accepted == ~LeftToMerge(d, job.previous) /\ Ordered(link[job.of], d)
     IN  \/ /\ accepted
            /\ link' = [link EXCEPT ![job.of] = [state |-> d.state, at |-> d.at, detached |-> FALSE]]
            /\ IF Target(d, job.previous) # {} THEN worker' = [worker EXCEPT ![w].pc = "move"]
                                               ELSE Proceed(w, FALSE)
         \/ /\ ~accepted
            /\ Proceed(w, TRUE)
            /\ UNCHANGED link
  /\ UNCHANGED <<queue, issue, lost, faults>>

\* Whether the issue as it was read may be moved: not touched since the delivery was
\* accepted, and only forward.
MayApply(read, d, status) == read.at < d.n /\ read.status < status

\* Variant: written over whatever is there.
UnmovedAnyway(i, read) == TRUE

\* The row still stands at the revision it was read at.
Unmoved(i, read) == issue[i].rev = read.rev

\* The move.  A conflict raises, and the delivery is handled again from its start.
MoveIssue(w) ==
  /\ At(w, "move")
  /\ LET job  == worker[w]
         d    == job.delivery
         i    == job.of
         read == job.read[i]
     IN  \E status \in Target(d, job.previous) :
           \/ /\ ~MayApply(read, d, status)
              /\ Proceed(w, FALSE)
              /\ UNCHANGED <<queue, issue>>
           \/ /\ MayApply(read, d, status) /\ Unmoved(i, read)
              /\ issue' = [issue EXCEPT ![i] =
                   [status |-> status, rev |-> @.rev + 1, at |-> pr.n, person |-> @.person]]
              /\ Proceed(w, FALSE)
              /\ UNCHANGED queue
           \/ /\ MayApply(read, d, status) /\ ~Unmoved(i, read)
              /\ queue' = queue \cup ({d} \cap sent)
              /\ worker' = [worker EXCEPT ![w] = Idle]
              /\ UNCHANGED issue
  /\ UNCHANGED <<link, lost, faults>>

\* Variant: the update of a row that need not be there.
UnnamedAnywhere(d) == {i \in Issues \ d.names : ~link[i].detached}

\* The pull request's links that the delivery does not name.
Unnamed(d) == {i \in Issues \ d.names : link[i].state # "none" /\ ~link[i].detached}

ListLinks(w) ==
  /\ At(w, "list")
  /\ LET gone == Unnamed(worker[w].delivery)
     IN  worker' = [worker EXCEPT ![w] =
           IF gone = {} THEN Idle ELSE [pc |-> "detach", delivery |-> @.delivery, todo |-> gone]]
  /\ UNCHANGED <<queue, link, issue, lost, faults>>

\* Variant: detached whatever the row says by now.
OlderAnyway(l, d) == TRUE

\* A row older than the delivery, and not merged.
Older(l, d) == l.state # "merged" /\ l.at < d.at

Detach(w) ==
  /\ At(w, "detach")
  /\ LET job == worker[w]
     IN  \E i \in job.todo :
           /\ link' = IF Older(link[i], job.delivery)
                      THEN [link EXCEPT ![i] = [state |-> @.state, at |-> job.delivery.at, detached |-> TRUE]]
                      ELSE link
           /\ worker' = [worker EXCEPT ![w] =
                IF job.todo = {i} THEN Idle ELSE [job EXCEPT !.todo = job.todo \ {i}]]
  /\ UNCHANGED <<queue, issue, lost, faults>>

\* A worker stops anywhere, and what it had in hand is handed out again.
Stop(w) ==
  /\ Fault
  /\ worker[w] # Idle /\ At(w, worker[w].pc)
  /\ queue' = queue \cup ({worker[w].delivery} \cap sent)
  /\ worker' = [worker EXCEPT ![w] = Idle]
  /\ UNCHANGED <<link, issue, lost>>

\* Links that still read open.
LeftOpen == \E i \in Issues : link[i].state \in OpenStates /\ ~link[i].detached

\* Variant: only an abandoned pull request is folded.
MissedAbandoned == pr.state = "closed"

\* GitHub shows the pull request finished.
Missed == pr.state \in {"closed", "merged"}

\* The read back: links are still open, GitHub has finished the pull request, and that
\* is folded as its closed delivery would have been.  It is no queued delivery of
\* GitHub's, and the job of one that stopped finds no open link any more.
Resync(w) ==
  /\ At(w, "idle")
  /\ LeftOpen /\ Missed
  /\ worker' = [worker EXCEPT ![w] = Handling(
       [n |-> IF pr.state = "merged" THEN merge.n ELSE pr.n,
        action |-> "closed", state |-> pr.state, names |-> pr.names, at |-> pr.at])]
  /\ UNCHANGED <<queue, link, issue, lost, faults>>

Step(w) == GetLink(w) \/ PutLink(w) \/ MoveIssue(w) \/ ListLinks(w) \/ Detach(w)

Next ==
  \/ Open \/ Close \/ Reopen \/ Redraft \/ Edit
  \/ \E i \in Issues : Change(i)
  \/ \E d \in sent : Lose(d) \/ Repeat(d)
  \/ \E w \in Workers : Step(w) \/ Stop(w) \/ Resync(w) \/ \E d \in sent : Receive(w, d)

Spec == Init /\ [][Next]_vars

\* Workers run on, and later deliveries of the workspace set off the sweep that reads
\* back, at most every SWEEP_INTERVAL.  Of the queue nothing is assumed.
FairSpec ==
  /\ Spec
  /\ WF_vars(\E w \in Workers : Step(w))
  /\ SF_vars(\E w \in Workers : Resync(w))

-----------------------------------------------------------------------------
(* Properties.                                                             *)

Quiet == queue = {} /\ \A w \in Workers : worker[w] = Idle

\* A draft and an open one of the same second: either may be handled last.
Tied(i) ==
  /\ {link[i].state, pr.state} = OpenStates
  /\ \E d \in sent : d.at = pr.at /\ d.state = link[i].state

\* However the deliveries were ordered, repeated and interleaved, once all are handled
\* every issue the pull request names has a link in its state, but for a draft's change
\* that shares its second with another.
LinksConverge ==
  Quiet /\ ~lost => \A i \in pr.names : link[i].state = pr.state \/ Tied(i)

\* An issue the pull request names stays attached, though an earlier delivery that did
\* not name it is handled after it.
NamedStayAttached ==
  Quiet /\ ~lost => \A i \in pr.names : ~link[i].detached

\* A merge that wrote an issue's link has also closed the issue, though its worker
\* stopped in between, unless somebody moved the issue after the merge.
MergeFolded ==
  Quiet /\ ~lost /\ merge # Idle =>
    \A i \in merge.names :
      link[i].state = "merged" /\ link[i].at = merge.at /\ issue[i].at < merge.n
        => issue[i].status = Completed

\* A move never undoes what a person did after the pull request's event.
PersonKept ==
  [][\A w \in Workers :
       worker[w].pc = "move" /\ worker'[w].pc # "move" /\ issue' # issue
         => issue[worker[w].of].person < worker[w].delivery.n]_vars

\* A merge reaches the links that read open, its delivery lost or not.
MergeReachesLinks ==
  \A i \in Issues :
    pr.state = "merged" /\ i \in pr.names /\ link[i].state \in OpenStates /\ ~link[i].detached
      ~> link[i].state = "merged" \/ link[i].detached \/ i \notin pr.names

\* A merge closes the issues it names, unless a person changed them after it.
MergeCloses ==
  Quiet /\ ~lost /\ merge # Idle =>
    \A i \in merge.names : issue[i].person < merge.n => issue[i].status = Completed
=============================================================================
