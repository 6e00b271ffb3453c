------------------------- MODULE PullRequestLinksProofs -------------------------
(***************************************************************************)
(* For any issues, any number of workers, deliveries, edits and faults:    *)
(* what a delivery does to an issue never undoes what a person did later,  *)
(* a merge that wrote a link has closed the issue, and, while no issue is  *)
(* taken off the pull request and put back, the links end where it is.     *)
(***************************************************************************)
EXTENDS PullRequestLinks, TLAPS

-----------------------------------------------------------------------------
(* The invariant.                                                          *)

IssueRow == [status : Unstarted..Completed, rev : Nat, at : 0..EVENTS, person : -1..EVENTS]

\* What a worker read of the issues is what they were: a row that stands at the
\* revision read is the row read.
Reads(x, rows) ==
  /\ x.read \in [x.delivery.names -> IssueRow]
  /\ x.todo \subseteq x.delivery.names
  /\ \A i \in x.delivery.names :
       /\ x.read[i].rev <= rows[i].rev
       /\ x.read[i].rev = rows[i].rev => x.read[i] = rows[i]

Linking(x) ==
  /\ x.pc = "link" /\ x.stale \in BOOLEAN
  /\ x = [pc |-> x.pc, delivery |-> x.delivery, read |-> x.read, todo |-> x.todo, stale |-> x.stale]

Folding(x) ==
  /\ x.pc \in {"put", "move"} /\ x.stale \in BOOLEAN
  /\ x.of \in x.delivery.names
  /\ x = [pc |-> x.pc, delivery |-> x.delivery, read |-> x.read, todo |-> x.todo, stale |-> x.stale,
          of |-> x.of, previous |-> x.previous]

Detaching(x) ==
  /\ x.pc \in {"list", "detach"} /\ x.todo \subseteq Issues
  /\ x = [pc |-> x.pc, delivery |-> x.delivery, todo |-> x.todo]

\* The links it is to detach are there.
Linked(x, links) == x.pc = "detach" => \A i \in x.todo : links[i].state # "none"

\* What a worker may have in hand.
JobOK(x, rows, links, at) ==
  \/ x = Idle
  \/ /\ x.delivery \in Delivery /\ x.delivery.at <= at
     /\ \/ (Linking(x) \/ Folding(x)) /\ Reads(x, rows)
        \/ Detaching(x) /\ Linked(x, links)

\* The pull request counts its deliveries at least as fast as its seconds.
SentOK ==
  /\ pr \in [state : {"none"} \cup DOMAIN Rank, names : SUBSET Issues, at : 0..EVENTS, n : 0..EVENTS]
  /\ pr.at <= pr.n
  /\ pr.state = "none" <=> pr.at = 0
  /\ merge \in Delivery \cup {Idle}
  /\ pr.state = "merged" => merge \in Delivery
  /\ sent \subseteq Delivery /\ queue \subseteq sent
  /\ \A d \in sent : d.at <= pr.at

LinksOK ==
  \A i \in Issues :
    \/ link[i] = NoLink
    \/ link[i] \in [state : DOMAIN Rank, at : 1..pr.at, detached : BOOLEAN]

\* A person's change of an issue is its last change, or an earlier one.
IssuesOK ==
  /\ issue \in [Issues -> IssueRow]
  /\ \A i \in Issues : issue[i].person <= issue[i].at /\ issue[i].at <= pr.n

Bounded ==
  /\ lost \in BOOLEAN
  /\ edits \in 0..EDITS /\ faults \in 0..FAULTS

LinksInv ==
  /\ SentOK /\ LinksOK /\ IssuesOK /\ Bounded
  /\ link = [i \in Issues |-> link[i]]
  /\ worker = [w \in Workers |-> worker[w]]
  /\ \A w \in Workers : JobOK(worker[w], issue, link, pr.at)

LEMMA States == DOMAIN Rank = OpenStates \cup {"closed", "merged"} /\ OpenStates = {"draft", "open"}
BY DEF Rank, OpenStates

\* The pieces add up to the type invariant.
LEMMA InvTypes == LinksInv => TypeOK
<1> SUFFICES ASSUME LinksInv PROVE TypeOK
  OBVIOUS
<1>1. ASSUME NEW w \in Workers
      PROVE  \/ worker[w] = Idle
             \/ /\ worker[w].pc \in {"link", "put", "move", "list", "detach"}
                /\ worker[w].delivery \in Delivery
                /\ worker[w].todo \subseteq Issues
                /\ worker[w].pc \in {"put", "move"} => worker[w].of \in worker[w].delivery.names
  <2>1. JobOK(worker[w], issue, link, pr.at)
    BY DEF LinksInv
  <2>2. worker[w].delivery \in Delivery => worker[w].delivery.names \subseteq Issues
    BY DEF Delivery
  <2> QED BY <2>1, <2>2 DEF JobOK, Linking, Folding, Detaching, Reads
<1> QED BY <1>1 DEF LinksInv, SentOK, LinksOK, IssuesOK, Bounded, IssueRow, TypeOK

-----------------------------------------------------------------------------
(* Jobs in hand while the rest moves.                                      *)

\* An issue's row changes only to a later revision, a link is never gone again, and time
\* does not go back.
Onward ==
  /\ pr.at <= pr'.at
  /\ \A i \in Issues : link[i].state # "none" => link'[i].state # "none"
  /\ \A i \in Issues : issue'[i] = issue[i] \/ issue'[i].rev > issue[i].rev

LEMMA JobKept ==
  ASSUME SentOK, SentOK', IssuesOK, Onward, IssuesOK', NEW x, JobOK(x, issue, link, pr.at)
  PROVE  JobOK(x, issue', link', pr'.at)
<1>1. CASE x = Idle
  BY <1>1 DEF JobOK
<1>2. CASE x # Idle
  <2>1. x.delivery \in Delivery /\ x.delivery.at <= pr.at
    BY <1>2 DEF JobOK
  <2>2. x.delivery.at \in Int /\ pr.at \in Int /\ pr'.at \in Int /\ x.delivery.names \subseteq Issues
    BY <2>1 DEF Delivery, SentOK
  <2>3. x.delivery.at <= pr'.at
    BY <2>1, <2>2 DEF Onward
  <2>4. Reads(x, issue) => Reads(x, issue')
    <3> SUFFICES ASSUME Reads(x, issue), NEW i \in x.delivery.names
                 PROVE  /\ x.read[i].rev <= issue'[i].rev
                        /\ x.read[i].rev = issue'[i].rev => x.read[i] = issue'[i]
      BY DEF Reads
    <3>1. x.read[i].rev \in Int /\ issue[i].rev \in Int /\ issue'[i].rev \in Int
      BY <2>2 DEF Reads, IssuesOK, IssueRow
    <3>2. issue'[i] = issue[i] \/ issue'[i].rev > issue[i].rev
      BY <2>2 DEF Onward
    <3> QED BY <3>1, <3>2 DEF Reads
  <2>5. Detaching(x) /\ Linked(x, link) => Linked(x, link')
    BY DEF Onward, Detaching, Linked
  <2> QED BY <1>2, <2>1, <2>3, <2>4, <2>5 DEF JobOK
<1> QED BY <1>1, <1>2

\* Time does not go back while neither the pull request nor an issue changes.
LEMMA StandsStill ==
  ASSUME SentOK, UNCHANGED <<pr, issue, link>>
  PROVE  Onward
BY DEF SentOK, Onward

\* One worker's hands change, to a job that fits.
LEMMA OneWorker ==
  ASSUME LinksInv, NEW w \in Workers, NEW x, worker' = [worker EXCEPT ![w] = x],
         JobOK(x, issue', link', pr'.at), Onward, SentOK', LinksOK', IssuesOK', Bounded',
         link' = [i \in Issues |-> link'[i]]
  PROVE  LinksInv'
<1>1. worker' = [v \in Workers |-> worker'[v]] /\ worker'[w] = x
      /\ \A v \in Workers \ {w} : worker'[v] = worker[v]
  BY DEF LinksInv
<1>2. ASSUME NEW v \in Workers
      PROVE  JobOK(worker'[v], issue', link', pr'.at)
  <2>1. CASE v = w
    BY <1>1, <2>1
  <2>2. CASE v # w
    BY <1>1, <2>2, JobKept DEF LinksInv
  <2> QED BY <2>1, <2>2
<1> QED BY <1>1, <1>2 DEF LinksInv

\* No worker's hands change.
LEMMA NoWorker ==
  ASSUME LinksInv, UNCHANGED worker, Onward, SentOK', LinksOK', IssuesOK', Bounded',
         link' = [i \in Issues |-> link'[i]]
  PROVE  LinksInv'
BY JobKept DEF LinksInv

\* The links stay well formed while none of them changes.
LEMMA LinksLater ==
  ASSUME SentOK, SentOK', LinksOK, pr.at <= pr'.at, UNCHANGED link
  PROVE  LinksOK'
<1>1. pr.at \in Int /\ pr'.at \in Int
  BY DEF SentOK
<1>2. 1..pr.at \subseteq 1..pr'.at
  BY <1>1
<1> QED BY <1>2 DEF LinksOK

-----------------------------------------------------------------------------
(* GitHub, and people.                                                     *)

\* A delivery is sent.
LEMMA SendKeeps ==
  ASSUME LinksInv, NEW action \in Actions, NEW state \in DOMAIN Rank, NEW names \in SUBSET Issues, NEW at \in {pr.at, pr.at + 1},
         at > 0, at <= pr.n + 1,
         Send(action, state, names, at), edits' \in 0..EDITS,
         pr.state = "merged" \/ action = "closed" \/ state # "merged"
  PROVE  LinksInv'
<1>1. /\ pr.n \in 0..EVENTS /\ pr.at \in 0..EVENTS /\ pr.n < EVENTS /\ EVENTS \in Nat
      /\ pr.at <= pr.n
  BY LinksAssumption DEF LinksInv, SentOK, Send
<1> DEFINE d == [n |-> pr.n + 1, action |-> action, state |-> state, names |-> names, at |-> at]
<1>2. /\ pr' = [state |-> state, names |-> names, at |-> at, n |-> pr.n + 1]
      /\ sent' = sent \cup {d} /\ queue' = queue \cup {d}
      /\ merge' = IF action = "closed" /\ state = "merged" THEN d ELSE merge
      /\ UNCHANGED <<worker, link, issue, lost, faults>>
  BY DEF Send
<1>3. d \in Delivery
  BY <1>1 DEF Delivery
<1>4. d.at = at
  OBVIOUS
<1> HIDE DEF d
<1>5. SentOK'
  <2>1. pr' \in [state : {"none"} \cup DOMAIN Rank, names : SUBSET Issues, at : 0..EVENTS, n : 0..EVENTS]
    BY <1>1, <1>2
  <2>2. \A e \in Delivery : e.at \in Int
    BY DEF Delivery
  <2>3. \A e \in sent : e.at <= pr'.at
    BY <1>1, <1>2, <2>2 DEF LinksInv, SentOK
  <2>4. merge' \in Delivery \cup {Idle} /\ (pr'.state = "merged" => merge' \in Delivery)
    BY <1>2, <1>3 DEF LinksInv, SentOK
  <2>5. d.at <= pr'.at /\ pr'.at <= pr'.n /\ pr'.at > 0 /\ pr'.state # "none"
    BY <1>1, <1>2, <1>4, States
  <2>6. \A e \in sent' : e.at <= pr'.at
    BY <1>2, <2>3, <2>5
  <2>7. sent' \subseteq Delivery /\ queue' \subseteq sent'
    BY <1>2, <1>3 DEF LinksInv, SentOK
  <2> QED BY <2>1, <2>4, <2>5, <2>6, <2>7 DEF SentOK
<1>6. Onward
  BY <1>1, <1>2 DEF Onward
<1>7. LinksOK'
  BY <1>2, <1>5, <1>6, LinksLater DEF LinksInv, Onward
<1>8. IssuesOK'
  BY <1>1, <1>2 DEF LinksInv, IssuesOK, IssueRow
<1> QED BY <1>2, <1>5, <1>6, <1>7, <1>8, NoWorker DEF LinksInv, Bounded

\* The pull request is opened, closed, merged, reopened or edited, or is a draft or no more.
LEMMA GitHubKeeps ==
  ASSUME LinksInv, Open \/ Close \/ Reopen \/ Redraft \/ Edit
  PROVE  LinksInv'
<1>1. /\ pr.at \in 0..EVENTS /\ pr.n \in 0..EVENTS /\ pr.at <= pr.n /\ EVENTS \in Nat
      /\ pr.names \in SUBSET Issues /\ pr.state \in {"none"} \cup DOMAIN Rank
      /\ pr.state # "none" => pr.at > 0
      /\ edits \in 0..EDITS /\ EDITS \in Nat
  BY LinksAssumption DEF LinksInv, SentOK, Bounded
<1>2. CASE Open
  <2>1. PICK state \in OpenStates, names \in SUBSET Issues : Send("opened", state, names, 1)
    BY <1>2 DEF Open
  <2>2. 1 \in {pr.at, pr.at + 1}
    BY <1>1, <1>2 DEF Open, LinksInv, SentOK
  <2>3. "opened" \in Actions /\ state # "merged" /\ state \in DOMAIN Rank
    BY States DEF Actions
  <2> QED BY <1>1, <1>2, <2>1, <2>2, <2>3, SendKeeps DEF Open
<1>3. CASE Close
  <2>1. PICK state \in {"closed", "merged"}, at \in {pr.at, pr.at + 1} :
          Send("closed", state, pr.names, at)
    BY <1>3 DEF Close
  <2>2. pr.at > 0 /\ "closed" \in Actions
    BY <1>1, <1>3, States DEF Close, Actions
  <2> QED BY <1>1, <1>3, <2>1, <2>2, SendKeeps, States DEF Close
<1>4. CASE Reopen
  <2>1. PICK state \in OpenStates : Send("reopened", state, pr.names, pr.at + 1)
    BY <1>4 DEF Reopen
  <2>2. "reopened" \in Actions /\ state # "merged" /\ state \in DOMAIN Rank
    BY States DEF Actions
  <2> QED BY <1>1, <1>4, <2>1, <2>2, SendKeeps DEF Reopen
<1>5. CASE Redraft
  <2>1. PICK action \in {"ready_for_review", "converted_to_draft"}, state \in OpenStates,
             at \in {pr.at, pr.at + 1} : Send(action, state, pr.names, at)
    BY <1>5, States DEF Redraft
  <2>2. action \in Actions /\ state # "merged" /\ state \in DOMAIN Rank /\ pr.at > 0 /\ edits' \in 0..EDITS
    BY <1>1, <1>5, States DEF Actions, Redraft
  <2> QED BY <1>1, <2>1, <2>2, SendKeeps
<1>6. CASE Edit
  <2>1. PICK names \in SUBSET Issues, at \in {pr.at, pr.at + 1} :
          Send("edited", pr.state, names, at)
    BY <1>6 DEF Edit
  <2>2. pr.at > 0 /\ pr.state \in DOMAIN Rank /\ edits' \in 0..EDITS /\ "edited" \in Actions
    BY <1>1, <1>6 DEF Edit, Actions
  <2> QED BY <1>1, <1>6, <2>1, <2>2, SendKeeps
<1> QED BY <1>2, <1>3, <1>4, <1>5, <1>6

\* A person changes an issue.
LEMMA ChangeKeeps ==
  ASSUME LinksInv, NEW i \in Issues, Change(i)
  PROVE  LinksInv'
<1>1. PICK status \in Unstarted..Completed :
        issue' = [issue EXCEPT ![i] =
          [status |-> status, rev |-> issue[i].rev + 1, at |-> pr.n, person |-> pr.n]]
  BY DEF Change
<1>2. UNCHANGED <<pr, merge, sent, queue, worker, link, lost, faults>> /\ edits' \in 0..EDITS
  BY LinksAssumption DEF Change, LinksInv, Bounded
<1>3. issue \in [Issues -> IssueRow] /\ pr.n \in 0..EVENTS /\ EVENTS \in Nat
  BY LinksAssumption DEF LinksInv, IssuesOK, SentOK
<1> DEFINE row == [status |-> status, rev |-> issue[i].rev + 1, at |-> pr.n, person |-> pr.n]
<1>4. row \in IssueRow /\ row.rev > issue[i].rev /\ row.person <= row.at /\ row.at <= pr.n
  BY <1>3 DEF IssueRow
<1> HIDE DEF row
<1>5. issue' = [issue EXCEPT ![i] = row]
  BY <1>1 DEF row
<1>6. IssuesOK'
  BY <1>2, <1>3, <1>4, <1>5 DEF LinksInv, IssuesOK
<1>7. SentOK'
  BY <1>2 DEF LinksInv, SentOK
<1>8. Onward
  BY <1>2, <1>3, <1>4, <1>5 DEF LinksInv, SentOK, Onward
<1> QED BY <1>2, <1>6, <1>7, <1>8, LinksLater, NoWorker DEF LinksInv, Bounded, Onward

\* A delivery is lost or comes again.
LEMMA QueueKeeps ==
  ASSUME LinksInv, NEW d \in sent, Lose(d) \/ Repeat(d)
  PROVE  LinksInv'
<1>1. UNCHANGED <<pr, merge, sent, worker, link, issue, edits>>
  BY DEF Lose, Repeat
<1>2. queue' \subseteq sent /\ lost' \in BOOLEAN /\ faults' \in 0..FAULTS
  <2>1. lost \in BOOLEAN /\ faults \in 0..FAULTS /\ FAULTS \in Nat /\ queue \subseteq sent
    BY LinksAssumption DEF LinksInv, SentOK, Bounded
  <2>2. CASE Lose(d)
    BY <2>1, <2>2 DEF Lose, Fault
  <2>3. CASE Repeat(d)
    BY <2>1, <2>3 DEF Repeat, Fault
  <2> QED BY <2>2, <2>3
<1>3. SentOK' /\ IssuesOK' /\ Bounded'
  BY <1>1, <1>2 DEF LinksInv, SentOK, IssuesOK, Bounded
<1>4. Onward
  BY <1>1, StandsStill DEF LinksInv
<1> QED BY <1>1, <1>3, <1>4, LinksLater, NoWorker DEF LinksInv, Onward

-----------------------------------------------------------------------------
(* A worker.                                                               *)

\* What a worker does that touches neither GitHub nor an issue.
LEMMA HandsOnly ==
  ASSUME LinksInv, NEW w \in Workers, NEW x, worker' = [worker EXCEPT ![w] = x],
         JobOK(x, issue, link, pr.at), UNCHANGED <<pr, merge, sent, issue, edits>>,
         queue' \subseteq sent, lost' \in BOOLEAN, faults' \in 0..FAULTS, UNCHANGED link
  PROVE  LinksInv'
<1>1. SentOK' /\ IssuesOK' /\ Bounded' /\ LinksOK' /\ link' = [i \in Issues |-> link'[i]]
  BY DEF LinksInv, SentOK, IssuesOK, Bounded, LinksOK
<1>2. Onward
  BY StandsStill DEF LinksInv
<1>3. JobOK(x, issue', link', pr'.at)
  OBVIOUS
<1> QED BY <1>1, <1>2, <1>3, OneWorker

\* The issues are read whole as a delivery is taken up.
LEMMA HandlingFits ==
  ASSUME IssuesOK, NEW d \in Delivery, NEW at, d.at <= at
  PROVE  JobOK(Handling(d), issue, link, at)
<1>1. d.names \subseteq Issues
  BY DEF Delivery
<1>2. CASE d.names # {}
  <2> DEFINE read == [i \in d.names |-> issue[i]]
             x == [pc |-> "link", delivery |-> d, read |-> read, todo |-> d.names, stale |-> FALSE]
  <2>1. Handling(d) = x
    BY <1>2 DEF Handling
  <2>2. read \in [d.names -> IssueRow] /\ \A i \in d.names : read[i] = issue[i] /\ issue[i].rev \in Int
    BY <1>1 DEF IssuesOK, IssueRow
  <2>3. /\ x.pc = "link" /\ x.delivery = d /\ x.read = read /\ x.todo = d.names /\ x.stale = FALSE
        /\ x = [pc |-> "link", delivery |-> d, read |-> read, todo |-> d.names, stale |-> FALSE]
    OBVIOUS
  <2> HIDE DEF x, read
  <2>4. Linking(x)
    BY <2>3 DEF Linking
  <2>5. Reads(x, issue)
    BY <2>2, <2>3 DEF Reads
  <2> QED BY <2>1, <2>3, <2>4, <2>5 DEF JobOK
<1>3. CASE d.names = {}
  <2>1. Detaching(Listing(d)) /\ Listing(d).delivery = d /\ Linked(Listing(d), link)
    BY DEF Listing, Detaching, Linked
  <2> QED BY <1>3, <2>1 DEF Handling, JobOK
<1> QED BY <1>2, <1>3

LEMMA ReceiveKeeps ==
  ASSUME LinksInv, NEW w \in Workers, NEW d \in sent, Receive(w, d)
  PROVE  LinksInv'
<1>1. d \in Delivery /\ d.at <= pr.at
  BY DEF LinksInv, SentOK
<1>2. JobOK(Handling(d), issue, link, pr.at)
  BY <1>1, HandlingFits DEF LinksInv
<1>3. queue' \subseteq sent
  BY DEF Receive, LinksInv, SentOK
<1> QED BY <1>2, <1>3, HandsOnly DEF Receive, At, LinksInv, LinksOK, Bounded

\* What is read back of GitHub is a delivery it might have sent.
LEMMA ResyncKeeps ==
  ASSUME LinksInv, NEW w \in Workers, Resync(w)
  PROVE  LinksInv'
<1> DEFINE d == [n |-> IF pr.state = "merged" THEN merge.n ELSE pr.n,
                 action |-> "closed", state |-> pr.state, names |-> pr.names, at |-> pr.at]
<1>1. pr.state \in DOMAIN Rank /\ pr.names \in SUBSET Issues /\ pr.at \in 1..EVENTS /\ pr.n \in 1..EVENTS
  BY LinksAssumption, States DEF Resync, Missed, LinksInv, SentOK
<1>2. (IF pr.state = "merged" THEN merge.n ELSE pr.n) \in 1..EVENTS
  BY <1>1 DEF LinksInv, SentOK, Delivery
<1>3. d \in Delivery /\ d.at <= pr.at
  BY <1>1, <1>2 DEF Delivery, Actions
<1>4. worker' = [worker EXCEPT ![w] = Handling(d)]
      /\ UNCHANGED <<pr, merge, sent, edits, queue, link, issue, lost, faults>>
  BY DEF Resync, At
<1> HIDE DEF d
<1>5. JobOK(Handling(d), issue, link, pr.at)
  BY <1>3, HandlingFits DEF LinksInv
<1> QED BY <1>4, <1>5, HandsOnly DEF LinksInv, LinksOK, Bounded, SentOK

LEMMA StopKeeps ==
  ASSUME LinksInv, NEW w \in Workers, Stop(w)
  PROVE  LinksInv'
<1>1. JobOK(Idle, issue, link, pr.at)
  BY DEF JobOK
<1>2. queue' \subseteq sent /\ faults' \in 0..FAULTS
  BY LinksAssumption DEF Stop, At, Fault, LinksInv, SentOK, Bounded
<1> QED BY <1>1, <1>2, HandsOnly DEF Stop, At, LinksInv, LinksOK, Bounded

\* A worker in the middle of an issue.
LEMMA InFold ==
  ASSUME LinksInv, NEW w \in Workers, worker[w].pc \in {"put", "move"}
  PROVE  /\ worker[w].delivery \in Delivery /\ worker[w].delivery.at <= pr.at
         /\ Folding(worker[w]) /\ Reads(worker[w], issue)
BY DEF LinksInv, JobOK, Idle, Linking, Folding, Detaching

LEMMA InLink ==
  ASSUME LinksInv, NEW w \in Workers, worker[w].pc = "link"
  PROVE  /\ worker[w].delivery \in Delivery /\ worker[w].delivery.at <= pr.at
         /\ Linking(worker[w]) /\ Reads(worker[w], issue)
BY DEF LinksInv, JobOK, Idle, Linking, Folding, Detaching

LEMMA InDetach ==
  ASSUME LinksInv, NEW w \in Workers, worker[w].pc \in {"list", "detach"}
  PROVE  /\ worker[w].delivery \in Delivery /\ worker[w].delivery.at <= pr.at
         /\ Detaching(worker[w]) /\ Linked(worker[w], link)
BY DEF LinksInv, JobOK, Idle, Linking, Folding, Detaching
\* Going on to the next issue, to the links or to rest.
LEMMA ProceedFits ==
  ASSUME LinksInv, NEW w \in Workers, worker[w].pc \in {"put", "move"}, NEW stale \in BOOLEAN,
         Proceed(w, stale), IssuesOK', SentOK', LinksOK', Bounded', Onward,
         link' = [i \in Issues |-> link'[i]]
  PROVE  LinksInv'
<1> DEFINE job  == worker[w]
           todo == job.todo \ {job.of}
           next == [pc |-> "link", delivery |-> job.delivery, read |-> job.read,
                    todo |-> todo, stale |-> job.stale \/ stale]
<1>1. /\ job.delivery \in Delivery /\ job.delivery.at <= pr.at
      /\ Folding(job) /\ Reads(job, issue)
  BY InFold
<1>2. JobOK(next, issue, link, pr.at)
  <2>1. /\ next.pc = "link" /\ next.delivery = job.delivery /\ next.read = job.read
        /\ next.todo = todo /\ next.stale = (job.stale \/ stale)
        /\ next = [pc |-> "link", delivery |-> job.delivery, read |-> job.read,
                   todo |-> todo, stale |-> job.stale \/ stale]
    OBVIOUS
  <2>2. (job.stale \/ stale) \in BOOLEAN
    OBVIOUS
  <2> HIDE DEF next
  <2>3. Linking(next)
    BY <2>1, <2>2 DEF Linking
  <2>4. Reads(next, issue)
    BY <1>1, <2>1 DEF Reads
  <2> QED BY <1>1, <2>1, <2>3, <2>4 DEF JobOK
<1>3. JobOK(Idle, issue, link, pr.at)
  BY DEF JobOK
<1>4. JobOK(Listing(job.delivery), issue, link, pr.at)
  <2>1. Detaching(Listing(job.delivery)) /\ Listing(job.delivery).delivery = job.delivery
       /\ Linked(Listing(job.delivery), link)
    BY DEF Listing, Detaching, Linked
  <2> QED BY <1>1, <2>1 DEF JobOK
<1> DEFINE x == IF todo # {} THEN next
                ELSE IF ~(job.stale \/ stale) /\ job.delivery.action \in DeliveryActions
                     THEN Listing(job.delivery)
                ELSE Idle
<1>5. worker' = [worker EXCEPT ![w] = x]
  BY DEF Proceed
<1> HIDE DEF next
<1>6. JobOK(x, issue, link, pr.at)
  BY <1>2, <1>3, <1>4
<1> HIDE DEF x
<1>7. JobOK(x, issue', link', pr'.at)
  BY <1>6, JobKept DEF LinksInv
<1> QED BY <1>5, <1>7, OneWorker

LEMMA GetLinkKeeps ==
  ASSUME LinksInv, NEW w \in Workers, GetLink(w)
  PROVE  LinksInv'
<1>1. /\ worker[w].delivery \in Delivery /\ worker[w].delivery.at <= pr.at
      /\ Linking(worker[w]) /\ Reads(worker[w], issue)
  BY InLink DEF GetLink, At
<1>2. PICK i \in worker[w].todo :
        worker' = [worker EXCEPT ![w] =
          [pc |-> "put", delivery |-> worker[w].delivery, read |-> worker[w].read,
           todo |-> worker[w].todo, stale |-> worker[w].stale, of |-> i, previous |-> link[i]]]
  BY DEF GetLink, LinksInv
<1> DEFINE x == [pc |-> "put", delivery |-> worker[w].delivery, read |-> worker[w].read,
                 todo |-> worker[w].todo, stale |-> worker[w].stale, of |-> i, previous |-> link[i]]
<1>3. /\ x.pc = "put" /\ x.delivery = worker[w].delivery /\ x.read = worker[w].read
      /\ x.todo = worker[w].todo /\ x.stale = worker[w].stale /\ x.of = i /\ x.previous = link[i]
      /\ x = [pc |-> "put", delivery |-> worker[w].delivery, read |-> worker[w].read,
              todo |-> worker[w].todo, stale |-> worker[w].stale, of |-> i, previous |-> link[i]]
  OBVIOUS
<1>4. worker' = [worker EXCEPT ![w] = x]
  BY <1>2
<1> HIDE DEF x
<1>5. Folding(x)
  BY <1>1, <1>3 DEF Folding, Linking, Reads
<1>6. Reads(x, issue)
  BY <1>1, <1>3 DEF Reads
<1>7. JobOK(x, issue, link, pr.at)
  BY <1>1, <1>3, <1>5, <1>6 DEF JobOK
<1> QED BY <1>4, <1>7, HandsOnly DEF GetLink, At, LinksInv, LinksOK, Bounded, SentOK

\* A link row is a delivery's, which is no later than GitHub's last.
LEMMA PutLinkKeeps ==
  ASSUME LinksInv, NEW w \in Workers, PutLink(w)
  PROVE  LinksInv'
<1> DEFINE job == worker[w]
           d   == job.delivery
<1>1. d \in Delivery /\ d.at <= pr.at /\ Folding(job) /\ Reads(job, issue) /\ job.pc = "put"
  BY InFold DEF PutLink, At
<1>2. UNCHANGED <<pr, merge, sent, edits, queue, issue, lost, faults>>
  BY DEF PutLink, At
<1>3. SentOK' /\ IssuesOK' /\ Bounded'
  BY <1>2 DEF LinksInv, SentOK, IssuesOK, Bounded
<1>4. CASE /\ link' = [link EXCEPT ![job.of] = [state |-> d.state, at |-> d.at, detached |-> FALSE]]
           /\ IF Target(d, job.previous) # {} THEN worker' = [worker EXCEPT ![w].pc = "move"]
                                              ELSE Proceed(w, FALSE)
  <2>1. [state |-> d.state, at |-> d.at, detached |-> FALSE]
          \in [state : DOMAIN Rank, at : 1..pr.at, detached : BOOLEAN]
    BY <1>1 DEF Delivery, LinksInv, SentOK
  <2>2. LinksOK'
    BY <1>2, <1>4, <2>1 DEF LinksInv, LinksOK
  <2>3. link' = [i \in Issues |-> link'[i]]
    BY <1>4 DEF LinksInv
  <2>4. Onward
    BY <1>1, <1>2, <1>4, States DEF Onward, LinksInv, SentOK, Delivery
  <2>5. CASE worker' = [worker EXCEPT ![w].pc = "move"]
    <3> DEFINE x == [job EXCEPT !.pc = "move"]
    <3>1. /\ x.pc = "move" /\ x.delivery = d /\ x.read = job.read /\ x.todo = job.todo
          /\ x.stale = job.stale /\ x.of = job.of /\ x.previous = job.previous
          /\ x = [pc |-> "move", delivery |-> d, read |-> job.read, todo |-> job.todo,
                  stale |-> job.stale, of |-> job.of, previous |-> job.previous]
      BY <1>1 DEF Folding
    <3>2. worker' = [worker EXCEPT ![w] = x]
      BY <2>5
    <3> HIDE DEF x
    <3>3. Folding(x)
      BY <1>1, <3>1 DEF Folding
    <3>4. Reads(x, issue)
      BY <1>1, <3>1 DEF Reads
    <3>5. JobOK(x, issue', link', pr'.at)
      BY <1>1, <1>2, <3>1, <3>3, <3>4 DEF JobOK
    <3> QED BY <1>3, <2>2, <2>3, <2>4, <3>2, <3>5, OneWorker
  <2>6. CASE Proceed(w, FALSE)
    BY <1>1, <1>3, <2>2, <2>3, <2>4, <2>6, ProceedFits
  <2> QED BY <1>4, <2>5, <2>6
<1>5. CASE Proceed(w, TRUE) /\ UNCHANGED link
  <2>1. LinksOK' /\ link' = [i \in Issues |-> link'[i]] /\ Onward
    BY <1>2, <1>5, StandsStill DEF LinksInv, LinksOK
  <2> QED BY <1>1, <1>3, <1>5, <2>1, ProceedFits
<1> QED BY <1>4, <1>5 DEF PutLink
\* A move is written over the row it was judged by.
LEMMA MoveWrites ==
  ASSUME LinksInv, NEW w \in Workers, MoveIssue(w), issue' # issue
  PROVE  LET job == worker[w]
             i   == job.of
         IN  /\ i \in Issues /\ job.delivery \in Delivery
             /\ issue[i].at < job.delivery.n
             /\ \E status \in Unstarted..Completed :
                  issue' = [issue EXCEPT ![i] =
                    [status |-> status, rev |-> issue[i].rev + 1, at |-> pr.n, person |-> issue[i].person]]
             /\ Proceed(w, FALSE) /\ UNCHANGED queue
<1> DEFINE job  == worker[w]
           d    == job.delivery
           i    == job.of
           read == job.read[i]
<1>1. d \in Delivery /\ Folding(job) /\ Reads(job, issue)
  BY InFold DEF MoveIssue, At
<1>2. PICK status \in Target(d, job.previous) :
        /\ MayApply(read, d, status) /\ Unmoved(i, read)
        /\ issue' = [issue EXCEPT ![i] =
             [status |-> status, rev |-> issue[i].rev + 1, at |-> pr.n, person |-> issue[i].person]]
        /\ Proceed(w, FALSE)
        /\ UNCHANGED queue
  BY DEF MoveIssue
<1>3. i \in d.names /\ d.names \subseteq Issues
  BY <1>1 DEF Folding, Delivery
<1>4. read = issue[i]
  BY <1>1, <1>2, <1>3 DEF Reads, Unmoved
<1>5. status \in Unstarted..Completed
  BY LinksAssumption DEF Target, Unstarted, Started, Completed
<1> QED BY <1>1, <1>2, <1>3, <1>4, <1>5 DEF MayApply

LEMMA MoveIssueKeeps ==
  ASSUME LinksInv, NEW w \in Workers, MoveIssue(w)
  PROVE  LinksInv'
<1> DEFINE job == worker[w]
           i   == job.of
<1>1. UNCHANGED <<pr, merge, sent, edits, link, lost, faults>> /\ job.pc = "move"
  BY DEF MoveIssue, At
<1>2. LinksOK' /\ Bounded' /\ link' = [k \in Issues |-> link'[k]]
  BY <1>1 DEF LinksInv, LinksOK, Bounded
<1>3. CASE issue' # issue
  <2>1. PICK status \in Unstarted..Completed :
          issue' = [issue EXCEPT ![i] =
            [status |-> status, rev |-> issue[i].rev + 1, at |-> pr.n, person |-> issue[i].person]]
    BY <1>3, MoveWrites
  <2>2. i \in Issues /\ Proceed(w, FALSE) /\ UNCHANGED queue
    BY <1>3, MoveWrites
  <2> DEFINE row == [status |-> status, rev |-> issue[i].rev + 1, at |-> pr.n, person |-> issue[i].person]
  <2>3. issue \in [Issues -> IssueRow] /\ pr.n \in 0..EVENTS /\ EVENTS \in Nat
        /\ issue[i].person <= issue[i].at /\ issue[i].at <= pr.n
    BY <2>2, LinksAssumption DEF LinksInv, IssuesOK, SentOK
  <2>4. row \in IssueRow /\ row.rev > issue[i].rev /\ row.person <= row.at /\ row.at <= pr.n
    BY <2>2, <2>3 DEF IssueRow
  <2> HIDE DEF row
  <2>5. issue' = [issue EXCEPT ![i] = row]
    BY <2>1 DEF row
  <2>6. IssuesOK'
    BY <1>1, <2>2, <2>3, <2>4, <2>5 DEF LinksInv, IssuesOK
  <2>7. SentOK'
    BY <1>1, <2>2 DEF LinksInv, SentOK
  <2>8. Onward
    BY <1>1, <2>2, <2>3, <2>4, <2>5 DEF LinksInv, SentOK, Onward
  <2> QED BY <1>1, <1>2, <2>2, <2>6, <2>7, <2>8, ProceedFits
<1>4. CASE issue' = issue
  <2>1. \/ Proceed(w, FALSE) /\ UNCHANGED queue
        \/ /\ queue' = queue \cup ({job.delivery} \cap sent)
           /\ worker' = [worker EXCEPT ![w] = Idle]
    BY DEF MoveIssue
  <2>2. queue' \subseteq sent
    BY <2>1 DEF LinksInv, SentOK
  <2>3. SentOK' /\ IssuesOK' /\ Onward
    BY <1>1, <1>4, <2>2, StandsStill DEF LinksInv, SentOK, IssuesOK
  <2>4. CASE Proceed(w, FALSE)
    BY <1>1, <1>2, <2>3, <2>4, ProceedFits
  <2>5. CASE worker' = [worker EXCEPT ![w] = Idle]
    <3>1. JobOK(Idle, issue', link', pr'.at)
      BY DEF JobOK
    <3> QED BY <1>2, <2>3, <2>5, <3>1, OneWorker
  <2> QED BY <2>1, <2>4, <2>5
<1> QED BY <1>3, <1>4

LEMMA ListLinksKeeps ==
  ASSUME LinksInv, NEW w \in Workers, ListLinks(w)
  PROVE  LinksInv'
<1> DEFINE gone == Unnamed(worker[w].delivery)
           x == [pc |-> "detach", delivery |-> worker[w].delivery, todo |-> gone]
<1>1. worker[w].delivery \in Delivery /\ worker[w].delivery.at <= pr.at /\ Detaching(worker[w])
  BY InDetach DEF ListLinks, At
<1>2. worker' = [worker EXCEPT ![w] = IF gone = {} THEN Idle ELSE x]
  BY DEF ListLinks, LinksInv
<1>3. gone \subseteq Issues /\ \A i \in gone : link[i].state # "none"
  BY DEF Unnamed
<1> HIDE DEF gone
<1>4. /\ x.pc = "detach" /\ x.delivery = worker[w].delivery /\ x.todo = gone
      /\ x = [pc |-> "detach", delivery |-> worker[w].delivery, todo |-> gone]
  OBVIOUS
<1> HIDE DEF x
<1>5. JobOK(x, issue, link, pr.at)
  BY <1>1, <1>3, <1>4 DEF JobOK, Detaching, Linked
<1>6. JobOK(IF gone = {} THEN Idle ELSE x, issue, link, pr.at)
  BY <1>5 DEF JobOK
<1> QED BY <1>2, <1>6, HandsOnly DEF ListLinks, At, LinksInv, LinksOK, Bounded, SentOK

LEMMA DetachKeeps ==
  ASSUME LinksInv, NEW w \in Workers, Detach(w)
  PROVE  LinksInv'
<1> DEFINE job == worker[w]
           d   == job.delivery
<1>1. d \in Delivery /\ d.at <= pr.at /\ Detaching(job) /\ Linked(job, link) /\ job.pc = "detach"
  BY InDetach DEF Detach, At
<1>2. PICK i \in job.todo :
        /\ link' = IF Older(link[i], d)
                   THEN [link EXCEPT ![i] = [state |-> link[i].state, at |-> d.at, detached |-> TRUE]]
                   ELSE link
        /\ worker' = [worker EXCEPT ![w] =
             IF job.todo = {i} THEN Idle ELSE [job EXCEPT !.todo = job.todo \ {i}]]
  BY DEF Detach, LinksInv
<1>3. UNCHANGED <<pr, merge, sent, edits, queue, issue, lost, faults>>
  BY DEF Detach, At
<1>4. i \in Issues /\ link[i].state # "none" /\ d.at \in 1..pr.at
  BY <1>1 DEF Detaching, Linked, Delivery, LinksInv, SentOK
<1>5. link[i] \in [state : DOMAIN Rank, at : 1..pr.at, detached : BOOLEAN]
  BY <1>4 DEF LinksInv, LinksOK, NoLink
<1>6. \/ link' = link
      \/ link' = [link EXCEPT ![i] = [state |-> link[i].state, at |-> d.at, detached |-> TRUE]]
  BY <1>2, <1>5
<1>7. [state |-> link[i].state, at |-> d.at, detached |-> TRUE]
        \in [state : DOMAIN Rank, at : 1..pr.at, detached : BOOLEAN]
  BY <1>4, <1>5
<1>8. LinksOK' /\ link' = [k \in Issues |-> link'[k]]
  BY <1>3, <1>6, <1>7 DEF LinksInv, LinksOK
<1>9. SentOK' /\ IssuesOK' /\ Bounded'
  BY <1>3 DEF LinksInv, SentOK, IssuesOK, Bounded
<1>10. Onward
  BY <1>3, <1>4, <1>6 DEF Onward, LinksInv, SentOK
<1> DEFINE x == [job EXCEPT !.todo = job.todo \ {i}]
<1>11. /\ x.pc = "detach" /\ x.delivery = d /\ x.todo = job.todo \ {i}
       /\ x = [pc |-> "detach", delivery |-> d, todo |-> job.todo \ {i}]
  BY <1>1 DEF Detaching
<1>12. worker' = [worker EXCEPT ![w] = IF job.todo = {i} THEN Idle ELSE x]
  BY <1>2
<1> HIDE DEF x
<1>13. JobOK(x, issue, link, pr.at)
  BY <1>1, <1>11 DEF JobOK, Detaching, Linked
<1>14. JobOK(IF job.todo = {i} THEN Idle ELSE x, issue, link, pr.at)
  BY <1>13 DEF JobOK
<1>15. JobOK(IF job.todo = {i} THEN Idle ELSE x, issue', link', pr'.at)
  BY <1>9, <1>10, <1>14, JobKept DEF LinksInv
<1> QED BY <1>8, <1>9, <1>10, <1>12, <1>15, OneWorker

-----------------------------------------------------------------------------
(* The theorems.                                                           *)

LEMMA InvStarts == Init => LinksInv
<1> SUFFICES ASSUME Init PROVE LinksInv
  OBVIOUS
<1>1. SentOK
  <2>1. /\ pr = [state |-> "none", names |-> {}, at |-> 0, n |-> 0]
        /\ merge \in {Idle} /\ sent = {} /\ queue = {}
    BY DEF Init
  <2>2. pr.state = "none" /\ pr.names = {} /\ pr.at = 0 /\ pr.n = 0 /\ EVENTS \in Nat
    BY <2>1, LinksAssumption
  <2>3. pr \in [state : {"none"} \cup DOMAIN Rank, names : SUBSET Issues, at : 0..EVENTS, n : 0..EVENTS]
    BY <2>1, <2>2
  <2> QED BY <2>1, <2>2, <2>3 DEF SentOK
<1>2. LinksOK /\ IssuesOK /\ Bounded
  <2>1. LinksOK
    BY DEF Init, LinksOK
  <2>2. issue \in [Issues -> IssueRow]
    BY LinksAssumption DEF Init, IssueRow, Unstarted, Completed
  <2>3. \A i \in Issues : issue[i].person <= issue[i].at /\ issue[i].at <= pr.n
    BY DEF Init
  <2>4. lost \in BOOLEAN /\ edits = 0 /\ faults = 0
    BY DEF Init
  <2>5. Bounded
    BY <2>4, LinksAssumption DEF Bounded
  <2> QED BY <2>1, <2>2, <2>3, <2>5 DEF IssuesOK
<1>3. \A w \in Workers : JobOK(worker[w], issue, link, pr.at)
  BY DEF Init, JobOK
<1> QED BY <1>1, <1>2, <1>3 DEF Init, LinksInv

\* Every step keeps what was read true of the rows that stand at the revision read.
LEMMA InvSteps == LinksInv /\ [Next]_vars => LinksInv'
<1> SUFFICES ASSUME LinksInv, [Next]_vars PROVE LinksInv'
  OBVIOUS
<1>1. CASE Open \/ Close \/ Reopen \/ Redraft \/ Edit
  BY <1>1, GitHubKeeps
<1>2. CASE \E i \in Issues : Change(i)
  BY <1>2, ChangeKeeps
<1>3. CASE \E d \in sent : Lose(d) \/ Repeat(d)
  BY <1>3, QueueKeeps
<1>4. ASSUME NEW w \in Workers, Step(w)
      PROVE  LinksInv'
  BY <1>4, GetLinkKeeps, PutLinkKeeps, MoveIssueKeeps, ListLinksKeeps, DetachKeeps DEF Step
<1>5. ASSUME NEW w \in Workers, Stop(w) \/ Resync(w) \/ \E d \in sent : Receive(w, d)
      PROVE  LinksInv'
  BY <1>5, StopKeeps, ResyncKeeps, ReceiveKeeps
<1>6. CASE UNCHANGED vars
  <2>1. SentOK' /\ LinksOK' /\ IssuesOK' /\ Bounded' /\ Onward
    BY <1>6, StandsStill DEF vars, LinksInv, SentOK, LinksOK, IssuesOK, Bounded
  <2> QED BY <1>6, <2>1, NoWorker DEF vars, LinksInv
<1> QED BY <1>1, <1>2, <1>3, <1>4, <1>5, <1>6 DEF Next

\* The events queue, the links and what each invocation read of the issues keep their
\* types, however many deliveries, workers and issues there are.
THEOREM TypeCorrect == Spec => []TypeOK
<1> QED BY InvStarts, InvSteps, InvTypes, PTL DEF Spec

\* A worker that moves an issue is done with it.
LEMMA MoveMoves ==
  ASSUME LinksInv, [Next]_vars, NEW w \in Workers,
         worker[w].pc = "move", worker'[w].pc # "move", issue' # issue
  PROVE  issue[worker[w].of].person < worker[w].delivery.n
<1>1. PICK v \in Workers : MoveIssue(v)
  <2>1. (\A i \in Issues : ~Change(i)) \/ UNCHANGED worker
    BY DEF Change
  <2> QED BY <2>1 DEF Next, vars, Open, Close, Reopen, Redraft, Edit, Send, Lose, Repeat, At,
                      Step, GetLink, PutLink, ListLinks, Detach, Stop, Resync, Receive
<1>2. Proceed(v, FALSE)
  BY <1>1, MoveWrites
<1>3. v = w
  BY <1>2 DEF Proceed, LinksInv
<1>4. /\ worker[w].of \in Issues /\ worker[w].delivery \in Delivery
      /\ issue[worker[w].of].at < worker[w].delivery.n
  BY <1>1, <1>3, MoveWrites
<1>5. /\ issue[worker[w].of] \in IssueRow /\ worker[w].delivery.n \in Int
      /\ issue[worker[w].of].person <= issue[worker[w].of].at
  BY <1>4 DEF LinksInv, IssuesOK, Delivery
<1> QED BY <1>4, <1>5 DEF IssueRow

\* A move never undoes what a person did after the pull request's event: the revision a
\* row was read at covers the whole of what the move was judged by, so nothing a person
\* did between the read and the write goes unseen.
THEOREM PersonHolds == Spec => PersonKept
<1>1. LinksInv /\ [Next]_vars =>
        [\A w \in Workers :
           worker[w].pc = "move" /\ worker'[w].pc # "move" /\ issue' # issue
             => issue[worker[w].of].person < worker[w].delivery.n]_vars
  BY MoveMoves
<1> QED BY <1>1, InvStarts, InvSteps, PTL DEF Spec, PersonKept
-----------------------------------------------------------------------------
(* What each step does, in the terms the links and the merge need.         *)

\* The merge is GitHub's last change of state.
MergeSent ==
  /\ pr.state = "merged" <=> merge # Idle
  /\ merge # Idle => merge \in sent /\ merge.action = "closed" /\ merge.state = "merged"

\* A delivery, as GitHub sends it.
Sends(d) ==
  /\ d \in Delivery /\ d.n = pr.n + 1
  /\ pr' = [state |-> d.state, names |-> d.names, at |-> d.at, n |-> d.n]
  /\ sent' = sent \cup {d} /\ queue' = queue \cup {d}
  /\ UNCHANGED <<worker, link, issue, lost>>
  /\ pr.at <= d.at
  /\ d.at = pr.at => pr.state # "none" /\ Rank[pr.state] <= Rank[d.state]
  /\ pr.state = "merged" => d.state = "merged"
  /\ merge' = IF pr.state # "merged" /\ d.state = "merged" THEN d ELSE merge
  /\ merge' # merge => d.action = "closed" /\ d.names = pr.names

LEMMA SendDoes ==
  ASSUME LinksInv, Open \/ Close \/ Reopen \/ Redraft \/ Edit
  PROVE  \E d : Sends(d)
<1>1. /\ pr.n \in 0..EVENTS /\ pr.at \in 0..EVENTS /\ EVENTS \in Nat /\ pr.at <= pr.n
      /\ pr.state \in {"none", "draft", "open", "closed", "merged"} /\ pr.names \in SUBSET Issues
      /\ pr.state = "none" <=> pr.at = 0
  BY LinksAssumption, States DEF LinksInv, SentOK
<1>2. ASSUME NEW action \in Actions, NEW state \in DOMAIN Rank,
             NEW names \in SUBSET Issues, NEW at \in {pr.at, pr.at + 1}, at > 0,
             Send(action, state, names, at),
             at = pr.at => pr.state # "none" /\ Rank[pr.state] <= Rank[state],
             pr.state = "merged" => state = "merged" /\ action # "closed",
             pr.state # "merged" /\ state = "merged" => action = "closed" /\ names = pr.names
      PROVE  \E d : Sends(d)
  <2> DEFINE e == [n |-> pr.n + 1, action |-> action, state |-> state, names |-> names, at |-> at]
  <2>1. /\ pr.n < EVENTS
        /\ pr' = [state |-> state, names |-> names, at |-> at, n |-> pr.n + 1]
        /\ sent' = sent \cup {e} /\ queue' = queue \cup {e}
        /\ merge' = IF action = "closed" /\ state = "merged" THEN e ELSE merge
        /\ UNCHANGED <<worker, link, issue, lost>>
    BY <1>2 DEF Send
  <2>2. e \in Delivery
    BY <1>1, <1>2, <2>1 DEF Delivery
  <2>3. e.n = pr.n + 1 /\ e.action = action /\ e.state = state /\ e.names = names /\ e.at = at
    OBVIOUS
  <2>4. pr.at <= at
    BY <1>1
  <2> HIDE DEF e
  <2>5. Sends(e)
    BY <1>2, <2>1, <2>2, <2>3, <2>4 DEF Sends
  <2> QED BY <2>5
<1>3. /\ Rank["draft"] = 0 /\ Rank["open"] = 0 /\ Rank["closed"] = 1 /\ Rank["merged"] = 2
      /\ {"opened", "edited", "closed", "reopened", "ready_for_review", "converted_to_draft"} \subseteq Actions
  BY DEF Rank, Actions
<1>4. CASE Open
  <2>1. PICK state \in OpenStates, names \in SUBSET Issues : Send("opened", state, names, 1)
    BY <1>4 DEF Open
  <2>2. pr.at = 0 /\ pr.state = "none" /\ 1 \in {pr.at, pr.at + 1}
    BY <1>1, <1>4 DEF Open
  <2> QED BY <1>2, <1>3, <2>1, <2>2, States
<1>5. CASE Close
  <2>1. PICK state \in {"closed", "merged"}, at \in {pr.at, pr.at + 1} :
          Send("closed", state, pr.names, at)
    BY <1>5 DEF Close
  <2>2. pr.state \in OpenStates /\ at > 0 /\ Rank[pr.state] <= Rank[state]
    BY <1>1, <1>3, <1>5, States DEF Close
  <2> QED BY <1>1, <1>2, <1>3, <2>1, <2>2, States
<1>6. CASE Reopen
  <2>1. PICK state \in OpenStates : Send("reopened", state, pr.names, pr.at + 1)
    BY <1>6 DEF Reopen
  <2>2. pr.at + 1 > 0 /\ pr.at + 1 # pr.at /\ pr.state = "closed"
    BY <1>1, <1>6 DEF Reopen
  <2> QED BY <1>1, <1>2, <1>3, <2>1, <2>2, States
<1>7. CASE Redraft
  <2>1. PICK action \in {"ready_for_review", "converted_to_draft"}, state \in OpenStates,
             at \in {pr.at, pr.at + 1} : Send(action, state, pr.names, at)
    BY <1>7, States DEF Redraft
  <2>2. pr.state \in OpenStates /\ at > 0 /\ Rank[pr.state] <= Rank[state]
    BY <1>1, <1>3, <1>7, States DEF Redraft
  <2> QED BY <1>1, <1>2, <1>3, <2>1, <2>2, States
<1>8. CASE Edit
  <2>1. PICK names \in SUBSET Issues, at \in {pr.at, pr.at + 1} :
          Send("edited", pr.state, names, at)
    BY <1>8 DEF Edit
  <2>2. pr.state \in DOMAIN Rank /\ at > 0 /\ Rank[pr.state] <= Rank[pr.state] /\ pr.state # "none"
    BY <1>1, <1>3, <1>8, States DEF Edit
  <2> QED BY <1>2, <1>3, <2>1, <2>2
<1> QED BY <1>4, <1>5, <1>6, <1>7, <1>8

\* All but one worker keep what they have, and GitHub stands still.
OnlyHand(w) ==
  /\ \A v \in Workers \ {w} : worker'[v] = worker[v]
  /\ UNCHANGED <<pr, merge, sent, lost>>

SameJob(w) == worker'[w].delivery = worker[w].delivery /\ worker'[w].read = worker[w].read

\* The issue in hand is off the list; after the last one the job is over or lists links.
DoneWith(w) ==
  \/ SameJob(w) /\ worker'[w].pc = "link" /\ worker'[w].todo = worker[w].todo \ {worker[w].of}
  \/ /\ worker[w].todo \subseteq {worker[w].of}
     /\ \/ worker'[w] = Idle
        \/ worker'[w] = Listing(worker[w].delivery) /\ worker[w].delivery.action # "closed"

LEMMA ProceedDoes ==
  ASSUME LinksInv, NEW w \in Workers, NEW stale, Proceed(w, stale)
  PROVE  DoneWith(w) /\ \A v \in Workers \ {w} : worker'[v] = worker[v]
<1> DEFINE next == [pc |-> "link", delivery |-> worker[w].delivery, read |-> worker[w].read,
                    todo |-> worker[w].todo \ {worker[w].of}, stale |-> worker[w].stale \/ stale]
           x == IF worker[w].todo \ {worker[w].of} # {} THEN next
                ELSE IF ~(worker[w].stale \/ stale) /\ worker[w].delivery.action \in DeliveryActions
                     THEN Listing(worker[w].delivery)
                ELSE Idle
<1>1. worker' = [worker EXCEPT ![w] = x]
  BY DEF Proceed
<1>2. /\ next.pc = "link" /\ next.delivery = worker[w].delivery /\ next.read = worker[w].read
      /\ next.todo = worker[w].todo \ {worker[w].of}
  OBVIOUS
<1> HIDE DEF next
<1>3. worker'[w] = x /\ \A v \in Workers \ {w} : worker'[v] = worker[v]
  BY <1>1 DEF LinksInv
<1>4. worker[w].delivery.action \in DeliveryActions => worker[w].delivery.action # "closed"
  BY DEF DeliveryActions
<1> QED BY <1>2, <1>3, <1>4 DEF DoneWith, SameJob

\* Taking a delivery up.
LEMMA HandlingDoes ==
  ASSUME NEW d
  PROVE  /\ d.names # {} => /\ Handling(d).pc = "link" /\ Handling(d).delivery = d
                            /\ Handling(d).todo = d.names
                            /\ Handling(d).read = [i \in d.names |-> issue[i]]
         /\ d.names = {} => Handling(d) = Idle \/ (Handling(d) = Listing(d) /\ d.action # "closed")
<1> DEFINE x == [pc |-> "link", delivery |-> d, read |-> [i \in d.names |-> issue[i]],
                 todo |-> d.names, stale |-> FALSE]
<1>1. /\ x.pc = "link" /\ x.delivery = d /\ x.todo = d.names
      /\ x.read = [i \in d.names |-> issue[i]]
  OBVIOUS
<1>2. CASE d.names # {}
  <2>1. Handling(d) = x
    BY <1>2 DEF Handling
  <2> HIDE DEF x
  <2> QED BY <1>1, <1>2, <2>1
<1>3. d.names = {} => Handling(d) = Idle \/ (Handling(d) = Listing(d) /\ d.action # "closed")
  BY DEF Handling, DeliveryActions
<1> QED BY <1>2, <1>3

\* A delivery that is taken up, GitHub's or one read back.
Taking(w, d) ==
  /\ OnlyHand(w) /\ worker[w].pc = "idle" /\ worker'[w] = Handling(d)
  /\ d \in Delivery /\ d.n <= pr.n /\ UNCHANGED <<link, issue>>

LEMMA ReceiveDoes ==
  ASSUME LinksInv, \A d \in sent : d.n <= pr.n, NEW w \in Workers, NEW d \in sent, Receive(w, d)
  PROVE  Taking(w, d) /\ queue' = queue \ {d}
<1>1. worker'[w] = Handling(d) /\ \A v \in Workers \ {w} : worker'[v] = worker[v]
  BY DEF Receive, LinksInv
<1> QED BY <1>1 DEF Receive, At, Taking, OnlyHand, LinksInv, SentOK

LEMMA ResyncDoes ==
  ASSUME LinksInv, MergeSent, \A d \in sent : d.n <= pr.n, NEW w \in Workers, Resync(w)
  PROVE  /\ UNCHANGED queue
         /\ \E d : /\ Taking(w, d) /\ d.action = "closed"
                   /\ d.state = pr.state /\ d.names = pr.names /\ d.at = pr.at
<1> DEFINE e == [n |-> IF pr.state = "merged" THEN merge.n ELSE pr.n,
                 action |-> "closed", state |-> pr.state, names |-> pr.names, at |-> pr.at]
<1>1. pr.state \in DOMAIN Rank /\ pr.names \in SUBSET Issues /\ pr.at \in 1..EVENTS /\ pr.n \in 1..EVENTS
  BY LinksAssumption, States DEF Resync, Missed, LinksInv, SentOK
<1>2. (IF pr.state = "merged" THEN merge.n ELSE pr.n) \in 1..EVENTS
  BY <1>1 DEF LinksInv, SentOK, Delivery
<1>3. (IF pr.state = "merged" THEN merge.n ELSE pr.n) <= pr.n
  BY <1>1 DEF MergeSent
<1>4. /\ e \in Delivery /\ e.n <= pr.n /\ e.action = "closed" /\ e.state = pr.state
      /\ e.names = pr.names /\ e.at = pr.at
  BY <1>1, <1>2, <1>3 DEF Delivery, Actions
<1>5. worker' = [worker EXCEPT ![w] = Handling(e)] /\ worker[w].pc = "idle"
      /\ UNCHANGED <<pr, merge, sent, queue, link, issue, lost>>
  BY DEF Resync, At
<1> HIDE DEF e
<1>6. worker'[w] = Handling(e) /\ \A v \in Workers \ {w} : worker'[v] = worker[v]
  BY <1>5 DEF LinksInv
<1>7. Taking(w, e)
  BY <1>4, <1>5, <1>6 DEF Taking, OnlyHand
<1> QED BY <1>4, <1>5, <1>7

LEMMA StopDoes ==
  ASSUME LinksInv, NEW w \in Workers, Stop(w)
  PROVE  /\ OnlyHand(w) /\ worker'[w] = Idle /\ UNCHANGED <<link, issue>>
         /\ queue' = queue \cup ({worker[w].delivery} \cap sent)
<1>1. worker'[w] = Idle /\ \A v \in Workers \ {w} : worker'[v] = worker[v]
  BY DEF Stop, LinksInv
<1> QED BY <1>1 DEF Stop, At, OnlyHand

LEMMA GetLinkDoes ==
  ASSUME LinksInv, NEW w \in Workers, GetLink(w)
  PROVE  /\ OnlyHand(w) /\ UNCHANGED <<queue, link, issue>> /\ SameJob(w)
         /\ worker[w].pc = "link" /\ worker'[w].pc = "put"
         /\ worker'[w].todo = worker[w].todo /\ worker'[w].of \in worker[w].todo
         /\ worker'[w].previous = link[worker'[w].of]
<1>1. PICK i \in worker[w].todo :
        worker' = [worker EXCEPT ![w] =
          [pc |-> "put", delivery |-> worker[w].delivery, read |-> worker[w].read,
           todo |-> worker[w].todo, stale |-> worker[w].stale, of |-> i, previous |-> link[i]]]
  BY DEF GetLink, LinksInv
<1>2. \A v \in Workers \ {w} : worker'[v] = worker[v]
  BY <1>1 DEF LinksInv
<1>3. worker'[w] = [pc |-> "put", delivery |-> worker[w].delivery, read |-> worker[w].read,
                    todo |-> worker[w].todo, stale |-> worker[w].stale, of |-> i, previous |-> link[i]]
  BY <1>1 DEF LinksInv
<1>4. /\ worker'[w].pc = "put" /\ worker'[w].delivery = worker[w].delivery
      /\ worker'[w].read = worker[w].read /\ worker'[w].todo = worker[w].todo
      /\ worker'[w].of = i /\ worker'[w].previous = link[i]
  BY <1>3
<1> QED BY <1>2, <1>4 DEF GetLink, At, OnlyHand, SameJob

\* The link as the delivery writes it.
Written(d) == [state |-> d.state, at |-> d.at, detached |-> FALSE]

LEMMA PutLinkDoes ==
  ASSUME LinksInv, NEW w \in Workers, PutLink(w)
  PROVE  LET job == worker[w]
             d   == job.delivery
             takes == ~LeftToMerge(d, job.previous) /\ Ordered(link[job.of], d)
         IN  /\ OnlyHand(w) /\ UNCHANGED <<queue, issue>> /\ job.pc = "put"
             /\ job.of \in d.names /\ d \in Delivery
             /\ \/ /\ takes /\ link' = [link EXCEPT ![job.of] = Written(d)]
                   /\ \/ /\ Target(d, job.previous) # {} /\ SameJob(w)
                         /\ worker'[w].pc = "move" /\ worker'[w].todo = job.todo
                         /\ worker'[w].of = job.of
                      \/ Target(d, job.previous) = {} /\ DoneWith(w)
                \/ ~takes /\ UNCHANGED link /\ DoneWith(w)
<1> DEFINE job == worker[w]
           d   == job.delivery
           takes == ~LeftToMerge(d, job.previous) /\ Ordered(link[job.of], d)
<1>1. d \in Delivery /\ Folding(job) /\ job.pc = "put"
  BY InFold DEF PutLink, At
<1>2. UNCHANGED <<pr, merge, sent, queue, issue, lost>>
  BY DEF PutLink, At
<1>3. \/ /\ takes /\ link' = [link EXCEPT ![job.of] = Written(d)]
         /\ IF Target(d, job.previous) # {} THEN worker' = [worker EXCEPT ![w].pc = "move"]
                                            ELSE Proceed(w, FALSE)
      \/ ~takes /\ Proceed(w, TRUE) /\ UNCHANGED link
  BY DEF PutLink, Written
<1>4. ASSUME worker' = [worker EXCEPT ![w].pc = "move"]
      PROVE  /\ \A v \in Workers \ {w} : worker'[v] = worker[v]
             /\ SameJob(w) /\ worker'[w].pc = "move" /\ worker'[w].todo = job.todo
             /\ worker'[w].of = job.of
  <2>1. worker'[w] = [worker[w] EXCEPT !.pc = "move"] /\ \A v \in Workers \ {w} : worker'[v] = worker[v]
    BY <1>4 DEF LinksInv
  <2> QED BY <1>1, <2>1 DEF Folding, SameJob
<1> HIDE DEF takes
<1>5. OnlyHand(w)
  BY <1>2, <1>3, <1>4, ProceedDoes DEF OnlyHand
<1>6. \/ /\ takes /\ link' = [link EXCEPT ![job.of] = Written(d)]
         /\ \/ /\ Target(d, job.previous) # {} /\ SameJob(w)
               /\ worker'[w].pc = "move" /\ worker'[w].todo = job.todo /\ worker'[w].of = job.of
            \/ Target(d, job.previous) = {} /\ DoneWith(w)
      \/ ~takes /\ UNCHANGED link /\ DoneWith(w)
  BY <1>3, <1>4, ProceedDoes
<1> QED BY <1>1, <1>2, <1>5, <1>6 DEF takes, Folding

LEMMA MoveIssueDoes ==
  ASSUME LinksInv, NEW w \in Workers, MoveIssue(w)
  PROVE  LET job == worker[w]
             d   == job.delivery
             i   == job.of
         IN  /\ OnlyHand(w) /\ UNCHANGED link /\ job.pc = "move" /\ i \in d.names /\ i \in Issues
             /\ d \in Delivery /\ job.read[i] \in IssueRow
             /\ \E status \in Target(d, job.previous) :
                  \/ /\ ~MayApply(job.read[i], d, status)
                     /\ DoneWith(w) /\ UNCHANGED <<queue, issue>>
                  \/ /\ \A k \in Issues \ {i} : issue'[k] = issue[k]
                     /\ issue'[i].at = pr.n /\ issue'[i].status = status
                     /\ DoneWith(w) /\ UNCHANGED queue
                  \/ /\ queue' = queue \cup ({d} \cap sent)
                     /\ worker'[w] = Idle /\ UNCHANGED issue
<1> DEFINE job == worker[w]
           d   == job.delivery
           i   == job.of
<1>1. d \in Delivery /\ Folding(job) /\ Reads(job, issue) /\ job.pc = "move"
  BY InFold DEF MoveIssue, At
<1>2. i \in d.names /\ i \in Issues /\ job.read[i] \in IssueRow
  BY <1>1 DEF Folding, Reads, Delivery
<1>3. UNCHANGED <<pr, merge, sent, link, lost>>
  BY DEF MoveIssue, At
<1>4. PICK status \in Target(d, job.previous) :
        \/ /\ ~MayApply(job.read[i], d, status)
           /\ Proceed(w, FALSE) /\ UNCHANGED <<queue, issue>>
        \/ /\ issue' = [issue EXCEPT ![i] =
                [status |-> status, rev |-> issue[i].rev + 1, at |-> pr.n, person |-> issue[i].person]]
           /\ Proceed(w, FALSE) /\ UNCHANGED queue
        \/ /\ queue' = queue \cup ({d} \cap sent)
           /\ worker' = [worker EXCEPT ![w] = Idle] /\ UNCHANGED issue
  BY DEF MoveIssue
<1>5. ASSUME issue' = [issue EXCEPT ![i] =
               [status |-> status, rev |-> issue[i].rev + 1, at |-> pr.n, person |-> issue[i].person]]
      PROVE  /\ \A k \in Issues \ {i} : issue'[k] = issue[k]
             /\ issue'[i].at = pr.n /\ issue'[i].status = status
  BY <1>2, <1>5 DEF LinksInv, IssuesOK
<1>6. ASSUME worker' = [worker EXCEPT ![w] = Idle]
      PROVE  worker'[w] = Idle /\ \A v \in Workers \ {w} : worker'[v] = worker[v]
  BY <1>6 DEF LinksInv
<1>7. OnlyHand(w)
  BY <1>3, <1>4, <1>6, ProceedDoes DEF OnlyHand
<1>8. \/ /\ ~MayApply(job.read[i], d, status)
         /\ DoneWith(w) /\ UNCHANGED <<queue, issue>>
      \/ /\ \A k \in Issues \ {i} : issue'[k] = issue[k]
         /\ issue'[i].at = pr.n /\ issue'[i].status = status
         /\ DoneWith(w) /\ UNCHANGED queue
      \/ /\ queue' = queue \cup ({d} \cap sent)
         /\ worker'[w] = Idle /\ UNCHANGED issue
  BY <1>4, <1>5, <1>6, ProceedDoes
<1> QED BY <1>1, <1>2, <1>3, <1>7, <1>8

LEMMA ListLinksDoes ==
  ASSUME LinksInv, NEW w \in Workers, ListLinks(w)
  PROVE  /\ OnlyHand(w) /\ UNCHANGED <<queue, link, issue>> /\ worker[w].pc = "list"
         /\ \/ worker'[w] = Idle
            \/ /\ worker'[w].pc = "detach" /\ worker'[w].delivery = worker[w].delivery
               /\ worker'[w].todo = Unnamed(worker[w].delivery)
<1>1. worker' = [worker EXCEPT ![w] =
        IF Unnamed(worker[w].delivery) = {} THEN Idle
        ELSE [pc |-> "detach", delivery |-> worker[w].delivery, todo |-> Unnamed(worker[w].delivery)]]
  BY DEF ListLinks, LinksInv
<1>2. \A v \in Workers \ {w} : worker'[v] = worker[v]
  BY <1>1 DEF LinksInv
<1>3. worker'[w] = IF Unnamed(worker[w].delivery) = {} THEN Idle
        ELSE [pc |-> "detach", delivery |-> worker[w].delivery, todo |-> Unnamed(worker[w].delivery)]
  BY <1>1 DEF LinksInv
<1>4. \/ worker'[w] = Idle
      \/ worker'[w] = [pc |-> "detach", delivery |-> worker[w].delivery, todo |-> Unnamed(worker[w].delivery)]
  BY <1>3
<1> QED BY <1>2, <1>4 DEF ListLinks, At, OnlyHand

LEMMA DetachDoes ==
  ASSUME LinksInv, NEW w \in Workers, Detach(w)
  PROVE  /\ OnlyHand(w) /\ UNCHANGED <<queue, issue>> /\ worker[w].pc = "detach"
         /\ \/ worker'[w] = Idle
            \/ /\ worker'[w].pc = "detach" /\ worker'[w].delivery = worker[w].delivery
               /\ worker'[w].todo \subseteq worker[w].todo
         /\ \E i \in worker[w].todo :
              /\ i \in Issues /\ link[i].state # "none"
              /\ \/ UNCHANGED link
                 \/ /\ Older(link[i], worker[w].delivery)
                    /\ link' = [link EXCEPT ![i] = [state |-> link[i].state,
                                                    at |-> worker[w].delivery.at, detached |-> TRUE]]
<1> DEFINE job == worker[w]
           d   == job.delivery
<1>1. d \in Delivery /\ Detaching(job) /\ Linked(job, link) /\ job.pc = "detach"
  BY InDetach DEF Detach, At
<1>2. PICK i \in job.todo :
        /\ link' = IF Older(link[i], d)
                   THEN [link EXCEPT ![i] = [state |-> link[i].state, at |-> d.at, detached |-> TRUE]]
                   ELSE link
        /\ worker' = [worker EXCEPT ![w] =
             IF job.todo = {i} THEN Idle ELSE [job EXCEPT !.todo = job.todo \ {i}]]
  BY DEF Detach, LinksInv
<1>3. UNCHANGED <<pr, merge, sent, queue, issue, lost>>
  BY DEF Detach, At
<1>4. i \in Issues /\ link[i].state # "none"
  BY <1>1 DEF Detaching, Linked
<1>5. /\ \A v \in Workers \ {w} : worker'[v] = worker[v]
      /\ worker'[w] = IF job.todo = {i} THEN Idle ELSE [job EXCEPT !.todo = job.todo \ {i}]
  BY <1>2 DEF LinksInv
<1>6. LET x == [job EXCEPT !.todo = job.todo \ {i}]
      IN  x.pc = "detach" /\ x.delivery = d /\ x.todo = job.todo \ {i}
  BY <1>1 DEF Detaching
<1>7. \/ worker'[w] = Idle
      \/ worker'[w].pc = "detach" /\ worker'[w].delivery = d /\ worker'[w].todo \subseteq job.todo
  BY <1>5, <1>6
<1> QED BY <1>1, <1>2, <1>3, <1>4, <1>5, <1>7 DEF OnlyHand

-----------------------------------------------------------------------------
(* The merge.                                                              *)

\* The issue is closed, or was changed after the merge, or its link is a later delivery's.
Settled(i) == link[i].at > merge.at \/ issue[i].at >= merge.n \/ issue[i].status = Completed

Folds(x) == x.pc \in {"link", "put", "move"}

\* A worker that has yet to fold the delivery into the issue.
ToMove(x, d, i) == Folds(x) /\ x.delivery = d /\ i \in x.todo

\* What is in hand is what the row still is, unless that was changed after the delivery.
FreshReads(x, rows, n) ==
  Folds(x) =>
    /\ \A i \in x.delivery.names : x.read[i] = rows[i] \/ rows[i].at >= x.delivery.n
    /\ x.delivery.n <= n
    /\ x.pc \in {"put", "move"} => x.of \in x.todo

\* The merge is on its way to each issue it names, or has done with it.
MergeInv ==
  /\ MergeSent
  /\ \A d \in sent : d.n <= pr.n
  /\ \A w \in Workers : FreshReads(worker[w], issue, pr.n)
  /\ merge # Idle => \A i \in merge.names :
       \/ lost \/ Settled(i) \/ merge \in queue
       \/ \E w \in Workers : ToMove(worker[w], merge, i)

\* Links do not go back in time, and a row that is changed is stamped with the present.
Later ==
  /\ \A i \in Issues : link[i].at <= link'[i].at
  /\ \A i \in Issues : issue'[i] = issue[i] \/ issue'[i].at = pr.n

LEMMA Stays ==
  ASSUME LinksInv, UNCHANGED <<link, issue>>
  PROVE  Later
<1>1. \A i \in Issues : link[i].at \in Int
  BY DEF LinksInv, LinksOK, NoLink, SentOK
<1> QED BY <1>1 DEF Later

LEMMA SettledStays ==
  ASSUME LinksInv, LinksInv', MergeInv, Later, UNCHANGED merge, merge # Idle,
         NEW i \in merge.names, Settled(i)
  PROVE  Settled(i)'
<1>1. i \in Issues /\ merge \in Delivery /\ merge.at \in Int /\ merge.n \in Int /\ merge.n <= pr.n
  BY DEF LinksInv, SentOK, Delivery, MergeInv, MergeSent
<1>2. link[i].at \in Int /\ link'[i].at \in Int /\ issue[i].at \in Int /\ issue'[i].at \in Int /\ pr.n \in Int
  BY <1>1 DEF LinksInv, LinksOK, NoLink, SentOK, IssuesOK, IssueRow
<1>3. link[i].at > merge.at => link'[i].at > merge.at
  BY <1>1, <1>2 DEF Later
<1>4. issue[i].at >= merge.n => issue'[i].at >= merge.n
  BY <1>1, <1>2 DEF Later
<1>5. issue[i].status = Completed => issue'[i].status = Completed \/ issue'[i].at >= merge.n
  BY <1>1, <1>2 DEF Later
<1> QED BY <1>3, <1>4, <1>5 DEF Settled

LEMMA FreshStays ==
  ASSUME LinksInv, LinksInv', Later, pr.n <= pr'.n, NEW x, x = Idle \/ x.delivery \in Delivery,
         FreshReads(x, issue, pr.n)
  PROVE  FreshReads(x, issue', pr'.n)
<1> SUFFICES ASSUME Folds(x)
             PROVE  /\ \A i \in x.delivery.names : x.read[i] = issue'[i] \/ issue'[i].at >= x.delivery.n
                    /\ x.delivery.n <= pr'.n
                    /\ x.pc \in {"put", "move"} => x.of \in x.todo
  BY DEF FreshReads
<1>1. x.delivery \in Delivery /\ x.delivery.n \in Int /\ x.delivery.names \subseteq Issues
  BY DEF Folds, Idle, Delivery
<1>2. pr.n \in Int /\ pr'.n \in Int
  BY DEF LinksInv, SentOK
<1>3. x.delivery.n <= pr.n /\ (x.pc \in {"put", "move"} => x.of \in x.todo)
      /\ \A i \in x.delivery.names : x.read[i] = issue[i] \/ issue[i].at >= x.delivery.n
  BY DEF FreshReads
<1>4. ASSUME NEW i \in x.delivery.names
      PROVE  x.read[i] = issue'[i] \/ issue'[i].at >= x.delivery.n
  <2>1. issue'[i] = issue[i] \/ issue'[i].at = pr.n
    BY <1>1 DEF Later
  <2> QED BY <1>1, <1>2, <1>3, <2>1
<1> QED BY <1>1, <1>2, <1>3, <1>4

LEMMA InHand ==
  ASSUME LinksInv, NEW w \in Workers
  PROVE  worker[w] = Idle \/ worker[w].delivery \in Delivery
BY DEF LinksInv, JobOK

\* One worker's step: it gives up the merge only for the queue, or with the issue settled.
LEMMA MergeByHand ==
  ASSUME LinksInv, LinksInv', MergeInv, NEW w \in Workers, OnlyHand(w), Later,
         FreshReads(worker'[w], issue', pr.n),
         merge # Idle => \A i \in merge.names :
           merge \in queue \/ ToMove(worker[w], merge, i)
             => Settled(i)' \/ merge \in queue' \/ ToMove(worker'[w], merge, i)
  PROVE  MergeInv'
<1>1. UNCHANGED <<pr, merge, sent, lost>> /\ \A v \in Workers \ {w} : worker'[v] = worker[v]
  BY DEF OnlyHand
<1>2. MergeSent' /\ \A d \in sent' : d.n <= pr'.n
  BY <1>1 DEF MergeInv, MergeSent
<1>3. ASSUME NEW v \in Workers
      PROVE  FreshReads(worker'[v], issue', pr'.n)
  <2>1. CASE v = w
    BY <1>1, <2>1
  <2>2. CASE v # w
    <3>1. pr.n <= pr'.n
      BY <1>1 DEF LinksInv, SentOK
    <3>2. FreshReads(worker[v], issue, pr.n)
      BY DEF MergeInv
    <3>3. FreshReads(worker[v], issue', pr'.n)
      BY <3>1, <3>2, InHand, FreshStays
    <3> QED BY <1>1, <2>2, <3>3
  <2> QED BY <2>1, <2>2
<1>4. ASSUME merge # Idle, NEW i \in merge.names
      PROVE  \/ lost' \/ Settled(i)' \/ merge \in queue'
             \/ \E v \in Workers : ToMove(worker'[v], merge, i)
  <2>1. CASE lost
    BY <1>1, <2>1
  <2>2. CASE Settled(i)
    BY <1>1, <1>4, <2>2, SettledStays
  <2>3. CASE merge \in queue \/ ToMove(worker[w], merge, i)
    BY <1>4, <2>3
  <2>4. CASE \E v \in Workers \ {w} : ToMove(worker[v], merge, i)
    BY <1>1, <2>4
  <2> QED BY <1>4, <2>1, <2>2, <2>3, <2>4 DEF MergeInv
<1>5. merge' # Idle => \A i \in merge'.names :
        \/ lost' \/ Settled(i)' \/ merge' \in queue'
        \/ \E v \in Workers : ToMove(worker'[v], merge', i)
  BY <1>1, <1>4
<1> QED BY <1>2, <1>3, <1>5 DEF MergeInv

LEMMA MergeTaken ==
  ASSUME LinksInv, LinksInv', MergeInv, NEW w \in Workers, NEW d, Taking(w, d),
         \A e \in queue : e \in queue' \/ e = d
  PROVE  MergeInv'
<1>1. /\ OnlyHand(w) /\ worker[w].pc = "idle" /\ worker'[w] = Handling(d)
      /\ d \in Delivery /\ d.n <= pr.n /\ UNCHANGED <<link, issue>>
  BY DEF Taking
<1>2. Later
  BY <1>1, Stays
<1>3. FreshReads(worker'[w], issue', pr.n)
  <2>1. CASE d.names # {}
    <3>1. /\ worker'[w].pc = "link" /\ worker'[w].delivery = d
          /\ worker'[w].read = [i \in d.names |-> issue[i]]
      BY <1>1, <2>1, HandlingDoes
    <3>2. \A i \in d.names : worker'[w].read[i] = issue'[i]
      BY <1>1, <3>1
    <3> QED BY <1>1, <3>1, <3>2 DEF FreshReads
  <2>2. CASE d.names = {}
    <3>1. worker'[w] = Idle \/ worker'[w] = Listing(d)
      BY <1>1, <2>2, HandlingDoes
    <3> QED BY <3>1 DEF FreshReads, Folds, Idle, Listing
  <2> QED BY <2>1, <2>2
<1>4. ASSUME NEW i \in merge.names, merge \in queue \/ ToMove(worker[w], merge, i)
      PROVE  merge \in queue' \/ ToMove(worker'[w], merge, i)
  <2>1. merge \in queue
    BY <1>1, <1>4 DEF ToMove, Folds
  <2>2. CASE merge = d
    <3>1. d.names # {}
      BY <2>2
    <3> QED BY <1>1, <2>2, <3>1, HandlingDoes DEF ToMove, Folds
  <2> QED BY <2>1, <2>2
<1> QED BY <1>1, <1>2, <1>3, <1>4, MergeByHand

LEMMA MergeOnStop ==
  ASSUME LinksInv, LinksInv', MergeInv, NEW w \in Workers, Stop(w)
  PROVE  MergeInv'
<1>1. OnlyHand(w) /\ worker'[w] = Idle /\ UNCHANGED <<link, issue>>
      /\ queue' = queue \cup ({worker[w].delivery} \cap sent)
  BY StopDoes
<1>2. FreshReads(worker'[w], issue', pr.n)
  BY <1>1 DEF FreshReads, Folds, Idle
<1>3. merge # Idle => merge \in sent
  BY DEF MergeInv, MergeSent
<1> QED BY <1>1, <1>2, <1>3, Stays, MergeByHand DEF ToMove

LEMMA MergeOnGetLink ==
  ASSUME LinksInv, LinksInv', MergeInv, NEW w \in Workers, GetLink(w)
  PROVE  MergeInv'
<1>1. /\ OnlyHand(w) /\ UNCHANGED <<queue, link, issue>> /\ SameJob(w)
      /\ worker[w].pc = "link" /\ worker'[w].pc = "put"
      /\ worker'[w].todo = worker[w].todo /\ worker'[w].of \in worker[w].todo
  BY GetLinkDoes
<1>2. FreshReads(worker[w], issue, pr.n)
  BY DEF MergeInv
<1>3. FreshReads(worker'[w], issue', pr.n)
  BY <1>1, <1>2 DEF FreshReads, SameJob, Folds
<1>4. \A i \in merge.names : ToMove(worker[w], merge, i) => ToMove(worker'[w], merge, i)
  BY <1>1 DEF ToMove, SameJob, Folds
<1> QED BY <1>1, <1>3, <1>4, Stays, MergeByHand

\* The issue in hand is done with, and the others stay.
LEMMA FreshAfter ==
  ASSUME LinksInv, LinksInv', MergeInv, Later, UNCHANGED pr, NEW w \in Workers,
         worker[w].pc \in {"put", "move"}, DoneWith(w)
  PROVE  /\ FreshReads(worker'[w], issue', pr.n)
         /\ \A i \in merge.names :
              ToMove(worker[w], merge, i) /\ i # worker[w].of => ToMove(worker'[w], merge, i)
<1>1. FreshReads(worker[w], issue, pr.n) /\ pr.n <= pr'.n
  BY DEF MergeInv, LinksInv, SentOK
<1>2. FreshReads(worker[w], issue', pr'.n)
  BY <1>1, InHand, FreshStays
<1>3. CASE SameJob(w) /\ worker'[w].pc = "link" /\ worker'[w].todo = worker[w].todo \ {worker[w].of}
  BY <1>2, <1>3 DEF FreshReads, SameJob, Folds, ToMove
<1>4. CASE worker[w].todo \subseteq {worker[w].of}
           /\ (worker'[w] = Idle \/ worker'[w] = Listing(worker[w].delivery))
  <2>1. ~Folds(worker'[w])
    BY <1>4 DEF Folds, Idle, Listing
  <2> QED BY <1>4, <2>1 DEF FreshReads, ToMove
<1> QED BY <1>3, <1>4 DEF DoneWith

\* A merge is refused only by a link that is later.
LEMMA MergeOnPutLink ==
  ASSUME LinksInv, LinksInv', MergeInv, NEW w \in Workers, PutLink(w)
  PROVE  MergeInv'
<1> DEFINE job == worker[w]
           d   == job.delivery
           takes == ~LeftToMerge(d, job.previous) /\ Ordered(link[job.of], d)
<1>1. /\ OnlyHand(w) /\ UNCHANGED <<queue, issue>> /\ job.pc = "put"
      /\ job.of \in d.names /\ d \in Delivery
      /\ \/ /\ takes /\ link' = [link EXCEPT ![job.of] = Written(d)]
            /\ \/ /\ Target(d, job.previous) # {} /\ SameJob(w)
                  /\ worker'[w].pc = "move" /\ worker'[w].todo = job.todo
                  /\ worker'[w].of = job.of
               \/ Target(d, job.previous) = {} /\ DoneWith(w)
         \/ ~takes /\ UNCHANGED link /\ DoneWith(w)
  BY PutLinkDoes
<1>2. job.of \in Issues /\ d.at \in Int /\ d.at >= 1 /\ \A i \in Issues : link[i].at \in Int
  BY <1>1 DEF Delivery, LinksInv, LinksOK, NoLink, SentOK
<1>3. takes => link[job.of].at <= d.at
  <2>1. link[job.of].state = "none" => link[job.of].at = 0
    BY <1>2, States DEF LinksInv, LinksOK, NoLink
  <2> QED BY <1>2, <2>1 DEF Ordered
<1>4. Later
  <2>1. ASSUME takes, link' = [link EXCEPT ![job.of] = Written(d)], NEW i \in Issues
        PROVE  link[i].at <= link'[i].at
    BY <1>2, <1>3, <2>1 DEF Written, LinksInv
  <2>2. UNCHANGED link => \A i \in Issues : link[i].at <= link'[i].at
    BY <1>2
  <2> QED BY <1>1, <2>1, <2>2 DEF Later
<1>5. ASSUME merge # Idle, d = merge, job.of \in merge.names, ~takes
      PROVE  link[job.of].at > merge.at
  <2>1. merge.action = "closed" /\ merge.state = "merged"
    BY <1>5 DEF MergeInv, MergeSent
  <2>2. ~LeftToMerge(d, job.previous)
    BY <1>5, <2>1 DEF LeftToMerge
  <2>3. ~Ordered(link[job.of], d)
    BY <1>5, <2>2
  <2>4. link[job.of].state \in DOMAIN Rank
    BY <1>2, <2>3 DEF Ordered, LinksInv, LinksOK, NoLink
  <2>5. Rank[link[job.of].state] <= Rank["merged"]
    BY <2>4, States DEF Rank
  <2> QED BY <1>2, <1>5, <2>1, <2>3, <2>5 DEF Ordered
<1> HIDE DEF takes
<1>6. CASE DoneWith(w)
  <2>1. /\ FreshReads(worker'[w], issue', pr.n)
        /\ \A i \in merge.names : ToMove(job, merge, i) /\ i # job.of => ToMove(worker'[w], merge, i)
    BY <1>1, <1>4, <1>6, FreshAfter DEF OnlyHand
  <2>2. ASSUME merge # Idle, NEW i \in merge.names, ToMove(job, merge, i), i = job.of
        PROVE  Settled(i)'
    <3>1. d = merge
      BY <2>2 DEF ToMove
    <3>2. Target(d, job.previous) # {}
      BY <2>2, <3>1 DEF MergeInv, MergeSent, Target
    <3>3. ~takes /\ UNCHANGED link
      <4>1. worker'[w].pc # "move"
        BY <1>6 DEF DoneWith, Idle, Listing
      <4> QED BY <1>1, <3>2, <4>1
    <3>4. link'[i].at > merge.at
      BY <1>5, <2>2, <3>1, <3>3
    <3> QED BY <1>1, <3>4 DEF Settled, OnlyHand
  <2> QED BY <1>1, <1>4, <2>1, <2>2, MergeByHand
<1>7. CASE /\ SameJob(w) /\ worker'[w].pc = "move" /\ worker'[w].todo = job.todo
           /\ worker'[w].of = job.of
  <2>1. FreshReads(worker[w], issue, pr.n)
    BY DEF MergeInv
  <2>2. FreshReads(worker'[w], issue', pr.n)
    BY <1>1, <1>7, <2>1 DEF FreshReads, SameJob, Folds
  <2>3. \A i \in merge.names : ToMove(job, merge, i) => ToMove(worker'[w], merge, i)
    BY <1>7 DEF ToMove, SameJob, Folds
  <2> QED BY <1>1, <1>4, <2>2, <2>3, MergeByHand
<1> QED BY <1>1, <1>6, <1>7

\* A merge does not move an issue that is closed, or was changed after it.
LEMMA MergeOnMove ==
  ASSUME LinksInv, LinksInv', MergeInv, NEW w \in Workers, MoveIssue(w)
  PROVE  MergeInv'
<1> DEFINE job == worker[w]
           d   == job.delivery
           i   == job.of
<1>1. PICK status \in Target(d, job.previous) :
        \/ /\ ~MayApply(job.read[i], d, status)
           /\ DoneWith(w) /\ UNCHANGED <<queue, issue>>
        \/ /\ \A k \in Issues \ {i} : issue'[k] = issue[k]
           /\ issue'[i].at = pr.n /\ issue'[i].status = status
           /\ DoneWith(w) /\ UNCHANGED queue
        \/ /\ queue' = queue \cup ({d} \cap sent)
           /\ worker'[w] = Idle /\ UNCHANGED issue
  BY MoveIssueDoes
<1>2. /\ OnlyHand(w) /\ UNCHANGED link /\ job.pc = "move" /\ i \in d.names /\ i \in Issues
      /\ d \in Delivery /\ job.read[i] \in IssueRow
  BY MoveIssueDoes
<1>3. Later
  <2>1. \A k \in Issues : link[k].at \in Int
    BY DEF LinksInv, LinksOK, NoLink, SentOK
  <2> QED BY <1>1, <1>2, <2>1 DEF Later
<1>4. FreshReads(job, issue, pr.n)
  BY DEF MergeInv
<1>5. CASE DoneWith(w)
  <2>1. /\ FreshReads(worker'[w], issue', pr.n)
        /\ \A k \in merge.names : ToMove(job, merge, k) /\ k # i => ToMove(worker'[w], merge, k)
    BY <1>2, <1>3, <1>5, FreshAfter DEF OnlyHand
  <2>2. ASSUME merge # Idle, NEW k \in merge.names, k = i, ToMove(job, merge, k)
        PROVE  Settled(k)' \/ merge \in queue'
    <3>1. d = merge /\ merge.action = "closed" /\ merge.state = "merged" /\ merge \in sent
      BY <2>2 DEF ToMove, MergeInv, MergeSent
    <3>2. status = Completed
      BY <3>1 DEF Target
    <3>3. job.read[i] = issue[i] \/ issue[i].at >= merge.n
      BY <1>2, <1>4, <3>1 DEF FreshReads, Folds
    <3>4. CASE ~MayApply(job.read[i], d, status) /\ UNCHANGED issue
      <4>1. /\ job.read[i].status \in 1..3 /\ job.read[i].at \in Int /\ merge.n \in Int
            /\ issue[i].at \in Int
        BY <1>2, <3>1 DEF IssueRow, Unstarted, Completed, Delivery, LinksInv, IssuesOK
      <4>2. job.read[i].at >= merge.n \/ job.read[i].status >= 3
        BY <3>1, <3>2, <3>4, <4>1 DEF MayApply, Completed
      <4>3. issue[i].at >= merge.n \/ issue[i].status = Completed
        BY <3>3, <4>1, <4>2 DEF Completed
      <4> QED BY <1>2, <2>2, <3>4, <4>3 DEF Settled, OnlyHand
    <3>5. CASE issue'[i].status = status
      BY <2>2, <3>2, <3>5 DEF Settled
    <3>6. CASE queue' = queue \cup ({d} \cap sent)
      BY <3>1, <3>6
    <3> QED BY <1>1, <3>4, <3>5, <3>6
  <2>3. UNCHANGED queue \/ queue \subseteq queue'
    BY <1>1
  <2> QED BY <1>2, <1>3, <2>1, <2>2, <2>3, MergeByHand
<1>6. CASE queue' = queue \cup ({d} \cap sent) /\ worker'[w] = Idle /\ UNCHANGED issue
  <2>1. FreshReads(worker'[w], issue', pr.n)
    BY <1>6 DEF FreshReads, Folds, Idle
  <2>2. merge # Idle => merge \in sent
    BY DEF MergeInv, MergeSent
  <2> QED BY <1>2, <1>3, <1>6, <2>1, <2>2, MergeByHand DEF ToMove
<1> QED BY <1>1, <1>5, <1>6

LEMMA MergeOnDetach ==
  ASSUME LinksInv, LinksInv', MergeInv, NEW w \in Workers, ListLinks(w) \/ Detach(w)
  PROVE  MergeInv'
<1>1. /\ OnlyHand(w) /\ UNCHANGED <<queue, issue>> /\ worker[w].pc \in {"list", "detach"}
      /\ worker'[w] = Idle \/ worker'[w].pc = "detach"
  BY ListLinksDoes, DetachDoes
<1>2. FreshReads(worker'[w], issue', pr.n) /\ \A i : ~ToMove(worker[w], merge, i)
  BY <1>1 DEF FreshReads, ToMove, Folds, Idle
<1>3. Later
  <2>1. CASE ListLinks(w)
    BY <2>1, ListLinksDoes, Stays
  <2>2. CASE Detach(w)
    <3>1. PICK i \in Issues :
            \/ UNCHANGED link
            \/ /\ Older(link[i], worker[w].delivery)
               /\ link' = [link EXCEPT ![i] = [state |-> link[i].state,
                                               at |-> worker[w].delivery.at, detached |-> TRUE]]
      BY <2>2, DetachDoes
    <3>2. CASE UNCHANGED link
      BY <1>1, <3>2, Stays
    <3>3. CASE /\ Older(link[i], worker[w].delivery)
               /\ link' = [link EXCEPT ![i] = [state |-> link[i].state,
                                               at |-> worker[w].delivery.at, detached |-> TRUE]]
      <4>1. worker[w].delivery.at \in Int /\ \A k \in Issues : link[k].at \in Int
        <5>1. worker[w].delivery \in Delivery
          BY <1>1, InDetach
        <5> QED BY <5>1 DEF Delivery, LinksInv, LinksOK, NoLink, SentOK
      <4>2. link[i].at < worker[w].delivery.at
        BY <3>3 DEF Older
      <4>3. \A k \in Issues : link'[k].at = IF k = i THEN worker[w].delivery.at ELSE link[k].at
        BY <3>3 DEF LinksInv
      <4> QED BY <1>1, <4>1, <4>2, <4>3 DEF Later
    <3> QED BY <3>1, <3>2, <3>3
  <2> QED BY <2>1, <2>2
<1> QED BY <1>1, <1>2, <1>3, MergeByHand

\* No worker's step, and none of GitHub's.
LEMMA MergeByOthers ==
  ASSUME LinksInv, LinksInv', MergeInv, UNCHANGED <<pr, merge, sent, worker>>, Later,
         lost => lost', merge \in queue => merge \in queue' \/ lost'
  PROVE  MergeInv'
<1>1. pr.n <= pr'.n
  BY DEF LinksInv, SentOK
<1>2. ASSUME NEW v \in Workers
      PROVE  FreshReads(worker'[v], issue', pr'.n)
  <2>1. FreshReads(worker[v], issue, pr.n)
    BY DEF MergeInv
  <2>2. FreshReads(worker[v], issue', pr'.n)
    BY <1>1, <2>1, InHand, FreshStays
  <2> QED BY <2>2
<1>3. ASSUME merge # Idle, NEW i \in merge.names
      PROVE  \/ lost' \/ Settled(i)' \/ merge \in queue'
             \/ \E v \in Workers : ToMove(worker'[v], merge, i)
  <2>1. CASE Settled(i)
    BY <1>3, <2>1, SettledStays
  <2> QED BY <1>3, <2>1 DEF MergeInv
<1>4. merge' # Idle => \A i \in merge'.names :
        \/ lost' \/ Settled(i)' \/ merge' \in queue'
        \/ \E v \in Workers : ToMove(worker'[v], merge', i)
  BY <1>3
<1>5. MergeSent' /\ \A d \in sent' : d.n <= pr'.n
  BY DEF MergeInv, MergeSent
<1> QED BY <1>2, <1>4, <1>5 DEF MergeInv

LEMMA MergeOnOthers ==
  ASSUME LinksInv, LinksInv', MergeInv,
         UNCHANGED vars \/ (\E i \in Issues : Change(i)) \/ (\E d \in sent : Lose(d) \/ Repeat(d))
  PROVE  MergeInv'
<1>1. CASE UNCHANGED vars
  BY <1>1, Stays, MergeByOthers DEF vars
<1>2. ASSUME NEW i \in Issues, Change(i)
      PROVE  MergeInv'
  <2>1. UNCHANGED <<pr, merge, sent, queue, worker, link, lost>>
    BY <1>2 DEF Change
  <2>2. \A k \in Issues : issue'[k] = issue[k] \/ issue'[k].at = pr.n
    BY <1>2 DEF Change, LinksInv, IssuesOK
  <2>3. \A k \in Issues : link[k].at \in Int
    BY DEF LinksInv, LinksOK, NoLink, SentOK
  <2> QED BY <2>1, <2>2, <2>3, MergeByOthers DEF Later
<1>3. ASSUME NEW d \in sent, Lose(d) \/ Repeat(d)
      PROVE  MergeInv'
  <2>1. UNCHANGED <<pr, merge, sent, worker, link, issue>> /\ (lost => lost')
        /\ (merge \in queue => merge \in queue' \/ lost')
    BY <1>3 DEF Lose, Repeat
  <2> QED BY <2>1, Stays, MergeByOthers
<1> QED BY <1>1, <1>2, <1>3

\* GitHub sends its merge once, and the queue has it.
LEMMA MergeOnSend ==
  ASSUME LinksInv, LinksInv', MergeInv, NEW d, Sends(d)
  PROVE  MergeInv'
<1>1. /\ pr'.n = pr.n + 1 /\ d.n = pr'.n /\ pr'.state = d.state /\ sent' = sent \cup {d}
      /\ queue' = queue \cup {d}
      /\ UNCHANGED <<worker, link, issue, lost>>
      /\ pr.state = "merged" => d.state = "merged"
      /\ merge' = IF pr.state # "merged" /\ d.state = "merged" THEN d ELSE merge
      /\ merge' # merge => d.action = "closed" /\ d.names = pr.names
  BY DEF Sends
<1>2. pr.n \in Int /\ pr'.n \in Int /\ \A e \in sent : e.n \in Int
  BY DEF LinksInv, SentOK, Delivery
<1>3. \A e \in sent' : e.n <= pr'.n
  BY <1>1, <1>2 DEF MergeInv
<1>4. d # Idle /\ d.n > pr.n
  BY <1>1, <1>2 DEF Sends, Delivery, Idle
<1>5. merge # Idle => merge \in sent /\ merge.n <= pr.n /\ merge # d
  <2>1. merge # Idle => merge \in sent /\ merge.n <= pr.n
    BY DEF MergeInv, MergeSent
  <2> QED BY <1>2, <1>4, <2>1
<1>6. MergeSent'
  BY <1>1, <1>4, <1>5 DEF MergeInv, MergeSent
<1>7. ASSUME NEW v \in Workers
      PROVE  FreshReads(worker'[v], issue', pr'.n)
  <2>1. FreshReads(worker[v], issue, pr.n) /\ pr.n <= pr'.n
    BY <1>1, <1>2 DEF MergeInv
  <2>2. FreshReads(worker[v], issue', pr'.n)
    BY <1>1, <2>1, InHand, Stays, FreshStays
  <2> QED BY <1>1, <2>2
<1>8. ASSUME merge' # Idle, NEW i \in merge'.names
      PROVE  \/ lost' \/ Settled(i)' \/ merge' \in queue'
             \/ \E v \in Workers : ToMove(worker'[v], merge', i)
  <2>1. CASE merge' = d
    BY <1>1, <2>1
  <2>2. CASE merge' = merge
    <3>1. Settled(i) => Settled(i)'
      BY <1>1, <2>2 DEF Settled
    <3> QED BY <1>1, <1>8, <2>2, <3>1 DEF MergeInv
  <2> QED BY <1>1, <2>1, <2>2
<1> QED BY <1>3, <1>6, <1>7, <1>8 DEF MergeInv

LEMMA MergeStarts == Init => MergeInv
<1> SUFFICES ASSUME Init PROVE MergeInv
  OBVIOUS
<1>1. pr.state = "none" /\ merge = Idle /\ sent = {} /\ \A w \in Workers : worker[w] = Idle
  BY DEF Init
<1>2. \A w \in Workers : FreshReads(worker[w], issue, pr.n)
  BY <1>1 DEF FreshReads, Folds, Idle
<1> QED BY <1>1, <1>2 DEF MergeInv, MergeSent

LEMMA MergeSteps == LinksInv /\ LinksInv' /\ MergeInv /\ [Next]_vars => MergeInv'
<1> SUFFICES ASSUME LinksInv, LinksInv', MergeInv, [Next]_vars PROVE MergeInv'
  OBVIOUS
<1>1. CASE Open \/ Close \/ Reopen \/ Redraft \/ Edit
  BY <1>1, SendDoes, MergeOnSend
<1>2. CASE UNCHANGED vars \/ (\E i \in Issues : Change(i)) \/ (\E d \in sent : Lose(d) \/ Repeat(d))
  BY <1>2, MergeOnOthers
<1>3. ASSUME NEW w \in Workers, Step(w) \/ Stop(w)
      PROVE  MergeInv'
  BY <1>3, MergeOnGetLink, MergeOnPutLink, MergeOnMove, MergeOnDetach, MergeOnStop DEF Step
<1>4. \A d \in sent : d.n <= pr.n
  BY DEF MergeInv
<1>5. ASSUME NEW w \in Workers, NEW d \in sent, Receive(w, d)
      PROVE  MergeInv'
  <2>1. Taking(w, d) /\ queue' = queue \ {d}
    BY <1>4, <1>5, ReceiveDoes
  <2> QED BY <2>1, MergeTaken
<1>6. ASSUME NEW w \in Workers, Resync(w)
      PROVE  MergeInv'
  <2>1. PICK d : Taking(w, d) /\ UNCHANGED queue
    BY <1>4, <1>6, ResyncDoes DEF MergeInv
  <2> QED BY <2>1, MergeTaken
<1> QED BY <1>1, <1>2, <1>3, <1>5, <1>6 DEF Next

\* With nothing on its way, the merge has done with every issue it names.
LEMMA MergeEnough == LinksInv /\ MergeInv => MergeFolded
<1> SUFFICES ASSUME LinksInv, MergeInv, Quiet, ~lost, merge # Idle, NEW i \in merge.names,
                    link[i].at = merge.at, issue[i].at < merge.n
             PROVE  issue[i].status = Completed
  BY DEF MergeFolded
<1>1. \A w \in Workers : ~ToMove(worker[w], merge, i)
  BY DEF Quiet, ToMove, Folds, Idle
<1>2. Settled(i)
  BY <1>1 DEF MergeInv, Quiet
<1>3. i \in Issues /\ merge.at \in Int /\ merge.n \in Int
  BY DEF LinksInv, SentOK, Delivery
<1>4. issue[i].at \in Int
  BY <1>3 DEF LinksInv, IssuesOK, IssueRow
<1> QED BY <1>2, <1>3, <1>4 DEF Settled

\* Once nothing is on its way, a merge that wrote an issue's link has also closed the
\* issue or left it to who changed it since, whatever was edited, repeated, overtaken or
\* stopped in between: a delivery is done only when each of its issues is.
THEOREM MergeHolds == Spec => []MergeFolded
  BY InvStarts, InvSteps, MergeStarts, MergeSteps, MergeEnough, PTL DEF Spec

-----------------------------------------------------------------------------
(* The links, while no issue is taken off the pull request and put back.   *)

\* An issue named anew was named by no delivery so far.
NamedOnce == \A i \in pr'.names \ pr.names : \A d \in sent : i \notin d.names

Named(i) == \E d \in sent : i \in d.names

\* No further than GitHub: earlier, or within its second and no further along.
Past(x) ==
  /\ x.at <= pr.at
  /\ x.at = pr.at => Rank[x.state] <= Rank[pr.state]
  /\ x.state = "merged" => pr.state = "merged"

\* What a delivery, or a link, may say of an issue that is named: it is no further than
\* GitHub; after the merge it says so, or it is of before and the merge names the issue;
\* and it is no earlier than any delivery that did not name the issue.
SaysOf(x, i) ==
  /\ Past(x)
  /\ merge # Idle /\ x.state # "merged" => x.at <= merge.at /\ i \in merge.names
  /\ \A d \in sent : i \notin d.names => d.at <= x.at

HandSays(x) ==
  /\ Folds(x) =>
       /\ \A i \in x.delivery.names : Named(i) /\ (i \in pr.names => SaysOf(x.delivery, i))
       /\ x.delivery.action # "closed" \/ x.delivery.state \in OpenStates => x.delivery \in sent
  /\ x.pc = "put" /\ x.of \in pr.names /\ merge # Idle /\ x.previous.state \notin {"none", "merged"}
       => x.of \in merge.names
  /\ x.pc \in {"list", "detach"} => x.delivery \in sent
  /\ x.pc = "detach" => x.todo \cap x.delivery.names = {}

\* A delivery of the link's second said what it says.
SaidBySent(l) == \E d \in sent : d.at = l.at /\ d.state = l.state

LinkSays(l, i) ==
  l.state # "none" =>
    /\ Named(i)
    /\ i \in pr.names => SaysOf(l, i) /\ ~l.detached /\ (l.state \in OpenStates => SaidBySent(l))

SentSays ==
  /\ MergeSent
  /\ \A d \in sent : d.n <= pr.n /\ Past(d)
  /\ \A d \in sent : \A i \in d.names : i \in pr.names => SaysOf(d, i)
  /\ \A i \in pr.names : Named(i)

\* The link is as far as the pull request, and no delivery can take it further or back;
\* whether it is open or a draft is another matter, when both were within the second.
Arrived(i) ==
  IF pr.state = "merged" THEN link[i].state = "merged"
  ELSE /\ link[i].at = pr.at /\ {link[i].state, pr.state} \subseteq DOMAIN Rank
       /\ Rank[link[i].state] = Rank[pr.state]

\* A delivery that would bring it there.
Brings(d, i) ==
  /\ i \in d.names /\ d.state = pr.state
  /\ IF pr.state = "merged" THEN d = merge \/ i \notin merge.names ELSE d.at = pr.at

\* A worker that has yet to write the issue's link.
ToWrite(x, d, i) == Folds(x) /\ x.delivery = d /\ i \in x.todo /\ (x.pc = "move" => x.of # i)

OnItsWay(i) ==
  \E d \in sent : Brings(d, i) /\ (d \in queue \/ \E w \in Workers : ToWrite(worker[w], d, i))

\* Every issue's link has arrived, or what takes it there is on its way.
FoldInv ==
  /\ SentSays
  /\ \A w \in Workers : HandSays(worker[w])
  /\ \A i \in Issues : LinkSays(link[i], i)
  /\ \A i \in pr.names : lost \/ Arrived(i) \/ OnItsWay(i)

\* A delivery, or a link that is there, has a state and a time.
Dated(x) == x.state \in DOMAIN Rank /\ x.at \in Nat

LEMMA RanksApart ==
  /\ \A s \in DOMAIN Rank : Rank[s] \in 0..2
  /\ Rank["open"] = 0 /\ Rank["closed"] = 1 /\ Rank["merged"] = 2
  /\ \A s, t \in DOMAIN Rank : Rank[s] = Rank[t] => s = t \/ {s, t} = OpenStates
BY DEF Rank, OpenStates

\* What was true of an issue that was named stays so as GitHub goes on.
LEMMA SaysLater ==
  ASSUME LinksInv, LinksInv', NamedOnce, NEW d, Sends(d), NEW x, Dated(x), NEW i,
         Named(i), i \in pr.names => SaysOf(x, i), i \in pr'.names, MergeSent
  PROVE  SaysOf(x, i)'
<1>1. /\ pr'.n = pr.n + 1 /\ pr'.state = d.state /\ pr'.at = d.at /\ pr'.names = d.names
      /\ sent' = sent \cup {d} /\ pr.at <= d.at
      /\ d.at = pr.at => pr.state # "none" /\ Rank[pr.state] <= Rank[d.state]
      /\ pr.state = "merged" => d.state = "merged"
      /\ merge' = IF pr.state # "merged" /\ d.state = "merged" THEN d ELSE merge
  BY DEF Sends
<1>2. d.at \in Int /\ pr.at \in Int /\ x.at \in Int /\ d.state \in DOMAIN Rank /\ x.state \in DOMAIN Rank
  BY DEF Sends, Delivery, LinksInv, SentOK, Dated
<1>3. i \in pr.names /\ SaysOf(x, i)
  BY DEF NamedOnce, Named
<1>4. Past(x)'
  <2>1. x.at <= pr.at /\ x.at <= d.at
    BY <1>1, <1>2, <1>3 DEF SaysOf, Past
  <2>2. ASSUME x.at = d.at
        PROVE  Rank[x.state] <= Rank[d.state]
    <3>1. x.at = pr.at /\ d.at = pr.at
      BY <1>1, <1>2, <2>1, <2>2
    <3>2. pr.state \in DOMAIN Rank
      BY <1>1, <3>1 DEF LinksInv, SentOK
    <3>3. Rank[x.state] <= Rank[pr.state] /\ Rank[pr.state] <= Rank[d.state]
      BY <1>1, <1>3, <3>1 DEF SaysOf, Past
    <3>4. Rank[x.state] \in Int /\ Rank[pr.state] \in Int /\ Rank[d.state] \in Int
      BY <1>2, <3>2, RanksApart
    <3> QED BY <3>3, <3>4
  <2>3. x.state = "merged" => d.state = "merged"
    BY <1>1, <1>3 DEF SaysOf, Past
  <2> QED BY <1>1, <2>1, <2>2, <2>3 DEF Past
<1>5. merge' # Idle /\ x.state # "merged" => x.at <= merge'.at /\ i \in merge'.names
  <2>1. CASE merge' = merge
    BY <1>3, <2>1 DEF SaysOf
  <2>2. CASE merge' = d
    BY <1>1, <1>2, <1>3, <2>2 DEF SaysOf, Past
  <2> QED BY <1>1, <2>1, <2>2
<1>6. \A e \in sent' : i \notin e.names => e.at <= x.at
  BY <1>1, <1>3 DEF SaysOf
<1> QED BY <1>4, <1>5, <1>6 DEF SaysOf

LEMMA NamedLater ==
  ASSUME NEW d, Sends(d), NEW i, Named(i)
  PROVE  Named(i)'
BY DEF Sends, Named

\* The new delivery itself.
LEMMA NewSays ==
  ASSUME LinksInv, LinksInv', SentSays, NEW d, Sends(d)
  PROVE  Past(d)' /\ \A i \in d.names : SaysOf(d, i)'
<1>1. /\ pr'.state = d.state /\ pr'.at = d.at /\ pr'.names = d.names /\ sent' = sent \cup {d}
      /\ pr.at <= d.at /\ (pr.state = "merged" => d.state = "merged")
      /\ merge' = IF pr.state # "merged" /\ d.state = "merged" THEN d ELSE merge
  BY DEF Sends
<1>2. d.at \in Int /\ d.state \in DOMAIN Rank /\ Rank[d.state] \in Int
      /\ pr.at \in Int /\ \A e \in sent : e.at \in Int /\ e.at <= pr.at
  BY RanksApart DEF Sends, Delivery, LinksInv, SentOK
<1>3. Past(d)'
  BY <1>1, <1>2 DEF Past
<1>4. merge' # Idle => d.state = "merged"
  BY <1>1 DEF SentSays, MergeSent
<1>5. \A e \in sent : e.at <= d.at
  BY <1>1, <1>2
<1> QED BY <1>1, <1>3, <1>4, <1>5 DEF SaysOf

LEMMA SentSaysOn ==
  ASSUME LinksInv, LinksInv', FoldInv, NamedOnce, NEW d, Sends(d), MergeSent'
  PROVE  SentSays'
<1>1. /\ pr'.n = pr.n + 1 /\ d.n = pr'.n /\ pr'.names = d.names /\ sent' = sent \cup {d}
      /\ pr'.state = d.state /\ pr'.at = d.at /\ pr.at <= d.at /\ d \in Delivery
      /\ d.at = pr.at => pr.state # "none" /\ Rank[pr.state] <= Rank[d.state]
      /\ pr.state = "merged" => d.state = "merged"
  BY DEF Sends
<1>2. \A e \in sent : Dated(e) /\ e.n \in Int
  BY DEF LinksInv, SentOK, Delivery, Dated
<1>3. pr.n \in Int /\ pr'.n \in Int /\ pr.at \in Int /\ d.at \in Int /\ d.state \in DOMAIN Rank
  BY <1>1 DEF LinksInv, SentOK, Delivery
<1>4. ASSUME NEW e \in sent
      PROVE  e.n <= pr'.n /\ Past(e)'
  <2>1. e.n <= pr.n /\ Past(e) /\ e.n \in Int /\ e.at \in Int /\ e.state \in DOMAIN Rank
    BY <1>2 DEF FoldInv, SentSays, Dated
  <2>2. e.at = d.at => Rank[e.state] <= Rank[d.state]
    <3> SUFFICES ASSUME e.at = d.at PROVE Rank[e.state] <= Rank[d.state]
      OBVIOUS
    <3>1. e.at = pr.at /\ d.at = pr.at
      BY <1>1, <1>3, <2>1 DEF Past
    <3>2. pr.state \in DOMAIN Rank
      BY <1>1, <3>1 DEF LinksInv, SentOK
    <3>3. Rank[e.state] <= Rank[pr.state] /\ Rank[pr.state] <= Rank[d.state]
      BY <1>1, <2>1, <3>1 DEF Past
    <3>4. Rank[e.state] \in Int /\ Rank[pr.state] \in Int /\ Rank[d.state] \in Int
      BY <1>3, <2>1, <3>2, RanksApart
    <3> QED BY <3>3, <3>4
  <2> QED BY <1>1, <1>3, <2>1, <2>2 DEF Past
<1>5. ASSUME NEW e \in sent, NEW i \in e.names, i \in pr'.names
      PROVE  SaysOf(e, i)'
  <2>1. Named(i) /\ (i \in pr.names => SaysOf(e, i)) /\ MergeSent
    BY DEF Named, FoldInv, SentSays
  <2> QED BY <1>2, <1>5, <2>1, SaysLater
<1>6. Past(d)' /\ \A i \in d.names : SaysOf(d, i)'
  BY NewSays DEF FoldInv
<1>7. \A i \in pr'.names : Named(i)'
  BY <1>1 DEF Named
<1>8. \A e \in sent' : e.n <= pr'.n /\ Past(e)'
  BY <1>1, <1>3, <1>4, <1>6
<1>9. \A e \in sent' : \A i \in e.names : i \in pr'.names => SaysOf(e, i)'
  BY <1>1, <1>5, <1>6
<1> QED BY <1>7, <1>8, <1>9 DEF SentSays

\* What is in hand when GitHub goes on.
LEMMA HandSaysOn ==
  ASSUME LinksInv, LinksInv', FoldInv, NamedOnce, NEW d, Sends(d), NEW w \in Workers
  PROVE  HandSays(worker[w])'
<1> PICK x : x = worker[w]
  OBVIOUS
<1>1. worker'[w] = x /\ HandSays(x)
  BY DEF Sends, FoldInv
<1>2. MergeSent
  BY DEF FoldInv, SentSays
<1>3. ASSUME Folds(x), NEW i \in x.delivery.names
      PROVE  Named(i)' /\ (i \in pr'.names => SaysOf(x.delivery, i)')
  <2>1. Named(i) /\ (i \in pr.names => SaysOf(x.delivery, i))
    BY <1>1, <1>3 DEF HandSays
  <2>2. x.delivery \in Delivery
    BY <1>3, InHand DEF Folds, Idle
  <2>3. Dated(x.delivery)
    BY <2>2 DEF Delivery, Dated
  <2> PICK y : y = x.delivery
    OBVIOUS
  <2> QED BY <1>2, <2>1, <2>3, NamedLater, SaysLater
<1>4. ASSUME x.pc = "put", x.of \in pr'.names, merge' # Idle, x.previous.state \notin {"none", "merged"}
      PROVE  x.of \in merge'.names
  <2>1. x.of \in x.delivery.names
    BY <1>4, InFold DEF Folding
  <2>2. Named(x.of)
    BY <1>1, <1>4, <2>1 DEF HandSays, Folds
  <2>3. x.of \in pr.names
    BY <1>4, <2>2 DEF NamedOnce, Named
  <2>4. merge' = merge \/ (merge' = d /\ d.names = pr'.names)
    BY DEF Sends
  <2> QED BY <1>1, <1>4, <2>3, <2>4 DEF HandSays
<1>5. sent \subseteq sent'
  BY DEF Sends
<1>6. /\ Folds(x) /\ (x.delivery.action # "closed" \/ x.delivery.state \in OpenStates) => x.delivery \in sent'
      /\ x.pc \in {"list", "detach"} => x.delivery \in sent'
      /\ x.pc = "detach" => x.todo \cap x.delivery.names = {}
  BY <1>1, <1>5 DEF HandSays
<1>7. HandSays(x)'
  BY <1>3, <1>4, <1>6 DEF HandSays, Folds
<1> QED BY <1>1, <1>7 DEF HandSays, Folds

LEMMA LinkSaysOn ==
  ASSUME LinksInv, LinksInv', FoldInv, NamedOnce, NEW d, Sends(d), NEW i \in Issues
  PROVE  LinkSays(link[i], i)'
<1> PICK l : l = link[i]
  OBVIOUS
<1>1. link'[i] = l /\ LinkSays(l, i) /\ MergeSent
  BY DEF Sends, FoldInv, SentSays
<1>2. ASSUME l.state # "none"
      PROVE  /\ Named(i)'
             /\ i \in pr'.names => SaysOf(l, i)' /\ ~l.detached /\ (l.state \in OpenStates => SaidBySent(l)')
  <2>1. /\ Named(i)
        /\ i \in pr.names => SaysOf(l, i) /\ ~l.detached /\ (l.state \in OpenStates => SaidBySent(l))
    BY <1>1, <1>2 DEF LinkSays
  <2>2. Dated(l)
    <3>1. l \in [state : DOMAIN Rank, at : 1..pr.at, detached : BOOLEAN] /\ pr.at \in Int
      BY <1>2 DEF LinksInv, LinksOK, NoLink, SentOK
    <3> QED BY <3>1 DEF Dated
  <2>3. i \in pr'.names => i \in pr.names
    BY <2>1 DEF NamedOnce, Named
  <2>4. SaidBySent(l) => SaidBySent(l)'
    BY DEF Sends, SaidBySent
  <2> QED BY <1>1, <2>1, <2>2, <2>3, <2>4, NamedLater, SaysLater
<1>3. LinkSays(l, i)'
  BY <1>2 DEF LinkSays
<1> QED BY <1>1, <1>3 DEF LinkSays

\* The delivery just sent brings every link to where GitHub is, unless the merge did.
LEMMA WayOn ==
  ASSUME LinksInv, LinksInv', FoldInv, NamedOnce, NEW d, Sends(d), NEW i \in pr'.names
  PROVE  lost' \/ Arrived(i)' \/ OnItsWay(i)'
<1>1. /\ pr'.state = d.state /\ pr'.at = d.at /\ pr'.names = d.names
      /\ sent' = sent \cup {d} /\ queue' = queue \cup {d}
      /\ UNCHANGED <<worker, link, issue, lost>>
      /\ pr.state = "merged" => d.state = "merged"
      /\ merge' = IF pr.state # "merged" /\ d.state = "merged" THEN d ELSE merge
  BY DEF Sends
<1>2. CASE Brings(d, i)'
  BY <1>1, <1>2 DEF OnItsWay
<1>3. CASE ~Brings(d, i)'
  <2>1. pr'.state = "merged" /\ merge' # d /\ i \in merge'.names
    BY <1>1, <1>3 DEF Brings
  <2>2. pr.state = "merged" /\ merge' = merge
    BY <1>1, <2>1
  <2>3. i \in pr.names
    <3>1. merge \in sent
      BY <2>2 DEF FoldInv, SentSays, MergeSent
    <3> QED BY <2>1, <2>2, <3>1 DEF NamedOnce
  <2>4. CASE lost
    BY <1>1, <2>4
  <2>5. CASE Arrived(i)
    BY <1>1, <2>1, <2>2, <2>5 DEF Arrived
  <2>6. CASE OnItsWay(i)
    <3>1. PICK e \in sent : Brings(e, i) /\ (e \in queue \/ \E w \in Workers : ToWrite(worker[w], e, i))
      BY <2>6 DEF OnItsWay
    <3>2. Brings(e, i)'
      BY <1>1, <2>1, <2>2, <3>1 DEF Brings
    <3>3. e \in sent' /\ (e \in queue' \/ \E w \in Workers : ToWrite(worker'[w], e, i))
      BY <1>1, <3>1
    <3> QED BY <3>2, <3>3 DEF OnItsWay
  <2> QED BY <2>3, <2>4, <2>5, <2>6 DEF FoldInv
<1> QED BY <1>2, <1>3

LEMMA FoldOnSend ==
  ASSUME LinksInv, LinksInv', FoldInv, NamedOnce, NEW d, Sends(d), MergeSent'
  PROVE  FoldInv'
BY SentSaysOn, HandSaysOn, LinkSaysOn, WayOn DEF FoldInv

-----------------------------------------------------------------------------
(* The links, as a worker moves on.                                        *)

\* While GitHub stands still, so does what may be said of it.
LEMMA SaidStays ==
  ASSUME UNCHANGED <<pr, merge, sent>>
  PROVE  /\ \A x, i : SaysOf(x, i) => SaysOf(x, i)'
         /\ \A i : Named(i) => Named(i)'
         /\ \A d, i : Brings(d, i) <=> Brings(d, i)'
         /\ \A l : SaidBySent(l) => SaidBySent(l)'
<1>1. \A x, i : SaysOf(x, i) => SaysOf(x, i)'
  BY DEF SaysOf, Past
<1>2. \A i : Named(i) => Named(i)'
  BY DEF Named
<1>3. \A d, i : Brings(d, i) <=> Brings(d, i)'
  BY DEF Brings
<1>4. \A l : SaidBySent(l) => SaidBySent(l)'
  BY DEF SaidBySent
<1> QED BY <1>1, <1>2, <1>3, <1>4

LEMMA HandStays ==
  ASSUME UNCHANGED <<pr, merge, sent>>, NEW x, HandSays(x)
  PROVE  HandSays(x)'
<1>1. Folds(x) => \A i \in x.delivery.names :
        Named(i)' /\ (i \in pr'.names => SaysOf(x.delivery, i)')
  BY SaidStays DEF HandSays
<1> QED BY <1>1 DEF HandSays, Folds

LEMMA LinkStays ==
  ASSUME UNCHANGED <<pr, merge, sent>>, NEW l, NEW i, LinkSays(l, i)
  PROVE  LinkSays(l, i)'
BY SaidStays DEF LinkSays

LEMMA SentStays ==
  ASSUME UNCHANGED <<pr, merge, sent>>, SentSays
  PROVE  SentSays'
<1>1. \A d \in sent' : \A i \in d.names : i \in pr'.names => SaysOf(d, i)'
  BY SaidStays DEF SentSays
<1>2. \A i \in pr'.names : Named(i)'
  BY SaidStays DEF SentSays
<1>3. MergeSent' /\ \A d \in sent' : d.n <= pr'.n /\ Past(d)'
  BY DEF SentSays, MergeSent, Past
<1> QED BY <1>1, <1>2, <1>3 DEF SentSays

\* One worker's step: it brings a link to where GitHub is before it gives up what does.
LEMMA FoldByHand ==
  ASSUME LinksInv, FoldInv, NEW w \in Workers, OnlyHand(w), HandSays(worker[w])',
         \A i \in Issues : LinkSays(link[i], i)',
         \A i \in pr.names : Arrived(i) => Arrived(i)',
         \A i \in pr.names, d \in sent :
           Brings(d, i) /\ (d \in queue \/ ToWrite(worker[w], d, i))
             => Arrived(i)' \/ d \in queue' \/ ToWrite(worker'[w], d, i)
  PROVE  FoldInv'
<1>1. UNCHANGED <<pr, merge, sent, lost>> /\ \A v \in Workers \ {w} : worker'[v] = worker[v]
  BY DEF OnlyHand
<1>2. SentSays'
  BY <1>1, SentStays DEF FoldInv
<1>3. ASSUME NEW v \in Workers
      PROVE  HandSays(worker[v])'
  <2>1. CASE v = w
    BY <2>1
  <2>2. CASE v # w
    <3> PICK x : x = worker[v]
      OBVIOUS
    <3>1. HandSays(x)'
      BY <1>1, HandStays DEF FoldInv
    <3>2. worker'[v] = x
      BY <1>1, <2>2
    <3> QED BY <3>1, <3>2 DEF HandSays, Folds
  <2> QED BY <2>1, <2>2
<1>4. ASSUME NEW i \in pr.names
      PROVE  lost' \/ Arrived(i)' \/ OnItsWay(i)'
  <2>1. CASE lost \/ Arrived(i)
    BY <1>1, <2>1
  <2>2. CASE OnItsWay(i)
    <3>1. PICK d \in sent : Brings(d, i) /\ (d \in queue \/ \E v \in Workers : ToWrite(worker[v], d, i))
      BY <2>2 DEF OnItsWay
    <3>2. Brings(d, i)' /\ d \in sent'
      BY <1>1, <3>1, SaidStays
    <3>3. CASE d \in queue \/ ToWrite(worker[w], d, i)
      <4>1. Arrived(i)' \/ d \in queue' \/ ToWrite(worker'[w], d, i)
        BY <3>1, <3>3
      <4> QED BY <3>2, <4>1 DEF OnItsWay
    <3>4. CASE \E v \in Workers \ {w} : ToWrite(worker[v], d, i)
      <4>1. \E v \in Workers : ToWrite(worker'[v], d, i)
        BY <1>1, <3>4
      <4> QED BY <3>2, <4>1 DEF OnItsWay
    <3> QED BY <3>1, <3>3, <3>4
  <2> QED BY <2>1, <2>2 DEF FoldInv
<1>5. \A i \in pr'.names : lost' \/ Arrived(i)' \/ OnItsWay(i)'
  BY <1>1, <1>4
<1> QED BY <1>2, <1>3, <1>5 DEF FoldInv

\* While no link changes, what has arrived stays and what is said of it holds.
LEMMA LinksRest ==
  ASSUME FoldInv, UNCHANGED <<pr, merge, sent, link>>
  PROVE  /\ \A i \in Issues : LinkSays(link[i], i)'
         /\ \A i \in pr.names : Arrived(i) => Arrived(i)'
<1>1. ASSUME NEW i \in Issues
      PROVE  LinkSays(link[i], i)'
  <2> PICK l : l = link[i]
    OBVIOUS
  <2>1. LinkSays(l, i)'
    BY LinkStays DEF FoldInv
  <2> QED BY <2>1 DEF LinkSays
<1>2. \A i \in pr.names : Arrived(i) => Arrived(i)'
  BY DEF Arrived
<1> QED BY <1>1, <1>2

\* What a delivery that is taken up says.
LEMMA FoldTaken ==
  ASSUME LinksInv, FoldInv, NEW w \in Workers, NEW d, Taking(w, d),
         \A i \in d.names : Named(i) /\ (i \in pr.names => SaysOf(d, i)),
         d.action # "closed" \/ d.state \in OpenStates => d \in sent, \A e \in queue : e \in queue' \/ e = d
  PROVE  FoldInv'
<1>1. /\ OnlyHand(w) /\ worker[w].pc = "idle" /\ worker'[w] = Handling(d)
      /\ UNCHANGED <<pr, merge, sent, link>>
  BY DEF Taking, OnlyHand
<1>2. HandSays(worker[w])'
  <2> PICK x : x = worker'[w]
    OBVIOUS
  <2>1. CASE d.names # {}
    <3>1. x.pc = "link" /\ x.delivery = d
      BY <1>1, <2>1, HandlingDoes
    <3>2. HandSays(x)
      BY <3>1 DEF HandSays, Folds
    <3> QED BY <1>1, <3>2, HandStays DEF HandSays, Folds
  <2>2. CASE d.names = {}
    <3>1. x = Idle \/ (x = Listing(d) /\ d \in sent)
      BY <1>1, <2>2, HandlingDoes
    <3>2. HandSays(x)
      BY <3>1 DEF HandSays, Folds, Idle, Listing
    <3> QED BY <1>1, <3>2, HandStays DEF HandSays, Folds
  <2> QED BY <2>1, <2>2
<1>3. ASSUME NEW i \in pr.names, NEW e \in sent, Brings(e, i), e \in queue \/ ToWrite(worker[w], e, i)
      PROVE  e \in queue' \/ ToWrite(worker'[w], e, i)
  <2>1. e \in queue
    BY <1>1, <1>3 DEF ToWrite, Folds
  <2>2. CASE e = d
    <3>1. i \in d.names
      BY <1>3, <2>2 DEF Brings
    <3> QED BY <1>1, <2>2, <3>1, HandlingDoes DEF ToWrite, Folds
  <2> QED BY <2>1, <2>2
<1> QED BY <1>1, <1>2, <1>3, LinksRest, FoldByHand

LEMMA FoldOnReceive ==
  ASSUME LinksInv, FoldInv, NEW w \in Workers, NEW d \in sent, Receive(w, d)
  PROVE  FoldInv'
<1>1. Taking(w, d) /\ queue' = queue \ {d}
  BY ReceiveDoes DEF FoldInv, SentSays
<1>2. \A i \in d.names : Named(i) /\ (i \in pr.names => SaysOf(d, i))
  BY DEF FoldInv, SentSays, Named
<1> QED BY <1>1, <1>2, FoldTaken

\* What is read back says what GitHub does.
LEMMA FoldOnResync ==
  ASSUME LinksInv, FoldInv, NEW w \in Workers, Resync(w)
  PROVE  FoldInv'
<1>1. MergeSent /\ \A e \in sent : e.n <= pr.n
  BY DEF FoldInv, SentSays
<1>2. PICK d : /\ Taking(w, d) /\ d.action = "closed" /\ UNCHANGED queue
               /\ d.state = pr.state /\ d.names = pr.names /\ d.at = pr.at
  BY <1>1, ResyncDoes
<1>3. pr.state \in DOMAIN Rank /\ pr.at \in Int
  BY States DEF Resync, Missed, LinksInv, SentOK
<1>4. Rank[pr.state] \in Int
  BY <1>3, RanksApart
<1>5. Past(d)
  BY <1>2, <1>3, <1>4 DEF Past
<1>6. \A e \in sent : e.at <= d.at
  BY <1>2 DEF LinksInv, SentOK
<1>7. merge # Idle => d.state = "merged"
  BY <1>1, <1>2 DEF MergeSent
<1>8. \A i \in d.names : Named(i) /\ (i \in pr.names => SaysOf(d, i))
  BY <1>2, <1>5, <1>6, <1>7 DEF SaysOf, FoldInv, SentSays
<1>9. d.state \notin OpenStates
  BY <1>2, States DEF Resync, Missed
<1> QED BY <1>2, <1>8, <1>9, FoldTaken

LEMMA FoldOnStop ==
  ASSUME LinksInv, FoldInv, NEW w \in Workers, Stop(w)
  PROVE  FoldInv'
<1>1. OnlyHand(w) /\ worker'[w] = Idle /\ UNCHANGED <<link, issue>>
      /\ queue' = queue \cup ({worker[w].delivery} \cap sent)
  BY StopDoes
<1>2. HandSays(worker[w])'
  BY <1>1 DEF HandSays, Folds, Idle
<1> QED BY <1>1, <1>2, LinksRest, FoldByHand DEF ToWrite, OnlyHand

LEMMA FoldOnGetLink ==
  ASSUME LinksInv, FoldInv, NEW w \in Workers, GetLink(w)
  PROVE  FoldInv'
<1>1. /\ OnlyHand(w) /\ UNCHANGED <<queue, link, issue>> /\ SameJob(w)
      /\ worker[w].pc = "link" /\ worker'[w].pc = "put"
      /\ worker'[w].todo = worker[w].todo /\ worker'[w].of \in worker[w].todo
      /\ worker'[w].previous = link[worker'[w].of]
  BY GetLinkDoes
<1> PICK x : x = worker'[w]
  OBVIOUS
<1>2. x.of \in x.delivery.names /\ x.of \in Issues
  BY <1>1, InLink DEF Reads, SameJob, Delivery
<1>3. HandSays(worker[w])
  BY DEF FoldInv
<1>4. x.of \in pr.names /\ merge # Idle /\ x.previous.state \notin {"none", "merged"}
        => x.of \in merge.names
  BY <1>1, <1>2 DEF FoldInv, LinkSays, SaysOf
<1>5. HandSays(x)
  BY <1>1, <1>3, <1>4 DEF HandSays, SameJob, Folds
<1>6. HandSays(worker[w])'
  BY <1>1, <1>5, HandStays DEF HandSays, Folds, OnlyHand
<1>7. \A i, d : ToWrite(worker[w], d, i) => ToWrite(worker'[w], d, i)
  BY <1>1 DEF ToWrite, SameJob, Folds
<1> QED BY <1>1, <1>6, <1>7, LinksRest, FoldByHand DEF OnlyHand

\* The issue in hand is done with, and the others stay.
LEMMA SaysAfter ==
  ASSUME FoldInv, NEW w \in Workers, OnlyHand(w), worker[w].pc \in {"put", "move"}, DoneWith(w)
  PROVE  /\ HandSays(worker[w])'
         /\ \A d, i : ToWrite(worker[w], d, i) /\ i # worker[w].of => ToWrite(worker'[w], d, i)
<1> PICK x : x = worker'[w]
  OBVIOUS
<1>1. HandSays(worker[w])
  BY DEF FoldInv
<1>2. CASE SameJob(w) /\ x.pc = "link" /\ x.todo = worker[w].todo \ {worker[w].of}
  <2>1. HandSays(x)
    BY <1>1, <1>2 DEF HandSays, SameJob, Folds
  <2>2. HandSays(worker[w])'
    BY <2>1, HandStays DEF HandSays, Folds, OnlyHand
  <2> QED BY <1>2, <2>2 DEF ToWrite, SameJob, Folds
<1>3. CASE /\ worker[w].todo \subseteq {worker[w].of}
           /\ x = Idle \/ (x = Listing(worker[w].delivery) /\ worker[w].delivery.action # "closed")
  <2>1. HandSays(x)
    BY <1>1, <1>3 DEF HandSays, Folds, Idle, Listing
  <2>2. HandSays(worker[w])'
    BY <2>1, HandStays DEF HandSays, Folds, OnlyHand
  <2> QED BY <1>3, <2>2 DEF ToWrite
<1> QED BY <1>2, <1>3 DEF DoneWith

\* What a delivery writes of an issue it may say; what has arrived it leaves as it is.
LEMMA WriteSays ==
  ASSUME LinksInv, FoldInv, NEW d \in Delivery, NEW i \in d.names,
         Named(i), i \in pr.names => SaysOf(d, i), d.state \in OpenStates => d \in sent,
         UNCHANGED <<pr, merge, sent>>, Ordered(link[i], d), link' = [link EXCEPT ![i] = Written(d)]
  PROVE  /\ \A k \in Issues : LinkSays(link[k], k)'
         /\ \A k \in pr.names : Arrived(k) => Arrived(k)'
         /\ i \in pr.names /\ Brings(d, i) => Arrived(i)'
<1>1. i \in Issues /\ d.at \in Nat /\ d.at >= 1 /\ d.state \in DOMAIN Rank /\ Rank[d.state] \in Int
  BY RanksApart DEF Delivery
<1>2. /\ link'[i] = Written(d) /\ \A k \in Issues \ {i} : link'[k] = link[k]
      /\ Written(d).state = d.state /\ Written(d).at = d.at /\ ~Written(d).detached
  BY <1>1 DEF LinksInv, Written
<1>3. ASSUME NEW k \in Issues
      PROVE  LinkSays(link[k], k)'
  <2>1. CASE k = i
    <3> PICK l : l = Written(d)
      OBVIOUS
    <3>1. SaysOf(d, i) => SaysOf(l, i)
      BY <1>2 DEF SaysOf, Past
    <3>2. LinkSays(l, i)
      BY <1>2, <3>1 DEF LinkSays, SaidBySent
    <3>3. LinkSays(l, i)'
      BY <3>2, LinkStays
    <3> QED BY <1>2, <2>1, <3>3 DEF LinkSays
  <2>2. CASE k # i
    <3> PICK l : l = link[k]
      OBVIOUS
    <3>1. LinkSays(l, k)'
      BY LinkStays DEF FoldInv
    <3> QED BY <1>2, <2>2, <3>1 DEF LinkSays
  <2> QED BY <2>1, <2>2
<1>4. ASSUME NEW k \in pr.names, Arrived(k)
      PROVE  Arrived(k)'
  <2>1. CASE k # i
    <3>1. k \in Issues
      BY DEF LinksInv, SentOK
    <3> QED BY <1>2, <1>4, <2>1, <3>1 DEF Arrived
  <2>2. CASE k = i /\ pr.state = "merged"
    <3>1. d.state = "merged"
      BY <1>4, <2>2 DEF Arrived, Ordered
    <3> QED BY <1>2, <2>2, <3>1 DEF Arrived
  <2>3. CASE k = i /\ pr.state # "merged"
    <3>1. /\ link[i].at = pr.at /\ SaysOf(d, i)
          /\ link[i].state \in DOMAIN Rank /\ Rank[link[i].state] = Rank[pr.state]
      BY <1>4, <2>3 DEF Arrived
    <3>2. pr.state \in DOMAIN Rank /\ pr.at \in Int
      BY <1>4, <2>3 DEF Arrived, LinksInv, SentOK
    <3>3. d.at <= pr.at /\ (d.at = pr.at => Rank[d.state] <= Rank[pr.state])
      BY <3>1 DEF SaysOf, Past
    <3>4. link[i].state # "none"
      BY <3>1, States
    <3>5. d.at = pr.at /\ Rank[pr.state] <= Rank[d.state]
      BY <1>1, <3>1, <3>2, <3>3, <3>4 DEF Ordered
    <3>6. Rank[d.state] = Rank[pr.state]
      BY <1>1, <3>2, <3>3, <3>5, RanksApart
    <3> QED BY <1>1, <1>2, <2>3, <3>2, <3>5, <3>6 DEF Arrived
  <2> QED BY <2>1, <2>2, <2>3
<1>5. ASSUME i \in pr.names, Brings(d, i)
      PROVE  Arrived(i)'
  BY <1>1, <1>2, <1>5 DEF Brings, Arrived
<1> QED BY <1>3, <1>4, <1>5

\* A delivery that would bring the link to where GitHub is, is refused only by a link
\* that is there.
LEMMA NotRefused ==
  ASSUME LinksInv, FoldInv, NEW w \in Workers, worker[w].pc = "put",
         worker[w].of \in worker[w].delivery.names, worker[w].of \in pr.names,
         Brings(worker[w].delivery, worker[w].of),
         LeftToMerge(worker[w].delivery, worker[w].previous)
           \/ ~Ordered(link[worker[w].of], worker[w].delivery)
  PROVE  Arrived(worker[w].of)
<1> PICK d, i, l : d = worker[w].delivery /\ i = worker[w].of /\ l = link[i]
  OBVIOUS
<1>1. d \in Delivery /\ i \in Issues
  BY InFold DEF Delivery
<1>2. d.at \in Nat /\ d.at >= 1 /\ d.state \in DOMAIN Rank
  BY <1>1 DEF Delivery
<1>3. /\ Brings(d, i) /\ i \in pr.names /\ LinkSays(l, i) /\ SaysOf(d, i) /\ MergeSent
      /\ HandSays(worker[w])
  BY <1>1 DEF FoldInv, SentSays, HandSays, Folds
<1>4. l.state # "none" => l \in [state : DOMAIN Rank, at : 1..pr.at, detached : BOOLEAN]
  BY <1>1 DEF LinksInv, LinksOK, NoLink
<1>5. pr.at \in Int
  BY DEF LinksInv, SentOK
<1>6. CASE pr.state # "merged"
  <2>1. d.state = pr.state /\ d.at = pr.at
    BY <1>3, <1>6 DEF Brings
  <2>2. ~LeftToMerge(d, worker[w].previous)
    BY <1>6, <2>1 DEF LeftToMerge
  <2>3. ~Ordered(l, d)
    BY <2>2
  <2>4. l.state # "none" /\ SaysOf(l, i)
    BY <1>3, <2>3 DEF Ordered, LinkSays
  <2>5. l.state # "merged" /\ l.at <= pr.at /\ (l.at = pr.at => Rank[l.state] <= Rank[pr.state])
    BY <1>6, <2>4 DEF SaysOf, Past
  <2>6. l.at \in Int
    BY <1>4, <1>5, <2>4
  <2> QED BY <1>5, <2>1, <2>3, <2>5, <2>6 DEF Ordered
<1>7. CASE pr.state = "merged"
  <2>1. d.state = "merged" /\ merge # Idle /\ (d = merge \/ i \notin merge.names)
    BY <1>3, <1>7 DEF Brings, MergeSent
  <2>2. ~LeftToMerge(d, worker[w].previous)
    <3>1. CASE d = merge
      BY <1>3, <2>1, <3>1 DEF MergeSent, LeftToMerge
    <3>2. CASE i \notin merge.names
      BY <1>3, <2>1, <3>2 DEF HandSays, LeftToMerge
    <3> QED BY <2>1, <3>1, <3>2
  <2>3. ~Ordered(l, d)
    BY <2>2
  <2>4. l.state # "none" /\ SaysOf(l, i)
    BY <1>3, <2>3 DEF Ordered, LinkSays
  <2>5. ASSUME l.state # "merged"
        PROVE  FALSE
    <3>1. l.at <= merge.at /\ i \in merge.names
      BY <2>1, <2>4, <2>5 DEF SaysOf
    <3>2. d = merge
      BY <2>1, <3>1
    <3>3. l.state \in DOMAIN Rank /\ l.at \in Int
      BY <1>4, <1>5, <2>4
    <3>4. Rank[l.state] <= Rank[d.state]
      BY <2>1, <3>3, RanksApart
    <3> QED BY <1>2, <2>3, <2>5, <3>1, <3>2, <3>3, <3>4 DEF Ordered
  <2> QED BY <1>7, <2>5 DEF Arrived
<1> QED BY <1>6, <1>7

LEMMA FoldOnPutLink ==
  ASSUME LinksInv, FoldInv, NEW w \in Workers, PutLink(w)
  PROVE  FoldInv'
<1> PICK d, i : d = worker[w].delivery /\ i = worker[w].of
  OBVIOUS
<1> DEFINE takes == ~LeftToMerge(d, worker[w].previous) /\ Ordered(link[i], d)
<1>1. /\ OnlyHand(w) /\ UNCHANGED <<queue, issue>> /\ worker[w].pc = "put"
      /\ i \in d.names /\ d \in Delivery
      /\ \/ /\ takes /\ link' = [link EXCEPT ![i] = Written(d)]
            /\ \/ /\ SameJob(w) /\ worker'[w].pc = "move" /\ worker'[w].todo = worker[w].todo
                  /\ worker'[w].of = i
               \/ DoneWith(w)
         \/ ~takes /\ UNCHANGED link /\ DoneWith(w)
  BY PutLinkDoes
<1>2. HandSays(worker[w])
  BY DEF FoldInv
<1>3. Named(i) /\ (i \in pr.names => SaysOf(d, i)) /\ (d.state \in OpenStates => d \in sent)
  BY <1>1, <1>2 DEF HandSays, Folds
<1>4. /\ HandSays(worker[w])'
      /\ \A e, k : ToWrite(worker[w], e, k) /\ k # i => ToWrite(worker'[w], e, k)
  <2>1. CASE DoneWith(w)
    BY <1>1, <2>1, SaysAfter
  <2>2. CASE /\ SameJob(w) /\ worker'[w].pc = "move" /\ worker'[w].todo = worker[w].todo
             /\ worker'[w].of = i
    <3> PICK x : x = worker'[w]
      OBVIOUS
    <3>1. HandSays(x)
      BY <1>1, <1>2, <2>2 DEF HandSays, SameJob, Folds
    <3>2. HandSays(worker[w])'
      BY <1>1, <3>1, HandStays DEF HandSays, Folds, OnlyHand
    <3> QED BY <2>2, <3>2 DEF ToWrite, SameJob, Folds
  <2> QED BY <1>1, <2>1, <2>2
<1>5. /\ \A k \in Issues : LinkSays(link[k], k)'
      /\ \A k \in pr.names : Arrived(k) => Arrived(k)'
      /\ takes /\ i \in pr.names /\ Brings(d, i) => Arrived(i)'
  <2>1. CASE takes /\ link' = [link EXCEPT ![i] = Written(d)]
    BY <1>1, <1>3, <2>1, WriteSays DEF OnlyHand
  <2>2. CASE ~takes /\ UNCHANGED link
    BY <1>1, <2>2, LinksRest DEF OnlyHand
  <2> QED BY <1>1, <2>1, <2>2
<1>6. ASSUME i \in pr.names, Brings(d, i), ~takes
      PROVE  Arrived(i)'
  <2>1. Arrived(i)
    BY <1>1, <1>6, NotRefused
  <2> QED BY <1>5, <1>6, <2>1
<1> HIDE DEF takes
<1>7. ASSUME NEW k \in pr.names, NEW e \in sent, Brings(e, k), e \in queue \/ ToWrite(worker[w], e, k)
      PROVE  Arrived(k)' \/ e \in queue' \/ ToWrite(worker'[w], e, k)
  <2>1. CASE e \in queue
    BY <1>1, <2>1
  <2>2. CASE ToWrite(worker[w], e, k) /\ k # i
    BY <1>4, <2>2
  <2>3. CASE ToWrite(worker[w], e, k) /\ k = i
    <3>1. e = d
      BY <2>3 DEF ToWrite
    <3> QED BY <1>5, <1>6, <1>7, <2>3, <3>1
  <2> QED BY <1>7, <2>1, <2>2, <2>3
<1> QED BY <1>1, <1>4, <1>5, <1>7, FoldByHand

\* The link is written before the issue is moved.
LEMMA FoldOnMove ==
  ASSUME LinksInv, FoldInv, NEW w \in Workers, MoveIssue(w)
  PROVE  FoldInv'
<1>1. /\ OnlyHand(w) /\ UNCHANGED link /\ worker[w].pc = "move"
      /\ \/ DoneWith(w) /\ UNCHANGED queue
         \/ worker'[w] = Idle /\ queue' = queue \cup ({worker[w].delivery} \cap sent)
  BY MoveIssueDoes
<1>2. /\ \A i \in Issues : LinkSays(link[i], i)'
      /\ \A i \in pr.names : Arrived(i) => Arrived(i)'
  BY <1>1, LinksRest DEF OnlyHand
<1>3. CASE DoneWith(w) /\ UNCHANGED queue
  <2>1. /\ HandSays(worker[w])'
        /\ \A d, i : ToWrite(worker[w], d, i) /\ i # worker[w].of => ToWrite(worker'[w], d, i)
    BY <1>1, <1>3, SaysAfter
  <2>2. \A d, i : ToWrite(worker[w], d, i) => i # worker[w].of
    BY <1>1 DEF ToWrite
  <2> QED BY <1>1, <1>2, <1>3, <2>1, <2>2, FoldByHand
<1>4. CASE worker'[w] = Idle /\ queue' = queue \cup ({worker[w].delivery} \cap sent)
  <2>1. HandSays(worker[w])'
    BY <1>4 DEF HandSays, Folds, Idle
  <2>2. \A d \in sent, i \in pr.names : d \in queue \/ ToWrite(worker[w], d, i) => d \in queue'
    BY <1>4 DEF ToWrite
  <2> QED BY <1>1, <1>2, <2>1, <2>2, FoldByHand
<1> QED BY <1>1, <1>3, <1>4

LEMMA FoldOnList ==
  ASSUME LinksInv, FoldInv, NEW w \in Workers, ListLinks(w)
  PROVE  FoldInv'
<1>1. /\ OnlyHand(w) /\ UNCHANGED <<queue, link, issue>> /\ worker[w].pc = "list"
      /\ \/ worker'[w] = Idle
         \/ /\ worker'[w].pc = "detach" /\ worker'[w].delivery = worker[w].delivery
            /\ worker'[w].todo = Unnamed(worker[w].delivery)
  BY ListLinksDoes
<1> PICK x : x = worker'[w]
  OBVIOUS
<1>2. Unnamed(worker[w].delivery) \cap worker[w].delivery.names = {}
  BY DEF Unnamed
<1>3. HandSays(x)
  BY <1>1, <1>2 DEF FoldInv, HandSays, Folds, Idle
<1>4. HandSays(worker[w])'
  BY <1>1, <1>3, HandStays DEF HandSays, Folds, OnlyHand
<1> QED BY <1>1, <1>4, LinksRest, FoldByHand DEF ToWrite, Folds, OnlyHand

\* A link of an issue that is named is no earlier than what does not name it.
LEMMA FoldOnDetach ==
  ASSUME LinksInv, FoldInv, NEW w \in Workers, Detach(w)
  PROVE  FoldInv'
<1>1. /\ OnlyHand(w) /\ UNCHANGED <<queue, issue>> /\ worker[w].pc = "detach"
      /\ \/ worker'[w] = Idle
         \/ /\ worker'[w].pc = "detach" /\ worker'[w].delivery = worker[w].delivery
            /\ worker'[w].todo \subseteq worker[w].todo
  BY DetachDoes
<1>2. PICK i \in worker[w].todo :
        /\ i \in Issues /\ link[i].state # "none"
        /\ \/ UNCHANGED link
           \/ /\ Older(link[i], worker[w].delivery)
              /\ link' = [link EXCEPT ![i] = [state |-> link[i].state,
                                              at |-> worker[w].delivery.at, detached |-> TRUE]]
  BY DetachDoes
<1>3. HandSays(worker[w]) /\ LinkSays(link[i], i)
  BY <1>2 DEF FoldInv
<1>4. HandSays(worker[w])'
  <2> PICK x : x = worker'[w]
    OBVIOUS
  <2>1. HandSays(x)
    BY <1>1, <1>3 DEF HandSays, Folds, Idle
  <2> QED BY <1>1, <2>1, HandStays DEF HandSays, Folds, OnlyHand
<1>5. CASE UNCHANGED link
  BY <1>1, <1>4, <1>5, LinksRest, FoldByHand DEF ToWrite, Folds, OnlyHand
<1>6. CASE /\ Older(link[i], worker[w].delivery)
           /\ link' = [link EXCEPT ![i] = [state |-> link[i].state,
                                           at |-> worker[w].delivery.at, detached |-> TRUE]]
  <2>1. i \notin pr.names
    <3> SUFFICES ASSUME i \in pr.names PROVE FALSE
      OBVIOUS
    <3>1. worker[w].delivery \in sent /\ i \notin worker[w].delivery.names
      BY <1>1, <1>2, <1>3 DEF HandSays
    <3>2. worker[w].delivery.at <= link[i].at
      BY <1>2, <1>3, <3>1 DEF LinkSays, SaysOf
    <3>3. link[i].at \in Int /\ worker[w].delivery.at \in Int
      BY <1>2, <3>1 DEF LinksInv, LinksOK, NoLink, SentOK, Delivery
    <3> QED BY <1>6, <3>2, <3>3 DEF Older
  <2>2. /\ \A k \in Issues \ {i} : link'[k] = link[k]
        /\ link'[i].state = link[i].state
    BY <1>2, <1>6 DEF LinksInv
  <2>3. Named(i)' /\ i \notin pr'.names
    BY <1>1, <1>2, <1>3, <2>1, SaidStays DEF LinkSays, OnlyHand
  <2>4. ASSUME NEW k \in Issues
        PROVE  LinkSays(link[k], k)'
    <3>1. CASE k = i
      BY <2>3, <3>1 DEF LinkSays
    <3>2. CASE k # i
      <4> PICK l : l = link[k]
        OBVIOUS
      <4>1. LinkSays(l, k)'
        BY <1>1, LinkStays DEF FoldInv, OnlyHand
      <4> QED BY <2>2, <3>2, <4>1 DEF LinkSays
    <3> QED BY <3>1, <3>2
  <2>5. \A k \in pr.names : Arrived(k) => Arrived(k)'
    <3>1. pr.names \subseteq Issues \ {i}
      BY <2>1 DEF LinksInv, SentOK
    <3> QED BY <1>1, <2>2, <3>1 DEF Arrived, OnlyHand
  <2> QED BY <1>1, <1>4, <2>4, <2>5, FoldByHand DEF ToWrite, Folds
<1> QED BY <1>2, <1>5, <1>6

LEMMA FoldOnOthers ==
  ASSUME LinksInv, FoldInv,
         UNCHANGED vars \/ (\E i \in Issues : Change(i)) \/ (\E d \in sent : Lose(d) \/ Repeat(d))
  PROVE  FoldInv'
<1>1. UNCHANGED <<pr, merge, sent, worker, link>> /\ (lost => lost') /\ (queue \subseteq queue' \/ lost')
  BY DEF vars, Change, Lose, Repeat
<1>2. SentSays'
  BY <1>1, SentStays DEF FoldInv
<1>3. ASSUME NEW v \in Workers
      PROVE  HandSays(worker[v])'
  <2> PICK x : x = worker[v]
    OBVIOUS
  <2>1. HandSays(x)'
    BY <1>1, HandStays DEF FoldInv
  <2> QED BY <1>1, <2>1 DEF HandSays, Folds
<1>4. /\ \A i \in Issues : LinkSays(link[i], i)'
      /\ \A i \in pr.names : Arrived(i) => Arrived(i)'
  BY <1>1, LinksRest
<1>5. ASSUME NEW i \in pr.names, OnItsWay(i)
      PROVE  lost' \/ OnItsWay(i)'
  <2>1. PICK d \in sent : Brings(d, i) /\ (d \in queue \/ \E w \in Workers : ToWrite(worker[w], d, i))
    BY <1>5 DEF OnItsWay
  <2>2. Brings(d, i)'
    BY <1>1, <2>1, SaidStays
  <2> QED BY <1>1, <2>1, <2>2 DEF OnItsWay
<1> QED BY <1>1, <1>2, <1>3, <1>4, <1>5 DEF FoldInv

-----------------------------------------------------------------------------
(* The links: the theorems.                                                *)

LEMMA FoldStarts == Init => FoldInv
<1> SUFFICES ASSUME Init PROVE FoldInv
  OBVIOUS
<1>1. /\ pr.state = "none" /\ pr.names = {} /\ merge = Idle /\ sent = {}
      /\ \A w \in Workers : worker[w] = Idle
      /\ \A i \in Issues : link[i].state = "none"
  BY DEF Init, NoLink
<1>2. \A w \in Workers : HandSays(worker[w])
  BY <1>1 DEF HandSays, Folds, Idle
<1> QED BY <1>1, <1>2 DEF FoldInv, SentSays, MergeSent, LinkSays

LEMMA FoldSteps ==
  LinksInv /\ LinksInv' /\ MergeInv /\ MergeInv' /\ FoldInv /\ [Next]_vars /\ [NamedOnce]_vars => FoldInv'
<1> SUFFICES ASSUME LinksInv, LinksInv', MergeInv', FoldInv, [Next]_vars, [NamedOnce]_vars
             PROVE  FoldInv'
  OBVIOUS
<1>1. CASE Open \/ Close \/ Reopen \/ Redraft \/ Edit
  <2>1. PICK d : Sends(d)
    BY <1>1, SendDoes
  <2>2. NamedOnce
    <3>1. pr'.n # pr.n
      BY <2>1 DEF Sends, LinksInv, SentOK
    <3> QED BY <3>1 DEF vars
  <2> QED BY <2>1, <2>2, FoldOnSend DEF MergeInv
<1>2. CASE UNCHANGED vars \/ (\E i \in Issues : Change(i)) \/ (\E d \in sent : Lose(d) \/ Repeat(d))
  BY <1>2, FoldOnOthers
<1>3. ASSUME NEW w \in Workers, Step(w) \/ Stop(w) \/ Resync(w) \/ \E d \in sent : Receive(w, d)
      PROVE  FoldInv'
  BY <1>3, FoldOnGetLink, FoldOnPutLink, FoldOnMove, FoldOnList, FoldOnDetach, FoldOnStop,
     FoldOnResync, FoldOnReceive DEF Step
<1> QED BY <1>1, <1>2, <1>3 DEF Next

LEMMA FoldEnough == LinksInv /\ FoldInv => LinksConverge
<1> SUFFICES ASSUME LinksInv, FoldInv, Quiet, ~lost, NEW i \in pr.names
             PROVE  link[i].state = pr.state \/ Tied(i)
  BY DEF LinksConverge
<1>1. ~OnItsWay(i)
  BY DEF Quiet, OnItsWay, ToWrite, Folds, Idle
<1>2. Arrived(i)
  BY <1>1 DEF FoldInv
<1>3. CASE pr.state = "merged"
  BY <1>2, <1>3 DEF Arrived
<1>4. CASE pr.state # "merged" /\ link[i].state # pr.state
  <2>1. {link[i].state, pr.state} = OpenStates /\ link[i].at = pr.at
    BY <1>2, <1>4, RanksApart DEF Arrived
  <2>2. i \in Issues /\ link[i].state \in OpenStates /\ link[i].state # "none"
    BY <2>1, States DEF LinksInv, SentOK
  <2>3. SaidBySent(link[i])
    BY <2>2 DEF FoldInv, LinkSays
  <2> QED BY <2>1, <2>3 DEF Tied, SaidBySent
<1> QED BY <1>3, <1>4

LEMMA AttachedEnough == LinksInv /\ FoldInv => NamedStayAttached
<1> SUFFICES ASSUME LinksInv, FoldInv, NEW i \in pr.names PROVE ~link[i].detached
  BY DEF NamedStayAttached
<1>1. i \in Issues /\ LinkSays(link[i], i)
  BY DEF LinksInv, SentOK, FoldInv
<1>2. link[i].state = "none" => ~link[i].detached
  BY <1>1, States DEF LinksInv, LinksOK, NoLink
<1> QED BY <1>1, <1>2 DEF LinkSays

\* However the deliveries of a pull request are ordered, repeated and interleaved, once
\* all are handled the link of every issue it names has its state, as long as no issue is
\* taken off the pull request and put back: whichever delivery brings the link there is
\* refused by none that came before it, and undone by none that comes after.  Within one
\* second nothing tells a draft from an open pull request, and either may be left.
THEOREM LinksHold == Spec /\ [][NamedOnce]_vars => []LinksConverge
  BY InvStarts, InvSteps, MergeStarts, MergeSteps, FoldStarts, FoldSteps, FoldEnough, PTL DEF Spec

\* And it is attached: a delivery that does not name the issue is older than the one that
\* brought the link there, and is refused.
THEOREM AttachedHold == Spec /\ [][NamedOnce]_vars => []NamedStayAttached
  BY InvStarts, InvSteps, MergeStarts, MergeSteps, FoldStarts, FoldSteps, AttachedEnough, PTL DEF Spec

\* Before the first edit every delivery names what the pull request names.
EditInv == edits = 0 => \A d \in sent : d.names \subseteq pr.names

LEMMA OneEdit ==
  ASSUME EDITS <= 1
  PROVE  LinksInv /\ EditInv /\ [Next]_vars => EditInv' /\ [NamedOnce]_vars
<1> SUFFICES ASSUME LinksInv, EditInv, [Next]_vars PROVE EditInv' /\ [NamedOnce]_vars
  OBVIOUS
<1>1. edits \in Nat /\ EDITS \in Nat
  BY LinksAssumption DEF LinksInv, Bounded
<1>2. CASE Open \/ Close \/ Reopen \/ Redraft \/ Edit
  <2>1. PICK d : Sends(d)
    BY <1>2, SendDoes
  <2>2. sent' = sent \cup {d} /\ pr'.names = d.names
    BY <2>1 DEF Sends
  <2>3. CASE Open
    <3>1. sent = {}
      <4>1. pr.at = 0 /\ \A e \in sent : e.at \in Int /\ e.at >= 1 /\ e.at <= pr.at
        BY <2>3 DEF Open, LinksInv, SentOK, Delivery
      <4> QED BY <4>1
    <3> QED BY <2>2, <3>1 DEF EditInv, NamedOnce
  <2>4. CASE Close \/ Reopen
    <3>1. pr'.names = pr.names /\ edits' = edits
      BY <2>4 DEF Close, Reopen, Send
    <3> QED BY <2>2, <3>1 DEF EditInv, NamedOnce
  <2>5. CASE Redraft
    <3>1. pr'.names = pr.names /\ edits' # 0
      BY <1>1, <2>5 DEF Redraft, Send
    <3> QED BY <3>1 DEF EditInv, NamedOnce
  <2>6. CASE Edit
    <3>1. edits = 0 /\ edits' = 1
      BY <1>1, <2>6 DEF Edit
    <3> QED BY <3>1 DEF EditInv, NamedOnce
  <2> QED BY <1>2, <2>3, <2>4, <2>5, <2>6
<1>3. CASE UNCHANGED <<pr, sent>> /\ edits <= edits'
  BY <1>1, <1>3 DEF EditInv, NamedOnce
<1>4. ASSUME NEW w \in Workers, Step(w) \/ Stop(w) \/ Resync(w) \/ \E d \in sent : Receive(w, d)
      PROVE  UNCHANGED <<pr, sent, edits>>
  BY <1>4 DEF Step, GetLink, PutLink, MoveIssue, ListLinks, Detach, Stop, Resync, Receive, At
<1>5. CASE UNCHANGED vars \/ (\E i \in Issues : Change(i)) \/ (\E d \in sent : Lose(d) \/ Repeat(d))
  <2>1. UNCHANGED <<pr, sent>> /\ edits <= edits'
    BY <1>1, <1>5 DEF vars, Change, Lose, Repeat
  <2> QED BY <1>3, <2>1
<1>6. edits <= edits
  BY <1>1
<1> QED BY <1>2, <1>3, <1>4, <1>5, <1>6 DEF Next

\* One edit takes no issue off and puts it back: with that many there are no conditions.
COROLLARY LinksHoldOnce ==
  ASSUME EDITS <= 1
  PROVE  Spec => [](LinksConverge /\ NamedStayAttached)
<1>1. Init => EditInv
  BY DEF Init, EditInv
<1>2. Spec => [][NamedOnce]_vars
  BY <1>1, InvStarts, InvSteps, OneEdit, PTL DEF Spec
<1> QED BY <1>2, LinksHold, AttachedHold, PTL
=============================================================================
