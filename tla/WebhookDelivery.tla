---------------------------- MODULE WebhookDelivery ----------------------------
(***************************************************************************)
(* Outbound webhooks: domains/integrations/outbound/delivery.py over the   *)
(* endpoint, delivery and slot rows of common/db/dynamo/github.py.         *)
(*                                                                         *)
(* One endpoint of one workspace.  The stream consumer logs a delivery and *)
(* queues its first attempt; a dispatch worker makes one attempt per job   *)
(* and queues the next one itself.  Every read and write of a row is a     *)
(* step.  A job's delay is not modelled: it may be received at any time    *)
(* after it is queued.  Time passes only for the slot leases, in ticks.    *)
(* Whether the endpoint wants a change (its cached row is active,          *)
(* subscribed to the type, its team still there) is a choice, made anew    *)
(* each time the change is handed over.                                    *)
(***************************************************************************)
EXTENDS Integers, FiniteSets

CONSTANTS
  Deliveries,         \* the changes this endpoint is told of
  Workers,            \* the dispatch consumer's concurrent invocations
  Slots,              \* WORKSPACE_IN_FLIGHT_LIMIT of them
  MaxAttempts,        \* MAX_ATTEMPTS
  Threshold,          \* CIRCUIT_BREAKER_THRESHOLD
  Timeout,            \* ticks one request may take: DELIVERY_TIMEOUT_SECONDS
  Lease,              \* ticks a slot is held for: SLOT_LEASE_SECONDS
  Overlap,            \* whether two jobs of one delivery may be at work at once
  CrashBeforeRequeue, \* whether a worker may stop between a retry's row and its job
  FAULTS              \* bound: workers and batches that stop half way, batches handed
                      \* over again, and changes an admin makes, together

ASSUME WebhookAssumption ==
  /\ IsFiniteSet(Workers)
  /\ Slots \in SUBSET Nat /\ IsFiniteSet(Slots)
  /\ MaxAttempts \in Nat \ {0} /\ Threshold \in Nat \ {0}
  /\ Timeout \in Nat \ {0} /\ Lease \in Nat /\ Lease > Timeout
  /\ Overlap \in BOOLEAN /\ CrashBeforeRequeue \in BOOLEAN
  /\ FAULTS \in Nat

Numbers == 1..MaxAttempts

NoRow == [state |-> "none", attempts |-> 0]

\* A worker with nothing in hand.
Idle == [pc |-> "idle"]

\* A slot whose lease ran out, or that was given back.
Free == -1

VARIABLES
  endpoint,  \* the endpoint's row: there at all, active, its run of failures
  deleting,  \* an admin's delete has removed the log and not yet the endpoint
  rows,      \* the delivery log
  record,    \* how far the stream consumer got with each change
  queue,     \* how many jobs wait for each attempt of each delivery
  worker,    \* what each worker has in hand, with what it read
  slots,     \* who leased each slot, and the ticks until the lease ends
  posts,     \* history: the requests made for each attempt
  unlogged,  \* history: workers that stopped after a request, before its row
  faults,
  stopped,   \* history: changes whose batch stopped between the row and its job
  enabling,  \* an admin's request to enable, between its read and its write:
             \* whether the row it read makes it clear the run
  spared     \* history: the run that the last enabling left standing

\* What only a batch that stops and an admin's enabling move.
aside == <<stopped, enabling, spared>>

vars == <<endpoint, deleting, rows, record, queue, worker, slots, posts, unlogged, faults, aside>>

Busy == {w \in Workers : worker[w].pc # "idle"}

\* The workers with a request under way.
Posting == {w \in Workers : worker[w].pc = "posting"}

\* From the request until the row that records it.
Unrecorded == {"posting", "answered", "open", "close", "retry"}

TypeOK ==
  /\ endpoint \in [present : BOOLEAN, active : BOOLEAN, failures : Nat]
  /\ deleting \in BOOLEAN
  /\ rows \in [Deliveries -> [state : {"none", "pending", "retrying", "delivered", "failed"},
                              attempts : 0..MaxAttempts]]
  /\ record \in [Deliveries -> {"due", "logged", "done"}]
  /\ queue \in [Deliveries -> [Numbers -> Nat]]
  /\ \A w \in Workers :
       /\ worker[w].pc \in Unrecorded \cup {"idle", "start", "skip", "ready", "reset", "requeue", "ack"}
       /\ w \in Busy => worker[w].delivery \in Deliveries /\ worker[w].number \in Numbers
  /\ slots \in [Slots -> [by : Workers \cup {"nobody"}, left : Free..Lease]]
  /\ posts \in [Deliveries -> [Numbers -> Nat]]
  /\ unlogged \in Nat
  /\ faults \in 0..FAULTS
  /\ stopped \subseteq Deliveries
  /\ enabling \in {"none", "clearing", "keeping"}
  /\ spared \in Nat

Init ==
  /\ endpoint = [present |-> TRUE, active |-> TRUE, failures |-> 0]
  /\ deleting = FALSE
  /\ rows = [d \in Deliveries |-> NoRow]
  /\ record = [d \in Deliveries |-> "due"]
  /\ queue = [d \in Deliveries |-> [n \in Numbers |-> 0]]
  /\ worker = [w \in Workers |-> Idle]
  /\ slots = [s \in Slots |-> [by |-> "nobody", left |-> Free]]
  /\ posts = [d \in Deliveries |-> [n \in Numbers |-> 0]]
  /\ unlogged = 0
  /\ faults = 0
  /\ stopped = {} /\ enabling = "none" /\ spared = 0

Fault == faults < FAULTS /\ faults' = faults + 1

-----------------------------------------------------------------------------
(* The stream consumer.                                                    *)

Queued(d, n) == [queue EXCEPT ![d][n] = @ + 1]

\* Variant: the row stored whatever is there.
LogAnyway(d) ==
  /\ record[d] = "due"
  /\ rows' = [rows EXCEPT ![d] = [state |-> "pending", attempts |-> 0]]
  /\ record' = [record EXCEPT ![d] = "logged"]
  /\ UNCHANGED <<endpoint, deleting, queue, worker, slots, posts, unlogged, faults, aside>>

\* A change the endpoint does not want, or no longer, whether it was logged or not.
PassedOver(d) == record' = [record EXCEPT ![d] = "done"] /\ UNCHANGED rows

\* A change becomes a row.  One already logged goes on to be queued only while it
\* was never attempted.  The endpoint may be gone: the consumer remembers it.
Log(d) ==
  /\ record[d] = "due"
  /\ \/ PassedOver(d)
     \/ /\ rows[d].state = "none"
        /\ rows' = [rows EXCEPT ![d].state = "pending"]
        /\ record' = [record EXCEPT ![d] = "logged"]
     \/ /\ rows[d].state # "none"
        /\ record' = [record EXCEPT ![d] =
             IF rows[d].state = "pending" /\ rows[d].attempts = 0 THEN "logged" ELSE "done"]
        /\ UNCHANGED rows
  /\ UNCHANGED <<endpoint, deleting, queue, worker, slots, posts, unlogged, faults, aside>>

QueueFirst(d) ==
  /\ record[d] = "logged"
  /\ record' = [record EXCEPT ![d] = "done"]
  /\ queue' = Queued(d, 1)
  /\ UNCHANGED <<endpoint, deleting, rows, worker, slots, posts, unlogged, faults, aside>>

\* The stream hands a batch over again: it stopped half way, or failed at a later record.
BatchStops(d) ==
  /\ Fault
  /\ record[d] = "logged"
  /\ record' = [record EXCEPT ![d] = "due"]
  /\ stopped' = stopped \cup {d}
  /\ UNCHANGED <<endpoint, deleting, rows, queue, worker, slots, posts, unlogged, enabling, spared>>

BatchAgain(d) ==
  /\ Fault
  /\ record[d] = "done"
  /\ record' = [record EXCEPT ![d] = "due"]
  /\ UNCHANGED <<endpoint, deleting, rows, queue, worker, slots, posts, unlogged, aside>>

-----------------------------------------------------------------------------
(* One attempt: run_attempt.                                               *)

At(w, pc) == w \in Workers /\ worker[w].pc = pc

\* A worker that is done with its job no longer needs what it read.
Job(w) == [pc |-> "ack", delivery |-> worker[w].delivery, number |-> worker[w].number]

To(w, pc) == worker' = [worker EXCEPT ![w] = IF pc = "ack" THEN Job(w) ELSE [@ EXCEPT !.pc = pc]]

\* The queue hides a job for longer than a worker may run (180 s against 29 s), so two
\* workers have one delivery in hand only when it was queued, or handed out, twice.
Alone(d) == \A w \in Busy : worker[w].delivery # d

\* A worker takes a job and reads the endpoint.
Receive(w, d, n) ==
  /\ At(w, "idle") /\ queue[d][n] > 0
  /\ Overlap \/ Alone(d)
  /\ queue' = [queue EXCEPT ![d][n] = @ - 1]
  /\ worker' = [worker EXCEPT ![w] =
       [pc |-> "start", delivery |-> d, number |-> n, endpoint |-> endpoint,
        attempts |-> 0, age |-> 0, outcome |-> "none"]]
  /\ UNCHANGED <<endpoint, deleting, rows, record, slots, posts, unlogged, faults, aside>>

\* Variant: only whether the delivery is closed.
DuplicateIfClosed(row, n) == row.state \in {"delivered", "failed"}

\* A job whose attempt is recorded already, or whose delivery is closed.
Duplicate(row, n) == row.state \in {"delivered", "failed"} \/ row.attempts >= n

\* It reads the delivery and decides.
Check(w) ==
  /\ At(w, "start")
  /\ LET row == rows[worker[w].delivery]
     IN  \/ /\ ~worker[w].endpoint.present \/ row.state = "none" \/ Duplicate(row, worker[w].number)
            /\ To(w, "ack")
         \/ /\ worker[w].endpoint.present /\ row.state # "none" /\ ~Duplicate(row, worker[w].number)
            /\ worker' = [worker EXCEPT ![w].attempts = row.attempts,
                                        ![w].pc = IF worker[w].endpoint.active THEN "ready" ELSE "skip"]
  /\ UNCHANGED <<endpoint, deleting, rows, record, queue, slots, posts, unlogged, faults, aside>>

\* A row is stored whole, replacing whatever is there.
Put(w, state, attempts) ==
  rows' = [rows EXCEPT ![worker[w].delivery] = [state |-> state, attempts |-> attempts]]

\* The endpoint was disabled: the delivery ends without a request.
Skip(w) ==
  /\ At(w, "skip")
  /\ Put(w, "failed", worker[w].attempts)
  /\ To(w, "ack")
  /\ UNCHANGED <<endpoint, deleting, record, queue, slots, posts, unlogged, faults, aside>>

\* Variant: a slot taken without looking.
ClaimableAlways(s) == s \in Slots

\* A slot nobody leased, or whose lease has ended.
Claimable(s) == slots[s].left = Free

\* The first free slot is leased and the request begins.
Acquire(w) ==
  /\ At(w, "ready")
  /\ \E s \in Slots :
       /\ Claimable(s) /\ \A t \in Slots : Claimable(t) => s <= t
       /\ slots' = [slots EXCEPT ![s] = [by |-> w, left |-> Lease]]
  /\ posts' = [posts EXCEPT ![worker[w].delivery][worker[w].number] = @ + 1]
  /\ To(w, "posting")
  /\ UNCHANGED <<endpoint, deleting, rows, record, queue, unlogged, faults, aside>>

\* Variant: an attempt put off is counted as made.
DeferAsMade(w) ==
  /\ At(w, "ready")
  /\ \A s \in Slots : ~Claimable(s)
  /\ worker[w].number < MaxAttempts
  /\ queue' = Queued(worker[w].delivery, worker[w].number + 1)
  /\ To(w, "ack")
  /\ UNCHANGED <<endpoint, deleting, rows, record, slots, posts, unlogged, faults, aside>>

\* Every slot is held: the same attempt goes back on the queue.
Defer(w) ==
  /\ At(w, "ready")
  /\ \A s \in Slots : ~Claimable(s)
  /\ queue' = Queued(worker[w].delivery, worker[w].number)
  /\ To(w, "ack")
  /\ UNCHANGED <<endpoint, deleting, rows, record, slots, posts, unlogged, faults, aside>>

\* The request ends, in whatever way, and the slot is given back if it is still leased.
Answer(w) ==
  /\ At(w, "posting")
  /\ \E outcome \in {"delivered", "retryable", "refused"} :
       worker' = [worker EXCEPT ![w].outcome = outcome, ![w].pc = "answered", ![w].age = 0]
  /\ slots' = [s \in Slots |-> IF slots[s].by = w THEN [by |-> "nobody", left |-> Free] ELSE slots[s]]
  /\ UNCHANGED <<endpoint, deleting, rows, record, queue, posts, unlogged, faults, aside>>

\* A delivered attempt closes the delivery; the run is reset if the endpoint had one
\* when it was read.
Deliver(w) ==
  /\ At(w, "answered") /\ worker[w].outcome = "delivered"
  /\ Put(w, "delivered", worker[w].attempts + 1)
  /\ To(w, IF worker[w].endpoint.failures > 0 THEN "reset" ELSE "ack")
  /\ UNCHANGED <<endpoint, deleting, record, queue, slots, posts, unlogged, faults, aside>>

\* Variant: the endpoint stored as it was read.
ResetWhole(w) ==
  /\ At(w, "reset")
  /\ endpoint' = IF endpoint.present THEN [worker[w].endpoint EXCEPT !.failures = 0] ELSE endpoint
  /\ To(w, "ack")
  /\ UNCHANGED <<deleting, rows, record, queue, slots, posts, unlogged, faults, aside>>

ResetRun(w) ==
  /\ At(w, "reset")
  /\ endpoint' = IF endpoint.present THEN [endpoint EXCEPT !.failures = 0] ELSE endpoint
  /\ To(w, "ack")
  /\ UNCHANGED <<deleting, rows, record, queue, slots, posts, unlogged, faults, aside>>

\* Variant: the breaker opens one failure late.
TripsLate(failures) == failures > Threshold

\* Whether a run this long opens the breaker.
Trips(failures) == failures >= Threshold

\* A failed attempt is added to the run of the endpoint, if there still is one.
CountFailure(w) ==
  /\ At(w, "answered") /\ worker[w].outcome # "delivered"
  /\ LET failures == IF endpoint.present THEN endpoint.failures + 1 ELSE 0
         again    == worker[w].outcome = "retryable" /\ worker[w].number < MaxAttempts
     IN  /\ endpoint' = IF endpoint.present THEN [endpoint EXCEPT !.failures = failures] ELSE endpoint
         /\ To(w, IF Trips(failures) THEN "open" ELSE IF again THEN "retry" ELSE "close")
  /\ UNCHANGED <<deleting, rows, record, queue, slots, posts, unlogged, faults, aside>>

OpenBreaker(w) ==
  /\ At(w, "open")
  /\ endpoint' = IF endpoint.present THEN [endpoint EXCEPT !.active = FALSE] ELSE endpoint
  /\ To(w, "close")
  /\ UNCHANGED <<deleting, rows, record, queue, slots, posts, unlogged, faults, aside>>

Close(w) ==
  /\ At(w, "close")
  /\ Put(w, "failed", worker[w].attempts + 1)
  /\ To(w, "ack")
  /\ UNCHANGED <<endpoint, deleting, record, queue, slots, posts, unlogged, faults, aside>>

Retry(w) ==
  /\ At(w, "retry")
  /\ Put(w, "retrying", worker[w].attempts + 1)
  /\ To(w, "requeue")
  /\ UNCHANGED <<endpoint, deleting, record, queue, slots, posts, unlogged, faults, aside>>

Requeue(w) ==
  /\ At(w, "requeue")
  /\ queue' = Queued(worker[w].delivery, worker[w].number + 1)
  /\ To(w, "ack")
  /\ UNCHANGED <<endpoint, deleting, rows, record, slots, posts, unlogged, faults, aside>>

\* The job is done and leaves the queue.
Ack(w) ==
  /\ At(w, "ack")
  /\ worker' = [worker EXCEPT ![w] = Idle]
  /\ UNCHANGED <<endpoint, deleting, rows, record, queue, slots, posts, unlogged, faults, aside>>

\* A worker stops anywhere: its job comes back, its slot stays leased until it ends.
Crash(w) ==
  /\ Fault
  /\ w \in Busy
  /\ CrashBeforeRequeue \/ ~At(w, "requeue")
  /\ queue' = Queued(worker[w].delivery, worker[w].number)
  /\ slots' = [s \in Slots |-> IF slots[s].by = w THEN [slots[s] EXCEPT !.by = "nobody"] ELSE slots[s]]
  /\ worker' = [worker EXCEPT ![w] = Idle]
  /\ unlogged' = IF worker[w].pc \in Unrecorded THEN unlogged + 1 ELSE unlogged
  /\ UNCHANGED <<endpoint, deleting, rows, record, posts, aside>>

\* Variant: a slot is held until it is given back.
TickWithoutLease ==
  /\ \E s \in Slots : slots[s].left # Free
  /\ \A w \in Posting : worker[w].age < Timeout
  /\ worker' = [w \in Workers |->
       IF w \in Posting THEN [worker[w] EXCEPT !.age = @ + 1] ELSE worker[w]]
  /\ UNCHANGED <<endpoint, deleting, rows, record, queue, slots, posts, unlogged, faults, aside>>

\* Time: no request outlives its deadline.
Tick ==
  /\ \E s \in Slots : slots[s].left # Free
  /\ \A w \in Posting : worker[w].age < Timeout
  /\ slots' = [s \in Slots |->
       IF slots[s].left <= 0 THEN [by |-> "nobody", left |-> Free]
       ELSE [slots[s] EXCEPT !.left = @ - 1]]
  /\ worker' = [w \in Workers |->
       IF w \in Posting THEN [worker[w] EXCEPT !.age = @ + 1] ELSE worker[w]]
  /\ UNCHANGED <<endpoint, deleting, rows, record, queue, posts, unlogged, faults, aside>>

-----------------------------------------------------------------------------
(* The settings page: endpoints/webhooks.py.                               *)

\* Turning it on reads the endpoint, which decides whether the run is cleared ...
AskEnable ==
  /\ Fault /\ endpoint.present /\ enabling = "none"
  /\ enabling' = IF ~endpoint.active \/ endpoint.failures > 0 THEN "clearing" ELSE "keeping"
  /\ UNCHANGED <<endpoint, deleting, rows, record, queue, worker, slots, posts, unlogged, stopped, spared>>

\* ... and writes after the checks of the rest of the form, if it is still there.
Enable ==
  /\ enabling # "none"
  /\ endpoint' = IF ~endpoint.present THEN endpoint
                 ELSE [endpoint EXCEPT !.active = TRUE, !.failures = IF enabling = "clearing" THEN 0 ELSE @]
  /\ spared' = endpoint'.failures
  /\ enabling' = "none"
  /\ UNCHANGED <<deleting, rows, record, queue, worker, slots, posts, unlogged, faults, stopped>>

Disable ==
  /\ Fault /\ endpoint.present
  /\ endpoint' = [endpoint EXCEPT !.active = FALSE]
  /\ UNCHANGED <<deleting, rows, record, queue, worker, slots, posts, unlogged, aside>>

\* Deleting it removes the log first, then the endpoint.
DeleteLog ==
  /\ Fault /\ endpoint.present /\ ~deleting
  /\ rows' = [d \in Deliveries |-> NoRow]
  /\ deleting' = TRUE
  /\ UNCHANGED <<endpoint, record, queue, worker, slots, posts, unlogged, aside>>

DeleteEndpoint ==
  /\ deleting /\ endpoint.present
  /\ endpoint' = [present |-> FALSE, active |-> FALSE, failures |-> 0]
  /\ deleting' = FALSE
  /\ UNCHANGED <<rows, record, queue, worker, slots, posts, unlogged, faults, aside>>

Attempt(w) ==
  \/ Check(w) \/ Skip(w) \/ Acquire(w) \/ Defer(w) \/ Answer(w)
  \/ Deliver(w) \/ ResetRun(w) \/ CountFailure(w) \/ OpenBreaker(w)
  \/ Close(w) \/ Retry(w) \/ Requeue(w) \/ Ack(w)

Next ==
  \/ \E d \in Deliveries : Log(d) \/ QueueFirst(d) \/ BatchStops(d) \/ BatchAgain(d)
  \/ \E w \in Workers, d \in Deliveries, n \in Numbers : Receive(w, d, n)
  \/ \E w \in Workers : Attempt(w) \/ Crash(w)
  \/ Tick
  \/ AskEnable \/ Enable \/ Disable \/ DeleteLog \/ DeleteEndpoint

Spec == Init /\ [][Next]_vars

\* The stream retries a batch and the queue a job until they are handled; a worker runs
\* on, and time passes.
FairSpec ==
  /\ Spec
  /\ \A d \in Deliveries : WF_vars(Log(d)) /\ WF_vars(QueueFirst(d))
  /\ \A d \in Deliveries, n \in Numbers : SF_vars(\E w \in Workers : Receive(w, d, n))
  /\ \A w \in Workers : WF_vars(Attempt(w))
  /\ WF_vars(Tick)

-----------------------------------------------------------------------------
(* Properties.                                                             *)

\* A workspace has at most WORKSPACE_IN_FLIGHT_LIMIT queued attempts in flight, though
\* a slot whose worker died is given to another: the lease outlives the request.
InFlightWithinLimit == Cardinality(Posting) <= Cardinality(Slots)

\* An attempt is posted once, and once more for each worker that stopped after the
\* request and before its row: a job that comes back later is dropped, for as long
\* as the log it would be found in is kept.
PostedOnce ==
  endpoint.present /\ ~deleting =>
    \A d \in Deliveries, n \in Numbers : posts[d][n] <= 1 + unlogged

\* A dead receiver is called no more often than the breaker allows: past the threshold
\* only the workers that had read the endpoint before it was disabled still add to
\* the run, and one that stopped before it disabled it.  An enabling that judged an
\* earlier row may leave a run standing; then that run grows by no more than these.
RunBounded ==
  \/ endpoint.failures < Threshold + Cardinality(Workers) + faults
  \/ endpoint.failures <= spared + Cardinality(Workers) + faults

\* A closed delivery is never taken up again, whatever comes back, and a row never
\* forgets an attempt; only deleting the endpoint takes it away.
ClosedStaysClosed ==
  [][\A d \in Deliveries :
       rows'[d].state = "none"
       \/ /\ rows[d].attempts <= rows'[d].attempts
          /\ rows[d].state \in {"delivered", "failed"} => rows'[d] = rows[d]]_vars

\* Only an admin turns an endpoint on: a worker that read it earlier does not.
OnlyAdminEnables == [][~endpoint.active /\ endpoint'.active => Enable]_vars

\* The row of a batch that stopped before it queued the first job, of a change the
\* endpoint no longer wanted when the batch came again.
Unsent(d) ==
  /\ d \in stopped /\ record[d] = "done"
  /\ rows[d] = [state |-> "pending", attempts |-> 0]
  /\ \A n \in Numbers : queue[d][n] = 0
  /\ Alone(d)

\* Every delivery logged is closed in the end, or its endpoint is gone; but for one
\* that was never queued.
DeliveryEnds ==
  \A d \in Deliveries :
    rows[d].state \in {"pending", "retrying"}
      ~> \/ rows[d].state \in {"none", "delivered", "failed"}
         \/ ~endpoint.present
         \/ Unsent(d)

-----------------------------------------------------------------------------
(* The log as an implementation of DeliveryPromise.                        *)

Promise == INSTANCE DeliveryPromise WITH
  kept <- endpoint.present /\ ~deleting,
  log  <- rows,
  made <- posts,
  lost <- unlogged

\* While the log is kept it tells what the receiver saw: attempts are made in turn, one
\* at a time, on an open delivery; what is recorded was made; and one is made again only
\* after a worker stopped before it recorded it.
LogTellsRequests == Promise!Spec
=============================================================================
