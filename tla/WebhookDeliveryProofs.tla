------------------------ MODULE WebhookDeliveryProofs ------------------------
(***************************************************************************)
(* Slot leases, the delivery log and the endpoint keep what they promise,  *)
(* for every set of changes, workers and slots, every number of attempts   *)
(* and every lease that outlives the request.                              *)
(***************************************************************************)
EXTENDS WebhookDelivery, FiniteSetTheorems, TLAPS

-----------------------------------------------------------------------------
(* What a worker has in hand.                                              *)

\* Where a worker has what it read in hand.
Held == Unrecorded \cup {"start", "skip", "ready", "reset", "requeue"}

\* Where it has judged the delivery open, and not yet said how the attempt ended.
Judged == Unrecorded \cup {"skip", "ready"}

Outcomes == {"delivered", "retryable", "refused"}

Endpoint == [present : BOOLEAN, active : BOOLEAN, failures : Nat]

Attempting ==
  [pc : Held, delivery : Deliveries, number : Numbers, endpoint : Endpoint,
   attempts : 0..MaxAttempts, age : 0..Timeout, outcome : Outcomes \cup {"none"}]

Done == [pc : {"ack"}, delivery : Deliveries, number : Numbers]

\* The records a worker may be.
HandsOK == worker \in [Workers -> {Idle} \cup Done \cup Attempting]

\* An attempt that is made is one that was not recorded when the row was read, and
\* one that is retried is not the last.
Counted(w) ==
  /\ worker[w].pc \in Judged => worker[w].attempts < worker[w].number
  /\ worker[w].pc \in {"retry", "requeue"} => worker[w].number < MaxAttempts

\* One worker alone changes what it has in hand.
Others(w) == \A v \in Workers : v # w => worker'[v] = worker[v]

\* A worker's place says which record it is.
LEMMA InHand ==
  ASSUME HandsOK, NEW w \in Workers
  PROVE  /\ worker[w].pc \in Held => worker[w] \in Attempting
         /\ worker[w].pc = "ack" => worker[w] \in Done
         /\ worker[w].pc = "idle" => worker[w] = Idle
         /\ worker[w].pc \in Held \cup {"ack", "idle"}
<1>1. worker[w] \in {Idle} \cup Done \cup Attempting
  BY DEF HandsOK
<1>2. CASE worker[w] = Idle
  BY <1>2 DEF Idle, Held, Unrecorded
<1>3. CASE worker[w] \in Done
  BY <1>3 DEF Done, Held, Unrecorded
<1>4. CASE worker[w] \in Attempting
  BY <1>4 DEF Attempting, Held, Unrecorded
<1> QED BY <1>1, <1>2, <1>3, <1>4

\* Going on to another step keeps what was read.
LEMMA Goes ==
  ASSUME HandsOK, NEW w \in Workers, worker[w].pc \in Held, NEW pc \in Held, To(w, pc)
  PROVE  /\ HandsOK' /\ Others(w)
         /\ worker'[w] \in Attempting
         /\ worker'[w].pc = pc
         /\ worker'[w].delivery = worker[w].delivery
         /\ worker'[w].number = worker[w].number
         /\ worker'[w].attempts = worker[w].attempts
         /\ worker'[w].outcome = worker[w].outcome
         /\ worker'[w].age = worker[w].age
<1>1. worker[w] \in Attempting
  BY InHand
<1>2. pc # "ack"
  BY DEF Held, Unrecorded
<1>3. worker' = [worker EXCEPT ![w] = [worker[w] EXCEPT !.pc = pc]]
  BY <1>2 DEF To, HandsOK
<1>4. [worker[w] EXCEPT !.pc = pc] \in Attempting
  BY <1>1 DEF Attempting
<1>5. worker'[w] = [worker[w] EXCEPT !.pc = pc]
  BY <1>3 DEF HandsOK
<1>6. HandsOK' /\ Others(w)
  BY <1>3, <1>4 DEF HandsOK, Others
<1>7. /\ worker'[w].pc = pc
      /\ worker'[w].delivery = worker[w].delivery
      /\ worker'[w].number = worker[w].number
      /\ worker'[w].attempts = worker[w].attempts
      /\ worker'[w].outcome = worker[w].outcome
      /\ worker'[w].age = worker[w].age
  BY <1>1, <1>5 DEF Attempting
<1> QED BY <1>4, <1>5, <1>6, <1>7

\* A worker that is done keeps only which attempt it was.
LEMMA Finishes ==
  ASSUME HandsOK, NEW w \in Workers, worker[w].pc \in Held, To(w, "ack")
  PROVE  /\ HandsOK' /\ Others(w)
         /\ worker'[w].pc = "ack"
         /\ worker'[w].delivery = worker[w].delivery
         /\ worker'[w].number = worker[w].number
<1>1. worker[w] \in Attempting
  BY InHand
<1>2. worker' = [worker EXCEPT ![w] = Job(w)]
  BY DEF To
<1>3. Job(w) \in Done
  BY <1>1 DEF Job, Done, Attempting
<1>4. worker'[w] = Job(w)
  BY <1>2 DEF HandsOK
<1> QED BY <1>2, <1>3, <1>4 DEF HandsOK, Others, Job

\* A worker that acknowledged or stopped has nothing in hand.
LEMMA Rests ==
  ASSUME HandsOK, NEW w \in Workers, worker' = [worker EXCEPT ![w] = Idle]
  PROVE  HandsOK' /\ Others(w) /\ worker'[w] = Idle /\ worker'[w].pc = "idle"
  BY DEF HandsOK, Others, Idle

-----------------------------------------------------------------------------
(* Type correctness.                                                       *)

Rows == [Deliveries -> [state : {"none", "pending", "retrying", "delivered", "failed"},
                        attempts : 0..MaxAttempts]]

Counters == [Deliveries -> [Numbers -> Nat]]

\* The types of everything but the workers.
DataOK ==
  /\ endpoint \in Endpoint /\ deleting \in BOOLEAN
  /\ rows \in Rows /\ record \in [Deliveries -> {"due", "logged", "done"}]
  /\ queue \in Counters /\ posts \in Counters
  /\ slots \in [Slots -> [by : Workers \cup {"nobody"}, left : Free..Lease]]
  /\ unlogged \in Nat /\ faults \in 0..FAULTS
  /\ stopped \subseteq Deliveries /\ enabling \in {"none", "clearing", "keeping"} /\ spared \in Nat

TypeInv == DataOK /\ HandsOK /\ \A w \in Workers : Counted(w)

LEMMA TypeInvImplies == TypeInv => TypeOK
<1>1. ASSUME HandsOK, NEW w \in Workers
      PROVE  /\ worker[w].pc \in Unrecorded \cup {"idle", "start", "skip", "ready", "reset", "requeue", "ack"}
             /\ w \in Busy => worker[w].delivery \in Deliveries /\ worker[w].number \in Numbers
  <2>1. worker[w].pc \in Held \cup {"ack", "idle"}
    BY <1>1, InHand
  <2>2. w \in Busy => worker[w] \in Attempting \/ worker[w] \in Done
    BY <1>1, <2>1, InHand DEF Busy
  <2> QED BY <2>1, <2>2 DEF Held, Attempting, Done
<1> QED BY <1>1 DEF TypeInv, TypeOK, DataOK, Rows, Counters, Endpoint

\* One counter changes, and the others do not.
LEMMA OneCounter ==
  ASSUME NEW counts \in Counters, NEW d \in Deliveries, NEW n \in Numbers, NEW k \in Nat
  PROVE  /\ [counts EXCEPT ![d][n] = k] \in Counters
         /\ [counts EXCEPT ![d][n] = k][d][n] = k
         /\ \A e \in Deliveries, m \in Numbers :
              e # d \/ m # n => [counts EXCEPT ![d][n] = k][e][m] = counts[e][m]
<1> DEFINE after == [counts[d] EXCEPT ![n] = k]
<1>1. counts[d] \in [Numbers -> Nat]
  BY DEF Counters
<1>2. /\ after \in [Numbers -> Nat] /\ after[n] = k
      /\ \A m \in Numbers : m # n => after[m] = counts[d][m]
  BY <1>1
<1>3. [counts EXCEPT ![d][n] = k] = [counts EXCEPT ![d] = after]
  BY DEF Counters
<1> HIDE DEF after
<1>4. [counts EXCEPT ![d] = after] \in Counters
  BY <1>2 DEF Counters
<1>5. /\ [counts EXCEPT ![d] = after][d] = after
      /\ \A e \in Deliveries : e # d => [counts EXCEPT ![d] = after][e] = counts[e]
  BY DEF Counters
<1> QED BY <1>2, <1>3, <1>4, <1>5

\* A job put on the queue.
LEMMA QueuedIs ==
  ASSUME queue \in Counters, NEW d \in Deliveries, NEW n \in Numbers
  PROVE  /\ Queued(d, n) \in Counters
         /\ \A e \in Deliveries, m \in Numbers :
              e # d \/ m # n => Queued(d, n)[e][m] = queue[e][m]
<1> DEFINE k == queue[d][n] + 1
<1>1. k \in Nat
  BY DEF Counters
<1>2. Queued(d, n) = [queue EXCEPT ![d][n] = k]
  BY DEF Queued
<1> HIDE DEF k
<1>3. /\ [queue EXCEPT ![d][n] = k] \in Counters
      /\ \A e \in Deliveries, m \in Numbers :
           e # d \/ m # n => [queue EXCEPT ![d][n] = k][e][m] = queue[e][m]
  BY <1>1, OneCounter
<1> QED BY <1>2, <1>3

\* A row that is stored, and the others.
LEMMA PutIs ==
  ASSUME rows \in Rows, NEW w \in Workers, worker[w] \in Attempting, NEW attempts \in 0..MaxAttempts,
         NEW state \in {"pending", "retrying", "delivered", "failed"}, Put(w, state, attempts)
  PROVE  /\ rows' \in Rows
         /\ rows'[worker[w].delivery].state = state
         /\ rows'[worker[w].delivery].attempts = attempts
         /\ \A e \in Deliveries : e # worker[w].delivery => rows'[e] = rows[e]
<1>1. worker[w].delivery \in Deliveries
  BY DEF Attempting
<1> QED BY <1>1 DEF Put, Rows

\* What the other workers have in hand is counted as it was.
LEMMA OthersCounted ==
  ASSUME NEW w \in Workers, Others(w), Counted(w)', \A v \in Workers : Counted(v)
  PROVE  \A v \in Workers : Counted(v)'
<1>1. ASSUME NEW v \in Workers, v # w
      PROVE  Counted(v)'
  BY <1>1 DEF Others, Counted
<1> QED BY <1>1

LEMMA InitTypes == Init => TypeInv
<1> SUFFICES ASSUME Init PROVE TypeInv
  OBVIOUS
<1>1. 0 \in 0..MaxAttempts /\ 0 \in 0..FAULTS /\ Free \in Free..Lease
  BY WebhookAssumption DEF Free
<1>2. rows \in Rows /\ endpoint \in Endpoint /\ queue \in Counters /\ posts \in Counters
  BY <1>1 DEF Init, Rows, Endpoint, Counters, NoRow
<1>3. slots \in [Slots -> [by : Workers \cup {"nobody"}, left : Free..Lease]]
  BY <1>1 DEF Init
<1>4. DataOK
  BY <1>1, <1>2, <1>3 DEF Init, DataOK
<1>5. HandsOK
  BY DEF Init, HandsOK
<1>6. \A w \in Workers : Counted(w)
  BY DEF Init, Counted, Idle, Judged, Unrecorded
<1> QED BY <1>4, <1>5, <1>6 DEF TypeInv

\* The stream consumer and the settings page leave the workers alone.
Outside ==
  \/ \E d \in Deliveries : Log(d) \/ QueueFirst(d) \/ BatchStops(d) \/ BatchAgain(d)
  \/ AskEnable \/ Enable \/ Disable \/ DeleteLog \/ DeleteEndpoint

LEMMA OutsideTypes ==
  ASSUME TypeInv, Outside
  PROVE  TypeInv'
<1> USE DEF TypeInv, DataOK, aside
<1>1. worker' = worker
  BY DEF Outside, Log, PassedOver, QueueFirst, BatchStops, BatchAgain, AskEnable, Enable,
      Disable, DeleteLog, DeleteEndpoint
<1>2. HandsOK' /\ (\A w \in Workers : Counted(w))'
  BY <1>1 DEF HandsOK, Counted
<1>3. ASSUME NEW d \in Deliveries, Log(d)
      PROVE  DataOK'
  <2>1. [rows EXCEPT ![d].state = "pending"] \in Rows
    BY DEF Rows
  <2> QED BY <1>3, <2>1 DEF Log, PassedOver
<1>4. ASSUME NEW d \in Deliveries, QueueFirst(d)
      PROVE  DataOK'
  <2>1. 1 \in Numbers
    BY WebhookAssumption DEF Numbers
  <2> QED BY <1>4, <2>1, QueuedIs DEF QueueFirst
<1>5. ASSUME NEW d \in Deliveries, BatchStops(d) \/ BatchAgain(d)
      PROVE  DataOK'
  BY <1>5, WebhookAssumption DEF BatchStops, BatchAgain, Fault
<1>6. CASE AskEnable \/ Disable
  <2>1. faults' \in 0..FAULTS
    BY <1>6, WebhookAssumption DEF AskEnable, Disable, Fault
  <2>2. [endpoint EXCEPT !.active = FALSE] \in Endpoint
    BY DEF Endpoint
  <2> QED BY <1>2, <1>6, <2>1, <2>2 DEF AskEnable, Disable
<1>9. CASE Enable
  <2>1. PICK k \in Nat :
          endpoint' = endpoint \/ endpoint' = [endpoint EXCEPT !.active = TRUE, !.failures = k]
    <3>1. endpoint.failures \in Nat
      BY DEF Endpoint
    <3> QED BY <1>9, <3>1 DEF Enable
  <2>2. endpoint' \in Endpoint
    BY <2>1 DEF Endpoint
  <2>3. spared' \in Nat
    BY <1>9, <2>2 DEF Enable, Endpoint
  <2> QED BY <1>2, <1>9, <2>2, <2>3 DEF Enable
<1>7. CASE DeleteLog
  <2>1. faults' \in 0..FAULTS
    BY <1>7, WebhookAssumption DEF DeleteLog, Fault
  <2>2. rows' \in Rows
    BY <1>7, WebhookAssumption DEF DeleteLog, NoRow, Rows
  <2> QED BY <1>2, <1>7, <2>1, <2>2 DEF DeleteLog
<1>8. CASE DeleteEndpoint
  <2>1. endpoint' \in Endpoint
    BY <1>8 DEF DeleteEndpoint, Endpoint
  <2> QED BY <1>2, <1>8, <2>1 DEF DeleteEndpoint
<1> QED BY <1>2, <1>3, <1>4, <1>5, <1>6, <1>7, <1>8, <1>9 DEF Outside

\* A step of one worker keeps the types when it keeps them of what it changes.
LEMMA WorkerTypes ==
  ASSUME TypeInv, NEW w \in Workers, DataOK', HandsOK', Others(w), Counted(w)'
  PROVE  TypeInv'
  BY OthersCounted DEF TypeInv

LEMMA ReceiveTypes ==
  ASSUME TypeInv, NEW w \in Workers, NEW d \in Deliveries, NEW n \in Numbers, Receive(w, d, n)
  PROVE  TypeInv'
<1> DEFINE k    == queue[d][n] - 1
           hand == [pc |-> "start", delivery |-> d, number |-> n, endpoint |-> endpoint,
                    attempts |-> 0, age |-> 0, outcome |-> "none"]
<1>1. hand \in Attempting /\ hand.pc = "start"
  BY WebhookAssumption DEF TypeInv, DataOK, Attempting, Held, Numbers
<1>2. k \in Nat /\ queue' = [queue EXCEPT ![d][n] = k] /\ worker' = [worker EXCEPT ![w] = hand]
  BY DEF Receive, TypeInv, DataOK, Counters
<1> HIDE DEF k, hand
<1>3. queue' \in Counters
  BY <1>2, OneCounter DEF TypeInv, DataOK
<1>4. HandsOK' /\ Others(w) /\ worker'[w] = hand
  BY <1>1, <1>2 DEF TypeInv, HandsOK, Others
<1>5. Counted(w)'
  BY <1>1, <1>4 DEF Counted, Judged, Unrecorded
<1>6. DataOK'
  BY <1>3 DEF Receive, TypeInv, DataOK, aside
<1> QED BY <1>4, <1>5, <1>6, WorkerTypes

\* What the row said is kept, and less than the attempt's own number.
LEMMA CheckTypes ==
  ASSUME TypeInv, NEW w \in Workers, Check(w)
  PROVE  TypeInv'
<1> DEFINE row == rows[worker[w].delivery]
           pc  == IF worker[w].endpoint.active THEN "ready" ELSE "skip"
<1>1. worker[w] \in Attempting /\ worker[w].pc = "start"
  BY InHand DEF Check, At, TypeInv, Held
<1>2. DataOK'
  BY DEF Check, TypeInv, DataOK, aside
<1>3. CASE To(w, "ack")
  <2>1. HandsOK' /\ Others(w) /\ worker'[w].pc = "ack"
    BY <1>1, <1>3, Finishes DEF TypeInv, Held
  <2> QED BY <1>2, <2>1, WorkerTypes DEF Counted, Judged, Unrecorded
<1>4. CASE /\ ~Duplicate(row, worker[w].number)
           /\ worker' = [worker EXCEPT ![w].attempts = row.attempts, ![w].pc = pc]
  <2>1. row \in [state : {"none", "pending", "retrying", "delivered", "failed"}, attempts : 0..MaxAttempts]
    BY <1>1 DEF TypeInv, DataOK, Rows, Attempting
  <2>2. row.attempts \in 0..MaxAttempts /\ row.attempts < worker[w].number
    BY <1>1, <1>4, <2>1 DEF Duplicate, Attempting, Numbers
  <2>3. pc \in {"ready", "skip"} /\ pc \in Held
    BY DEF Held
  <2> HIDE DEF row, pc
  <2> DEFINE hand == [worker[w] EXCEPT !.attempts = row.attempts, !.pc = pc]
  <2>4. hand \in Attempting /\ hand.pc = pc /\ hand.attempts < hand.number
    BY <1>1, <2>2, <2>3 DEF Attempting
  <2>5. worker' = [worker EXCEPT ![w] = hand]
    BY <1>4 DEF TypeInv, HandsOK
  <2> HIDE DEF hand
  <2>6. HandsOK' /\ Others(w) /\ worker'[w] = hand
    BY <2>4, <2>5 DEF TypeInv, HandsOK, Others
  <2> QED BY <1>2, <2>3, <2>4, <2>6, WorkerTypes DEF Counted
<1> QED BY <1>3, <1>4 DEF Check

\* The steps that store the delivery's row.
LEMMA StoreTypes ==
  ASSUME TypeInv, NEW w \in Workers, Skip(w) \/ Deliver(w) \/ Close(w) \/ Retry(w)
  PROVE  TypeInv'
<1>1. /\ worker[w].pc \in Judged /\ worker[w].pc \in Held
      /\ worker[w].pc = "retry" => Retry(w)
  BY DEF Skip, Deliver, Close, Retry, At, Judged, Held, Unrecorded
<1>2. worker[w] \in Attempting
  BY <1>1, InHand DEF TypeInv
<1>3. worker[w].attempts \in 0..MaxAttempts /\ worker[w].attempts + 1 \in 0..MaxAttempts
  <2>1. worker[w].attempts < worker[w].number
    BY <1>1 DEF TypeInv, Counted
  <2> QED BY <1>2, <2>1, WebhookAssumption DEF Attempting, Numbers
<1>4. rows' \in Rows
  BY <1>2, <1>3, PutIs DEF TypeInv, DataOK, Skip, Deliver, Close, Retry
<1>5. DataOK'
  BY <1>4 DEF TypeInv, DataOK, Skip, Deliver, Close, Retry, aside
<1>6. CASE Retry(w)
  <2>1. HandsOK' /\ Others(w) /\ worker'[w].pc = "requeue" /\ worker'[w].number = worker[w].number
    BY <1>1, <1>6, Goes DEF Retry, TypeInv, Held
  <2>2. worker[w].number < MaxAttempts
    BY <1>6 DEF Retry, At, TypeInv, Counted
  <2> QED BY <1>5, <2>1, <2>2, WorkerTypes DEF Counted, Judged, Unrecorded
<1>7. CASE To(w, "ack")
  <2>1. HandsOK' /\ Others(w) /\ worker'[w].pc = "ack"
    BY <1>1, <1>7, Finishes DEF TypeInv
  <2> QED BY <1>5, <2>1, WorkerTypes DEF Counted, Judged, Unrecorded
<1>8. CASE To(w, "reset")
  <2>1. HandsOK' /\ Others(w) /\ worker'[w].pc = "reset"
    BY <1>1, <1>8, Goes DEF TypeInv, Held
  <2> QED BY <1>5, <2>1, WorkerTypes DEF Counted, Judged, Unrecorded
<1> QED BY <1>6, <1>7, <1>8 DEF Skip, Deliver, Close

LEMMA AcquireTypes ==
  ASSUME TypeInv, NEW w \in Workers, Acquire(w)
  PROVE  TypeInv'
<1>1. worker[w] \in Attempting /\ worker[w].pc = "ready"
  BY InHand DEF Acquire, At, TypeInv, Held
<1>2. /\ HandsOK' /\ Others(w) /\ worker'[w].pc = "posting"
      /\ worker'[w].attempts = worker[w].attempts /\ worker'[w].number = worker[w].number
  BY <1>1, Goes DEF Acquire, TypeInv, Held, Unrecorded
<1>3. Counted(w)'
  BY <1>1, <1>2 DEF TypeInv, Counted, Judged
<1> DEFINE k == posts[worker[w].delivery][worker[w].number] + 1
<1>4. worker[w].delivery \in Deliveries /\ worker[w].number \in Numbers
  BY <1>1 DEF Attempting
<1>5. k \in Nat /\ posts' = [posts EXCEPT ![worker[w].delivery][worker[w].number] = k]
  BY <1>4 DEF Acquire, TypeInv, DataOK, Counters
<1> HIDE DEF k
<1>6. posts' \in Counters
  BY <1>4, <1>5, OneCounter DEF TypeInv, DataOK
<1>7. [by |-> w, left |-> Lease] \in [by : Workers \cup {"nobody"}, left : Free..Lease]
  BY WebhookAssumption DEF Free
<1>8. slots' \in [Slots -> [by : Workers \cup {"nobody"}, left : Free..Lease]]
  BY <1>7 DEF Acquire, TypeInv, DataOK
<1>9. DataOK'
  BY <1>6, <1>8 DEF Acquire, TypeInv, DataOK, aside
<1> QED BY <1>2, <1>3, <1>9, WorkerTypes

\* The steps that put a job on the queue.
LEMMA QueueTypes ==
  ASSUME TypeInv, NEW w \in Workers, Defer(w) \/ Requeue(w)
  PROVE  TypeInv'
<1>1. worker[w].pc \in {"ready", "requeue"} /\ worker[w].pc \in Held /\ To(w, "ack")
  BY DEF Defer, Requeue, At, Held
<1>2. worker[w] \in Attempting
  BY <1>1, InHand DEF TypeInv
<1>3. /\ worker[w].delivery \in Deliveries /\ worker[w].number \in Numbers
      /\ Requeue(w) => worker[w].number + 1 \in Numbers
  <2>1. Requeue(w) => worker[w].number < MaxAttempts
    BY DEF Requeue, At, TypeInv, Counted
  <2> QED BY <1>2, <2>1, WebhookAssumption DEF Attempting, Numbers
<1>4. queue' \in Counters
  BY <1>3, QueuedIs DEF TypeInv, DataOK, Defer, Requeue
<1>5. DataOK'
  BY <1>4 DEF TypeInv, DataOK, Defer, Requeue, aside
<1>6. HandsOK' /\ Others(w) /\ worker'[w].pc = "ack"
  BY <1>1, Finishes DEF TypeInv
<1> QED BY <1>5, <1>6, WorkerTypes DEF Counted, Judged, Unrecorded

LEMMA AnswerTypes ==
  ASSUME TypeInv, NEW w \in Workers, Answer(w)
  PROVE  TypeInv'
<1>1. worker[w] \in Attempting /\ worker[w].pc = "posting"
  BY InHand DEF Answer, At, TypeInv, Held, Unrecorded
<1>2. PICK outcome \in Outcomes :
        worker' = [worker EXCEPT ![w].outcome = outcome, ![w].pc = "answered", ![w].age = 0]
  BY DEF Answer, Outcomes
<1> DEFINE hand == [worker[w] EXCEPT !.outcome = outcome, !.pc = "answered", !.age = 0]
<1>3. /\ hand \in Attempting /\ hand.pc = "answered"
      /\ hand.attempts = worker[w].attempts /\ hand.number = worker[w].number
  <2>1. 0 \in 0..Timeout /\ "answered" \in Held /\ outcome \in Outcomes \cup {"none"}
    BY WebhookAssumption DEF Held, Unrecorded
  <2> QED BY <1>1, <2>1 DEF Attempting
<1>4. worker' = [worker EXCEPT ![w] = hand]
  BY <1>2 DEF TypeInv, HandsOK
<1> HIDE DEF hand
<1>5. HandsOK' /\ Others(w) /\ worker'[w] = hand
  BY <1>3, <1>4 DEF TypeInv, HandsOK, Others
<1>6. Counted(w)'
  BY <1>1, <1>3, <1>5 DEF TypeInv, Counted, Judged, Unrecorded
<1>7. [by |-> "nobody", left |-> Free] \in [by : Workers \cup {"nobody"}, left : Free..Lease]
  BY WebhookAssumption DEF Free
<1>8. DataOK'
  BY <1>7 DEF Answer, TypeInv, DataOK, aside
<1> QED BY <1>5, <1>6, <1>8, WorkerTypes

\* The steps that store the endpoint's row.
LEMMA EndpointTypes ==
  ASSUME TypeInv, NEW w \in Workers, ResetRun(w) \/ CountFailure(w) \/ OpenBreaker(w)
  PROVE  TypeInv'
<1>1. worker[w].pc \in {"reset", "answered", "open"} /\ worker[w].pc \in Held
  BY DEF ResetRun, CountFailure, OpenBreaker, At, Held, Unrecorded
<1>2. /\ [endpoint EXCEPT !.active = FALSE] \in Endpoint
      /\ [endpoint EXCEPT !.failures = 0] \in Endpoint
      /\ [endpoint EXCEPT !.failures = endpoint.failures + 1] \in Endpoint
  <2>1. /\ endpoint \in [present : BOOLEAN, active : BOOLEAN, failures : Nat]
        /\ endpoint.failures + 1 \in Nat
    BY DEF TypeInv, DataOK, Endpoint
  <2> DEFINE k == endpoint.failures + 1
  <2>2. k \in Nat
    BY <2>1
  <2> HIDE DEF k
  <2>3. [endpoint EXCEPT !.failures = k] \in Endpoint
    BY <2>1, <2>2 DEF Endpoint
  <2>4. /\ [endpoint EXCEPT !.active = FALSE] \in Endpoint
        /\ [endpoint EXCEPT !.failures = 0] \in Endpoint
    BY <2>1 DEF Endpoint
  <2> QED BY <2>3, <2>4 DEF k
<1>3. endpoint' \in Endpoint
  BY <1>2 DEF TypeInv, DataOK, ResetRun, CountFailure, OpenBreaker
<1>4. DataOK'
  BY <1>3 DEF TypeInv, DataOK, ResetRun, CountFailure, OpenBreaker, aside
<1>5. CASE ResetRun(w)
  <2>1. HandsOK' /\ Others(w) /\ worker'[w].pc = "ack"
    BY <1>1, <1>5, Finishes DEF TypeInv, ResetRun
  <2> QED BY <1>4, <2>1, WorkerTypes DEF Counted, Judged, Unrecorded
<1>6. ASSUME NEW pc \in {"open", "close", "retry"}, To(w, pc),
             worker[w].pc \in {"answered", "open"},
             pc = "retry" => worker[w].number < MaxAttempts
      PROVE  TypeInv'
  <2>1. pc \in Held
    BY DEF Held, Unrecorded
  <2>2. /\ HandsOK' /\ Others(w) /\ worker'[w].pc = pc
        /\ worker'[w].attempts = worker[w].attempts /\ worker'[w].number = worker[w].number
    BY <1>1, <1>6, <2>1, Goes DEF TypeInv
  <2>3. Counted(w)'
    BY <1>6, <2>2 DEF TypeInv, Counted, Judged, Unrecorded
  <2> QED BY <1>4, <2>2, <2>3, WorkerTypes
<1>7. CASE OpenBreaker(w)
  BY <1>6, <1>7 DEF OpenBreaker, At
<1>8. CASE CountFailure(w)
  <2>1. PICK pc \in {"open", "close", "retry"} :
          To(w, pc) /\ (pc = "retry" => worker[w].number < MaxAttempts)
    BY <1>8 DEF CountFailure
  <2> QED BY <1>6, <1>8, <2>1 DEF CountFailure, At
<1> QED BY <1>5, <1>7, <1>8

LEMMA AckTypes ==
  ASSUME TypeInv, NEW w \in Workers, Ack(w)
  PROVE  TypeInv'
<1>1. HandsOK' /\ Others(w) /\ worker'[w].pc = "idle"
  BY Rests DEF TypeInv, Ack
<1>2. DataOK'
  BY DEF TypeInv, DataOK, Ack, aside
<1> QED BY <1>1, <1>2, WorkerTypes DEF Counted, Judged, Unrecorded

LEMMA CrashTypes ==
  ASSUME TypeInv, NEW w \in Workers, Crash(w)
  PROVE  TypeInv'
<1>1. HandsOK' /\ Others(w) /\ worker'[w].pc = "idle"
  BY Rests DEF TypeInv, Crash
<1>2. worker[w].delivery \in Deliveries /\ worker[w].number \in Numbers
  BY InHand DEF TypeInv, Crash, Busy, Done, Attempting
<1>3. queue' \in Counters
  BY <1>2, QueuedIs DEF TypeInv, DataOK, Crash
<1>4. slots' \in [Slots -> [by : Workers \cup {"nobody"}, left : Free..Lease]]
  BY DEF TypeInv, DataOK, Crash
<1>5. faults' \in 0..FAULTS /\ unlogged' \in Nat
  BY WebhookAssumption DEF TypeInv, DataOK, Crash, Fault
<1>6. DataOK'
  BY <1>3, <1>4, <1>5 DEF TypeInv, DataOK, Crash, aside
<1> QED BY <1>1, <1>6, WorkerTypes DEF Counted, Judged, Unrecorded

\* Time changes no more than the age of a request.
LEMMA Aging ==
  ASSUME TypeInv, Tick
  PROVE  /\ HandsOK'
         /\ \A w \in Workers :
              /\ worker'[w].pc = worker[w].pc
              /\ w \notin Posting => worker'[w] = worker[w]
              /\ w \in Posting => /\ worker'[w] = [worker[w] EXCEPT !.age = worker[w].age + 1]
                                  /\ worker'[w].age = worker[w].age + 1
                                  /\ worker'[w].attempts = worker[w].attempts
                                  /\ worker'[w].number = worker[w].number
                                  /\ worker'[w].delivery = worker[w].delivery
<1> DEFINE older(w) == [worker[w] EXCEPT !.age = worker[w].age + 1]
<1>1. worker' = [w \in Workers |-> IF w \in Posting THEN older(w) ELSE worker[w]]
  BY DEF Tick
<1>2. ASSUME NEW w \in Posting
      PROVE  /\ older(w) \in Attempting /\ older(w).pc = worker[w].pc
             /\ older(w).age = worker[w].age + 1
             /\ older(w).attempts = worker[w].attempts /\ older(w).number = worker[w].number
             /\ older(w).delivery = worker[w].delivery
  <2>1. worker[w] \in Attempting /\ worker[w].age < Timeout
    BY InHand DEF Posting, Tick, TypeInv, Held, Unrecorded
  <2> QED BY <2>1, WebhookAssumption DEF Attempting
<1> HIDE DEF older
<1>3. Posting \subseteq Workers
  BY DEF Posting
<1>4. HandsOK'
  BY <1>1, <1>2, <1>3 DEF TypeInv, HandsOK
<1>5. \A w \in Posting : older(w) = [worker[w] EXCEPT !.age = worker[w].age + 1]
  BY DEF older
<1> QED BY <1>1, <1>2, <1>3, <1>4, <1>5

LEMMA TickTypes ==
  ASSUME TypeInv, Tick
  PROVE  TypeInv'
<1>1. \A w \in Workers : Counted(w)'
  <2> SUFFICES ASSUME NEW w \in Workers PROVE Counted(w)'
    OBVIOUS
  <2>1. CASE w \in Posting
    BY <2>1, Aging DEF TypeInv, Counted
  <2>2. CASE w \notin Posting
    BY <2>2, Aging DEF TypeInv, Counted
  <2> QED BY <2>1, <2>2
<1>2. ASSUME NEW s \in Slots
      PROVE  (IF slots[s].left <= 0 THEN [by |-> "nobody", left |-> Free]
              ELSE [slots[s] EXCEPT !.left = @ - 1])
             \in [by : Workers \cup {"nobody"}, left : Free..Lease]
  BY WebhookAssumption DEF TypeInv, DataOK, Free
<1>3. slots' \in [Slots -> [by : Workers \cup {"nobody"}, left : Free..Lease]]
  BY <1>2 DEF Tick
<1>4. DataOK'
  BY <1>3 DEF TypeInv, DataOK, Tick, aside
<1> QED BY <1>1, <1>4, Aging DEF TypeInv

LEMMA NextTypes == TypeInv /\ [Next]_vars => TypeInv'
<1> SUFFICES ASSUME TypeInv, [Next]_vars PROVE TypeInv'
  OBVIOUS
<1>1. CASE Outside
  BY <1>1, OutsideTypes
<1>2. ASSUME NEW w \in Workers, NEW d \in Deliveries, NEW n \in Numbers, Receive(w, d, n)
      PROVE  TypeInv'
  BY <1>2, ReceiveTypes
<1>3. ASSUME NEW w \in Workers, Attempt(w)
      PROVE  TypeInv'
  BY <1>3, CheckTypes, StoreTypes, AcquireTypes, QueueTypes, AnswerTypes, EndpointTypes, AckTypes
     DEF Attempt
<1>4. ASSUME NEW w \in Workers, Crash(w)
      PROVE  TypeInv'
  BY <1>4, CrashTypes
<1>5. CASE Tick
  BY <1>5, TickTypes
<1>6. CASE UNCHANGED vars
  BY <1>6 DEF vars, aside, TypeInv, DataOK, HandsOK, Counted
<1> QED BY <1>1, <1>2, <1>3, <1>4, <1>5, <1>6 DEF Next, Outside

\* Every variable keeps its type: no slot outlives its lease, and no attempt is made
\* past MAX_ATTEMPTS.
THEOREM TypeCorrect == Spec => []TypeOK
<1>1. Init => TypeInv
  BY InitTypes
<1>2. TypeInv /\ [Next]_vars => TypeInv'
  BY NextTypes
<1>3. TypeInv => TypeOK
  BY TypeInvImplies
<1> QED BY <1>1, <1>2, <1>3, PTL DEF Spec

-----------------------------------------------------------------------------
(* The slots.                                                              *)

\* A request under way holds a slot, and its deadline comes before the lease ends.
Leased(w) ==
  w \in Posting => \E s \in Slots : slots[s].by = w /\ slots[s].left + worker[w].age = Lease

\* A request that has not begun has taken no time.
Fresh(w) == worker[w].pc \in {"start", "ready"} => worker[w].age = 0

LeaseInv == \A w \in Workers : Leased(w) /\ Fresh(w)

\* No step but the start and the end of a request, a worker that stops, and time
\* changes the slots or begins a request.
LEMMA QuietLeases ==
  ASSUME LeaseInv, slots' = slots, NEW w \in Workers, Others(w), worker'[w].pc # "posting", Fresh(w)'
  PROVE  LeaseInv'
<1> SUFFICES ASSUME NEW v \in Workers PROVE (Leased(v) /\ Fresh(v))'
  BY DEF LeaseInv
<1>1. CASE v = w
  BY <1>1 DEF Leased, Posting
<1>2. CASE v # w
  BY <1>2 DEF LeaseInv, Leased, Fresh, Posting, Others
<1> QED BY <1>1, <1>2

\* Most steps of a worker leave it neither posting nor about to.
LEMMA LaterLeases ==
  ASSUME TypeInv, LeaseInv, NEW w \in Workers, slots' = slots, worker[w].pc \in Held,
         NEW pc \in {"ack", "open", "close", "retry", "requeue", "reset"}, To(w, pc)
  PROVE  LeaseInv'
<1>1. Others(w) /\ worker'[w].pc = pc
  BY Goes, Finishes DEF TypeInv, Held, Unrecorded
<1>2. worker'[w].pc # "posting" /\ Fresh(w)'
  BY <1>1 DEF Fresh
<1> QED BY <1>1, <1>2, QuietLeases

LEMMA ReceiveLeases ==
  ASSUME TypeInv, LeaseInv, NEW w \in Workers, NEW d \in Deliveries, NEW n \in Numbers, Receive(w, d, n)
  PROVE  LeaseInv'
<1>1. Others(w) /\ worker'[w].pc = "start" /\ worker'[w].age = 0 /\ slots' = slots
  BY DEF Receive, TypeInv, HandsOK, Others
<1> QED BY <1>1, QuietLeases DEF Fresh

LEMMA CheckLeases ==
  ASSUME TypeInv, LeaseInv, NEW w \in Workers, Check(w)
  PROVE  LeaseInv'
<1> DEFINE attempts == rows[worker[w].delivery].attempts
           pc       == IF worker[w].endpoint.active THEN "ready" ELSE "skip"
<1>1. worker[w] \in Attempting /\ worker[w].pc = "start" /\ slots' = slots
  BY InHand DEF Check, At, TypeInv, Held
<1>2. CASE To(w, "ack")
  BY <1>1, <1>2, LaterLeases DEF Held
<1>3. CASE worker' = [worker EXCEPT ![w].attempts = attempts, ![w].pc = pc]
  <2>1. pc \in {"ready", "skip"}
    OBVIOUS
  <2> HIDE DEF attempts, pc
  <2> DEFINE hand == [worker[w] EXCEPT !.attempts = attempts, !.pc = pc]
  <2>2. hand.pc = pc /\ hand.age = worker[w].age
    BY <1>1 DEF Attempting
  <2>3. worker' = [worker EXCEPT ![w] = hand]
    BY <1>3 DEF TypeInv, HandsOK
  <2> HIDE DEF hand
  <2>4. Others(w) /\ worker'[w] = hand
    BY <2>3 DEF TypeInv, HandsOK, Others
  <2>5. Fresh(w)' /\ worker'[w].pc # "posting"
    BY <1>1, <2>1, <2>2, <2>4 DEF LeaseInv, Fresh
  <2> QED BY <1>1, <2>4, <2>5, QuietLeases
<1> QED BY <1>2, <1>3 DEF Check

\* A slot that is given to a request was nobody's: who holds a lease has time left.
LEMMA AcquireLeases ==
  ASSUME TypeInv, LeaseInv, NEW w \in Workers, Acquire(w)
  PROVE  LeaseInv'
<1>1. PICK s \in Slots : slots[s].left = Free /\ slots' = [slots EXCEPT ![s] = [by |-> w, left |-> Lease]]
  BY DEF Acquire, Claimable
<1>2. worker[w] \in Attempting /\ worker[w].pc = "ready" /\ worker[w].age = 0
  BY InHand DEF Acquire, At, TypeInv, Held, LeaseInv, Fresh
<1>3. Others(w) /\ worker'[w].age = 0 /\ worker'[w].pc = "posting"
  BY <1>2, Goes DEF Acquire, TypeInv, Held, Unrecorded
<1>4. /\ slots'[s].by = w /\ slots'[s].left = Lease
      /\ \A t \in Slots : t # s => slots'[t] = slots[t]
  BY <1>1 DEF TypeInv, DataOK
<1>5. Leased(w)' /\ Fresh(w)'
  BY <1>3, <1>4, WebhookAssumption DEF Leased, Fresh
<1>6. ASSUME NEW v \in Workers, v # w
      PROVE  Leased(v)' /\ Fresh(v)'
  <2>1. worker'[v] = worker[v]
    BY <1>3, <1>6 DEF Others
  <2>2. CASE v \in Posting
    <3>1. PICK t \in Slots : slots[t].by = v /\ slots[t].left + worker[v].age = Lease
      BY <2>2 DEF LeaseInv, Leased
    <3>2. worker[v].age \in 0..Timeout
      BY <2>2, InHand DEF Posting, TypeInv, Held, Unrecorded, Attempting
    <3>3. slots[t].left \in Free..Lease
      BY DEF TypeInv, DataOK
    <3>4. t # s
      BY <1>1, <3>1, <3>2, <3>3, WebhookAssumption DEF Free
    <3> QED BY <1>4, <2>1, <3>1, <3>4 DEF Leased, LeaseInv, Fresh, Posting
  <2>3. CASE v \notin Posting
    BY <2>1, <2>3 DEF Leased, LeaseInv, Fresh, Posting
  <2> QED BY <2>2, <2>3
<1> QED BY <1>5, <1>6 DEF LeaseInv

\* Who gives up its slot, or stops, takes nobody else's.
LEMMA ReleaseLeases ==
  ASSUME TypeInv, LeaseInv, NEW w \in Workers, Answer(w) \/ Crash(w)
  PROVE  LeaseInv'
<1>1. Others(w) /\ worker'[w].pc \in {"answered", "idle"}
  <2>1. CASE Crash(w)
    BY <2>1, Rests DEF Crash, TypeInv
  <2>2. CASE Answer(w)
    <3>1. PICK outcome \in Outcomes :
            worker' = [worker EXCEPT ![w].outcome = outcome, ![w].pc = "answered", ![w].age = 0]
      BY <2>2 DEF Answer, Outcomes
    <3>2. worker[w] \in Attempting
      BY <2>2, InHand DEF Answer, At, TypeInv, Held, Unrecorded
    <3> DEFINE hand == [worker[w] EXCEPT !.outcome = outcome, !.pc = "answered", !.age = 0]
    <3>3. hand.pc = "answered"
      BY <3>2 DEF Attempting
    <3>4. worker' = [worker EXCEPT ![w] = hand]
      BY <3>1 DEF TypeInv, HandsOK
    <3> HIDE DEF hand
    <3> QED BY <3>3, <3>4 DEF TypeInv, HandsOK, Others
  <2> QED BY <2>1, <2>2
<1>2. \A s \in Slots : slots[s].by # w => slots'[s] = slots[s]
  BY DEF Answer, Crash
<1>3. Leased(w)' /\ Fresh(w)'
  BY <1>1 DEF Leased, Fresh, Posting
<1>4. ASSUME NEW v \in Workers, v # w
      PROVE  Leased(v)' /\ Fresh(v)'
  <2>1. worker'[v] = worker[v]
    BY <1>1, <1>4 DEF Others
  <2> QED BY <1>2, <1>4, <2>1 DEF LeaseInv, Leased, Fresh, Posting
<1> QED BY <1>3, <1>4 DEF LeaseInv

\* Time takes from the lease what it adds to the request.
LEMMA TickLeases ==
  ASSUME TypeInv, LeaseInv, Tick
  PROVE  LeaseInv'
<1> SUFFICES ASSUME NEW w \in Workers PROVE Leased(w)' /\ Fresh(w)'
  BY DEF LeaseInv
<1>1. CASE w \in Posting
  <2>1. PICK s \in Slots : slots[s].by = w /\ slots[s].left + worker[w].age = Lease
    BY <1>1 DEF LeaseInv, Leased
  <2>2. worker[w].age \in 0..Timeout /\ worker[w].age < Timeout
    BY <1>1, InHand DEF Posting, TypeInv, Held, Unrecorded, Attempting, Tick
  <2>3. slots[s] \in [by : Workers \cup {"nobody"}, left : Free..Lease]
    BY DEF TypeInv, DataOK
  <2>4. slots[s].left > 0
    BY <2>1, <2>2, <2>3, WebhookAssumption DEF Free
  <2>5. slots'[s].by = w /\ slots'[s].left = slots[s].left - 1
    BY <2>1, <2>3, <2>4 DEF Tick, Free
  <2>6. worker'[w].age = worker[w].age + 1 /\ worker'[w].pc = "posting"
    BY <1>1, Aging DEF Posting
  <2> QED BY <2>1, <2>2, <2>3, <2>5, <2>6, WebhookAssumption DEF Leased, Fresh, Free
<1>2. CASE w \notin Posting
  <2>1. worker'[w] = worker[w]
    BY <1>2, Aging
  <2> QED BY <1>2, <2>1 DEF LeaseInv, Leased, Fresh, Posting
<1> QED BY <1>1, <1>2

LEMMA NextLeases == TypeInv /\ LeaseInv /\ [Next]_vars => LeaseInv'
<1> SUFFICES ASSUME TypeInv, LeaseInv, [Next]_vars PROVE LeaseInv'
  OBVIOUS
<1>1. CASE Outside \/ UNCHANGED vars
  <2>1. worker' = worker /\ slots' = slots
    BY <1>1 DEF Outside, Log, PassedOver, QueueFirst, BatchStops, BatchAgain, AskEnable, Enable,
       Disable, DeleteLog, DeleteEndpoint, vars
  <2> QED BY <2>1 DEF LeaseInv, Leased, Fresh, Posting
<1>2. ASSUME NEW w \in Workers, NEW d \in Deliveries, NEW n \in Numbers, Receive(w, d, n)
      PROVE  LeaseInv'
  BY <1>2, ReceiveLeases
<1>3. ASSUME NEW w \in Workers, Attempt(w)
      PROVE  LeaseInv'
  <2>1. CASE Check(w)
    BY <2>1, CheckLeases
  <2>2. CASE Acquire(w)
    BY <2>2, AcquireLeases
  <2>3. CASE Answer(w)
    BY <2>3, ReleaseLeases
  <2>4. CASE Ack(w)
    <3>1. Others(w) /\ worker'[w].pc = "idle" /\ slots' = slots
      BY <2>4, Rests DEF Ack, TypeInv
    <3> QED BY <3>1, QuietLeases DEF Fresh
  <2>5. CASE Skip(w) \/ Defer(w) \/ Deliver(w) \/ Close(w) \/ Retry(w) \/ Requeue(w)
    <3>1. slots' = slots /\ worker[w].pc \in Held
      BY <2>5 DEF Skip, Defer, Deliver, Close, Retry, Requeue, At, Held, Unrecorded
    <3>2. PICK pc \in {"ack", "requeue", "reset"} : To(w, pc)
      BY <2>5 DEF Skip, Defer, Deliver, Close, Retry, Requeue
    <3> QED BY <3>1, <3>2, LaterLeases
  <2>6. CASE ResetRun(w) \/ CountFailure(w) \/ OpenBreaker(w)
    <3>1. slots' = slots /\ worker[w].pc \in Held
      BY <2>6 DEF ResetRun, CountFailure, OpenBreaker, At, Held, Unrecorded
    <3>2. PICK pc \in {"ack", "open", "close", "retry"} : To(w, pc)
      BY <2>6 DEF ResetRun, CountFailure, OpenBreaker
    <3> QED BY <3>1, <3>2, LaterLeases
  <2> QED BY <1>3, <2>1, <2>2, <2>3, <2>4, <2>5, <2>6 DEF Attempt
<1>4. ASSUME NEW w \in Workers, Crash(w)
      PROVE  LeaseInv'
  BY <1>4, ReleaseLeases
<1>5. CASE Tick
  BY <1>5, TickLeases
<1> QED BY <1>1, <1>2, <1>3, <1>4, <1>5 DEF Next, Outside

\* Whoever posts has a slot to itself.
LEMMA LeasesBound == TypeInv /\ LeaseInv => InFlightWithinLimit
<1> SUFFICES ASSUME TypeInv, LeaseInv PROVE InFlightWithinLimit
  OBVIOUS
<1> DEFINE held == [w \in Posting |-> CHOOSE s \in Slots : slots[s].by = w]
<1>1. ASSUME NEW w \in Posting
      PROVE  held[w] \in Slots /\ slots[held[w]].by = w
  <2>1. \E s \in Slots : slots[s].by = w
    BY DEF LeaseInv, Leased, Posting
  <2> QED BY <2>1
<1>2. held \in Injection(Posting, Slots)
  <2>1. held \in [Posting -> Slots]
    BY <1>1
  <2>2. \A v, w \in Posting : held[v] = held[w] => v = w
    BY <1>1
  <2> HIDE DEF held
  <2> QED BY <2>1, <2>2 DEF Injection, IsInjective
<1>3. IsFiniteSet(Slots)
  BY WebhookAssumption
<1> HIDE DEF held
<1> QED BY <1>2, <1>3, FS_Injection DEF InFlightWithinLimit

\* No more requests are under way than there are slots, whoever stops and however
\* long its lease then stays: for any workers and slots, and any deadline that comes
\* before the lease ends.
THEOREM InFlightHolds == Spec => []InFlightWithinLimit
<1>1. Init => TypeInv /\ LeaseInv
  <2>1. Init => LeaseInv
    BY DEF Init, LeaseInv, Leased, Fresh, Posting, Idle
  <2> QED BY <2>1, InitTypes
<1>2. TypeInv /\ LeaseInv /\ [Next]_vars => (TypeInv /\ LeaseInv)'
  BY NextTypes, NextLeases
<1>3. TypeInv /\ LeaseInv => InFlightWithinLimit
  BY LeasesBound
<1> QED BY <1>1, <1>2, <1>3, PTL DEF Spec

-----------------------------------------------------------------------------
(* The endpoint.                                                           *)

\* Only an admin turns an endpoint on: no worker writes back the endpoint it read,
\* whatever happened to it since.
THEOREM AdminEnables == Spec => OnlyAdminEnables
<1>1. ASSUME TypeInv, [Next]_vars
      PROVE  ~endpoint.active /\ endpoint'.active => Enable
  <2>1. endpoint \in Endpoint
    BY <1>1 DEF TypeInv, DataOK
  <2>2. CASE UNCHANGED endpoint
    BY <2>2
  <2>3. CASE DeleteEndpoint \/ Disable
    BY <2>1, <2>3 DEF DeleteEndpoint, Disable, Endpoint
  <2>4. ASSUME NEW w \in Workers, ResetRun(w) \/ CountFailure(w) \/ OpenBreaker(w)
        PROVE  endpoint'.active => endpoint.active
    <3>1. \A k : [endpoint EXCEPT !.failures = k].active = endpoint.active
      BY <2>1 DEF Endpoint
    <3>2. ~[endpoint EXCEPT !.active = FALSE].active
      BY <2>1 DEF Endpoint
    <3> QED BY <2>4, <3>1, <3>2 DEF ResetRun, CountFailure, OpenBreaker
  <2>5. CASE \/ \E d \in Deliveries : Log(d) \/ QueueFirst(d) \/ BatchStops(d) \/ BatchAgain(d)
             \/ \E w \in Workers, d \in Deliveries, n \in Numbers : Receive(w, d, n)
             \/ Tick \/ DeleteLog \/ AskEnable
    BY <2>2, <2>5 DEF Log, PassedOver, QueueFirst, BatchStops, BatchAgain, Receive, Tick,
        DeleteLog, AskEnable
  <2>6. ASSUME NEW w \in Workers,
               \/ Check(w) \/ Skip(w) \/ Acquire(w) \/ Defer(w) \/ Answer(w) \/ Deliver(w)
               \/ Close(w) \/ Retry(w) \/ Requeue(w) \/ Ack(w) \/ Crash(w)
        PROVE  UNCHANGED endpoint
    BY <2>6 DEF Check, Skip, Acquire, Defer, Answer, Deliver, Close, Retry, Requeue, Ack, Crash
  <2> QED BY <1>1, <2>2, <2>3, <2>4, <2>5, <2>6 DEF Next, Attempt, vars
<1>2. TypeInv /\ [Next]_vars => [~endpoint.active /\ endpoint'.active => Enable]_vars
  BY <1>1
<1>3. Init => TypeInv
  BY InitTypes
<1>4. TypeInv /\ [Next]_vars => TypeInv'
  BY NextTypes
<1> QED BY <1>2, <1>3, <1>4, PTL DEF Spec, OnlyAdminEnables

-----------------------------------------------------------------------------
(* What one step of an attempt does to the hand and to the delivery's row. *)

\* The steps that store the row.
Stores(w) == Skip(w) \/ Deliver(w) \/ Close(w) \/ Retry(w)

Closed(d) == rows[d].state \in {"delivered", "failed"}

\* A worker goes on with the attempt it has.
Same(w) ==
  /\ Others(w)
  /\ worker[w].pc \in Held /\ worker'[w].pc \in Held \cup {"ack"}
  /\ worker'[w].delivery = worker[w].delivery
  /\ worker'[w].number = worker[w].number

LEMMA CheckStep ==
  ASSUME TypeInv, NEW w \in Workers, Check(w)
  PROVE  /\ Same(w) /\ worker[w].pc = "start" /\ worker'[w].pc \in {"ack", "ready", "skip"}
         /\ worker'[w].pc # "ack" =>
              /\ ~Closed(worker[w].delivery)
              /\ rows[worker[w].delivery].attempts < worker[w].number
              /\ worker'[w].attempts = rows[worker[w].delivery].attempts
<1> DEFINE row == rows[worker[w].delivery]
           pc  == IF worker[w].endpoint.active THEN "ready" ELSE "skip"
<1>1. worker[w] \in Attempting /\ worker[w].pc = "start" /\ worker[w].pc \in Held
  BY InHand DEF Check, At, TypeInv, Held
<1>2. CASE To(w, "ack")
  BY <1>1, <1>2, Finishes DEF Same, TypeInv
<1>3. CASE /\ ~Duplicate(row, worker[w].number)
           /\ worker' = [worker EXCEPT ![w].attempts = row.attempts, ![w].pc = pc]
  <2>1. row.attempts \in 0..MaxAttempts /\ worker[w].number \in Nat
    BY <1>1 DEF TypeInv, DataOK, Rows, Attempting, Numbers
  <2>2. ~Closed(worker[w].delivery) /\ row.attempts < worker[w].number
    BY <1>3, <2>1 DEF Duplicate, Closed
  <2>3. pc \in {"ready", "skip"} /\ pc \in Held
    BY DEF Held
  <2> DEFINE k == row.attempts
  <2>4. worker' = [worker EXCEPT ![w].attempts = k, ![w].pc = pc]
    BY <1>3
  <2> HIDE DEF k, pc
  <2> DEFINE hand == [worker[w] EXCEPT !.attempts = k, !.pc = pc]
  <2>5. /\ hand.pc = pc /\ hand.attempts = k
        /\ hand.delivery = worker[w].delivery /\ hand.number = worker[w].number
    BY <1>1 DEF Attempting
  <2>6. worker' = [worker EXCEPT ![w] = hand]
    BY <2>4 DEF TypeInv, HandsOK
  <2> HIDE DEF hand
  <2>7. Others(w) /\ worker'[w] = hand
    BY <2>6 DEF TypeInv, HandsOK, Others
  <2> QED BY <1>1, <2>2, <2>3, <2>5, <2>7 DEF Same, k
<1> QED BY <1>2, <1>3 DEF Check

LEMMA AnswerStep ==
  ASSUME TypeInv, NEW w \in Workers, Answer(w)
  PROVE  /\ Same(w) /\ worker[w].pc = "posting" /\ worker'[w].pc = "answered"
         /\ worker'[w].attempts = worker[w].attempts
<1>1. worker[w] \in Attempting /\ worker[w].pc = "posting" /\ worker[w].pc \in Held
  BY InHand DEF Answer, At, TypeInv, Held, Unrecorded
<1>2. PICK outcome \in Outcomes :
        worker' = [worker EXCEPT ![w].outcome = outcome, ![w].pc = "answered", ![w].age = 0]
  BY DEF Answer, Outcomes
<1> DEFINE hand == [worker[w] EXCEPT !.outcome = outcome, !.pc = "answered", !.age = 0]
<1>3. /\ hand.pc = "answered" /\ hand.attempts = worker[w].attempts
      /\ hand.delivery = worker[w].delivery /\ hand.number = worker[w].number
  BY <1>1 DEF Attempting
<1>4. worker' = [worker EXCEPT ![w] = hand]
  BY <1>2 DEF TypeInv, HandsOK
<1> HIDE DEF hand
<1>5. Others(w) /\ worker'[w] = hand
  BY <1>4 DEF TypeInv, HandsOK, Others
<1> QED BY <1>1, <1>3, <1>5 DEF Same, Held, Unrecorded

\* Whichever way it goes on.
LEMMA ToStep ==
  ASSUME TypeInv, NEW w \in Workers, worker[w].pc \in Held, NEW pc \in Held \cup {"ack"}, To(w, pc)
  PROVE  /\ Same(w) /\ worker'[w].pc = pc
         /\ pc # "ack" => worker'[w].attempts = worker[w].attempts
<1>1. CASE pc = "ack"
  BY <1>1, Finishes DEF Same, TypeInv
<1>2. CASE pc # "ack"
  BY <1>2, Goes DEF Same, TypeInv
<1> QED BY <1>1, <1>2

\* A row is stored by a worker that had judged it open, and that is through with it.
LEMMA StoreStep ==
  ASSUME TypeInv, NEW w \in Workers, Stores(w)
  PROVE  /\ Same(w) /\ worker[w].pc \in Judged /\ worker'[w].pc \in {"ack", "reset", "requeue"}
         /\ rows'[worker[w].delivery].attempts >= worker[w].attempts
         /\ \/ rows'[worker[w].delivery].state \in {"delivered", "failed"}
            \/ rows'[worker[w].delivery].attempts = worker[w].attempts + 1
         /\ worker'[w].pc = "requeue" =>
              rows'[worker[w].delivery].attempts = worker[w].attempts + 1
         /\ \A e \in Deliveries : e # worker[w].delivery => rows'[e] = rows[e]
<1>1. worker[w].pc \in Judged /\ worker[w].pc \in Held
  BY DEF Stores, Skip, Deliver, Close, Retry, At, Judged, Held, Unrecorded
<1>2. worker[w] \in Attempting
  BY <1>1, InHand DEF TypeInv
<1>3. worker[w].attempts \in 0..MaxAttempts /\ worker[w].attempts + 1 \in 0..MaxAttempts
  <2>1. worker[w].attempts < worker[w].number
    BY <1>1 DEF TypeInv, Counted
  <2> QED BY <1>2, <2>1, WebhookAssumption DEF Attempting, Numbers
<1>4. PICK pc \in {"ack", "reset", "requeue"} : To(w, pc) /\ (pc = "requeue" => Retry(w))
  BY DEF Stores, Skip, Deliver, Close, Retry
<1>5. Same(w) /\ worker'[w].pc = pc
  BY <1>1, <1>4, ToStep DEF Held
<1>6. PICK state \in {"retrying", "delivered", "failed"}, k \in {worker[w].attempts, worker[w].attempts + 1} :
        /\ Put(w, state, k)
        /\ state = "retrying" \/ Retry(w) => k = worker[w].attempts + 1
  BY DEF Stores, Skip, Deliver, Close, Retry, At
<1>7. /\ rows'[worker[w].delivery].state = state /\ rows'[worker[w].delivery].attempts = k
      /\ \A e \in Deliveries : e # worker[w].delivery => rows'[e] = rows[e]
  BY <1>2, <1>3, <1>6, PutIs DEF TypeInv, DataOK
<1> QED BY <1>1, <1>3, <1>4, <1>5, <1>6, <1>7

\* The steps that leave the row alone, the check apart.
LEMMA PassStep ==
  ASSUME TypeInv, NEW w \in Workers,
         \/ Acquire(w) \/ Defer(w) \/ Answer(w) \/ ResetRun(w) \/ CountFailure(w)
         \/ OpenBreaker(w) \/ Requeue(w)
  PROVE  /\ Same(w) /\ rows' = rows /\ worker'[w].pc # "requeue"
         /\ worker'[w].pc \in Judged =>
              worker[w].pc \in Judged /\ worker'[w].attempts = worker[w].attempts
         /\ worker'[w].pc \in Unrecorded => worker[w].pc \in Unrecorded \/ Acquire(w)
         /\ worker[w].pc \in Unrecorded => worker'[w].pc \in Unrecorded
<1>1. CASE Answer(w)
  BY <1>1, AnswerStep DEF Answer, Judged, Unrecorded
<1>2. CASE Acquire(w)
  <2>1. /\ worker[w].pc = "ready" /\ worker[w].pc \in Held /\ "posting" \in Held
        /\ To(w, "posting") /\ rows' = rows
    BY <1>2 DEF Acquire, At, Held, Unrecorded
  <2>2. /\ Same(w) /\ worker'[w].pc = "posting"
        /\ worker'[w].attempts = worker[w].attempts
    BY <2>1, ToStep
  <2> QED BY <1>2, <2>1, <2>2 DEF Judged, Unrecorded
<1>3. CASE Defer(w) \/ ResetRun(w) \/ Requeue(w)
  BY <1>3, ToStep DEF Defer, ResetRun, Requeue, At, Held, Judged, Unrecorded
<1>4. CASE OpenBreaker(w)
  BY <1>4, ToStep DEF OpenBreaker, At, Held, Judged, Unrecorded
<1>5. CASE CountFailure(w)
  <2>1. PICK pc \in {"open", "close", "retry"} : To(w, pc)
    BY <1>5 DEF CountFailure
  <2>2. pc \in Held /\ pc \in Unrecorded /\ pc # "ack"
    BY DEF Held, Unrecorded
  <2>3. worker[w].pc \in Held /\ worker[w].pc \in Unrecorded /\ rows' = rows
    BY <1>5 DEF CountFailure, At, Held, Unrecorded
  <2> QED BY <2>1, <2>2, <2>3, ToStep DEF Judged, Unrecorded
<1> QED BY <1>1, <1>2, <1>3, <1>4, <1>5

LEMMA AttemptIs ==
  ASSUME NEW w \in Workers, Attempt(w)
  PROVE  \/ Check(w) \/ Stores(w) \/ Ack(w)
         \/ Acquire(w) \/ Defer(w) \/ Answer(w) \/ ResetRun(w) \/ CountFailure(w)
         \/ OpenBreaker(w) \/ Requeue(w)
  BY DEF Attempt, Stores

-----------------------------------------------------------------------------
(* The delivery log.                                                       *)

\* One worker at a time has a delivery in hand.
Apart == \A v, w \in Busy : worker[v].delivery = worker[w].delivery => v = w

\* While it does, nobody closes the row or records an attempt it does not know of.
Current(w) ==
  worker[w].pc \in Judged =>
    /\ ~Closed(worker[w].delivery)
    /\ rows[worker[w].delivery].attempts <= worker[w].attempts

RowInv == Apart /\ \A w \in Workers : Current(w)

LEMMA BusyDelivers ==
  ASSUME TypeInv, NEW w \in Busy
  PROVE  worker[w].delivery \in Deliveries /\ worker[w].number \in Numbers
  BY InHand DEF TypeInv, Busy, Done, Attempting

LEMMA HeldIsBusy ==
  ASSUME NEW w \in Workers, worker[w].pc \in Held \cup {"ack"}
  PROVE  w \in Busy
  BY DEF Busy, Held, Unrecorded

LEMMA JudgedIsHeld == Judged \subseteq Held /\ Unrecorded \subseteq Judged
  BY DEF Judged, Held, Unrecorded

LEMMA SameApart ==
  ASSUME RowInv, NEW w \in Workers, Same(w)
  PROVE  Apart'
<1> SUFFICES ASSUME NEW u \in Busy', NEW v \in Busy', worker'[u].delivery = worker'[v].delivery
             PROVE  u = v
  BY DEF Apart
<1>1. w \in Busy
  BY HeldIsBusy DEF Same
<1>2. \A x \in Busy' : x \in Busy /\ worker'[x].delivery = worker[x].delivery
  BY <1>1 DEF Busy, Same, Others
<1> QED BY <1>2 DEF RowInv, Apart

LEMMA IdleApart ==
  ASSUME RowInv, NEW w \in Workers, Others(w), worker'[w].pc = "idle"
  PROVE  Apart'
<1>1. \A x \in Busy' : x \in Busy /\ worker'[x].delivery = worker[x].delivery
  BY DEF Busy, Others
<1> QED BY <1>1 DEF RowInv, Apart

\* A step that leaves the rows alone leaves the others' judgment alone.
LEMMA OthersCurrent ==
  ASSUME RowInv, NEW w \in Workers, Others(w), Apart', Current(w)', rows' = rows
  PROVE  RowInv'
<1>1. ASSUME NEW v \in Workers, v # w
      PROVE  Current(v)'
  BY <1>1 DEF RowInv, Current, Closed, Others
<1> QED BY <1>1 DEF RowInv

\* The row's rule: what one step may do to it.
RowStep ==
  \A d \in Deliveries :
    \/ rows'[d].state = "none"
    \/ /\ rows[d].attempts <= rows'[d].attempts
       /\ Closed(d) => rows'[d] = rows[d]

LEMMA StoreRows ==
  ASSUME TypeInv, RowInv, NEW w \in Workers, Stores(w)
  PROVE  RowInv' /\ RowStep /\ \A d \in Deliveries : rows[d].attempts <= rows'[d].attempts
<1> DEFINE d == worker[w].delivery
<1>1. /\ Same(w) /\ worker[w].pc \in Judged /\ worker'[w].pc \notin Judged
      /\ rows'[d].attempts >= worker[w].attempts
      /\ \A e \in Deliveries : e # d => rows'[e] = rows[e]
  BY StoreStep DEF Judged, Unrecorded
<1>2. w \in Busy /\ d \in Deliveries
  BY <1>1, HeldIsBusy, BusyDelivers DEF Same
<1>3. ~Closed(d) /\ rows[d].attempts <= worker[w].attempts
  BY <1>1 DEF RowInv, Current
<1>4. worker[w].attempts \in Nat /\ \A e \in Deliveries : rows[e].attempts \in Nat /\ rows'[e].attempts \in Nat
  <2>1. worker[w] \in Attempting
    BY <1>1, InHand, JudgedIsHeld DEF TypeInv
  <2>2. rows' \in Rows
    BY NextTypes DEF TypeInv, DataOK, Next, Attempt, Stores
  <2> QED BY <2>1, <2>2, WebhookAssumption DEF TypeInv, DataOK, Rows, Attempting
<1> HIDE DEF d
<1>5. ASSUME NEW e \in Deliveries
      PROVE  rows[e].attempts <= rows'[e].attempts /\ (Closed(e) => rows'[e] = rows[e])
  BY <1>1, <1>3, <1>4
<1>6. ASSUME NEW v \in Workers
      PROVE  Current(v)'
  <2>1. CASE v = w
    BY <1>1, <2>1 DEF Current
  <2>2. CASE v # w /\ worker[v].pc \in Judged
    <3>1. v \in Busy /\ worker'[v] = worker[v]
      BY <1>1, <2>2, JudgedIsHeld, HeldIsBusy DEF Same, Others
    <3>2. worker[v].delivery # d /\ worker[v].delivery \in Deliveries
      BY <1>2, <2>2, <3>1, BusyDelivers DEF RowInv, Apart, d
    <3> QED BY <1>1, <2>2, <3>1, <3>2 DEF RowInv, Current, Closed
  <2>3. CASE v # w /\ worker[v].pc \notin Judged
    BY <1>1, <2>3 DEF Current, Same, Others
  <2> QED BY <2>1, <2>2, <2>3
<1> QED BY <1>1, <1>5, <1>6, SameApart DEF RowInv, RowStep

\* The stream consumer and an admin.
LEMMA OutsideRows ==
  ASSUME TypeInv, RowInv, Outside \/ UNCHANGED vars
  PROVE  /\ RowInv' /\ RowStep
         /\ ~DeleteLog => \A d \in Deliveries : /\ rows[d].attempts = rows'[d].attempts
                                                /\ Closed(d) => Closed(d)'
<1>1. worker' = worker
  BY DEF Outside, Log, PassedOver, QueueFirst, BatchStops, BatchAgain, AskEnable, Enable,
     Disable, DeleteLog, DeleteEndpoint, vars
<1>2. \A d \in Deliveries : rows[d].attempts \in Nat
  BY WebhookAssumption DEF TypeInv, DataOK, Rows
<1>3. CASE rows' = rows
  BY <1>1, <1>2, <1>3 DEF RowInv, RowStep, Apart, Busy, Current, Closed
<1>4. CASE DeleteLog
  <2>1. \A d \in Deliveries : rows'[d].state = "none" /\ rows'[d].attempts = 0
    BY <1>4 DEF DeleteLog, NoRow
  <2>2. ASSUME NEW w \in Workers
        PROVE  Current(w)'
    <3> SUFFICES ASSUME worker[w].pc \in Judged
                 PROVE  /\ ~Closed(worker[w].delivery)'
                        /\ rows'[worker[w].delivery].attempts <= worker[w].attempts
      BY <1>1 DEF Current, Closed
    <3>1. worker[w] \in Attempting
      BY InHand, JudgedIsHeld DEF TypeInv
    <3>2. worker[w].delivery \in Deliveries /\ worker[w].attempts >= 0
      BY <3>1, WebhookAssumption DEF Attempting
    <3> QED BY <1>1, <2>1, <3>2 DEF Closed
  <2>3. Apart'
    BY <1>1 DEF RowInv, Apart, Busy
  <2>4. RowStep
    BY <2>1 DEF RowStep
  <2> QED BY <1>4, <2>2, <2>3, <2>4 DEF RowInv
<1>5. ASSUME NEW d \in Deliveries, rows[d].state = "none", rows' = [rows EXCEPT ![d].state = "pending"]
      PROVE  RowInv' /\ RowStep /\ \A e \in Deliveries : rows[e].attempts = rows'[e].attempts /\ (Closed(e) => Closed(e)')
  <2>1. \A e \in Deliveries : e # d => rows'[e] = rows[e]
    BY <1>5 DEF TypeInv, DataOK, Rows
  <2>2. rows'[d].state = "pending" /\ rows'[d].attempts = rows[d].attempts
    BY <1>5 DEF TypeInv, DataOK, Rows
  <2>3. ASSUME NEW w \in Workers
        PROVE  Current(w)'
    <3> SUFFICES ASSUME worker[w].pc \in Judged
                 PROVE  /\ ~Closed(worker[w].delivery)'
                        /\ rows'[worker[w].delivery].attempts <= worker[w].attempts
      BY <1>1 DEF Current, Closed
    <3>1. worker[w].delivery \in Deliveries
      BY JudgedIsHeld, HeldIsBusy, BusyDelivers
    <3> QED BY <1>1, <2>1, <2>2, <3>1 DEF RowInv, Current, Closed
  <2>4. ~Closed(d) /\ \A e \in Deliveries : Closed(e) => rows'[e] = rows[e]
    BY <1>5, <2>1 DEF Closed
  <2>5. RowStep
    BY <1>2, <2>1, <2>2, <2>4 DEF RowStep
  <2> QED BY <1>1, <2>1, <2>2, <2>3, <2>4, <2>5 DEF RowInv, Apart, Busy, Closed
<1> QED BY <1>3, <1>4, <1>5 DEF Outside, Log, PassedOver, QueueFirst, BatchStops, BatchAgain,
        AskEnable, Enable, Disable, DeleteEndpoint, vars

\* Whatever a worker does but store the row, the row stays.
LEMMA WorkerRows ==
  ASSUME Overlap = FALSE, TypeInv, RowInv, NEW w \in Workers, ~Stores(w),
         Attempt(w) \/ Crash(w) \/ \E d \in Deliveries, n \in Numbers : Receive(w, d, n)
  PROVE  RowInv' /\ rows' = rows
<1>1. CASE Check(w)
  <2>1. Same(w) /\ rows' = rows
    BY <1>1, CheckStep DEF Check
  <2>2. worker[w].delivery \in Deliveries
    BY <2>1, HeldIsBusy, BusyDelivers DEF Same
  <2>3. rows[worker[w].delivery].attempts \in Nat
    BY <2>2, WebhookAssumption DEF TypeInv, DataOK, Rows
  <2>4. worker'[w].pc # "ack" =>
          ~Closed(worker[w].delivery) /\ worker'[w].attempts = rows[worker[w].delivery].attempts
    BY <1>1, CheckStep
  <2>5. Current(w)'
    BY <2>1, <2>3, <2>4 DEF Current, Closed, Same, Judged, Unrecorded
  <2> QED BY <2>1, <2>5, SameApart, OthersCurrent DEF Same
<1>2. CASE \/ Acquire(w) \/ Defer(w) \/ Answer(w) \/ ResetRun(w) \/ CountFailure(w)
           \/ OpenBreaker(w) \/ Requeue(w)
  <2>1. /\ Same(w) /\ rows' = rows
        /\ worker'[w].pc \in Judged =>
             worker[w].pc \in Judged /\ worker'[w].attempts = worker[w].attempts
    BY <1>2, PassStep
  <2>2. Current(w)'
    BY <2>1 DEF RowInv, Current, Closed, Same
  <2> QED BY <2>1, <2>2, SameApart, OthersCurrent DEF Same
<1>3. CASE Ack(w) \/ Crash(w)
  <2>1. Others(w) /\ worker'[w].pc = "idle" /\ rows' = rows
    BY <1>3, Rests DEF Ack, Crash, TypeInv
  <2> QED BY <2>1, IdleApart, OthersCurrent DEF Current, Judged, Unrecorded
<1>4. ASSUME NEW d \in Deliveries, NEW n \in Numbers, Receive(w, d, n)
      PROVE  RowInv' /\ rows' = rows
  <2>1. Others(w) /\ worker'[w].pc = "start" /\ worker'[w].delivery = d /\ rows' = rows /\ Alone(d)
    BY <1>4 DEF Receive, TypeInv, HandsOK, Others
  <2>2. Apart'
    <3> SUFFICES ASSUME NEW u \in Busy', NEW v \in Busy', worker'[u].delivery = worker'[v].delivery
                 PROVE  u = v
      BY DEF Apart
    <3>1. \A x \in Busy' : x # w => x \in Busy /\ worker'[x] = worker[x] /\ worker'[x].delivery # d
      BY <2>1 DEF Busy, Others, Alone
    <3> QED BY <2>1, <3>1 DEF RowInv, Apart
  <2> QED BY <2>1, <2>2, OthersCurrent DEF Current, Judged, Unrecorded
<1> QED BY <1>1, <1>2, <1>3, <1>4, AttemptIs

LEMMA TickRows ==
  ASSUME TypeInv, RowInv, Tick
  PROVE  RowInv' /\ rows' = rows
<1>1. rows' = rows
  BY DEF Tick
<1>2. \A w \in Workers : /\ worker'[w].pc = worker[w].pc
                         /\ w \in Busy => worker'[w].delivery = worker[w].delivery
                         /\ worker[w].pc \in Judged => worker'[w].attempts = worker[w].attempts
  BY Aging
<1>3. Apart'
  BY <1>2 DEF RowInv, Apart, Busy
<1>4. ASSUME NEW w \in Workers
      PROVE  Current(w)'
  BY <1>1, <1>2, JudgedIsHeld, HeldIsBusy DEF RowInv, Current, Closed
<1> QED BY <1>1, <1>3, <1>4 DEF RowInv

LEMMA NextRows ==
  ASSUME Overlap = FALSE, TypeInv, RowInv, [Next]_vars
  PROVE  RowInv' /\ RowStep
<1>1. CASE Outside \/ UNCHANGED vars
  BY <1>1, OutsideRows
<1>2. ASSUME rows' = rows
      PROVE  RowStep
  BY <1>2, WebhookAssumption DEF RowStep, TypeInv, DataOK, Rows
<1>3. ASSUME NEW w \in Workers,
             Attempt(w) \/ Crash(w) \/ \E d \in Deliveries, n \in Numbers : Receive(w, d, n)
      PROVE  RowInv' /\ RowStep
  BY <1>2, <1>3, StoreRows, WorkerRows
<1>4. CASE Tick
  BY <1>2, <1>4, TickRows
<1> QED BY <1>1, <1>3, <1>4 DEF Next, Outside

LEMMA InitRows == Init => RowInv
  BY DEF Init, RowInv, Apart, Busy, Current, Idle, Judged, Unrecorded

\* A closed delivery stays as it is and no row forgets an attempt, through every job
\* that comes back and every batch handed over again, while no delivery is with two
\* workers at once.
THEOREM ClosedStays ==
  ASSUME Overlap = FALSE
  PROVE  Spec => ClosedStaysClosed
<1>1. Init => TypeInv /\ RowInv
  BY InitTypes, InitRows
<1>2. TypeInv /\ RowInv /\ [Next]_vars => (TypeInv /\ RowInv)'
  BY NextTypes, NextRows
<1>3. TypeInv /\ RowInv /\ [Next]_vars =>
        [\A d \in Deliveries :
           rows'[d].state = "none"
           \/ /\ rows[d].attempts <= rows'[d].attempts
              /\ rows[d].state \in {"delivered", "failed"} => rows'[d] = rows[d]]_vars
  BY NextRows DEF RowStep, Closed
<1> QED BY <1>1, <1>2, <1>3, PTL DEF Spec, ClosedStaysClosed

-----------------------------------------------------------------------------
(* The requests.                                                           *)

\* The log a job is looked up in is still kept.
Alive == endpoint.present /\ ~deleting

Recorded(d, n) == n <= rows[d].attempts \/ Closed(d)

UnderWay(d, n) ==
  \E w \in Workers : /\ worker[w].pc \in Unrecorded
                     /\ worker[w].delivery = d /\ worker[w].number = n

\* A job is queued once the attempt before it is recorded.
JobsKnown == \A d \in Deliveries, n \in Numbers : queue[d][n] > 0 => n - 1 <= rows[d].attempts

\* So is the job a worker took, and the attempt it makes is the next one.
HandKnown(w) ==
  w \in Busy =>
    /\ worker[w].number - 1 <= rows[worker[w].delivery].attempts
    /\ worker[w].pc \in Judged => worker[w].attempts = worker[w].number - 1
    /\ worker[w].pc = "requeue" => worker[w].number <= rows[worker[w].delivery].attempts

\* Every request has its record, or its worker, or a worker that stopped.
Accounted(d, n) ==
  /\ posts[d][n] <= 1 + unlogged
  /\ posts[d][n] > unlogged => Recorded(d, n) \/ UnderWay(d, n)

PostInv ==
  Alive => /\ JobsKnown
           /\ \A w \in Workers : HandKnown(w)
           /\ \A d \in Deliveries, n \in Numbers : Accounted(d, n)

\* Rows only gain attempts, and stay closed.
Grows ==
  \A d \in Deliveries :
    /\ rows[d].attempts \in Nat /\ rows'[d].attempts \in Nat
    /\ rows[d].attempts <= rows'[d].attempts
    /\ Closed(d) => Closed(d)'

LEMMA SameRowsGrow ==
  ASSUME TypeInv, rows' = rows
  PROVE  Grows
  BY WebhookAssumption DEF TypeInv, DataOK, Rows, Grows, Closed

LEMMA NumbersAre == Numbers \subseteq Int
  BY DEF Numbers

LEMMA KeepsJobs ==
  ASSUME JobsKnown, Grows,
         \A d \in Deliveries, n \in Numbers :
           queue'[d][n] > 0 => queue[d][n] > 0 \/ n - 1 <= rows'[d].attempts
  PROVE  JobsKnown'
<1> SUFFICES ASSUME NEW d \in Deliveries, NEW n \in Numbers, queue'[d][n] > 0
             PROVE  n - 1 <= rows'[d].attempts
  BY DEF JobsKnown
<1>1. CASE queue[d][n] > 0
  <2>1. n - 1 <= rows[d].attempts
    BY <1>1 DEF JobsKnown
  <2> QED BY <2>1, NumbersAre DEF Grows
<1> QED BY <1>1

LEMMA KeepsHands ==
  ASSUME TypeInv, \A v \in Workers : HandKnown(v), Grows, NEW w \in Workers, Others(w), HandKnown(w)'
  PROVE  \A v \in Workers : HandKnown(v)'
<1> SUFFICES ASSUME NEW v \in Workers, v # w, v \in Busy PROVE HandKnown(v)'
  BY DEF HandKnown, Busy, Others
<1>1. worker'[v] = worker[v]
  BY DEF Others
<1>2. worker[v].delivery \in Deliveries /\ worker[v].number \in Int
  BY BusyDelivers, NumbersAre
<1>3. /\ worker[v].number - 1 <= rows'[worker[v].delivery].attempts
      /\ worker[v].pc = "requeue" => worker[v].number <= rows'[worker[v].delivery].attempts
  BY <1>2 DEF HandKnown, Grows
<1> QED BY <1>1, <1>3 DEF HandKnown, Busy

LEMMA KeepsPosts ==
  ASSUME \A d \in Deliveries, n \in Numbers : Accounted(d, n), Grows,
         posts' = posts, unlogged' = unlogged,
         \A d \in Deliveries, n \in Numbers : UnderWay(d, n) => UnderWay(d, n)' \/ Recorded(d, n)'
  PROVE  \A d \in Deliveries, n \in Numbers : Accounted(d, n)'
<1> SUFFICES ASSUME NEW d \in Deliveries, NEW n \in Numbers PROVE Accounted(d, n)'
  OBVIOUS
<1>1. Recorded(d, n) => Recorded(d, n)'
  BY NumbersAre DEF Recorded, Grows
<1> QED BY <1>1 DEF Accounted

\* What is under way stays so when its worker goes on with it.
LEMMA SameUnderWay ==
  ASSUME NEW w \in Workers, Others(w), NEW d, NEW n, UnderWay(d, n),
         worker[w].pc \in Unrecorded =>
           /\ worker'[w].pc \in Unrecorded
           /\ worker'[w].delivery = worker[w].delivery /\ worker'[w].number = worker[w].number
  PROVE  UnderWay(d, n)'
  BY DEF UnderWay, Others

LEMMA QueuedJob ==
  ASSUME TypeInv, NEW d \in Deliveries, NEW n \in Numbers, queue' = Queued(d, n),
         n - 1 <= rows'[d].attempts
  PROVE  \A e \in Deliveries, m \in Numbers :
           queue'[e][m] > 0 => queue[e][m] > 0 \/ m - 1 <= rows'[e].attempts
  BY QueuedIs DEF TypeInv, DataOK

LEMMA OutsidePosts ==
  ASSUME TypeInv, RowInv, PostInv, TypeInv', Outside \/ UNCHANGED vars
  PROVE  PostInv'
<1> SUFFICES ASSUME Alive' PROVE PostInv'
  BY DEF PostInv
<1>1. Alive /\ ~DeleteLog
  BY DEF Alive, Outside, Log, PassedOver, QueueFirst, BatchStops, BatchAgain, AskEnable, Enable,
     Disable, DeleteLog, DeleteEndpoint, vars, TypeInv, DataOK, Endpoint
<1>2. worker' = worker /\ posts' = posts /\ unlogged' = unlogged
  BY DEF Outside, Log, PassedOver, QueueFirst, BatchStops, BatchAgain, AskEnable, Enable,
     Disable, DeleteLog, DeleteEndpoint, vars
<1>3. Grows
  <2>1. \A d \in Deliveries : rows[d].attempts \in Nat
    BY WebhookAssumption DEF TypeInv, DataOK, Rows
  <2> QED BY <1>1, <2>1, OutsideRows DEF Grows
<1>4. JobsKnown'
  <2>1. CASE queue' = queue
    BY <1>1, <1>3, <2>1, KeepsJobs DEF PostInv
  <2>2. ASSUME NEW d \in Deliveries, QueueFirst(d)
        PROVE  JobsKnown'
    <3>1. queue' = Queued(d, 1) /\ 1 \in Numbers /\ 1 - 1 <= rows'[d].attempts
      BY <1>3, <2>2, WebhookAssumption DEF QueueFirst, Numbers, Grows
    <3>2. \A e \in Deliveries, m \in Numbers :
            queue'[e][m] > 0 => queue[e][m] > 0 \/ m - 1 <= rows'[e].attempts
      BY <3>1, QueuedJob
    <3> QED BY <1>1, <1>3, <3>2, KeepsJobs DEF PostInv
  <2> QED BY <2>1, <2>2 DEF Outside, Log, PassedOver, BatchStops, BatchAgain, AskEnable, Enable,
          Disable, DeleteLog, DeleteEndpoint, vars
<1>5. ASSUME NEW w \in Workers
      PROVE  HandKnown(w)'
  <2> SUFFICES ASSUME w \in Busy PROVE HandKnown(w)'
    BY <1>2 DEF HandKnown, Busy
  <2>1. worker[w].delivery \in Deliveries /\ worker[w].number \in Int
    BY BusyDelivers, NumbersAre
  <2> QED BY <1>1, <1>2, <1>3, <2>1 DEF PostInv, HandKnown, Grows
<1>6. \A d \in Deliveries, n \in Numbers : UnderWay(d, n) => UnderWay(d, n)'
  BY <1>2 DEF UnderWay
<1>7. \A d \in Deliveries, n \in Numbers : Accounted(d, n)'
  BY <1>1, <1>2, <1>3, <1>6, KeepsPosts DEF PostInv
<1> QED BY <1>4, <1>5, <1>7 DEF PostInv

\* A worker cannot bring the log back.
LEMMA WorkerAlive ==
  ASSUME TypeInv, NEW w \in Workers, Alive',
         Attempt(w) \/ Crash(w) \/ \E d \in Deliveries, n \in Numbers : Receive(w, d, n)
  PROVE  Alive
<1>1. endpoint \in Endpoint
  BY DEF TypeInv, DataOK
<1>2. deleting' = deleting
  BY DEF Attempt, Check, Skip, Acquire, Defer, Answer, Deliver, ResetRun, CountFailure, OpenBreaker,
     Close, Retry, Requeue, Ack, Crash, Receive
<1>3. CASE UNCHANGED endpoint
  BY <1>2, <1>3 DEF Alive
<1>4. CASE ResetRun(w) \/ CountFailure(w) \/ OpenBreaker(w)
  <2>1. endpoint.present \/ endpoint' = endpoint
    BY <1>4 DEF ResetRun, CountFailure, OpenBreaker
  <2> QED BY <1>2, <2>1 DEF Alive
<1> QED BY <1>3, <1>4 DEF Attempt, Check, Skip, Acquire, Defer, Answer, Deliver, Close, Retry,
        Requeue, Ack, Crash, Receive

LEMMA ReceivePosts ==
  ASSUME TypeInv, PostInv, Alive, NEW w \in Workers, NEW d \in Deliveries, NEW n \in Numbers,
         Receive(w, d, n)
  PROVE  PostInv'
<1>1. /\ Others(w) /\ worker'[w].pc = "start" /\ worker'[w].delivery = d /\ worker'[w].number = n
      /\ worker[w].pc = "idle"
      /\ rows' = rows /\ posts' = posts /\ unlogged' = unlogged /\ queue[d][n] > 0
  BY DEF Receive, At, TypeInv, HandsOK, Others
<1>2. Grows
  BY <1>1, SameRowsGrow
<1>3. \A e \in Deliveries, m \in Numbers : queue'[e][m] > 0 => queue[e][m] > 0
  <2> DEFINE k == queue[d][n] - 1
  <2>1. k \in Nat /\ queue' = [queue EXCEPT ![d][n] = k]
    BY DEF Receive, TypeInv, DataOK, Counters
  <2> HIDE DEF k
  <2>2. \A e \in Deliveries, m \in Numbers : e # d \/ m # n => queue'[e][m] = queue[e][m]
    BY <2>1, OneCounter DEF TypeInv, DataOK
  <2> QED BY <1>1, <2>2
<1>4. JobsKnown'
  BY <1>2, <1>3, KeepsJobs DEF PostInv
<1>5. HandKnown(w)'
  BY <1>1 DEF HandKnown, PostInv, JobsKnown, Judged, Unrecorded
<1>6. \A v \in Workers : HandKnown(v)'
  BY <1>1, <1>2, <1>5, KeepsHands DEF PostInv
<1>7. \A e \in Deliveries, m \in Numbers : UnderWay(e, m) => UnderWay(e, m)'
  BY <1>1, SameUnderWay DEF Unrecorded
<1> QED BY <1>1, <1>2, <1>4, <1>6, <1>7, KeepsPosts DEF PostInv

LEMMA CheckPosts ==
  ASSUME TypeInv, PostInv, Alive, NEW w \in Workers, Check(w)
  PROVE  PostInv'
<1>1. /\ rows' = rows /\ posts' = posts /\ unlogged' = unlogged /\ queue' = queue
  BY DEF Check
<1>2. /\ Same(w) /\ worker[w].pc = "start" /\ worker'[w].pc \in {"ack", "ready", "skip"}
      /\ worker'[w].pc # "ack" =>
           /\ rows[worker[w].delivery].attempts < worker[w].number
           /\ worker'[w].attempts = rows[worker[w].delivery].attempts
  BY CheckStep
<1>3. w \in Busy
  BY <1>2, HeldIsBusy DEF Same
<1>4. worker[w].delivery \in Deliveries /\ worker[w].number \in Int
  BY <1>3, BusyDelivers, NumbersAre
<1>5. Grows
  BY <1>1, SameRowsGrow
<1>6. HandKnown(w)'
  BY <1>1, <1>2, <1>3, <1>4, <1>5 DEF HandKnown, PostInv, Same, Grows, Judged, Unrecorded
<1>7. \A v \in Workers : HandKnown(v)'
  BY <1>2, <1>5, <1>6, KeepsHands DEF PostInv, Same
<1>8. \A e \in Deliveries, m \in Numbers : UnderWay(e, m) => UnderWay(e, m)'
  BY <1>2, SameUnderWay DEF Unrecorded, Same
<1>9. JobsKnown'
  BY <1>1, <1>5, KeepsJobs DEF PostInv
<1> QED BY <1>1, <1>5, <1>7, <1>8, <1>9, KeepsPosts DEF PostInv

\* A worker that goes on with its attempt knows what it knew.
LEMMA PassHands ==
  ASSUME TypeInv, PostInv, Alive, NEW w \in Workers,
         \/ Acquire(w) \/ Defer(w) \/ Answer(w) \/ ResetRun(w) \/ CountFailure(w)
         \/ OpenBreaker(w) \/ Requeue(w)
  PROVE  \A v \in Workers : HandKnown(v)'
<1>1. /\ Same(w) /\ rows' = rows /\ worker'[w].pc # "requeue"
      /\ worker'[w].pc \in Judged =>
           worker[w].pc \in Judged /\ worker'[w].attempts = worker[w].attempts
  BY PassStep
<1>2. w \in Busy /\ Grows
  BY <1>1, HeldIsBusy, SameRowsGrow DEF Same
<1>3. HandKnown(w)'
  BY <1>1, <1>2 DEF HandKnown, PostInv, Same
<1> QED BY <1>1, <1>2, <1>3, KeepsHands DEF PostInv, Same

\* A request is made for an attempt that none was made for, but by a worker that stopped.
LEMMA AcquirePosts ==
  ASSUME TypeInv, RowInv, PostInv, Alive, NEW w \in Workers, Acquire(w)
  PROVE  PostInv'
<1>1. worker[w].pc = "ready" /\ rows' = rows /\ queue' = queue /\ unlogged' = unlogged
  BY DEF Acquire, At
<1>2. w \in Busy
  BY <1>1 DEF Busy
<1>3. PICK d \in Deliveries, n \in Numbers : worker[w].delivery = d /\ worker[w].number = n
  BY <1>2, BusyDelivers
<1>4. Others(w) /\ worker'[w].pc = "posting" /\ worker'[w].delivery = d /\ worker'[w].number = n
  BY <1>1, <1>3, ToStep DEF Acquire, Held, Unrecorded, Same
<1>5. Grows
  BY <1>1, SameRowsGrow
<1>6. ~Recorded(d, n) /\ ~UnderWay(d, n)
  <2>1. ~Closed(d) /\ rows[d].attempts <= worker[w].attempts /\ worker[w].attempts = n - 1
    BY <1>1, <1>2, <1>3 DEF RowInv, Current, PostInv, HandKnown, Judged
  <2>2. rows[d].attempts \in Nat
    BY <1>5 DEF Grows
  <2>3. ASSUME NEW v \in Workers, worker[v].pc \in Unrecorded, worker[v].delivery = d
        PROVE  FALSE
    <3>1. v \in Busy
      BY <2>3, JudgedIsHeld, HeldIsBusy
    <3>2. v = w
      BY <1>2, <1>3, <2>3, <3>1 DEF RowInv, Apart
    <3> QED BY <1>1, <2>3, <3>2 DEF Unrecorded
  <2> QED BY NumbersAre, <2>1, <2>2, <2>3 DEF Recorded, UnderWay
<1>7. \A e \in Deliveries, m \in Numbers : posts[e][m] \in Nat /\ unlogged \in Nat
  BY DEF TypeInv, DataOK, Counters
<1>8. posts[d][n] <= unlogged
  BY <1>2, <1>3, <1>6, <1>7 DEF PostInv, Accounted
<1>9. /\ posts'[d][n] = posts[d][n] + 1
      /\ \A e \in Deliveries, m \in Numbers : e # d \/ m # n => posts'[e][m] = posts[e][m]
  <2> DEFINE k == posts[d][n] + 1
  <2>1. k \in Nat /\ posts' = [posts EXCEPT ![d][n] = k]
    BY <1>2, <1>3, <1>7 DEF Acquire
  <2> HIDE DEF k
  <2>2. posts'[d][n] = k
    <3>1. [posts EXCEPT ![d][n] = k][d][n] = k
      BY DEF TypeInv, DataOK, Counters
    <3> QED BY <2>1, <3>1
  <2>3. \A e \in Deliveries, m \in Numbers : e # d \/ m # n => posts'[e][m] = posts[e][m]
    BY <1>2, <1>3, <2>1, OneCounter DEF TypeInv, DataOK
  <2> QED BY <2>2, <2>3 DEF k
<1>10. UnderWay(d, n)'
  BY <1>4 DEF UnderWay, Unrecorded
<1>11. ASSUME NEW e \in Deliveries, NEW m \in Numbers
       PROVE  Accounted(e, m)'
  <2>1. CASE e = d /\ m = n
    BY <1>1, <1>2, <1>3, <1>7, <1>8, <1>9, <1>10, <2>1 DEF Accounted
  <2>2. CASE e # d \/ m # n
    <3>1. Recorded(e, m) => Recorded(e, m)'
      BY <1>1 DEF Recorded, Closed
    <3>2. UnderWay(e, m) => UnderWay(e, m)'
      BY <1>1, <1>4, SameUnderWay DEF Unrecorded
    <3> QED BY <1>1, <1>9, <2>2, <3>1, <3>2 DEF PostInv, Accounted
  <2> QED BY <2>1, <2>2
<1>12. JobsKnown'
  BY <1>1, <1>5, KeepsJobs DEF PostInv
<1> QED BY <1>11, <1>12, PassHands DEF PostInv

LEMMA PassPosts ==
  ASSUME TypeInv, PostInv, Alive, NEW w \in Workers,
         \/ Defer(w) \/ Answer(w) \/ ResetRun(w) \/ CountFailure(w) \/ OpenBreaker(w) \/ Requeue(w)
  PROVE  PostInv'
<1>1. /\ Same(w) /\ rows' = rows
      /\ worker[w].pc \in Unrecorded => worker'[w].pc \in Unrecorded
  BY PassStep
<1>2. posts' = posts /\ unlogged' = unlogged
  BY DEF Defer, Answer, ResetRun, CountFailure, OpenBreaker, Requeue
<1>3. Grows /\ w \in Busy
  BY <1>1, SameRowsGrow, HeldIsBusy DEF Same
<1>4. PICK d \in Deliveries, n \in Numbers : worker[w].delivery = d /\ worker[w].number = n
  BY <1>3, BusyDelivers
<1>5. JobsKnown'
  <2>1. CASE queue' = queue
    BY <1>3, <2>1, KeepsJobs DEF PostInv
  <2>2. ASSUME NEW m \in Numbers, queue' = Queued(d, m), m - 1 <= rows'[d].attempts
        PROVE  JobsKnown'
    <3>1. \A e \in Deliveries, k \in Numbers :
            queue'[e][k] > 0 => queue[e][k] > 0 \/ k - 1 <= rows'[e].attempts
      BY <2>2, QueuedJob
    <3> QED BY <1>3, <3>1, KeepsJobs DEF PostInv
  <2>3. CASE Defer(w)
    <3>1. queue' = Queued(d, n) /\ n - 1 <= rows'[d].attempts
      BY <1>1, <1>3, <1>4, <2>3 DEF Defer, PostInv, HandKnown
    <3> QED BY <2>2, <3>1
  <2>4. CASE Requeue(w)
    <3>1. worker[w] \in Attempting /\ worker[w].pc = "requeue"
      BY <2>4, InHand DEF Requeue, At, TypeInv, Held
    <3>2. n < MaxAttempts
      BY <1>4, <3>1 DEF TypeInv, Counted
    <3>3. n + 1 \in Numbers /\ (n + 1) - 1 = n
      BY <3>2, WebhookAssumption DEF Numbers
    <3>4. queue' = Queued(d, n + 1) /\ n <= rows'[d].attempts
      BY <1>1, <1>3, <1>4, <2>4, <3>1 DEF Requeue, PostInv, HandKnown
    <3> QED BY <2>2, <3>3, <3>4
  <2> QED BY <2>1, <2>3, <2>4 DEF Answer, ResetRun, CountFailure, OpenBreaker
<1>6. \A e \in Deliveries, m \in Numbers : UnderWay(e, m) => UnderWay(e, m)'
  BY <1>1, SameUnderWay DEF Same
<1> QED BY <1>2, <1>3, <1>5, <1>6, PassHands, KeepsPosts DEF PostInv

\* The row that is stored records the attempt.
LEMMA StorePosts ==
  ASSUME TypeInv, RowInv, PostInv, Alive, TypeInv', NEW w \in Workers, Stores(w)
  PROVE  PostInv'
<1>1. /\ Same(w) /\ worker[w].pc \in Judged /\ worker'[w].pc \in {"ack", "reset", "requeue"}
      /\ \/ rows'[worker[w].delivery].state \in {"delivered", "failed"}
         \/ rows'[worker[w].delivery].attempts = worker[w].attempts + 1
      /\ worker'[w].pc = "requeue" =>
           rows'[worker[w].delivery].attempts = worker[w].attempts + 1
      /\ \A e \in Deliveries : e # worker[w].delivery => rows'[e] = rows[e]
  BY StoreStep
<1>2. posts' = posts /\ unlogged' = unlogged /\ queue' = queue
  BY DEF Stores, Skip, Deliver, Close, Retry
<1>3. w \in Busy
  BY <1>1, HeldIsBusy DEF Same
<1>4. PICK d \in Deliveries, n \in Numbers : worker[w].delivery = d /\ worker[w].number = n
  BY <1>3, BusyDelivers
<1>5. Grows
  <2>1. \A e \in Deliveries : rows[e].attempts \in Nat /\ rows'[e].attempts \in Nat
    BY WebhookAssumption DEF TypeInv, DataOK, Rows
  <2>2. ~Closed(d)
    BY <1>1, <1>4 DEF RowInv, Current
  <2>3. \A e \in Deliveries : Closed(e) => Closed(e)'
    BY <1>1, <1>4, <2>2 DEF Closed
  <2> QED BY <2>1, <2>3, StoreRows DEF Grows
<1>6. worker[w].attempts = n - 1 /\ n \in Int
  BY <1>1, <1>3, <1>4, NumbersAre DEF PostInv, HandKnown
<1>7. Recorded(d, n)'
  BY <1>1, <1>4, <1>5, <1>6 DEF Recorded, Closed, Grows
<1>8. HandKnown(w)'
  <2>1. n - 1 <= rows'[d].attempts
    BY <1>3, <1>4, <1>5, <1>6 DEF PostInv, HandKnown, Grows
  <2>2. worker'[w].pc = "requeue" => n <= rows'[d].attempts
    BY <1>1, <1>4, <1>6
  <2> QED BY <1>1, <1>4, <2>1, <2>2 DEF HandKnown, Same, Judged, Unrecorded
<1>9. ASSUME NEW e \in Deliveries, NEW m \in Numbers, UnderWay(e, m)
      PROVE  UnderWay(e, m)' \/ Recorded(e, m)'
  <2>1. PICK v \in Workers : worker[v].pc \in Unrecorded /\ worker[v].delivery = e /\ worker[v].number = m
    BY <1>9 DEF UnderWay
  <2>2. CASE v = w
    BY <1>4, <1>7, <2>1, <2>2
  <2>3. CASE v # w
    BY <1>1, <2>1, <2>3 DEF UnderWay, Same, Others
  <2> QED BY <2>2, <2>3
<1>10. JobsKnown'
  BY <1>2, <1>5, KeepsJobs DEF PostInv
<1>11. \A v \in Workers : HandKnown(v)'
  BY <1>1, <1>5, <1>8, KeepsHands DEF PostInv, Same
<1> QED BY <1>2, <1>5, <1>9, <1>10, <1>11, KeepsPosts DEF PostInv

\* Who stops leaves its request without a record, and is counted for it.
LEMMA EndPosts ==
  ASSUME TypeInv, PostInv, Alive, NEW w \in Workers, Ack(w) \/ Crash(w)
  PROVE  PostInv'
<1>1. Others(w) /\ worker'[w].pc = "idle" /\ rows' = rows /\ posts' = posts /\ w \in Busy
  BY Rests DEF Ack, Crash, At, Busy, TypeInv
<1>2. Grows
  BY <1>1, SameRowsGrow
<1>3. PICK d \in Deliveries, n \in Numbers : worker[w].delivery = d /\ worker[w].number = n
  BY <1>1, BusyDelivers
<1>4. JobsKnown'
  <2>1. CASE queue' = queue
    BY <1>2, <2>1, KeepsJobs DEF PostInv
  <2>2. CASE queue' = Queued(d, n)
    <3>1. n - 1 <= rows'[d].attempts
      BY <1>1, <1>3 DEF PostInv, HandKnown
    <3>2. \A e \in Deliveries, k \in Numbers :
            queue'[e][k] > 0 => queue[e][k] > 0 \/ k - 1 <= rows'[e].attempts
      BY <2>2, <3>1, QueuedJob
    <3> QED BY <1>2, <3>2, KeepsJobs DEF PostInv
  <2> QED BY <1>3, <2>1, <2>2 DEF Ack, Crash
<1>5. HandKnown(w)'
  BY <1>1 DEF HandKnown, Busy
<1>6. \A v \in Workers : HandKnown(v)'
  BY <1>1, <1>2, <1>5, KeepsHands DEF PostInv
<1>7. CASE worker[w].pc \notin Unrecorded
  <2>1. unlogged' = unlogged
    BY <1>7 DEF Ack, Crash
  <2>2. \A e \in Deliveries, m \in Numbers : UnderWay(e, m) => UnderWay(e, m)'
    BY <1>1, <1>7, SameUnderWay
  <2> QED BY <1>1, <1>2, <1>4, <1>6, <2>1, <2>2, KeepsPosts DEF PostInv
<1>8. CASE worker[w].pc \in Unrecorded
  <2>1. unlogged' = unlogged + 1 /\ unlogged \in Nat
    BY <1>8 DEF Ack, Crash, At, Unrecorded, TypeInv, DataOK
  <2>2. ASSUME NEW e \in Deliveries, NEW m \in Numbers
        PROVE  Accounted(e, m)'
    <3>1. posts[e][m] \in Nat /\ posts[e][m] <= 1 + unlogged
      BY DEF PostInv, Accounted, TypeInv, DataOK, Counters
    <3> QED BY <1>1, <2>1, <3>1 DEF Accounted
  <2> QED BY <1>4, <1>6, <2>2 DEF PostInv
<1> QED BY <1>7, <1>8

LEMMA TickPosts ==
  ASSUME TypeInv, PostInv, Tick
  PROVE  PostInv'
<1>1. UNCHANGED <<endpoint, deleting, rows, queue, posts, unlogged>>
  BY DEF Tick
<1>2. \A w \in Workers :
        /\ worker'[w].pc = worker[w].pc
        /\ worker'[w].delivery = worker[w].delivery /\ worker'[w].number = worker[w].number
        /\ worker'[w].attempts = worker[w].attempts
  BY Aging
<1>3. \A w \in Workers : HandKnown(w) => HandKnown(w)'
  BY <1>1, <1>2 DEF HandKnown, Busy
<1>4. \A d \in Deliveries, n \in Numbers : Accounted(d, n) => Accounted(d, n)'
  BY <1>1, <1>2 DEF Accounted, Recorded, Closed, UnderWay
<1> QED BY <1>1, <1>3, <1>4 DEF PostInv, Alive, JobsKnown

LEMMA NextPosts ==
  ASSUME Overlap = FALSE, TypeInv, RowInv, PostInv, [Next]_vars, TypeInv'
  PROVE  PostInv'
<1>1. CASE Outside \/ UNCHANGED vars
  BY <1>1, OutsidePosts
<1>2. CASE Tick
  BY <1>2, TickPosts
<1>3. ASSUME NEW w \in Workers,
             Attempt(w) \/ Crash(w) \/ \E d \in Deliveries, n \in Numbers : Receive(w, d, n)
      PROVE  PostInv'
  <2> SUFFICES ASSUME Alive' PROVE PostInv'
    BY DEF PostInv
  <2>1. Alive
    BY <1>3, WorkerAlive
  <2>2. CASE Attempt(w)
    BY <2>1, <2>2, AttemptIs, CheckPosts, StorePosts, EndPosts, AcquirePosts, PassPosts
  <2> QED BY <1>3, <2>1, <2>2, EndPosts, ReceivePosts
<1> QED BY <1>1, <1>2, <1>3 DEF Next, Outside

LEMMA InitPosts == Init => PostInv
<1> SUFFICES ASSUME Init PROVE PostInv
  OBVIOUS
<1>1. JobsKnown
  BY DEF Init, JobsKnown
<1>2. \A w \in Workers : HandKnown(w)
  BY DEF Init, HandKnown, Busy, Idle
<1>3. \A d \in Deliveries, n \in Numbers : Accounted(d, n)
  BY DEF Init, Accounted
<1> QED BY <1>1, <1>2, <1>3 DEF PostInv

\* An attempt is posted once, and once more for each worker that stopped before its
\* row: for any deliveries, workers, slots and attempts, any number of jobs that come
\* back and of batches handed over again, while no delivery is with two workers at once.
THEOREM PostsOnce ==
  ASSUME Overlap = FALSE
  PROVE  Spec => []PostedOnce
<1>1. Init => TypeInv /\ RowInv /\ PostInv
  BY InitTypes, InitRows, InitPosts
<1>2. TypeInv /\ RowInv /\ PostInv /\ [Next]_vars => (TypeInv /\ RowInv /\ PostInv)'
  BY NextTypes, NextRows, NextPosts
<1>3. PostInv => PostedOnce
  BY DEF PostInv, PostedOnce, Alive, Accounted
<1> QED BY <1>1, <1>2, <1>3, PTL DEF Spec
-----------------------------------------------------------------------------
(* The breaker.                                                            *)

\* The workers that are to disable the endpoint, and those that may still add to its
\* run though it is disabled: they read it before.
Opening == {w \in Workers : worker[w].pc = "open"}

Able == {w \in Workers :
           worker[w].pc \in {"start", "ready", "posting", "answered"} /\ worker[w].endpoint.active}

\* The length an active endpoint's run may reach before a worker is to disable it: an
\* enabling may have left a longer one, to which the next failure is the last.
Room == IF Threshold <= spared THEN spared + 1 ELSE Threshold

LEMMA RoomIs == TypeInv => Room \in Nat \ {0} /\ Threshold \in Nat /\ Threshold <= Room
  BY WebhookAssumption DEF TypeInv, DataOK, Room

\* Past that length an active endpoint has a worker on the way to disable it for each
\* failure more, or one that stopped on it; a disabled one has room for the workers
\* that do not know of it yet.
RunInv ==
  /\ ~endpoint.present => ~endpoint.active
  /\ \A w \in Workers : worker[w].pc \in {"ready", "posting", "answered"} => worker[w].endpoint.active
  /\ endpoint.active => endpoint.failures < Room + Cardinality(Opening) + faults
  /\ ~endpoint.active =>
       endpoint.failures + Cardinality(Able) < Room + Cardinality(Workers) + faults

LEMMA RunCounts ==
  ASSUME TypeInv
  PROVE  /\ IsFiniteSet(Opening) /\ IsFiniteSet(Able)
         /\ Cardinality(Opening) \in Nat /\ Cardinality(Able) \in Nat /\ Cardinality(Workers) \in Nat
         /\ Cardinality(Opening) + Cardinality(Able) <= Cardinality(Workers)
<1>1. Opening \subseteq Workers /\ Able \subseteq Workers /\ Able \subseteq Workers \ Opening
  BY DEF Opening, Able
<1>2. IsFiniteSet(Workers) /\ IsFiniteSet(Workers \ Opening) /\ IsFiniteSet(Opening) /\ IsFiniteSet(Able)
  BY <1>1, WebhookAssumption, FS_Subset
<1>3. Cardinality(Workers \ Opening) = Cardinality(Workers) - Cardinality(Opening)
  <2>1. Workers \cap Opening = Opening
    BY <1>1
  <2> QED BY <1>2, <2>1, FS_Difference
<1>4. Cardinality(Able) <= Cardinality(Workers \ Opening)
  BY <1>1, <1>2, FS_Subset
<1> QED BY <1>2, <1>3, <1>4, FS_CardinalityType

\* What a worker that goes on had read of the endpoint.
LEMMA GoesOnReading ==
  ASSUME TypeInv, NEW w \in Workers, worker[w].pc \in Held, NEW pc \in Held, To(w, pc)
  PROVE  Others(w) /\ worker'[w].pc = pc /\ worker'[w].endpoint = worker[w].endpoint
<1>1. worker[w] \in Attempting /\ pc # "ack"
  BY InHand DEF TypeInv, Held, Unrecorded
<1>2. worker'[w] = [worker[w] EXCEPT !.pc = pc]
  BY <1>1 DEF To, TypeInv, HandsOK
<1> QED BY <1>1, <1>2, Goes DEF TypeInv, Attempting

\* One worker steps: each of the two sets changes by it at most.
LEMMA RunSets ==
  ASSUME TypeInv, TypeInv', NEW w \in Workers, Others(w)
  PROVE  /\ w \in Opening' \/ w \notin Opening => Cardinality(Opening) <= Cardinality(Opening')
         /\ w \in Able \/ w \notin Able' => Cardinality(Able') <= Cardinality(Able)
         /\ w \notin Opening /\ w \in Opening' => Cardinality(Opening') = Cardinality(Opening) + 1
         /\ Cardinality(Opening') >= Cardinality(Opening) - 1
         /\ w \in Able /\ w \notin Able' => Cardinality(Able') = Cardinality(Able) - 1
<1>1. /\ \A v \in Workers : v # w => (v \in Opening' <=> v \in Opening) /\ (v \in Able' <=> v \in Able)
      /\ Opening \subseteq Workers /\ Opening' \subseteq Workers
      /\ Able \subseteq Workers /\ Able' \subseteq Workers
  BY DEF Opening, Able, Others
<1>2. /\ IsFiniteSet(Opening) /\ IsFiniteSet(Able) /\ IsFiniteSet(Opening') /\ IsFiniteSet(Able')
      /\ Cardinality(Opening) \in Nat /\ Cardinality(Opening') \in Nat
      /\ Cardinality(Able) \in Nat /\ Cardinality(Able') \in Nat
  <2>1. IsFiniteSet(Opening') /\ IsFiniteSet(Able')
    BY <1>1, WebhookAssumption, FS_Subset
  <2> QED BY <2>1, RunCounts, FS_CardinalityType
<1>3. ASSUME w \in Opening' \/ w \notin Opening
      PROVE  Cardinality(Opening) <= Cardinality(Opening')
  <2>1. Opening \subseteq Opening'
    BY <1>1, <1>3
  <2> QED BY <1>2, <2>1, FS_Subset
<1>4. ASSUME w \in Able \/ w \notin Able'
      PROVE  Cardinality(Able') <= Cardinality(Able)
  <2>1. Able' \subseteq Able
    BY <1>1, <1>4
  <2> QED BY <1>2, <2>1, FS_Subset
<1>5. ASSUME w \notin Opening, w \in Opening'
      PROVE  Cardinality(Opening') = Cardinality(Opening) + 1
  <2>1. Opening' = Opening \cup {w}
    BY <1>1, <1>5
  <2> QED BY <1>2, <1>5, <2>1, FS_AddElement
<1>6. Cardinality(Opening') >= Cardinality(Opening) - 1
  <2>1. CASE w \in Opening /\ w \notin Opening'
    <3>1. Opening' = Opening \ {w}
      BY <1>1, <2>1
    <3> QED BY <1>2, <2>1, <3>1, FS_RemoveElement
  <2>2. CASE w \notin Opening \/ w \in Opening'
    BY <1>2, <1>3, <2>2
  <2> QED BY <2>1, <2>2
<1>7. ASSUME w \in Able, w \notin Able'
      PROVE  Cardinality(Able') = Cardinality(Able) - 1
  <2>1. Able' = Able \ {w}
    BY <1>1, <1>7
  <2> QED BY <1>2, <1>7, <2>1, FS_RemoveElement
<1> QED BY <1>3, <1>4, <1>5, <1>6, <1>7

\* A worker reads an active endpoint before it makes its request.
ReadsActive(w) == worker[w].pc \in {"ready", "posting", "answered"} => worker[w].endpoint.active

\* Steps that leave the endpoint alone: nobody stops short of disabling it but for a
\* fault, and nobody new knows a disabled one as active.
LEMMA RunStays ==
  ASSUME TypeInv, TypeInv', RunInv, NEW w \in Workers, Others(w), ReadsActive(w)',
         endpoint' = endpoint, spared' = spared,
         \/ faults' = faults /\ (w \in Opening' \/ w \notin Opening)
         \/ faults' = faults + 1,
         w \in Able \/ w \notin Able' \/ endpoint.active
  PROVE  RunInv'
<1>1. /\ faults \in Nat /\ Room \in Nat /\ Room' = Room /\ endpoint.failures \in Nat
      /\ endpoint'.failures = endpoint.failures /\ endpoint'.active = endpoint.active
      /\ endpoint'.present = endpoint.present
  BY WebhookAssumption, RoomIs DEF TypeInv, DataOK, Endpoint, Room
<1>2. \A v \in Workers : ReadsActive(v)'
  BY DEF RunInv, ReadsActive, Others
<1>3. /\ Cardinality(Opening) \in Nat /\ Cardinality(Able) \in Nat /\ Cardinality(Workers) \in Nat
      /\ Cardinality(Opening)' \in Nat /\ Cardinality(Able)' \in Nat
  <2>1. Cardinality(Opening)' \in Nat /\ Cardinality(Able)' \in Nat
    <3>1. Opening' \subseteq Workers /\ Able' \subseteq Workers
      BY DEF Opening, Able
    <3> QED BY <3>1, WebhookAssumption, FS_Subset, FS_CardinalityType
  <2> QED BY <2>1, RunCounts
<1>4. endpoint.active => Cardinality(Opening) + faults <= Cardinality(Opening)' + faults'
  BY <1>1, <1>3, RunSets
<1>5. ~endpoint.active => Cardinality(Able)' <= Cardinality(Able) /\ faults <= faults'
  BY <1>1, RunSets
<1> QED BY <1>1, <1>2, <1>3, <1>4, <1>5 DEF RunInv, ReadsActive

\* The steps of a worker that leave the endpoint alone.
LEMMA QuietRuns ==
  ASSUME TypeInv, TypeInv', RunInv, NEW w \in Workers,
         Check(w) \/ Stores(w) \/ Ack(w) \/ Acquire(w) \/ Defer(w) \/ Answer(w) \/ Requeue(w)
  PROVE  RunInv'
<1> USE DEF aside
<1>1. \/ endpoint' = endpoint /\ spared' = spared /\ faults' = faults /\ w \notin Opening
      \/ Close(w)
  BY DEF Check, Stores, Skip, Deliver, Retry, Ack, Acquire, Defer, Answer, Requeue, At, Opening
<1>2. CASE Check(w)
  <2> DEFINE attempts == rows[worker[w].delivery].attempts
             pc       == IF worker[w].endpoint.active THEN "ready" ELSE "skip"
  <2>1. worker[w] \in Attempting /\ worker[w].pc = "start"
    BY <1>2, InHand DEF Check, At, TypeInv, Held
  <2>2. CASE To(w, "ack")
    <3>1. Others(w) /\ worker'[w].pc = "ack"
      BY <2>1, <2>2, Finishes DEF TypeInv, Held
    <3> QED BY <1>1, <1>2, <3>1, RunStays DEF ReadsActive, Able, Check, At, Close
  <2>3. CASE worker' = [worker EXCEPT ![w].attempts = attempts, ![w].pc = pc]
    <3>1. pc \in {"ready", "skip"} /\ (pc = "ready" => worker[w].endpoint.active)
      OBVIOUS
    <3> HIDE DEF attempts, pc
    <3> DEFINE hand == [worker[w] EXCEPT !.attempts = attempts, !.pc = pc]
    <3>2. hand.pc = pc /\ hand.endpoint = worker[w].endpoint
      BY <2>1 DEF Attempting
    <3>3. worker' = [worker EXCEPT ![w] = hand]
      BY <2>3 DEF TypeInv, HandsOK
    <3> HIDE DEF hand
    <3>4. Others(w) /\ worker'[w] = hand
      BY <3>3 DEF TypeInv, HandsOK, Others
    <3>5. ReadsActive(w)' /\ (w \in Able \/ w \notin Able')
      BY <2>1, <3>1, <3>2, <3>4 DEF ReadsActive, Able
    <3> QED BY <1>1, <1>2, <3>4, <3>5, RunStays DEF Check, At, Close
  <2> QED BY <1>2, <2>2, <2>3 DEF Check
<1>3. CASE Answer(w)
  <2>1. PICK outcome \in Outcomes :
          worker' = [worker EXCEPT ![w].outcome = outcome, ![w].pc = "answered", ![w].age = 0]
    BY <1>3 DEF Answer, Outcomes
  <2>2. worker[w] \in Attempting /\ worker[w].pc = "posting"
    BY <1>3, InHand DEF Answer, At, TypeInv, Held, Unrecorded
  <2> DEFINE hand == [worker[w] EXCEPT !.outcome = outcome, !.pc = "answered", !.age = 0]
  <2>3. hand.pc = "answered" /\ hand.endpoint = worker[w].endpoint
    BY <2>2 DEF Attempting
  <2>4. worker' = [worker EXCEPT ![w] = hand]
    BY <2>1 DEF TypeInv, HandsOK
  <2> HIDE DEF hand
  <2>5. Others(w) /\ worker'[w] = hand
    BY <2>4 DEF TypeInv, HandsOK, Others
  <2>6. ReadsActive(w)' /\ (w \in Able \/ w \notin Able')
    BY <2>2, <2>3, <2>5 DEF RunInv, ReadsActive, Able
  <2> QED BY <1>1, <1>3, <2>5, <2>6, RunStays DEF Answer, At, Close
<1>4. CASE Acquire(w)
  <2>1. worker[w].pc = "ready" /\ worker[w].pc \in Held /\ "posting" \in Held
    BY <1>4 DEF Acquire, At, Held, Unrecorded
  <2>2. /\ Others(w) /\ worker'[w].pc = "posting"
        /\ worker'[w].endpoint = worker[w].endpoint
    BY <1>4, <2>1, GoesOnReading DEF Acquire
  <2>3. ReadsActive(w)' /\ w \in Able
    BY <2>1, <2>2 DEF RunInv, ReadsActive, Able
  <2> QED BY <1>1, <1>4, <2>2, <2>3, RunStays DEF Acquire, At, Close
<1>5. CASE Stores(w) \/ Ack(w) \/ Defer(w) \/ Requeue(w)
  <2>1. Others(w) /\ worker'[w].pc \in {"ack", "reset", "requeue", "idle"}
    <3>1. CASE Stores(w)
      BY <3>1, StoreStep DEF Same
    <3>2. CASE Defer(w) \/ Requeue(w)
      BY <3>2, Finishes DEF Defer, Requeue, At, TypeInv, Held
    <3>3. CASE Ack(w)
      BY <3>3, Rests DEF Ack, TypeInv
    <3> QED BY <1>5, <3>1, <3>2, <3>3
  <2>2. ReadsActive(w)' /\ w \notin Able'
    BY <2>1 DEF ReadsActive, Able
  <2>3. endpoint' = endpoint /\ spared' = spared /\ faults' = faults /\ w \notin Opening
    BY <1>5 DEF Stores, Skip, Deliver, Close, Retry, Ack, Defer, Requeue, At, Opening
  <2> QED BY <2>1, <2>2, <2>3, RunStays
<1> QED BY <1>2, <1>3, <1>4, <1>5

\* A failure counted past the threshold has its worker disable the endpoint, and one
\* counted for a disabled endpoint was the last its worker could add.
LEMMA FailureRuns ==
  ASSUME TypeInv, TypeInv', RunInv, NEW w \in Workers, CountFailure(w)
  PROVE  RunInv'
<1>1. /\ worker[w].pc = "answered" /\ worker[w].pc \in Held
      /\ endpoint \in Endpoint /\ faults' = faults /\ faults \in Nat
      /\ spared' = spared /\ Room' = Room /\ Room \in Nat /\ Threshold \in Nat /\ Threshold <= Room
  BY RoomIs DEF CountFailure, At, Held, Unrecorded, TypeInv, DataOK, Room, aside
<1>2. w \in Able /\ w \notin Opening
  BY <1>1 DEF RunInv, Able, Opening
<1>3. PICK pc \in {"open", "close", "retry"} :
        /\ To(w, pc)
        /\ endpoint.present /\ endpoint.failures + 1 >= Threshold => pc = "open"
  BY DEF CountFailure, Trips
<1>4. Others(w) /\ worker'[w].pc = pc
  BY <1>1, <1>3, GoesOnReading DEF Held, Unrecorded
<1>5. w \notin Able' /\ ReadsActive(w)' /\ (pc = "open" => w \in Opening')
  BY <1>3, <1>4 DEF Able, ReadsActive, Opening
<1>6. /\ Cardinality(Opening) \in Nat /\ Cardinality(Able) \in Nat /\ Cardinality(Workers) \in Nat
      /\ Cardinality(Opening') \in Nat
      /\ Cardinality(Opening') >= Cardinality(Opening)
      /\ pc = "open" => Cardinality(Opening') = Cardinality(Opening) + 1
      /\ Cardinality(Able') = Cardinality(Able) - 1
  <2>1. IsFiniteSet(Opening')
    <3>1. Opening' \subseteq Workers
      BY DEF Opening
    <3> QED BY <3>1, WebhookAssumption, FS_Subset
  <2>2. Cardinality(Opening') \in Nat
    BY <2>1, FS_CardinalityType
  <2> QED BY <1>2, <1>4, <1>5, <2>2, RunCounts, RunSets
<1>7. CASE endpoint.present
  <2>1. /\ endpoint'.failures = endpoint.failures + 1 /\ endpoint'.active = endpoint.active
        /\ endpoint'.present /\ endpoint.failures \in Nat
    <3> DEFINE k == endpoint.failures + 1
    <3>1. endpoint' = [endpoint EXCEPT !.failures = k]
      BY <1>7 DEF CountFailure
    <3> HIDE DEF k
    <3>2. endpoint'.failures = k /\ endpoint'.active = endpoint.active /\ endpoint'.present
      BY <1>1, <1>7, <3>1 DEF Endpoint
    <3> QED BY <1>1, <3>2 DEF Endpoint, k
  <2>2. \A v \in Workers : ReadsActive(v)'
    BY <1>4, <1>5 DEF RunInv, ReadsActive, Others
  <2>3. endpoint.active => endpoint'.failures < Room' + Cardinality(Opening') + faults'
    <3>1. CASE endpoint.failures + 1 >= Threshold
      BY <1>1, <1>3, <1>6, <1>7, <2>1, <3>1 DEF RunInv
    <3>2. CASE endpoint.failures + 1 < Threshold
      BY <1>1, <1>6, <2>1, <3>2
    <3> QED BY <1>1, <2>1, <3>1, <3>2
  <2>4. ~endpoint.active =>
          endpoint'.failures + Cardinality(Able') < Room' + Cardinality(Workers) + faults'
    BY <1>1, <1>6, <2>1 DEF RunInv
  <2> QED BY <2>1, <2>2, <2>3, <2>4 DEF RunInv, ReadsActive
<1>8. CASE ~endpoint.present
  BY <1>1, <1>2, <1>4, <1>5, <1>8, RunStays DEF CountFailure
<1> QED BY <1>7, <1>8

\* A worker that disables the endpoint leaves room for those that could not know.
LEMMA DisableRuns ==
  ASSUME TypeInv, TypeInv', RunInv, endpoint' = [endpoint EXCEPT !.active = FALSE], spared' = spared,
         \A w \in Workers : ReadsActive(w)', Cardinality(Able') <= Cardinality(Able),
         Cardinality(Able') \in Nat, faults' \in Nat, faults' >= faults
  PROVE  RunInv'
<1>1. /\ endpoint'.failures = endpoint.failures /\ ~endpoint'.active
      /\ endpoint.failures \in Nat /\ Room \in Nat /\ Room' = Room /\ faults \in Nat
  BY RoomIs DEF Room, TypeInv, DataOK, Endpoint
<1>2. endpoint.failures + Cardinality(Able) < Room + Cardinality(Workers) + faults
  BY <1>1, RunCounts DEF RunInv
<1> QED BY <1>1, <1>2, RunCounts DEF RunInv, ReadsActive

LEMMA BreakerRuns ==
  ASSUME TypeInv, TypeInv', RunInv, NEW w \in Workers, ResetRun(w) \/ OpenBreaker(w)
  PROVE  RunInv'
<1>1. /\ worker[w].pc \in {"reset", "open"} /\ worker[w].pc \in Held
      /\ endpoint \in Endpoint /\ faults' = faults /\ faults \in Nat
      /\ spared' = spared /\ Room' = Room /\ Room \in Nat \ {0}
  BY RoomIs DEF ResetRun, OpenBreaker, At, Held, Unrecorded, TypeInv, DataOK, Room, aside
<1>2. PICK pc \in {"ack", "close"} : To(w, pc)
  BY DEF ResetRun, OpenBreaker
<1>3. Others(w) /\ worker'[w].pc = pc
  BY <1>1, <1>2, ToStep DEF Same, Held, Unrecorded
<1>4. w \notin Able' /\ ReadsActive(w)'
  BY <1>3 DEF Able, ReadsActive
<1>5. \A v \in Workers : ReadsActive(v)'
  BY <1>3, <1>4 DEF RunInv, ReadsActive, Others
<1>6. /\ Cardinality(Able) \in Nat /\ Cardinality(Able') \in Nat /\ Cardinality(Workers) \in Nat
      /\ Cardinality(Able') <= Cardinality(Able) /\ Cardinality(Able') <= Cardinality(Workers)
      /\ Cardinality(Opening') \in Nat
  <2>1. Able' \subseteq Workers /\ Opening' \subseteq Workers
    BY DEF Able, Opening
  <2>2. IsFiniteSet(Workers)
    BY WebhookAssumption
  <2>3. IsFiniteSet(Able') /\ IsFiniteSet(Opening') /\ Cardinality(Able') <= Cardinality(Workers)
    BY <2>1, <2>2, FS_Subset
  <2> QED BY <1>3, <1>4, <2>3, RunCounts, RunSets, FS_CardinalityType
<1>7. CASE OpenBreaker(w) /\ endpoint.present
  BY <1>1, <1>5, <1>6, <1>7, DisableRuns DEF OpenBreaker
<1>8. CASE OpenBreaker(w) /\ ~endpoint.present
  <2>1. endpoint' = endpoint /\ ~endpoint.active
    BY <1>8 DEF OpenBreaker, RunInv
  <2> QED BY <1>1, <1>5, <1>6, <2>1, RunCounts DEF RunInv, ReadsActive, Endpoint
<1>9. CASE ResetRun(w)
  <2>1. endpoint'.active = endpoint.active /\ endpoint'.present = endpoint.present
        /\ (endpoint.present => endpoint'.failures = 0)
        /\ (~endpoint.present => endpoint' = endpoint)
    BY <1>1, <1>9 DEF ResetRun, Endpoint
  <2>2. CASE endpoint.present
    BY <1>1, <1>5, <1>6, <2>1, <2>2 DEF RunInv, ReadsActive
  <2>3. CASE ~endpoint.present
    BY <1>1, <1>5, <1>6, <2>1, <2>3, RunCounts DEF RunInv, ReadsActive, Endpoint
  <2> QED BY <2>2, <2>3
<1> QED BY <1>7, <1>8, <1>9

\* The endpoint that a worker reads is the one there is; one that stops is a fault.
LEMMA EndRuns ==
  ASSUME TypeInv, TypeInv', RunInv, NEW w \in Workers,
         Crash(w) \/ \E d \in Deliveries, n \in Numbers : Receive(w, d, n)
  PROVE  RunInv'
<1>1. CASE Crash(w)
  <2>1. /\ Others(w) /\ worker'[w].pc = "idle" /\ endpoint' = endpoint
        /\ spared' = spared /\ faults' = faults + 1
    BY <1>1, Rests DEF Crash, TypeInv, Fault, aside
  <2> QED BY <2>1, RunStays DEF ReadsActive, Able
<1>2. ASSUME NEW d \in Deliveries, NEW n \in Numbers, Receive(w, d, n)
      PROVE  RunInv'
  <2>1. /\ Others(w) /\ worker'[w].pc = "start" /\ worker'[w].endpoint = endpoint
        /\ worker[w].pc = "idle" /\ endpoint' = endpoint /\ spared' = spared /\ faults' = faults
    BY <1>2 DEF Receive, At, TypeInv, HandsOK, Others, aside
  <2>2. w \notin Opening /\ (w \in Able' => endpoint.active)
    BY <2>1 DEF Opening, Able
  <2> QED BY <2>1, <2>2, RunStays DEF ReadsActive
<1> QED BY <1>1, <1>2

LEMMA OutsideRuns ==
  ASSUME TypeInv, TypeInv', RunInv, Outside \/ Tick \/ UNCHANGED vars
  PROVE  RunInv'
<1>1. /\ \A w \in Workers : worker'[w].pc = worker[w].pc
      /\ \A w \in Workers : worker[w].pc \in Held => worker'[w].endpoint = worker[w].endpoint
  <2>1. CASE Outside \/ UNCHANGED vars
    BY <2>1 DEF Outside, Log, PassedOver, QueueFirst, BatchStops, BatchAgain, AskEnable, Enable,
                Disable, DeleteLog, DeleteEndpoint, vars
  <2>2. CASE Tick
    <3>1. ASSUME NEW w \in Workers, worker[w].pc \in Held
          PROVE  worker'[w].endpoint = worker[w].endpoint
      <4>1. worker[w] \in Attempting
        BY <3>1, InHand DEF TypeInv
      <4> QED BY <2>2, <4>1, Aging DEF Attempting
    <3> QED BY <2>2, <3>1, Aging
  <2> QED BY <2>1, <2>2
<1>2. Opening' = Opening /\ Able' = Able /\ \A w \in Workers : ReadsActive(w)'
  BY <1>1 DEF Opening, Able, ReadsActive, RunInv, Held, Unrecorded
<1>3. /\ faults \in Nat /\ faults' \in Nat /\ faults' >= faults
      /\ Room \in Nat \ {0} /\ Room' \in Nat \ {0}
  <2>1. faults' \in Nat /\ spared' \in Nat /\ faults \in Nat
    BY WebhookAssumption DEF TypeInv, DataOK
  <2>2. Room' \in Nat \ {0}
    <3>1. Threshold \in Nat \ {0}
      BY WebhookAssumption
    <3>2. Room' = spared' + 1 \/ Room' = Threshold
      BY DEF Room
    <3> QED BY <2>1, <3>1, <3>2
  <2>3. faults' = faults \/ faults' = faults + 1
    BY DEF Outside, Log, PassedOver, QueueFirst, BatchStops, BatchAgain, AskEnable, Enable,
           Disable, DeleteLog, DeleteEndpoint, Tick, vars, Fault
  <2> QED BY <2>1, <2>2, <2>3, RoomIs
<1>4. CASE endpoint' = endpoint /\ spared' = spared
  <2>1. Room' = Room
    BY <1>4 DEF Room
  <2> QED BY <1>2, <1>3, <1>4, <2>1, RunCounts DEF RunInv, ReadsActive, TypeInv, DataOK, Endpoint
<1>5. CASE Disable
  <2>1. spared' = spared
    BY <1>5 DEF Disable, aside
  <2> QED BY <1>2, <1>3, <1>5, <2>1, RunCounts, DisableRuns DEF Disable
<1>6. CASE DeleteEndpoint
  <2>1. endpoint'.failures = 0 /\ ~endpoint'.active
    BY <1>6 DEF DeleteEndpoint
  <2> QED BY <1>2, <1>3, <2>1, RunCounts DEF RunInv, ReadsActive
<1>7. CASE Enable
  <2>1. endpoint \in Endpoint /\ endpoint' \in Endpoint
    BY DEF TypeInv, DataOK
  <2>2. spared' = endpoint'.failures /\ (~endpoint'.present => ~endpoint'.active)
    BY <1>7, <2>1 DEF Enable, Endpoint, RunInv
  <2>3. endpoint'.failures \in Nat /\ endpoint'.failures < Room'
    BY <2>1, <2>2, WebhookAssumption DEF Room, Endpoint
  <2> QED BY <1>2, <1>3, <2>2, <2>3, RunCounts DEF RunInv, ReadsActive
<1> QED BY <1>4, <1>5, <1>6, <1>7
        DEF Outside, Log, PassedOver, QueueFirst, BatchStops, BatchAgain, AskEnable, DeleteLog,
            Tick, vars, aside

\* The run of failures stays below the threshold, or the run an enabling left standing,
\* plus the workers that may not know that the breaker is open and those that stopped
\* before they opened it: for any number of workers, attempts and faults, and whether or not jobs overlap.
THEOREM RunHolds == Spec => []RunBounded
<1>1. Init => TypeInv /\ RunInv
  <2>1. ASSUME Init
        PROVE  RunInv
    <3>1. TypeInv
      BY <2>1, InitTypes
    <3>2. /\ endpoint.present /\ endpoint.active /\ endpoint.failures = 0 /\ faults = 0
          /\ \A w \in Workers : worker[w].pc = "idle"
      BY <2>1 DEF Init, Idle
    <3> QED BY <3>1, <3>2, RunCounts, RoomIs DEF RunInv
  <2> QED BY <2>1, InitTypes
<1>2. TypeInv /\ RunInv /\ [Next]_vars => (TypeInv /\ RunInv)'
  <2> SUFFICES ASSUME TypeInv, RunInv, [Next]_vars PROVE TypeInv' /\ RunInv'
    OBVIOUS
  <2>1. TypeInv'
    BY NextTypes
  <2> QED BY <2>1, AttemptIs, QuietRuns, FailureRuns, BreakerRuns, EndRuns, OutsideRuns
          DEF Next, Outside
<1>3. TypeInv /\ RunInv => RunBounded
  BY RunCounts, RoomIs DEF RunInv, RunBounded, TypeInv, DataOK, Endpoint, Room
<1> QED BY <1>1, <1>2, <1>3, PTL DEF Spec
=============================================================================
