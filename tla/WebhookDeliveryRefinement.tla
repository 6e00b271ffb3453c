---------------------- MODULE WebhookDeliveryRefinement ----------------------
(***************************************************************************)
(* Outbound webhooks implement DeliveryPromise, for any deliveries,        *)
(* workers, slots, attempts and threshold and any number of faults, while  *)
(* no delivery is with two workers at once.                                *)
(***************************************************************************)
EXTENDS WebhookDeliveryProofs

\* What the promise needs beside RowInv and PostInv: a worker with an attempt to record
\* made its request, and whoever judged a delivery found its row.
Asked(w) == worker[w].pc \in Unrecorded => posts[worker[w].delivery][worker[w].number] > 0

Found(w) == worker[w].pc \in Judged => rows[worker[w].delivery].state # "none"

AskInv ==
  /\ \A w \in Workers : Asked(w)
  /\ Alive => \A w \in Workers : Found(w)

\* The inductive invariant behind the refinement.
LogInv == TypeInv /\ RowInv /\ PostInv /\ AskInv

-----------------------------------------------------------------------------
(* No request is forgotten and no row is lost.                             *)

\* The history of requests only grows.
LEMMA PostsGrow ==
  ASSUME TypeInv, [Next]_vars
  PROVE  \A d \in Deliveries, n \in Numbers : posts[d][n] > 0 => posts'[d][n] > 0
<1>1. ASSUME NEW w \in Workers, Acquire(w)
      PROVE  \A d \in Deliveries, n \in Numbers : posts[d][n] > 0 => posts'[d][n] > 0
  <2>1. worker[w].delivery \in Deliveries /\ worker[w].number \in Numbers
    <3>1. w \in Busy
      BY <1>1 DEF Acquire, At, Busy
    <3> QED BY <3>1, BusyDelivers
  <2> DEFINE e == worker[w].delivery
             m == worker[w].number
             k == posts[e][m] + 1
  <2>2. posts[e][m] \in Nat /\ k \in Nat /\ k > 0
    BY <2>1 DEF TypeInv, DataOK, Counters
  <2>3. posts' = [posts EXCEPT ![e][m] = k]
    BY <1>1 DEF Acquire
  <2> HIDE DEF k, e, m
  <2>4. e \in Deliveries /\ m \in Numbers
    BY <2>1 DEF e, m
  <2>5. posts'[e][m] = k
    <3>1. [posts EXCEPT ![e][m] = k][e][m] = k
      BY <2>4 DEF TypeInv, DataOK, Counters
    <3> QED BY <2>3, <3>1
  <2>6. \A d \in Deliveries, n \in Numbers : d # e \/ n # m => posts'[d][n] = posts[d][n]
    BY <2>2, <2>3, <2>4, OneCounter DEF TypeInv, DataOK
  <2> QED BY <2>2, <2>5, <2>6
<1>2. CASE UNCHANGED posts
  BY <1>2
<1>3. (\E w \in Workers : Acquire(w)) \/ UNCHANGED posts
  BY DEF Next, Attempt, Log, PassedOver, QueueFirst, BatchStops, BatchAgain, Receive, Check, Skip, Defer, Answer,
     Deliver, ResetRun, CountFailure, OpenBreaker, Close, Retry, Requeue, Ack, Crash, Tick, AskEnable, Enable,
     Disable, DeleteLog, DeleteEndpoint, vars
<1> QED BY <1>1, <1>2, <1>3

\* The log is kept from the start on or never again.
LEMMA KeptBefore ==
  ASSUME TypeInv, [Next]_vars, Alive'
  PROVE  Alive /\ ~DeleteLog
<1>1. CASE Outside \/ UNCHANGED vars
  BY <1>1 DEF Alive, Outside, Log, PassedOver, QueueFirst, BatchStops, BatchAgain, AskEnable,
     Enable, Disable, DeleteLog, DeleteEndpoint, vars, TypeInv, DataOK, Endpoint
<1>2. CASE Tick
  BY <1>2 DEF Alive, Tick, DeleteLog
<1>3. ASSUME NEW w \in Workers,
             Attempt(w) \/ Crash(w) \/ \E d \in Deliveries, n \in Numbers : Receive(w, d, n)
      PROVE  Alive
  BY <1>3, WorkerAlive
<1>4. ~DeleteLog
  BY DEF Alive, DeleteLog
<1> QED BY <1>1, <1>2, <1>3, <1>4 DEF Next, Outside

\* While it is, a row that is there stays there.
LEMMA RowsStay ==
  ASSUME TypeInv, [Next]_vars, Alive'
  PROVE  \A d \in Deliveries : rows[d].state # "none" => rows'[d].state # "none"
<1>1. CASE UNCHANGED rows
  BY <1>1
<1>2. ASSUME NEW d \in Deliveries, Log(d)
      PROVE  \A e \in Deliveries : rows[e].state # "none" => rows'[e].state # "none"
  <2>1. CASE UNCHANGED rows
    BY <2>1
  <2>2. CASE rows[d].state = "none" /\ rows' = [rows EXCEPT ![d].state = "pending"]
    BY <2>2 DEF TypeInv, DataOK, Rows
  <2> QED BY <1>2, <2>1, <2>2 DEF Log, PassedOver
<1>3. ASSUME NEW w \in Workers, Stores(w)
      PROVE  \A e \in Deliveries : rows[e].state # "none" => rows'[e].state # "none"
  <2>1. worker[w].delivery \in Deliveries
    BY <1>3, StoreStep, HeldIsBusy, BusyDelivers DEF Same
  <2>2. PICK state \in {"retrying", "delivered", "failed"}, k \in Int : Put(w, state, k)
    <3>1. worker[w] \in Attempting
      BY <1>3, StoreStep, InHand DEF Same, TypeInv
    <3> QED BY <1>3, <3>1, WebhookAssumption DEF Stores, Skip, Deliver, Close, Retry, Attempting
  <2> QED BY <2>1, <2>2 DEF Put, TypeInv, DataOK, Rows
<1>4. \/ UNCHANGED rows \/ DeleteLog
      \/ \E d \in Deliveries : Log(d)
      \/ \E w \in Workers : Stores(w)
  BY DEF Next, Attempt, Stores, QueueFirst, BatchStops, BatchAgain, Receive, Check, Acquire, Defer,
     Answer, ResetRun, CountFailure, OpenBreaker, Requeue, Ack, Crash, Tick, AskEnable, Enable, Disable,
     DeleteEndpoint, vars
<1> QED BY <1>1, <1>2, <1>3, <1>4, KeptBefore

\* Judging a delivery is finding its row.
LEMMA CheckFinds ==
  ASSUME TypeInv, NEW w \in Workers, Check(w), worker'[w].pc # "ack"
  PROVE  rows[worker[w].delivery].state # "none"
<1>1. CASE To(w, "ack")
  <2>1. worker[w].pc \in Held
    BY DEF Check, At, Held
  <2> QED BY <1>1, <2>1, ToStep
<1> QED BY <1>1 DEF Check

\* A request is there once it is made.
LEMMA AcquireAsks ==
  ASSUME TypeInv, NEW w \in Workers, Acquire(w)
  PROVE  posts'[worker[w].delivery][worker[w].number] > 0
<1>1. worker[w].delivery \in Deliveries /\ worker[w].number \in Numbers
  <2>1. w \in Busy
    BY DEF Acquire, At, Busy
  <2> QED BY <2>1, BusyDelivers
<1> DEFINE e == worker[w].delivery
           m == worker[w].number
           k == posts[e][m] + 1
<1>2. k \in Nat /\ k > 0
  BY <1>1 DEF TypeInv, DataOK, Counters
<1>3. posts' = [posts EXCEPT ![e][m] = k]
  BY DEF Acquire
<1> HIDE DEF k
<1>4. [posts EXCEPT ![e][m] = k][e][m] = k
  BY <1>1 DEF TypeInv, DataOK, Counters
<1> QED BY <1>2, <1>3, <1>4

\* The worker that takes the step still knows of its request and its row.
LEMMA ActorAsks ==
  ASSUME TypeInv, AskInv, [Next]_vars, NEW w \in Workers,
         Attempt(w) \/ Crash(w) \/ \E d \in Deliveries, n \in Numbers : Receive(w, d, n)
  PROVE  Others(w) /\ Asked(w)' /\ (Alive' => Found(w)')
<1>1. CASE (\E d \in Deliveries, n \in Numbers : Receive(w, d, n)) \/ Ack(w) \/ Crash(w)
  <2>1. Others(w) /\ worker'[w].pc \in {"start", "idle"}
    BY <1>1, Rests DEF Receive, Ack, Crash, TypeInv, HandsOK, Others
  <2> QED BY <2>1 DEF Asked, Found, Judged, Unrecorded
<1>2. CASE Check(w)
  <2>1. Same(w) /\ worker'[w].pc \in {"ack", "ready", "skip"} /\ rows' = rows
    BY <1>2, CheckStep DEF Check
  <2>2. worker'[w].pc # "ack" => rows[worker[w].delivery].state # "none"
    BY <1>2, CheckFinds
  <2> QED BY <2>1, <2>2 DEF Same, Asked, Found, Judged, Unrecorded
<1>3. CASE Stores(w)
  <2>1. Same(w) /\ worker'[w].pc \in {"ack", "reset", "requeue"}
    BY <1>3, StoreStep
  <2> QED BY <2>1 DEF Same, Asked, Found, Judged, Unrecorded
<1>4. CASE \/ Acquire(w) \/ Defer(w) \/ Answer(w) \/ ResetRun(w) \/ CountFailure(w)
           \/ OpenBreaker(w) \/ Requeue(w)
  <2>1. /\ Same(w) /\ rows' = rows
        /\ worker'[w].pc \in Judged => worker[w].pc \in Judged
        /\ worker'[w].pc \in Unrecorded => worker[w].pc \in Unrecorded \/ Acquire(w)
    BY <1>4, PassStep
  <2>2. worker[w].delivery \in Deliveries /\ worker[w].number \in Numbers
    BY <2>1, HeldIsBusy, BusyDelivers DEF Same
  <2>3. Asked(w)'
    <3>1. CASE worker[w].pc \in Unrecorded
      BY <2>1, <2>2, <3>1, PostsGrow DEF AskInv, Asked, Same
    <3>2. CASE Acquire(w)
      BY <2>1, <3>2, AcquireAsks DEF Asked, Same
    <3> QED BY <2>1, <3>1, <3>2 DEF Asked
  <2>4. Alive' => Found(w)'
    BY <2>1, KeptBefore DEF AskInv, Found, Same
  <2> QED BY <2>1, <2>3, <2>4 DEF Same
<1> QED BY <1>1, <1>2, <1>3, <1>4, AttemptIs

\* And so do the others.
LEMMA OthersAsk ==
  ASSUME TypeInv, AskInv, [Next]_vars, NEW v \in Workers,
         worker'[v].pc = worker[v].pc,
         v \in Busy => worker'[v].delivery = worker[v].delivery /\ worker'[v].number = worker[v].number
  PROVE  Asked(v)' /\ (Alive' => Found(v)')
<1>1. worker[v].pc \in Judged => v \in Busy
  BY JudgedIsHeld, HeldIsBusy
<1>2. v \in Busy => worker[v].delivery \in Deliveries /\ worker[v].number \in Numbers
  BY BusyDelivers
<1>3. Asked(v)'
  BY <1>1, <1>2, PostsGrow, JudgedIsHeld DEF AskInv, Asked
<1>4. Alive' => Found(v)'
  BY <1>1, <1>2, KeptBefore, RowsStay DEF AskInv, Found
<1> QED BY <1>3, <1>4

LEMMA NextAsks == TypeInv /\ AskInv /\ [Next]_vars => AskInv'
<1> SUFFICES ASSUME TypeInv, AskInv, [Next]_vars PROVE AskInv'
  OBVIOUS
<1>1. CASE Outside \/ UNCHANGED vars
  <2>1. worker' = worker
    BY <1>1 DEF Outside, Log, PassedOver, QueueFirst, BatchStops, BatchAgain, AskEnable, Enable,
       Disable, DeleteLog, DeleteEndpoint, vars
  <2> QED BY <2>1, OthersAsk DEF AskInv
<1>2. CASE Tick
  <2>1. \A v \in Workers :
          /\ worker'[v].pc = worker[v].pc
          /\ worker'[v].delivery = worker[v].delivery /\ worker'[v].number = worker[v].number
    BY <1>2, Aging
  <2> QED BY <2>1, OthersAsk DEF AskInv
<1>3. ASSUME NEW w \in Workers,
             Attempt(w) \/ Crash(w) \/ \E d \in Deliveries, n \in Numbers : Receive(w, d, n)
      PROVE  AskInv'
  <2>1. Others(w) /\ Asked(w)' /\ (Alive' => Found(w)')
    BY <1>3, ActorAsks
  <2>2. ASSUME NEW v \in Workers, v # w
        PROVE  Asked(v)' /\ (Alive' => Found(v)')
    BY <2>1, <2>2, OthersAsk DEF Others
  <2> QED BY <2>1, <2>2 DEF AskInv
<1> QED BY <1>1, <1>2, <1>3 DEF Next, Outside

LEMMA InitAsks == Init => AskInv
  BY DEF Init, AskInv, Asked, Found, Idle, Judged, Unrecorded

-----------------------------------------------------------------------------
(* Step by step.                                                           *)

\* A step the promise allows, or one it does not see.
Tells ==
  [Promise!Keep \/ Promise!Leave]_<<endpoint.present /\ ~deleting, rows, posts, unlogged>>

\* What a worker that judged a delivery knows of it while the log is kept: it is open, and
\* the attempt in hand is the one it is at.
LEMMA InTurn ==
  ASSUME LogInv, Alive, NEW w \in Workers, worker[w].pc \in Judged
  PROVE  /\ worker[w].delivery \in Deliveries /\ worker[w].number \in Numbers
         /\ Promise!Open(worker[w].delivery)
         /\ rows[worker[w].delivery].attempts = worker[w].attempts
         /\ worker[w].number = rows[worker[w].delivery].attempts + 1
<1>1. w \in Busy
  BY JudgedIsHeld, HeldIsBusy
<1>2. worker[w].delivery \in Deliveries /\ worker[w].number \in Numbers
  BY <1>1, BusyDelivers DEF LogInv
<1>3. /\ ~Closed(worker[w].delivery)
      /\ rows[worker[w].delivery].attempts <= worker[w].attempts
  BY DEF LogInv, RowInv, Current
<1>4. /\ worker[w].number - 1 <= rows[worker[w].delivery].attempts
      /\ worker[w].attempts = worker[w].number - 1
  BY <1>1 DEF LogInv, PostInv, HandKnown
<1>5. rows[worker[w].delivery].attempts \in Int /\ worker[w].number \in Int
  <2>1. rows \in Rows
    BY DEF LogInv, TypeInv, DataOK
  <2>2. rows[worker[w].delivery].attempts \in 0..MaxAttempts
    BY <1>2, <2>1 DEF Rows
  <2>3. rows[worker[w].delivery].attempts \in Int
    BY <2>2
  <2>4. worker[w].number \in Int
    BY <1>2, NumbersAre
  <2> QED BY <2>3, <2>4
<1>6. rows[worker[w].delivery].state \in {"pending", "retrying"}
  <2>1. rows[worker[w].delivery].state # "none"
    BY DEF LogInv, AskInv, Found
  <2> QED BY <1>2, <1>3, <2>1 DEF LogInv, TypeInv, DataOK, Rows, Closed
<1> QED BY <1>2, <1>3, <1>4, <1>5, <1>6 DEF Promise!Open

\* A request is made in turn, and again only after one that was lost.
LEMMA AcquireTells ==
  ASSUME LogInv, Alive, Alive', NEW w \in Workers, Acquire(w)
  PROVE  Tells
<1> DEFINE d == worker[w].delivery
           n == worker[w].number
<1>1. worker[w].pc = "ready" /\ worker[w].pc \in Judged
  BY DEF Acquire, At, Judged
<1>2. /\ d \in Deliveries /\ n \in Numbers /\ Promise!Open(d)
      /\ rows[d].attempts = worker[w].attempts /\ n = rows[d].attempts + 1
  BY <1>1, InTurn
<1>3. n <= MaxAttempts /\ rows[d].attempts \in Int
  BY <1>2, WebhookAssumption DEF LogInv, TypeInv, DataOK, Rows, Numbers
<1>4. posts[d][n] <= unlogged
  <2>1. ~Recorded(d, n)
    BY <1>2, <1>3 DEF Recorded, Closed, Promise!Open
  <2>2. ~UnderWay(d, n)
    <3> SUFFICES ASSUME NEW v \in Workers, worker[v].pc \in Unrecorded, worker[v].delivery = d
                 PROVE  FALSE
      BY DEF UnderWay
    <3>1. v \in Busy /\ w \in Busy
      BY <1>1, JudgedIsHeld, HeldIsBusy
    <3>2. v = w
      BY <3>1 DEF LogInv, RowInv, Apart
    <3> QED BY <1>1, <3>2 DEF Unrecorded
  <2>3. posts[d][n] \in Nat /\ unlogged \in Nat
    BY <1>2 DEF LogInv, TypeInv, DataOK, Counters
  <2> QED BY <1>2, <2>1, <2>2, <2>3 DEF LogInv, PostInv, Accounted
<1>5. posts' = [posts EXCEPT ![d][n] = @ + 1] /\ UNCHANGED <<rows, unlogged>>
  BY DEF Acquire
<1> HIDE DEF d, n
<1>6. Promise!Call(d)
  BY <1>2, <1>3, <1>4, <1>5 DEF Promise!Call, Promise!Turn
<1>7. Promise!Keep
  BY <1>2, <1>6 DEF Promise!Keep, Alive
<1> QED BY <1>7 DEF Tells

\* A row is stored of a request that was made, or ends its delivery without one.
LEMMA StoreTells ==
  ASSUME LogInv, Alive, Alive', NEW w \in Workers, Stores(w)
  PROVE  Tells
<1> DEFINE d == worker[w].delivery
           n == worker[w].number
<1>1. worker[w].pc \in Judged
  BY StoreStep DEF LogInv
<1>2. /\ d \in Deliveries /\ n \in Numbers /\ Promise!Open(d)
      /\ rows[d].attempts = worker[w].attempts /\ n = rows[d].attempts + 1
  BY <1>1, InTurn
<1>3. UNCHANGED <<posts, unlogged>>
  BY DEF Stores, Skip, Deliver, Close, Retry
<1>4. CASE Skip(w)
  <2>1. rows' = [rows EXCEPT ![d] = [state |-> "failed", attempts |-> rows[d].attempts]]
    BY <1>2, <1>4 DEF Skip, Put
  <2>2. Promise!Drop(d)
    BY <1>2, <1>3, <2>1 DEF Promise!Drop
  <2> QED BY <1>2, <2>2 DEF Tells, Promise!Keep, Alive
<1>5. CASE Deliver(w) \/ Close(w) \/ Retry(w)
  <2>1. posts[d][n] > 0
    <3>1. worker[w].pc \in Unrecorded
      BY <1>5 DEF Deliver, Close, Retry, At, Unrecorded
    <3> QED BY <3>1 DEF LogInv, AskInv, Asked
  <2>2. PICK state \in {"retrying", "delivered", "failed"} :
          /\ rows' = [rows EXCEPT ![d] = [state |-> state, attempts |-> rows[d].attempts + 1]]
          /\ state = "retrying" => Retry(w)
    BY <1>2, <1>5 DEF Deliver, Close, Retry, Put
  <2>3. state = "retrying" => n < MaxAttempts
    BY <2>2 DEF Retry, At, LogInv, TypeInv, Counted
  <2> HIDE DEF d, n
  <2>4. Promise!Note(d)
    BY <1>2, <1>3, <2>1, <2>2, <2>3 DEF Promise!Note, Promise!Turn
  <2> QED BY <1>2, <2>4 DEF Tells, Promise!Keep, Alive
<1> QED BY <1>4, <1>5 DEF Stores

LEMMA StepTells ==
  ASSUME LogInv, [Next]_vars
  PROVE  Tells
<1>1. CASE ~Alive'
  BY <1>1 DEF Tells, Promise!Leave, Alive
<1>2. CASE Alive'
  <2>1. Alive /\ ~DeleteLog
    BY <1>2, KeptBefore DEF LogInv
  <2>2. CASE UNCHANGED <<rows, posts, unlogged>>
    BY <1>2, <2>1, <2>2 DEF Tells, Alive
  <2>3. ASSUME NEW d \in Deliveries, Log(d)
        PROVE  Tells
    <3>1. CASE UNCHANGED rows
      BY <2>2, <2>3, <3>1 DEF Log, PassedOver
    <3>2. CASE rows[d].state = "none" /\ rows' = [rows EXCEPT ![d].state = "pending"]
      <4>1. Promise!Announce(d)
        BY <2>3, <3>2 DEF Log, PassedOver, Promise!Announce
      <4> QED BY <1>2, <2>1, <4>1 DEF Tells, Promise!Keep, Alive
    <3> QED BY <2>3, <3>1, <3>2 DEF Log, PassedOver
  <2>4. ASSUME NEW w \in Workers, Crash(w)
        PROVE  Tells
    <3>1. CASE worker[w].pc \in Unrecorded
      <4>1. Promise!Lose
        BY <2>4, <3>1 DEF Crash, Promise!Lose
      <4> QED BY <1>2, <2>1, <4>1 DEF Tells, Promise!Keep, Alive
    <3>2. CASE worker[w].pc \notin Unrecorded
      BY <2>2, <2>4, <3>2 DEF Crash
    <3> QED BY <3>1, <3>2
  <2>5. ASSUME NEW w \in Workers, Acquire(w) \/ Stores(w)
        PROVE  Tells
    BY <1>2, <2>1, <2>5, AcquireTells, StoreTells
  <2>6. \/ UNCHANGED <<rows, posts, unlogged>>
        \/ \E d \in Deliveries : Log(d)
        \/ \E w \in Workers : Crash(w) \/ Acquire(w) \/ Stores(w)
    BY <2>1 DEF Next, Attempt, Stores, QueueFirst, BatchStops, BatchAgain, Receive, Check, Defer,
       Answer, ResetRun, CountFailure, OpenBreaker, Requeue, Ack, Tick, AskEnable, Enable, Disable,
       DeleteEndpoint, vars
  <2> QED BY <2>2, <2>3, <2>4, <2>5, <2>6
<1> QED BY <1>1, <1>2

LEMMA InitTells == Init => Promise!Init
<1> SUFFICES ASSUME Init PROVE Promise!Init
  OBVIOUS
<1>1. (endpoint.present /\ ~deleting) = TRUE
  BY DEF Init
<1> QED BY <1>1 DEF Init, Promise!Init, NoRow, Numbers

\* The delivery log keeps what DeliveryPromise promises of it: for any deliveries, workers,
\* slots, attempts, threshold and faults, while no delivery is with two workers at once.
THEOREM LogKeepsPromise ==
  ASSUME Overlap = FALSE
  PROVE  Spec => LogTellsRequests
<1>1. Init => LogInv
  BY InitTypes, InitRows, InitPosts, InitAsks DEF LogInv
<1>2. LogInv /\ [Next]_vars => LogInv'
  BY NextTypes, NextRows, NextPosts, NextAsks DEF LogInv
<1>3. LogInv /\ [Next]_vars =>
        [Promise!Keep \/ Promise!Leave]_<<endpoint.present /\ ~deleting, rows, posts, unlogged>>
  BY StepTells DEF Tells
<1> QED BY <1>1, <1>2, <1>3, InitTells, PTL DEF Spec, LogTellsRequests, Promise!Spec
=============================================================================
