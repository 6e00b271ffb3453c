--------------------------- MODULE DeliveryPromise ---------------------------
(***************************************************************************)
(* What the delivery log promises of the requests a receiver sees, however *)
(* jobs are queued, repeated and taken by workers that stop                *)
(* (domains/integrations/outbound/delivery.py, the docstrings of the       *)
(* module and of run_attempt): a row is written before the first attempt   *)
(* and updated after each one, attempts are made in turn while the         *)
(* delivery is open, and one that is recorded is not made again.           *)
(***************************************************************************)
EXTENDS Naturals

CONSTANTS
  Deliveries,
  MaxAttempts

VARIABLES
  kept,  \* the log is kept: the endpoint is neither deleted nor being deleted
  log,   \* what the log says of each delivery: its state and its attempts
  made,  \* the requests made for each attempt of each delivery
  lost   \* workers that stopped after a request, before they recorded it

Init ==
  /\ kept = TRUE
  /\ log = [d \in Deliveries |-> [state |-> "none", attempts |-> 0]]
  /\ made = [d \in Deliveries |-> [n \in 1..MaxAttempts |-> 0]]
  /\ lost = 0

Open(d) == log[d].state \in {"pending", "retrying"}

\* The attempt a delivery is at.
Turn(d) == log[d].attempts + 1

Announce(d) ==
  /\ log[d].state = "none"
  /\ log' = [log EXCEPT ![d].state = "pending"]
  /\ UNCHANGED <<made, lost>>

\* A request is made again only after one that was lost.
Call(d) ==
  /\ Open(d) /\ Turn(d) <= MaxAttempts
  /\ made[d][Turn(d)] <= lost
  /\ made' = [made EXCEPT ![d][Turn(d)] = @ + 1]
  /\ UNCHANGED <<log, lost>>

\* What is recorded was made, and leaves the delivery open only for an attempt more.
Note(d) ==
  /\ Open(d) /\ made[d][Turn(d)] > 0
  /\ \E state \in {"retrying", "delivered", "failed"} :
       /\ state = "retrying" => Turn(d) < MaxAttempts
       /\ log' = [log EXCEPT ![d] = [state |-> state, attempts |-> Turn(d)]]
  /\ UNCHANGED <<made, lost>>

\* The delivery ends without a request.
Drop(d) ==
  /\ Open(d)
  /\ log' = [log EXCEPT ![d] = [state |-> "failed", attempts |-> log[d].attempts]]
  /\ UNCHANGED <<made, lost>>

Lose == lost' = lost + 1 /\ UNCHANGED <<log, made>>

Keep ==
  /\ kept' = kept
  /\ Lose \/ \E d \in Deliveries : Announce(d) \/ Call(d) \/ Note(d) \/ Drop(d)

\* A log that is not kept promises nothing, and is not kept again.
Leave == kept' = FALSE

Spec == Init /\ [][Keep \/ Leave]_<<kept, log, made, lost>>
=============================================================================
