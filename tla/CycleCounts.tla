------------------------------ MODULE CycleCounts ------------------------------
(***************************************************************************)
(* A team's cycle counters: the close that carries unfinished issues into  *)
(* the next cycle (domains/issues/cycle_close.py, common/cycle_rollover.py), *)
(* the consumer of the issues stream that moves the counters               *)
(* (domains/planning/consumers/rollup.py), and the recount that heals them *)
(* (scripts/recount_planning_rollups.py).                                  *)
(*                                                                         *)
(* The stream hands over one issue's records in order, and different       *)
(* issues' side by side.  Estimates, and the days of a snapshot, are left  *)
(* out: points move with the counts they are weighed for.                  *)
(***************************************************************************)
EXTENDS Integers, Sequences, FiniteSets, FiniteSetsExt, Functions

CONSTANTS
  Issues,  \* issue ids
  Cycles,  \* the team's cycles
  Ended,   \* the one whose dates are over
  Next_,   \* the one its unfinished issues roll into
  EDITS,   \* bound: changes people make to issues
  FAULTS,  \* bound: consumers and sweeps that stop half way
  RECOUNTS \* bound: recounts of a cycle

ASSUME CycleAssumption ==
  /\ IsFiniteSet(Issues)
  /\ IsFiniteSet(Cycles) /\ Cycles \subseteq Nat \ {0}
  /\ Ended \in Cycles /\ Next_ \in Cycles /\ Ended # Next_
  /\ EDITS \in Nat /\ FAULTS \in Nat /\ RECOUNTS \in Nat

NoCycle == 0

Row == [cycle : Cycles \cup {NoCycle}, done : BOOLEAN, trashed : BOOLEAN,
        marker : Cycles \cup {NoCycle}]

\* COUNT_BUCKETS, as far as a close tells them apart, and the carry-over counters.
Buckets == {"open", "done"}

Counters == Buckets \cup {"carried_out", "carried_in"}

VARIABLES
  issue,    \* the issues table
  stream,   \* each issue's records not yet done with, oldest first
  claimed,  \* whether the oldest one's claim is in the idempotency table
  pc,       \* what the consumer does with it
  todo,     \* the cycles whose counters it has still to move
  after,    \* the rows it got back from the moves it made, not yet a snapshot
  cycle,    \* each cycle's counters and rollup revision
  ids,      \* the issues each cycle's row names as carried out and in
  snapshot, \* the day's snapshot of each cycle
  closing,  \* the issues the sweep read and has still to carry
  recount,  \* what the recount has in hand
  drifted,  \* history: the counters a fault left wrong, until a recount
  edits, faults, recounts

consumer == <<claimed, pc, todo, after>>
vars == <<issue, stream, consumer, cycle, ids, snapshot, closing, recount, drifted, edits, faults, recounts>>

\* What one row counts for in a cycle: nothing in the trash or in another cycle.
Share(row, c, k) ==
  IF ~row.trashed /\ row.cycle = c /\ k = (IF row.done THEN "done" ELSE "open") THEN 1 ELSE 0

\* A close made this move: the marker names the cycle the issue left.
Carried(r) ==
  /\ ~r.old.trashed /\ ~r.new.trashed
  /\ r.old.cycle # NoCycle /\ r.new.cycle # NoCycle /\ r.old.cycle # r.new.cycle
  /\ r.new.marker = r.old.cycle

\* What one record moves a cycle's counter by.
Delta(r, c, k) ==
  CASE k = "carried_out" -> IF Carried(r) /\ r.old.cycle = c THEN 1 ELSE 0
    [] k = "carried_in"  -> IF Carried(r) /\ r.new.cycle = c THEN 1 ELSE 0
    [] OTHER -> Share(r.new, c, k) - Share(r.old, c, k)

Moves(r) == {c \in Cycles : \E k \in Counters : Delta(r, c, k) # 0}

\* What a set of rows adds up to.
Tally(rows, c, k) == Cardinality({i \in Issues : Share(rows[i], c, k) = 1})

TypeOK ==
  /\ issue \in [Issues -> Row]
  /\ \A i \in Issues : \A n \in DOMAIN stream[i] : stream[i][n] \in [old : Row, new : Row]
  /\ claimed \in [Issues -> BOOLEAN]
  /\ \A i \in Issues : claimed[i] \/ pc[i] # "idle" => stream[i] # <<>>
  /\ pc \in [Issues -> {"idle", "ids", "claim", "move", "snapshot", "ack"}]
  /\ todo \in [Issues -> SUBSET Cycles]
  /\ cycle \in [Cycles -> [counts : [Counters -> Int], rev : Nat]]
  /\ \A i \in Issues : \A c \in DOMAIN after[i] :
       c \in Cycles /\ after[i][c] \in [counts : [Counters -> Int], rev : Nat]
  /\ ids \in [Cycles -> [out : SUBSET Issues, in : SUBSET Issues]]
  /\ snapshot \in [Cycles -> [counts : [Counters -> Int], rev : Nat]]
  /\ closing \subseteq Issues
  /\ recount.pc \in {"idle", "count", "write", "snapshot"}
  /\ drifted \subseteq Cycles \X Counters
  /\ edits \in 0..EDITS /\ faults \in 0..FAULTS /\ recounts \in 0..RECOUNTS

NoCounts == [k \in Counters |-> 0]

\* Every issue is in the cycle that ended, unfinished.
Init ==
  /\ issue = [i \in Issues |-> [cycle |-> Ended, done |-> FALSE, trashed |-> FALSE, marker |-> NoCycle]]
  /\ stream = [i \in Issues |-> <<>>]
  /\ claimed = [i \in Issues |-> FALSE]
  /\ pc = [i \in Issues |-> "idle"]
  /\ todo = [i \in Issues |-> {}]
  /\ after = [i \in Issues |-> <<>>]
  /\ cycle = [c \in Cycles |->
       [counts |-> [k \in Counters |-> IF k \in Buckets THEN Tally(issue, c, k) ELSE 0], rev |-> 0]]
  /\ ids = [c \in Cycles |-> [out |-> {}, in |-> {}]]
  /\ snapshot = [c \in Cycles |-> [counts |-> NoCounts, rev |-> 0]]
  /\ closing = {}
  /\ recount = [pc |-> "idle"]
  /\ drifted = {}
  /\ edits = 0 /\ faults = 0 /\ recounts = 0

\* The records of an issue that have still to move a cycle: the one in hand only while
\* no claim on it is taken, or it has not come to that cycle yet.
Unapplied(i, c) ==
  {n \in DOMAIN stream[i] : n = 1 /\ claimed[i] => c \in todo[i]}

Owing(c) == \E i \in Issues : \E n \in Unapplied(i, c) : c \in Moves(stream[i][n])

\* Those of them that will move one of its counters by d, which is 1 or -1.
Owes(c, k, d) ==
  UNION {{i} \X {n \in Unapplied(i, c) : Delta(stream[i][n], c, k) = d} : i \in Issues}

\* What they will move it by together.
Owed(c, k) == Cardinality(Owes(c, k, 1)) - Cardinality(Owes(c, k, -1))

Fault == faults < FAULTS /\ faults' = faults + 1

-----------------------------------------------------------------------------
(* The issues table.                                                       *)

\* A row is written and its change is on the stream.
Write(i, row) ==
  /\ row # issue[i]
  /\ issue' = [issue EXCEPT ![i] = row]
  /\ stream' = [stream EXCEPT ![i] = Append(@, [old |-> issue[i], new |-> row])]

\* A patch moves or finishes an issue; the marker of an earlier carry stays on the row.
Edit(i) ==
  /\ edits < EDITS /\ edits' = edits + 1
  /\ ~issue[i].trashed
  /\ \E c \in Cycles \cup {NoCycle}, d \in BOOLEAN :
       Write(i, [issue[i] EXCEPT !.cycle = c, !.done = d])
  /\ UNCHANGED <<consumer, cycle, ids, snapshot, closing, recount, drifted, faults, recounts>>

\* Into the trash, or back out of it.
Trash(i) ==
  /\ edits < EDITS /\ edits' = edits + 1
  /\ Write(i, [issue[i] EXCEPT !.trashed = ~@])
  /\ UNCHANGED <<consumer, cycle, ids, snapshot, closing, recount, drifted, faults, recounts>>

-----------------------------------------------------------------------------
(* The close: cycle_close.sweep and carry_unfinished, every hour.          *)

\* The sweep reads the ended cycle's unfinished issues from an index, which may not
\* show all of them yet.
CloseRead ==
  /\ closing = {}
  /\ closing' \in SUBSET {i \in Issues : Share(issue[i], Ended, "open") = 1}
  /\ closing' # {}
  /\ UNCHANGED <<issue, stream, consumer, cycle, ids, snapshot, recount, drifted, edits, faults, recounts>>

\* One issue after the other is moved and stamped, if it is still in that cycle.
Carry ==
  /\ \E i \in closing :
       /\ \/ /\ issue[i].cycle = Ended /\ ~issue[i].trashed
             /\ Write(i, [issue[i] EXCEPT !.cycle = Next_, !.marker = Ended])
          \/ /\ issue[i].cycle # Ended \/ issue[i].trashed
             /\ UNCHANGED <<issue, stream>>
       /\ closing' = closing \ {i}
  /\ UNCHANGED <<consumer, cycle, ids, snapshot, recount, drifted, edits, faults, recounts>>

CloseStops ==
  /\ Fault /\ closing # {}
  /\ closing' = {}
  /\ UNCHANGED <<issue, stream, consumer, cycle, ids, snapshot, recount, drifted, edits, recounts>>

-----------------------------------------------------------------------------
(* The rollup consumer, one record of an issue at a time: handle_record.   *)

At(i, step) == pc[i] = step /\ UNCHANGED <<issue, closing, edits, recounts>>

To(i, step) == pc' = [pc EXCEPT ![i] = step]

\* A record that moves no cycle is passed over; a carry's ids come before its claim.
Take(i) ==
  /\ At(i, "idle") /\ stream[i] # <<>>
  /\ LET r == Head(stream[i])
     IN  \/ /\ Moves(r) = {}
            /\ stream' = [stream EXCEPT ![i] = Tail(@)]
            /\ UNCHANGED pc
         \/ /\ Moves(r) # {}
            /\ To(i, IF Carried(r) THEN "ids" ELSE "claim")
            /\ UNCHANGED stream
  /\ UNCHANGED <<claimed, todo, after, cycle, ids, snapshot, recount, drifted, faults>>

\* Both rows name the issue; a repeated record adds nothing.
RecordIds(i) ==
  /\ At(i, "ids")
  /\ LET r == Head(stream[i])
     IN  ids' = [ids EXCEPT ![r.old.cycle].out = @ \cup {i}, ![r.new.cycle].in = @ \cup {i}]
  /\ To(i, "claim")
  /\ UNCHANGED <<stream, claimed, todo, after, cycle, snapshot, recount, drifted, faults>>

\* Variant: the claim not looked at.
ClaimAnyway(i) ==
  /\ At(i, "claim")
  /\ claimed' = [claimed EXCEPT ![i] = TRUE]
  /\ todo' = [todo EXCEPT ![i] = Moves(Head(stream[i]))]
  /\ To(i, "move")
  /\ UNCHANGED <<stream, after, cycle, ids, snapshot, recount, drifted, faults>>

\* The record's claim is taken, or was taken before and the record is done with.
Claim(i) ==
  /\ At(i, "claim")
  /\ claimed' = [claimed EXCEPT ![i] = TRUE]
  /\ todo' = [todo EXCEPT ![i] = IF claimed[i] THEN {} ELSE Moves(Head(stream[i]))]
  /\ To(i, IF claimed[i] THEN "ack" ELSE "move")
  /\ UNCHANGED <<stream, after, cycle, ids, snapshot, recount, drifted, faults>>

\* One cycle after the other moves, and answers with the row after its move.
Move(i) ==
  /\ At(i, "move")
  /\ LET r == Head(stream[i])
         c == Min(todo[i])
         moved == [counts |-> [k \in Counters |-> cycle[c].counts[k] + Delta(r, c, k)],
                   rev    |-> cycle[c].rev + 1]
     IN  /\ cycle' = [cycle EXCEPT ![c] = moved]
         /\ after' = [after EXCEPT ![i] = [x \in DOMAIN @ \cup {c} |-> IF x = c THEN moved ELSE @[x]]]
         /\ todo' = [todo EXCEPT ![i] = @ \ {c}]
         /\ To(i, IF todo[i] = {c} THEN "snapshot" ELSE "move")
  /\ UNCHANGED <<stream, claimed, ids, snapshot, recount, drifted, faults>>

\* The counters of these cycles that the record in hand moves.
Moved(i, cycles) == {p \in cycles \X Counters : Delta(Head(stream[i]), p[1], p[2]) # 0}

\* A recount of one of these cycles, counted and not yet written, is right no more.
Unsettled(cycles) ==
  IF recount.pc = "write" /\ recount.cycle \in cycles
  THEN [recount EXCEPT !.settled = FALSE] ELSE recount

\* A move raises: the claim is given back and the record comes again, whole.
MoveFails(i) ==
  /\ Fault
  /\ At(i, "move")
  /\ claimed' = [claimed EXCEPT ![i] = FALSE]
  /\ drifted' = drifted \cup Moved(i, DOMAIN after[i])
  /\ recount' = Unsettled(DOMAIN after[i])
  /\ after' = [after EXCEPT ![i] = <<>>]
  /\ todo' = [todo EXCEPT ![i] = {}]
  /\ To(i, "idle")
  /\ UNCHANGED <<stream, cycle, ids, snapshot>>

\* Variant: the last to write wins.
LaterAnyway(old, new) == TRUE

\* A snapshot lands only over one of an earlier revision.
Later(old, new) == old.rev < new.rev

Snapshot(i) ==
  /\ At(i, "snapshot")
  /\ LET c == Min(DOMAIN after[i])
     IN  /\ snapshot' = IF Later(snapshot[c], after[i][c])
                        THEN [snapshot EXCEPT ![c] = after[i][c]] ELSE snapshot
         /\ after' = [after EXCEPT ![i] = Restrict(@, DOMAIN @ \ {c})]
         /\ To(i, IF DOMAIN after[i] = {c} THEN "ack" ELSE "snapshot")
  /\ UNCHANGED <<stream, claimed, todo, cycle, ids, recount, drifted, faults>>

\* Variant: a claim on the issue, which its next record finds taken.
AckKeepsClaim(i) ==
  /\ At(i, "ack")
  /\ stream' = [stream EXCEPT ![i] = Tail(@)]
  /\ To(i, "idle")
  /\ UNCHANGED <<claimed, todo, after, cycle, ids, snapshot, recount, drifted, faults>>

\* The stream moves past the record; the next one has a claim of its own to take.
Ack(i) ==
  /\ At(i, "ack")
  /\ stream' = [stream EXCEPT ![i] = Tail(@)]
  /\ claimed' = [claimed EXCEPT ![i] = FALSE]
  /\ To(i, "idle")
  /\ UNCHANGED <<todo, after, cycle, ids, snapshot, recount, drifted, faults>>

\* The consumer stops: the record comes again, and finds its claim if it was taken.
Crash(i) ==
  /\ Fault
  /\ pc[i] # "idle" /\ At(i, pc[i])
  /\ drifted' = drifted \cup Moved(i, todo[i])
  /\ recount' = Unsettled(todo[i])
  /\ after' = [after EXCEPT ![i] = <<>>]
  /\ todo' = [todo EXCEPT ![i] = {}]
  /\ To(i, "idle")
  /\ UNCHANGED <<stream, claimed, cycle, ids, snapshot>>

-----------------------------------------------------------------------------
(* The recount of one cycle: recount_cycle.                                *)

\* The row is read first, then the issues.
RecountRead(c) ==
  /\ recounts < RECOUNTS /\ recounts' = recounts + 1
  /\ recount.pc = "idle"
  /\ recount' = [pc |-> "count", cycle |-> c, rev |-> cycle[c].rev, held |-> cycle[c].counts]
  /\ UNCHANGED <<issue, stream, consumer, cycle, ids, snapshot, closing, drifted, edits, faults>>

\* The issues are counted in the index, which may be behind.  What it adds up to is
\* right only if it is not, and no move is still owed.
RecountCount ==
  /\ recount.pc = "count"
  /\ \E behind \in SUBSET Issues :
       LET c == recount.cycle
           shown == [i \in Issues |-> IF i \in behind THEN [issue[i] EXCEPT !.cycle = NoCycle] ELSE issue[i]]
           counts == [k \in Counters |-> IF k \in Buckets THEN Tally(shown, c, k) ELSE recount.held[k]]
       IN  recount' = IF counts = recount.held THEN [pc |-> "idle"]
                      ELSE [pc |-> "write", cycle |-> c, rev |-> recount.rev, counts |-> counts,
                            settled |-> behind = {} /\ ~Owing(c)]
  /\ UNCHANGED <<issue, stream, consumer, cycle, ids, snapshot, closing, drifted, edits, faults, recounts>>

\* Variant: written whatever moved since.
HeldAnyway(c, rev) == TRUE

\* The revision is still the one the row was read at.
Held(c, rev) == cycle[c].rev = rev

\* Variant: the row's counters replaced by what was counted.
HealedWhole(c, counted) == [k \in Counters |-> IF k \in Buckets THEN counted[k] ELSE 0]

\* The carry counters are kept: no issue shows them any more.
Healed(c, counted) == [k \in Counters |-> IF k \in Buckets THEN counted[k] ELSE cycle[c].counts[k]]

\* A snapshot follows, but a cycle that is over keeps its last.
RecountWrite ==
  /\ recount.pc = "write"
  /\ LET c == recount.cycle
         healed == [counts |-> Healed(c, recount.counts), rev |-> recount.rev + 1]
     IN  \/ /\ Held(c, recount.rev)
            /\ cycle' = [cycle EXCEPT ![c] = healed]
            /\ drifted' = IF recount.settled THEN drifted \ ({c} \X Buckets)
                                               ELSE drifted \cup ({c} \X Buckets)
            /\ recount' = IF c = Ended THEN [pc |-> "idle"]
                          ELSE [pc |-> "snapshot", cycle |-> c, after |-> healed]
         \/ /\ ~Held(c, recount.rev)
            /\ recount' = [pc |-> "idle"]
            /\ UNCHANGED <<cycle, drifted>>
  /\ UNCHANGED <<issue, stream, consumer, ids, snapshot, closing, edits, faults, recounts>>

RecountSnapshot ==
  /\ recount.pc = "snapshot"
  /\ LET c == recount.cycle
     IN  snapshot' = IF Later(snapshot[c], recount.after)
                     THEN [snapshot EXCEPT ![c] = recount.after] ELSE snapshot
  /\ recount' = [pc |-> "idle"]
  /\ UNCHANGED <<issue, stream, consumer, cycle, ids, closing, drifted, edits, faults, recounts>>

Consume(i) ==
  \/ Take(i) \/ RecordIds(i) \/ Claim(i) \/ Move(i) \/ Snapshot(i) \/ Ack(i)

Recount == RecountCount \/ RecountWrite \/ RecountSnapshot

Next ==
  \/ \E i \in Issues : Edit(i) \/ Trash(i) \/ Consume(i) \/ MoveFails(i) \/ Crash(i)
  \/ CloseRead \/ Carry \/ CloseStops
  \/ \E c \in Cycles : RecountRead(c)
  \/ Recount

Spec == Init /\ [][Next]_vars

-----------------------------------------------------------------------------
(* Properties.                                                             *)

\* The counters of a cycle, with what the stream has still to move, add up to the
\* issues in it, whatever comes twice or in what order, unless a fault left one wrong:
\* a consumer that stopped between a record's claim and its last move, a move that
\* failed after another, or a recount of an index or a stream that was behind.  A
\* recount of neither puts it right.
ExactUnlessDrifted ==
  \A c \in Cycles, k \in Buckets :
    <<c, k>> \notin drifted => cycle[c].counts[k] + Owed(c, k) = Tally(issue, c, k)

\* Every issue a cycle names as carried out or in is in the carry-over it counts,
\* which no recount rebuilds.
CarriedAreCounted ==
  \A c \in Cycles :
    /\ <<c, "carried_out">> \notin drifted =>
         Cardinality(ids[c].out) <= cycle[c].counts["carried_out"] + Owed(c, "carried_out")
    /\ <<c, "carried_in">> \notin drifted =>
         Cardinality(ids[c].in) <= cycle[c].counts["carried_in"] + Owed(c, "carried_in")

\* When nothing stopped half way, the day's snapshot of a cycle is the cycle's counters
\* as soon as none is still to be written, in whichever order two moves wrote theirs.
SnapshotCurrent ==
  \A c \in Cycles :
    /\ faults = 0 /\ cycle[c].rev > 0
    /\ \A i \in Issues : c \notin DOMAIN after[i]
    /\ recounts = 0 \/ (c # Ended /\ recount.pc # "snapshot")
    => snapshot[c] = cycle[c]
=============================================================================
