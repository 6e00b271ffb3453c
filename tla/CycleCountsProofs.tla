--------------------------- MODULE CycleCountsProofs ---------------------------
(***************************************************************************)
(* The counters of a cycle, with the moves the stream still owes it, add   *)
(* up to the issues in it, and its carry-over to the issues it names, but  *)
(* for what a fault left wrong; the day's snapshot, which two consumers    *)
(* and a recount write in any order, ends up as the cycle's counters; and  *)
(* a close does not undo a planner.  For any issues, cycles, edits, faults *)
(* and recounts.                                                           *)
(***************************************************************************)
EXTENDS CycleCounts, FiniteSetTheorems, SequenceTheorems, WellFoundedInduction, TLAPS

\* A set of cycles that is not empty has the least element Min chooses.
LEMMA MinIsIn ==
  ASSUME NEW S \in SUBSET Cycles, S # {}
  PROVE  Min(S) \in S
<1>1. IsWellFoundedOn({p \in Nat \X Nat : p[1] < p[2]}, Nat)
  BY NatLessThanWellFounded DEF OpToRel
<1>2. S \in SUBSET Nat
  BY CycleAssumption
<1>3. PICK x \in S : \A y \in S : <<y, x>> \notin {p \in Nat \X Nat : p[1] < p[2]}
  BY <1>1, <1>2, WFMin
<1>4. ASSUME NEW y \in S, y < x
      PROVE  FALSE
  <2>1. <<y, x>> \in Nat \X Nat /\ <<y, x>>[1] < <<y, x>>[2]
    BY <1>2, <1>4
  <2> QED BY <1>3, <2>1
<1>5. \A y \in S : x <= y
  BY <1>2, <1>4
<1> QED BY <1>5 DEF Min

-----------------------------------------------------------------------------
(* The invariant.                                                          *)

Record == [old : Row, new : Row]

CycleRow == [counts : [Counters -> Int], rev : Nat]

TablesOK ==
  /\ issue \in [Issues -> Row]
  /\ stream \in [Issues -> Seq(Record)]
  /\ cycle \in [Cycles -> CycleRow]
  /\ ids \in [Cycles -> [out : SUBSET Issues, in : SUBSET Issues]]
  /\ snapshot \in [Cycles -> CycleRow]
  /\ closing \subseteq Issues
  /\ drifted \subseteq Cycles \X Counters

BoundsOK == edits \in 0..EDITS /\ faults \in 0..FAULTS /\ recounts \in 0..RECOUNTS

\* A record in hand, or whose claim is taken, is one that moves a cycle.
HandOK(i) ==
  /\ DOMAIN after[i] \subseteq Cycles
  /\ \A c \in DOMAIN after[i] : after[i][c] \in CycleRow
  /\ claimed[i] \/ pc[i] # "idle" => stream[i] # <<>> /\ Moves(Head(stream[i])) # {}
  /\ pc[i] = "ids" => Carried(Head(stream[i]))
  /\ pc[i] = "move" => todo[i] # {}
  /\ pc[i] = "snapshot" => DOMAIN after[i] # {}

ConsumerOK ==
  /\ claimed \in [Issues -> BOOLEAN]
  /\ pc \in [Issues -> {"idle", "ids", "claim", "move", "snapshot", "ack"}]
  /\ todo \in [Issues -> SUBSET Cycles]
  /\ after = [i \in Issues |-> after[i]]
  /\ \A i \in Issues : HandOK(i)

Counting == [pc : {"count"}, cycle : Cycles, rev : Nat, held : [Counters -> Int]]

Writing == [pc : {"write"}, cycle : Cycles, rev : Nat, counts : [Counters -> Int], settled : BOOLEAN]

Showing == [pc : {"snapshot"}, cycle : Cycles, after : CycleRow]

RecountOK ==
  /\ recount \in {[pc |-> "idle"]} \cup Counting \cup Writing \cup Showing
  /\ recount.pc # "idle" => recounts > 0

CyclesInv == TablesOK /\ BoundsOK /\ ConsumerOK /\ RecountOK

\* A row somebody wrote once of a cycle: an earlier one, or the cycle's.
InSync(row, c) == row.rev <= cycle[c].rev /\ (row.rev = cycle[c].rev => row = cycle[c])

\* Somebody has the cycle's row in hand and is to make it the snapshot.
Pending(c) ==
  \/ \E i \in Issues : c \in DOMAIN after[i] /\ after[i][c] = cycle[c]
  \/ recount.pc = "snapshot" /\ recount.cycle = c /\ recount.after = cycle[c]

\* While nothing stopped half way: whatever is in hand is in sync, and a snapshot that
\* is behind will be caught up with, but for the last recount of the cycle that ended.
SnapInv ==
  faults = 0 =>
    \A c \in Cycles :
      /\ snapshot[c].rev <= cycle[c].rev
      /\ cycle[c].rev > 0 => InSync(snapshot[c], c)
      /\ \A i \in Issues : c \in DOMAIN after[i] => InSync(after[i][c], c)
      /\ recount.pc = "snapshot" /\ recount.cycle = c => InSync(recount.after, c)
      /\ snapshot[c].rev < cycle[c].rev => Pending(c) \/ (c = Ended /\ recounts > 0)

LEMMA InvTypes == CyclesInv => TypeOK
<1> SUFFICES ASSUME CyclesInv PROVE TypeOK
  OBVIOUS
<1>1. \A i \in Issues : \A n \in DOMAIN stream[i] : stream[i][n] \in Record
  BY ElementOfSeq, LenProperties DEF CyclesInv, TablesOK
<1>2. recount.pc \in {"idle", "count", "write", "snapshot"}
  BY DEF CyclesInv, RecountOK, Counting, Writing, Showing
<1>3. \A i \in Issues : claimed[i] \/ pc[i] # "idle" => stream[i] # <<>>
  BY DEF CyclesInv, ConsumerOK, HandOK
<1>4. \A i \in Issues : \A c \in DOMAIN after[i] : c \in Cycles /\ after[i][c] \in CycleRow
  BY DEF CyclesInv, ConsumerOK, HandOK
<1> QED BY <1>1, <1>2, <1>3, <1>4 DEF CyclesInv, TablesOK, BoundsOK, ConsumerOK, Record, CycleRow, TypeOK

\* What a record moves a counter by is a number, and what it moves is a set of cycles.
LEMMA DeltaType ==
  ASSUME NEW r, NEW c, NEW k
  PROVE  Delta(r, c, k) \in Int /\ Moves(r) \subseteq Cycles
<1>1. Share(r.new, c, k) \in Int /\ Share(r.old, c, k) \in Int
  BY DEF Share
<1> QED BY <1>1 DEF Delta, Moves

\* A count of issues is a number.
LEMMA TallyType ==
  ASSUME NEW rows, NEW c, NEW k
  PROVE  Tally(rows, c, k) \in Nat
<1>1. IsFiniteSet({i \in Issues : Share(rows[i], c, k) = 1})
  BY CycleAssumption, FS_Subset
<1> QED BY <1>1, FS_CardinalityType DEF Tally

\* One consumer's hands change, and the stream of its issue.
LEMMA OneHand ==
  ASSUME ConsumerOK, NEW i \in Issues, HandOK(i)',
         \A j \in Issues \ {i} : /\ stream'[j] = stream[j] /\ claimed'[j] = claimed[j]
                                 /\ pc'[j] = pc[j] /\ todo'[j] = todo[j] /\ after'[j] = after[j],
         claimed' \in [Issues -> BOOLEAN],
         pc' \in [Issues -> {"idle", "ids", "claim", "move", "snapshot", "ack"}],
         todo' \in [Issues -> SUBSET Cycles], after' = [j \in Issues |-> after'[j]]
  PROVE  ConsumerOK'
<1>1. ASSUME NEW j \in Issues, j # i
      PROVE  HandOK(j)'
  BY <1>1 DEF ConsumerOK, HandOK
<1> QED BY <1>1 DEF ConsumerOK

\* A record is written behind those there are: the head stays.
LEMMA WriteKeeps ==
  ASSUME CyclesInv, NEW i \in Issues, NEW row \in Row, Write(i, row),
         UNCHANGED <<consumer, cycle, ids, snapshot, recount, drifted, faults, recounts>>,
         closing' \subseteq Issues, edits' \in 0..EDITS
  PROVE  CyclesInv'
<1> DEFINE r == [old |-> issue[i], new |-> row]
<1>1. r \in Record /\ stream[i] \in Seq(Record)
  BY DEF CyclesInv, TablesOK, Record
<1>2. issue' = [issue EXCEPT ![i] = row] /\ stream' = [stream EXCEPT ![i] = Append(stream[i], r)]
  BY DEF Write
<1> HIDE DEF r
<1>3. Append(stream[i], r) \in Seq(Record) /\ Append(stream[i], r) # <<>>
      /\ (stream[i] # <<>> => Head(Append(stream[i], r)) = Head(stream[i]))
  BY <1>1, AppendProperties
<1>4. stream'[i] = Append(stream[i], r) /\ \A j \in Issues \ {i} : stream'[j] = stream[j]
  BY <1>2 DEF CyclesInv, TablesOK
<1>5. TablesOK' /\ BoundsOK' /\ RecountOK'
  BY <1>2, <1>3 DEF CyclesInv, TablesOK, BoundsOK, RecountOK
<1>6. HandOK(i)
  BY DEF CyclesInv, ConsumerOK
<1>7. HandOK(i)'
  BY <1>3, <1>4, <1>6 DEF HandOK, consumer
<1>8. ConsumerOK'
  BY <1>4, <1>7, OneHand DEF CyclesInv, ConsumerOK, consumer
<1> QED BY <1>5, <1>8 DEF CyclesInv
-----------------------------------------------------------------------------
(* The issues and the close.                                               *)

\* The snapshots stand as they did where no row in hand changes.
LEMMA SnapStays ==
  ASSUME CyclesInv, SnapInv, UNCHANGED <<cycle, after, snapshot>>, faults' = faults,
         recounts' \in Nat, recounts' >= recounts,
         recount' = recount \/ (recount.pc # "snapshot" /\ recount'.pc # "snapshot")
  PROVE  SnapInv'
<1>1. recounts > 0 => recounts' > 0
  BY CycleAssumption DEF CyclesInv, BoundsOK
<1> QED BY <1>1 DEF SnapInv, InSync, Pending

\* An issue is edited, trashed or carried.
LEMMA IssueKeeps ==
  ASSUME CyclesInv, NEW i \in Issues, Edit(i) \/ Trash(i)
  PROVE  CyclesInv'
<1>1. issue[i] \in Row /\ edits' \in 0..EDITS
  <2>1. edits \in 0..EDITS /\ EDITS \in Nat /\ edits < EDITS /\ edits' = edits + 1
    BY CycleAssumption DEF CyclesInv, BoundsOK, Edit, Trash
  <2> QED BY <2>1 DEF CyclesInv, TablesOK
<1>2. UNCHANGED <<consumer, cycle, ids, snapshot, recount, drifted, faults, recounts>>
      /\ closing' \subseteq Issues
  BY DEF CyclesInv, TablesOK, Edit, Trash
<1>3. CASE Edit(i)
  <2>1. PICK c \in Cycles \cup {NoCycle}, d \in BOOLEAN :
          Write(i, [issue[i] EXCEPT !.cycle = c, !.done = d])
    BY <1>3 DEF Edit
  <2>2. [issue[i] EXCEPT !.cycle = c, !.done = d] \in Row
    BY <1>1 DEF Row
  <2> QED BY <1>1, <1>2, <2>1, <2>2, WriteKeeps
<1>4. CASE Trash(i)
  <2>1. [issue[i] EXCEPT !.trashed = ~issue[i].trashed] \in Row
    BY <1>1 DEF Row
  <2> QED BY <1>1, <1>2, <1>4, <2>1, WriteKeeps DEF Trash
<1> QED BY <1>3, <1>4

LEMMA CloseKeeps ==
  ASSUME CyclesInv, CloseRead \/ CloseStops \/ Carry
  PROVE  CyclesInv'
<1>1. CASE CloseRead \/ CloseStops
  <2>1. UNCHANGED <<issue, stream, consumer, cycle, ids, snapshot, recount, drifted, edits, recounts>>
        /\ closing' \subseteq Issues
    BY <1>1 DEF CloseRead, CloseStops
  <2>2. faults' \in 0..FAULTS
    BY <1>1, CycleAssumption DEF CloseRead, CloseStops, Fault, CyclesInv, BoundsOK
  <2> QED BY <2>1, <2>2 DEF CyclesInv, TablesOK, BoundsOK, ConsumerOK, RecountOK, HandOK, consumer
<1>2. CASE Carry
  <2>1. PICK i \in closing :
          /\ \/ Write(i, [issue[i] EXCEPT !.cycle = Next_, !.marker = Ended])
             \/ UNCHANGED <<issue, stream>>
          /\ closing' = closing \ {i}
    BY <1>2 DEF Carry
  <2>2. UNCHANGED <<consumer, cycle, ids, snapshot, recount, drifted, edits, faults, recounts>>
    BY <1>2 DEF Carry
  <2>3. i \in Issues /\ closing' \subseteq Issues /\ edits' \in 0..EDITS
    BY <2>1, <2>2 DEF CyclesInv, TablesOK, BoundsOK
  <2>4. [issue[i] EXCEPT !.cycle = Next_, !.marker = Ended] \in Row
    BY <2>3, CycleAssumption DEF CyclesInv, TablesOK, Row
  <2>5. CASE UNCHANGED <<issue, stream>>
    BY <2>2, <2>3, <2>5 DEF CyclesInv, TablesOK, BoundsOK, ConsumerOK, RecountOK, HandOK, consumer
  <2> QED BY <2>1, <2>2, <2>3, <2>4, <2>5, WriteKeeps
<1> QED BY <1>1, <1>2

\* Nobody's row in hand changes, or the step is a fault.
LEMMA IssuesSync ==
  ASSUME CyclesInv, SnapInv,
         (\E i \in Issues : Edit(i) \/ Trash(i)) \/ CloseRead \/ CloseStops \/ Carry
  PROVE  SnapInv'
<1>1. CASE CloseStops
  BY <1>1, CycleAssumption DEF CloseStops, Fault, SnapInv, CyclesInv, BoundsOK
<1>2. CASE (\E i \in Issues : Edit(i) \/ Trash(i)) \/ CloseRead \/ Carry
  <2>1. UNCHANGED <<cycle, after, snapshot, faults, recounts, recount>>
    BY <1>2 DEF Edit, Trash, CloseRead, Carry, consumer
  <2>2. recounts' \in Nat /\ recounts' >= recounts
    BY <2>1, CycleAssumption DEF CyclesInv, BoundsOK
  <2> QED BY <2>1, <2>2, SnapStays
<1> QED BY <1>1, <1>2

-----------------------------------------------------------------------------
(* The consumer.                                                           *)

\* A record in hand is one of the stream's.
LEMMA HeadIs ==
  ASSUME CyclesInv, NEW i \in Issues, stream[i] # <<>>
  PROVE  /\ Head(stream[i]) \in Record /\ Tail(stream[i]) \in Seq(Record)
         /\ Moves(Head(stream[i])) \subseteq Cycles
BY HeadTailProperties, DeltaType DEF CyclesInv, TablesOK

\* Nothing but a consumer's hands, the stream and the claims.
LEMMA HandKeeps ==
  ASSUME CyclesInv, NEW i \in Issues, Take(i) \/ RecordIds(i) \/ Claim(i) \/ Ack(i)
  PROVE  CyclesInv'
<1>1. UNCHANGED <<issue, closing, edits, recounts, cycle, snapshot, recount, drifted, faults, after>>
  BY DEF Take, RecordIds, Claim, Ack, At
<1>2. HandOK(i) /\ pc[i] \in {"idle", "ids", "claim", "move", "snapshot", "ack"}
  BY DEF CyclesInv, ConsumerOK
<1>3. BoundsOK' /\ RecountOK'
  BY <1>1 DEF CyclesInv, BoundsOK, RecountOK
<1>4. CASE Take(i)
  <2>1. stream[i] # <<>> /\ UNCHANGED <<claimed, todo, ids>> /\ pc[i] = "idle"
    BY <1>4 DEF Take, At
  <2>2. CASE /\ Moves(Head(stream[i])) = {}
             /\ stream' = [stream EXCEPT ![i] = Tail(@)] /\ UNCHANGED pc
    <3>1. TablesOK'
      BY <1>1, <2>1, <2>2, HeadIs DEF CyclesInv, TablesOK
    <3>2. HandOK(i)'
      BY <1>1, <1>2, <2>1, <2>2 DEF HandOK
    <3>3. ConsumerOK'
      BY <1>1, <2>1, <2>2, <3>2, OneHand DEF CyclesInv, ConsumerOK, TablesOK
    <3> QED BY <1>3, <3>1, <3>3 DEF CyclesInv
  <2>3. CASE /\ Moves(Head(stream[i])) # {} /\ UNCHANGED stream
             /\ pc' = [pc EXCEPT ![i] = IF Carried(Head(stream[i])) THEN "ids" ELSE "claim"]
    <3>1. TablesOK'
      BY <1>1, <2>1, <2>3 DEF CyclesInv, TablesOK
    <3>2. pc'[i] = (IF Carried(Head(stream[i])) THEN "ids" ELSE "claim")
          /\ \A j \in Issues \ {i} : pc'[j] = pc[j]
      BY <2>3 DEF CyclesInv, ConsumerOK
    <3>3. HandOK(i)'
      BY <1>1, <1>2, <2>1, <2>3, <3>2 DEF HandOK
    <3>4. ConsumerOK'
      BY <1>1, <2>1, <2>3, <3>2, <3>3, OneHand DEF CyclesInv, ConsumerOK
    <3> QED BY <1>3, <3>1, <3>4 DEF CyclesInv
  <2> QED BY <1>4, <2>2, <2>3 DEF Take, To
<1>5. CASE RecordIds(i)
  <2> DEFINE r == Head(stream[i])
  <2>1. /\ pc[i] = "ids" /\ UNCHANGED <<stream, claimed, todo>>
        /\ pc' = [pc EXCEPT ![i] = "claim"]
        /\ ids' = [ids EXCEPT ![r.old.cycle].out = @ \cup {i}, ![r.new.cycle].in = @ \cup {i}]
    BY <1>5 DEF RecordIds, At, To
  <2>2. r.old.cycle \in Cycles /\ r.new.cycle \in Cycles /\ r.old.cycle # r.new.cycle
    BY <1>2, <2>1, HeadIs DEF HandOK, Carried, Record, Row
  <2> HIDE DEF r
  <2>3. ids' \in [Cycles -> [out : SUBSET Issues, in : SUBSET Issues]]
    BY <2>1, <2>2 DEF CyclesInv, TablesOK
  <2>4. TablesOK'
    BY <1>1, <2>1, <2>3 DEF CyclesInv, TablesOK
  <2>5. pc'[i] = "claim" /\ \A j \in Issues \ {i} : pc'[j] = pc[j]
    BY <2>1 DEF CyclesInv, ConsumerOK
  <2>6. HandOK(i)'
    BY <1>1, <1>2, <2>1, <2>5 DEF HandOK
  <2>7. ConsumerOK'
    BY <1>1, <2>1, <2>5, <2>6, OneHand DEF CyclesInv, ConsumerOK
  <2> QED BY <1>3, <2>4, <2>7 DEF CyclesInv
<1>6. CASE Claim(i)
  <2>1. /\ pc[i] = "claim" /\ UNCHANGED <<stream, ids>>
        /\ claimed' = [claimed EXCEPT ![i] = TRUE]
        /\ todo' = [todo EXCEPT ![i] = IF claimed[i] THEN {} ELSE Moves(Head(stream[i]))]
        /\ pc' = [pc EXCEPT ![i] = IF claimed[i] THEN "ack" ELSE "move"]
    BY <1>6 DEF Claim, At, To
  <2>2. stream[i] # <<>> /\ Moves(Head(stream[i])) # {} /\ Moves(Head(stream[i])) \subseteq Cycles
    BY <1>2, <2>1, DeltaType DEF HandOK
  <2>3. TablesOK'
    BY <1>1, <2>1 DEF CyclesInv, TablesOK
  <2>4. /\ claimed'[i] = TRUE /\ todo'[i] = (IF claimed[i] THEN {} ELSE Moves(Head(stream[i])))
        /\ pc'[i] = (IF claimed[i] THEN "ack" ELSE "move")
        /\ \A j \in Issues \ {i} : claimed'[j] = claimed[j] /\ todo'[j] = todo[j] /\ pc'[j] = pc[j]
    BY <2>1 DEF CyclesInv, ConsumerOK
  <2>5. HandOK(i)'
    BY <1>1, <1>2, <2>1, <2>2, <2>4 DEF HandOK
  <2>6. /\ claimed' \in [Issues -> BOOLEAN]
        /\ pc' \in [Issues -> {"idle", "ids", "claim", "move", "snapshot", "ack"}]
        /\ todo' \in [Issues -> SUBSET Cycles]
    BY <2>1, <2>2 DEF CyclesInv, ConsumerOK
  <2>7. ConsumerOK /\ after' = [j \in Issues |-> after'[j]]
    BY <1>1 DEF CyclesInv, ConsumerOK
  <2>8. ConsumerOK'
    BY <1>1, <2>1, <2>4, <2>5, <2>6, <2>7, OneHand
  <2> QED BY <1>3, <2>3, <2>8 DEF CyclesInv
<1>7. CASE Ack(i)
  <2>1. /\ pc[i] = "ack" /\ UNCHANGED <<todo, ids>>
        /\ stream' = [stream EXCEPT ![i] = Tail(@)]
        /\ claimed' = [claimed EXCEPT ![i] = FALSE]
        /\ pc' = [pc EXCEPT ![i] = "idle"]
    BY <1>7 DEF Ack, At, To
  <2>2. stream[i] # <<>>
    BY <1>2, <2>1 DEF HandOK
  <2>3. TablesOK'
    BY <1>1, <2>1, <2>2, HeadIs DEF CyclesInv, TablesOK
  <2>4. /\ claimed'[i] = FALSE /\ pc'[i] = "idle"
        /\ \A j \in Issues \ {i} :
             claimed'[j] = claimed[j] /\ stream'[j] = stream[j] /\ pc'[j] = pc[j]
    BY <2>1 DEF CyclesInv, ConsumerOK, TablesOK
  <2>5. HandOK(i)'
    BY <1>1, <1>2, <2>4 DEF HandOK
  <2>6. ConsumerOK'
    BY <1>1, <2>1, <2>4, <2>5, OneHand DEF CyclesInv, ConsumerOK
  <2> QED BY <1>3, <2>3, <2>6 DEF CyclesInv
<1> QED BY <1>4, <1>5, <1>6, <1>7

\* The moves and the snapshots, and what stops them.
LEMMA FaultOnce ==
  ASSUME CyclesInv, Fault
  PROVE  faults' \in 0..FAULTS /\ faults' > 0
BY CycleAssumption DEF Fault, CyclesInv, BoundsOK

LEMMA StopKeeps ==
  ASSUME CyclesInv, NEW i \in Issues, MoveFails(i) \/ Crash(i)
  PROVE  CyclesInv' /\ faults' > 0
<1>1. /\ Fault /\ UNCHANGED <<issue, closing, edits, recounts, stream, cycle, ids, snapshot>>
      /\ after' = [after EXCEPT ![i] = <<>>] /\ todo' = [todo EXCEPT ![i] = {}]
      /\ pc' = [pc EXCEPT ![i] = "idle"] /\ pc[i] # "idle"
      /\ claimed' = [claimed EXCEPT ![i] = FALSE] \/ claimed' = claimed
  BY DEF MoveFails, Crash, At, To
<1>2. faults' \in 0..FAULTS /\ faults' > 0
  BY <1>1, FaultOnce
<1>3. BoundsOK'
  BY <1>1, <1>2 DEF CyclesInv, BoundsOK
<1>4. drifted' \subseteq Cycles \X Counters
  <2>1. DOMAIN after[i] \subseteq Cycles /\ todo[i] \subseteq Cycles
    BY DEF CyclesInv, ConsumerOK, HandOK
  <2> QED BY <2>1 DEF MoveFails, Crash, Moved, CyclesInv, TablesOK
<1>5. TablesOK'
  BY <1>1, <1>4 DEF CyclesInv, TablesOK
<1>6. recount' = recount \/ (recount.pc = "write" /\ recount' = [recount EXCEPT !.settled = FALSE])
  BY DEF MoveFails, Crash, Unsettled
<1>7. RecountOK'
  BY <1>1, <1>6 DEF CyclesInv, RecountOK, Counting, Writing, Showing
<1>8. /\ after'[i] = <<>> /\ pc'[i] = "idle" /\ (claimed'[i] => claimed[i])
      /\ \A j \in Issues \ {i} : /\ claimed'[j] = claimed[j] /\ todo'[j] = todo[j]
                               /\ pc'[j] = pc[j] /\ after'[j] = after[j]
  BY <1>1 DEF CyclesInv, ConsumerOK
<1>9. HandOK(i)'
  <2>1. DOMAIN after'[i] = {}
    BY <1>8
  <2>2. HandOK(i)
    BY DEF CyclesInv, ConsumerOK
  <2> QED BY <1>1, <1>8, <2>1, <2>2 DEF HandOK
<1>10. after' = [j \in Issues |-> after'[j]]
  BY <1>1 DEF CyclesInv, ConsumerOK
<1>11. claimed' \in [Issues -> BOOLEAN] /\ todo' \in [Issues -> SUBSET Cycles]
       /\ pc' \in [Issues -> {"idle", "ids", "claim", "move", "snapshot", "ack"}]
  BY <1>1 DEF CyclesInv, ConsumerOK
<1>12. ConsumerOK'
  BY <1>1, <1>8, <1>9, <1>10, <1>11, OneHand DEF CyclesInv
<1> QED BY <1>2, <1>3, <1>5, <1>7, <1>12 DEF CyclesInv
\* What a move does: one cycle's row moves on, and is in hand as it then is.
LEMMA MoveDoes ==
  ASSUME CyclesInv, NEW i \in Issues, Move(i)
  PROVE  \E c \in todo[i], moved \in CycleRow :
           /\ moved.rev = cycle[c].rev + 1
           /\ cycle' = [cycle EXCEPT ![c] = moved]
           /\ after' = [after EXCEPT ![i] = [x \in DOMAIN after[i] \cup {c} |-> IF x = c THEN moved ELSE after[i][x]]]
           /\ todo' = [todo EXCEPT ![i] = todo[i] \ {c}]
           /\ pc' = [pc EXCEPT ![i] = IF todo[i] = {c} THEN "snapshot" ELSE "move"]
<1> DEFINE r == Head(stream[i])
           c == Min(todo[i])
           moved == [counts |-> [k \in Counters |-> cycle[c].counts[k] + Delta(r, c, k)],
                     rev    |-> cycle[c].rev + 1]
<1>1. c \in todo[i] /\ c \in Cycles
  BY MinIsIn DEF Move, At, CyclesInv, ConsumerOK, HandOK
<1> HIDE DEF c
<1>2. cycle[c].rev \in Nat /\ cycle[c].counts \in [Counters -> Int]
  BY <1>1 DEF CyclesInv, TablesOK, CycleRow
<1>3. \A k \in Counters : cycle[c].counts[k] + Delta(r, c, k) \in Int
  BY <1>2, DeltaType
<1>4. moved \in CycleRow /\ moved.rev = cycle[c].rev + 1
  BY <1>2, <1>3 DEF CycleRow
<1>5. /\ cycle' = [cycle EXCEPT ![c] = moved]
      /\ after' = [after EXCEPT ![i] = [x \in DOMAIN after[i] \cup {c} |-> IF x = c THEN moved ELSE after[i][x]]]
      /\ todo' = [todo EXCEPT ![i] = todo[i] \ {c}]
      /\ pc' = [pc EXCEPT ![i] = IF todo[i] = {c} THEN "snapshot" ELSE "move"]
  BY DEF Move, To, CyclesInv, ConsumerOK, c
<1> QED BY <1>1, <1>4, <1>5

LEMMA MoveKeeps ==
  ASSUME CyclesInv, SnapInv, NEW i \in Issues, Move(i)
  PROVE  CyclesInv' /\ SnapInv'
<1>1. PICK c \in todo[i], moved \in CycleRow :
        /\ moved.rev = cycle[c].rev + 1
        /\ cycle' = [cycle EXCEPT ![c] = moved]
        /\ after' = [after EXCEPT ![i] = [x \in DOMAIN after[i] \cup {c} |-> IF x = c THEN moved ELSE after[i][x]]]
        /\ todo' = [todo EXCEPT ![i] = todo[i] \ {c}]
        /\ pc' = [pc EXCEPT ![i] = IF todo[i] = {c} THEN "snapshot" ELSE "move"]
  BY MoveDoes
<1>2. /\ UNCHANGED <<issue, closing, edits, recounts, stream, claimed, ids, snapshot, recount, drifted, faults>>
      /\ pc[i] = "move"
  BY DEF Move, At
<1>3. c \in Cycles /\ HandOK(i)
  BY DEF CyclesInv, ConsumerOK
<1>4. TablesOK' /\ BoundsOK' /\ RecountOK'
  BY <1>1, <1>2, <1>3 DEF CyclesInv, TablesOK, BoundsOK, RecountOK
<1>5. /\ after'[i] = [x \in DOMAIN after[i] \cup {c} |-> IF x = c THEN moved ELSE after[i][x]]
      /\ todo'[i] = todo[i] \ {c} /\ pc'[i] = (IF todo[i] = {c} THEN "snapshot" ELSE "move")
      /\ \A j \in Issues \ {i} : todo'[j] = todo[j] /\ pc'[j] = pc[j] /\ after'[j] = after[j]
  BY <1>1 DEF CyclesInv, ConsumerOK
<1>6. /\ DOMAIN after'[i] = DOMAIN after[i] \cup {c}
      /\ after'[i][c] = moved /\ \A x \in DOMAIN after[i] \ {c} : after'[i][x] = after[i][x]
  BY <1>5
<1>7. HandOK(i)'
  BY <1>2, <1>3, <1>5, <1>6 DEF HandOK
<1>8. /\ after' = [j \in Issues |-> after'[j]] /\ todo' \in [Issues -> SUBSET Cycles]
      /\ pc' \in [Issues -> {"idle", "ids", "claim", "move", "snapshot", "ack"}]
  BY <1>1 DEF CyclesInv, ConsumerOK
<1>9. ConsumerOK'
  BY <1>2, <1>5, <1>7, <1>8, OneHand DEF CyclesInv, ConsumerOK
<1>10. cycle'[c] = moved /\ \A x \in Cycles \ {c} : cycle'[x] = cycle[x]
  BY <1>1, <1>3 DEF CyclesInv, TablesOK
<1>11. SnapInv'
  <2> SUFFICES ASSUME faults = 0, NEW d \in Cycles
               PROVE  /\ snapshot[d].rev <= cycle'[d].rev
                      /\ cycle'[d].rev > 0 => InSync(snapshot[d], d)'
                      /\ \A j \in Issues : d \in DOMAIN after'[j] => InSync(after[j][d], d)'
                      /\ recount.pc = "snapshot" /\ recount.cycle = d => InSync(recount.after, d)'
                      /\ snapshot[d].rev < cycle'[d].rev => Pending(d)' \/ (d = Ended /\ recounts > 0)
    BY <1>2 DEF SnapInv
  <2>0. /\ snapshot[d].rev <= cycle[d].rev
        /\ cycle[d].rev > 0 => InSync(snapshot[d], d)
        /\ \A j \in Issues : d \in DOMAIN after[j] => InSync(after[j][d], d)
        /\ recount.pc = "snapshot" /\ recount.cycle = d => InSync(recount.after, d)
        /\ snapshot[d].rev < cycle[d].rev => Pending(d) \/ (d = Ended /\ recounts > 0)
    BY DEF SnapInv
  <2>1. CASE d # c
    <3>1. cycle'[d] = cycle[d] /\ \A j \in Issues : d \in DOMAIN after'[j] <=> d \in DOMAIN after[j]
      BY <1>5, <1>6, <1>10, <2>1
    <3>2. \A j \in Issues : d \in DOMAIN after[j] => after'[j][d] = after[j][d]
      BY <1>5, <1>6, <2>1
    <3> QED BY <1>2, <2>0, <3>1, <3>2 DEF InSync, Pending
  <2>2. CASE d = c
    <3>1. cycle[c].rev \in Nat /\ cycle'[c].rev = cycle[c].rev + 1
      BY <1>1, <1>3, <1>10 DEF CyclesInv, TablesOK, CycleRow
    <3>2. snapshot[c].rev \in Nat /\ \A j \in Issues : c \in DOMAIN after[j] => after[j][c].rev \in Nat
      BY <1>3 DEF CyclesInv, TablesOK, ConsumerOK, HandOK, CycleRow
    <3>3. recount.pc = "snapshot" => recount.after.rev \in Nat
      BY DEF CyclesInv, RecountOK, Counting, Writing, Showing, CycleRow
    <3>4. Pending(c)'
      BY <1>6, <1>10 DEF Pending
    <3>5. \A j \in Issues : c \in DOMAIN after'[j] => InSync(after[j][c], c)'
      <4> SUFFICES ASSUME NEW j \in Issues, c \in DOMAIN after'[j]
                   PROVE  InSync(after[j][c], c)'
        OBVIOUS
      <4>1. CASE j = i
        BY <1>6, <1>10, <3>1, <4>1 DEF InSync
      <4>2. CASE j # i
        <5>1. after'[j] = after[j]
          BY <1>5, <4>2
        <5> QED BY <2>0, <2>2, <3>1, <3>2, <5>1 DEF InSync
      <4> QED BY <4>1, <4>2
    <3>6. InSync(snapshot[c], c)' /\ snapshot[c].rev <= cycle'[c].rev
      BY <1>2, <2>0, <2>2, <3>1, <3>2 DEF InSync
    <3>7. recount.pc = "snapshot" /\ recount.cycle = c => InSync(recount.after, c)'
      BY <1>2, <2>0, <2>2, <3>1, <3>3 DEF InSync
    <3> QED BY <2>2, <3>4, <3>5, <3>6, <3>7
  <2> QED BY <2>1, <2>2
<1> QED BY <1>4, <1>9, <1>11 DEF CyclesInv
\* A snapshot is of one of the rows in hand, which is then in hand no longer.
LEMMA SnapshotDoes ==
  ASSUME CyclesInv, NEW i \in Issues, Snapshot(i)
  PROVE  \E c \in DOMAIN after[i] :
           /\ c \in Cycles /\ after[i][c] \in CycleRow
           /\ snapshot' = IF Later(snapshot[c], after[i][c])
                          THEN [snapshot EXCEPT ![c] = after[i][c]] ELSE snapshot
           /\ after' = [after EXCEPT ![i] = [x \in DOMAIN after[i] \ {c} |-> after[i][x]]]
           /\ pc' = [pc EXCEPT ![i] = IF DOMAIN after[i] = {c} THEN "ack" ELSE "snapshot"]
<1> DEFINE c == Min(DOMAIN after[i])
<1>1. c \in DOMAIN after[i] /\ c \in Cycles /\ after[i][c] \in CycleRow
  <2>1. pc[i] = "snapshot" /\ HandOK(i)
    BY DEF Snapshot, At, CyclesInv, ConsumerOK
  <2>2. DOMAIN after[i] # {} /\ DOMAIN after[i] \in SUBSET Cycles
    BY <2>1 DEF HandOK
  <2>3. c \in DOMAIN after[i]
    BY <2>2, MinIsIn
  <2> HIDE DEF c
  <2> QED BY <2>1, <2>2, <2>3 DEF HandOK
<1> QED BY <1>1 DEF Snapshot, To, Restrict, CyclesInv, ConsumerOK

LEMMA SnapshotKeeps ==
  ASSUME CyclesInv, SnapInv, NEW i \in Issues, Snapshot(i)
  PROVE  CyclesInv' /\ SnapInv'
<1>1. PICK c \in DOMAIN after[i] :
        /\ c \in Cycles /\ after[i][c] \in CycleRow
        /\ snapshot' = IF Later(snapshot[c], after[i][c])
                       THEN [snapshot EXCEPT ![c] = after[i][c]] ELSE snapshot
        /\ after' = [after EXCEPT ![i] = [x \in DOMAIN after[i] \ {c} |-> after[i][x]]]
        /\ pc' = [pc EXCEPT ![i] = IF DOMAIN after[i] = {c} THEN "ack" ELSE "snapshot"]
  BY SnapshotDoes
<1>2. /\ UNCHANGED <<issue, closing, edits, recounts, stream, claimed, todo, cycle, ids, recount, drifted, faults>>
      /\ pc[i] = "snapshot"
  BY DEF Snapshot, At
<1>3. HandOK(i)
  BY DEF CyclesInv, ConsumerOK
<1>4. TablesOK' /\ BoundsOK' /\ RecountOK'
  BY <1>1, <1>2 DEF CyclesInv, TablesOK, BoundsOK, RecountOK
<1>5. /\ after'[i] = [x \in DOMAIN after[i] \ {c} |-> after[i][x]]
      /\ pc'[i] = (IF DOMAIN after[i] = {c} THEN "ack" ELSE "snapshot")
      /\ \A j \in Issues \ {i} : pc'[j] = pc[j] /\ after'[j] = after[j]
  BY <1>1 DEF CyclesInv, ConsumerOK
<1>6. /\ DOMAIN after'[i] = DOMAIN after[i] \ {c}
      /\ \A x \in DOMAIN after[i] \ {c} : after'[i][x] = after[i][x]
  BY <1>5
<1>7. HandOK(i)'
  BY <1>2, <1>3, <1>5, <1>6 DEF HandOK
<1>8. /\ after' = [j \in Issues |-> after'[j]]
      /\ pc' \in [Issues -> {"idle", "ids", "claim", "move", "snapshot", "ack"}]
  BY <1>1 DEF CyclesInv, ConsumerOK
<1>9. ConsumerOK'
  BY <1>2, <1>5, <1>7, <1>8, OneHand DEF CyclesInv, ConsumerOK
<1>10. \A j \in Issues, d \in Cycles :
         d \in DOMAIN after'[j] => d \in DOMAIN after[j] /\ after'[j][d] = after[j][d]
  BY <1>5, <1>6
<1>11. \A j \in Issues, d \in Cycles : d # c /\ d \in DOMAIN after[j] => d \in DOMAIN after'[j]
  BY <1>5, <1>6
<1>12. SnapInv'
  <2> SUFFICES ASSUME faults = 0, NEW d \in Cycles
               PROVE  /\ snapshot'[d].rev <= cycle[d].rev
                      /\ cycle[d].rev > 0 => InSync(snapshot[d], d)'
                      /\ \A j \in Issues : d \in DOMAIN after'[j] => InSync(after[j][d], d)'
                      /\ recount.pc = "snapshot" /\ recount.cycle = d => InSync(recount.after, d)'
                      /\ snapshot'[d].rev < cycle[d].rev => Pending(d)' \/ (d = Ended /\ recounts > 0)
    BY <1>2 DEF SnapInv
  <2>0. /\ snapshot[d].rev <= cycle[d].rev
        /\ cycle[d].rev > 0 => InSync(snapshot[d], d)
        /\ \A j \in Issues : d \in DOMAIN after[j] => InSync(after[j][d], d)
        /\ recount.pc = "snapshot" /\ recount.cycle = d => InSync(recount.after, d)
        /\ snapshot[d].rev < cycle[d].rev => Pending(d) \/ (d = Ended /\ recounts > 0)
    BY DEF SnapInv
  <2>1. \A j \in Issues : d \in DOMAIN after'[j] => InSync(after[j][d], d)'
    BY <1>2, <1>10, <2>0 DEF InSync
  <2>2. recount.pc = "snapshot" /\ recount.cycle = d => InSync(recount.after, d)'
    BY <1>2, <2>0 DEF InSync
  <2>3. cycle[d].rev \in Nat /\ snapshot[d].rev \in Nat /\ after[i][c].rev \in Nat
    BY <1>1 DEF CyclesInv, TablesOK, CycleRow
  <2>4. CASE d # c
    <3>1. snapshot'[d] = snapshot[d]
      BY <1>1, <2>4 DEF CyclesInv, TablesOK
    <3>2. Pending(d) => Pending(d)'
      BY <1>2, <1>10, <1>11, <2>4 DEF Pending
    <3> QED BY <1>2, <2>0, <2>1, <2>2, <3>1, <3>2 DEF InSync
  <2>5. CASE d = c
    <3>1. InSync(after[i][c], c)
      BY <1>1, <2>0, <2>5
    <3>2. snapshot'[c] = IF snapshot[c].rev < after[i][c].rev THEN after[i][c] ELSE snapshot[c]
      BY <1>1 DEF Later, CyclesInv, TablesOK
    <3>3. snapshot'[c].rev <= cycle[c].rev
      BY <2>0, <2>5, <3>1, <3>2 DEF InSync
    <3>4. cycle[c].rev > 0 => InSync(snapshot[c], c)'
      BY <1>2, <2>0, <2>5, <3>1, <3>2 DEF InSync
    <3>5. ASSUME snapshot'[c].rev < cycle[c].rev
          PROVE  Pending(c)' \/ (c = Ended /\ recounts > 0)
      <4>1. snapshot[c].rev < cycle[c].rev /\ after[i][c] # cycle[c]
        BY <2>3, <2>5, <3>2, <3>5
      <4>2. Pending(c) => Pending(c)'
        BY <1>2, <1>5, <1>10, <4>1 DEF Pending
      <4> QED BY <2>0, <2>5, <4>1, <4>2
    <3> QED BY <2>1, <2>2, <2>5, <3>3, <3>4, <3>5
  <2> QED BY <2>4, <2>5
<1> QED BY <1>4, <1>9, <1>12 DEF CyclesInv

-----------------------------------------------------------------------------
(* The recount.                                                            *)

\* The row is read, and counted: nothing else changes.
LEMMA RecountReads ==
  ASSUME CyclesInv, (\E c \in Cycles : RecountRead(c)) \/ RecountCount
  PROVE  /\ CyclesInv' /\ recount.pc # "snapshot" /\ recount'.pc # "snapshot"
         /\ UNCHANGED <<cycle, consumer, snapshot, faults>> /\ recounts' \in Nat /\ recounts' >= recounts
<1>1. /\ UNCHANGED <<issue, stream, consumer, cycle, ids, snapshot, closing, drifted, edits, faults>>
      /\ recounts \in Nat /\ recounts <= RECOUNTS /\ RECOUNTS \in Nat
  BY CycleAssumption DEF RecountRead, RecountCount, CyclesInv, BoundsOK
<1>2. TablesOK' /\ ConsumerOK'
  BY <1>1 DEF CyclesInv, TablesOK, ConsumerOK, HandOK, consumer
<1>3. CASE \E c \in Cycles : RecountRead(c)
  <2>1. PICK c \in Cycles :
          /\ recounts < RECOUNTS /\ recounts' = recounts + 1 /\ recount.pc = "idle"
          /\ recount' = [pc |-> "count", cycle |-> c, rev |-> cycle[c].rev, held |-> cycle[c].counts]
    BY <1>3 DEF RecountRead
  <2>2. recount' \in Counting
    BY <2>1 DEF Counting, CyclesInv, TablesOK, CycleRow
  <2>3. RecountOK' /\ recount'.pc # "snapshot"
    BY <1>1, <2>1, <2>2 DEF RecountOK, Counting
  <2>4. BoundsOK'
    BY <1>1, <2>1 DEF CyclesInv, BoundsOK
  <2> QED BY <1>1, <1>2, <2>1, <2>3, <2>4 DEF CyclesInv
<1>4. CASE RecountCount
  <2>1. recount \in Counting /\ recount.pc = "count" /\ UNCHANGED recounts
    BY <1>4 DEF RecountCount, CyclesInv, RecountOK, Counting, Writing, Showing
  <2>2. PICK behind \in SUBSET Issues :
          LET c == recount.cycle
              shown == [j \in Issues |-> IF j \in behind THEN [issue[j] EXCEPT !.cycle = NoCycle] ELSE issue[j]]
              counts == [k \in Counters |-> IF k \in Buckets THEN Tally(shown, c, k) ELSE recount.held[k]]
          IN  recount' = IF counts = recount.held THEN [pc |-> "idle"]
                         ELSE [pc |-> "write", cycle |-> c, rev |-> recount.rev, counts |-> counts,
                               settled |-> behind = {} /\ ~Owing(c)]
    BY <1>4 DEF RecountCount
  <2> DEFINE c == recount.cycle
             shown == [j \in Issues |-> IF j \in behind THEN [issue[j] EXCEPT !.cycle = NoCycle] ELSE issue[j]]
             counts == [k \in Counters |-> IF k \in Buckets THEN Tally(shown, c, k) ELSE recount.held[k]]
             settled == behind = {} /\ ~Owing(c)
  <2>3. \/ recount' = [pc |-> "idle"]
        \/ recount' = [pc |-> "write", cycle |-> c, rev |-> recount.rev, counts |-> counts, settled |-> settled]
    BY <2>2
  <2>4. settled \in BOOLEAN
    OBVIOUS
  <2> HIDE DEF settled, shown
  <2>5. \A k \in Counters : Tally(shown, c, k) \in Int /\ recount.held[k] \in Int
    BY <2>1, TallyType DEF Counting
  <2>6. counts \in [Counters -> Int]
    BY <2>5
  <2> HIDE DEF counts
  <2>7. recount' \in {[pc |-> "idle"]} \cup Writing
    BY <2>1, <2>3, <2>4, <2>6 DEF Counting, Writing
  <2>8. recount'.pc # "snapshot" /\ recounts > 0
    BY <2>1, <2>7 DEF Writing, CyclesInv, RecountOK
  <2>9. RecountOK' /\ BoundsOK'
    BY <1>1, <2>1, <2>7, <2>8 DEF RecountOK, CyclesInv, BoundsOK
  <2> QED BY <1>1, <1>2, <2>1, <2>8, <2>9 DEF CyclesInv
<1> QED BY <1>3, <1>4

\* What a recount writes is a row of its own, over the one it was counted against.
LEMMA RecountWrites ==
  ASSUME CyclesInv, RecountWrite
  PROVE  /\ recount \in Writing /\ recounts > 0
         /\ \/ \E healed \in CycleRow :
                 /\ healed.rev = cycle[recount.cycle].rev + 1
                 /\ cycle' = [cycle EXCEPT ![recount.cycle] = healed]
                 /\ drifted' \subseteq Cycles \X Counters
                 /\ \/ recount.cycle = Ended /\ recount' = [pc |-> "idle"]
                    \/ recount' = [pc |-> "snapshot", cycle |-> recount.cycle, after |-> healed]
            \/ UNCHANGED <<cycle, drifted>> /\ recount' = [pc |-> "idle"]
<1> DEFINE c == recount.cycle
           healed == [counts |-> Healed(c, recount.counts), rev |-> recount.rev + 1]
<1>1. recount \in Writing /\ recounts > 0
  BY DEF RecountWrite, CyclesInv, RecountOK, Counting, Writing, Showing
<1>2. c \in Cycles /\ recount.rev \in Nat /\ recount.counts \in [Counters -> Int]
  BY <1>1 DEF Writing
<1>3. \A k \in Counters : recount.counts[k] \in Int /\ cycle[c].counts[k] \in Int
  BY <1>2 DEF CyclesInv, TablesOK, CycleRow
<1>4. Healed(c, recount.counts) \in [Counters -> Int]
  BY <1>3 DEF Healed
<1>5. healed \in CycleRow /\ healed.rev = recount.rev + 1
  BY <1>2, <1>4 DEF CycleRow
<1>6. drifted \subseteq Cycles \X Counters /\ {c} \X Buckets \subseteq Cycles \X Counters
  BY <1>2 DEF CyclesInv, TablesOK, Buckets, Counters
<1>7. CASE /\ Held(c, recount.rev)
           /\ cycle' = [cycle EXCEPT ![c] = healed]
           /\ drifted' = IF recount.settled THEN drifted \ ({c} \X Buckets)
                                              ELSE drifted \cup ({c} \X Buckets)
           /\ recount' = IF c = Ended THEN [pc |-> "idle"]
                         ELSE [pc |-> "snapshot", cycle |-> c, after |-> healed]
  <2>1. healed.rev = cycle[c].rev + 1
    BY <1>5, <1>7 DEF Held
  <2>2. drifted' \subseteq Cycles \X Counters
    BY <1>6, <1>7
  <2> HIDE DEF healed
  <2> QED BY <1>1, <1>5, <1>7, <2>1, <2>2
<1>8. CASE UNCHANGED <<cycle, drifted>> /\ recount' = [pc |-> "idle"]
  BY <1>1, <1>8
<1> QED BY <1>7, <1>8 DEF RecountWrite

LEMMA RecountWriteKeeps ==
  ASSUME CyclesInv, SnapInv, RecountWrite
  PROVE  CyclesInv' /\ SnapInv'
<1>1. UNCHANGED <<issue, stream, consumer, ids, snapshot, closing, edits, faults, recounts>>
  BY DEF RecountWrite
<1>2. recount \in Writing /\ recounts > 0
  BY RecountWrites
<1>3. recount.cycle \in Cycles /\ recount.pc = "write"
  BY <1>2 DEF Writing
<1>4. ConsumerOK' /\ BoundsOK'
  BY <1>1 DEF CyclesInv, ConsumerOK, HandOK, BoundsOK, consumer
<1>5. CASE UNCHANGED <<cycle, drifted>> /\ recount' = [pc |-> "idle"]
  <2>1. TablesOK' /\ RecountOK'
    BY <1>1, <1>5 DEF CyclesInv, TablesOK, RecountOK
  <2>2. recounts' \in Nat /\ recounts' >= recounts
    BY <1>1, CycleAssumption DEF CyclesInv, BoundsOK
  <2>3. SnapInv'
    BY <1>1, <1>3, <1>5, <2>2, SnapStays DEF consumer
  <2> QED BY <1>4, <2>1, <2>3 DEF CyclesInv
<1>6. ASSUME NEW healed \in CycleRow, healed.rev = cycle[recount.cycle].rev + 1,
             cycle' = [cycle EXCEPT ![recount.cycle] = healed],
             drifted' \subseteq Cycles \X Counters,
             \/ recount.cycle = Ended /\ recount' = [pc |-> "idle"]
             \/ recount' = [pc |-> "snapshot", cycle |-> recount.cycle, after |-> healed]
      PROVE  CyclesInv' /\ SnapInv'
  <2>1. TablesOK'
    BY <1>1, <1>3, <1>6 DEF CyclesInv, TablesOK
  <2>2. recount' \in {[pc |-> "idle"]} \cup Showing
    BY <1>3, <1>6 DEF Showing
  <2>3. RecountOK'
    BY <1>1, <1>2, <2>2 DEF RecountOK
  <2>4. PICK c \in Cycles : c = recount.cycle
    BY <1>3
  <2>5. cycle'[c] = healed /\ \A d \in Cycles \ {c} : cycle'[d] = cycle[d]
    BY <1>6, <2>4 DEF CyclesInv, TablesOK
  <2>6. \/ c = Ended /\ recount'.pc = "idle"
        \/ recount'.pc = "snapshot" /\ recount'.cycle = c /\ recount'.after = healed
    BY <1>6, <2>4
  <2>7. SnapInv'
    <3> SUFFICES ASSUME faults = 0, NEW d \in Cycles
                 PROVE  /\ snapshot[d].rev <= cycle'[d].rev
                        /\ cycle'[d].rev > 0 => InSync(snapshot[d], d)'
                        /\ \A j \in Issues : d \in DOMAIN after[j] => InSync(after[j][d], d)'
                        /\ recount'.pc = "snapshot" /\ recount'.cycle = d => InSync(recount.after, d)'
                        /\ snapshot[d].rev < cycle'[d].rev => Pending(d)' \/ (d = Ended /\ recounts > 0)
      BY <1>1 DEF SnapInv, consumer
    <3>0. /\ snapshot[d].rev <= cycle[d].rev
          /\ cycle[d].rev > 0 => InSync(snapshot[d], d)
          /\ \A j \in Issues : d \in DOMAIN after[j] => InSync(after[j][d], d)
          /\ snapshot[d].rev < cycle[d].rev => Pending(d) \/ (d = Ended /\ recounts > 0)
      BY DEF SnapInv
    <3>1. CASE d # c
      <4>1. cycle'[d] = cycle[d] /\ (Pending(d) => Pending(d)')
        BY <1>1, <1>3, <2>5, <3>1 DEF Pending, consumer
      <4>2. ~(recount'.pc = "snapshot" /\ recount'.cycle = d)
        BY <2>6, <3>1
      <4> QED BY <1>1, <3>0, <4>1, <4>2 DEF InSync, consumer
    <3>2. CASE d = c
      <4>1. cycle[c].rev \in Nat /\ cycle'[c].rev = cycle[c].rev + 1
        BY <1>6, <2>4, <2>5 DEF CyclesInv, TablesOK, CycleRow
      <4>2. snapshot[c].rev \in Nat /\ \A j \in Issues : c \in DOMAIN after[j] => after[j][c].rev \in Nat
        BY DEF CyclesInv, TablesOK, ConsumerOK, HandOK, CycleRow
      <4>3. Pending(c)' \/ c = Ended
        BY <2>5, <2>6 DEF Pending
      <4>4. InSync(snapshot[c], c)' /\ snapshot[c].rev <= cycle'[c].rev
        BY <1>1, <3>0, <3>2, <4>1, <4>2 DEF InSync
      <4>5. \A j \in Issues : c \in DOMAIN after[j] => InSync(after[j][c], c)'
        BY <1>1, <3>0, <3>2, <4>1, <4>2 DEF InSync, consumer
      <4>6. recount'.pc = "snapshot" => InSync(recount.after, c)'
        BY <2>5, <2>6, <4>1 DEF InSync
      <4> QED BY <1>2, <3>2, <4>3, <4>4, <4>5, <4>6
    <3> QED BY <3>1, <3>2
  <2> QED BY <1>4, <2>1, <2>3, <2>7 DEF CyclesInv
<1> QED BY <1>5, <1>6, RecountWrites

LEMMA RecountSnapshotKeeps ==
  ASSUME CyclesInv, SnapInv, RecountSnapshot
  PROVE  CyclesInv' /\ SnapInv'
<1>1. UNCHANGED <<issue, stream, consumer, cycle, ids, closing, drifted, edits, faults, recounts>>
      /\ recount' = [pc |-> "idle"]
  BY DEF RecountSnapshot
<1>2. recount \in Showing /\ recounts > 0
  BY DEF RecountSnapshot, CyclesInv, RecountOK, Counting, Writing, Showing
<1>3. PICK c \in Cycles, row \in CycleRow :
        /\ recount.cycle = c /\ recount.after = row
        /\ snapshot' = IF Later(snapshot[c], row) THEN [snapshot EXCEPT ![c] = row] ELSE snapshot
  BY <1>2 DEF RecountSnapshot, Showing
<1>4. TablesOK' /\ BoundsOK' /\ ConsumerOK' /\ RecountOK'
  BY <1>1, <1>3 DEF CyclesInv, TablesOK, BoundsOK, ConsumerOK, HandOK, RecountOK, consumer
<1>5. SnapInv'
  <2> SUFFICES ASSUME faults = 0, NEW d \in Cycles
               PROVE  /\ snapshot'[d].rev <= cycle[d].rev
                      /\ cycle[d].rev > 0 => InSync(snapshot[d], d)'
                      /\ \A j \in Issues : d \in DOMAIN after[j] => InSync(after[j][d], d)'
                      /\ snapshot'[d].rev < cycle[d].rev => Pending(d)' \/ (d = Ended /\ recounts > 0)
    BY <1>1 DEF SnapInv, consumer
  <2>0. /\ snapshot[d].rev <= cycle[d].rev
        /\ cycle[d].rev > 0 => InSync(snapshot[d], d)
        /\ \A j \in Issues : d \in DOMAIN after[j] => InSync(after[j][d], d)
        /\ recount.pc = "snapshot" /\ recount.cycle = d => InSync(recount.after, d)
        /\ snapshot[d].rev < cycle[d].rev => Pending(d) \/ (d = Ended /\ recounts > 0)
    BY DEF SnapInv
  <2>1. \A j \in Issues : d \in DOMAIN after[j] => InSync(after[j][d], d)'
    BY <1>1, <2>0 DEF InSync, consumer
  <2>2. recount.pc = "snapshot"
    BY <1>2 DEF Showing
  <2>3. cycle[d].rev \in Nat /\ snapshot[d].rev \in Nat /\ row.rev \in Nat
    BY DEF CyclesInv, TablesOK, CycleRow
  <2>4. CASE d # c
    <3>1. snapshot'[d] = snapshot[d]
      BY <1>3, <2>4 DEF CyclesInv, TablesOK
    <3>2. Pending(d) => Pending(d)'
      BY <1>1, <1>3, <2>4 DEF Pending, consumer
    <3> QED BY <1>1, <2>0, <2>1, <3>1, <3>2 DEF InSync
  <2>5. CASE d = c
    <3>1. InSync(row, c)
      BY <1>3, <2>0, <2>2, <2>5
    <3>2. snapshot'[c] = IF snapshot[c].rev < row.rev THEN row ELSE snapshot[c]
      BY <1>3 DEF Later, CyclesInv, TablesOK
    <3>3. snapshot'[c].rev <= cycle[c].rev /\ (cycle[c].rev > 0 => InSync(snapshot[c], c)')
      BY <1>1, <2>0, <2>5, <3>1, <3>2 DEF InSync
    <3>4. ASSUME snapshot'[c].rev < cycle[c].rev
          PROVE  Pending(c)' \/ (c = Ended /\ recounts > 0)
      <4>1. snapshot[c].rev < cycle[c].rev /\ row # cycle[c]
        BY <2>3, <2>5, <3>2, <3>4
      <4>2. Pending(c) => Pending(c)'
        BY <1>1, <1>3, <4>1 DEF Pending, consumer
      <4> QED BY <2>0, <2>5, <4>1, <4>2
    <3> QED BY <2>1, <2>5, <3>3, <3>4
  <2> QED BY <2>4, <2>5
<1> QED BY <1>4, <1>5 DEF CyclesInv

-----------------------------------------------------------------------------
(* The theorems.                                                           *)

LEMMA InvStarts == Init => CyclesInv /\ SnapInv
<1> SUFFICES ASSUME Init PROVE CyclesInv /\ SnapInv
  OBVIOUS
<1>1. issue \in [Issues -> Row]
  BY CycleAssumption DEF Init, Row
<1>2. cycle \in [Cycles -> CycleRow] /\ \A c \in Cycles : cycle[c].rev = 0
  <2> DEFINE start(c) == [k \in Counters |-> IF k \in Buckets THEN Tally(issue, c, k) ELSE 0]
  <2>1. cycle = [c \in Cycles |-> [counts |-> start(c), rev |-> 0]]
    BY DEF Init
  <2>2. \A c \in Cycles, k \in Counters : Tally(issue, c, k) \in Int
    BY TallyType
  <2>3. \A c \in Cycles : start(c) \in [Counters -> Int]
    BY <2>2
  <2> HIDE DEF start
  <2> QED BY <2>1, <2>3 DEF CycleRow
<1>3. snapshot \in [Cycles -> CycleRow] /\ \A c \in Cycles : snapshot[c].rev = 0
  BY DEF Init, NoCounts, CycleRow
<1>4. TablesOK
  <2>1. stream \in [Issues -> Seq(Record)] /\ ids \in [Cycles -> [out : SUBSET Issues, in : SUBSET Issues]]
    BY EmptySeq DEF Init
  <2> QED BY <1>1, <1>2, <1>3, <2>1 DEF Init, TablesOK
<1>5. BoundsOK /\ RecountOK
  BY CycleAssumption DEF Init, BoundsOK, RecountOK
<1>6. \A i \in Issues : DOMAIN after[i] = {}
  BY DEF Init
<1>7. ConsumerOK
  BY <1>6 DEF Init, ConsumerOK, HandOK
<1>8. SnapInv
  BY <1>2, <1>3, <1>6 DEF Init, SnapInv, InSync, Pending
<1> QED BY <1>4, <1>5, <1>7, <1>8 DEF CyclesInv

\* Every step keeps both.
LEMMA InvSteps == CyclesInv /\ SnapInv /\ [Next]_vars => CyclesInv' /\ SnapInv'
<1> SUFFICES ASSUME CyclesInv, SnapInv, [Next]_vars PROVE CyclesInv' /\ SnapInv'
  OBVIOUS
<1>1. ASSUME NEW i \in Issues, Edit(i) \/ Trash(i)
      PROVE  CyclesInv' /\ SnapInv'
  BY <1>1, IssueKeeps, IssuesSync
<1>2. CASE CloseRead \/ CloseStops \/ Carry
  BY <1>2, CloseKeeps, IssuesSync
<1>3. ASSUME NEW i \in Issues, Take(i) \/ RecordIds(i) \/ Claim(i) \/ Ack(i)
      PROVE  CyclesInv' /\ SnapInv'
  <2>1. UNCHANGED <<cycle, after, snapshot, faults, recounts, recount>>
    BY <1>3 DEF Take, RecordIds, Claim, Ack, At
  <2>2. recounts' \in Nat /\ recounts' >= recounts
    BY <2>1, CycleAssumption DEF CyclesInv, BoundsOK
  <2> QED BY <1>3, <2>1, <2>2, HandKeeps, SnapStays
<1>4. ASSUME NEW i \in Issues, Move(i) \/ Snapshot(i)
      PROVE  CyclesInv' /\ SnapInv'
  BY <1>4, MoveKeeps, SnapshotKeeps
<1>5. ASSUME NEW i \in Issues, MoveFails(i) \/ Crash(i)
      PROVE  CyclesInv' /\ SnapInv'
  BY <1>5, StopKeeps DEF SnapInv
<1>6. CASE (\E c \in Cycles : RecountRead(c)) \/ RecountCount
  BY <1>6, RecountReads, SnapStays DEF consumer
<1>7. CASE RecountWrite \/ RecountSnapshot
  BY <1>7, RecountWriteKeeps, RecountSnapshotKeeps
<1>8. CASE UNCHANGED vars
  <2>1. CyclesInv'
    BY <1>8 DEF vars, consumer, CyclesInv, TablesOK, BoundsOK, ConsumerOK, HandOK, RecountOK
  <2>2. recounts' \in Nat /\ recounts' >= recounts
    BY <1>8, CycleAssumption DEF vars, CyclesInv, BoundsOK
  <2> QED BY <1>8, <2>1, <2>2, SnapStays DEF vars, consumer
<1> QED BY <1>1, <1>2, <1>3, <1>4, <1>5, <1>6, <1>7, <1>8 DEF Next, Consume, Recount

\* Counters stay numbers, and a record in hand is one that moves a cycle, whatever is
\* edited, carried, recounted or stopped.
THEOREM TypeCorrect == Spec => []TypeOK
<1>1. CyclesInv => TypeOK
  BY InvTypes
<1> QED BY <1>1, InvStarts, InvSteps, PTL DEF Spec

\* Once nobody has a snapshot still to write the day's is the cycle's counters, whatever
\* order the moves of different issues and a recount wrote theirs in: the revision each
\* row came back with decides, and the last of them is always in hand or written.
THEOREM SnapshotHolds == Spec => []SnapshotCurrent
<1>1. CyclesInv /\ SnapInv => SnapshotCurrent
  <2> SUFFICES ASSUME CyclesInv, SnapInv, NEW c \in Cycles, faults = 0, cycle[c].rev > 0,
                      \A i \in Issues : c \notin DOMAIN after[i],
                      recounts = 0 \/ (c # Ended /\ recount.pc # "snapshot")
               PROVE  snapshot[c] = cycle[c]
    BY DEF SnapshotCurrent
  <2>1. ~Pending(c)
    BY DEF Pending, CyclesInv, RecountOK
  <2>2. ~(c = Ended /\ recounts > 0)
    OBVIOUS
  <2>3. InSync(snapshot[c], c) /\ ~(snapshot[c].rev < cycle[c].rev)
    BY <2>1, <2>2 DEF SnapInv
  <2>4. snapshot[c].rev \in Nat /\ cycle[c].rev \in Nat
    BY DEF CyclesInv, TablesOK, CycleRow
  <2> QED BY <2>3, <2>4 DEF InSync
<1> QED BY <1>1, InvStarts, InvSteps, PTL DEF Spec

-----------------------------------------------------------------------------
(* The counters: what is still owed.                                       *)

\* What is owed of a counter is some of the records of the stream.
LEMMA OwesIs ==
  ASSUME NEW c, NEW k, NEW d
  PROVE  /\ \A i \in Issues : \A n : <<i, n>> \in Owes(c, k, d) <=>
              n \in Unapplied(i, c) /\ Delta(stream[i][n], c, k) = d
         /\ \A p \in Owes(c, k, d) : \E i \in Issues : \E n \in DOMAIN stream[i] : p = <<i, n>>
         /\ (\A i \in Issues : \A n : <<i, n>> \in Owes(c, k, d) <=>
               n \in Unapplied(i, c) /\ Delta(stream[i][n], c, k) = d)'
         /\ (\A p \in Owes(c, k, d) : \E i \in Issues : \E n \in DOMAIN stream[i] : p = <<i, n>>)'
BY DEF Owes, Unapplied

\* It moves the counter by one, up or down, or not at all.
LEMMA DeltaIs ==
  ASSUME NEW r, NEW c, NEW k
  PROVE  /\ Delta(r, c, k) \in {-1, 0, 1}
         /\ k \notin Buckets => Delta(r, c, k) # -1
<1>1. Share(r.new, c, k) \in {0, 1} /\ Share(r.old, c, k) \in {0, 1}
  BY DEF Share
<1>2. Share(r.new, c, k) - Share(r.old, c, k) \in {-1, 0, 1}
  BY <1>1
<1>3. CASE k \in {"carried_out", "carried_in"}
  BY <1>3 DEF Delta
<1>4. CASE k \notin {"carried_out", "carried_in"}
  <2>1. Delta(r, c, k) = Share(r.new, c, k) - Share(r.old, c, k)
    BY <1>4 DEF Delta
  <2>2. k \notin Buckets => Delta(r, c, k) = 0
    <3> HAVE k \notin Buckets
    <3>1. Share(r.new, c, k) = 0 /\ Share(r.old, c, k) = 0
      BY DEF Share, Buckets
    <3> QED BY <2>1, <3>1
  <2> QED BY <1>2, <2>1, <2>2
<1> QED BY <1>3, <1>4

LEMMA OwesFinite ==
  ASSUME CyclesInv, NEW c, NEW k, NEW d
  PROVE  IsFiniteSet(Owes(c, k, d))
<1> DEFINE part(i) == {i} \X {n \in Unapplied(i, c) : Delta(stream[i][n], c, k) = d}
           parts == {part(i) : i \in Issues}
           f == [i \in Issues |-> part(i)]
<1>1. ASSUME NEW i \in Issues
      PROVE  IsFiniteSet(part(i))
  <2>1. stream[i] \in Seq(Record)
    BY DEF CyclesInv, TablesOK
  <2>2. Len(stream[i]) \in Nat /\ DOMAIN stream[i] = 1..Len(stream[i])
    BY <2>1, LenProperties
  <2>3. {n \in Unapplied(i, c) : Delta(stream[i][n], c, k) = d} \in SUBSET (1..Len(stream[i]))
    BY <2>2 DEF Unapplied
  <2>4. IsFiniteSet(1..Len(stream[i]))
    BY <2>2, FS_Interval
  <2>5. IsFiniteSet({n \in Unapplied(i, c) : Delta(stream[i][n], c, k) = d})
    BY <2>3, <2>4, FS_Subset
  <2> QED BY <2>5, FS_Singleton, FS_Product
<1>2. f \in Surjection(Issues, parts)
  BY DEF Surjection
<1>3. IsFiniteSet(parts)
  BY <1>2, CycleAssumption, FS_Surjection
<1>4. \A T \in parts : IsFiniteSet(T)
  BY <1>1
<1>5. IsFiniteSet(UNION parts)
  <2> HIDE DEF parts
  <2> QED BY <1>3, <1>4, FS_UNION
<1> QED BY <1>5 DEF Owes

LEMMA OwedType ==
  ASSUME CyclesInv, NEW c, NEW k
  PROVE  /\ Owed(c, k) \in Int
         /\ k \notin Buckets => Owed(c, k) = Cardinality(Owes(c, k, 1))
<1>1. Cardinality(Owes(c, k, 1)) \in Nat /\ Cardinality(Owes(c, k, -1)) \in Nat
  BY OwesFinite, FS_CardinalityType
<1>2. k \notin Buckets => Owes(c, k, -1) = {}
  BY OwesIs, DeltaIs
<1> QED BY <1>1, <1>2, FS_EmptySet DEF Owed

\* A record written behind the others is owed in whole.
LEMMA OwesMore ==
  ASSUME CyclesInv, NEW i \in Issues, NEW row \in Row, Write(i, row), UNCHANGED <<claimed, todo>>,
         NEW c, NEW k, NEW d
  PROVE  LET r == [old |-> issue[i], new |-> row]
             p == <<i, Len(stream[i]) + 1>>
         IN  /\ p \notin Owes(c, k, d)
             /\ Owes(c, k, d)' = IF Delta(r, c, k) = d THEN Owes(c, k, d) \cup {p} ELSE Owes(c, k, d)
<1> DEFINE r == [old |-> issue[i], new |-> row]
           p == <<i, Len(stream[i]) + 1>>
<1>1. r \in Record /\ stream[i] \in Seq(Record)
  BY DEF CyclesInv, TablesOK, Record
<1>2. stream' = [stream EXCEPT ![i] = Append(stream[i], r)]
  BY DEF Write
<1> HIDE DEF r
<1>3. /\ Len(stream[i]) \in Nat /\ DOMAIN stream[i] = 1..Len(stream[i])
      /\ DOMAIN Append(stream[i], r) = 1..(Len(stream[i]) + 1)
      /\ \A n \in DOMAIN stream[i] : Append(stream[i], r)[n] = stream[i][n]
      /\ Append(stream[i], r)[Len(stream[i]) + 1] = r
  BY <1>1, AppendProperties, LenProperties
<1>4. stream'[i] = Append(stream[i], r) /\ \A j \in Issues \ {i} : stream'[j] = stream[j]
  BY <1>2 DEF CyclesInv, TablesOK
<1>5. claimed[i] => Len(stream[i]) # 0
  BY <1>1, LenProperties, EmptySeq DEF CyclesInv, ConsumerOK, HandOK
<1>6. Len(stream[i]) + 1 \notin DOMAIN stream[i]
  BY <1>3
<1>7. p \notin Owes(c, k, d)
  BY <1>6, OwesIs DEF Unapplied
<1>8. ASSUME NEW j \in Issues, NEW n, n \in DOMAIN stream[j]
      PROVE  /\ n \in DOMAIN stream'[j] /\ stream'[j][n] = stream[j][n]
             /\ n \in Unapplied(j, c)' <=> n \in Unapplied(j, c)
  <2>1. n \in DOMAIN stream'[j] /\ stream'[j][n] = stream[j][n]
    BY <1>3, <1>4, <1>8
  <2> QED BY <1>8, <2>1 DEF Unapplied
<1>9. Unapplied(i, c)' = Unapplied(i, c) \cup {Len(stream[i]) + 1}
  <2>1. Len(stream[i]) + 1 \in Unapplied(i, c)'
    BY <1>3, <1>4, <1>5 DEF Unapplied
  <2> QED BY <1>3, <1>4, <1>8, <2>1 DEF Unapplied
<1>10. \A j \in Issues : \A n : <<j, n>> \in Owes(c, k, d)' <=>
         <<j, n>> \in Owes(c, k, d) \/ (Delta(r, c, k) = d /\ <<j, n>> = p)
  <2> SUFFICES ASSUME NEW j \in Issues, NEW n
               PROVE  <<j, n>> \in Owes(c, k, d)' <=>
                        <<j, n>> \in Owes(c, k, d) \/ (Delta(r, c, k) = d /\ <<j, n>> = p)
    OBVIOUS
  <2>1. /\ <<j, n>> \in Owes(c, k, d) <=> n \in Unapplied(j, c) /\ Delta(stream[j][n], c, k) = d
        /\ <<j, n>> \in Owes(c, k, d)' <=> n \in Unapplied(j, c)' /\ Delta(stream'[j][n], c, k) = d
    BY OwesIs
  <2>2. CASE j = i /\ n = Len(stream[i]) + 1
    BY <1>3, <1>4, <1>7, <1>9, <2>1, <2>2
  <2>3. CASE ~(j = i /\ n = Len(stream[i]) + 1)
    <3>1. Unapplied(j, c) \subseteq DOMAIN stream[j]
      BY DEF Unapplied
    <3>2. n \in Unapplied(j, c)' => n \in DOMAIN stream[j]
      BY <1>4, <1>9, <2>3, <3>1 DEF Unapplied
    <3> QED BY <1>8, <2>1, <2>3, <3>1, <3>2
  <2> QED BY <2>2, <2>3
<1>11. Owes(c, k, d)' = IF Delta(r, c, k) = d THEN Owes(c, k, d) \cup {p} ELSE Owes(c, k, d)
  BY <1>10, OwesIs
<1> QED BY <1>7, <1>11 DEF r

\* A counter is owed what it was while no record that moves it is begun or given back.
LEMMA OwesSame ==
  ASSUME NEW c, NEW k, NEW d, d # 0, UNCHANGED stream,
         \A j \in Issues : \A n \in DOMAIN stream[j] :
           Delta(stream[j][n], c, k) # 0 => (n \in Unapplied(j, c)' <=> n \in Unapplied(j, c))
  PROVE  Owes(c, k, d)' = Owes(c, k, d)
<1>1. ASSUME NEW j \in Issues, NEW n
      PROVE  <<j, n>> \in Owes(c, k, d)' <=> <<j, n>> \in Owes(c, k, d)
  <2>1. /\ <<j, n>> \in Owes(c, k, d) <=> n \in Unapplied(j, c) /\ Delta(stream[j][n], c, k) = d
        /\ <<j, n>> \in Owes(c, k, d)' <=> n \in Unapplied(j, c)' /\ Delta(stream'[j][n], c, k) = d
    BY OwesIs
  <2>2. (n \in Unapplied(j, c) \/ n \in Unapplied(j, c)') => n \in DOMAIN stream[j]
    BY DEF Unapplied
  <2> QED BY <2>1, <2>2
<1> QED BY <1>1, OwesIs

\* The move of a cycle is owed no more.
LEMMA OwesLess ==
  ASSUME CyclesInv, NEW i \in Issues, claimed[i], stream[i] # <<>>,
         UNCHANGED <<stream, claimed>>, NEW c \in todo[i],
         todo' = [todo EXCEPT ![i] = todo[i] \ {c}], NEW k, NEW d
  PROVE  /\ Owes(c, k, d)' = Owes(c, k, d) \ {<<i, 1>>}
         /\ <<i, 1>> \in Owes(c, k, d) <=> Delta(Head(stream[i]), c, k) = d
<1>1. todo'[i] = todo[i] \ {c} /\ \A j \in Issues \ {i} : todo'[j] = todo[j]
  BY DEF CyclesInv, ConsumerOK
<1>2. 1 \in DOMAIN stream[i] /\ stream[i][1] = Head(stream[i])
  <2>1. stream[i] \in Seq(Record)
    BY DEF CyclesInv, TablesOK
  <2> QED BY <2>1, HeadTailProperties, LenProperties, EmptySeq
<1>3. 1 \in Unapplied(i, c) /\ Unapplied(i, c)' = Unapplied(i, c) \ {1}
  BY <1>1, <1>2 DEF Unapplied
<1>4. \A j \in Issues \ {i} : Unapplied(j, c)' = Unapplied(j, c)
  BY <1>1 DEF Unapplied
<1>5. \A j \in Issues : \A n :
        <<j, n>> \in Owes(c, k, d)' <=> <<j, n>> \in Owes(c, k, d) /\ <<j, n>> # <<i, 1>>
  <2> SUFFICES ASSUME NEW j \in Issues, NEW n
               PROVE  <<j, n>> \in Owes(c, k, d)' <=>
                        <<j, n>> \in Owes(c, k, d) /\ <<j, n>> # <<i, 1>>
    OBVIOUS
  <2>1. /\ <<j, n>> \in Owes(c, k, d) <=> n \in Unapplied(j, c) /\ Delta(stream[j][n], c, k) = d
        /\ <<j, n>> \in Owes(c, k, d)' <=> n \in Unapplied(j, c)' /\ Delta(stream'[j][n], c, k) = d
    BY OwesIs
  <2>2. CASE j = i
    BY <1>3, <2>1, <2>2
  <2>3. CASE j # i
    BY <1>4, <2>1, <2>3
  <2> QED BY <2>2, <2>3
<1>6. Owes(c, k, d)' = Owes(c, k, d) \ {<<i, 1>>}
  BY <1>5, OwesIs
<1>7. <<i, 1>> \in Owes(c, k, d) <=> Delta(Head(stream[i]), c, k) = d
  BY <1>2, <1>3, OwesIs
<1> QED BY <1>6, <1>7

\* The stream goes past an issue's oldest record.
Passes(i) ==
  /\ stream' = [stream EXCEPT ![i] = Tail(@)] /\ ~claimed'[i]
  /\ \A j \in Issues \ {i} : claimed'[j] = claimed[j] /\ todo'[j] = todo[j]

\* The stream goes past a record that moves the counter no more: the others move up,
\* and it is owed what it was, by the same issues.
LEMMA OwesPast ==
  ASSUME CyclesInv, NEW i \in Issues, stream[i] # <<>>,
         Passes(i), NEW c, NEW k, NEW d, d # 0,
         1 \in Unapplied(i, c) => Delta(Head(stream[i]), c, k) = 0
  PROVE  /\ Cardinality(Owes(c, k, d)') = Cardinality(Owes(c, k, d))
         /\ \A j \in Issues : \A n : <<j, n>> \in Owes(c, k, d)' =>
              \E m : <<j, m>> \in Owes(c, k, d)
<1> DEFINE S == Owes(c, k, d)
           T == Owes(c, k, d)'
           f == [p \in S |-> IF p[1] = i THEN <<i, p[2] - 1>> ELSE p]
<1>1. stream[i] \in Seq(Record)
  BY DEF CyclesInv, TablesOK
<1>2. /\ Len(stream[i]) \in Nat \ {0} /\ DOMAIN stream[i] = 1..Len(stream[i])
      /\ stream[i][1] = Head(stream[i])
      /\ DOMAIN Tail(stream[i]) = 1..(Len(stream[i]) - 1)
      /\ \A n \in 1..(Len(stream[i]) - 1) : Tail(stream[i])[n] = stream[i][n + 1]
  BY <1>1, HeadTailProperties, LenProperties, EmptySeq
<1>3. /\ stream'[i] = Tail(stream[i]) /\ ~claimed'[i]
      /\ \A j \in Issues \ {i} : stream'[j] = stream[j] /\ claimed'[j] = claimed[j] /\ todo'[j] = todo[j]
  BY DEF Passes, CyclesInv, TablesOK
<1>4. Unapplied(i, c)' = 1..(Len(stream[i]) - 1)
  BY <1>2, <1>3 DEF Unapplied
<1>5. \A n \in 2..Len(stream[i]) : n \in Unapplied(i, c)
  BY <1>2 DEF Unapplied
<1>6. \A n : <<i, n>> \in S <=> n \in 2..Len(stream[i]) /\ Delta(stream[i][n], c, k) = d
  <2> TAKE n
  <2>1. <<i, n>> \in S <=> n \in Unapplied(i, c) /\ Delta(stream[i][n], c, k) = d
    BY OwesIs
  <2>2. CASE n = 1
    BY <1>2, <2>1, <2>2
  <2>3. CASE n # 1
    <3>1. n \in Unapplied(i, c) => n \in 2..Len(stream[i])
      BY <1>2, <2>3 DEF Unapplied
    <3> QED BY <1>5, <2>1, <3>1
  <2> QED BY <2>2, <2>3
<1>7. \A n : <<i, n>> \in T <=> n \in 1..(Len(stream[i]) - 1) /\ Delta(stream[i][n + 1], c, k) = d
  <2> TAKE n
  <2>1. <<i, n>> \in Owes(c, k, d)' <=> n \in Unapplied(i, c)' /\ Delta(stream'[i][n], c, k) = d
    BY OwesIs
  <2> QED BY <1>2, <1>3, <1>4, <2>1
<1>8. ASSUME NEW j \in Issues, j # i, NEW n
      PROVE  <<j, n>> \in T <=> <<j, n>> \in S
  <2>1. /\ <<j, n>> \in Owes(c, k, d) <=> n \in Unapplied(j, c) /\ Delta(stream[j][n], c, k) = d
        /\ <<j, n>> \in Owes(c, k, d)' <=> n \in Unapplied(j, c)' /\ Delta(stream'[j][n], c, k) = d
    BY OwesIs
  <2>2. Unapplied(j, c)' = Unapplied(j, c)
    BY <1>3, <1>8 DEF Unapplied
  <2> QED BY <1>3, <1>8, <2>1, <2>2
<1>9. /\ \A p \in S : \E j \in Issues : \E n \in DOMAIN stream[j] : p = <<j, n>>
      /\ \A p \in T : \E j \in Issues : \E n \in DOMAIN stream'[j] : p = <<j, n>>
  BY OwesIs
<1>10. IsFiniteSet(S)
  BY OwesFinite
<1> HIDE DEF S, T
<1>11. ASSUME NEW p \in S
       PROVE  f[p] \in T
  <2>1. PICK j, n : j \in Issues /\ p = <<j, n>>
    BY <1>9
  <2>2. CASE j = i
    <3>1. n \in 2..Len(stream[i]) /\ Delta(stream[i][n], c, k) = d
      BY <1>6, <1>11, <2>1, <2>2
    <3>2. n - 1 \in 1..(Len(stream[i]) - 1) /\ (n - 1) + 1 = n
      BY <1>2, <3>1
    <3>3. <<i, n - 1>> \in T
      BY <1>7, <3>1, <3>2
    <3> QED BY <2>1, <2>2, <3>3
  <2>3. CASE j # i
    BY <1>8, <1>11, <2>1, <2>3
  <2> QED BY <2>2, <2>3
<1>12. ASSUME NEW p \in S, NEW q \in S, f[p] = f[q]
       PROVE  p = q
  <2>1. PICK j, n : j \in Issues /\ p = <<j, n>>
    BY <1>9
  <2>2. PICK x, m : x \in Issues /\ q = <<x, m>>
    BY <1>9
  <2>3. /\ f[p] = IF j = i THEN <<i, n - 1>> ELSE <<j, n>>
        /\ f[q] = IF x = i THEN <<i, m - 1>> ELSE <<x, m>>
    BY <2>1, <2>2
  <2>4. (j = i => n \in Int) /\ (x = i => m \in Int)
    BY <1>2, <1>6, <2>1, <2>2
  <2>5. CASE j = i
    <3>1. x = i /\ n - 1 = m - 1
      BY <1>12, <2>3, <2>5
    <3>2. n \in Int /\ m \in Int
      BY <2>4, <2>5, <3>1
    <3>3. n = m
      BY <3>1, <3>2
    <3> QED BY <2>1, <2>2, <2>5, <3>1, <3>3
  <2>6. CASE j # i
    BY <1>12, <2>1, <2>2, <2>3, <2>6
  <2> QED BY <2>5, <2>6
<1>13. ASSUME NEW q \in T
       PROVE  \E p \in S : f[p] = q
  <2>1. PICK j, n : j \in Issues /\ q = <<j, n>>
    BY <1>9
  <2>2. CASE j = i
    <3>1. n \in 1..(Len(stream[i]) - 1) /\ Delta(stream[i][n + 1], c, k) = d
      BY <1>7, <1>13, <2>1, <2>2
    <3>2. n + 1 \in 2..Len(stream[i]) /\ (n + 1) - 1 = n
      BY <1>2, <3>1
    <3>3. <<i, n + 1>> \in S
      BY <1>6, <3>1, <3>2
    <3>4. f[<<i, n + 1>>] = <<i, (n + 1) - 1>>
      BY <3>3
    <3> QED BY <2>1, <2>2, <3>2, <3>3, <3>4
  <2>3. CASE j # i
    <3>1. q \in S /\ f[q] = q
      BY <1>8, <1>13, <2>1, <2>3
    <3> QED BY <3>1
  <2> QED BY <2>2, <2>3
<1>14. f \in Bijection(S, T)
  BY <1>11, <1>12, <1>13 DEF Bijection, Injection, Surjection, IsInjective
<1>15. Cardinality(T) = Cardinality(S)
  BY <1>10, <1>14, FS_Bijection DEF ExistsBijection
<1>16. \A j \in Issues : \A n : <<j, n>> \in T => \E m : <<j, m>> \in S
  <2> SUFFICES ASSUME NEW j \in Issues, NEW n, <<j, n>> \in T
               PROVE  \E m : <<j, m>> \in S
    OBVIOUS
  <2>1. CASE j = i
    <3>1. n \in 1..(Len(stream[i]) - 1) /\ Delta(stream[i][n + 1], c, k) = d
      BY <1>7, <2>1
    <3>2. n + 1 \in 2..Len(stream[i])
      BY <1>2, <3>1
    <3> QED BY <1>6, <2>1, <3>1, <3>2
  <2>2. CASE j # i
    BY <1>8, <2>2
  <2> QED BY <2>1, <2>2
<1> QED BY <1>15, <1>16 DEF S, T

\* An issue's new row is counted where it now is, and no longer where it was.
LEMMA TallyMoves ==
  ASSUME CyclesInv, NEW i \in Issues, NEW row \in Row, Write(i, row), NEW c, NEW k
  PROVE  Tally(issue, c, k)' = Tally(issue, c, k) + Share(row, c, k) - Share(issue[i], c, k)
<1> DEFINE A == {j \in Issues : Share(issue[j], c, k) = 1}
           B == {j \in Issues : Share(issue'[j], c, k) = 1}
<1>1. issue'[i] = row /\ \A j \in Issues \ {i} : issue'[j] = issue[j]
  BY DEF Write, CyclesInv, TablesOK
<1>2. Share(row, c, k) \in {0, 1} /\ Share(issue[i], c, k) \in {0, 1}
  BY DEF Share
<1>3. IsFiniteSet(A) /\ Cardinality(A) \in Nat
  BY CycleAssumption, FS_Subset, FS_CardinalityType
<1>4. i \in A <=> Share(issue[i], c, k) = 1
  OBVIOUS
<1>5. B = IF Share(row, c, k) = 1 THEN A \cup {i} ELSE A \ {i}
  BY <1>1
<1>6. Cardinality(B) = Cardinality(A) + Share(row, c, k) - Share(issue[i], c, k)
  <2> HIDE DEF A, B
  <2>1. /\ Cardinality(A \cup {i}) = IF i \in A THEN Cardinality(A) ELSE Cardinality(A) + 1
        /\ Cardinality(A \ {i}) = IF i \in A THEN Cardinality(A) - 1 ELSE Cardinality(A)
    BY <1>3, FS_AddElement, FS_RemoveElement
  <2> QED BY <1>2, <1>3, <1>4, <1>5, <2>1
<1> QED BY <1>6 DEF Tally

-----------------------------------------------------------------------------
(* The counters: the invariant.                                            *)

\* What a consumer has in hand agrees with its claim: it has moved what it holds rows
\* of and has the rest to do, and a carry's ids are recorded before its claim is taken.
HandSteady(i) ==
  /\ pc[i] # "move" => todo[i] = {}
  /\ pc[i] \in {"move", "snapshot", "ack"} => claimed[i]
  /\ pc[i] = "move" => Moves(Head(stream[i])) \ todo[i] \subseteq DOMAIN after[i]
  /\ (claimed[i] \/ pc[i] = "claim") /\ Carried(Head(stream[i])) =>
       /\ i \in ids[Head(stream[i]).old.cycle].out
       /\ i \in ids[Head(stream[i]).new.cycle].in

\* A recount that still holds its revision and counted right would still be right.
RecountSteady ==
  /\ recount.pc \in {"count", "write"} => recount.rev <= cycle[recount.cycle].rev
  /\ \A c \in Cycles :
       recount.pc = "write" /\ recount.cycle = c /\ recount.settled /\ Held(c, recount.rev) =>
         \A k \in Buckets : recount.counts[k] + Owed(c, k) = Tally(issue, c, k)

CarryCounters == {"carried_out", "carried_in"}

Named(c, k) == IF k = "carried_out" THEN ids[c].out ELSE ids[c].in

\* The issues a cycle names as carried, and those whose carry is still owed.
Carrying(c, k) ==
  {i \in Issues : i \in Named(c, k) \/ \E n \in DOMAIN stream[i] : <<i, n>> \in Owes(c, k, 1)}

\* Together they are no more than are counted, or will be.
CarriesCounted ==
  \A c \in Cycles, k \in CarryCounters :
    <<c, k>> \notin drifted =>
      Cardinality(Carrying(c, k)) <= cycle[c].counts[k] + Owed(c, k)

HandsSteady == \A i \in Issues : HandSteady(i)

CountInv == HandsSteady /\ RecountSteady /\ ExactUnlessDrifted /\ CarriesCounted

\* One consumer's hands change, and the stream of its issue.
LEMMA OneSteady ==
  ASSUME CyclesInv, HandsSteady, NEW i \in Issues, HandSteady(i)',
         \A j \in Issues \ {i} : /\ stream'[j] = stream[j] /\ claimed'[j] = claimed[j]
                                 /\ pc'[j] = pc[j] /\ todo'[j] = todo[j] /\ after'[j] = after[j],
         \A c \in Cycles : ids[c].out \subseteq ids'[c].out /\ ids[c].in \subseteq ids'[c].in
  PROVE  HandsSteady'
<1> SUFFICES ASSUME NEW j \in Issues, j # i
             PROVE  HandSteady(j)'
  BY DEF HandsSteady
<1>1. HandSteady(j) /\ HandOK(j)
  BY DEF HandsSteady, CyclesInv, ConsumerOK
<1>2. /\ stream'[j] = stream[j] /\ claimed'[j] = claimed[j]
      /\ pc'[j] = pc[j] /\ todo'[j] = todo[j] /\ after'[j] = after[j]
  OBVIOUS
<1>3. ASSUME claimed[j] \/ pc[j] = "claim", Carried(Head(stream[j]))
      PROVE  Head(stream[j]).old.cycle \in Cycles /\ Head(stream[j]).new.cycle \in Cycles
  <2>1. Head(stream[j]) \in Record
    BY <1>1, <1>3, HeadIs DEF HandOK
  <2> QED BY <1>3, <2>1 DEF Carried, Record, Row
<1> QED BY <1>1, <1>2, <1>3 DEF HandSteady

LEMMA WriteSteady ==
  ASSUME CyclesInv, HandsSteady, NEW i \in Issues, NEW row \in Row, Write(i, row),
         UNCHANGED <<consumer, ids>>
  PROVE  HandsSteady'
<1> DEFINE r == [old |-> issue[i], new |-> row]
<1>1. r \in Record /\ stream[i] \in Seq(Record)
  BY DEF CyclesInv, TablesOK, Record
<1>2. stream' = [stream EXCEPT ![i] = Append(stream[i], r)]
  BY DEF Write
<1> HIDE DEF r
<1>3. stream[i] # <<>> => Head(Append(stream[i], r)) = Head(stream[i])
  BY <1>1, AppendProperties
<1>4. stream'[i] = Append(stream[i], r) /\ \A j \in Issues \ {i} : stream'[j] = stream[j]
  BY <1>2 DEF CyclesInv, TablesOK
<1>5. HandOK(i) /\ HandSteady(i)
  BY DEF CyclesInv, ConsumerOK, HandsSteady
<1>6. HandSteady(i)'
  <2>1. CASE stream[i] = <<>>
    BY <1>5, <2>1 DEF HandOK, HandSteady, consumer
  <2>2. CASE stream[i] # <<>>
    BY <1>3, <1>4, <1>5, <2>2 DEF HandSteady, consumer
  <2> QED BY <2>1, <2>2
<1> QED BY <1>4, <1>6, OneSteady DEF consumer

LEMMA HandsStay ==
  ASSUME CyclesInv, HandsSteady, [Next]_vars
  PROVE  HandsSteady'
<1>1. ASSUME NEW i \in Issues, Edit(i) \/ Trash(i)
      PROVE  HandsSteady'
  <2>1. issue[i] \in Row
    BY DEF CyclesInv, TablesOK
  <2>2. PICK row \in Row : Write(i, row)
    <3>1. \A c \in Cycles \cup {NoCycle}, d \in BOOLEAN : [issue[i] EXCEPT !.cycle = c, !.done = d] \in Row
      BY <2>1 DEF Row
    <3>2. [issue[i] EXCEPT !.trashed = ~issue[i].trashed] \in Row
      BY <2>1 DEF Row
    <3> QED BY <1>1, <3>1, <3>2 DEF Edit, Trash
  <2> QED BY <1>1, <2>2, WriteSteady DEF Edit, Trash
<1>2. CASE Carry
  <2>1. PICK i \in closing :
          \/ Write(i, [issue[i] EXCEPT !.cycle = Next_, !.marker = Ended])
          \/ UNCHANGED <<issue, stream>>
    BY <1>2 DEF Carry
  <2>2. i \in Issues /\ [issue[i] EXCEPT !.cycle = Next_, !.marker = Ended] \in Row
    BY CycleAssumption DEF CyclesInv, TablesOK, Row
  <2>3. CASE UNCHANGED <<issue, stream>>
    BY <1>2, <2>3 DEF Carry, HandsSteady, HandSteady, consumer
  <2> QED BY <1>2, <2>1, <2>2, <2>3, WriteSteady DEF Carry
<1>3. CASE CloseRead \/ CloseStops \/ (\E c \in Cycles : RecountRead(c)) \/ Recount \/ UNCHANGED vars
  <2>1. UNCHANGED <<stream, consumer, ids>>
    BY <1>3 DEF CloseRead, CloseStops, RecountRead, Recount, RecountCount, RecountWrite, RecountSnapshot, vars
  <2> QED BY <2>1 DEF HandsSteady, HandSteady, consumer
<1>4. ASSUME NEW i \in Issues, Consume(i) \/ MoveFails(i) \/ Crash(i)
      PROVE  HandsSteady'
  <2>1. HandOK(i) /\ HandSteady(i)
    BY DEF CyclesInv, ConsumerOK, HandsSteady
  <2>2. CASE Take(i)
    <3>1. UNCHANGED <<claimed, todo, after, ids>> /\ pc[i] = "idle" /\ stream[i] # <<>>
      BY <2>2 DEF Take, At
    <3>2. /\ \A j \in Issues \ {i} : stream'[j] = stream[j] /\ pc'[j] = pc[j]
          /\ \/ Moves(Head(stream[i])) = {} /\ pc'[i] = "idle"
             \/ /\ stream'[i] = stream[i] /\ pc'[i] = (IF Carried(Head(stream[i])) THEN "ids" ELSE "claim")
      BY <2>2, <3>1 DEF Take, To, CyclesInv, TablesOK, ConsumerOK
    <3>3. HandSteady(i)'
      BY <2>1, <3>1, <3>2 DEF HandSteady, HandOK
    <3> QED BY <3>1, <3>2, <3>3, OneSteady
  <2>3. CASE RecordIds(i)
    <3> DEFINE r == Head(stream[i])
    <3>1. /\ pc[i] = "ids" /\ UNCHANGED <<stream, claimed, todo, after>>
          /\ pc' = [pc EXCEPT ![i] = "claim"]
          /\ ids' = [ids EXCEPT ![r.old.cycle].out = @ \cup {i}, ![r.new.cycle].in = @ \cup {i}]
      BY <2>3 DEF RecordIds, At, To
    <3>2. r.old.cycle \in Cycles /\ r.new.cycle \in Cycles /\ r.old.cycle # r.new.cycle
      BY <2>1, <3>1, HeadIs DEF HandOK, Carried, Record, Row
    <3>3. pc'[i] = "claim" /\ \A j \in Issues \ {i} : pc'[j] = pc[j]
      BY <3>1 DEF CyclesInv, ConsumerOK
    <3> HIDE DEF r
    <3>4. /\ i \in ids'[r.old.cycle].out /\ i \in ids'[r.new.cycle].in
          /\ \A c \in Cycles : ids[c].out \subseteq ids'[c].out /\ ids[c].in \subseteq ids'[c].in
      BY <3>1, <3>2 DEF CyclesInv, TablesOK
    <3>5. HandSteady(i)'
      BY <2>1, <3>1, <3>3, <3>4 DEF HandSteady, r
    <3> QED BY <3>1, <3>3, <3>4, <3>5, OneSteady
  <2>4. CASE Claim(i)
    <3>1. /\ pc[i] = "claim" /\ UNCHANGED <<stream, after, ids>>
          /\ claimed'[i] = TRUE /\ todo'[i] = (IF claimed[i] THEN {} ELSE Moves(Head(stream[i])))
          /\ pc'[i] = (IF claimed[i] THEN "ack" ELSE "move")
          /\ \A j \in Issues \ {i} : claimed'[j] = claimed[j] /\ todo'[j] = todo[j] /\ pc'[j] = pc[j]
      BY <2>4 DEF Claim, At, To, CyclesInv, ConsumerOK
    <3>2. HandSteady(i)'
      BY <2>1, <3>1 DEF HandSteady
    <3> QED BY <3>1, <3>2, OneSteady
  <2>5. CASE Move(i)
    <3>1. UNCHANGED <<stream, claimed, ids>> /\ pc[i] = "move"
      BY <2>5 DEF Move, At
    <3>2. PICK c \in todo[i], moved \in CycleRow :
            /\ after' = [after EXCEPT ![i] = [x \in DOMAIN after[i] \cup {c} |-> IF x = c THEN moved ELSE after[i][x]]]
            /\ todo' = [todo EXCEPT ![i] = todo[i] \ {c}]
            /\ pc' = [pc EXCEPT ![i] = IF todo[i] = {c} THEN "snapshot" ELSE "move"]
      BY <2>5, MoveDoes
    <3>3. /\ DOMAIN after'[i] = DOMAIN after[i] \cup {c}
          /\ todo'[i] = todo[i] \ {c} /\ pc'[i] = (IF todo[i] = {c} THEN "snapshot" ELSE "move")
          /\ \A j \in Issues \ {i} : todo'[j] = todo[j] /\ pc'[j] = pc[j] /\ after'[j] = after[j]
      BY <3>2 DEF CyclesInv, ConsumerOK
    <3>4. HandSteady(i)'
      BY <2>1, <3>1, <3>3 DEF HandSteady
    <3> QED BY <3>1, <3>3, <3>4, OneSteady
  <2>6. CASE Snapshot(i)
    <3>1. UNCHANGED <<stream, claimed, todo, ids>> /\ pc[i] = "snapshot"
      BY <2>6 DEF Snapshot, At
    <3>2. PICK c \in DOMAIN after[i] :
            /\ after' = [after EXCEPT ![i] = [x \in DOMAIN after[i] \ {c} |-> after[i][x]]]
            /\ pc' = [pc EXCEPT ![i] = IF DOMAIN after[i] = {c} THEN "ack" ELSE "snapshot"]
      BY <2>6, SnapshotDoes
    <3>3. /\ pc'[i] \in {"ack", "snapshot"}
          /\ \A j \in Issues \ {i} : pc'[j] = pc[j] /\ after'[j] = after[j]
      BY <3>2 DEF CyclesInv, ConsumerOK
    <3>4. HandSteady(i)'
      BY <2>1, <3>1, <3>3 DEF HandSteady
    <3> QED BY <3>1, <3>3, <3>4, OneSteady
  <2>7. CASE Ack(i)
    <3>1. /\ pc[i] = "ack" /\ UNCHANGED <<todo, ids, after>>
          /\ claimed'[i] = FALSE /\ pc'[i] = "idle"
          /\ \A j \in Issues \ {i} :
               claimed'[j] = claimed[j] /\ stream'[j] = stream[j] /\ pc'[j] = pc[j]
      BY <2>7 DEF Ack, At, To, CyclesInv, ConsumerOK, TablesOK
    <3>2. HandSteady(i)'
      BY <2>1, <3>1 DEF HandSteady
    <3> QED BY <3>1, <3>2, OneSteady
  <2>8. CASE MoveFails(i) \/ Crash(i)
    <3>1. /\ UNCHANGED <<stream, ids>> /\ pc'[i] = "idle" /\ todo'[i] = {} /\ (claimed'[i] => claimed[i])
          /\ \A j \in Issues \ {i} : /\ claimed'[j] = claimed[j] /\ todo'[j] = todo[j]
                                   /\ pc'[j] = pc[j] /\ after'[j] = after[j]
      BY <2>8 DEF MoveFails, Crash, At, To, CyclesInv, ConsumerOK
    <3>2. HandSteady(i)'
      BY <2>1, <3>1 DEF HandSteady
    <3> QED BY <3>1, <3>2, OneSteady
  <2> QED BY <1>4, <2>2, <2>3, <2>4, <2>5, <2>6, <2>7, <2>8 DEF Consume
<1> QED BY <1>1, <1>2, <1>3, <1>4 DEF Next

-----------------------------------------------------------------------------
(* The counters: what each step does to what is owed.                      *)

\* No issue owes a counter a move that did not before.
NoNewOwing(c, k) ==
  \A i \in Issues : \A n : <<i, n>> \in Owes(c, k, 1)' =>
    \E m \in DOMAIN stream[i] : <<i, m>> \in Owes(c, k, 1)

\* A counter is owed what it was.
OwedAsWas(c, k) == Owed(c, k)' = Owed(c, k) /\ NoNewOwing(c, k)

\* One of the stream's places is none other.
LEMMA OwesPlaces ==
  ASSUME NEW c, NEW k, NEW i \in Issues, NEW n, <<i, n>> \in Owes(c, k, 1)
  PROVE  n \in DOMAIN stream[i]
<1>1. n \in Unapplied(i, c)
  BY OwesIs
<1> QED BY <1>1 DEF Unapplied

LEMMA SameOwed ==
  ASSUME NEW c, NEW k, UNCHANGED stream,
         \A j \in Issues : \A n \in DOMAIN stream[j] :
           Delta(stream[j][n], c, k) # 0 => (n \in Unapplied(j, c)' <=> n \in Unapplied(j, c))
  PROVE  OwedAsWas(c, k)
<1>1. Owes(c, k, 1)' = Owes(c, k, 1) /\ Owes(c, k, -1)' = Owes(c, k, -1)
  BY OwesSame
<1>2. NoNewOwing(c, k)
  BY <1>1, OwesPlaces DEF NoNewOwing
<1> QED BY <1>1, <1>2 DEF OwedAsWas, Owed

LEMMA PastOwed ==
  ASSUME CyclesInv, NEW i \in Issues, stream[i] # <<>>, Passes(i), NEW c, NEW k,
         1 \in Unapplied(i, c) => Delta(Head(stream[i]), c, k) = 0
  PROVE  OwedAsWas(c, k)
<1>1. /\ Cardinality(Owes(c, k, 1)') = Cardinality(Owes(c, k, 1))
      /\ \A j \in Issues : \A n : <<j, n>> \in Owes(c, k, 1)' => \E m : <<j, m>> \in Owes(c, k, 1)
  <2>1. 1 # 0
    OBVIOUS
  <2> QED BY <2>1, OwesPast
<1>2. Cardinality(Owes(c, k, -1)') = Cardinality(Owes(c, k, -1))
  <2>1. -1 # 0
    OBVIOUS
  <2> QED BY <2>1, OwesPast
<1>3. NoNewOwing(c, k)
  BY <1>1, OwesPlaces DEF NoNewOwing
<1> QED BY <1>1, <1>2, <1>3 DEF OwedAsWas, Owed

\* The record in hand is the oldest.
LEMMA HeadFirst ==
  ASSUME CyclesInv, NEW i \in Issues, stream[i] # <<>>
  PROVE  1 \in DOMAIN stream[i] /\ stream[i][1] = Head(stream[i])
<1>1. stream[i] \in Seq(Record)
  BY DEF CyclesInv, TablesOK
<1> QED BY <1>1, HeadTailProperties, LenProperties, EmptySeq

\* A record that moves a counter moves its cycle.
LEMMA MovesIs ==
  ASSUME NEW r, NEW c \in Cycles, NEW k \in Counters, Delta(r, c, k) # 0
  PROVE  c \in Moves(r)
BY DEF Moves

\* No step but a write, a move and a stop changes what is owed.
LEMMA QuietOwed ==
  ASSUME CyclesInv, HandsSteady,
         \/ CloseRead \/ CloseStops \/ (\E c \in Cycles : RecountRead(c)) \/ Recount \/ UNCHANGED vars
         \/ \E i \in Issues : Take(i) \/ RecordIds(i) \/ Claim(i) \/ Snapshot(i) \/ Ack(i),
         NEW c \in Cycles, NEW k \in Counters
  PROVE  OwedAsWas(c, k)
<1>1. CASE UNCHANGED <<stream, claimed, todo>>
  <2>1. \A j \in Issues : Unapplied(j, c)' = Unapplied(j, c)
    BY <1>1 DEF Unapplied
  <2> QED BY <1>1, <2>1, SameOwed
<1>2. CASE CloseRead \/ CloseStops \/ (\E x \in Cycles : RecountRead(x)) \/ Recount \/ UNCHANGED vars
  BY <1>1, <1>2 DEF CloseRead, CloseStops, RecountRead, Recount, RecountCount, RecountWrite,
                    RecountSnapshot, vars, consumer
<1>3. ASSUME NEW i \in Issues, Take(i) \/ RecordIds(i) \/ Claim(i) \/ Snapshot(i) \/ Ack(i)
      PROVE  OwedAsWas(c, k)
  <2>1. HandOK(i) /\ HandSteady(i)
    BY DEF CyclesInv, ConsumerOK, HandsSteady
  <2>2. CASE Take(i)
    <3>1. stream[i] # <<>> /\ UNCHANGED <<claimed, todo>> /\ pc[i] = "idle"
      BY <2>2 DEF Take, At
    <3>2. CASE UNCHANGED stream
      BY <1>1, <3>1, <3>2
    <3>3. CASE Moves(Head(stream[i])) = {} /\ stream' = [stream EXCEPT ![i] = Tail(@)]
      <4>1. ~claimed[i]
        BY <2>1, <3>3 DEF HandOK
      <4>2. Passes(i)
        BY <3>1, <3>3, <4>1 DEF Passes
      <4>3. Delta(Head(stream[i]), c, k) = 0
        BY <3>3, MovesIs
      <4> QED BY <3>1, <4>2, <4>3, PastOwed
    <3> QED BY <2>2, <3>2, <3>3 DEF Take
  <2>3. CASE RecordIds(i) \/ Snapshot(i)
    BY <1>1, <2>3 DEF RecordIds, Snapshot
  <2>4. CASE Claim(i)
    <3>1. /\ pc[i] = "claim" /\ UNCHANGED stream
          /\ claimed'[i] = TRUE /\ todo'[i] = (IF claimed[i] THEN {} ELSE Moves(Head(stream[i])))
          /\ \A j \in Issues \ {i} : claimed'[j] = claimed[j] /\ todo'[j] = todo[j]
      BY <2>4 DEF Claim, At, To, CyclesInv, ConsumerOK
    <3>2. stream[i] # <<>> /\ todo[i] = {}
      BY <2>1, <3>1 DEF HandOK, HandSteady
    <3>3. ASSUME NEW j \in Issues, NEW n \in DOMAIN stream[j], Delta(stream[j][n], c, k) # 0
          PROVE  n \in Unapplied(j, c)' <=> n \in Unapplied(j, c)
      <4>1. CASE j # i \/ n # 1
        BY <3>1, <4>1 DEF Unapplied
      <4>2. CASE j = i /\ n = 1
        <5>1. c \in Moves(Head(stream[i]))
          BY <3>2, <3>3, <4>2, HeadFirst, MovesIs
        <5> QED BY <3>1, <3>2, <4>2, <5>1 DEF Unapplied
      <4> QED BY <4>1, <4>2
    <3> QED BY <3>1, <3>3, SameOwed
  <2>5. CASE Ack(i)
    <3>1. /\ pc[i] = "ack" /\ UNCHANGED todo
          /\ stream' = [stream EXCEPT ![i] = Tail(@)]
          /\ claimed'[i] = FALSE /\ \A j \in Issues \ {i} : claimed'[j] = claimed[j]
      BY <2>5 DEF Ack, At, To, CyclesInv, ConsumerOK
    <3>2. stream[i] # <<>> /\ claimed[i] /\ todo[i] = {}
      BY <2>1, <3>1 DEF HandOK, HandSteady
    <3>3. Passes(i) /\ 1 \notin Unapplied(i, c)
      BY <3>1, <3>2 DEF Passes, Unapplied
    <3> QED BY <3>2, <3>3, PastOwed
  <2> QED BY <1>3, <2>2, <2>3, <2>4, <2>5
<1> QED BY <1>2, <1>3

\* A write is owed what its record moves.
LEMMA WriteOwed ==
  ASSUME CyclesInv, NEW i \in Issues, NEW row \in Row, Write(i, row), UNCHANGED <<claimed, todo>>,
         NEW c, NEW k
  PROVE  LET r == [old |-> issue[i], new |-> row]
         IN  /\ Owed(c, k)' = Owed(c, k) + Delta(r, c, k)
             /\ \A j \in Issues : \A n : <<j, n>> \in Owes(c, k, 1)' =>
                  <<j, n>> \in Owes(c, k, 1) \/ (j = i /\ Delta(r, c, k) = 1)
<1> DEFINE r == [old |-> issue[i], new |-> row]
           p == <<i, Len(stream[i]) + 1>>
           up == Owes(c, k, 1)
           down == Owes(c, k, -1)
<1>1. /\ p \notin up /\ Owes(c, k, 1)' = IF Delta(r, c, k) = 1 THEN up \cup {p} ELSE up
      /\ p \notin down /\ Owes(c, k, -1)' = IF Delta(r, c, k) = -1 THEN down \cup {p} ELSE down
  BY OwesMore
<1>2. IsFiniteSet(up) /\ IsFiniteSet(down) /\ Cardinality(up) \in Nat /\ Cardinality(down) \in Nat
  BY OwesFinite, FS_CardinalityType
<1>3. Delta(r, c, k) \in {-1, 0, 1}
  BY DeltaIs
<1> HIDE DEF r, up, down
<1>4. /\ Cardinality(up \cup {p}) = Cardinality(up) + 1
      /\ Cardinality(down \cup {p}) = Cardinality(down) + 1
  BY <1>1, <1>2, FS_AddElement
<1>5. /\ Cardinality(Owes(c, k, 1)') = IF Delta(r, c, k) = 1 THEN Cardinality(up) + 1 ELSE Cardinality(up)
      /\ Cardinality(Owes(c, k, -1)') = IF Delta(r, c, k) = -1 THEN Cardinality(down) + 1 ELSE Cardinality(down)
  BY <1>1, <1>4
<1>6. Cardinality(Owes(c, k, 1)') - Cardinality(Owes(c, k, -1)') =
        (Cardinality(up) - Cardinality(down)) + Delta(r, c, k)
  BY <1>2, <1>3, <1>5
<1>7. Owed(c, k)' = Owed(c, k) + Delta(r, c, k)
  BY <1>6 DEF Owed, up, down
<1>8. \A j \in Issues : \A n : <<j, n>> \in Owes(c, k, 1)' =>
        <<j, n>> \in up \/ (j = i /\ Delta(r, c, k) = 1)
  BY <1>1
<1> QED BY <1>7, <1>8 DEF r, up

\* A move puts on the counter what it was owed.
LEMMA MoveOwed ==
  ASSUME CyclesInv, HandsSteady, NEW i \in Issues, Move(i)
  PROVE  \E c \in todo[i], moved \in CycleRow :
           /\ cycle' = [cycle EXCEPT ![c] = moved] /\ moved.rev = cycle[c].rev + 1
           /\ \A k \in Counters : moved.counts[k] + Owed(c, k)' = cycle[c].counts[k] + Owed(c, k)
           /\ \A k \in Counters : NoNewOwing(c, k)
           /\ \A x \in Cycles \ {c}, k \in Counters : OwedAsWas(x, k)
<1>1. HandOK(i) /\ HandSteady(i) /\ pc[i] = "move"
  BY DEF Move, At, CyclesInv, ConsumerOK, HandsSteady
<1>2. todo[i] \in SUBSET Cycles /\ todo[i] # {} /\ claimed[i] /\ stream[i] # <<>>
  BY <1>1 DEF HandOK, HandSteady, CyclesInv, ConsumerOK
<1>3. PICK c \in Cycles : c \in todo[i] /\ c = Min(todo[i])
  BY <1>2, MinIsIn
<1> DEFINE r == Head(stream[i])
           moved == [counts |-> [k \in Counters |-> cycle[c].counts[k] + Delta(r, c, k)],
                     rev    |-> cycle[c].rev + 1]
<1>4. UNCHANGED <<stream, claimed>> /\ todo' = [todo EXCEPT ![i] = todo[i] \ {c}]
  BY <1>3 DEF Move, At
<1>11. cycle' = [cycle EXCEPT ![c] = moved]
  BY <1>3 DEF Move
<1>5. cycle[c].rev \in Nat /\ cycle[c].counts \in [Counters -> Int]
  BY <1>3 DEF CyclesInv, TablesOK, CycleRow
<1>6. \A k \in Counters : cycle[c].counts[k] \in Int /\ Delta(r, c, k) \in Int
  BY <1>5, DeltaType
<1>7. moved \in CycleRow /\ moved.rev = cycle[c].rev + 1
      /\ \A k \in Counters : moved.counts[k] = cycle[c].counts[k] + Delta(r, c, k)
  BY <1>5, <1>6 DEF CycleRow
<1>8. ASSUME NEW k \in Counters
      PROVE  Owed(c, k)' = Owed(c, k) - Delta(r, c, k) /\ NoNewOwing(c, k)
  <2> DEFINE p == <<i, 1>>
             up == Owes(c, k, 1)
             down == Owes(c, k, -1)
  <2>1. /\ Owes(c, k, 1)' = up \ {p} /\ (p \in up <=> Delta(r, c, k) = 1)
        /\ Owes(c, k, -1)' = down \ {p} /\ (p \in down <=> Delta(r, c, k) = -1)
    <3>1. /\ Owes(c, k, 1)' = Owes(c, k, 1) \ {<<i, 1>>}
          /\ <<i, 1>> \in Owes(c, k, 1) <=> Delta(Head(stream[i]), c, k) = 1
      BY <1>2, <1>3, <1>4, OwesLess
    <3>2. /\ Owes(c, k, -1)' = Owes(c, k, -1) \ {<<i, 1>>}
          /\ <<i, 1>> \in Owes(c, k, -1) <=> Delta(Head(stream[i]), c, k) = -1
      BY <1>2, <1>3, <1>4, OwesLess
    <3> QED BY <3>1, <3>2
  <2>2. IsFiniteSet(up) /\ IsFiniteSet(down) /\ Cardinality(up) \in Nat /\ Cardinality(down) \in Nat
    BY OwesFinite, FS_CardinalityType
  <2>3. Delta(r, c, k) \in {-1, 0, 1}
    BY DeltaIs
  <2>4. NoNewOwing(c, k)
    BY <2>1, OwesPlaces DEF NoNewOwing
  <2> HIDE DEF r, up, down, p
  <2>5. /\ Cardinality(up \ {p}) = IF p \in up THEN Cardinality(up) - 1 ELSE Cardinality(up)
        /\ Cardinality(down \ {p}) = IF p \in down THEN Cardinality(down) - 1 ELSE Cardinality(down)
    BY <2>2, FS_RemoveElement
  <2>6. /\ Cardinality(Owes(c, k, 1)') = IF Delta(r, c, k) = 1 THEN Cardinality(up) - 1 ELSE Cardinality(up)
        /\ Cardinality(Owes(c, k, -1)') =
             IF Delta(r, c, k) = -1 THEN Cardinality(down) - 1 ELSE Cardinality(down)
    BY <2>1, <2>5
  <2>7. Cardinality(Owes(c, k, 1)') - Cardinality(Owes(c, k, -1)') =
          (Cardinality(up) - Cardinality(down)) - Delta(r, c, k)
    BY <2>2, <2>3, <2>6
  <2> QED BY <2>4, <2>7 DEF Owed, up, down
<1>9. ASSUME NEW k \in Counters
      PROVE  moved.counts[k] + Owed(c, k)' = cycle[c].counts[k] + Owed(c, k)
  <2>1. Owed(c, k) \in Int
    BY OwedType
  <2> HIDE DEF moved, r
  <2> QED BY <1>6, <1>7, <1>8, <2>1
<1>10. ASSUME NEW x \in Cycles \ {c}, NEW k \in Counters
       PROVE  OwedAsWas(x, k)
  <2>1. todo'[i] = todo[i] \ {c} /\ \A j \in Issues \ {i} : todo'[j] = todo[j]
    BY <1>4 DEF CyclesInv, ConsumerOK
  <2>2. \A j \in Issues : Unapplied(j, x)' = Unapplied(j, x)
    BY <1>4, <2>1 DEF Unapplied
  <2> QED BY <1>4, <2>2, SameOwed
<1> HIDE DEF moved
<1>12. /\ \A k \in Counters : moved.counts[k] + Owed(c, k)' = cycle[c].counts[k] + Owed(c, k)
       /\ \A k \in Counters : NoNewOwing(c, k)
       /\ \A x \in Cycles \ {c}, k \in Counters : OwedAsWas(x, k)
  BY <1>8, <1>9, <1>10
<1> QED BY <1>3, <1>7, <1>11, <1>12

\* A stop leaves a counter wrong only when it says so, and a count of that cycle with it.
LEMMA StopOwed ==
  ASSUME CyclesInv, HandsSteady, NEW i \in Issues, MoveFails(i) \/ Crash(i),
         NEW c \in Cycles, NEW k \in Counters
  PROVE  /\ drifted \subseteq drifted'
         /\ \/ OwedAsWas(c, k)
            \/ <<c, k>> \in drifted' /\ (recount.pc = "write" /\ recount.cycle = c => ~recount'.settled)
<1> DEFINE r == Head(stream[i])
           hit == IF MoveFails(i) THEN DOMAIN after[i] ELSE todo[i]
<1>1. HandOK(i) /\ HandSteady(i) /\ drifted \subseteq drifted'
  BY DEF CyclesInv, ConsumerOK, HandsSteady, MoveFails, Crash
<1>2. UNCHANGED stream /\ todo'[i] = {} /\ pc[i] # "idle"
      /\ \A j \in Issues \ {i} : claimed'[j] = claimed[j] /\ todo'[j] = todo[j]
  BY DEF MoveFails, Crash, At, To, CyclesInv, ConsumerOK
<1>3. stream[i] # <<>>
  BY <1>1, <1>2 DEF HandOK
<1>4. CASE MoveFails(i)
  <2>1. /\ claimed'[i] = FALSE /\ pc[i] = "move"
        /\ drifted' = drifted \cup Moved(i, DOMAIN after[i])
        /\ recount' = Unsettled(DOMAIN after[i])
    BY <1>4 DEF MoveFails, At, CyclesInv, ConsumerOK
  <2>2. claimed[i] /\ Moves(r) \ todo[i] \subseteq DOMAIN after[i]
    BY <1>1, <2>1 DEF HandSteady
  <2>3. CASE c \in DOMAIN after[i] /\ Delta(r, c, k) # 0
    <3>1. <<c, k>> \in drifted'
      BY <2>1, <2>3 DEF Moved
    <3>2. recount.pc = "write" /\ recount.cycle = c => ~recount'.settled
      BY <2>1, <2>3 DEF Unsettled, CyclesInv, RecountOK, Counting, Writing, Showing
    <3> QED BY <1>1, <3>1, <3>2
  <2>4. CASE c \notin DOMAIN after[i] \/ Delta(r, c, k) = 0
    <3>1. ASSUME NEW j \in Issues, NEW n \in DOMAIN stream[j], Delta(stream[j][n], c, k) # 0
          PROVE  n \in Unapplied(j, c)' <=> n \in Unapplied(j, c)
      <4>1. CASE j # i \/ n # 1
        BY <1>2, <4>1 DEF Unapplied
      <4>2. CASE j = i /\ n = 1
        <5>1. c \in Moves(r) /\ Delta(r, c, k) # 0
          BY <1>3, <3>1, <4>2, HeadFirst, MovesIs
        <5>2. c \in todo[i]
          BY <2>2, <2>4, <5>1
        <5> QED BY <1>2, <2>1, <4>2, <5>2 DEF Unapplied
      <4> QED BY <4>1, <4>2
    <3> QED BY <1>1, <1>2, <3>1, SameOwed
  <2> QED BY <2>3, <2>4
<1>5. CASE Crash(i)
  <2>1. /\ claimed' = claimed /\ drifted' = drifted \cup Moved(i, todo[i])
        /\ recount' = Unsettled(todo[i])
    BY <1>5 DEF Crash
  <2>2. CASE c \in todo[i] /\ Delta(r, c, k) # 0
    <3>1. <<c, k>> \in drifted'
      BY <2>1, <2>2 DEF Moved
    <3>2. recount.pc = "write" /\ recount.cycle = c => ~recount'.settled
      BY <2>1, <2>2 DEF Unsettled, CyclesInv, RecountOK, Counting, Writing, Showing
    <3> QED BY <1>1, <3>1, <3>2
  <2>3. CASE c \notin todo[i] \/ Delta(r, c, k) = 0
    <3>1. ASSUME NEW j \in Issues, NEW n \in DOMAIN stream[j], Delta(stream[j][n], c, k) # 0
          PROVE  n \in Unapplied(j, c)' <=> n \in Unapplied(j, c)
      <4>1. CASE j # i \/ n # 1
        BY <1>2, <2>1, <4>1 DEF Unapplied
      <4>2. CASE j = i /\ n = 1
        <5>1. Delta(r, c, k) # 0
          BY <1>3, <3>1, <4>2, HeadFirst
        <5>2. c \notin todo[i]
          BY <2>3, <5>1
        <5> QED BY <1>2, <2>1, <4>2, <5>2 DEF Unapplied
      <4> QED BY <4>1, <4>2
    <3> QED BY <1>1, <1>2, <3>1, SameOwed
  <2> QED BY <2>2, <2>3
<1> QED BY <1>4, <1>5

-----------------------------------------------------------------------------
(* The counters: each step keeps the invariant.                            *)

\* Issues are finite, and so are those a counter carries.
LEMMA CarryingCount ==
  ASSUME NEW c, NEW k
  PROVE  /\ IsFiniteSet(Carrying(c, k)) /\ Cardinality(Carrying(c, k)) \in Nat
         /\ IsFiniteSet(Carrying(c, k)') /\ Cardinality(Carrying(c, k)') \in Nat
         /\ Carrying(c, k)' \subseteq Carrying(c, k) =>
              Cardinality(Carrying(c, k)') <= Cardinality(Carrying(c, k))
         /\ \A i : Carrying(c, k)' \subseteq Carrying(c, k) \cup {i} =>
              Cardinality(Carrying(c, k)') <= Cardinality(Carrying(c, k)) + 1
<1>1. Carrying(c, k) \in SUBSET Issues /\ Carrying(c, k)' \in SUBSET Issues
  BY DEF Carrying
<1>2. IsFiniteSet(Carrying(c, k)) /\ IsFiniteSet(Carrying(c, k)')
  BY <1>1, CycleAssumption, FS_Subset
<1>3. Cardinality(Carrying(c, k)) \in Nat /\ Cardinality(Carrying(c, k)') \in Nat
  BY <1>2, FS_CardinalityType
<1>4. Carrying(c, k)' \subseteq Carrying(c, k) =>
        Cardinality(Carrying(c, k)') <= Cardinality(Carrying(c, k))
  BY <1>2, FS_Subset
<1>5. ASSUME NEW i, Carrying(c, k)' \subseteq Carrying(c, k) \cup {i}
      PROVE  Cardinality(Carrying(c, k)') <= Cardinality(Carrying(c, k)) + 1
  <2> DEFINE S == Carrying(c, k)
             T == Carrying(c, k)'
  <2>1. IsFiniteSet(S) /\ Cardinality(S) \in Nat /\ Cardinality(T) \in Nat /\ T \in SUBSET (S \cup {i})
    BY <1>2, <1>3, <1>5
  <2> HIDE DEF S, T
  <2>2. IsFiniteSet(S \cup {i}) /\ Cardinality(S \cup {i}) <= Cardinality(S) + 1
        /\ Cardinality(S \cup {i}) \in Nat
    <3>1. /\ IsFiniteSet(S \cup {i})
          /\ Cardinality(S \cup {i}) = IF i \in S THEN Cardinality(S) ELSE Cardinality(S) + 1
      BY <2>1, FS_AddElement
    <3> QED BY <2>1, <3>1
  <2>3. Cardinality(T) <= Cardinality(S \cup {i})
    BY <2>1, <2>2, FS_Subset
  <2>4. Cardinality(T) <= Cardinality(S) + 1
    BY <2>1, <2>2, <2>3
  <2> QED BY <2>4 DEF S, T
<1> QED BY <1>2, <1>3, <1>4, <1>5

LEMMA CarryingStays ==
  ASSUME NEW c, NEW k, NoNewOwing(c, k), UNCHANGED ids
  PROVE  Carrying(c, k)' \subseteq Carrying(c, k)
BY DEF Carrying, Named, NoNewOwing

\* What the sums are made of are numbers.
LEMMA SumTypes ==
  ASSUME CyclesInv, NEW c \in Cycles, NEW k \in Counters
  PROVE  /\ cycle[c].counts[k] \in Int /\ Owed(c, k) \in Int /\ Tally(issue, c, k) \in Int
         /\ k \in CarryCounters => k \in Counters /\ k \notin Buckets
<1>1. cycle[c].counts \in [Counters -> Int]
  BY DEF CyclesInv, TablesOK, CycleRow
<1>2. Owed(c, k) \in Int /\ Tally(issue, c, k) \in Int
  BY OwedType, TallyType
<1> QED BY <1>1, <1>2 DEF CarryCounters, Buckets, Counters

\* A write adds to a bucket what it adds to what is owed.
LEMMA WriteCounts ==
  ASSUME CyclesInv, CountInv, NEW i \in Issues, NEW row \in Row, Write(i, row),
         UNCHANGED <<consumer, cycle, ids, recount, drifted>>
  PROVE  CountInv'
<1> DEFINE r == [old |-> issue[i], new |-> row]
<1>1. ASSUME NEW c, NEW k
      PROVE  /\ Owed(c, k)' = Owed(c, k) + Delta(r, c, k) /\ Owed(c, k) \in Int
             /\ \A j \in Issues : \A n : <<j, n>> \in Owes(c, k, 1)' =>
                  <<j, n>> \in Owes(c, k, 1) \/ (j = i /\ Delta(r, c, k) = 1)
  BY WriteOwed, OwedType DEF consumer
<1>2. ASSUME NEW c, NEW k \in Buckets
      PROVE  Tally(issue, c, k)' = Tally(issue, c, k) + Delta(r, c, k) /\ Tally(issue, c, k) \in Int
  <2>1. Tally(issue, c, k)' = Tally(issue, c, k) + Share(row, c, k) - Share(issue[i], c, k)
    BY TallyMoves
  <2>2. Delta(r, c, k) = Share(row, c, k) - Share(issue[i], c, k)
    BY DEF Delta, Buckets
  <2>3. Share(row, c, k) \in Int /\ Share(issue[i], c, k) \in Int /\ Tally(issue, c, k) \in Int
    BY TallyType DEF Share
  <2> QED BY <2>1, <2>2, <2>3
<1>3. \A c, k : Delta(r, c, k) \in Int
  BY DeltaType
<1> HIDE DEF r
<1>4. HandsSteady'
  BY WriteSteady DEF CountInv
<1>5. RecountSteady'
  <2> SUFFICES ASSUME NEW c \in Cycles, recount.pc = "write", recount.cycle = c, recount.settled,
                      Held(c, recount.rev), NEW k \in Buckets
               PROVE  recount.counts[k] + Owed(c, k)' = Tally(issue, c, k)'
    BY DEF CountInv, RecountSteady, Held
  <2>1. recount.counts[k] + Owed(c, k) = Tally(issue, c, k)
    BY DEF CountInv, RecountSteady
  <2>2. recount.counts[k] \in Int
    BY DEF CyclesInv, RecountOK, Counting, Writing, Showing, Buckets, Counters
  <2> QED BY <1>1, <1>2, <1>3, <2>1, <2>2
<1>6. ExactUnlessDrifted'
  <2> SUFFICES ASSUME NEW c \in Cycles, NEW k \in Buckets, <<c, k>> \notin drifted
               PROVE  cycle[c].counts[k] + Owed(c, k)' = Tally(issue, c, k)'
    BY DEF ExactUnlessDrifted
  <2>1. cycle[c].counts[k] + Owed(c, k) = Tally(issue, c, k)
    BY DEF CountInv, ExactUnlessDrifted
  <2>2. cycle[c].counts[k] \in Int
    BY SumTypes DEF Buckets, Counters
  <2> QED BY <1>1, <1>2, <1>3, <2>1, <2>2
<1>7. CarriesCounted'
  <2> SUFFICES ASSUME NEW c \in Cycles, NEW k \in CarryCounters, <<c, k>> \notin drifted
               PROVE  Cardinality(Carrying(c, k)') <= cycle[c].counts[k] + Owed(c, k)'
    BY DEF CarriesCounted
  <2>1. Cardinality(Carrying(c, k)) <= cycle[c].counts[k] + Owed(c, k)
    BY DEF CountInv, CarriesCounted
  <2>2. cycle[c].counts[k] \in Int
    BY SumTypes DEF CarryCounters, Counters
  <2>3. Delta(r, c, k) \in {0, 1}
    BY DeltaIs DEF CarryCounters, Buckets
  <2>4. Carrying(c, k)' \subseteq IF Delta(r, c, k) = 1 THEN Carrying(c, k) \cup {i} ELSE Carrying(c, k)
    <3>1. \A j \in Issues : \A n : <<j, n>> \in Owes(c, k, 1) => n \in DOMAIN stream[j]
      BY OwesPlaces
    <3> QED BY <1>1, <3>1 DEF Carrying, Named
  <2>5. Cardinality(Carrying(c, k)') <= Cardinality(Carrying(c, k)) + Delta(r, c, k)
        /\ Cardinality(Carrying(c, k)') \in Nat /\ Cardinality(Carrying(c, k)) \in Nat
    <3>1. CASE Delta(r, c, k) = 1
      BY <2>4, <3>1, CarryingCount
    <3>2. CASE Delta(r, c, k) = 0
      BY <2>4, <3>2, CarryingCount
    <3> QED BY <2>3, <3>1, <3>2
  <2> QED BY <1>1, <1>3, <2>1, <2>2, <2>5
<1> QED BY <1>4, <1>5, <1>6, <1>7 DEF CountInv

\* Where what is owed stays as it was, so does what it adds up to.
LEMMA QuietCounts ==
  ASSUME CyclesInv, CountInv, \A c \in Cycles, k \in Counters : OwedAsWas(c, k),
         UNCHANGED <<issue, cycle, drifted>>,
         \A c \in Cycles, k \in CarryCounters : Carrying(c, k)' \subseteq Carrying(c, k)
  PROVE  ExactUnlessDrifted' /\ CarriesCounted' /\ (recount' = recount => RecountSteady')
<1>1. \A c \in Cycles, k \in Counters : Owed(c, k)' = Owed(c, k)
  BY DEF OwedAsWas
<1>2. \A c \in Cycles, k \in Counters : Tally(issue, c, k)' = Tally(issue, c, k)
  BY DEF Tally
<1>3. Buckets \subseteq Counters /\ CarryCounters \subseteq Counters
  BY DEF Counters, Buckets, CarryCounters
<1>4. ExactUnlessDrifted'
  BY <1>1, <1>2, <1>3 DEF CountInv, ExactUnlessDrifted
<1>5. CarriesCounted'
  <2> SUFFICES ASSUME NEW c \in Cycles, NEW k \in CarryCounters, <<c, k>> \notin drifted
               PROVE  Cardinality(Carrying(c, k)') <= cycle[c].counts[k] + Owed(c, k)
    BY <1>1, <1>3 DEF CarriesCounted
  <2>1. Cardinality(Carrying(c, k)) <= cycle[c].counts[k] + Owed(c, k)
    BY DEF CountInv, CarriesCounted
  <2>2. Cardinality(Carrying(c, k)') <= Cardinality(Carrying(c, k))
        /\ Cardinality(Carrying(c, k)') \in Nat /\ Cardinality(Carrying(c, k)) \in Nat
    BY CarryingCount
  <2>3. cycle[c].counts[k] \in Int /\ Owed(c, k) \in Int
    BY <1>3, SumTypes
  <2> QED BY <2>1, <2>2, <2>3
<1>6. recount' = recount => RecountSteady'
  <2> HAVE recount' = recount
  <2> QED BY <1>1, <1>2, <1>3 DEF CountInv, RecountSteady, Held
<1> QED BY <1>4, <1>5, <1>6

\* A carry that names its issue is owed, or was recorded by the claim before.
LEMMA IdsCounts ==
  ASSUME CyclesInv, CountInv, NEW i \in Issues, RecordIds(i), NEW c \in Cycles, NEW k \in CarryCounters
  PROVE  Carrying(c, k)' \subseteq Carrying(c, k)
<1> DEFINE r == Head(stream[i])
<1>1. /\ pc[i] = "ids" /\ UNCHANGED <<stream, claimed, todo>>
      /\ ids' = [ids EXCEPT ![r.old.cycle].out = @ \cup {i}, ![r.new.cycle].in = @ \cup {i}]
  BY DEF RecordIds, At, To
<1>2. HandOK(i) /\ HandSteady(i)
  BY DEF CyclesInv, ConsumerOK, CountInv, HandsSteady
<1>3. stream[i] # <<>> /\ Carried(r)
  BY <1>1, <1>2 DEF HandOK
<1>4. r.old.cycle \in Cycles /\ r.new.cycle \in Cycles /\ r.old.cycle # r.new.cycle
  BY <1>3, HeadIs DEF Carried, Record, Row
<1>5. \A j \in Issues : \A n : <<j, n>> \in Owes(c, k, 1)' => <<j, n>> \in Owes(c, k, 1)
  <2>1. \A j \in Issues : Unapplied(j, c)' = Unapplied(j, c)
    BY <1>1 DEF Unapplied
  <2>2. 1 # 0
    OBVIOUS
  <2>3. Owes(c, k, 1)' = Owes(c, k, 1)
    BY <1>1, <2>1, <2>2, OwesSame
  <2> QED BY <2>3
<1>6. c = (IF k = "carried_out" THEN r.old.cycle ELSE r.new.cycle) => i \in Carrying(c, k)
  <2> HAVE c = (IF k = "carried_out" THEN r.old.cycle ELSE r.new.cycle)
  <2>1. Delta(r, c, k) = 1
    BY <1>3 DEF Delta, CarryCounters
  <2>2. CASE claimed[i]
    BY <1>2, <1>3, <2>2 DEF HandSteady, Carrying, Named, CarryCounters
  <2>3. CASE ~claimed[i]
    <3>1. 1 \in DOMAIN stream[i] /\ stream[i][1] = r
      BY <1>3, HeadFirst
    <3>2. <<i, 1>> \in Owes(c, k, 1)
      BY <2>1, <2>3, <3>1, OwesIs DEF Unapplied
    <3> QED BY <3>1, <3>2 DEF Carrying
  <2> QED BY <2>2, <2>3
<1> HIDE DEF r
<1>7. Named(c, k)' \subseteq
        Named(c, k) \cup (IF c = (IF k = "carried_out" THEN r.old.cycle ELSE r.new.cycle) THEN {i} ELSE {})
  BY <1>1, <1>4 DEF Named, CyclesInv, TablesOK
<1> QED BY <1>1, <1>5, <1>6, <1>7 DEF Carrying

\* What a move puts on a counter is owed no more, and a recount read before it is not
\* written.
LEMMA MoveCounts ==
  ASSUME CyclesInv, CountInv, NEW i \in Issues, Move(i)
  PROVE  RecountSteady' /\ ExactUnlessDrifted' /\ CarriesCounted'
<1>1. PICK c \in todo[i], moved \in CycleRow :
        /\ cycle' = [cycle EXCEPT ![c] = moved] /\ moved.rev = cycle[c].rev + 1
        /\ \A k \in Counters : moved.counts[k] + Owed(c, k)' = cycle[c].counts[k] + Owed(c, k)
        /\ \A k \in Counters : NoNewOwing(c, k)
        /\ \A x \in Cycles \ {c}, k \in Counters : OwedAsWas(x, k)
  BY MoveOwed DEF CountInv
<1>2. UNCHANGED <<issue, ids, recount, drifted>>
  BY DEF Move, At
<1>3. c \in Cycles
  BY DEF CyclesInv, ConsumerOK
<1>4. cycle'[c] = moved /\ \A x \in Cycles \ {c} : cycle'[x] = cycle[x]
  BY <1>1, <1>3 DEF CyclesInv, TablesOK
<1>5. \A x \in Cycles, k \in Counters : cycle'[x].counts[k] + Owed(x, k)' = cycle[x].counts[k] + Owed(x, k)
  BY <1>1, <1>3, <1>4 DEF OwedAsWas
<1>6. \A x \in Cycles, k \in Counters : NoNewOwing(x, k) /\ Tally(issue, x, k)' = Tally(issue, x, k)
  BY <1>1, <1>2, <1>3 DEF OwedAsWas, Tally
<1>7. Buckets \subseteq Counters /\ CarryCounters \subseteq Counters
  BY DEF Counters, Buckets, CarryCounters
<1>8. \A x \in Cycles : cycle[x].rev \in Nat /\ cycle'[x].rev >= cycle[x].rev
  BY <1>1, <1>3, <1>4 DEF CyclesInv, TablesOK, CycleRow
<1>9. RecountSteady'
  <2>1. recount.pc \in {"count", "write"} => recount.rev \in Nat /\ recount.cycle \in Cycles
    BY DEF CyclesInv, RecountOK, Counting, Writing, Showing
  <2>2. recount.pc \in {"count", "write"} => recount.rev <= cycle[recount.cycle].rev
    BY DEF CountInv, RecountSteady
  <2>3. recount.pc \in {"count", "write"} => recount.rev <= cycle'[recount.cycle].rev
    <3> SUFFICES ASSUME recount.pc \in {"count", "write"}, NEW x \in Cycles, x = recount.cycle
                 PROVE  recount.rev <= cycle'[x].rev
      BY <2>1
    <3>1. recount.rev \in Nat /\ recount.rev <= cycle[x].rev
      BY <2>1, <2>2
    <3>2. cycle'[x].rev \in Nat /\ cycle[x].rev \in Nat /\ cycle'[x].rev >= cycle[x].rev
      <4>1. moved.rev \in Nat
        BY DEF CycleRow
      <4>2. cycle'[x].rev \in Nat
        BY <1>4, <1>8, <4>1
      <4> QED BY <1>8, <4>2
    <3> QED BY <3>1, <3>2
  <2>4. ASSUME NEW x \in Cycles, recount.pc = "write", recount.cycle = x, recount.settled,
               cycle'[x].rev = recount.rev, NEW k \in Buckets
        PROVE  recount.counts[k] + Owed(x, k)' = Tally(issue, x, k)'
    <3>1. x # c
      BY <1>1, <1>4, <1>8, <2>1, <2>2, <2>4
    <3>2. Held(x, recount.rev)
      BY <1>4, <2>4, <3>1 DEF Held
    <3>3. recount.counts[k] + Owed(x, k) = Tally(issue, x, k)
      BY <2>4, <3>2 DEF CountInv, RecountSteady
    <3>4. Owed(x, k)' = Owed(x, k)
      BY <1>1, <1>7, <3>1 DEF OwedAsWas
    <3> QED BY <1>6, <1>7, <3>3, <3>4
  <2> QED BY <1>2, <2>3, <2>4 DEF RecountSteady, Held
<1>10. ExactUnlessDrifted'
  BY <1>2, <1>5, <1>6, <1>7 DEF CountInv, ExactUnlessDrifted
<1>11. CarriesCounted'
  <2> SUFFICES ASSUME NEW x \in Cycles, NEW k \in CarryCounters, <<x, k>> \notin drifted
               PROVE  Cardinality(Carrying(x, k)') <= cycle'[x].counts[k] + Owed(x, k)'
    BY <1>2 DEF CarriesCounted
  <2>1. Cardinality(Carrying(x, k)) <= cycle[x].counts[k] + Owed(x, k)
    BY DEF CountInv, CarriesCounted
  <2>2. Carrying(x, k)' \subseteq Carrying(x, k)
    BY <1>2, <1>6, <1>7, CarryingStays
  <2>3. Cardinality(Carrying(x, k)') <= Cardinality(Carrying(x, k))
        /\ Cardinality(Carrying(x, k)') \in Nat /\ Cardinality(Carrying(x, k)) \in Nat
    BY <2>2, CarryingCount
  <2>4. cycle[x].counts[k] \in Int /\ Owed(x, k) \in Int
    BY <1>7, SumTypes
  <2>5. cycle'[x].counts[k] + Owed(x, k)' = cycle[x].counts[k] + Owed(x, k)
    BY <1>5, <1>7
  <2> QED BY <2>1, <2>3, <2>4, <2>5
<1> QED BY <1>9, <1>10, <1>11

\* A stop leaves a counter as it was, or drifted.
LEMMA StopCounts ==
  ASSUME CyclesInv, CountInv, NEW i \in Issues, MoveFails(i) \/ Crash(i)
  PROVE  RecountSteady' /\ ExactUnlessDrifted' /\ CarriesCounted'
<1>1. UNCHANGED <<issue, ids, cycle>>
  BY DEF MoveFails, Crash, At
<1>2. ASSUME NEW c \in Cycles, NEW k \in Counters
      PROVE  /\ drifted \subseteq drifted'
             /\ \/ OwedAsWas(c, k)
                \/ <<c, k>> \in drifted' /\ (recount.pc = "write" /\ recount.cycle = c => ~recount'.settled)
  BY StopOwed DEF CountInv
<1>3. \A c \in Cycles, k \in Counters : Tally(issue, c, k)' = Tally(issue, c, k)
  BY <1>1 DEF Tally
<1>4. Buckets \subseteq Counters /\ CarryCounters \subseteq Counters
  BY DEF Counters, Buckets, CarryCounters
<1>5. recount' = recount \/ (recount.pc = "write" /\ recount' = [recount EXCEPT !.settled = FALSE])
  BY DEF MoveFails, Crash, Unsettled
<1>6. /\ recount'.pc = recount.pc
      /\ recount.pc \in {"count", "write"} =>
           recount.cycle \in Cycles /\ recount'.rev = recount.rev /\ recount'.cycle = recount.cycle
      /\ recount.pc = "write" =>
           recount'.counts = recount.counts /\ (recount'.settled => recount.settled)
  BY <1>5 DEF CyclesInv, RecountOK, Counting, Writing, Showing
<1>7. RecountSteady'
  <2>1. recount'.pc \in {"count", "write"} => recount'.rev <= cycle[recount'.cycle].rev
    BY <1>6 DEF CountInv, RecountSteady
  <2>2. ASSUME NEW c \in Cycles, recount'.pc = "write", recount'.cycle = c, recount'.settled,
               cycle[c].rev = recount'.rev, NEW k \in Buckets
        PROVE  recount'.counts[k] + Owed(c, k)' = Tally(issue, c, k)'
    <3>1. Owed(c, k)' = Owed(c, k)
      BY <1>2, <1>4, <1>6, <2>2 DEF OwedAsWas
    <3>2. recount.counts[k] + Owed(c, k) = Tally(issue, c, k)
      BY <1>6, <2>2 DEF CountInv, RecountSteady, Held
    <3> QED BY <1>3, <1>4, <1>6, <2>2, <3>1, <3>2
  <2> QED BY <1>1, <2>1, <2>2 DEF RecountSteady, Held
<1>8. ExactUnlessDrifted'
  <2> SUFFICES ASSUME NEW c \in Cycles, NEW k \in Buckets, <<c, k>> \notin drifted'
               PROVE  cycle[c].counts[k] + Owed(c, k)' = Tally(issue, c, k)'
    BY <1>1 DEF ExactUnlessDrifted
  <2>1. <<c, k>> \notin drifted /\ Owed(c, k)' = Owed(c, k)
    BY <1>2, <1>4 DEF OwedAsWas
  <2> QED BY <1>3, <1>4, <2>1 DEF CountInv, ExactUnlessDrifted
<1>9. CarriesCounted'
  <2> SUFFICES ASSUME NEW c \in Cycles, NEW k \in CarryCounters, <<c, k>> \notin drifted'
               PROVE  Cardinality(Carrying(c, k)') <= cycle[c].counts[k] + Owed(c, k)'
    BY <1>1 DEF CarriesCounted
  <2>1. <<c, k>> \notin drifted /\ OwedAsWas(c, k)
    BY <1>2, <1>4
  <2>2. Cardinality(Carrying(c, k)) <= cycle[c].counts[k] + Owed(c, k)
    BY <2>1 DEF CountInv, CarriesCounted
  <2>3. Cardinality(Carrying(c, k)') <= Cardinality(Carrying(c, k))
        /\ Cardinality(Carrying(c, k)') \in Nat /\ Cardinality(Carrying(c, k)) \in Nat
    BY <1>1, <2>1, CarryingStays, CarryingCount DEF OwedAsWas
  <2>4. cycle[c].counts[k] \in Int /\ Owed(c, k) \in Int
    BY <1>4, SumTypes
  <2> QED BY <2>1, <2>2, <2>3, <2>4 DEF OwedAsWas
<1> QED BY <1>7, <1>8, <1>9

\* A count of an index and a stream that are not behind is what the issues add up to.
LEMMA CountedRight ==
  ASSUME CyclesInv, CountInv, (\E c \in Cycles : RecountRead(c)) \/ RecountCount
  PROVE  RecountSteady'
<1>1. UNCHANGED <<issue, stream, consumer, cycle>>
  BY DEF RecountRead, RecountCount
<1>2. CASE \E c \in Cycles : RecountRead(c)
  <2>1. PICK c \in Cycles :
          recount' = [pc |-> "count", cycle |-> c, rev |-> cycle[c].rev, held |-> cycle[c].counts]
    BY <1>2 DEF RecountRead
  <2>2. cycle[c].rev \in Nat
    BY DEF CyclesInv, TablesOK, CycleRow
  <2> QED BY <1>1, <2>1, <2>2 DEF RecountSteady
<1>3. CASE RecountCount
  <2>1. recount \in Counting /\ recount.pc = "count"
    BY <1>3 DEF RecountCount, CyclesInv, RecountOK, Counting, Writing, Showing
  <2>2. PICK c \in Cycles, behind \in SUBSET Issues :
          /\ c = recount.cycle
          /\ LET shown == [j \in Issues |-> IF j \in behind THEN [issue[j] EXCEPT !.cycle = NoCycle] ELSE issue[j]]
                 counts == [k \in Counters |-> IF k \in Buckets THEN Tally(shown, c, k) ELSE recount.held[k]]
             IN  recount' = IF counts = recount.held THEN [pc |-> "idle"]
                            ELSE [pc |-> "write", cycle |-> c, rev |-> recount.rev, counts |-> counts,
                                  settled |-> behind = {} /\ ~Owing(c)]
    BY <1>3, <2>1 DEF RecountCount, Counting
  <2> DEFINE shown == [j \in Issues |-> IF j \in behind THEN [issue[j] EXCEPT !.cycle = NoCycle] ELSE issue[j]]
             counts == [k \in Counters |-> IF k \in Buckets THEN Tally(shown, c, k) ELSE recount.held[k]]
             settled == behind = {} /\ ~Owing(c)
  <2>3. \/ recount' = [pc |-> "idle"]
        \/ recount' = [pc |-> "write", cycle |-> c, rev |-> recount.rev, counts |-> counts, settled |-> settled]
    BY <2>2
  <2>4. recount.rev <= cycle[c].rev
    BY <2>1, <2>2 DEF CountInv, RecountSteady
  <2>5. ASSUME settled, NEW k \in Buckets
        PROVE  counts[k] + Owed(c, k)' = Tally(issue, c, k)'
    <3>1. shown = issue
      BY <2>5 DEF CyclesInv, TablesOK
    <3>2. k \in Counters
      BY DEF Buckets, Counters
    <3>3. counts[k] = Tally(issue, c, k)
      BY <3>1, <3>2
    <3>4. \A d \in {1, -1} : Owes(c, k, d) = {}
      <4> SUFFICES ASSUME NEW d \in {1, -1}, NEW j \in Issues, NEW n, <<j, n>> \in Owes(c, k, d)
                   PROVE  FALSE
        BY OwesIs
      <4>1. n \in Unapplied(j, c) /\ Delta(stream[j][n], c, k) = d
        BY OwesIs
      <4>2. c \in Moves(stream[j][n])
        BY <3>2, <4>1, MovesIs
      <4> QED BY <2>5, <4>1, <4>2 DEF Owing
    <3>5. Owed(c, k) = 0
      BY <3>4, FS_EmptySet DEF Owed
    <3>6. Owed(c, k)' = Owed(c, k) /\ Tally(issue, c, k)' = Tally(issue, c, k)
      BY <1>1, <1>3, <3>2, QuietOwed DEF CountInv, Recount, OwedAsWas, Tally
    <3>7. Tally(issue, c, k) \in Int
      BY TallyType
    <3> HIDE DEF counts
    <3> QED BY <3>3, <3>5, <3>6, <3>7
  <2> HIDE DEF counts, settled
  <2> QED BY <1>1, <2>3, <2>4, <2>5 DEF RecountSteady
<1> QED BY <1>2, <1>3

\* A recount that writes puts the buckets right, or says that it may not have, and
\* leaves the carry-over as it is.
LEMMA RecountCounts ==
  ASSUME CyclesInv, CountInv, RecountWrite
  PROVE  RecountSteady' /\ ExactUnlessDrifted' /\ CarriesCounted'
<1>1. UNCHANGED <<issue, stream, consumer, ids>>
  BY DEF RecountWrite
<1>2. \A c \in Cycles, k \in Counters :
        OwedAsWas(c, k) /\ Tally(issue, c, k)' = Tally(issue, c, k)
  BY <1>1, QuietOwed DEF CountInv, Recount, Tally
<1>3. \A c \in Cycles, k \in CarryCounters : k \in Counters /\ Carrying(c, k)' \subseteq Carrying(c, k)
  BY <1>1, <1>2, CarryingStays DEF OwedAsWas, CarryCounters, Counters
<1>4. recount \in Writing
  BY RecountWrites
<1>5. PICK c \in Cycles : c = recount.cycle /\ recount.pc = "write"
  BY <1>4 DEF Writing
<1> DEFINE counts == Healed(c, recount.counts)
           healed == [counts |-> counts, rev |-> recount.rev + 1]
<1>6. recount'.pc \in {"idle", "snapshot"}
  BY DEF RecountWrite
<1>7. RecountSteady'
  BY <1>6 DEF RecountSteady
<1>8. CASE UNCHANGED <<cycle, drifted>>
  BY <1>1, <1>2, <1>3, <1>7, <1>8, QuietCounts
<1>9. CASE /\ Held(c, recount.rev)
           /\ cycle' = [cycle EXCEPT ![c] = healed]
           /\ drifted' = IF recount.settled THEN drifted \ ({c} \X Buckets)
                                              ELSE drifted \cup ({c} \X Buckets)
  <2>1. cycle'[c].counts = counts /\ \A x \in Cycles \ {c} : cycle'[x] = cycle[x]
    BY <1>9 DEF CyclesInv, TablesOK
  <2>2. \A k \in Buckets : k \in Counters /\ counts[k] = recount.counts[k]
    BY DEF Healed, Buckets, Counters
  <2>3. \A k \in CarryCounters : counts[k] = cycle[c].counts[k]
    BY DEF Healed, Buckets, CarryCounters, Counters
  <2> HIDE DEF counts
  <2>4. ExactUnlessDrifted'
    <3> SUFFICES ASSUME NEW x \in Cycles, NEW k \in Buckets, <<x, k>> \notin drifted'
                 PROVE  cycle'[x].counts[k] + Owed(x, k)' = Tally(issue, x, k)'
      BY DEF ExactUnlessDrifted
    <3>1. Owed(x, k)' = Owed(x, k) /\ Tally(issue, x, k)' = Tally(issue, x, k)
      BY <1>2, <2>2 DEF OwedAsWas
    <3>2. CASE x = c
      <4>1. recount.settled
        BY <1>9, <3>2
      <4>2. recount.counts[k] + Owed(c, k) = Tally(issue, c, k)
        BY <1>5, <1>9, <4>1 DEF CountInv, RecountSteady
      <4> QED BY <2>1, <2>2, <3>1, <3>2, <4>2
    <3>3. CASE x # c
      <4>1. <<x, k>> \notin drifted
        BY <1>9, <3>3
      <4> QED BY <2>1, <3>1, <3>3, <4>1 DEF CountInv, ExactUnlessDrifted
    <3> QED BY <3>2, <3>3
  <2>5. CarriesCounted'
    <3> SUFFICES ASSUME NEW x \in Cycles, NEW k \in CarryCounters, <<x, k>> \notin drifted'
                 PROVE  Cardinality(Carrying(x, k)') <= cycle'[x].counts[k] + Owed(x, k)'
      BY DEF CarriesCounted
    <3>1. <<x, k>> \notin drifted
      BY <1>9 DEF CarryCounters, Buckets
    <3>2. Cardinality(Carrying(x, k)) <= cycle[x].counts[k] + Owed(x, k)
      BY <3>1 DEF CountInv, CarriesCounted
    <3>3. Cardinality(Carrying(x, k)') <= Cardinality(Carrying(x, k))
          /\ Cardinality(Carrying(x, k)') \in Nat /\ Cardinality(Carrying(x, k)) \in Nat
      BY <1>3, CarryingCount
    <3>4. cycle'[x].counts[k] = cycle[x].counts[k] /\ Owed(x, k)' = Owed(x, k)
      BY <1>2, <1>3, <2>1, <2>3 DEF OwedAsWas
    <3>5. cycle[x].counts[k] \in Int /\ Owed(x, k) \in Int
      BY <1>3, SumTypes
    <3> QED BY <3>2, <3>3, <3>4, <3>5
  <2> QED BY <1>7, <2>4, <2>5
<1> QED BY <1>5, <1>8, <1>9 DEF RecountWrite

LEMMA CountStarts == Init => CountInv
<1> SUFFICES ASSUME Init PROVE CountInv
  OBVIOUS
<1>1. \A c, k, d : Owes(c, k, d) = {}
  <2> SUFFICES ASSUME NEW c, NEW k, NEW d, NEW i \in Issues, NEW n, <<i, n>> \in Owes(c, k, d)
               PROVE  FALSE
    BY OwesIs
  <2>1. n \in DOMAIN stream[i] /\ stream[i] = <<>>
    BY OwesIs DEF Unapplied, Init
  <2> QED BY <2>1
<1>2. \A c, k : Owed(c, k) = 0
  BY <1>1, FS_EmptySet DEF Owed
<1>3. \A i \in Issues : HandSteady(i)
  BY DEF Init, HandSteady
<1>4. RecountSteady
  BY DEF Init, RecountSteady
<1>5. ASSUME NEW c \in Cycles, NEW k \in Counters
      PROVE  cycle[c].counts[k] = IF k \in Buckets THEN Tally(issue, c, k) ELSE 0
  <2> DEFINE start(x) == [y \in Counters |-> IF y \in Buckets THEN Tally(issue, x, y) ELSE 0]
  <2>1. cycle = [x \in Cycles |-> [counts |-> start(x), rev |-> 0]]
    BY DEF Init
  <2>2. start(c)[k] = IF k \in Buckets THEN Tally(issue, c, k) ELSE 0
    OBVIOUS
  <2> HIDE DEF start
  <2> QED BY <2>1, <2>2
<1>6. ExactUnlessDrifted
  <2> SUFFICES ASSUME NEW c \in Cycles, NEW k \in Buckets
               PROVE  cycle[c].counts[k] + Owed(c, k) = Tally(issue, c, k)
    BY DEF ExactUnlessDrifted
  <2>1. cycle[c].counts[k] = Tally(issue, c, k) /\ Tally(issue, c, k) \in Nat
    BY <1>5, TallyType DEF Buckets, Counters
  <2> QED BY <1>2, <2>1
<1>7. CarriesCounted
  <2> SUFFICES ASSUME NEW c \in Cycles, NEW k \in CarryCounters
               PROVE  Cardinality(Carrying(c, k)) <= cycle[c].counts[k] + Owed(c, k)
    BY DEF CarriesCounted
  <2>1. Carrying(c, k) = {}
    BY <1>1 DEF Carrying, Named, Init
  <2>2. cycle[c].counts[k] = 0
    BY <1>5 DEF CarryCounters, Buckets, Counters
  <2> QED BY <1>2, <2>1, <2>2, FS_EmptySet
<1> QED BY <1>3, <1>4, <1>6, <1>7 DEF CountInv, HandsSteady

LEMMA CountSteps == CyclesInv /\ CountInv /\ [Next]_vars => CountInv'
<1> SUFFICES ASSUME CyclesInv, CountInv, [Next]_vars PROVE CountInv'
  OBVIOUS
<1>1. HandsSteady'
  BY HandsStay DEF CountInv
<1>2. ASSUME NEW i \in Issues, Edit(i) \/ Trash(i)
      PROVE  CountInv'
  <2>1. issue[i] \in Row
    BY DEF CyclesInv, TablesOK
  <2>2. PICK row \in Row : Write(i, row)
    <3>1. \A c \in Cycles \cup {NoCycle}, d \in BOOLEAN : [issue[i] EXCEPT !.cycle = c, !.done = d] \in Row
      BY <2>1 DEF Row
    <3>2. [issue[i] EXCEPT !.trashed = ~issue[i].trashed] \in Row
      BY <2>1 DEF Row
    <3> QED BY <1>2, <3>1, <3>2 DEF Edit, Trash
  <2> QED BY <1>2, <2>2, WriteCounts DEF Edit, Trash
\* Steps that leave the rows alone, and what is owed.
<1>3. ASSUME \A c \in Cycles, k \in Counters : OwedAsWas(c, k),
             UNCHANGED <<issue, cycle, drifted, ids>>, RecountSteady' \/ recount' = recount
      PROVE  CountInv'
  <2>1. CarryCounters \subseteq Counters
    BY DEF CarryCounters, Counters
  <2>2. \A c \in Cycles, k \in CarryCounters : Carrying(c, k)' \subseteq Carrying(c, k)
    BY <1>3, <2>1, CarryingStays DEF OwedAsWas
  <2> QED BY <1>1, <1>3, <2>2, QuietCounts DEF CountInv
<1>4. CASE CloseRead \/ CloseStops \/ UNCHANGED vars
  BY <1>3, <1>4, QuietOwed DEF CountInv, CloseRead, CloseStops, vars
<1>5. CASE Carry
  <2>1. PICK i \in closing :
          \/ Write(i, [issue[i] EXCEPT !.cycle = Next_, !.marker = Ended])
          \/ UNCHANGED <<issue, stream>>
    BY <1>5 DEF Carry
  <2>2. i \in Issues /\ [issue[i] EXCEPT !.cycle = Next_, !.marker = Ended] \in Row
    BY CycleAssumption DEF CyclesInv, TablesOK, Row
  <2>3. UNCHANGED <<consumer, cycle, ids, recount, drifted>>
    BY <1>5 DEF Carry
  <2>4. CASE UNCHANGED <<issue, stream>>
    <3>1. \A c, k : OwedAsWas(c, k)
      <4> SUFFICES ASSUME NEW c, NEW k PROVE OwedAsWas(c, k)
        OBVIOUS
      <4>1. \A j \in Issues : Unapplied(j, c)' = Unapplied(j, c)
        BY <2>3, <2>4 DEF Unapplied, consumer
      <4> QED BY <2>4, <4>1, SameOwed
    <3> QED BY <1>3, <2>3, <2>4, <3>1
  <2> QED BY <2>1, <2>2, <2>3, <2>4, WriteCounts
<1>6. CASE (\E c \in Cycles : RecountRead(c)) \/ RecountCount \/ RecountSnapshot
  <2>1. UNCHANGED <<issue, cycle, drifted, ids>>
    BY <1>6 DEF RecountRead, RecountCount, RecountSnapshot
  <2>2. RecountSteady'
    BY <1>6, CountedRight DEF RecountSnapshot, RecountSteady
  <2>3. \A c \in Cycles, k \in Counters : OwedAsWas(c, k)
    BY <1>6, QuietOwed DEF CountInv, Recount
  <2> QED BY <1>3, <2>1, <2>2, <2>3
<1>7. CASE RecountWrite
  BY <1>1, <1>7, RecountCounts DEF CountInv
<1>8. ASSUME NEW i \in Issues, Consume(i) \/ MoveFails(i) \/ Crash(i)
      PROVE  CountInv'
  <2>1. CASE Take(i) \/ Claim(i) \/ Snapshot(i) \/ Ack(i)
    <3>1. UNCHANGED <<issue, cycle, drifted, ids, recount>>
      BY <2>1 DEF Take, Claim, Snapshot, Ack, At
    <3>2. \A c \in Cycles, k \in Counters : OwedAsWas(c, k)
      BY <2>1, QuietOwed DEF CountInv
    <3> QED BY <1>3, <3>1, <3>2
  <2>2. CASE RecordIds(i)
    <3>1. UNCHANGED <<issue, cycle, drifted, recount>>
      BY <2>2 DEF RecordIds, At
    <3>2. \A c \in Cycles, k \in Counters : OwedAsWas(c, k)
      BY <2>2, QuietOwed DEF CountInv
    <3>3. \A c \in Cycles, k \in CarryCounters : Carrying(c, k)' \subseteq Carrying(c, k)
      BY <2>2, IdsCounts
    <3> QED BY <1>1, <3>1, <3>2, <3>3, QuietCounts DEF CountInv
  <2>3. CASE Move(i)
    BY <1>1, <2>3, MoveCounts DEF CountInv
  <2>4. CASE MoveFails(i) \/ Crash(i)
    BY <1>1, <2>4, StopCounts DEF CountInv
  <2> QED BY <1>8, <2>1, <2>2, <2>3, <2>4 DEF Consume
<1> QED BY <1>2, <1>4, <1>5, <1>6, <1>7, <1>8 DEF Next, Recount

\* The counters of a cycle and what the stream has still to move add up to its issues,
\* whatever records come twice, out of turn or beside a recount, but for the counters a
\* fault is known to have left wrong.
THEOREM CountsHold == Spec => []ExactUnlessDrifted
<1>1. CountInv => ExactUnlessDrifted
  BY DEF CountInv
<1> QED BY <1>1, InvStarts, InvSteps, CountStarts, CountSteps, PTL DEF Spec

\* An issue a cycle names as carried is in the carry-over it counts, or the record that
\* will count it has still to come: the name is written first, and again if it has to be.
THEOREM CarriesHold == Spec => []CarriedAreCounted
<1>1. CyclesInv /\ CountInv => CarriedAreCounted
  <2> SUFFICES ASSUME CyclesInv, CountInv, NEW c \in Cycles, NEW k \in CarryCounters,
                      <<c, k>> \notin drifted
               PROVE  Cardinality(Named(c, k)) <= cycle[c].counts[k] + Owed(c, k)
    BY DEF CarriedAreCounted, CarryCounters, Named
  <2>1. Cardinality(Carrying(c, k)) <= cycle[c].counts[k] + Owed(c, k)
    BY DEF CountInv, CarriesCounted
  <2>2. Named(c, k) \in SUBSET Carrying(c, k)
    BY DEF Carrying, Named, CyclesInv, TablesOK
  <2>3. IsFiniteSet(Carrying(c, k)) /\ Cardinality(Carrying(c, k)) \in Nat
    BY CarryingCount
  <2>4. Cardinality(Named(c, k)) <= Cardinality(Carrying(c, k)) /\ Cardinality(Named(c, k)) \in Nat
    BY <2>2, <2>3, FS_Subset, FS_CardinalityType
  <2>5. cycle[c].counts[k] \in Int /\ Owed(c, k) \in Int
    BY SumTypes DEF CarryCounters, Counters
  <2> QED BY <2>1, <2>3, <2>4, <2>5
<1> QED BY <1>1, InvStarts, InvSteps, CountStarts, CountSteps, PTL DEF Spec
=============================================================================
