---------------------------- MODULE PurgePromise -----------------------------
(***************************************************************************)
(* What the purge chain promises, whatever queues, workers and retries it  *)
(* takes (common/team_purge.py, the module's docstring): rows go only      *)
(* under a purge mark, nothing comes back, and no row goes before the rows *)
(* that are found, or are authorised to go, through it.                    *)
(***************************************************************************)
CONSTANTS
  Items,   \* every row there is
  Needs    \* pairs <<a, b>>: a is found through b

VARIABLES
  marked,  \* the rows a purge mark gives up
  left     \* the rows still there

Init == marked = {} /\ left = Items

Mark == marked \subseteq marked' /\ marked' \subseteq Items /\ UNCHANGED left

Erase ==
  /\ left' \subseteq left
  /\ left \ left' \subseteq marked
  /\ \A n \in Needs : n[1] \in left' => n[2] \in left'
  /\ UNCHANGED marked

Spec == Init /\ [][Mark \/ Erase]_<<marked, left>>
=============================================================================
