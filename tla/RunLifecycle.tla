---------------------------- MODULE RunLifecycle ----------------------------
(***************************************************************************)
(* What the registry of crates/proxy/src/runtime.rs promises about every   *)
(* run, whatever its provider and its callers do: a run is inserted once,  *)
(* counted as active, finishes once and is discounted once, and a          *)
(* cancellation is delivered at most once.  RunRegistry implements this    *)
(* specification; Admission is built on it.                                *)
(***************************************************************************)
EXTENDS Naturals, FiniteSets

CONSTANT RunId

ASSUME RunIdFinite == IsFiniteSet(RunId)

VARIABLES
  phase,   \* how far each run has come
  count,   \* the activity counter
  taken    \* runs whose cancellation has been taken, to be delivered

lvars == <<phase, count, taken>>

Phases == {"absent", "inserted", "live", "settling", "settled"}

(* A start or a publication holds the lock on the map. *)
Locked == \E r \in RunId : phase[r] \in {"inserted", "settling"}

Enter(r, p) == phase' = [phase EXCEPT ![r] = p]

LInit ==
  /\ phase = [r \in RunId |-> "absent"]
  /\ count = 0
  /\ taken = {}

(* A start puts the run into the map, and counts it under the same lock. *)
Insert(r) ==
  /\ phase[r] = "absent" /\ ~Locked
  /\ Enter(r, "inserted")
  /\ UNCHANGED <<count, taken>>

Count(r) ==
  /\ phase[r] = "inserted"
  /\ Enter(r, "live")
  /\ count' = count + 1
  /\ UNCHANGED taken

(* The terminal event is published, and the run discounted under the same   *)
(* lock.                                                                    *)
Finish(r) ==
  /\ phase[r] = "live" /\ ~Locked
  /\ Enter(r, "settling")
  /\ UNCHANGED <<count, taken>>

Discount(r) ==
  /\ phase[r] = "settling"
  /\ Enter(r, "settled")
  /\ count' = count - 1
  /\ UNCHANGED taken

(* cancel of a run whose sender is still there, and cancel_all. *)
Cancel(r) ==
  /\ phase[r] \in {"live", "settled"} /\ ~Locked
  /\ r \notin taken
  /\ taken' = taken \cup {r}
  /\ UNCHANGED <<phase, count>>

CancelAll ==
  /\ ~Locked
  /\ taken' = taken \cup {r \in RunId : phase[r] = "live"}
  /\ UNCHANGED <<phase, count>>

LNext ==
  \/ \E r \in RunId : Insert(r) \/ Count(r) \/ Finish(r) \/ Discount(r) \/ Cancel(r)
  \/ CancelAll

LSpec == LInit /\ [][LNext]_lvars

(* The halves under the lock are run to their end, and a run whose          *)
(* cancellation was taken ends.                                             *)
LFairness ==
  \A r \in RunId : /\ WF_lvars(Count(r))
                   /\ WF_lvars(Discount(r))
                   /\ WF_lvars(r \in taken /\ Finish(r))

LFairSpec == LSpec /\ LFairness

-----------------------------------------------------------------------------
LTypeOK ==
  /\ phase \in [RunId -> Phases]
  /\ count \in Nat
  /\ taken \subseteq RunId

Counted == {r \in RunId : phase[r] \in {"live", "settling"}}

(* The counter is the number of runs counted and not yet discounted. *)
CountExact == count = Cardinality(Counted)
=============================================================================
