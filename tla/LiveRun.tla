------------------------------ MODULE LiveRun ------------------------------
(***************************************************************************)
(* One entry of the registry's map: `struct LiveRun` of                    *)
(* crates/proxy/src/runtime.rs, with the functions that read and update    *)
(* it.  An event is its sequence number; what it carries is left out,      *)
(* except for the run state that its publication sets.                     *)
(***************************************************************************)
EXTENDS Naturals, Sequences

CONSTANT MaxReplay      \* MAX_REPLAY_EVENTS

ASSUME MaxReplayAssumption == MaxReplay \in Nat \ {0}

(***************************************************************************)
(* enum RunState.  No code assigns Finishing or Interrupted, but           *)
(* is_active_state and cancel_all name the first.                          *)
(***************************************************************************)
ActiveStates   == {"starting", "running", "waiting_approval", "finishing"}
TerminalStates == {"completed", "failed", "canceled", "interrupted"}
RunStates      == ActiveStates \cup TerminalStates

LiveRuns == [state     : RunStates,
             latest    : Nat,        \* snapshot.latest_sequence
             acked     : Nat,        \* snapshot.acknowledged_sequence
             journal   : Seq(Nat),
             floor     : Nat,        \* replay_floor
             cancel    : BOOLEAN,    \* the cancel sender is still in its Option
             completed : BOOLEAN]    \* the completed Flag

NewRun == [state |-> "starting", latest |-> 0, acked |-> 0, journal |-> <<>>,
           floor |-> 0, cancel |-> TRUE, completed |-> FALSE]

Larger(a, b) == IF a >= b THEN a ELSE b
Smaller(a, b) == IF a <= b THEN a ELSE b

IsActive(run) == run.state \in ActiveStates

-----------------------------------------------------------------------------
(* Mutated form: the journal is never trimmed. *)
PushUntrimmed(run, s) == [run EXCEPT !.journal = Append(@, s)]

-----------------------------------------------------------------------------
(***************************************************************************)
(* push_journal.  At most one event is over the limit after one push, so   *)
(* the loop runs at most once.                                             *)
(***************************************************************************)
PushJournal(run, s) ==
  LET grown == Append(run.journal, s)
  IN  IF Len(grown) > MaxReplay
        THEN [run EXCEPT !.journal = Tail(grown),
                         !.floor   = Larger(@, Head(grown))]
        ELSE [run EXCEPT !.journal = grown]

(* `finished` in publish: this publication takes the run out of the active  *)
(* states.                                                                  *)
Finishes(run, st) == IsActive(run) /\ st \notin ActiveStates

(***************************************************************************)
(* publish, on the run itself: the next sequence number, the new state,    *)
(* the journal, and the completed flag on the last active step.            *)
(***************************************************************************)
Published(run, st) ==
  LET s == run.latest + 1
  IN  PushJournal([run EXCEPT !.latest    = s,
                              !.state     = st,
                              !.completed = @ \/ Finishes(run, st)], s)

(***************************************************************************)
(* What is left of a journal once the events up to `through` have been     *)
(* popped off its front (the loop of acknowledge).  The journal is         *)
(* ascending, so this is also attach's filter on sequence > after.         *)
(***************************************************************************)
After(journal, through) ==
  LET n == CHOOSE k \in 0 .. Len(journal) :
             /\ \A i \in 1 .. k : journal[i] <= through
             /\ k < Len(journal) => journal[k + 1] > through
  IN  SubSeq(journal, n + 1, Len(journal))

(* Mutated form: the acknowledgement is not clamped to the latest sequence. *)
AcknowledgedUnclamped(run, through) ==
  LET cursor == Larger(run.acked, through)
  IN  [run EXCEPT !.acked = cursor, !.journal = After(@, cursor)]

(* acknowledge, on the run itself. *)
Acknowledged(run, through) ==
  LET cursor == Larger(run.acked, Smaller(through, run.latest))
  IN  [run EXCEPT !.acked = cursor, !.journal = After(@, cursor)]

(* The test and the replay of attach. *)
ReplayExpired(run, after) == after < run.floor
Replay(run, after)        == After(run.journal, after)

(* cancel.take() on a run whose sender is still there. *)
CancelTaken(run) == [run EXCEPT !.cancel = FALSE]

-----------------------------------------------------------------------------
(***************************************************************************)
(* The journal holds, in order and without a hole, exactly the events      *)
(* above both cursors that made it shrink: the acknowledged one and the    *)
(* floor that overflow leaves behind.                                      *)
(***************************************************************************)
RetainedFrom(run) == Larger(run.acked, run.floor)

JournalExact(run) ==
  /\ RetainedFrom(run) <= run.latest
  /\ Len(run.journal) = run.latest - RetainedFrom(run)
  /\ \A i \in 1 .. Len(run.journal) : run.journal[i] = RetainedFrom(run) + i
=============================================================================
