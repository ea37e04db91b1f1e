---------------------------- MODULE RunRegistry ----------------------------
(***************************************************************************)
(* RuntimeRegistry of crates/proxy/src/runtime.rs: the map of runs, the    *)
(* activity counter, the task that owns each provider run, and the         *)
(* callers that start, cancel and acknowledge runs.                        *)
(*                                                                         *)
(* A step ends where the code awaits or gives up the lock on the map.      *)
(* Two stretches under that lock touch state that is read without it, and  *)
(* are cut in two: a start inserts the run and then counts it, and the     *)
(* publication of a terminal event sets the completed flag and then        *)
(* discounts the run.  RunsUnlocked says that no task is between the       *)
(* halves.  What publish sends on the run's broadcast channel is the       *)
(* subject of Delivery.                                                    *)
(***************************************************************************)
EXTENDS LiveRun, FiniteSets

CONSTANTS RunId,          \* run ids the callers may use
          Caller,         \* connection handlers and drain tasks
          MaxSequence,    \* bound: events one run may publish
          EncodeCanFail   \* may serde_json::to_value fail on a provider event?

ASSUME RunRegistryAssumption ==
  /\ IsFiniteSet(RunId)
  /\ MaxSequence \in Nat
  /\ EncodeCanFail \in BOOLEAN

VARIABLES
  runs,       \* the BTreeMap<RunId, LiveRun>
  active,     \* ActivityState.active
  task,       \* where each run's provider task is
  event,      \* the event the provider task has received and not published
  cancelled,  \* the run's cancel oneshot has been sent
  op,         \* where each caller is: [pc, run]
  started,    \* history: the starts of each run that were answered Ok
  ended       \* history: the runs of which a cancel was answered Ok

vars == <<runs, active, task, event, cancelled, op, started, ended>>

TaskStates == {"none", "select", "publish", "cancel", "finish", "settle",
              "settle_loop", "done"}
Settles    == {"settle", "settle_loop"}   \* in publish, the run not yet discounted
CallStates == {"idle", "insert", "count", "signal", "wait"}
Kinds      == {"running", "waiting_approval"}
              \cup (IF EncodeCanFail THEN {"encode_error"} ELSE {})

Idle == [pc |-> "idle", run |-> "none"]

RunsUnlocked == /\ \A r \in RunId : task[r] \notin Settles
                /\ \A c \in Caller : op[c].pc # "count"

Store(r, run) == runs' = [runs EXCEPT ![r] = run]

Init ==
  /\ runs      = << >>
  /\ active    = 0
  /\ task      = [r \in RunId |-> "none"]
  /\ event     = [r \in RunId |-> "none"]
  /\ cancelled = [r \in RunId |-> FALSE]
  /\ op        = [c \in Caller |-> Idle]
  /\ started   = [r \in RunId |-> 0]
  /\ ended     = {}

-----------------------------------------------------------------------------
(***************************************************************************)
(* start_owned.                                                            *)
(***************************************************************************)
Insert(r) == [q \in DOMAIN runs \cup {r} |-> IF q = r THEN NewRun ELSE runs[q]]

(* Mutated form: the second look at the map is missing. *)
StartInsertUnchecked(c) ==
  /\ op[c].pc = "insert"
  /\ RunsUnlocked
  /\ runs' = Insert(op[c].run)
  /\ op' = [op EXCEPT ![c].pc = "count"]
  /\ UNCHANGED <<active, task, event, cancelled, started, ended>>

(* The look at the map under the read lock.  A start that is refused here,  *)
(* by build_request or by the launch of the provider leaves no trace.       *)
StartCheck(c, r) ==
  /\ op[c] = Idle
  /\ RunsUnlocked
  /\ r \notin DOMAIN runs
  /\ op' = [op EXCEPT ![c] = [pc |-> "insert", run |-> r]]
  /\ UNCHANGED <<runs, active, task, event, cancelled, started, ended>>

(* The second look, under the write lock: the loser drops its provider. *)
StartInsert(c) ==
  /\ op[c].pc = "insert"
  /\ RunsUnlocked
  /\ \/ /\ op[c].run \in DOMAIN runs
        /\ op' = [op EXCEPT ![c] = Idle]
        /\ UNCHANGED runs
     \/ /\ op[c].run \notin DOMAIN runs
        /\ runs' = Insert(op[c].run)
        /\ op' = [op EXCEPT ![c].pc = "count"]
  /\ UNCHANGED <<active, task, event, cancelled, started, ended>>

(* activity.started(), the end of the lock, and the spawn of the task. *)
StartCount(c) ==
  /\ op[c].pc = "count"
  /\ active' = active + 1
  /\ task' = [task EXCEPT ![op[c].run] = "select"]
  /\ started' = [started EXCEPT ![op[c].run] = @ + 1]
  /\ op' = [op EXCEPT ![c] = Idle]
  /\ UNCHANGED <<runs, event, cancelled, ended>>

-----------------------------------------------------------------------------
(***************************************************************************)
(* The provider task spawned by start_owned.                               *)
(***************************************************************************)

(* run.recv() wins the select: only while no cancellation is pending.       *)
(* Events that publish_provider ignores leave no trace and are left out.    *)
RecvEvent(r, kind) ==
  /\ task[r] = "select"
  /\ ~cancelled[r]
  /\ runs[r].latest + 1 < MaxSequence
  /\ task' = [task EXCEPT ![r] = "publish"]
  /\ event' = [event EXCEPT ![r] = kind]
  /\ UNCHANGED <<runs, active, cancelled, op, started, ended>>

(***************************************************************************)
(* publish, up to completed.set().  A publication that ends the run still  *)
(* holds the lock, at `settle`, until activity.finished(); any other sends *)
(* the task on to `next`.                                                  *)
(***************************************************************************)
Publish(r, st, settle, next) ==
  /\ RunsUnlocked
  /\ Store(r, Published(runs[r], st))
  /\ task' = [task EXCEPT ![r] = IF Finishes(runs[r], st) THEN settle ELSE next]
  /\ event' = [event EXCEPT ![r] = "none"]
  /\ UNCHANGED <<active, cancelled, op, started, ended>>

(* publish_provider.  An event that cannot be encoded publishes a failure,  *)
(* and the loop goes on: only the cancellation branch returns.              *)
PublishEvent(r) ==
  /\ task[r] = "publish"
  /\ Publish(r, IF event[r] = "encode_error" THEN "failed" ELSE event[r],
             "settle_loop", "select")

(* The select sees the cancellation first; run.cancel() is on its way. *)
SeeCancel(r) ==
  /\ task[r] = "select"
  /\ cancelled[r]
  /\ task' = [task EXCEPT ![r] = "cancel"]
  /\ UNCHANGED <<runs, active, event, cancelled, op, started, ended>>

(* run.recv() returned None; run.finish() is on its way, and the            *)
(* cancellation is not looked at any more.                                  *)
StreamEnds(r) ==
  /\ task[r] = "select"
  /\ ~cancelled[r]
  /\ task' = [task EXCEPT ![r] = "finish"]
  /\ UNCHANGED <<runs, active, event, cancelled, op, started, ended>>

(* Mutated form: the cancellation branch does not return from the loop. *)
PublishCanceledAndLoop(r) ==
  /\ task[r] = "cancel"
  /\ RunsUnlocked
  /\ Store(r, Published(runs[r], "canceled"))
  /\ active' = active - 1
  /\ task' = [task EXCEPT ![r] = "select"]
  /\ cancelled' = [cancelled EXCEPT ![r] = FALSE]
  /\ UNCHANGED <<event, op, started, ended>>

PublishCanceled(r) ==
  task[r] = "cancel" /\ Publish(r, "canceled", "settle", "done")

(* publish_finished, or publish_error when finish() or the encoding of its  *)
(* outcome fails.                                                           *)
PublishOutcome(r, st) ==
  task[r] = "finish" /\ Publish(r, st, "settle", "done")

(* activity.finished(), which saturates, and the end of the lock. *)
Settle(r) ==
  /\ task[r] \in Settles
  /\ active' = IF active > 0 THEN active - 1 ELSE 0
  /\ task' = [task EXCEPT ![r] = IF @ = "settle_loop" THEN "select" ELSE "done"]
  /\ UNCHANGED <<runs, event, cancelled, op, started, ended>>

-----------------------------------------------------------------------------
(***************************************************************************)
(* The other calls on the registry.                                        *)
(***************************************************************************)

(* Mutated form: cancel answers once the signal is sent. *)
CancelSignalAndAnswer(c) ==
  /\ op[c].pc = "signal"
  /\ cancelled' = [cancelled EXCEPT ![op[c].run] = TRUE]
  /\ ended' = ended \cup {op[c].run}
  /\ op' = [op EXCEPT ![c] = Idle]
  /\ UNCHANGED <<runs, active, task, event, started>>

(* Mutated form: the signal is dropped. *)
CancelUnsignalled(c) ==
  /\ op[c].pc = "signal"
  /\ op' = [op EXCEPT ![c].pc = "wait"]
  /\ UNCHANGED <<runs, active, task, event, cancelled, started, ended>>

(* cancel, under the lock: the sender may be taken once.  A cancel of an    *)
(* unknown run or of a run whose sender is gone is refused.                 *)
CancelTake(c, r) ==
  /\ op[c] = Idle
  /\ RunsUnlocked
  /\ r \in DOMAIN runs
  /\ runs[r].cancel
  /\ Store(r, CancelTaken(runs[r]))
  /\ op' = [op EXCEPT ![c] = [pc |-> "signal", run |-> r]]
  /\ UNCHANGED <<active, task, event, cancelled, started, ended>>

CancelSignal(c) ==
  /\ op[c].pc = "signal"
  /\ cancelled' = [cancelled EXCEPT ![op[c].run] = TRUE]
  /\ op' = [op EXCEPT ![c].pc = "wait"]
  /\ UNCHANGED <<runs, active, task, event, started, ended>>

(* wait_until_completed returns. *)
CancelDone(c) ==
  /\ op[c].pc = "wait"
  /\ runs[op[c].run].completed
  /\ ended' = ended \cup {op[c].run}
  /\ op' = [op EXCEPT ![c] = Idle]
  /\ UNCHANGED <<runs, active, task, event, cancelled, started>>

(* cancel_all: every run still active whose sender is still there. *)
CancelAll(c) ==
  LET hit == {r \in DOMAIN runs : IsActive(runs[r]) /\ runs[r].cancel}
  IN  /\ op[c] = Idle
      /\ RunsUnlocked
      /\ runs' = [r \in DOMAIN runs |-> IF r \in hit THEN CancelTaken(runs[r]) ELSE runs[r]]
      /\ cancelled' = [r \in RunId |-> cancelled[r] \/ r \in hit]
      /\ UNCHANGED <<active, task, event, op, started, ended>>

Acknowledge(c, r, through) ==
  /\ op[c] = Idle
  /\ RunsUnlocked
  /\ r \in DOMAIN runs
  /\ Store(r, Acknowledged(runs[r], through))
  /\ UNCHANGED <<active, task, event, cancelled, op, started, ended>>

-----------------------------------------------------------------------------
CallerStep(c) ==
  \/ \E r \in RunId : \/ StartCheck(c, r)
                      \/ CancelTake(c, r)
                      \/ \E n \in 0 .. MaxSequence + 1 : Acknowledge(c, r, n)
  \/ StartInsert(c)
  \/ StartCount(c)
  \/ CancelSignal(c)
  \/ CancelDone(c)
  \/ CancelAll(c)

TaskStep(r) ==
  \/ \E kind \in Kinds : RecvEvent(r, kind)
  \/ PublishEvent(r)
  \/ SeeCancel(r)
  \/ StreamEnds(r)
  \/ PublishCanceled(r)
  \/ \E st \in {"completed", "failed"} : PublishOutcome(r, st)
  \/ Settle(r)

Next == (\E c \in Caller : CallerStep(c)) \/ (\E r \in RunId : TaskStep(r))

Spec == Init /\ [][Next]_vars

(***************************************************************************)
(* The pool polls every task that can go on.  run.cancel() ends within the *)
(* abstraction's bounded fallback, and run.finish() ends once the provider *)
(* has closed its stream.  Nothing makes a provider send an event or close *)
(* its stream, and nothing makes a client call.                            *)
(***************************************************************************)
Fairness ==
  /\ \A r \in RunId :
       /\ WF_vars(PublishEvent(r)) /\ WF_vars(SeeCancel(r))
       /\ WF_vars(PublishCanceled(r)) /\ WF_vars(Settle(r))
       /\ WF_vars(\E st \in {"completed", "failed"} : PublishOutcome(r, st))
  /\ \A c \in Caller :
       /\ WF_vars(StartInsert(c)) /\ WF_vars(StartCount(c))
       /\ WF_vars(CancelSignal(c)) /\ WF_vars(CancelDone(c))

FairSpec == Spec /\ Fairness

-----------------------------------------------------------------------------
(***************************************************************************)
(* Properties.                                                             *)
(***************************************************************************)

(* Every variable has its type, and no journal outgrows MAX_REPLAY_EVENTS. *)
TypeOK ==
  /\ DOMAIN runs \subseteq RunId
  /\ \A r \in DOMAIN runs : runs[r] \in LiveRuns /\ Len(runs[r].journal) <= MaxReplay
  /\ active \in Nat
  /\ task \in [RunId -> TaskStates]
  /\ event \in [RunId -> Kinds \cup {"none"}]
  /\ cancelled \in [RunId -> BOOLEAN]
  /\ op \in [Caller -> [pc : CallStates, run : RunId \cup {"none"}]]
  /\ started \in [RunId -> Nat]
  /\ ended \subseteq RunId

(* Whatever the order of publications, overflows and acknowledgements, a    *)
(* run's journal holds exactly the events above its acknowledged cursor     *)
(* and its replay floor (push_journal, acknowledge).                        *)
JournalsExact == \A r \in DOMAIN runs : JournalExact(runs[r])

(* How far run r has come, seen from outside the registry. *)
Phase(r) ==
  IF r \notin DOMAIN runs      THEN "absent"
  ELSE IF task[r] = "none"     THEN "inserted"
  ELSE IF task[r] \in Settles  THEN "settling"
  ELSE IF IsActive(runs[r])    THEN "live"
  ELSE "settled"

(* The activity counter that decides whether the daemon may stop is the     *)
(* number of live runs: it is behind by one only while a start holds the    *)
(* lock, and ahead by one only while a publication holds it.                *)
ActivityExact ==
  active = Cardinality({r \in RunId : Phase(r) \in {"live", "settling"}})

(* The registry keeps the promise that RunLifecycle states.                 *)
Lifecycle == INSTANCE RunLifecycle
               WITH phase <- [r \in RunId |-> Phase(r)],
                    count <- active,
                    taken <- {r \in DOMAIN runs : ~runs[r].cancel}

ImplementsLifecycle     == Lifecycle!LSpec
ImplementsFairLifecycle == Lifecycle!LFairSpec

(* A run of which a cancel was accepted is in a terminal state, however     *)
(* many callers and shutdowns raced (wait_until_completed).                 *)
CancelAnsweredTerminal == \A r \in ended : ~IsActive(runs[r])

(* Of all the callers that ever start the same run id, one at most is told  *)
(* that its provider was accepted.                                          *)
StartAcceptedOnce == \A r \in RunId : started[r] <= 1

(* Once a run has reached a terminal state its state and its last sequence  *)
(* never change: no event follows the terminal one.                         *)
TerminalIsFinal ==
  [][\A r \in DOMAIN runs : ~IsActive(runs[r]) =>
       /\ runs'[r].state  = runs[r].state
       /\ runs'[r].latest = runs[r].latest]_vars

(* debug_assert!(previous > 0, "a run finished without being active") in    *)
(* RunActivity::finished.                                                   *)
FinishedWasActive == \A r \in RunId : task[r] \in Settles => active > 0

(* A cancellation that was sent ends the run, and the caller that sent it   *)
(* is answered, wherever the provider task was when it came.                *)
CancelEndsRun ==
  /\ \A r \in RunId : cancelled[r] ~> (r \in DOMAIN runs /\ ~IsActive(runs[r]))
  /\ \A c \in Caller : op[c].pc \in {"signal", "wait"} ~> op[c].pc = "idle"
=============================================================================
