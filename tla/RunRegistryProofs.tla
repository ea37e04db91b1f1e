------------------------- MODULE RunRegistryProofs -------------------------
(***************************************************************************)
(* The invariants of RunRegistry for any set of runs and of callers, any   *)
(* bound on the sequence and any size of the journal: its types and        *)
(* journals, its safety, and that it implements RunLifecycle.              *)
(***************************************************************************)
EXTENDS RunRegistry, LiveRunProofs, FiniteSetTheorems

(***************************************************************************)
(* The first inductive invariant, whether or not encodings fail.  TypeOK   *)
(* is not inductive: a start or a cancel in progress must name a run, and  *)
(* the publication of a received event must have one.  Acknowledge's loop  *)
(* is typed because the journal it pops is exact.                          *)
(***************************************************************************)
CallsNamed == \A c \in Caller : op[c].pc # "idle" => op[c].run \in RunId
EventKept  == \A r \in RunId : task[r] = "publish" => event[r] # "none"

TypeInv == TypeOK /\ JournalsExact /\ CallsNamed /\ EventKept

(* The same, with what is said of the map apart from the rest. *)
MapGood == /\ DOMAIN runs \subseteq RunId
           /\ \A r \in DOMAIN runs : GoodRun(runs[r])

RestTyped ==
  /\ active \in Nat
  /\ task \in [RunId -> TaskStates]
  /\ event \in [RunId -> Kinds \cup {"none"}]
  /\ cancelled \in [RunId -> BOOLEAN]
  /\ op \in [Caller -> [pc : CallStates, run : RunId \cup {"none"}]]
  /\ started \in [RunId -> Nat]
  /\ ended \subseteq RunId

LEMMA TypeInvSplit == TypeInv <=> MapGood /\ RestTyped /\ CallsNamed /\ EventKept
BY DEF TypeInv, TypeOK, JournalsExact, MapGood, RestTyped, GoodRun, BoundedRun

LEMMA TypeInvJoined == MapGood' /\ RestTyped' /\ CallsNamed' /\ EventKept' => TypeInv'
BY DEF TypeInv, TypeOK, JournalsExact, MapGood, RestTyped, GoodRun, BoundedRun,
       CallsNamed, EventKept

(* Replacing one run of the map by a good one. *)
LEMMA StoreGood ==
  ASSUME NEW r, NEW run, r \in DOMAIN runs => GoodRun(run), Store(r, run), MapGood
  PROVE  MapGood'
BY DEF Store, MapGood

(* publish of a run state keeps the map good, and is typed. *)
LEMMA PublishGood ==
  ASSUME NEW r \in RunId, NEW st \in RunStates,
         NEW settle \in Settles, NEW next \in {"select", "done"},
         Publish(r, st, settle, next), TypeInv
  PROVE  TypeInv'
<1>1. MapGood /\ RestTyped /\ CallsNamed /\ EventKept
  BY TypeInvSplit
<1>2. MapGood'
  <2>1. r \in DOMAIN runs => GoodRun(Published(runs[r], st))
    BY <1>1, PublishedGood DEF MapGood
  <2> QED
    BY <1>1, <2>1, StoreGood DEF Publish
<1>3. RestTyped' /\ CallsNamed' /\ EventKept'
  BY <1>1 DEF Publish, RestTyped, CallsNamed, EventKept, TaskStates, Settles
<1> QED
  BY <1>2, <1>3, TypeInvJoined

LEMMA TypeInvInit == Init => TypeInv
<1> SUFFICES ASSUME Init PROVE MapGood /\ RestTyped /\ CallsNamed /\ EventKept
  BY TypeInvSplit
<1>1. DOMAIN runs = {}
  BY DEF Init
<1> QED
  BY <1>1 DEF Init, MapGood, RestTyped, CallsNamed, EventKept, Idle, TaskStates, CallStates

LEMMA TypeInvNext == TypeInv /\ [Next]_vars => TypeInv'
<1> SUFFICES ASSUME TypeInv, [Next]_vars PROVE TypeInv'
  OBVIOUS
<1>0. MapGood /\ RestTyped /\ CallsNamed /\ EventKept
  BY TypeInvSplit
<1>1. ASSUME NEW c \in Caller, NEW r \in RunId, StartCheck(c, r) PROVE TypeInv'
  <2>1. MapGood' /\ EventKept'
    BY <1>0, <1>1 DEF StartCheck, MapGood, EventKept
  <2>2. RestTyped' /\ CallsNamed'
    BY <1>0, <1>1 DEF StartCheck, RestTyped, CallsNamed, CallStates
  <2> QED
    BY <2>1, <2>2, TypeInvJoined
<1>2. ASSUME NEW c \in Caller, StartInsert(c) PROVE TypeInv'
  <2>1. MapGood'
    <3>1. op[c].run \in RunId
      BY <1>0, <1>2 DEF StartInsert, CallsNamed
    <3>2. CASE UNCHANGED runs
      BY <1>0, <3>2 DEF MapGood
    <3>3. CASE runs' = Insert(op[c].run)
      BY <1>0, <3>1, <3>3, NewRunGood DEF MapGood, Insert
    <3> QED
      BY <1>2, <3>2, <3>3 DEF StartInsert
  <2>2. RestTyped' /\ CallsNamed' /\ EventKept'
    BY <1>0, <1>2 DEF StartInsert, RestTyped, CallsNamed, EventKept, CallStates, Idle
  <2> QED
    BY <2>1, <2>2, TypeInvJoined
<1>3. ASSUME NEW c \in Caller, StartCount(c) PROVE TypeInv'
  <2>1. MapGood' /\ CallsNamed' /\ EventKept'
    BY <1>0, <1>3 DEF StartCount, MapGood, RestTyped, CallsNamed, EventKept, Idle
  <2>2. RestTyped'
    <3>1. op[c].run \in RunId
      BY <1>0, <1>3 DEF StartCount, CallsNamed
    <3>2. op' \in [Caller -> [pc : CallStates, run : RunId \cup {"none"}]]
      BY <1>0, <1>3 DEF StartCount, RestTyped, CallStates, Idle
    <3>3. active' \in Nat /\ started' \in [RunId -> Nat]
      BY <1>0, <1>3, <3>1 DEF StartCount, RestTyped
    <3>4. task' \in [RunId -> TaskStates]
      BY <1>0, <1>3, <3>1 DEF StartCount, RestTyped, TaskStates
    <3> QED
      BY <1>0, <1>3, <3>2, <3>3, <3>4 DEF StartCount, RestTyped
  <2> QED
    BY <2>1, <2>2, TypeInvJoined
<1>4. ASSUME NEW c \in Caller, NEW r \in RunId, CancelTake(c, r) PROVE TypeInv'
  <2>1. MapGood'
    BY <1>0, <1>4, StoreGood, CancelTakenGood DEF CancelTake, MapGood
  <2>2. RestTyped' /\ CallsNamed' /\ EventKept'
    BY <1>0, <1>4 DEF CancelTake, RestTyped, CallsNamed, EventKept, CallStates
  <2> QED
    BY <2>1, <2>2, TypeInvJoined
<1>5. ASSUME NEW c \in Caller, CancelSignal(c) \/ CancelDone(c) PROVE TypeInv'
  <2>1. MapGood' /\ EventKept'
    BY <1>0, <1>5 DEF CancelSignal, CancelDone, MapGood, EventKept
  <2>2. CASE CancelSignal(c)
    <3>1. cancelled' \in [RunId -> BOOLEAN]
      BY <1>0, <2>2 DEF CancelSignal, RestTyped
    <3>2. op' \in [Caller -> [pc : CallStates, run : RunId \cup {"none"}]] /\ CallsNamed'
      BY <1>0, <2>2 DEF CancelSignal, RestTyped, CallsNamed, CallStates
    <3>3. RestTyped'
      BY <1>0, <2>2, <3>1, <3>2 DEF CancelSignal, RestTyped
    <3> QED
      BY <2>1, <3>2, <3>3, TypeInvJoined
  <2>3. CASE CancelDone(c)
    <3>1. ended' \subseteq RunId
      BY <1>0, <2>3 DEF CancelDone, RestTyped, CallsNamed
    <3>2. op' \in [Caller -> [pc : CallStates, run : RunId \cup {"none"}]] /\ CallsNamed'
      BY <1>0, <2>3 DEF CancelDone, RestTyped, CallsNamed, CallStates, Idle
    <3>3. RestTyped'
      BY <1>0, <2>3, <3>1, <3>2 DEF CancelDone, RestTyped
    <3> QED
      BY <2>1, <3>2, <3>3, TypeInvJoined
  <2> QED
    BY <1>5, <2>2, <2>3
<1>6. ASSUME NEW c \in Caller, CancelAll(c) PROVE TypeInv'
  <2>1. MapGood'
    BY <1>0, <1>6, CancelTakenGood DEF CancelAll, MapGood
  <2>2. RestTyped' /\ CallsNamed' /\ EventKept'
    BY <1>0, <1>6 DEF CancelAll, RestTyped, CallsNamed, EventKept
  <2> QED
    BY <2>1, <2>2, TypeInvJoined
<1>7. ASSUME NEW c \in Caller, NEW r \in RunId, NEW n \in 0 .. MaxSequence + 1,
             Acknowledge(c, r, n)
      PROVE  TypeInv'
  <2>1. n \in Nat
    BY RunRegistryAssumption
  <2>2. MapGood'
    BY <1>0, <1>7, <2>1, StoreGood, AcknowledgedGood DEF Acknowledge, MapGood
  <2>3. RestTyped' /\ CallsNamed' /\ EventKept'
    BY <1>0, <1>7 DEF Acknowledge, RestTyped, CallsNamed, EventKept
  <2> QED
    BY <2>2, <2>3, TypeInvJoined
<1>8. ASSUME NEW r \in RunId, NEW kind \in Kinds, RecvEvent(r, kind) PROVE TypeInv'
  <2>1. MapGood' /\ CallsNamed'
    BY <1>0, <1>8 DEF RecvEvent, MapGood, CallsNamed
  <2>2. RestTyped' /\ EventKept'
    BY <1>0, <1>8 DEF RecvEvent, RestTyped, EventKept, TaskStates, Kinds
  <2> QED
    BY <2>1, <2>2, TypeInvJoined
<1>9. ASSUME NEW r \in RunId, PublishEvent(r) PROVE TypeInv'
  <2> DEFINE st == IF event[r] = "encode_error" THEN "failed" ELSE event[r]
  <2>1. event[r] \in Kinds
    BY <1>0, <1>9 DEF PublishEvent, EventKept, RestTyped
  <2>2. st \in RunStates
    BY <2>1 DEF Kinds, RunStates, ActiveStates, TerminalStates
  <2>3. Publish(r, st, "settle_loop", "select")
    BY <1>9 DEF PublishEvent
  <2> QED
    BY <2>2, <2>3, PublishGood DEF Settles
<1>10. ASSUME NEW r \in RunId, SeeCancel(r) \/ StreamEnds(r) PROVE TypeInv'
  <2>1. MapGood' /\ CallsNamed'
    BY <1>0, <1>10 DEF SeeCancel, StreamEnds, MapGood, CallsNamed
  <2>2. RestTyped' /\ EventKept'
    BY <1>0, <1>10 DEF SeeCancel, StreamEnds, RestTyped, EventKept, TaskStates
  <2> QED
    BY <2>1, <2>2, TypeInvJoined
<1>11. ASSUME NEW r \in RunId, PublishCanceled(r) PROVE TypeInv'
  BY <1>11, PublishGood DEF PublishCanceled, Settles, RunStates, TerminalStates
<1>12. ASSUME NEW r \in RunId, NEW st \in {"completed", "failed"}, PublishOutcome(r, st)
       PROVE  TypeInv'
  BY <1>12, PublishGood DEF PublishOutcome, Settles, RunStates, TerminalStates
<1>13. ASSUME NEW r \in RunId, Settle(r) PROVE TypeInv'
  <2>1. MapGood' /\ CallsNamed'
    BY <1>0, <1>13 DEF Settle, MapGood, CallsNamed
  <2>2. RestTyped' /\ EventKept'
    BY <1>0, <1>13 DEF Settle, RestTyped, EventKept, TaskStates
  <2> QED
    BY <2>1, <2>2, TypeInvJoined
<1>14. CASE UNCHANGED vars
  BY <1>0, <1>14, TypeInvJoined DEF vars, MapGood, RestTyped, CallsNamed, EventKept
<1> QED
  BY <1>1, <1>2, <1>3, <1>4, <1>5, <1>6, <1>7, <1>8, <1>9, <1>10, <1>11, <1>12, <1>13,
     <1>14 DEF Next, CallerStep, TaskStep

LEMMA TypeInvAlways == Spec => []TypeInv
BY TypeInvInit, TypeInvNext, PTL DEF Spec

(***************************************************************************)
(* Whatever the callers and the providers do, and whether or not events    *)
(* can be encoded, the registry's state is well typed and no journal       *)
(* outgrows MAX_REPLAY_EVENTS.                                             *)
(***************************************************************************)
THEOREM TypeCorrect == Spec => []TypeOK
<1>1. TypeInv => TypeOK
  BY DEF TypeInv
<1> QED
  BY <1>1, TypeInvAlways, PTL

(***************************************************************************)
(* And every journal holds exactly the events above the acknowledged       *)
(* cursor and the replay floor, without a hole, so that a replay is        *)
(* complete whatever was published, trimmed and acknowledged before it.    *)
(***************************************************************************)
THEOREM JournalsAlwaysExact == Spec => []JournalsExact
<1>1. TypeInv => JournalsExact
  BY DEF TypeInv
<1> QED
  BY <1>1, TypeInvAlways, PTL

-----------------------------------------------------------------------------
(***************************************************************************)
(* The safety of RunRegistry when every provider event can be encoded.     *)
(* (When one cannot, the provider task goes on after it has published a    *)
(* failure, and none of these theorems holds: see FinishedWasActive.)      *)
(***************************************************************************)
(* The provider task has not published its terminal event. *)
Early == {"select", "publish", "cancel", "finish"}

(***************************************************************************)
(* The second inductive invariant: a run is active exactly as long as its  *)
(* task has not published the terminal event, a run without a task is one  *)
(* that a start has inserted and not counted, one step at a time holds the *)
(* lock across two steps, and the counter counts the tasks.                *)
(***************************************************************************)
TaskMatchesRun ==
  \A r \in RunId :
    /\ task[r] # "settle_loop"
    /\ r \notin DOMAIN runs => task[r] = "none"
    /\ r \in DOMAIN runs => /\ IsActive(runs[r]) <=> task[r] \in Early \cup {"none"}
                            /\ runs[r].completed <=> ~IsActive(runs[r])

StartsHeld ==
  \A c \in Caller :
    op[c].pc = "count" => op[c].run \in DOMAIN runs /\ task[op[c].run] = "none"

InsertedHeld ==
  \A r \in DOMAIN runs :
    task[r] = "none" => \E c \in Caller : op[c].pc = "count" /\ op[c].run = r

OneHolder ==
  /\ \A r, q \in RunId : task[r] = "settle" /\ task[q] = "settle" => r = q
  /\ \A c, d \in Caller : op[c].pc = "count" /\ op[d].pc = "count" => c = d
  /\ \A r \in RunId, c \in Caller : ~(task[r] = "settle" /\ op[c].pc = "count")

StartedOnce   == \A r \in RunId : started[r] = IF task[r] = "none" THEN 0 ELSE 1
CancelsKnown  == \A c \in Caller : op[c].pc \in {"signal", "wait"} => op[c].run \in DOMAIN runs
EndedTerminal == \A r \in ended : r \in DOMAIN runs /\ ~IsActive(runs[r])
TasksCounted  == active = Cardinality({r \in RunId : task[r] \in Early \cup {"settle"}})

SafeInv ==
  /\ TypeInv
  /\ TaskMatchesRun /\ StartsHeld /\ InsertedHeld /\ OneHolder
  /\ StartedOnce /\ CancelsKnown /\ EndedTerminal /\ TasksCounted

-----------------------------------------------------------------------------
(* What the parts of the invariant look at in the map. *)
SameRuns ==
  /\ DOMAIN runs' = DOMAIN runs
  /\ \A r \in DOMAIN runs : /\ IsActive(runs'[r]) <=> IsActive(runs[r])
                            /\ runs'[r].completed = runs[r].completed

LEMMA MapTyped ==
  ASSUME TypeInv
  PROVE  /\ DOMAIN runs \subseteq RunId
         /\ \A r \in DOMAIN runs : GoodRun(runs[r]) /\ runs[r] \in LiveRuns
         /\ task \in [RunId -> TaskStates]
         /\ op \in [Caller -> [pc : CallStates, run : RunId \cup {"none"}]]
         /\ ended \subseteq RunId
         /\ started \in [RunId -> Nat]
         /\ active \in Nat
<1>1. MapGood /\ RestTyped
  BY TypeInvSplit
<1> QED
  BY <1>1 DEF MapGood, RestTyped, GoodRun, BoundedRun

(* A call that changes neither a run's state nor a task, and neither begins *)
(* nor ends the second half of a start.                                     *)
LEMMA CallSafe ==
  ASSUME SafeInv, TypeInv', SameRuns, UNCHANGED <<active, task, started>>,
         NEW c \in Caller,
         op' = op \/ (/\ op[c].pc # "count"
                      /\ \E o : /\ op' = [op EXCEPT ![c] = o]
                                /\ o.pc # "count"
                                /\ o.pc \in {"signal", "wait"} => o.run \in DOMAIN runs),
         \A r \in ended' : r \in ended \/ (r \in DOMAIN runs /\ runs[r].completed)
  PROVE  SafeInv'
<1>0. /\ TaskMatchesRun /\ StartsHeld /\ InsertedHeld /\ OneHolder
      /\ StartedOnce /\ CancelsKnown /\ EndedTerminal /\ TasksCounted /\ TypeInv
  BY DEF SafeInv
<1>1. /\ DOMAIN runs \subseteq RunId
      /\ op \in [Caller -> [pc : CallStates, run : RunId \cup {"none"}]]
  BY <1>0, MapTyped
<1>2. TaskMatchesRun'
  BY <1>0 DEF TaskMatchesRun, SameRuns
<1>3. \A d \in Caller : /\ op'[d].pc = "count" <=> op[d].pc = "count"
                        /\ op[d].pc = "count" => op'[d] = op[d]
                        /\ op'[d].pc \in {"signal", "wait"} => op'[d].run \in DOMAIN runs
  BY <1>0, <1>1 DEF CancelsKnown
<1>4. StartsHeld' /\ CancelsKnown'
  BY <1>0, <1>3 DEF StartsHeld, CancelsKnown, SameRuns
<1>5. InsertedHeld'
  BY <1>0, <1>3 DEF InsertedHeld, SameRuns
<1>6. OneHolder'
  BY <1>0, <1>3 DEF OneHolder
<1>7. EndedTerminal'
  BY <1>0, <1>1 DEF EndedTerminal, TaskMatchesRun, SameRuns
<1>8. StartedOnce' /\ TasksCounted'
  BY <1>0 DEF StartedOnce, TasksCounted
<1> QED
  BY <1>2, <1>4, <1>5, <1>6, <1>7, <1>8 DEF SafeInv

(* A step of a task that stays short of the terminal event. *)
LEMMA EarlySafe ==
  ASSUME SafeInv, TypeInv', SameRuns, UNCHANGED <<active, op, started, ended>>,
         NEW r \in RunId, NEW t \in Early, task[r] \in Early,
         task' = [task EXCEPT ![r] = t]
  PROVE  SafeInv'
<1>0. /\ TaskMatchesRun /\ StartsHeld /\ InsertedHeld /\ OneHolder
      /\ StartedOnce /\ CancelsKnown /\ EndedTerminal /\ TasksCounted /\ TypeInv
  BY DEF SafeInv
<1>1. /\ DOMAIN runs \subseteq RunId
      /\ op \in [Caller -> [pc : CallStates, run : RunId \cup {"none"}]]
      /\ task \in [RunId -> TaskStates]
  BY <1>0, MapTyped
<1>2. \A q \in RunId : /\ task'[q] \in Early <=> task[q] \in Early
                       /\ task'[q] # task[q] => task[q] \in Early
  BY <1>1
<1>3. TaskMatchesRun'
  BY <1>0, <1>1, <1>2 DEF TaskMatchesRun, SameRuns, Early
<1>4. StartsHeld' /\ CancelsKnown' /\ InsertedHeld'
  BY <1>0, <1>1, <1>2 DEF StartsHeld, CancelsKnown, InsertedHeld, SameRuns, Early
<1>5. OneHolder' /\ StartedOnce'
  BY <1>0, <1>1, <1>2 DEF OneHolder, StartedOnce, Early
<1>6. EndedTerminal'
  BY <1>0 DEF EndedTerminal, SameRuns
<1>7. {q \in RunId : task'[q] \in Early \cup {"settle"}}
        = {q \in RunId : task[q] \in Early \cup {"settle"}}
  BY <1>1, <1>2 DEF Early
<1>8. TasksCounted'
  BY <1>0, <1>7 DEF TasksCounted
<1> QED
  BY <1>3, <1>4, <1>5, <1>6, <1>8 DEF SafeInv

(* The publication of the terminal event. *)
LEMMA TerminalSafe ==
  ASSUME SafeInv, TypeInv', NEW r \in RunId, NEW st \in TerminalStates,
         task[r] \in Early, Publish(r, st, "settle", "done")
  PROVE  SafeInv'
<1>0. /\ TaskMatchesRun /\ StartsHeld /\ InsertedHeld /\ OneHolder
      /\ StartedOnce /\ CancelsKnown /\ EndedTerminal /\ TasksCounted /\ TypeInv
  BY DEF SafeInv
<1>1. /\ DOMAIN runs \subseteq RunId
      /\ op \in [Caller -> [pc : CallStates, run : RunId \cup {"none"}]]
      /\ task \in [RunId -> TaskStates] /\ ended \subseteq RunId
      /\ \A q \in DOMAIN runs : runs[q] \in LiveRuns
  BY <1>0, MapTyped
<1>2. r \in DOMAIN runs /\ IsActive(runs[r]) /\ ~runs[r].completed
  BY <1>0 DEF TaskMatchesRun, Early
<1>3. st \in RunStates /\ st \notin ActiveStates /\ Finishes(runs[r], st)
  BY <1>2 DEF RunStates, TerminalStates, ActiveStates, Finishes
<1>4. /\ task' = [task EXCEPT ![r] = "settle"]
      /\ UNCHANGED <<active, op, started, ended>>
      /\ RunsUnlocked
  BY <1>3 DEF Publish
<1>5. /\ DOMAIN runs' = DOMAIN runs
      /\ \A q \in DOMAIN runs : q # r => runs'[q] = runs[q]
      /\ runs'[r].state = st /\ runs'[r].completed
  <2>1. runs' = [runs EXCEPT ![r] = Published(runs[r], st)]
    BY DEF Publish, Store
  <2>2. /\ Published(runs[r], st).state = st /\ Published(runs[r], st).completed
    BY <1>1, <1>2, <1>3, PublishedFields
  <2> QED
    BY <1>2, <2>1, <2>2
<1>6. ~IsActive(runs'[r])
  BY <1>3, <1>5 DEF IsActive
<1>7. TaskMatchesRun'
  BY <1>0, <1>1, <1>4, <1>5, <1>6 DEF TaskMatchesRun, Early
<1>8. StartsHeld' /\ CancelsKnown' /\ InsertedHeld'
  BY <1>0, <1>1, <1>4, <1>5 DEF StartsHeld, CancelsKnown, InsertedHeld, Early
<1>9. OneHolder' /\ StartedOnce'
  BY <1>0, <1>1, <1>4 DEF OneHolder, StartedOnce, Early, RunsUnlocked, Settles
<1>10. EndedTerminal'
  BY <1>0, <1>4, <1>5, <1>6 DEF EndedTerminal
<1>11. {q \in RunId : task'[q] \in Early \cup {"settle"}}
         = {q \in RunId : task[q] \in Early \cup {"settle"}}
  BY <1>1, <1>4 DEF Early
<1>12. TasksCounted'
  BY <1>0, <1>4, <1>11 DEF TasksCounted
<1> QED
  BY <1>7, <1>8, <1>9, <1>10, <1>12 DEF SafeInv

(* activity.finished() of the run that published its terminal event. *)
LEMMA SettleSafe ==
  ASSUME SafeInv, TypeInv', NEW r \in RunId, Settle(r)
  PROVE  SafeInv'
<1>0. /\ TaskMatchesRun /\ StartsHeld /\ InsertedHeld /\ OneHolder
      /\ StartedOnce /\ CancelsKnown /\ EndedTerminal /\ TasksCounted /\ TypeInv
  BY DEF SafeInv
<1>1. /\ DOMAIN runs \subseteq RunId
      /\ op \in [Caller -> [pc : CallStates, run : RunId \cup {"none"}]]
      /\ task \in [RunId -> TaskStates] /\ active \in Nat
  BY <1>0, MapTyped
<1>2. /\ task[r] = "settle" /\ task' = [task EXCEPT ![r] = "done"]
      /\ UNCHANGED <<runs, op, started, ended>>
  BY <1>0 DEF Settle, Settles, TaskMatchesRun
<1>3. TaskMatchesRun'
  BY <1>0, <1>1, <1>2 DEF TaskMatchesRun, Early
<1>4. StartsHeld' /\ CancelsKnown' /\ InsertedHeld'
  BY <1>0, <1>1, <1>2 DEF StartsHeld, CancelsKnown, InsertedHeld
<1>5. OneHolder' /\ StartedOnce' /\ EndedTerminal'
  BY <1>0, <1>1, <1>2 DEF OneHolder, StartedOnce, EndedTerminal
<1>6. TasksCounted'
  <2> DEFINE S == {q \in RunId : task[q] \in Early \cup {"settle"}}
  <2>1. IsFiniteSet(S) /\ r \in S
    BY <1>2, RunRegistryAssumption, FS_Subset
  <2>2. {q \in RunId : task'[q] \in Early \cup {"settle"}} = S \ {r}
    BY <1>1, <1>2 DEF Early
  <2>3. Cardinality(S \ {r}) = Cardinality(S) - 1 /\ Cardinality(S) \in Nat
    BY <2>1, FS_RemoveElement, FS_CardinalityType
  <2>4. active = Cardinality(S)
    BY <1>0 DEF TasksCounted
  <2>5. Cardinality(S) # 0
    BY <2>1, FS_EmptySet
  <2>6. active' = active - 1
    BY <2>3, <2>4, <2>5, <1>1 DEF Settle
  <2> HIDE DEF S
  <2> QED
    BY <2>2, <2>3, <2>4, <2>6 DEF TasksCounted
<1> QED
  BY <1>3, <1>4, <1>5, <1>6 DEF SafeInv

(* The two halves of a start. *)
LEMMA InsertSafe ==
  ASSUME SafeInv, TypeInv', NEW c \in Caller, StartInsert(c)
  PROVE  SafeInv'
<1>0. /\ TaskMatchesRun /\ StartsHeld /\ InsertedHeld /\ OneHolder
      /\ StartedOnce /\ CancelsKnown /\ EndedTerminal /\ TasksCounted /\ TypeInv
  BY DEF SafeInv
<1> DEFINE n == op[c].run
<1>1. /\ DOMAIN runs \subseteq RunId /\ n \in RunId
      /\ op \in [Caller -> [pc : CallStates, run : RunId \cup {"none"}]]
      /\ task \in [RunId -> TaskStates]
  BY <1>0, MapTyped DEF StartInsert, TypeInv, CallsNamed
<1>2. CASE n \in DOMAIN runs
  <2>1. op' = [op EXCEPT ![c] = Idle] /\ UNCHANGED <<runs, active, task, started, ended>>
    BY <1>2 DEF StartInsert
  <2>2. SameRuns
    BY <2>1 DEF SameRuns
  <2>3. Idle.pc = "idle" /\ op[c].pc = "insert"
    BY DEF Idle, StartInsert
  <2> QED
    BY <2>1, <2>2, <2>3, CallSafe
<1>3. CASE n \notin DOMAIN runs
  <2>1. /\ runs' = Insert(n) /\ op' = [op EXCEPT ![c].pc = "count"]
        /\ UNCHANGED <<active, task, started, ended>>
        /\ op[c].pc = "insert" /\ RunsUnlocked
    BY <1>3 DEF StartInsert
  <2>2. /\ DOMAIN runs' = DOMAIN runs \cup {n}
        /\ \A q \in DOMAIN runs : runs'[q] = runs[q]
        /\ runs'[n] = NewRun
    BY <2>1, <1>3 DEF Insert
  <2>3. IsActive(NewRun) /\ ~NewRun.completed
    BY DEF NewRun, IsActive, ActiveStates
  <2>4. /\ task[n] = "none"
        /\ op'[c].pc = "count" /\ op'[c].run = n
        /\ \A d \in Caller : d # c => op'[d] = op[d]
    BY <1>0, <1>1, <1>3, <2>1 DEF TaskMatchesRun
  <2> HIDE DEF n
  <2>5. TaskMatchesRun'
    BY <1>0, <1>1, <2>1, <2>2, <2>3, <2>4 DEF TaskMatchesRun
  <2>6. StartsHeld' /\ CancelsKnown'
    BY <1>0, <1>1, <2>1, <2>2, <2>4 DEF StartsHeld, CancelsKnown
  <2>7. InsertedHeld'
    <3>1. SUFFICES ASSUME NEW q \in DOMAIN runs', task'[q] = "none"
                   PROVE  \E d \in Caller : op'[d].pc = "count" /\ op'[d].run = q
      BY DEF InsertedHeld
    <3>2. CASE q = n
      BY <3>2, <2>4
    <3>3. CASE q \in DOMAIN runs
      <4>1. PICK d \in Caller : op[d].pc = "count" /\ op[d].run = q
        BY <1>0, <2>1, <3>1, <3>3 DEF InsertedHeld
      <4> QED
        BY <4>1, <2>1 DEF RunsUnlocked
    <3> QED
      BY <3>2, <3>3, <2>2
  <2>8. OneHolder' /\ StartedOnce'
    BY <1>0, <1>1, <2>1, <2>4 DEF OneHolder, StartedOnce, RunsUnlocked, Settles
  <2>9. EndedTerminal' /\ TasksCounted'
    BY <1>0, <2>1, <2>2 DEF EndedTerminal, TasksCounted
  <2> QED
    BY <2>5, <2>6, <2>7, <2>8, <2>9 DEF SafeInv
<1> QED
  BY <1>2, <1>3

LEMMA CountSafe ==
  ASSUME SafeInv, TypeInv', NEW c \in Caller, StartCount(c)
  PROVE  SafeInv'
<1>0. /\ TaskMatchesRun /\ StartsHeld /\ InsertedHeld /\ OneHolder
      /\ StartedOnce /\ CancelsKnown /\ EndedTerminal /\ TasksCounted /\ TypeInv
  BY DEF SafeInv
<1> DEFINE n == op[c].run
<1>1. /\ DOMAIN runs \subseteq RunId
      /\ op \in [Caller -> [pc : CallStates, run : RunId \cup {"none"}]]
      /\ task \in [RunId -> TaskStates] /\ started \in [RunId -> Nat] /\ active \in Nat
  BY <1>0, MapTyped
<1>2. n \in DOMAIN runs /\ n \in RunId /\ task[n] = "none" /\ op[c].pc = "count"
  BY <1>0, <1>1 DEF StartCount, StartsHeld
<1>3. /\ task' = [task EXCEPT ![n] = "select"] /\ active' = active + 1
      /\ started' = [started EXCEPT ![n] = started[n] + 1]
      /\ op' = [op EXCEPT ![c] = Idle] /\ UNCHANGED <<runs, ended>>
  BY DEF StartCount
<1>4. /\ op'[c].pc = "idle" /\ \A d \in Caller : d # c => op'[d] = op[d]
      /\ \A d \in Caller : op'[d].pc # "count"
  BY <1>0, <1>1, <1>2, <1>3 DEF Idle, OneHolder
<1> HIDE DEF n
<1>5. TaskMatchesRun'
  BY <1>0, <1>1, <1>2, <1>3 DEF TaskMatchesRun, Early
<1>6. StartsHeld' /\ CancelsKnown'
  BY <1>0, <1>3, <1>4 DEF StartsHeld, CancelsKnown
<1>7. InsertedHeld'
  <2>1. SUFFICES ASSUME NEW q \in DOMAIN runs, task'[q] = "none" PROVE FALSE
    BY <1>3 DEF InsertedHeld
  <2>2. q # n /\ task[q] = "none"
    BY <1>1, <1>2, <1>3, <2>1
  <2>3. PICK d \in Caller : op[d].pc = "count" /\ op[d].run = q
    BY <1>0, <2>2 DEF InsertedHeld
  <2> QED
    BY <1>0, <1>2, <2>2, <2>3 DEF OneHolder, n
<1>8. OneHolder'
  BY <1>0, <1>1, <1>2, <1>3, <1>4 DEF OneHolder
<1>9. StartedOnce'
  BY <1>0, <1>1, <1>2, <1>3 DEF StartedOnce
<1>10. EndedTerminal'
  BY <1>0, <1>3 DEF EndedTerminal
<1>11. TasksCounted'
  <2> DEFINE S == {q \in RunId : task[q] \in Early \cup {"settle"}}
  <2>1. IsFiniteSet(S) /\ n \notin S
    BY <1>2, RunRegistryAssumption, FS_Subset DEF Early
  <2>2. {q \in RunId : task'[q] \in Early \cup {"settle"}} = S \cup {n}
    BY <1>1, <1>2, <1>3 DEF Early
  <2>3. Cardinality(S \cup {n}) = Cardinality(S) + 1
    BY <2>1, FS_AddElement
  <2>4. active = Cardinality(S)
    BY <1>0 DEF TasksCounted
  <2> HIDE DEF S
  <2> QED
    BY <1>3, <2>2, <2>3, <2>4 DEF TasksCounted
<1> QED
  BY <1>5, <1>6, <1>7, <1>8, <1>9, <1>10, <1>11 DEF SafeInv

LEMMA SafeInvInit == Init => SafeInv
<1> SUFFICES ASSUME Init PROVE SafeInv
  OBVIOUS
<1>1. TypeInv /\ DOMAIN runs = {}
  BY TypeInvInit DEF Init
<1>2. {r \in RunId : task[r] \in Early \cup {"settle"}} = {}
  BY DEF Init, Early
<1>3. TasksCounted
  BY <1>2, FS_EmptySet DEF Init, TasksCounted
<1> QED
  BY <1>1, <1>3 DEF Init, SafeInv, TaskMatchesRun, StartsHeld, InsertedHeld, OneHolder,
     StartedOnce, CancelsKnown, EndedTerminal, Idle

LEMMA SafeInvNext ==
  ASSUME EncodeCanFail = FALSE
  PROVE  SafeInv /\ [Next]_vars => SafeInv'
<1> SUFFICES ASSUME SafeInv, [Next]_vars PROVE SafeInv'
  OBVIOUS
<1>0. TypeInv /\ TypeInv' /\ TaskMatchesRun
  BY TypeInvNext DEF SafeInv
<1>t. /\ DOMAIN runs \subseteq RunId
      /\ \A r \in DOMAIN runs : GoodRun(runs[r]) /\ runs[r] \in LiveRuns
      /\ op \in [Caller -> [pc : CallStates, run : RunId \cup {"none"}]]
  BY <1>0, MapTyped
<1>1. ASSUME NEW c \in Caller, NEW r \in RunId, StartCheck(c, r) PROVE SafeInv'
  <2> DEFINE o == [pc |-> "insert", run |-> r]
  <2>1. /\ SameRuns /\ op' = [op EXCEPT ![c] = o] /\ op[c].pc = "idle"
        /\ UNCHANGED <<active, task, started, ended>>
    BY <1>1 DEF StartCheck, SameRuns, Idle
  <2>2. o.pc = "insert"
    OBVIOUS
  <2> HIDE DEF o
  <2> QED
    BY <1>0, <2>1, <2>2, CallSafe
<1>2. ASSUME NEW c \in Caller, NEW r \in RunId, CancelTake(c, r) PROVE SafeInv'
  <2> DEFINE o == [pc |-> "signal", run |-> r]
  <2>1. /\ op' = [op EXCEPT ![c] = o] /\ op[c].pc = "idle" /\ r \in DOMAIN runs
        /\ UNCHANGED <<active, task, started, ended>>
        /\ runs' = [runs EXCEPT ![r] = CancelTaken(runs[r])]
    BY <1>2 DEF CancelTake, Idle, Store
  <2>2. SameRuns
    BY <1>t, <2>1, CancelTakenGood DEF SameRuns, IsActive
  <2>3. o.pc = "signal" /\ o.run = r
    OBVIOUS
  <2> HIDE DEF o
  <2> QED
    BY <1>0, <2>1, <2>2, <2>3, CallSafe
<1>3. ASSUME NEW c \in Caller, CancelSignal(c) PROVE SafeInv'
  <2> DEFINE o == [op[c] EXCEPT !.pc = "wait"]
  <2>1. /\ SameRuns /\ op' = [op EXCEPT ![c] = o] /\ op[c].pc = "signal"
        /\ UNCHANGED <<active, task, started, ended>>
    BY <1>3 DEF CancelSignal, SameRuns
  <2>2. o.pc = "wait" /\ o.run \in DOMAIN runs
    BY <1>t, <2>1 DEF SafeInv, CancelsKnown
  <2> HIDE DEF o
  <2> QED
    BY <1>0, <2>1, <2>2, CallSafe
<1>4. ASSUME NEW c \in Caller, CancelDone(c) PROVE SafeInv'
  <2>1. /\ SameRuns /\ op' = [op EXCEPT ![c] = Idle] /\ op[c].pc = "wait"
        /\ UNCHANGED <<active, task, started>>
        /\ ended' = ended \cup {op[c].run} /\ runs[op[c].run].completed
    BY <1>4 DEF CancelDone, SameRuns
  <2>2. Idle.pc = "idle" /\ op[c].run \in DOMAIN runs
    BY <2>1 DEF Idle, SafeInv, CancelsKnown
  <2> QED
    BY <1>0, <2>1, <2>2, CallSafe
<1>5. ASSUME NEW c \in Caller, CancelAll(c) PROVE SafeInv'
  <2>1. UNCHANGED <<active, task, op, started, ended>>
    BY <1>5 DEF CancelAll
  <2>2. SameRuns
    BY <1>t, <1>5, CancelTakenGood DEF CancelAll, SameRuns, IsActive
  <2> QED
    BY <1>0, <2>1, <2>2, CallSafe
<1>6. ASSUME NEW c \in Caller, NEW r \in RunId, NEW n \in 0 .. MaxSequence + 1,
             Acknowledge(c, r, n)
      PROVE  SafeInv'
  <2>1. /\ UNCHANGED <<active, task, op, started, ended>> /\ r \in DOMAIN runs
        /\ runs' = [runs EXCEPT ![r] = Acknowledged(runs[r], n)]
    BY <1>6 DEF Acknowledge, Store
  <2>2. /\ Acknowledged(runs[r], n).state = runs[r].state
        /\ Acknowledged(runs[r], n).completed = runs[r].completed
    BY <1>t, <2>1, AcknowledgedFields
  <2>3. SameRuns
    BY <2>1, <2>2 DEF SameRuns, IsActive
  <2> QED
    BY <1>0, <2>1, <2>3, CallSafe
<1>7. ASSUME NEW r \in RunId, NEW kind \in Kinds, RecvEvent(r, kind) PROVE SafeInv'
  <2>1. /\ SameRuns /\ task[r] \in Early /\ task' = [task EXCEPT ![r] = "publish"]
        /\ UNCHANGED <<active, op, started, ended>> /\ "publish" \in Early
    BY <1>7 DEF RecvEvent, SameRuns, Early
  <2> QED
    BY <1>0, <2>1, EarlySafe
<1>8. ASSUME NEW r \in RunId, SeeCancel(r) \/ StreamEnds(r) PROVE SafeInv'
  <2>1. /\ SameRuns /\ task[r] \in Early
        /\ \E t \in Early : task' = [task EXCEPT ![r] = t]
        /\ UNCHANGED <<active, op, started, ended>>
    BY <1>8 DEF SeeCancel, StreamEnds, SameRuns, Early
  <2> QED
    BY <1>0, <2>1, EarlySafe
<1>9. ASSUME NEW r \in RunId, PublishEvent(r) PROVE SafeInv'
  <2>1. event[r] \in ActiveStates /\ event[r] # "encode_error" /\ event[r] \in RunStates
    <3>1. event[r] \in Kinds
      BY <1>0, <1>9 DEF PublishEvent, TypeInv, EventKept, TypeOK
    <3> QED
      BY <3>1 DEF Kinds, ActiveStates, RunStates
  <2>2. task[r] \in Early /\ Publish(r, event[r], "settle_loop", "select")
    BY <1>9, <2>1 DEF PublishEvent, Early
  <2>3. r \in DOMAIN runs /\ IsActive(runs[r]) /\ ~Finishes(runs[r], event[r])
    BY <1>0, <2>1, <2>2 DEF TaskMatchesRun, Early, Finishes
  <2>4. /\ task' = [task EXCEPT ![r] = "select"] /\ "select" \in Early
        /\ runs' = [runs EXCEPT ![r] = Published(runs[r], event[r])]
        /\ UNCHANGED <<active, op, started, ended>>
    BY <2>2, <2>3 DEF Publish, Store, Early
  <2>5. /\ Published(runs[r], event[r]).state = event[r]
        /\ Published(runs[r], event[r]).completed = runs[r].completed
    <3>1. runs[r] \in LiveRuns /\ runs[r].completed \in BOOLEAN
      BY <1>t, <2>3 DEF LiveRuns
    <3> QED
      BY <2>1, <2>3, <3>1, PublishedFields
  <2>6. SameRuns
    BY <2>1, <2>3, <2>4, <2>5 DEF SameRuns, IsActive
  <2> QED
    BY <1>0, <2>2, <2>4, <2>6, EarlySafe
<1>10. ASSUME NEW r \in RunId, PublishCanceled(r) PROVE SafeInv'
  BY <1>0, <1>10, TerminalSafe DEF PublishCanceled, Early, TerminalStates
<1>11. ASSUME NEW r \in RunId, NEW st \in {"completed", "failed"}, PublishOutcome(r, st)
       PROVE  SafeInv'
  BY <1>0, <1>11, TerminalSafe DEF PublishOutcome, Early, TerminalStates
<1>12. CASE UNCHANGED vars
  BY <1>0, <1>12 DEF vars, SafeInv, TaskMatchesRun, StartsHeld, InsertedHeld, OneHolder,
     StartedOnce, CancelsKnown, EndedTerminal, TasksCounted
<1> QED
  BY <1>0, <1>1, <1>2, <1>3, <1>4, <1>5, <1>6, <1>7, <1>8, <1>9, <1>10, <1>11, <1>12,
     InsertSafe, CountSafe, SettleSafe DEF Next, CallerStep, TaskStep

LEMMA SafeInvAlways == ASSUME EncodeCanFail = FALSE PROVE Spec => []SafeInv
<1>1. SafeInv /\ [Next]_vars => SafeInv'
  BY SafeInvNext
<1> QED
  BY <1>1, SafeInvInit, PTL DEF Spec

-----------------------------------------------------------------------------
(* A run is counted from the end of its start to the end of its terminal    *)
(* publication: what Phase shows of it and where its task is agree.         *)
LEMMA CountedPhases ==
  ASSUME SafeInv
  PROVE  {r \in RunId : Phase(r) \in {"live", "settling"}}
           = {r \in RunId : task[r] \in Early \cup {"settle"}}
<1>1. TaskMatchesRun /\ task \in [RunId -> TaskStates]
  BY MapTyped DEF SafeInv
<1>2. ASSUME NEW r \in RunId
      PROVE  Phase(r) \in {"live", "settling"} <=> task[r] \in Early \cup {"settle"}
  BY <1>1 DEF TaskMatchesRun, Phase, Settles, Early, TaskStates
<1> QED
  BY <1>2

(***************************************************************************)
(* For every number of runs and of callers, the counter that decides       *)
(* whether the daemon may stop is exactly the number of runs between       *)
(* activity.started() and activity.finished(): no start, cancel or         *)
(* publication leaks or drops one.                                         *)
(***************************************************************************)
THEOREM ActivityAlwaysExact ==
  ASSUME EncodeCanFail = FALSE
  PROVE  Spec => []ActivityExact
<1>1. SafeInv => ActivityExact
  BY CountedPhases DEF SafeInv, TasksCounted, ActivityExact
<1>2. Spec => []SafeInv
  BY SafeInvAlways
<1> QED
  BY <1>1, <1>2, PTL

(***************************************************************************)
(* A cancel is answered Ok only once its run is in a terminal state, and   *)
(* the run stays there (cancel, wait_until_completed).                     *)
(***************************************************************************)
THEOREM CancelAnswersTerminal ==
  ASSUME EncodeCanFail = FALSE
  PROVE  Spec => []CancelAnsweredTerminal
<1>1. SafeInv => CancelAnsweredTerminal
  BY DEF SafeInv, EndedTerminal, CancelAnsweredTerminal
<1>2. Spec => []SafeInv
  BY SafeInvAlways
<1> QED
  BY <1>1, <1>2, PTL

(***************************************************************************)
(* However many callers start the same run id at once, one at most is told *)
(* that it was accepted (the second look at the map in start_owned).       *)
(***************************************************************************)
THEOREM StartsAcceptedOnce ==
  ASSUME EncodeCanFail = FALSE
  PROVE  Spec => []StartAcceptedOnce
<1>1. SafeInv => StartAcceptedOnce
  BY DEF SafeInv, StartedOnce, StartAcceptedOnce
<1>2. Spec => []SafeInv
  BY SafeInvAlways
<1> QED
  BY <1>1, <1>2, PTL

(***************************************************************************)
(* A publication comes from a task that has not published its terminal     *)
(* event, so a step leaves the state and the sequence of a run that has    *)
(* ended alone.                                                            *)
(***************************************************************************)
LEMMA EndedRunKept ==
  ASSUME EncodeCanFail = FALSE, SafeInv, [Next]_vars,
         NEW r \in DOMAIN runs, ~IsActive(runs[r])
  PROVE  runs'[r].state = runs[r].state /\ runs'[r].latest = runs[r].latest
<1> DEFINE Kept == runs'[r].state = runs[r].state /\ runs'[r].latest = runs[r].latest
<1>0. TypeInv /\ TaskMatchesRun
  BY DEF SafeInv
<1>1. /\ r \in RunId
      /\ \A q \in DOMAIN runs : GoodRun(runs[q]) /\ runs[q] \in LiveRuns
  BY <1>0, MapTyped
<1>2. task[r] \notin Early
  BY <1>0, <1>1 DEF TaskMatchesRun, Early
<1>3. ASSUME NEW q \in RunId, NEW st, NEW settle, NEW next,
             task[q] \in Early, Publish(q, st, settle, next)
      PROVE  Kept
  <2>1. q # r /\ runs' = [runs EXCEPT ![q] = Published(runs[q], st)]
    BY <1>2, <1>3 DEF Publish, Store
  <2> QED
    BY <2>1
<1>4. ASSUME NEW q \in RunId, TaskStep(q) PROVE Kept
  <2>1. CASE UNCHANGED runs
    BY <2>1
  <2>2. CASE PublishEvent(q)
    BY <1>3, <2>2 DEF PublishEvent, Early
  <2>3. CASE PublishCanceled(q)
    BY <1>3, <2>3 DEF PublishCanceled, Early
  <2>4. CASE \E st \in {"completed", "failed"} : PublishOutcome(q, st)
    BY <1>3, <2>4 DEF PublishOutcome, Early
  <2> QED
    BY <1>4, <2>1, <2>2, <2>3, <2>4 DEF TaskStep, RecvEvent, SeeCancel, StreamEnds, Settle
<1>5. ASSUME NEW c \in Caller, CallerStep(c) PROVE Kept
  <2>1. CASE UNCHANGED runs
    BY <2>1
  <2>2. CASE StartInsert(c)
    BY <2>2 DEF StartInsert, Insert
  <2>3. ASSUME NEW q \in RunId, CancelTake(c, q) PROVE Kept
    BY <1>1, <2>3, CancelTakenGood DEF CancelTake, Store
  <2>4. CASE CancelAll(c)
    BY <1>1, <2>4, CancelTakenGood DEF CancelAll
  <2>5. ASSUME NEW q \in RunId, NEW n \in 0 .. MaxSequence + 1, Acknowledge(c, q, n)
        PROVE  Kept
    <3>1. /\ Acknowledged(runs[r], n).state = runs[r].state
          /\ Acknowledged(runs[r], n).latest = runs[r].latest
      BY <1>1, AcknowledgedFields
    <3> QED
      BY <2>5, <3>1 DEF Acknowledge, Store
  <2> QED
    BY <1>5, <2>1, <2>2, <2>3, <2>4, <2>5
    DEF CallerStep, StartCheck, StartCount, CancelSignal, CancelDone
<1>6. CASE UNCHANGED vars
  BY <1>6 DEF vars
<1> QED
  BY <1>4, <1>5, <1>6 DEF Next

(***************************************************************************)
(* No event follows the terminal one: once publish has made a run          *)
(* terminal, neither its state nor its last sequence changes.              *)
(***************************************************************************)
THEOREM TerminalStaysFinal ==
  ASSUME EncodeCanFail = FALSE
  PROVE  Spec => TerminalIsFinal
<1> DEFINE Kept == \A r \in DOMAIN runs : ~IsActive(runs[r]) =>
                     /\ runs'[r].state  = runs[r].state
                     /\ runs'[r].latest = runs[r].latest
<1>1. SafeInv /\ [Next]_vars => [Kept]_vars
  BY EndedRunKept
<1>2. Spec => []SafeInv
  BY SafeInvAlways
<1> QED
  BY <1>1, <1>2, PTL DEF Spec, TerminalIsFinal

-----------------------------------------------------------------------------
(***************************************************************************)
(* RunRegistry implements RunLifecycle when every provider event can be    *)
(* encoded: the initial state maps to an initial state and every step to   *)
(* one step of the lifecycle or to none.                                   *)
(***************************************************************************)
(* The refinement mapping's first and third component. *)
PhaseOf == [r \in RunId |-> Phase(r)]
TakenOf == {r \in DOMAIN runs : ~runs[r].cancel}

LStep == [Lifecycle!LNext]_(Lifecycle!lvars)

(* A step the lifecycle does not see. *)
LEMMA Unseen ==
  ASSUME PhaseOf' = PhaseOf, TakenOf' = TakenOf, active' = active
  PROVE  LStep
BY DEF LStep, Lifecycle!lvars, PhaseOf, TakenOf

(* While no step holds the lock, none does in the lifecycle either: a run   *)
(* in the map has its task, and no task is settling.                        *)
LEMMA UnlockedBoth ==
  ASSUME SafeInv, RunsUnlocked
  PROVE  /\ ~Lifecycle!Locked
         /\ \A r \in DOMAIN runs : task[r] # "none" /\ task[r] \notin Settles
<1>1. /\ DOMAIN runs \subseteq RunId /\ InsertedHeld
  BY MapTyped DEF SafeInv
<1>2. \A r \in DOMAIN runs : task[r] # "none" /\ task[r] \notin Settles
  BY <1>1 DEF RunsUnlocked, InsertedHeld
<1>3. \A r \in RunId : Phase(r) \notin {"inserted", "settling"}
  BY <1>2 DEF Phase
<1> QED
  BY <1>2, <1>3 DEF Lifecycle!Locked

(* Phase and the taken cancellations depend on these parts of the state. *)
LEMMA PhaseKept ==
  ASSUME NEW q \in RunId, task'[q] = task[q],
         q \in DOMAIN runs' <=> q \in DOMAIN runs,
         q \in DOMAIN runs => (IsActive(runs'[q]) <=> IsActive(runs[q]))
  PROVE  Phase(q)' = Phase(q)
BY DEF Phase, IsActive

(* A step of a task that stays short of the terminal event. *)
LEMMA EarlyUnseen ==
  ASSUME SafeInv, NEW r \in RunId, NEW t \in Early, task[r] \in Early,
         task' = [task EXCEPT ![r] = t], active' = active, SameRuns,
         \A q \in DOMAIN runs : runs'[q].cancel = runs[q].cancel
  PROVE  LStep
<1>1. TaskMatchesRun /\ task \in [RunId -> TaskStates]
  BY MapTyped DEF SafeInv
<1>2. ASSUME NEW q \in RunId PROVE Phase(q)' = Phase(q)
  <2>1. CASE q = r
    BY <1>1, <2>1 DEF Phase, TaskMatchesRun, SameRuns, Early, Settles, IsActive
  <2>2. CASE q # r
    BY <1>1, <2>2, PhaseKept DEF SameRuns
  <2> QED
    BY <2>1, <2>2
<1>3. PhaseOf' = PhaseOf
  BY <1>2 DEF PhaseOf
<1>4. TakenOf' = TakenOf
  BY DEF TakenOf, SameRuns
<1> QED
  BY <1>3, <1>4, Unseen

(* publish of a run's terminal event is Finish. *)
LEMMA TerminalFinishes ==
  ASSUME SafeInv, NEW r \in RunId, NEW st \in TerminalStates,
         task[r] \in Early, Publish(r, st, "settle", "done")
  PROVE  LStep
<1>1. /\ TaskMatchesRun /\ task \in [RunId -> TaskStates] /\ DOMAIN runs \subseteq RunId
      /\ \A q \in DOMAIN runs : runs[q] \in LiveRuns
  BY MapTyped DEF SafeInv
<1>2. r \in DOMAIN runs /\ IsActive(runs[r]) /\ st \in RunStates /\ Finishes(runs[r], st)
  BY <1>1 DEF TaskMatchesRun, Early, Finishes, RunStates, TerminalStates, ActiveStates
<1>3. /\ task' = [task EXCEPT ![r] = "settle"] /\ active' = active /\ RunsUnlocked
      /\ runs' = [runs EXCEPT ![r] = Published(runs[r], st)]
  BY <1>2 DEF Publish, Store
<1>4. Phase(r) = "live" /\ Phase(r)' = "settling"
  BY <1>1, <1>2, <1>3 DEF Phase, Settles, Early
<1>5. ASSUME NEW q \in RunId, q # r PROVE Phase(q)' = Phase(q)
  BY <1>1, <1>3, <1>5, PhaseKept
<1>6. PhaseOf' = [PhaseOf EXCEPT ![r] = "settling"]
  BY <1>4, <1>5 DEF PhaseOf
<1>7. Published(runs[r], st).cancel = runs[r].cancel
  BY <1>1, <1>2, PublishedFields
<1>8. TakenOf' = TakenOf
  BY <1>2, <1>3, <1>7 DEF TakenOf
<1>9. Lifecycle!Finish(r)
  BY <1>3, <1>4, <1>6, <1>8, UnlockedBoth
  DEF Lifecycle!Finish, Lifecycle!Enter, PhaseOf, TakenOf
<1> QED
  BY <1>9 DEF LStep, Lifecycle!LNext

(* The two halves of a start are Insert and Count. *)
LEMMA InsertInserts ==
  ASSUME SafeInv, NEW c \in Caller, StartInsert(c)
  PROVE  LStep
<1>1. TaskMatchesRun /\ task \in [RunId -> TaskStates] /\ DOMAIN runs \subseteq RunId
  BY MapTyped DEF SafeInv
<1>n. PICK n \in RunId : op[c].run = n
  BY DEF SafeInv, TypeInv, CallsNamed, StartInsert
<1>2. CASE n \in DOMAIN runs
  <2>1. UNCHANGED <<runs, task, active>>
    BY <1>n, <1>2 DEF StartInsert
  <2> QED
    BY <2>1, Unseen DEF PhaseOf, TakenOf, Phase, IsActive
<1>3. CASE n \notin DOMAIN runs
  <2>1. runs' = Insert(n) /\ UNCHANGED <<task, active>> /\ RunsUnlocked
    BY <1>n, <1>3 DEF StartInsert
  <2>2. /\ DOMAIN runs' = DOMAIN runs \cup {n} /\ runs'[n].cancel
        /\ \A q \in DOMAIN runs : runs'[q] = runs[q]
    BY <1>3, <2>1 DEF Insert, NewRun
  <2>3. Phase(n) = "absent" /\ Phase(n)' = "inserted"
    BY <1>1, <1>3, <2>1, <2>2 DEF Phase, TaskMatchesRun
  <2>4. ASSUME NEW q \in RunId, q # n PROVE Phase(q)' = Phase(q)
    BY <2>1, <2>2, <2>4, PhaseKept
  <2>5. PhaseOf' = [PhaseOf EXCEPT ![n] = "inserted"]
    BY <2>3, <2>4 DEF PhaseOf
  <2>6. TakenOf' = TakenOf
    BY <1>3, <2>2 DEF TakenOf
  <2>7. Lifecycle!Insert(n)
    BY <1>1, <2>1, <2>3, <2>5, <2>6, UnlockedBoth
    DEF Lifecycle!Insert, Lifecycle!Enter, PhaseOf, TakenOf
  <2> QED
    BY <1>1, <2>7 DEF LStep, Lifecycle!LNext
<1> QED
  BY <1>2, <1>3

LEMMA CountCounts ==
  ASSUME SafeInv, NEW c \in Caller, StartCount(c)
  PROVE  LStep
<1>n. PICK n \in RunId : op[c].run = n
  BY DEF SafeInv, TypeInv, CallsNamed, StartCount
<1>1. /\ TaskMatchesRun /\ task \in [RunId -> TaskStates] /\ DOMAIN runs \subseteq RunId
      /\ n \in DOMAIN runs /\ task[n] = "none"
  BY <1>n, MapTyped DEF SafeInv, StartsHeld, StartCount
<1>2. task' = [task EXCEPT ![n] = "select"] /\ active' = active + 1 /\ runs' = runs
  BY <1>n DEF StartCount
<1>3. Phase(n) = "inserted" /\ Phase(n)' = "live"
  BY <1>1, <1>2 DEF Phase, TaskMatchesRun, Settles
<1>4. ASSUME NEW q \in RunId, q # n PROVE Phase(q)' = Phase(q)
  BY <1>1, <1>2, <1>4, PhaseKept
<1>5. PhaseOf' = [PhaseOf EXCEPT ![n] = "live"] /\ TakenOf' = TakenOf
  BY <1>2, <1>3, <1>4 DEF PhaseOf, TakenOf
<1>6. Lifecycle!Count(n)
  BY <1>1, <1>2, <1>3, <1>5 DEF Lifecycle!Count, Lifecycle!Enter, PhaseOf, TakenOf
<1> QED
  BY <1>1, <1>6 DEF LStep, Lifecycle!LNext

(* activity.finished() is Discount. *)
LEMMA SettleDiscounts ==
  ASSUME SafeInv, NEW r \in RunId, Settle(r)
  PROVE  LStep
<1>1. /\ TaskMatchesRun /\ TasksCounted /\ task \in [RunId -> TaskStates]
      /\ DOMAIN runs \subseteq RunId /\ active \in Nat
  BY MapTyped DEF SafeInv
<1>2. /\ task[r] = "settle" /\ task' = [task EXCEPT ![r] = "done"] /\ runs' = runs
      /\ r \in DOMAIN runs /\ ~IsActive(runs[r])
  BY <1>1 DEF Settle, Settles, TaskMatchesRun, Early
<1>3. active' = active - 1
  <2> DEFINE S == {q \in RunId : task[q] \in Early \cup {"settle"}}
  <2>1. IsFiniteSet(S) /\ r \in S /\ active = Cardinality(S)
    BY <1>1, <1>2, RunRegistryAssumption, FS_Subset DEF TasksCounted
  <2>2. active # 0
    BY <2>1, FS_EmptySet
  <2> HIDE DEF S
  <2> QED
    BY <1>1, <2>2 DEF Settle
<1>4. Phase(r) = "settling" /\ Phase(r)' = "settled"
  BY <1>1, <1>2 DEF Phase, Settles, IsActive
<1>5. ASSUME NEW q \in RunId, q # r PROVE Phase(q)' = Phase(q)
  BY <1>1, <1>2, <1>5, PhaseKept
<1>6. PhaseOf' = [PhaseOf EXCEPT ![r] = "settled"] /\ TakenOf' = TakenOf
  BY <1>2, <1>4, <1>5 DEF PhaseOf, TakenOf
<1>7. Lifecycle!Discount(r)
  BY <1>3, <1>4, <1>6 DEF Lifecycle!Discount, Lifecycle!Enter, PhaseOf, TakenOf
<1> QED
  BY <1>7 DEF LStep, Lifecycle!LNext

(* cancel takes one run's sender, cancel_all those of the live runs. *)
LEMMA CancelCancels ==
  ASSUME SafeInv, NEW c \in Caller, NEW r \in RunId, CancelTake(c, r)
  PROVE  LStep
<1>1. /\ DOMAIN runs \subseteq RunId
      /\ \A q \in DOMAIN runs : GoodRun(runs[q])
  BY MapTyped DEF SafeInv
<1>2. /\ r \in DOMAIN runs /\ runs[r].cancel /\ RunsUnlocked
      /\ runs' = [runs EXCEPT ![r] = CancelTaken(runs[r])] /\ UNCHANGED <<task, active>>
  BY DEF CancelTake, Store
<1>3. CancelTaken(runs[r]).state = runs[r].state /\ ~CancelTaken(runs[r]).cancel
  BY <1>1, <1>2, CancelTakenGood
<1>4. ASSUME NEW q \in RunId PROVE Phase(q)' = Phase(q)
  BY <1>2, <1>3, PhaseKept DEF IsActive
<1>5. PhaseOf' = PhaseOf
  BY <1>4 DEF PhaseOf
<1>6. TakenOf' = TakenOf \cup {r} /\ r \notin TakenOf
  BY <1>2, <1>3 DEF TakenOf
<1>7. Phase(r) \in {"live", "settled"}
  BY <1>2, UnlockedBoth DEF Phase
<1>8. Lifecycle!Cancel(r)
  BY <1>2, <1>5, <1>6, <1>7, UnlockedBoth DEF Lifecycle!Cancel, PhaseOf, TakenOf
<1> QED
  BY <1>8 DEF LStep, Lifecycle!LNext

LEMMA CancelAllCancels ==
  ASSUME SafeInv, NEW c \in Caller, CancelAll(c)
  PROVE  LStep
<1> DEFINE hit == {r \in DOMAIN runs : IsActive(runs[r]) /\ runs[r].cancel}
<1>1. /\ DOMAIN runs \subseteq RunId
      /\ \A q \in DOMAIN runs : GoodRun(runs[q]) /\ runs[q] \in LiveRuns
  BY MapTyped DEF SafeInv
<1>2. /\ RunsUnlocked /\ UNCHANGED <<task, active>>
      /\ runs' = [r \in DOMAIN runs |-> IF r \in hit THEN CancelTaken(runs[r]) ELSE runs[r]]
  BY DEF CancelAll
<1>3. \A q \in DOMAIN runs : /\ CancelTaken(runs[q]).state = runs[q].state
                             /\ ~CancelTaken(runs[q]).cancel
  BY <1>1, CancelTakenGood
<1>4. /\ DOMAIN runs' = DOMAIN runs
      /\ \A q \in DOMAIN runs : /\ runs'[q].state = runs[q].state
                                /\ ~runs'[q].cancel <=> q \in hit \/ ~runs[q].cancel
  BY <1>2, <1>3
<1>5. ASSUME NEW q \in RunId PROVE Phase(q)' = Phase(q)
  BY <1>2, <1>4, PhaseKept DEF IsActive
<1>6. PhaseOf' = PhaseOf
  BY <1>5 DEF PhaseOf
<1>7. \A q \in RunId : Phase(q) = "live" <=> q \in DOMAIN runs /\ IsActive(runs[q])
  BY <1>2, UnlockedBoth DEF Phase
<1>8. TakenOf' = TakenOf \cup {q \in RunId : PhaseOf[q] = "live"}
  BY <1>1, <1>4, <1>7 DEF TakenOf, PhaseOf
<1>9. Lifecycle!CancelAll
  BY <1>2, <1>6, <1>8, UnlockedBoth DEF Lifecycle!CancelAll, PhaseOf, TakenOf
<1> QED
  BY <1>9 DEF LStep, Lifecycle!LNext

LEMMA InitMaps == Init => Lifecycle!LInit
<1> SUFFICES ASSUME Init PROVE Lifecycle!LInit
  OBVIOUS
<1>1. DOMAIN runs = {} /\ active = 0
  BY DEF Init
<1>2. \A r \in RunId : Phase(r) = "absent"
  BY <1>1 DEF Phase
<1> QED
  BY <1>1, <1>2 DEF Lifecycle!LInit

LEMMA StepMaps ==
  ASSUME EncodeCanFail = FALSE
  PROVE  SafeInv /\ [Next]_vars => LStep
<1> SUFFICES ASSUME SafeInv, [Next]_vars PROVE LStep
  OBVIOUS
<1>0. TypeInv /\ TaskMatchesRun
  BY DEF SafeInv
<1>t. \A q \in DOMAIN runs : GoodRun(runs[q]) /\ runs[q] \in LiveRuns
  BY <1>0, MapTyped
<1>1. CASE UNCHANGED <<runs, task, active>>
  BY <1>1, Unseen DEF PhaseOf, TakenOf, Phase, IsActive
<1>2. ASSUME NEW c \in Caller, NEW r \in RunId, NEW n \in 0 .. MaxSequence + 1,
             Acknowledge(c, r, n)
      PROVE  LStep
  <2>1. /\ r \in DOMAIN runs /\ UNCHANGED <<task, active>>
        /\ runs' = [runs EXCEPT ![r] = Acknowledged(runs[r], n)]
    BY <1>2 DEF Acknowledge, Store
  <2>2. /\ Acknowledged(runs[r], n).state = runs[r].state
        /\ Acknowledged(runs[r], n).cancel = runs[r].cancel
    BY <1>t, <2>1, AcknowledgedFields
  <2>3. ASSUME NEW q \in RunId PROVE Phase(q)' = Phase(q)
    BY <2>1, <2>2, PhaseKept DEF IsActive
  <2>4. PhaseOf' = PhaseOf /\ TakenOf' = TakenOf
    BY <2>1, <2>2, <2>3 DEF PhaseOf, TakenOf
  <2> QED
    BY <2>1, <2>4, Unseen
<1>3. ASSUME NEW r \in RunId,
             SeeCancel(r) \/ StreamEnds(r) \/ \E kind \in Kinds : RecvEvent(r, kind)
      PROVE  LStep
  <2>1. /\ task[r] \in Early /\ \E t \in Early : task' = [task EXCEPT ![r] = t]
        /\ UNCHANGED <<runs, active>> /\ SameRuns
    BY <1>3 DEF SeeCancel, StreamEnds, RecvEvent, Early, SameRuns
  <2> QED
    BY <2>1, EarlyUnseen
<1>4. ASSUME NEW r \in RunId, PublishEvent(r) PROVE LStep
  <2>1. event[r] \in ActiveStates /\ event[r] # "encode_error" /\ event[r] \in RunStates
    <3>1. event[r] \in Kinds
      BY <1>0, <1>4 DEF PublishEvent, TypeInv, EventKept, TypeOK
    <3> QED
      BY <3>1 DEF Kinds, ActiveStates, RunStates
  <2>2. task[r] \in Early /\ Publish(r, event[r], "settle_loop", "select")
    BY <1>4, <2>1 DEF PublishEvent, Early
  <2>3. r \in DOMAIN runs /\ IsActive(runs[r]) /\ ~Finishes(runs[r], event[r])
    BY <1>0, <2>1, <2>2 DEF TaskMatchesRun, Early, Finishes
  <2>4. /\ task' = [task EXCEPT ![r] = "select"] /\ "select" \in Early
        /\ runs' = [runs EXCEPT ![r] = Published(runs[r], event[r])] /\ active' = active
    BY <2>2, <2>3 DEF Publish, Store, Early
  <2>5. /\ Published(runs[r], event[r]).state = event[r]
        /\ Published(runs[r], event[r]).cancel = runs[r].cancel
        /\ Published(runs[r], event[r]).completed = runs[r].completed
    <3>1. runs[r] \in LiveRuns /\ runs[r].completed \in BOOLEAN
      BY <1>t, <2>3 DEF LiveRuns
    <3> QED
      BY <2>1, <2>3, <3>1, PublishedFields
  <2>6. SameRuns /\ \A q \in DOMAIN runs : runs'[q].cancel = runs[q].cancel
    BY <2>1, <2>3, <2>4, <2>5 DEF SameRuns, IsActive
  <2> QED
    BY <2>2, <2>4, <2>6, EarlyUnseen
<1>5. ASSUME NEW r \in RunId, PublishCanceled(r) PROVE LStep
  BY <1>5, TerminalFinishes DEF PublishCanceled, Early, TerminalStates
<1>6. ASSUME NEW r \in RunId, NEW st \in {"completed", "failed"}, PublishOutcome(r, st)
      PROVE  LStep
  BY <1>6, TerminalFinishes DEF PublishOutcome, Early, TerminalStates
<1>7. ASSUME NEW c \in Caller, CallerStep(c) PROVE LStep
  <2>1. CASE \E r \in RunId : StartCheck(c, r)
    BY <1>1, <2>1 DEF StartCheck
  <2>2. CASE CancelSignal(c) \/ CancelDone(c)
    BY <1>1, <2>2 DEF CancelSignal, CancelDone
  <2> QED
    BY <1>2, <1>7, <2>1, <2>2, CancelCancels, CancelAllCancels, InsertInserts, CountCounts
    DEF CallerStep
<1>8. CASE UNCHANGED vars
  BY <1>1, <1>8 DEF vars
<1> QED
  BY <1>3, <1>4, <1>5, <1>6, <1>7, <1>8, SettleDiscounts DEF Next, TaskStep

(***************************************************************************)
(* The registry keeps the promise of RunLifecycle for any set of runs and  *)
(* of callers: seen from outside, a run is inserted, counted, finished and *)
(* discounted once each and in this order, and its cancellation is taken   *)
(* at most once, whichever calls race.                                     *)
(***************************************************************************)
THEOREM RegistryImplementsLifecycle ==
  ASSUME EncodeCanFail = FALSE
  PROVE  Spec => ImplementsLifecycle
<1>1. SafeInv /\ [Next]_vars => [Lifecycle!LNext]_(Lifecycle!lvars)
  BY StepMaps DEF LStep
<1>2. Spec => []SafeInv
  BY SafeInvAlways
<1> QED
  BY <1>1, <1>2, InitMaps, PTL DEF Spec, ImplementsLifecycle, Lifecycle!LSpec
=============================================================================
