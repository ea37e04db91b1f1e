-------------------------- MODULE LifecycleProofs --------------------------
(***************************************************************************)
(* The safety of the two servers that are built on RunLifecycle, for any   *)
(* runs and any number of connections.  Admission: the gate closes with    *)
(* `stopping`, and the shutdown flag finds every run settled.  WebServe:   *)
(* serve_websocket returns only when the runs it has acknowledged have     *)
(* settled.  Both rest on the lifecycle's counter.                         *)
(***************************************************************************)
EXTENDS Admission, WebServe, FiniteSetTheorems, TLAPS

(***************************************************************************)
(* The inductive invariant.  A handler between the gate and its reply      *)
(* holds the lock (TypeOK), so the handler that sets `stopping` leaves no  *)
(* start behind the gate, and no run that is inserted and not yet counted, *)
(* which the counter would miss.  An idle shutdown that was accepted and   *)
(* not yet written, and one that was carried out, find the registry quiet. *)
(***************************************************************************)
Named(o) == /\ o.req = "start" => o.run \in RunId
            /\ o.pc \in {"start", "count"} => o.req = "start"
            /\ o.pc = "wait" => o.req = "cancel"

CallsNamed == \A c \in Conn : Named(conn[c])

InsertedHeld ==
  \A r \in RunId :
    phase[r] = "inserted" => \E c \in Conn : conn[c].pc = "count" /\ conn[c].run = r

GateClosed == stopping => \A c \in Conn : conn[c].pc \notin {"start", "count"}

ShutsIdle(c) == conn[c].pc = "send" /\ conn[c].req = "if_idle" /\ conn[c].reply = "accepted"

Shuts(c) == /\ conn[c].pc = "send" /\ conn[c].reply = "accepted"
            /\ conn[c].req \in {"if_idle", "drain", "terminate"}

StopsBegun ==
  /\ shutdown \/ drain # "none" => stopping
  /\ \A c \in Conn : Shuts(c) => stopping
  /\ shutdown \/ (\E c \in Conn : ShutsIdle(c)) => Quiet

Handlers == [pc : PCs, req : Requests \cup {"none"}, run : RunId \cup {"none"},
             reply : {"none", "accepted", "error"}]

ConnTyped == conn \in [Conn -> Handlers]

Holds(o) == o.pc \in {"start", "count", "send"} /\ o.req \in Gated

AInv == /\ TypeOK /\ ConnTyped /\ CountExact
        /\ CallsNamed /\ InsertedHeld /\ GateClosed /\ StopsBegun

-----------------------------------------------------------------------------
(* The lifecycle's counter, which Admission inherits: RunLifecycle keeps    *)
(* CountExact whatever it is composed with.                                 *)
LEMMA LifecycleStep ==
  ASSUME LTypeOK, CountExact, [LNext]_lvars
  PROVE  LTypeOK' /\ CountExact'
<1>0. IsFiniteSet(Counted) /\ Cardinality(Counted) \in Nat
  BY RunIdFinite, FS_Subset, FS_CardinalityType DEF Counted
<1>1. ASSUME NEW r \in RunId, Insert(r) \/ Finish(r)
      PROVE  LTypeOK' /\ CountExact'
  <2>1. Counted' = Counted
    BY <1>1 DEF Insert, Finish, Enter, Counted, LTypeOK
  <2> QED
    BY <1>1, <2>1 DEF Insert, Finish, Enter, LTypeOK, Phases, CountExact
<1>2. ASSUME NEW r \in RunId, Count(r)
      PROVE  LTypeOK' /\ CountExact'
  <2>1. Counted' = Counted \cup {r} /\ r \notin Counted
    BY <1>2 DEF Count, Enter, Counted, LTypeOK
  <2>2. Cardinality(Counted') = Cardinality(Counted) + 1
    BY <1>0, <2>1, FS_AddElement
  <2> QED
    BY <1>2, <2>2 DEF Count, Enter, LTypeOK, Phases, CountExact
<1>3. ASSUME NEW r \in RunId, Discount(r)
      PROVE  LTypeOK' /\ CountExact'
  <2>1. Counted' = Counted \ {r} /\ r \in Counted
    BY <1>3 DEF Discount, Enter, Counted, LTypeOK
  <2>2. Cardinality(Counted') = Cardinality(Counted) - 1
    BY <1>0, <2>1, FS_RemoveElement
  <2>3. Cardinality(Counted') \in Nat
    BY <1>0, <2>1, FS_RemoveElement, FS_CardinalityType
  <2> QED
    BY <1>0, <1>3, <2>2, <2>3 DEF Discount, Enter, LTypeOK, Phases, CountExact
<1>4. ASSUME CancelAll \/ (\E r \in RunId : Cancel(r)) \/ UNCHANGED lvars
      PROVE  LTypeOK' /\ CountExact'
  BY <1>4 DEF CancelAll, Cancel, lvars, LTypeOK, CountExact, Counted
<1> QED
  BY <1>1, <1>2, <1>3, <1>4 DEF LNext

(* A counter at zero, and no run inserted that it would miss. *)
LEMMA ZeroIsQuiet ==
  ASSUME LTypeOK, CountExact, count = 0, \A r \in RunId : phase[r] # "inserted"
  PROVE  Quiet
<1>1. Counted = {}
  BY RunIdFinite, FS_Subset, FS_EmptySet DEF Counted, CountExact
<1> QED
  BY <1>1 DEF Counted, Quiet, LTypeOK, Phases

LEMMA AInvInit == Init => AInv
<1> SUFFICES ASSUME Init PROVE AInv
  OBVIOUS
<1>1. LTypeOK /\ CountExact
  <2>1. Counted = {}
    BY DEF Init, LInit, Counted
  <2> QED
    BY <2>1, FS_EmptySet DEF Init, LInit, LTypeOK, Phases, CountExact
<1>2. TypeOK /\ ConnTyped
  BY <1>1, ConnAssumption DEF Init, TypeOK, ConnTyped, Handlers, Closed, PCs, Requests, Gated
<1>3. CallsNamed /\ InsertedHeld /\ GateClosed /\ StopsBegun
  BY DEF Init, LInit, CallsNamed, Named, InsertedHeld, GateClosed, StopsBegun, Shuts, ShutsIdle, Closed
<1> QED
  BY <1>1, <1>2, <1>3 DEF AInv
-----------------------------------------------------------------------------
LEMMA ReadyIs == Ready = [pc |-> "ready", req |-> "none", run |-> "none", reply |-> "none"]
BY DEF Ready, Closed

(* A step of handler c to o keeps what TypeOK and CallsNamed say of the     *)
(* handlers, if the lock goes with it.                                      *)
LEMMA HandlerTyped ==
  ASSUME AInv, LTypeOK', NEW c \in Conn, NEW o \in Handlers,
         conn' = [conn EXCEPT ![c] = o], Named(o),
         lock' = IF Holds(o) THEN c ELSE IF lock = c THEN "free" ELSE lock,
         Holds(o) => lock \in {c, "free"},
         stopping' \in BOOLEAN, shutdown' \in BOOLEAN, serving' \in BOOLEAN,
         drain' \in {"none", "cancel", "wait", "done"}
  PROVE  TypeOK' /\ ConnTyped' /\ CallsNamed'
<1> USE DEF AInv
<1>1. ConnTyped' /\ CallsNamed'
  BY DEF ConnTyped, CallsNamed
<1>2. \A d \in Conn : conn'[d] \in Handlers
  BY <1>1 DEF ConnTyped
<1>3. lock' \in Conn \cup {"free"}
  BY DEF TypeOK
<1>4. ASSUME NEW d \in Conn
      PROVE  (lock' = d) = Holds(conn'[d])
  <2>1. (lock = d) = Holds(conn[d])
    BY DEF TypeOK, Holds
  <2>2. conn'[d] = IF d = c THEN o ELSE conn[d]
    BY DEF ConnTyped
  <2> QED
    BY <2>1, <2>2, ConnAssumption DEF Holds
<1> QED
  BY <1>1, <1>2, <1>3, <1>4 DEF TypeOK, Handlers, Holds

(* A step of a handler that leaves the registry, the flags and the drain    *)
(* task alone, and accepts no shutdown.                                     *)
LEMMA TalkSafe ==
  ASSUME AInv, NEW c \in Conn,
         \/ Accept(c) \/ HangUp(c)
         \/ \E r \in RunId : Ask(c, "start", r)
         \/ \E req \in Gated \ {"start"} : Ask(c, req, "none")
         \/ StartRun(c) \/ StartRefused(c) \/ CancelCompleted(c) \/ SendFailed(c)
  PROVE  AInv'
<1> USE DEF AInv
<1>0. UNCHANGED <<lvars, stopping, drain, shutdown, serving>>
  BY DEF Accept, HangUp, Ask, StartRun, StartRefused, CancelCompleted, SendFailed
<1>1. CountExact' /\ LTypeOK'
  BY <1>0 DEF CountExact, Counted, LTypeOK, lvars, TypeOK
<1>2. conn[c] \in Handlers /\ Named(conn[c]) /\ (lock = c) = Holds(conn[c])
  BY DEF ConnTyped, CallsNamed, TypeOK, Holds
<1> DEFINE Good(o) ==
        /\ o \in Handlers /\ conn' = [conn EXCEPT ![c] = o] /\ Named(o)
        /\ lock' = IF Holds(o) THEN c ELSE IF lock = c THEN "free" ELSE lock
        /\ Holds(o) => lock \in {c, "free"}
        /\ conn[c].pc # "count" /\ o.pc # "count"
        /\ o.pc = "start" => ~stopping
        /\ o.pc = "send" => o.reply = "error" \/ o.req = "cancel"
<1>3. \E o : Good(o)
  <2> USE DEF Handlers, PCs, Requests, Gated, Named, Holds
  <2>1. CASE Accept(c)
    <3>1. Good(Ready)
      BY <1>2, <2>1, ReadyIs DEF Accept, Closed
    <3> QED
      BY <3>1
  <2>2. CASE HangUp(c) \/ SendFailed(c)
    <3>1. Good(Closed)
      BY <1>2, <2>2, ConnAssumption DEF HangUp, SendFailed, Release, Closed
    <3> QED
      BY <3>1
  <2>3. ASSUME NEW req \in Gated, NEW r \in RunId \cup {"none"}, Ask(c, req, r),
               req = "start" => r \in RunId
        PROVE  \E o : Good(o)
    <3>1. Good([pc |-> "gate", req |-> req, run |-> r, reply |-> "none"])
      BY <1>2, <2>3 DEF Ask
    <3> QED
      BY <3>1
  <2>4. CASE StartRun(c) /\ ~stopping
    <3>1. Good([conn[c] EXCEPT !.pc = "start"])
      BY <1>2, <2>4 DEF StartRun, At, Go
    <3> QED
      BY <3>1
  <2>5. CASE (StartRun(c) /\ stopping) \/ StartRefused(c)
    <3>1. Good([conn[c] EXCEPT !.pc = "send", !.reply = "error"])
      BY <1>2, <2>5 DEF StartRun, StartRefused, At, Reply
    <3> QED
      BY <3>1
  <2>6. CASE CancelCompleted(c)
    <3>1. Good([conn[c] EXCEPT !.pc = "send", !.reply = "accepted"])
      BY <1>2, <2>6 DEF CancelCompleted, Reply
    <3> QED
      BY <3>1
  <2> HIDE DEF Good
  <2> QED
    BY <2>1, <2>2, <2>3, <2>4, <2>5, <2>6
<1>4. PICK o : Good(o)
  BY <1>3
<1>5. TypeOK' /\ ConnTyped' /\ CallsNamed'
  BY <1>0, <1>1, <1>4, HandlerTyped DEF TypeOK
<1>6. InsertedHeld'
  BY <1>0, <1>4 DEF InsertedHeld, ConnTyped, lvars
<1>7. GateClosed'
  BY <1>0, <1>4 DEF GateClosed, ConnTyped
<1>8. StopsBegun'
  BY <1>0, <1>4 DEF StopsBegun, Shuts, ShutsIdle, Quiet, ConnTyped, lvars, Handlers
<1> QED
  BY <1>1, <1>5, <1>6, <1>7, <1>8

(* With the lock free no start is behind the gate, and no run is inserted.  *)
LEMMA FreeLock ==
  ASSUME AInv, lock = "free"
  PROVE  /\ \A d \in Conn : ~Holds(conn[d]) /\ conn[d].pc \notin {"start", "count"}
         /\ \A r \in RunId : phase[r] # "inserted"
<1> USE DEF AInv
<1>1. ASSUME NEW d \in Conn
      PROVE  ~Holds(conn[d]) /\ conn[d].pc \notin {"start", "count"}
  <2>1. (lock = d) = Holds(conn[d]) /\ Named(conn[d])
    BY DEF TypeOK, Holds, CallsNamed
  <2> QED
    BY <2>1, ConnAssumption DEF Holds, Named, Gated
<1> QED
  BY <1>1 DEF InsertedHeld

(* The two shutdown requests behind the gate. *)
LEMMA ShutdownSafe ==
  ASSUME AInv, NEW c \in Conn, ShutdownIfIdle(c) \/ Shutdown(c)
  PROVE  AInv'
<1> USE DEF AInv
<1>0. UNCHANGED <<lvars, drain, shutdown, serving>> /\ lock = "free" /\ lock' = c
  BY DEF ShutdownIfIdle, Shutdown
<1>1. CountExact' /\ LTypeOK'
  BY <1>0 DEF CountExact, Counted, LTypeOK, lvars, TypeOK
<1>2. /\ conn[c] \in Handlers /\ Named(conn[c]) /\ conn[c].pc = "gate"
      /\ stopping \in BOOLEAN /\ count \in Nat
  BY DEF ConnTyped, CallsNamed, ShutdownIfIdle, Shutdown, At, TypeOK, LTypeOK
<1> DEFINE Answer(reply) ==
        /\ conn' = [conn EXCEPT ![c] = [conn[c] EXCEPT !.pc = "send", !.reply = reply]]
        /\ reply = "accepted" => stopping' = TRUE
        /\ reply = "accepted" /\ conn[c].req = "if_idle" => count = 0
        /\ reply = "error" => stopping' = stopping
<1>3. PICK reply \in {"accepted", "error"} : Answer(reply)
  <2>1. CASE (ShutdownIfIdle(c) /\ count > 0) \/ (Shutdown(c) /\ stopping)
    <3>1. Answer("error")
      BY <1>2, <2>1 DEF ShutdownIfIdle, Shutdown, Reply, At, Handlers
    <3> QED
      BY <3>1
  <2>2. CASE ShutdownIfIdle(c) /\ ~(count > 0)
    <3>1. count = 0
      BY <1>2, <2>2
    <3>2. Reply(c, "accepted") /\ stopping' = TRUE
      BY <2>2 DEF ShutdownIfIdle
    <3>3. Answer("accepted")
      BY <1>2, <3>1, <3>2 DEF Reply, Handlers
    <3> QED
      BY <3>3
  <2>3. CASE Shutdown(c) /\ ~stopping
    <3>1. Answer("accepted")
      BY <1>2, <2>3 DEF Shutdown, Reply, At, Handlers
    <3> QED
      BY <3>1
  <2> QED
    BY <2>1, <2>2, <2>3
<1>4. /\ stopping' \in BOOLEAN
      /\ stopping => stopping'
      /\ reply = "accepted" => stopping'
  <2>1. /\ reply = "accepted" => stopping' = TRUE
        /\ reply = "error" => stopping' = stopping
    BY <1>3
  <2>2. CASE reply = "accepted"
    <3>1. stopping' = TRUE
      BY <2>1, <2>2
    <3> QED
      BY <3>1, Zenon
  <2>3. CASE reply = "error"
    <3>1. stopping' = stopping /\ reply # "accepted"
      BY <2>1, <2>3
    <3> QED
      BY <1>2, <3>1, Zenon
  <2> QED
    BY <2>2, <2>3
<1> DEFINE o == [conn[c] EXCEPT !.pc = "send", !.reply = reply]
<1>5. o \in Handlers /\ Named(o) /\ Holds(o) /\ o.pc = "send" /\ o.req = conn[c].req
      /\ o.reply = reply
  BY <1>2, <1>3 DEF Handlers, PCs, Named, Holds, ShutdownIfIdle, Shutdown, At, Gated
<1> HIDE DEF o
<1>6. conn' = [conn EXCEPT ![c] = o]
  BY <1>3 DEF o
<1>7. TypeOK' /\ ConnTyped' /\ CallsNamed'
  BY <1>0, <1>1, <1>4, <1>5, <1>6, HandlerTyped DEF TypeOK
<1>8. InsertedHeld' /\ GateClosed'
  <2>1. \A d \in Conn : conn'[d].pc \notin {"start", "count"}
    BY <1>0, <1>5, <1>6, FreeLock DEF ConnTyped
  <2>2. \A r \in RunId : phase'[r] # "inserted"
    BY <1>0, FreeLock DEF lvars
  <2> QED
    BY <2>1, <2>2 DEF InsertedHeld, GateClosed
<1>9. StopsBegun'
  <2>1. count = 0 => Quiet
    BY <1>0, FreeLock, ZeroIsQuiet DEF TypeOK
  <2>2. Quiet' <=> Quiet
    BY <1>0 DEF Quiet, lvars
  <2>3. \A d \in Conn : d # c => conn'[d] = conn[d]
    BY <1>6 DEF ConnTyped
  <2>4. conn'[c] = o
    BY <1>6 DEF ConnTyped
  <2> QED
    BY <1>0, <1>3, <1>4, <1>5, <2>1, <2>2, <2>3, <2>4 DEF StopsBegun, Shuts, ShutsIdle
<1> QED
  BY <1>1, <1>7, <1>8, <1>9

(* The start that passed the gate: no shutdown has begun. *)
LEMMA StartSafe ==
  ASSUME AInv, NEW c \in Conn, StartInserted(c) \/ StartCounted(c)
  PROVE  AInv'
<1> USE DEF AInv
<1>0. UNCHANGED <<stopping, lock, drain, shutdown, serving>>
  BY DEF StartInserted, StartCounted
<1>1. /\ conn[c] \in Handlers /\ Named(conn[c]) /\ lock = c
      /\ conn[c].pc \in {"start", "count"} /\ conn[c].req = "start" /\ conn[c].run \in RunId
  <2>1. conn[c] \in Handlers /\ Named(conn[c]) /\ conn[c].pc \in {"start", "count"}
    BY DEF ConnTyped, CallsNamed, StartInserted, StartCounted
  <2> QED
    BY <2>1 DEF Named, TypeOK, Gated
<1>2. CountExact' /\ LTypeOK'
  <2>1. LNext
    BY <1>1 DEF StartInserted, StartCounted, LNext
  <2> QED
    BY <2>1, LifecycleStep DEF TypeOK
<1>3. ~stopping /\ ~shutdown /\ drain = "none" /\ \A d \in Conn : ~Shuts(d)
  BY <1>1 DEF GateClosed, StopsBegun, TypeOK
<1>4. PICK o \in Handlers :
        /\ conn' = [conn EXCEPT ![c] = o] /\ Named(o) /\ Holds(o) /\ o.req = "start"
        /\ o.run = conn[c].run
        /\ StartInserted(c) => o.pc = "count"
  <2>1. CASE StartInserted(c)
    <3> DEFINE o == [conn[c] EXCEPT !.pc = "count"]
    <3>1. /\ o \in Handlers /\ Named(o) /\ Holds(o) /\ o.req = "start" /\ o.pc = "count"
          /\ o.run = conn[c].run
      BY <1>1 DEF Handlers, PCs, Named, Holds, Gated
    <3>2. conn' = [conn EXCEPT ![c] = o]
      BY <2>1 DEF StartInserted, Go
    <3> QED
      BY <3>1, <3>2
  <2>2. CASE StartCounted(c)
    <3> DEFINE o == [conn[c] EXCEPT !.pc = "send", !.reply = "accepted"]
    <3>1. /\ o \in Handlers /\ Named(o) /\ Holds(o) /\ o.req = "start"
          /\ o.run = conn[c].run
      BY <1>1 DEF Handlers, PCs, Named, Holds, Gated
    <3>2. conn' = [conn EXCEPT ![c] = o] /\ conn[c].pc = "count"
      BY <1>1, <2>2 DEF StartCounted, Reply, Handlers
    <3>3. ~StartInserted(c)
      BY <3>2 DEF StartInserted
    <3> QED
      BY <3>1, <3>2, <3>3
  <2> QED
    BY <2>1, <2>2
<1>5. TypeOK' /\ ConnTyped' /\ CallsNamed'
  BY <1>0, <1>1, <1>2, <1>4, HandlerTyped DEF TypeOK
<1>6. /\ \A d \in Conn : d # c => conn'[d] = conn[d]
      /\ conn'[c] = o
  BY <1>4 DEF ConnTyped
<1>7. InsertedHeld'
  <2>1. CASE StartInserted(c)
    BY <1>1, <1>4, <1>6, <2>1 DEF StartInserted, Insert, Enter, InsertedHeld, TypeOK, LTypeOK
  <2>2. CASE StartCounted(c)
    BY <1>1, <1>4, <1>6, <2>2 DEF StartCounted, Count, Enter, InsertedHeld, TypeOK, LTypeOK
  <2> QED
    BY <2>1, <2>2
<1>8. GateClosed' /\ StopsBegun'
  <2>1. \A d \in Conn : ~Shuts(d)' /\ ~ShutsIdle(d)'
    BY <1>3, <1>4, <1>6 DEF Shuts, ShutsIdle
  <2> QED
    BY <1>0, <1>3, <2>1 DEF GateClosed, StopsBegun
<1> QED
  BY <1>2, <1>5, <1>7, <1>8

(* CancelRun takes the cancellation of a run. *)
LEMMA CancelSafe ==
  ASSUME AInv, NEW c \in Conn, NEW r \in RunId, CancelRun(c, r)
  PROVE  AInv'
<1> USE DEF AInv
<1>0. UNCHANGED <<phase, stopping, lock, drain, shutdown, serving>> /\ Cancel(r)
  BY DEF CancelRun, Cancel
<1>1. CountExact' /\ LTypeOK'
  BY <1>0, LifecycleStep DEF LNext, TypeOK
<1> DEFINE o == [pc |-> "wait", req |-> "cancel", run |-> r, reply |-> "none"]
<1>2. o \in Handlers /\ Named(o) /\ ~Holds(o) /\ lock # c
  BY DEF Handlers, PCs, Requests, Gated, Named, Holds, CancelRun, TypeOK
<1>3. conn' = [conn EXCEPT ![c] = o] /\ conn[c].pc = "ready" /\ o.pc = "wait"
  BY DEF CancelRun
<1> HIDE DEF o
<1>4. TypeOK' /\ ConnTyped' /\ CallsNamed'
  BY <1>0, <1>1, <1>2, <1>3, HandlerTyped DEF TypeOK
<1>5. InsertedHeld' /\ GateClosed'
  BY <1>0, <1>3 DEF InsertedHeld, GateClosed, ConnTyped
<1>6. StopsBegun'
  BY <1>0, <1>3 DEF StopsBegun, Shuts, ShutsIdle, Quiet, ConnTyped
<1> QED
  BY <1>1, <1>4, <1>5, <1>6

(* The reply is written, and an accepted shutdown carried out. *)
LEMMA SentSafe ==
  ASSUME AInv, NEW c \in Conn, Sent(c)
  PROVE  AInv'
<1> USE DEF AInv
<1>0. UNCHANGED <<lvars, stopping, serving>> /\ Release(c) /\ conn[c].pc = "send"
  BY DEF Sent
<1>1. CountExact' /\ LTypeOK'
  BY <1>0 DEF CountExact, Counted, LTypeOK, lvars, TypeOK
<1>2. PICK o \in {Closed, Ready} : conn' = [conn EXCEPT ![c] = o]
  BY DEF Sent
<1>3. o \in Handlers /\ Named(o) /\ ~Holds(o) /\ o.pc \in {"closed", "ready"}
  BY <1>2, ReadyIs DEF Closed, Handlers, PCs, Named, Holds
<1>4. /\ shutdown' = (shutdown \/ ShutsIdle(c))
      /\ drain' = drain \/ (drain' \in {"wait", "cancel"} /\ Shuts(c))
  BY <1>0 DEF Sent, ShutsIdle, Shuts
<1>5. TypeOK' /\ ConnTyped' /\ CallsNamed'
  <2>1. shutdown' \in BOOLEAN /\ drain' \in {"none", "cancel", "wait", "done"}
    BY <1>4 DEF TypeOK
  <2> QED
    BY <1>0, <1>1, <1>2, <1>3, <2>1, HandlerTyped DEF TypeOK, Release
<1>6. /\ \A d \in Conn : d # c => conn'[d] = conn[d]
      /\ conn'[c] = o
  BY <1>2 DEF ConnTyped
<1>7. InsertedHeld' /\ GateClosed'
  BY <1>0, <1>3, <1>6 DEF InsertedHeld, GateClosed, lvars
<1>8. StopsBegun'
  <2>1. (Quiet' <=> Quiet) /\ (stopping' <=> stopping)
    BY <1>0 DEF Quiet, lvars
  <2>2. Shuts(c) => stopping
    BY DEF StopsBegun
  <2>3. ShutsIdle(c) => Shuts(c)
    BY DEF Shuts, ShutsIdle
  <2>4. \A d \in Conn : (Shuts(d)' => Shuts(d)) /\ (ShutsIdle(d)' => ShutsIdle(d))
    BY <1>3, <1>6 DEF Shuts, ShutsIdle
  <2> QED
    BY <1>4, <2>1, <2>2, <2>3, <2>4 DEF StopsBegun
<1> QED
  BY <1>1, <1>5, <1>7, <1>8

(* The accept loop, the drain task and the runs' own tasks. *)
LEMMA TasksSafe ==
  ASSUME AInv,
         ServeEnds \/ AcceptFails \/ DrainCancel \/ DrainIdle \/ \E r \in RunId : RunEnds(r)
  PROVE  AInv'
<1> USE DEF AInv
<1>0. UNCHANGED <<stopping, lock, conn>>
  BY DEF ServeEnds, AcceptFails, DrainCancel, DrainIdle, RunEnds, avars
<1>1. CountExact' /\ LTypeOK'
  <2>1. [LNext]_lvars
    BY DEF ServeEnds, AcceptFails, DrainCancel, DrainIdle, RunEnds, LNext
  <2> QED
    BY <2>1, LifecycleStep DEF TypeOK
<1>2. TypeOK' /\ ConnTyped' /\ CallsNamed' /\ GateClosed'
  BY <1>0, <1>1 DEF TypeOK, ConnTyped, CallsNamed, GateClosed, ServeEnds, AcceptFails,
                    DrainCancel, DrainIdle, RunEnds, avars
<1>3. \A r \in RunId : /\ phase'[r] = "inserted" => phase[r] = "inserted"
                       /\ phase[r] \in {"absent", "settled"} => phase'[r] = phase[r]
  BY DEF ServeEnds, AcceptFails, DrainCancel, DrainIdle, CancelAll, RunEnds, Finish, Discount,
         Enter, lvars, TypeOK, LTypeOK
<1>4. InsertedHeld'
  BY <1>0, <1>3 DEF InsertedHeld
<1>5. StopsBegun'
  <2>1. Quiet => Quiet'
    BY <1>3 DEF Quiet
  <2>2. CASE DrainIdle
    <3>1. stopping /\ count = 0 /\ UNCHANGED lvars
      BY <2>2 DEF DrainIdle, StopsBegun
    <3>2. \A r \in RunId : phase[r] # "inserted"
      BY <3>1 DEF InsertedHeld, GateClosed
    <3>3. Quiet'
      BY <2>1, <3>1, <3>2, ZeroIsQuiet DEF TypeOK
    <3> QED
      BY <1>0, <3>1, <3>3 DEF StopsBegun, Shuts, ShutsIdle
  <2>3. CASE ~DrainIdle
    <3>1. shutdown' = shutdown /\ (drain' # "none" => drain # "none")
      BY <2>3 DEF ServeEnds, AcceptFails, DrainCancel, RunEnds, avars
    <3> QED
      BY <1>0, <2>1, <3>1 DEF StopsBegun, Shuts, ShutsIdle
  <2> QED
    BY <2>2, <2>3
<1> QED
  BY <1>1, <1>2, <1>4, <1>5

-----------------------------------------------------------------------------
LEMMA AInvStep == AInv /\ [Next]_vars => AInv'
<1> SUFFICES ASSUME AInv, [Next]_vars PROVE AInv'
  OBVIOUS
<1>1. ASSUME NEW c \in Conn, Accept(c) \/ Client(c) \/ Handler(c) \/ Write(c)
      PROVE  AInv'
  BY <1>1, TalkSafe, ShutdownSafe, StartSafe, CancelSafe, SentSafe DEF Client, Handler, Write
<1>2. CASE UNCHANGED vars
  BY <1>2 DEF vars, AInv, TypeOK, LTypeOK, ConnTyped, CountExact, Counted, CallsNamed,
              InsertedHeld, GateClosed, StopsBegun, Shuts, ShutsIdle, Quiet
<1> QED
  BY <1>1, <1>2, TasksSafe DEF Next

LEMMA AInvHolds == Spec => []AInv
BY AInvInit, AInvStep, PTL DEF Spec

(* Type correctness, and the lock: only a handler that has passed the gate  *)
(* and not yet written its reply holds the lifecycle lock.                  *)
THEOREM AdmissionTyped == Spec => []TypeOK
<1>1. AInv => TypeOK
  BY DEF AInv
<1> QED
  BY <1>1, AInvHolds, PTL

(* "Stop the daemon only when no provider run is still live", for any runs  *)
(* and connections (ShutdownIfIdle, and the drain task's wait_until_idle).  *)
THEOREM AlwaysStopsIdle == Spec => []StopsOnlyWhenIdle
<1>1. AInv => StopsOnlyWhenIdle
  BY DEF AInv, StopsBegun, Quiet, StopsOnlyWhenIdle
<1> QED
  BY <1>1, AInvHolds, PTL

(* Once stopping is set no run enters the registry, whatever start was on   *)
(* its way (the admission gate of StartRun).                                *)
THEOREM AdmissionStaysClosed == Spec => AdmissionCloses
<1>1. ASSUME AInv, [Next]_vars
      PROVE  [stopping => \A r \in RunId : phase[r] = "absent" => phase'[r] = "absent"]_vars
  <2> SUFFICES ASSUME stopping, NEW r \in RunId, phase[r] = "absent"
               PROVE  phase'[r] = "absent"
    OBVIOUS
  <2>1. \A c \in Conn : ~StartInserted(c) /\ ~StartCounted(c)
    BY <1>1 DEF AInv, GateClosed, StartInserted, StartCounted
  <2>2. phase \in [RunId -> Phases]
    BY <1>1 DEF AInv, TypeOK, LTypeOK
  <2>3. ASSUME NEW c \in Conn, Accept(c) \/ Client(c) \/ Handler(c) \/ Write(c)
        PROVE  phase' = phase
    BY <2>1, <2>3 DEF Client, Handler, Write, Accept, HangUp, Ask, CancelRun, Cancel,
                      ShutdownIfIdle, Shutdown, StartRun, StartRefused, CancelCompleted, Sent, SendFailed, lvars
  <2>4. ASSUME NEW q \in RunId, RunEnds(q)
        PROVE  phase'[r] = "absent"
    BY <2>2, <2>4 DEF RunEnds, Finish, Discount, Enter
  <2>5. ASSUME ServeEnds \/ AcceptFails \/ DrainCancel \/ DrainIdle \/ UNCHANGED vars
        PROVE  phase' = phase
    BY <2>5 DEF ServeEnds, AcceptFails, DrainCancel, DrainIdle, CancelAll, lvars, vars
  <2> QED
    BY <1>1, <2>3, <2>4, <2>5 DEF Next
<1> QED
  BY <1>1, AInvHolds, PTL DEF Spec, AdmissionCloses

-----------------------------------------------------------------------------
(***************************************************************************)
(* The WebSocket server, over the same lifecycle.                          *)
(***************************************************************************)
(***************************************************************************)
(* DrainsAcked is not inductive.  WebInv adds that the counter is exact,   *)
(* that a start is answered only once its run is counted, which is what    *)
(* the drain's look at the counter then sees, and that nothing is answered *)
(* any more once the drain has begun.                                      *)
(***************************************************************************)
AckedCounted == \A r \in acked : phase[r] \notin {"absent", "inserted"}
DrainsDown   == serve.pc # "serving" => server = "down"

WebInv == /\ WebTypeOK /\ CountExact
          /\ AckedCounted /\ DrainsDown /\ DrainsAcked

LEMMA WebInvInit == WebInit => WebInv
<1> SUFFICES ASSUME WebInit PROVE WebInv
  OBVIOUS
<1>1. LInit /\ acked = {} /\ serve = [pc |-> "serving", snap |-> 0]
  BY DEF WebInit, LInit
<1>2. Counted = {} /\ CountExact
  BY <1>1, FS_EmptySet DEF LInit, Counted, CountExact
<1>3. WebTypeOK
  <2>1. LTypeOK
    BY <1>1 DEF LInit, LTypeOK, Phases
  <2>2. /\ signal \in BOOLEAN /\ server \in {"up", "down"}
        /\ start \in [RunId -> {"none", "spawned", "ended"}] /\ acked \subseteq RunId
        /\ changed \in Nat /\ unnotified \in RunId \cup {"none"}
    BY DEF WebInit
  <2>3. serve \in [pc : DrainStates, snap : Nat]
    BY <1>1 DEF DrainStates
  <2>4. flag \in [RunId -> BOOLEAN]
    BY DEF WebInit
  <2>5. cancel \in [RunId -> [pc : CancelStates, snap : BOOLEAN]]
    <3>1. [pc |-> "none", snap |-> FALSE] \in [pc : CancelStates, snap : BOOLEAN]
      BY DEF CancelStates
    <3>2. QED
      BY <3>1 DEF WebInit
  <2>6. QED
    BY <2>1, <2>2, <2>3, <2>4, <2>5 DEF WebTypeOK
<1>4. QED
  BY <1>1, <1>2, <1>3 DEF WebInv, AckedCounted, DrainsDown, DrainsAcked

(* A step of the server is a step of the lifecycle, or none. *)
WebLifecycle == \/ \E r \in RunId : \/ TaskInserted(r) \/ TaskCounted(r)
                                   \/ RunFinishes(r) \/ RunDiscounted(r)
                                   \/ MethodCancelRun(r)
                \/ UNCHANGED lvars

LEMMA WebStepIsLifecycle == ASSUME WebNext \/ UNCHANGED webvars PROVE WebLifecycle
<1>1. CASE UNCHANGED webvars
  BY <1>1 DEF WebLifecycle, webvars, lvars
<1>2. CASE Signalled \/ Stopped \/ ListenFails \/ Draining
  BY <1>2 DEF WebLifecycle, Signalled, Stopped, ListenFails, ServerReturns, Draining,
      DrainNotified, DrainLook, DrainWoken, Exit, lvars
<1>3. ASSUME NEW r \in RunId,
             \/ MethodStartRun(r) \/ TaskRefused(r) \/ TaskAnswered(r)
             \/ FlagNotified(r) \/ ActivityNotified(r) \/ Waiting(r)
      PROVE  WebLifecycle
  BY <1>3 DEF WebLifecycle, MethodStartRun, TaskRefused, TaskAnswered, FlagNotified,
      ActivityNotified, Waiting, CancelNotified, CancelLook, CancelWoken, lvars
<1>4. QED
  BY <1>1, <1>2, <1>3 DEF WebLifecycle, WebNext, Starting, Settling

LEMMA WebLifecycleSteps == ASSUME WebLifecycle PROVE [LNext]_lvars
  BY DEF WebLifecycle, TaskInserted, TaskCounted, RunFinishes, RunDiscounted,
      MethodCancelRun, Insert, Count, Finish, Discount, Cancel, Enter, Locked, LNext,
      lvars

(* The parts of the type that the lifecycle says nothing of. *)
WebTyped ==
  /\ signal \in BOOLEAN /\ server \in {"up", "down"}
  /\ serve \in [pc : DrainStates, snap : Nat]
  /\ start \in [RunId -> {"none", "spawned", "ended"}]
  /\ acked \subseteq RunId
  /\ cancel \in [RunId -> [pc : CancelStates, snap : BOOLEAN]]
  /\ flag \in [RunId -> BOOLEAN]
  /\ changed \in Nat /\ unnotified \in RunId \cup {"none"}

LEMMA WebTypeOKSplit == WebTypeOK <=> LTypeOK /\ WebTyped
  BY DEF WebTypeOK, WebTyped, LTypeOK, Phases

LEMMA WebTypedStep == ASSUME WebTyped, WebNext \/ UNCHANGED webvars PROVE WebTyped'
<1> DEFINE Cancels == [pc : CancelStates, snap : BOOLEAN]
<1>1. CASE UNCHANGED webvars
  BY <1>1 DEF WebTyped, webvars, svars
<1>2. CASE Signalled
  BY <1>2 DEF WebTyped, Signalled
<1>3. CASE ServerReturns
  <2>1. \A r \in RunId : cancel'[r] \in Cancels
    BY <1>3 DEF WebTyped, ServerReturns, CancelStates
  <2>2. cancel' \in [RunId -> Cancels]
    BY <1>3, <2>1 DEF ServerReturns
  <2>3. QED
    BY <1>3, <2>2 DEF WebTyped, ServerReturns, DrainStates
<1>4. CASE Draining
  BY <1>4 DEF WebTyped, Draining, DrainNotified, DrainLook, DrainWoken,
              Exit, DrainStates
<1>5. ASSUME NEW r \in RunId, MethodStartRun(r) \/ TaskRefused(r) \/ TaskAnswered(r)
      PROVE  WebTyped'
  BY <1>5 DEF WebTyped, MethodStartRun, TaskRefused, TaskAnswered
<1>6. ASSUME NEW r \in RunId,
             \/ TaskInserted(r) \/ TaskCounted(r) \/ RunFinishes(r)
             \/ RunDiscounted(r) \/ ActivityNotified(r)
      PROVE  WebTyped'
  BY <1>6 DEF WebTyped, TaskInserted, TaskCounted, RunFinishes,
              RunDiscounted, ActivityNotified, svars
<1>7. ASSUME NEW r \in RunId, FlagNotified(r) PROVE WebTyped'
  <2>1. flag' \in [RunId -> BOOLEAN]
    BY <1>7, Zenon DEF WebTyped, FlagNotified
  <2>2. QED
    BY <1>7, <2>1 DEF WebTyped, FlagNotified
<1>8. ASSUME NEW r \in RunId, MethodCancelRun(r) \/ CancelLook(r) \/ CancelWoken(r)
      PROVE  WebTyped'
  <2>1. PICK pc \in CancelStates : cancel' = [cancel EXCEPT ![r].pc = pc]
    BY <1>8 DEF MethodCancelRun, CancelLook, CancelWoken, CancelStates
  <2>2. cancel' \in [RunId -> Cancels]
    BY <2>1 DEF WebTyped
  <2>3. QED
    BY <1>8, <2>2 DEF WebTyped, MethodCancelRun, CancelLook, CancelWoken
<1>9. ASSUME NEW r \in RunId, CancelNotified(r) PROVE WebTyped'
  <2>1. [pc |-> "look", snap |-> flag[r]] \in Cancels
    BY DEF WebTyped, CancelStates
  <2>2. cancel' \in [RunId -> Cancels]
    BY <1>9, <2>1 DEF WebTyped, CancelNotified
  <2>3. QED
    BY <1>9, <2>2 DEF WebTyped, CancelNotified
<1>10. QED
  BY <1>1, <1>2, <1>3, <1>4, <1>5, <1>6, <1>7, <1>8, <1>9
  DEF WebNext, Stopped, ListenFails, Starting, Settling, Waiting

LEMMA WebInvStep == WebInv /\ [WebNext]_webvars => WebInv'
<1> SUFFICES ASSUME WebInv, WebNext \/ UNCHANGED webvars PROVE WebInv'
  OBVIOUS
<1>1. LTypeOK /\ WebTyped /\ CountExact
  BY WebTypeOKSplit DEF WebInv
<1>2. LTypeOK' /\ CountExact'
  BY <1>1, WebStepIsLifecycle, WebLifecycleSteps, LifecycleStep
<1>3. WebTyped'
  BY <1>1, WebTypedStep
<1>4. WebTypeOK'
  BY <1>2, <1>3 DEF WebTypeOK, WebTyped, LTypeOK, Phases
<1>5. \A r \in RunId : /\ phase[r] \notin {"absent", "inserted"}
                            => phase'[r] \notin {"absent", "inserted"}
                       /\ phase[r] = "settled" => phase'[r] = "settled"
  BY <1>1, WebStepIsLifecycle, WebLifecycleSteps
  DEF LNext, Insert, Count, Finish, Discount, Cancel, CancelAll, Enter, lvars, LTypeOK
<1>6. /\ acked' # acked => server = "up" /\ serve' = serve
      /\ \A r \in acked' \ acked : phase[r] \notin {"absent", "inserted"}
  <2>1. CASE \E r \in RunId : TaskAnswered(r)
    BY <2>1 DEF TaskAnswered
  <2>2. CASE ~ \E r \in RunId : TaskAnswered(r)
    <3>1. acked' = acked
      BY <2>2 DEF WebNext, webvars, svars, Signalled, Stopped, ListenFails,
          ServerReturns, Draining, DrainNotified, DrainLook, DrainWoken,
          Exit, MethodStartRun, TaskRefused, Starting, TaskInserted,
          TaskCounted, RunFinishes, Settling, FlagNotified,
          RunDiscounted, ActivityNotified, MethodCancelRun, Waiting,
          CancelNotified, CancelLook, CancelWoken
    <3>2. QED
      BY <3>1
  <2>3. QED
    BY <2>1, <2>2
<1>7. AckedCounted'
  BY <1>3, <1>5, <1>6 DEF WebInv, AckedCounted, WebTyped
<1>8. /\ DrainsDown'
      /\ serve'.pc \in {"returned", "exited"} =>
           serve.pc \in {"returned", "exited"} \/ (count = 0 /\ UNCHANGED lvars)
  <2>1. CASE ServerReturns
    BY <2>1, <1>1 DEF WebInv, DrainsDown, WebTyped, ServerReturns, DrainStates
  <2>2. CASE Draining
    BY <2>2, <1>1 DEF WebInv, DrainsDown, WebTyped, Draining, DrainNotified, DrainLook,
      DrainWoken, Exit, lvars
  <2>3. CASE ~ServerReturns /\ ~Draining
    <3>1. UNCHANGED <<server, serve>>
      BY <2>3 DEF WebNext, webvars, svars, Signalled, Stopped, ListenFails,
          MethodStartRun, TaskRefused, Starting, TaskInserted,
          TaskCounted, TaskAnswered, RunFinishes, Settling,
          FlagNotified, RunDiscounted, ActivityNotified, MethodCancelRun,
          Waiting, CancelNotified, CancelLook, CancelWoken
    <3>2. QED
      BY <3>1 DEF WebInv, DrainsDown
  <2>4. QED
    BY <2>1, <2>2, <2>3
<1>9. DrainsAcked'
  <2>1. SUFFICES ASSUME serve'.pc \in {"returned", "exited"}, NEW r \in acked'
                 PROVE  phase'[r] = "settled"
    BY DEF DrainsAcked
  <2>2. CASE serve.pc \in {"returned", "exited"}
    <3>1. server = "down"
      BY <2>2 DEF WebInv, DrainsDown
    <3>2. r \in acked /\ r \in RunId
      BY <3>1, <1>3, <1>6 DEF WebTyped
    <3>3. QED
      BY <2>2, <3>2, <1>5 DEF WebInv, DrainsAcked
  <2>3. CASE count = 0 /\ UNCHANGED lvars
    <3>1. Counted = {}
      BY <2>3, <1>1, RunIdFinite, FS_Subset, FS_EmptySet DEF Counted, CountExact
    <3>2. r \in RunId /\ phase[r] \notin {"absent", "inserted"}
      BY <1>3, <1>6 DEF WebInv, AckedCounted, WebTyped
    <3>3. QED
      BY <2>3, <3>1, <3>2, <1>1 DEF Counted, LTypeOK, Phases, lvars
  <2>4. QED
    BY <2>1, <2>2, <2>3, <1>8
<1>10. QED
  BY <1>2, <1>4, <1>7, <1>8, <1>9 DEF WebInv

LEMMA WebInvHolds == WebSpec => []WebInv
  BY WebInvInit, WebInvStep, PTL DEF WebSpec

(* The state of the WebSocket daemon, its waiters and its tasks is well     *)
(* typed (main, serve_websocket, StartRun and CancelRun).                   *)
THEOREM WebServeTyped == WebSpec => []WebTypeOK
<1>1. WebInv => WebTypeOK
  BY DEF WebInv
<1>2. QED
  BY <1>1, WebInvHolds, PTL

(* "Keep the process alive until every provider already accepted by this    *)
(* registry settles", for any runs: serve_websocket returns only once every *)
(* run whose StartRun was answered has settled.                             *)
THEOREM DrainOutlivesAcked == WebSpec => []DrainsAcked
<1>1. WebInv => DrainsAcked
  BY DEF WebInv
<1>2. QED
  BY <1>1, WebInvHolds, PTL
=============================================================================
