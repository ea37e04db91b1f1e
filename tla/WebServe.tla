----------------------------- MODULE WebServe -----------------------------
(***************************************************************************)
(* The life of a daemon that serves MCP over WebSocket: main and           *)
(* termination of crates/proxy/src/main.rs, serve_websocket of web.rs with *)
(* its StartRun and CancelRun handlers, and the two waits of the registry  *)
(* they rest on, RunActivity::wait_until_idle and Flag::wait, down to the  *)
(* order of store, notification, snapshot and look.  The registry is the   *)
(* one that RunLifecycle specifies.                                        *)
(*                                                                         *)
(* Handlers are polled on the server's thread and end with it.  A start    *)
(* and a run are tasks of the pool, and outlive it.  What endpoint-libs    *)
(* does with a request that is under way when it stops is not known here:  *)
(* its handler may be cut off anywhere.                                    *)
(*                                                                         *)
(* The names differ from those of Admission, the other server over that    *)
(* registry, so that one module can reason about both.                     *)
(***************************************************************************)
EXTENDS RunLifecycle

VARIABLES
  signal,    \* a SIGTERM or SIGINT has been forwarded through the oneshot
  server,    \* "up" until listen_websocket returns
  serve,     \* where serve_websocket is: [pc, snap]
  start,     \* the task of the StartRun of each run
  acked,     \* history: runs whose StartRun was answered
  cancel,    \* the CancelRun handler of each run: [pc, snap]
  flag,      \* the Notify of each run's completed flag: it has woken its waiters
  changed,   \* the Notify of the activity: how often it has
  unnotified \* the run that has changed the counter and not yet notified, or "none"

svars   == <<signal, server, serve, start, acked, cancel, flag, changed, unnotified>>
webvars == <<phase, count, taken, svars>>

DrainStates  == {"serving", "loop", "look", "await", "returned", "exited"}
CancelStates == {"none", "loop", "look", "await", "answered", "cut"}
InCancel     == {"loop", "look", "await"}

Alive     == serve.pc # "exited"
Completed == {r \in RunId : phase[r] \in {"settling", "settled"}}   \* completed is set

(* The lock on the map is free. *)
Free == ~Locked /\ unnotified = "none"

WebInit ==
  /\ LInit
  /\ signal = FALSE /\ server = "up"
  /\ serve = [pc |-> "serving", snap |-> 0]
  /\ start = [r \in RunId |-> "none"] /\ acked = {}
  /\ cancel = [r \in RunId |-> [pc |-> "none", snap |-> FALSE]]
  /\ flag = [r \in RunId |-> FALSE]
  /\ changed = 0 /\ unnotified = "none"

-----------------------------------------------------------------------------
(***************************************************************************)
(* The signal thread and the server thread.  The first signal, or a failed *)
(* wait for one, sends on the oneshot; later signals find the waiters      *)
(* still registered and do nothing.                                        *)
(***************************************************************************)
Signalled ==
  /\ ~signal
  /\ signal' = TRUE
  /\ UNCHANGED <<lvars, server, serve, start, acked, cancel, flag, changed, unnotified>>

(* listen_until returns, at the stop or with an error: the handlers that    *)
(* are under way are polled no more, and serve_websocket has its answer.    *)
ServerReturns ==
  /\ server = "up"
  /\ server' = "down"
  /\ cancel' = [r \in RunId |-> IF cancel[r].pc \in InCancel
                                  THEN [cancel[r] EXCEPT !.pc = "cut"] ELSE cancel[r]]
  /\ serve' = [serve EXCEPT !.pc = "loop"]
  /\ UNCHANGED <<lvars, signal, start, acked, flag, changed, unnotified>>

Stopped     == signal /\ ServerReturns
ListenFails == ~signal /\ ServerReturns

-----------------------------------------------------------------------------
(***************************************************************************)
(* wait_until_idle, in serve_websocket.                                    *)
(***************************************************************************)
DrainNotified ==
  /\ serve.pc = "loop"
  /\ serve' = [pc |-> "look", snap |-> changed]
  /\ UNCHANGED <<lvars, signal, server, start, acked, cancel, flag, changed, unnotified>>

DrainLook ==
  /\ serve.pc = "look"
  /\ serve' = [serve EXCEPT !.pc = IF count = 0 THEN "returned" ELSE "await"]
  /\ UNCHANGED <<lvars, signal, server, start, acked, cancel, flag, changed, unnotified>>

DrainWoken ==
  /\ serve.pc = "await"
  /\ changed # serve.snap
  /\ serve' = [serve EXCEPT !.pc = "loop"]
  /\ UNCHANGED <<lvars, signal, server, start, acked, cancel, flag, changed, unnotified>>

(* main drops the reactor and returns. *)
Exit ==
  /\ serve.pc = "returned"
  /\ serve' = [serve EXCEPT !.pc = "exited"]
  /\ UNCHANGED <<lvars, signal, server, start, acked, cancel, flag, changed, unnotified>>

-----------------------------------------------------------------------------
(***************************************************************************)
(* StartRun: the handler spawns start_owned on the pool and answers with   *)
(* what it returns.                                                        *)
(***************************************************************************)
MethodStartRun(r) ==
  /\ server = "up"
  /\ start[r] = "none"
  /\ start' = [start EXCEPT ![r] = "spawned"]
  /\ UNCHANGED <<lvars, signal, server, serve, acked, cancel, flag, changed, unnotified>>

(* The request or the launch of its provider fails. *)
TaskRefused(r) ==
  /\ start[r] = "spawned"
  /\ phase[r] = "absent"
  /\ start' = [start EXCEPT ![r] = "none"]
  /\ UNCHANGED <<lvars, signal, server, serve, acked, cancel, flag, changed, unnotified>>

TaskInserted(r) ==
  /\ start[r] = "spawned"
  /\ Free
  /\ Insert(r)
  /\ UNCHANGED svars

(* RunActivity::started counts, and then notifies. *)
TaskCounted(r) ==
  /\ Count(r)
  /\ unnotified' = r
  /\ UNCHANGED <<signal, server, serve, start, acked, cancel, flag, changed>>

(* Mutated form: the handler does not wait for the start it has spawned. *)
TaskAnsweredEarly(r) ==
  /\ start[r] = "spawned"
  /\ server = "up" /\ r \notin acked
  /\ acked' = acked \cup {r}
  /\ UNCHANGED <<lvars, signal, server, serve, start, cancel, flag, changed, unnotified>>

(* start_owned returns, to a handler or to nobody. *)
TaskAnswered(r) ==
  /\ start[r] = "spawned"
  /\ phase[r] \notin {"absent", "inserted"} /\ unnotified # r
  /\ start' = [start EXCEPT ![r] = "ended"]
  /\ acked' = IF server = "up" THEN acked \cup {r} ELSE acked
  /\ UNCHANGED <<lvars, signal, server, serve, cancel, flag, changed, unnotified>>

-----------------------------------------------------------------------------
(***************************************************************************)
(* The end of a run: publish stores the completed flag and notifies, then  *)
(* RunActivity::finished discounts and notifies, all under the lock.       *)
(***************************************************************************)

(* Mutated form: Flag::set notifies, and then stores. *)
RunFinishesNotifiedFirst(r) ==
  /\ Free
  /\ phase[r] = "live"
  /\ IF flag[r] THEN Finish(r) /\ UNCHANGED flag
                ELSE flag' = [flag EXCEPT ![r] = TRUE] /\ UNCHANGED lvars
  /\ UNCHANGED <<signal, server, serve, start, acked, cancel, changed, unnotified>>

RunFinishes(r) ==
  /\ Free
  /\ Finish(r)
  /\ UNCHANGED svars

FlagNotified(r) ==
  /\ phase[r] = "settling" /\ ~flag[r]
  /\ flag' = [flag EXCEPT ![r] = TRUE]
  /\ UNCHANGED <<lvars, signal, server, serve, start, acked, cancel, changed, unnotified>>

RunDiscounted(r) ==
  /\ flag[r]
  /\ Discount(r)
  /\ unnotified' = r
  /\ UNCHANGED <<signal, server, serve, start, acked, cancel, flag, changed>>

(* Mutated form: only a start notifies. *)
ActivityNotifiedOfStarts(r) ==
  /\ unnotified = r
  /\ changed' = IF phase[r] = "live" THEN changed + 1 ELSE changed
  /\ unnotified' = "none"
  /\ UNCHANGED <<lvars, signal, server, serve, start, acked, cancel, flag>>

ActivityNotified(r) ==
  /\ unnotified = r
  /\ changed' = changed + 1
  /\ unnotified' = "none"
  /\ UNCHANGED <<lvars, signal, server, serve, start, acked, cancel, flag>>

-----------------------------------------------------------------------------
(***************************************************************************)
(* CancelRun: the sender is taken and used, and Flag::wait goes round its  *)
(* loop.  A cancel that is refused changes nothing.                        *)
(***************************************************************************)
MethodCancelRun(r) ==
  /\ server = "up"
  /\ cancel[r].pc = "none"
  /\ Free
  /\ Cancel(r)
  /\ cancel' = [cancel EXCEPT ![r].pc = "loop"]
  /\ UNCHANGED <<signal, server, serve, start, acked, flag, changed, unnotified>>

CancelNotified(r) ==
  /\ cancel[r].pc = "loop"
  /\ cancel' = [cancel EXCEPT ![r] = [pc |-> "look", snap |-> flag[r]]]
  /\ UNCHANGED <<lvars, signal, server, serve, start, acked, flag, changed, unnotified>>

CancelLook(r) ==
  /\ cancel[r].pc = "look"
  /\ cancel' = [cancel EXCEPT ![r].pc = IF r \in Completed THEN "answered" ELSE "await"]
  /\ UNCHANGED <<lvars, signal, server, serve, start, acked, flag, changed, unnotified>>

CancelWoken(r) ==
  /\ cancel[r].pc = "await"
  /\ flag[r] # cancel[r].snap
  /\ cancel' = [cancel EXCEPT ![r].pc = "loop"]
  /\ UNCHANGED <<lvars, signal, server, serve, start, acked, flag, changed, unnotified>>

-----------------------------------------------------------------------------
Draining    == DrainNotified \/ DrainLook \/ DrainWoken \/ Exit
Starting(r) == TaskInserted(r) \/ TaskCounted(r) \/ TaskAnswered(r)
Settling(r) == FlagNotified(r) \/ RunDiscounted(r)
Waiting(r)  == CancelNotified(r) \/ CancelLook(r) \/ CancelWoken(r)

WebNext ==
  /\ Alive
  /\ \/ Signalled \/ Stopped \/ ListenFails
     \/ Draining
     \/ \E r \in RunId : \/ MethodStartRun(r) \/ TaskRefused(r) \/ Starting(r)
                         \/ RunFinishes(r) \/ Settling(r) \/ ActivityNotified(r)
                         \/ MethodCancelRun(r) \/ Waiting(r)

WebSpec == WebInit /\ [][WebNext]_webvars

(***************************************************************************)
(* The threads run, the pool and the server poll what can go on, and a run *)
(* whose cancellation was taken ends (as LFairness has it).  Nothing makes *)
(* a client call, a provider end on its own, or an operator send a signal. *)
(***************************************************************************)
WebFairness ==
  /\ WF_webvars(Stopped) /\ WF_webvars(Draining)
  /\ \A r \in RunId :
       /\ WF_webvars(Alive /\ (Starting(r) \/ TaskRefused(r)))
       /\ WF_webvars(Alive /\ Settling(r))
       /\ WF_webvars(Alive /\ ActivityNotified(r))
       /\ WF_webvars(Alive /\ Waiting(r))
       /\ WF_webvars(Alive /\ r \in taken /\ RunFinishes(r))

WebFairSpec == WebSpec /\ WebFairness

-----------------------------------------------------------------------------
(***************************************************************************)
(* Properties.                                                             *)
(***************************************************************************)

(* Every variable has its type. *)
WebTypeOK ==
  /\ LTypeOK
  /\ signal \in BOOLEAN /\ server \in {"up", "down"}
  /\ serve \in [pc : DrainStates, snap : Nat]
  /\ start \in [RunId -> {"none", "spawned", "ended"}]
  /\ acked \subseteq RunId
  /\ cancel \in [RunId -> [pc : CancelStates, snap : BOOLEAN]]
  /\ flag \in [RunId -> BOOLEAN]
  /\ changed \in Nat /\ unnotified \in RunId \cup {"none"}

(* "Keep the process alive until every provider already accepted by this    *)
(* registry settles": when serve_websocket returns, a run whose start a     *)
(* client was told of has settled, though its start and its end are tasks   *)
(* that the listener did not wait for.                                      *)
DrainsAcked == serve.pc \in {"returned", "exited"} => \A r \in acked : phase[r] = "settled"

Quiet == \A r \in RunId : phase[r] \in {"absent", "settled"}

(* "Proxy should exit after the provider run settles": once a signal has    *)
(* been sent or the listener has failed, and the runs have come to rest,    *)
(* the process exits; no end of a run falls between the drain's look at the *)
(* counter and its wait.                                                    *)
DrainEnds == <>[]((signal \/ server = "down") /\ Quiet) => <>(serve.pc = "exited")

(* A CancelRun whose cancellation was taken is answered, unless the server  *)
(* stops first: the completed flag is not set between its look and its wait *)
(* without waking it.                                                       *)
CancelEnds == \A r \in RunId : cancel[r].pc \in InCancel ~> cancel[r].pc \notin InCancel
=============================================================================
