----------------------------- MODULE Admission -----------------------------
(***************************************************************************)
(* ProxyServer of crates/proxy/src/lib.rs, as far as it decides when runs  *)
(* are admitted and when the daemon stops: the accept loop, the connection *)
(* handlers, the lifecycle lock they hold across a write to the client,    *)
(* the drain task and the shutdown flag.  The registry is the one that     *)
(* RunLifecycle specifies.                                                 *)
(*                                                                         *)
(* A handler's step ends where it awaits.  Requests that neither change    *)
(* this state nor take the lifecycle lock (list, probe, usage, attach,     *)
(* detach, inject, decide, interrupt, acknowledge) are left out, and so    *)
(* is the hello exchange that precedes them.                               *)
(***************************************************************************)
EXTENDS RunLifecycle

CONSTANT Conn     \* connections the server may have open at once

ASSUME ConnAssumption == "free" \notin Conn

VARIABLES
  stopping,  \* Lifecycle.stopping
  lock,      \* the connection that holds the lifecycle lock, or "free"
  conn,      \* where each handler is: [pc, req, run, reply]
  drain,     \* where the drain task is
  shutdown,  \* the shutdown Flag
  serving    \* serve() has not returned

avars == <<stopping, lock, conn, drain, shutdown, serving>>
vars  == <<phase, count, taken, stopping, lock, conn, drain, shutdown, serving>>

Gated    == {"if_idle", "drain", "terminate", "start"}   \* take the lifecycle lock
Requests == Gated \cup {"cancel"}
PCs      == {"closed", "ready", "gate", "start", "count", "wait", "send"}

Closed == [pc |-> "closed", req |-> "none", run |-> "none", reply |-> "none"]
Ready  == [Closed EXCEPT !.pc = "ready"]

Go(c, pc) == conn' = [conn EXCEPT ![c].pc = pc]

(* The reply is ready to be written. *)
Reply(c, reply) == conn' = [conn EXCEPT ![c].pc = "send", ![c].reply = reply]

At(c, pc, reqs) == conn[c].pc = pc /\ conn[c].req \in reqs

(* The handler drops the guard of the lifecycle lock, if it holds it. *)
Release(c) == lock' = IF lock = c THEN "free" ELSE lock

Init ==
  /\ LInit
  /\ stopping = FALSE
  /\ lock = "free"
  /\ conn = [c \in Conn |-> Closed]
  /\ drain = "none"
  /\ shutdown = FALSE
  /\ serving = TRUE

-----------------------------------------------------------------------------
(***************************************************************************)
(* The accept loop, and the head of a handler's loop.                      *)
(***************************************************************************)
Accept(c) ==
  /\ serving
  /\ conn[c] = Closed
  /\ conn' = [conn EXCEPT ![c] = Ready]
  /\ UNCHANGED <<lvars, stopping, lock, drain, shutdown, serving>>

ServeEnds ==
  /\ serving
  /\ shutdown
  /\ serving' = FALSE
  /\ UNCHANGED <<lvars, stopping, lock, conn, drain, shutdown>>

(* accept itself fails: `?` leaves serve, whatever is still running. *)
AcceptFails ==
  /\ serving
  /\ serving' = FALSE
  /\ UNCHANGED <<lvars, stopping, lock, conn, drain, shutdown>>

HangUp(c) ==
  /\ conn[c].pc = "ready"
  /\ conn' = [conn EXCEPT ![c] = Closed]
  /\ UNCHANGED <<lvars, stopping, lock, drain, shutdown, serving>>

(* A request that asks for the lifecycle lock is read. *)
Ask(c, req, r) ==
  /\ conn[c].pc = "ready"
  /\ conn' = [conn EXCEPT ![c] = [pc |-> "gate", req |-> req, run |-> r, reply |-> "none"]]
  /\ UNCHANGED <<lvars, stopping, lock, drain, shutdown, serving>>

-----------------------------------------------------------------------------
(***************************************************************************)
(* Mutated forms: the counter is not looked at; the lock is not taken.     *)
(***************************************************************************)
ShutdownIfIdleUnchecked(c) ==
  /\ At(c, "gate", {"if_idle"})
  /\ lock = "free" /\ lock' = c
  /\ stopping' = TRUE /\ Reply(c, "accepted")
  /\ UNCHANGED <<lvars, drain, shutdown, serving>>

ShutdownUnlocked(c) ==
  /\ At(c, "gate", {"drain", "terminate"})
  /\ IF stopping THEN Reply(c, "error") /\ UNCHANGED stopping
                 ELSE Reply(c, "accepted") /\ stopping' = TRUE
  /\ UNCHANGED <<lvars, lock, drain, shutdown, serving>>

-----------------------------------------------------------------------------
(***************************************************************************)
(* The requests.  Each of the first three takes the lock, looks at the     *)
(* flag or at the counter, and has its reply ready before it awaits again. *)
(***************************************************************************)
ShutdownIfIdle(c) ==
  /\ At(c, "gate", {"if_idle"})
  /\ lock = "free" /\ lock' = c
  /\ IF count > 0 THEN Reply(c, "error") /\ UNCHANGED stopping
                  ELSE Reply(c, "accepted") /\ stopping' = TRUE
  /\ UNCHANGED <<lvars, drain, shutdown, serving>>

Shutdown(c) ==
  /\ At(c, "gate", {"drain", "terminate"})
  /\ lock = "free" /\ lock' = c
  /\ IF stopping THEN Reply(c, "error") /\ UNCHANGED stopping
                 ELSE Reply(c, "accepted") /\ stopping' = TRUE
  /\ UNCHANGED <<lvars, drain, shutdown, serving>>

StartRun(c) ==
  /\ At(c, "gate", {"start"})
  /\ lock = "free" /\ lock' = c
  /\ IF stopping THEN Reply(c, "error") ELSE Go(c, "start")
  /\ UNCHANGED <<lvars, stopping, drain, shutdown, serving>>

(* registry.start: the run is refused, or inserted and then counted. *)
StartRefused(c) ==
  /\ conn[c].pc = "start"
  /\ Reply(c, "error")
  /\ UNCHANGED <<lvars, stopping, lock, drain, shutdown, serving>>

StartInserted(c) ==
  /\ conn[c].pc = "start"
  /\ Insert(conn[c].run)
  /\ Go(c, "count")
  /\ UNCHANGED <<stopping, lock, drain, shutdown, serving>>

StartCounted(c) ==
  /\ conn[c].pc = "count"
  /\ Count(conn[c].run)
  /\ Reply(c, "accepted")
  /\ UNCHANGED <<stopping, lock, drain, shutdown, serving>>

(* CancelRun.  A cancel that is refused changes nothing.  The reply waits   *)
(* for the run's completed flag, which is set before the run is discounted. *)
CancelRun(c, r) ==
  /\ conn[c].pc = "ready"
  /\ Cancel(r)
  /\ conn' = [conn EXCEPT ![c] = [pc |-> "wait", req |-> "cancel", run |-> r, reply |-> "none"]]
  /\ UNCHANGED <<stopping, lock, drain, shutdown, serving>>

CancelCompleted(c) ==
  /\ conn[c].pc = "wait"
  /\ phase[conn[c].run] \in {"settling", "settled"}
  /\ Reply(c, "accepted")
  /\ UNCHANGED <<lvars, stopping, lock, drain, shutdown, serving>>

-----------------------------------------------------------------------------
(***************************************************************************)
(* The reply is written.  The handler of an accepted shutdown returns: the *)
(* idle one sets the flag, the other spawns the drain task.                *)
(***************************************************************************)
Sent(c) ==
  /\ conn[c].pc = "send"
  /\ Release(c)
  /\ LET stops(reqs) == conn[c].reply = "accepted" /\ conn[c].req \in reqs
     IN  /\ conn' = [conn EXCEPT ![c] = IF stops({"if_idle", "drain", "terminate"})
                                          THEN Closed ELSE Ready]
         /\ shutdown' = (shutdown \/ stops({"if_idle"}))
         /\ drain' = CASE stops({"drain"})     -> "wait"
                       [] stops({"terminate"}) -> "cancel"
                       [] OTHER                -> drain
  /\ UNCHANGED <<lvars, stopping, serving>>

(* The peer has gone: `?` leaves the handler before what follows the write. *)
SendFailed(c) ==
  /\ conn[c].pc = "send"
  /\ Release(c)
  /\ conn' = [conn EXCEPT ![c] = Closed]
  /\ UNCHANGED <<lvars, stopping, drain, shutdown, serving>>

-----------------------------------------------------------------------------
(***************************************************************************)
(* The drain task.                                                         *)
(***************************************************************************)

(* Mutated form: a terminating shutdown only waits. *)
DrainCancelSkipped ==
  /\ drain = "cancel"
  /\ drain' = "wait"
  /\ UNCHANGED <<lvars, stopping, lock, conn, shutdown, serving>>

DrainCancel ==
  /\ drain = "cancel"
  /\ CancelAll
  /\ drain' = "wait"
  /\ UNCHANGED <<stopping, lock, conn, shutdown, serving>>

(* wait_until_idle returns, and the flag is set. *)
DrainIdle ==
  /\ drain = "wait"
  /\ count = 0
  /\ drain' = "done"
  /\ shutdown' = TRUE
  /\ UNCHANGED <<lvars, stopping, lock, conn, serving>>

(* A run's own task ends it, naturally or because it was cancelled. *)
RunEnds(r) == (Finish(r) \/ Discount(r)) /\ UNCHANGED avars

-----------------------------------------------------------------------------
Handler(c) ==
  \/ ShutdownIfIdle(c) \/ Shutdown(c) \/ StartRun(c)
  \/ StartInserted(c) \/ StartRefused(c) \/ StartCounted(c)
  \/ CancelCompleted(c)

(* The write of a reply ends when the client has read it, or has gone. *)
Write(c) == Sent(c) \/ SendFailed(c)

Client(c) ==
  \/ HangUp(c)
  \/ \E r \in RunId : Ask(c, "start", r) \/ CancelRun(c, r)
  \/ \E req \in Gated \ {"start"} : Ask(c, req, "none")

Next ==
  \/ \E c \in Conn : Accept(c) \/ Client(c) \/ Handler(c) \/ Write(c)
  \/ \E r \in RunId : RunEnds(r)
  \/ ServeEnds \/ AcceptFails \/ DrainCancel \/ DrainIdle

Spec == Init /\ [][Next]_vars

(***************************************************************************)
(* The pool polls every task that can go on, and a run whose cancellation  *)
(* was taken ends (LFairness, which RunRegistry implements).  Nothing      *)
(* makes a client send a request or read a reply, so a write may last      *)
(* forever, under the lifecycle lock too; nor does a provider have to end  *)
(* on its own.                                                             *)
(***************************************************************************)
Fairness ==
  /\ \A c \in Conn : WF_vars(Handler(c))
  /\ \A r \in RunId : /\ WF_vars(Discount(r) /\ UNCHANGED avars)
                      /\ WF_vars(r \in taken /\ Finish(r) /\ UNCHANGED avars)
  /\ WF_vars(ServeEnds) /\ WF_vars(DrainCancel) /\ WF_vars(DrainIdle)

FairSpec == Spec /\ Fairness

(* As FairSpec, with clients that all read their replies or go, and         *)
(* providers that all end by themselves.                                    *)
EndingSpec ==
  /\ FairSpec
  /\ \A c \in Conn : WF_vars(Write(c))
  /\ \A r \in RunId : WF_vars(Finish(r) /\ UNCHANGED avars)

-----------------------------------------------------------------------------
(***************************************************************************)
(* Properties.                                                             *)
(***************************************************************************)

(* Every variable has its type, and only a handler that has passed the      *)
(* gate, and not yet written its reply, holds the lifecycle lock.           *)
TypeOK ==
  /\ LTypeOK
  /\ stopping \in BOOLEAN /\ shutdown \in BOOLEAN /\ serving \in BOOLEAN
  /\ lock \in Conn \cup {"free"}
  /\ drain \in {"none", "cancel", "wait", "done"}
  /\ \A c \in Conn :
       /\ conn[c] \in [pc : PCs, req : Requests \cup {"none"}, run : RunId \cup {"none"},
                       reply : {"none", "accepted", "error"}]
       /\ (lock = c) = (conn[c].pc \in {"start", "count", "send"} /\ conn[c].req \in Gated)

(* "Stop the daemon only when no provider run is still live": once the      *)
(* shutdown flag is set, whichever request set it, every run the registry   *)
(* has ever accepted has settled, and stays so until the process exits.     *)
StopsOnlyWhenIdle == shutdown => \A r \in RunId : phase[r] \in {"absent", "settled"}

(* "Once the acknowledgement is visible, no new provider can pass the       *)
(* admission gate while existing runs drain": no start that raced the       *)
(* shutdown through the lock inserts its run afterwards.                    *)
AdmissionCloses ==
  [][stopping => \A r \in RunId : phase[r] = "absent" => phase'[r] = "absent"]_vars

(* A terminating shutdown whose acknowledgement was written stops the       *)
(* daemon, even if the runs it finds are being cancelled by clients and     *)
(* would never end by themselves, and even if a client that does not read   *)
(* its reply keeps the lifecycle lock for good.                             *)
TerminateStops == drain = "cancel" ~> ~serving

(* "Stop admitting runs, then shut down after the selected policy settles   *)
(* every provider process already owned by the daemon": a daemon that has   *)
(* begun to refuse runs stops, if its providers all end.                    *)
StoppingStops == stopping ~> ~serving
=============================================================================
