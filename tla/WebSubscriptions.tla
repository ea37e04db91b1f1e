-------------------------- MODULE WebSubscriptions --------------------------
(***************************************************************************)
(* RunSubscriptions of crates/proxy/src/web.rs: the table of live event    *)
(* forwarders, one per connection and run, that SubscribeRun,              *)
(* UnsubscribeRun, the disconnect hook and the forwarders themselves       *)
(* change from different threads.                                          *)
(*                                                                         *)
(* A forwarder is named by its generation.  What it forwards, and how it   *)
(* recovers from a lag, is the loop that Delivery models; here it sends    *)
(* some events, and ends when its connection is unknown to the toolbox or  *)
(* when its replay has expired.  A connection's requests are handled one   *)
(* at a time, on the connection's own task; a forwarder runs on the pool.  *)
(***************************************************************************)
EXTENDS Naturals

CONSTANTS Conn, Run,
          MaxGeneration,   \* bound: subscriptions ever made
          MaxEvents        \* bound: events one forwarder sends

ASSUME WebSubscriptionsAssumption == MaxGeneration \in Nat /\ MaxEvents \in Nat

VARIABLES
  active,      \* the table: the generation at each key, 0 if there is none
  generation,  \* next_generation
  forwarder,   \* each forwarder: [key, pc, aborted, events]
  conn,        \* where each connection is: [pc, gen]
  answered     \* history: the subscriptions whose response was sent

vars == <<active, generation, forwarder, conn, answered>>

Key         == Conn \X Run
Generations == 1 .. MaxGeneration

ForwarderPCs == {"none", "held", "waiting", "running", "cleanup", "gone"}
ConnPCs      == {"ready", "attached", "registered", "spawned", "lost", "closed"}

NoForwarder == [key |-> <<>>, pc |-> "none", aborted |-> FALSE, events |-> 0]

(* `forward`, wrapped in abortable and not yet spawned. *)
Held(k) == [key |-> k, pc |-> "held", aborted |-> FALSE, events |-> 0]

(* The forwarder is on the pool and has not ended. *)
Live(g) == forwarder[g].pc \in {"waiting", "running", "cleanup"}

Enter(g, pc) == forwarder' = [forwarder EXCEPT ![g].pc = pc]

(* The forwarders once those in gs have been aborted. *)
Aborting(gs) == [g \in Generations |->
                   IF g \in gs THEN [forwarder[g] EXCEPT !.aborted = TRUE] ELSE forwarder[g]]

Init ==
  /\ active = [k \in Key |-> 0]
  /\ generation = 0
  /\ forwarder = [g \in Generations |-> NoForwarder]
  /\ conn = [c \in Conn |-> [pc |-> "ready", gen |-> 0]]
  /\ answered = {}

-----------------------------------------------------------------------------
(***************************************************************************)
(* MethodSubscribeRun.  Only attach awaits; from there on the handler runs *)
(* to its end, while the pool runs the forwarders.                         *)
(***************************************************************************)

(* Mutated form: the counter is read and not advanced. *)
AttachedUncounted(c, r) ==
  /\ conn[c].pc = "ready"
  /\ generation < MaxGeneration
  /\ forwarder' = [forwarder EXCEPT ![generation + 1] = Held(<<c, r>>)]
  /\ conn' = [conn EXCEPT ![c] = [pc |-> "attached", gen |-> generation + 1]]
  /\ UNCHANGED <<active, generation, answered>>

(* attach was not refused, and the generation is taken. *)
Attached(c, r) ==
  /\ conn[c].pc = "ready"
  /\ generation < MaxGeneration
  /\ generation' = generation + 1
  /\ forwarder' = [forwarder EXCEPT ![generation'] = Held(<<c, r>>)]
  /\ conn' = [conn EXCEPT ![c] = [pc |-> "attached", gen |-> generation']]
  /\ UNCHANGED <<active, answered>>

(* insert, which aborts the forwarder that was there. *)
Insert(c) ==
  LET g == conn[c].gen
      k == forwarder[g].key
  IN  /\ conn[c].pc = "attached"
      /\ active' = [active EXCEPT ![k] = g]
      /\ forwarder' = Aborting({active[k]})
      /\ conn' = [conn EXCEPT ![c].pc = "registered"]
      /\ UNCHANGED <<generation, answered>>

Spawn(c) ==
  /\ conn[c].pc = "registered"
  /\ Enter(conn[c].gen, "waiting")
  /\ conn' = [conn EXCEPT ![c].pc = "spawned"]
  /\ UNCHANGED <<active, generation, answered>>

(* The handler returns, and the server sends its response. *)
Respond(c) ==
  /\ conn[c].pc = "spawned"
  /\ answered' = answered \cup {conn[c].gen}
  /\ conn' = [conn EXCEPT ![c] = [pc |-> "ready", gen |-> 0]]
  /\ UNCHANGED <<active, generation, forwarder>>

-----------------------------------------------------------------------------
(* MethodUnsubscribeRun.  The abort follows the unlock, here and in         *)
(* disconnect; only this connection's requests could look up the key in     *)
(* between, and they wait.                                                  *)
Unsubscribe(c, r) ==
  /\ conn[c].pc = "ready"
  /\ active[<<c, r>>] # 0
  /\ forwarder' = Aborting({active[<<c, r>>]})
  /\ active' = [active EXCEPT ![<<c, r>>] = 0]
  /\ UNCHANGED <<generation, conn, answered>>

(* The connection ends: the toolbox forgets it, and the disconnect hook     *)
(* runs.                                                                    *)
Lose(c) ==
  /\ conn[c].pc = "ready"
  /\ conn' = [conn EXCEPT ![c].pc = "lost"]
  /\ UNCHANGED <<active, generation, forwarder, answered>>

(* Mutated form: the entries are removed and their forwarders left alone. *)
DisconnectUnaborted(c) ==
  /\ conn[c].pc = "lost"
  /\ active' = [k \in Key |-> IF k[1] = c THEN 0 ELSE active[k]]
  /\ conn' = [conn EXCEPT ![c].pc = "closed"]
  /\ UNCHANGED <<generation, forwarder, answered>>

Disconnect(c) ==
  /\ conn[c].pc = "lost"
  /\ forwarder' = Aborting({active[k] : k \in {<<c, r>> : r \in Run}})
  /\ active' = [k \in Key |-> IF k[1] = c THEN 0 ELSE active[k]]
  /\ conn' = [conn EXCEPT ![c].pc = "closed"]
  /\ UNCHANGED <<generation, answered>>

-----------------------------------------------------------------------------
(***************************************************************************)
(* The forwarder: abortable(forward_run_events, then remove_if_current).   *)
(***************************************************************************)

(* It is polled: aborted since it last awaited, or with something to do. *)
Stop(g) ==
  /\ forwarder[g].pc = "waiting"
  /\ forwarder[g].aborted
  /\ Enter(g, "gone")
  /\ UNCHANGED <<active, generation, conn, answered>>

Poll(g) ==
  /\ forwarder[g].pc = "waiting"
  /\ ~forwarder[g].aborted
  /\ forwarder[g].events < MaxEvents
  /\ Enter(g, "running")
  /\ UNCHANGED <<active, generation, conn, answered>>

Park(g) ==
  /\ forwarder[g].pc = "running"
  /\ Enter(g, "waiting")
  /\ UNCHANGED <<active, generation, conn, answered>>

(* send_run_event, which is refused once the connection is not known. *)
Send(g) ==
  LET c == forwarder[g].key[1]
  IN  /\ forwarder[g].pc = "running"
      /\ forwarder[g].events < MaxEvents
      /\ IF conn[c].pc \in {"lost", "closed"}
           THEN Enter(g, "cleanup")
           ELSE forwarder' = [forwarder EXCEPT ![g].events = @ + 1]
      /\ UNCHANGED <<active, generation, conn, answered>>

(* It lags, and attach refuses it. *)
Expire(g) ==
  /\ forwarder[g].pc = "running"
  /\ Enter(g, "cleanup")
  /\ UNCHANGED <<active, generation, conn, answered>>

(* Mutated forms: whatever is at the key is removed; nothing is.            *)
CleanupAny(g) ==
  /\ forwarder[g].pc = "cleanup"
  /\ active' = [active EXCEPT ![forwarder[g].key] = 0]
  /\ Enter(g, "gone")
  /\ UNCHANGED <<generation, conn, answered>>

CleanupForgotten(g) ==
  /\ forwarder[g].pc = "cleanup"
  /\ Enter(g, "gone")
  /\ UNCHANGED <<active, generation, conn, answered>>

(* remove_if_current.  Nothing awaits between the end of the loop and this, *)
(* so an abort that comes in between does not prevent it.                   *)
Cleanup(g) ==
  /\ forwarder[g].pc = "cleanup"
  /\ active' = [active EXCEPT ![forwarder[g].key] = IF @ = g THEN 0 ELSE @]
  /\ Enter(g, "gone")
  /\ UNCHANGED <<generation, conn, answered>>

-----------------------------------------------------------------------------
Handler(c)   == Insert(c) \/ Spawn(c) \/ Respond(c) \/ Disconnect(c)
Client(c)    == Lose(c) \/ \E r \in Run : Attached(c, r) \/ Unsubscribe(c, r)
Forwarder(g) == Stop(g) \/ Poll(g) \/ Park(g) \/ Send(g) \/ Expire(g) \/ Cleanup(g)

Next ==
  \/ \E c \in Conn : Client(c) \/ Handler(c)
  \/ \E g \in Generations : Forwarder(g)

Spec == Init /\ [][Next]_vars

(* A handler that does not await runs to its end, the hook follows the loss *)
(* of its connection, and the pool polls a forwarder that runs or is        *)
(* aborted.  Nothing makes an event come.                                   *)
Fairness ==
  /\ \A c \in Conn : WF_vars(Handler(c))
  /\ \A g \in Generations : WF_vars(Stop(g) \/ Park(g) \/ Send(g) \/ Cleanup(g))

FairSpec == Spec /\ Fairness

-----------------------------------------------------------------------------
(***************************************************************************)
(* Properties.                                                             *)
(***************************************************************************)

(* Every variable has its type, and the generations handed out are those of *)
(* the forwarders made.                                                     *)
TypeOK ==
  /\ active \in [Key -> 0 .. MaxGeneration]
  /\ generation \in 0 .. MaxGeneration
  /\ forwarder \in [Generations -> [key : Key \cup {<<>>}, pc : ForwarderPCs,
                                    aborted : BOOLEAN, events : 0 .. MaxEvents]]
  /\ \A g \in Generations : forwarder[g].pc = "none" <=> g > generation
  /\ conn \in [Conn -> [pc : ConnPCs, gen : 0 .. MaxGeneration]]
  /\ answered \subseteq Generations

(* "Registered before the forwarder is spawned ... left a stale entry       *)
(* behind until disconnect; this order cannot": an entry belongs to a       *)
(* forwarder of its key that has not ended, and to a connection that has    *)
(* not been disconnected.                                                   *)
NoStaleEntry ==
  \A k \in Key : active[k] # 0 => /\ forwarder[active[k]].key = k
                                  /\ forwarder[active[k]].pc \notin {"none", "gone"}
                                  /\ conn[k[1]].pc # "closed"

(* Whatever order subscriptions, ends and cleanups come in, a forwarder     *)
(* that nobody has aborted is the one its entry names, so that it can be    *)
(* replaced, unsubscribed or disconnected; two never run for one key.       *)
NoOrphan ==
  \A g \in Generations : Live(g) /\ ~forwarder[g].aborted => active[forwarder[g].key] = g

(* A connection that is lost leaves no forwarder behind, even if no event   *)
(* ever comes again.                                                        *)
LostIsReleased ==
  \A c \in Conn :
    conn[c].pc = "lost" ~> \A g \in Generations :
                             forwarder[g].key \in {<<c, r>> : r \in Run} => forwarder[g].pc = "gone"

(* "Returns a run snapshot and ordered replay, then pushes new events": no  *)
(* event of a subscription precedes its response.                           *)
ResponseFirst == \A g \in Generations : forwarder[g].events > 0 => g \in answered
=============================================================================
