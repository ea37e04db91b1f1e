------------------------------ MODULE Delivery ------------------------------
(***************************************************************************)
(* How the events of one run reach the clients of the Unix socket: publish *)
(* and acknowledge on the run, attach on the registry, the run's broadcast *)
(* channel, and per attachment the forwarder task that handle_connection   *)
(* of crates/proxy/src/lib.rs spawns, with the queue to its connection.    *)
(*                                                                         *)
(* A connection and an attachment are used once: their sets bound how many *)
(* there are.  A forwarder runs until it parks, whether or not it has been *)
(* aborted meanwhile; an abort takes effect when it is next polled.  That  *)
(* a parked receiver is woken by the next send is taken from broadcast.rs. *)
(* Several runs share a connection's queue and nothing else, so there is   *)
(* one.                                                                    *)
(***************************************************************************)
EXTENDS LiveRun, Channel, Functions

CONSTANTS Conn, Att,
          MaxSequence     \* bound: events the run may publish

ASSUME DeliveryAssumption == "none" \notin Att \cup Conn /\ MaxSequence \in Nat

VARIABLES
  run,    \* the LiveRun
  chan,   \* its broadcast channel
  conn,   \* each handler: [pc, new, cur]; cur is its entry in `attachments`
  att,    \* each attachment and its forwarder
  queue,  \* each connection's outbound queue of <<attachment, sequence>>
  got     \* per attachment, the events written to a client that is still there

vars == <<run, chan, conn, att, queue, got>>

Unused == [pc |-> "unused", conn |-> "none", after |-> 0, last |-> 0, next |-> 0,
           replay |-> <<>>, aborted |-> FALSE]

Running == {"waiting", "polling", "lagged"}   \* the forwarder task exists
AttPCs  == {"unused", "held", "done"} \cup Running

Open(c) == conn[c].pc # "closed"

(* The handler returns, and drops the queue with what is in it; nobody reads *)
(* what it wrote any more.                                                   *)
Close(c) ==
  /\ conn' = [conn EXCEPT ![c] = [pc |-> "closed", new |-> "none", cur |-> "none"]]
  /\ queue' = [queue EXCEPT ![c] = <<>>]
  /\ got' = [a \in Att |-> IF att[a].conn = c THEN <<>> ELSE got[a]]

Frames(a, events) == [i \in 1 .. Len(events) |-> <<a, events[i]>>]

(* The last sequence that an attachment stands at after `replay`. *)
Reached(after, replay) == IF replay = <<>> THEN after ELSE replay[Len(replay)]

(* The attachments as they are once the ones in `as` have been aborted. *)
Aborting(as) == [a \in Att |-> IF a \in as THEN [att[a] EXCEPT !.aborted = TRUE] ELSE att[a]]

Init ==
  /\ run = [NewRun EXCEPT !.state = "running"]
  /\ chan = NewChannel
  /\ conn = [c \in Conn |-> [pc |-> "ready", new |-> "none", cur |-> "none"]]
  /\ att = [a \in Att |-> Unused]
  /\ queue = [c \in Conn |-> <<>>]
  /\ got = [a \in Att |-> <<>>]

-----------------------------------------------------------------------------
(***************************************************************************)
(* The registry: publish and acknowledge, under the write lock.            *)
(***************************************************************************)
Publish ==
  /\ run.latest < MaxSequence
  /\ run' = Published(run, "running")
  /\ chan' = SendTo(chan, run.latest + 1)
  /\ UNCHANGED <<conn, att, queue, got>>

Acknowledge(through) ==
  /\ run' = Acknowledged(run, through)
  /\ UNCHANGED <<chan, conn, att, queue, got>>

-----------------------------------------------------------------------------
(***************************************************************************)
(* The handler.  AttachRun calls registry.attach, whose read lock makes    *)
(* the replay and the subscription one step; then it writes the response   *)
(* and the replay, aborts the previous forwarder and spawns the new one.   *)
(***************************************************************************)
Attach(c, a, after) ==
  /\ conn[c].pc = "ready"
  /\ att[a] = Unused
  /\ ~ReplayExpired(run, after)
  /\ LET replay == Replay(run, after)
     IN  att' = [att EXCEPT ![a] = [Unused EXCEPT !.pc = "held", !.conn = c, !.after = after,
                                     !.last = Reached(after, replay),
                                     !.next = End(chan), !.replay = replay]]
  /\ chan' = Subscribed(chan)
  /\ conn' = [conn EXCEPT ![c].pc = "replay", ![c].new = a]
  /\ UNCHANGED <<run, queue, got>>

Attached(c) ==
  LET a == conn[c].new
  IN  /\ conn[c].pc = "replay"
      /\ got' = [got EXCEPT ![a] = att[a].replay]
      /\ att' = [Aborting({conn[c].cur}) EXCEPT ![a].pc = "waiting", ![a].replay = <<>>]
      /\ conn' = [conn EXCEPT ![c] = [pc |-> "ready", new |-> "none", cur |-> a]]
      /\ UNCHANGED <<run, chan, queue>>

(* The write of the response or of the replay fails: the handler returns    *)
(* through `?` and drops the receiver, and does not abort the forwarder     *)
(* that is still running.                                                   *)
AttachFailed(c) ==
  /\ conn[c].pc = "replay"
  /\ att' = [att EXCEPT ![conn[c].new].pc = "done", ![conn[c].new].replay = <<>>]
  /\ chan' = ReceiverGone(chan)
  /\ Close(c)
  /\ UNCHANGED run

Detach(c) ==
  /\ conn[c].pc = "ready"
  /\ conn[c].cur # "none"
  /\ att' = Aborting({conn[c].cur})
  /\ conn' = [conn EXCEPT ![c].cur = "none"]
  /\ UNCHANGED <<run, chan, queue, got>>

(* The peer closes, and the handler aborts what it spawned. *)
HangUp(c) ==
  /\ conn[c].pc = "ready"
  /\ att' = Aborting({conn[c].cur})
  /\ Close(c)
  /\ UNCHANGED <<run, chan>>

(* A queued event is written. *)
Flush(c) ==
  /\ conn[c].pc = "ready"
  /\ queue[c] # <<>>
  /\ LET frame == Head(queue[c])
     IN  got' = [got EXCEPT ![frame[1]] = Append(@, frame[2])]
  /\ queue' = [queue EXCEPT ![c] = Tail(@)]
  /\ UNCHANGED <<run, chan, conn, att>>

(* Any other write or the read fails: `?` leaves the handler, and does not  *)
(* abort what it spawned.                                                   *)
HandlerFails(c) ==
  /\ conn[c].pc = "ready"
  /\ Close(c)
  /\ UNCHANGED <<run, chan, att>>

-----------------------------------------------------------------------------
(***************************************************************************)
(* The forwarder.                                                          *)
(***************************************************************************)

(* The task ends, and its receiver goes. *)
Ends(a) ==
  /\ att' = [att EXCEPT ![a].pc = "done"]
  /\ chan' = ReceiverGone(chan)
  /\ UNCHANGED queue

(* It is polled: aborted since it parked, or woken by a send. *)
Stop(a) ==
  /\ att[a].pc \in {"waiting", "lagged"}
  /\ att[a].aborted
  /\ Ends(a)
  /\ UNCHANGED <<run, conn, got>>

Poll(a) ==
  /\ att[a].pc = "waiting"
  /\ ~att[a].aborted
  /\ att[a].next < End(chan)
  /\ att' = [att EXCEPT ![a].pc = "polling"]
  /\ UNCHANGED <<run, chan, conn, queue, got>>

Park(a) ==
  /\ att[a].pc = "polling"
  /\ att[a].next = End(chan)
  /\ att' = [att EXCEPT ![a].pc = "waiting"]
  /\ UNCHANGED <<run, chan, conn, queue, got>>

(* Mutated form: the task goes on when the queue is gone. *)
ForwardUnchecked(a, events, last, next) ==
  LET c == att[a].conn
  IN  /\ queue' = IF events = <<>> \/ ~Open(c) THEN queue
                  ELSE [queue EXCEPT ![c] = @ \o Frames(a, events)]
      /\ att' = [att EXCEPT ![a].pc = "polling", ![a].last = last, ![a].next = next]
      /\ UNCHANGED chan

(* `events` are put into the queue, if the connection is still there. *)
Forward(a, events, last, next) ==
  LET c == att[a].conn
  IN  IF events # <<>> /\ ~Open(c)
        THEN Ends(a)
        ELSE /\ queue' = IF events = <<>> THEN queue
                         ELSE [queue EXCEPT ![c] = @ \o Frames(a, events)]
             /\ att' = [att EXCEPT ![a].pc = "polling", ![a].last = last, ![a].next = next]
             /\ UNCHANGED chan

(* Mutated form: an event that was replayed is not skipped. *)
RecvValueUnfiltered(a) ==
  /\ att[a].pc = "polling"
  /\ Holds(chan, att[a].next)
  /\ LET s == Value(chan, att[a].next)
     IN  Forward(a, <<s>>, s, att[a].next + 1)
  /\ UNCHANGED <<run, conn, got>>

(* recv returns an event. *)
RecvValue(a) ==
  /\ att[a].pc = "polling"
  /\ Holds(chan, att[a].next)
  /\ LET s == Value(chan, att[a].next)
     IN  IF s <= att[a].last
           THEN Forward(a, <<>>, att[a].last, att[a].next + 1)
           ELSE Forward(a, <<s>>, s, att[a].next + 1)
  /\ UNCHANGED <<run, conn, got>>

(* Mutated form: after a lag the forwarder resumes at the oldest value.     *)
RecvLaggedResumes(a) ==
  /\ att[a].pc = "polling"
  /\ Lags(chan, att[a].next)
  /\ att' = [att EXCEPT ![a].next = chan.head]
  /\ UNCHANGED <<run, chan, conn, queue, got>>

(* recv returns Lagged. *)
RecvLagged(a) ==
  /\ att[a].pc = "polling"
  /\ Lags(chan, att[a].next)
  /\ att' = [att EXCEPT ![a].next = chan.head, ![a].pc = "lagged"]
  /\ UNCHANGED <<run, chan, conn, queue, got>>

(* Mutated form: the forwarder gives up when there is nothing to replay.    *)
ReattachOrGiveUp(a) ==
  /\ att[a].pc = "lagged"
  /\ LET replay == Replay(run, att[a].last)
     IN  IF ReplayExpired(run, att[a].last) \/ replay = <<>>
           THEN Ends(a)
           ELSE Forward(a, replay, Reached(att[a].last, replay), End(chan))
  /\ UNCHANGED <<run, conn, got>>

(* It attaches again from where it stands: refused, it ends in silence;     *)
(* otherwise it forwards the replay and goes on with the new receiver.      *)
Reattach(a) ==
  /\ att[a].pc = "lagged"
  /\ LET replay == Replay(run, att[a].last)
     IN  IF ReplayExpired(run, att[a].last)
           THEN Ends(a)
           ELSE Forward(a, replay, Reached(att[a].last, replay), End(chan))
  /\ UNCHANGED <<run, conn, got>>

-----------------------------------------------------------------------------
Handler(c) == Attached(c) \/ Flush(c)

Client(c) ==
  \/ \E a \in Att, n \in 0 .. MaxSequence - 1 : Attach(c, a, n)   \* bound: n below the last event
  \/ Detach(c)
  \/ HangUp(c) \/ HandlerFails(c) \/ AttachFailed(c)

Forwarder(a) ==
  \/ Stop(a) \/ Poll(a) \/ Park(a)
  \/ RecvValue(a) \/ RecvLagged(a) \/ Reattach(a)

Next ==
  \/ Publish
  \/ \E n \in 1 .. run.latest : Acknowledge(n)
  \/ \E c \in Conn : Client(c) \/ Handler(c)
  \/ \E a \in Att : Forwarder(a)

Spec == Init /\ [][Next]_vars

(* The pool polls every task that can go on, and a write ends unless the    *)
(* connection fails.                                                        *)
Fairness == /\ \A c \in Conn : WF_vars(Handler(c))
            /\ \A a \in Att : WF_vars(Forwarder(a))

FairSpec == Spec /\ Fairness

-----------------------------------------------------------------------------
(***************************************************************************)
(* Properties.                                                             *)
(***************************************************************************)

Attachments == [pc : AttPCs, conn : Conn \cup {"none"}, after : Nat, last : Nat, next : Nat,
                replay : Seq(Nat), aborted : BOOLEAN]

(* Every variable has its type, and the channel never holds more than its   *)
(* capacity.                                                                *)
TypeOK ==
  /\ run \in LiveRuns
  /\ chan \in Channels(Nat) /\ Len(chan.buffer) <= Capacity
  /\ conn \in [Conn -> [pc : {"ready", "replay", "closed"},
                        new : Att \cup {"none"}, cur : Att \cup {"none"}]]
  /\ att \in [Att -> Attachments]
  /\ queue \in [Conn -> Seq(Att \X Nat)]
  /\ got \in [Att -> Seq(Nat)]

Ascending(events) == \A i, j \in 1 .. Len(events) : i < j => events[i] < events[j]

(* Each attachment is given events above its cursor, in ascending order and *)
(* none twice, however its forwarder lagged and replayed: first what has    *)
(* been written or is being replayed, then what waits in the queue of its   *)
(* connection.                                                              *)
InOrder ==
  \A a \in Att :
    LET first == got[a] \o att[a].replay
    IN  /\ Ascending(first)
        /\ \A i \in 1 .. Len(first) : first[i] > att[a].after
        /\ \A c \in Conn : \A k \in 1 .. Len(queue[c]) :
             queue[c][k][1] = a =>
               /\ queue[c][k][2] > att[a].after
               /\ \A i \in 1 .. Len(first) : first[i] < queue[c][k][2]
               /\ \A i \in 1 .. k - 1 :
                    queue[c][i][1] = a => queue[c][i][2] < queue[c][k][2]

(* What attachment a has been given so far: written, queued, or about to be *)
(* replayed.                                                                *)
Queued(a) == {e \in 1 .. run.latest : \E c \in Conn : <<a, e>> \in Range(queue[c])}
Given(a)  == Range(got[a]) \cup Range(att[a].replay) \cup Queued(a)

(* What attachment a will still be given if nothing else happens: what its  *)
(* receiver has not taken or, if that lags, what the journal still holds.   *)
Coming(a) ==
  IF att[a].pc = "lagged" \/ Lags(chan, att[a].next)
    THEN Range(run.journal)
    ELSE Upcoming(chan, att[a].next)

(* No event falls between the replay and the live events, nor into a lag:   *)
(* each event above the cursor has been given, is coming, or was            *)
(* acknowledged; only a forwarder that lags behind the replay floor, which  *)
(* is about to be refused and to end, may have lost some.  So it is for as  *)
(* long as the connection is open.                                          *)
NothingLost ==
  \A a \in Att :
    att[a].pc \in Running \cup {"held"} /\ Open(att[a].conn) =>
      \/ ReplayExpired(run, att[a].last)
      \/ (Larger(att[a].after, run.acked) + 1) .. run.latest \subseteq Coming(a) \cup Given(a)

(* A forwarder whose connection is open and that was not aborted ends only  *)
(* because the events it needs have left the journal.                       *)
EndsOnlyExpired ==
  \A a \in Att :
    att[a].pc = "done" /\ ~att[a].aborted /\ Open(att[a].conn)
      => ReplayExpired(run, att[a].last)

(* The replay of an attach that was not refused begins right after the      *)
(* cursor ("replays events after a sequence cursor").                       *)
ReplayFromCursor ==
  \A a \in Att : att[a].replay # <<>> => att[a].replay[1] = att[a].after + 1

(* What has been written on connection c, by all its attachments, and what  *)
(* its client has heard of: that, and what it claimed in an AttachRun.      *)
Written(c) == UNION {Range(got[a]) : a \in {b \in Att : att[b].conn = c}}
Heard(c)   == Written(c) \cup {att[a].after : a \in {b \in Att : att[b].conn = c}}

(* A frame does not say to which attachment it belongs, and what the        *)
(* previous attachment had queued is written after the replay of the next.  *)
(* A client that keeps the highest sequence it has heard of, and drops what *)
(* comes at or below it, still misses nothing: whatever is written on a     *)
(* connection, no event above that sequence is passed over, unless it was   *)
(* acknowledged.                                                            *)
Gapless ==
  [][\A c \in Conn : conn'[c].pc # "replay" =>
       \A e \in Heard(c)' : \A d \in 1 .. e :
         \/ d <= run.acked
         \/ d \in Written(c)'
         \/ \E k \in Heard(c) : d <= k]_vars

(* Every event published reaches a client attached below it, unless it is   *)
(* acknowledged, or the attachment ends.  The attachments can be exchanged  *)
(* for one another, so this is said of one of them.                         *)
Delivers ==
  LET a == CHOOSE x \in Att : TRUE
  IN  \A e \in 1 .. MaxSequence :
        (att[a].pc \in Running /\ att[a].after < e /\ e <= run.latest)
          ~> \/ e \in Range(got[a])
             \/ e <= run.acked
             \/ att[a].pc = "done" \/ att[a].aborted
             \/ \E c \in Conn : c = att[a].conn /\ ~Open(c)

(* A handler that fails leaves its forwarder running, with nobody to abort  *)
(* it.  It does not outlive the next event: whether it takes the event from *)
(* the channel or, after a lag, from the journal, it finds the queue gone   *)
(* and ends, unless the event was acknowledged before it could be replayed. *)
LetsGo ==
  LET a == CHOOSE x \in Att : TRUE
  IN  (/\ att[a].pc \in Running /\ \E c \in Conn : c = att[a].conn /\ ~Open(c)
       /\ att[a].last < run.latest)
        ~> (att[a].pc = "done" \/ run.latest <= run.acked)
=============================================================================
